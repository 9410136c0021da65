----------------------------- MODULE KillSwitch -----------------------------
(***************************************************************************)
(* The kill-switch file and those who write it: the watchdog, when the     *)
(* signer's heartbeat is stale; the auto-kill check, when a risk trigger   *)
(* fires; and the operator, by command.  Whoever asks for its status also  *)
(* clears it when the active reason names a stale heartbeat.               *)
(*                                                                         *)
(* Each of them looks, writes the file and appends to the kill-switch      *)
(* audit in separate steps, and they are processes of their own.  Where    *)
(* the file gives no reason the latest halt or resume of the audit does.   *)
(***************************************************************************)
CONSTANT Reader         \* processes that ask for the status

VARIABLES
    file,       \* what the file holds, or "absent"
    trace,      \* the reason of the latest halt or resume in the audit
    stale,      \* whether the heartbeat is older than its limit
    watchdog,   \* where the watchdog's cycle is
    autoKill,   \* where the auto-kill check is
    fired,      \* the triggers it found
    operator,   \* idle, or the reason that the operator's command has yet to audit
    reader,     \* where each status request is
    seen,       \* the reason each read from the audit
    tripped,    \* history: a trip was reported, of a file that is not an operator's
                \* on the heartbeat, and no operator resumed or wrote such a file since
    standing    \* history: the halts made while nobody was about to undo them

vars == <<file, trace, stale, watchdog, autoKill, fired, operator, reader, seen,
          tripped, standing>>

\* The watchdog writes a bare time, the auto-kill check its event, which has
\* triggers and no reason; only the operator's command writes a reason, which is
\* what the operator types and may name the heartbeat too.
File == {"absent", "time", "event", "reasoned", "heartbeat reason"}

\* The auto-kill check names its triggers in the reason it audits.
Trigger == {"hazard", "hazard and heartbeat"}

Reason == {"none", "watchdog", "operator", "operator on heartbeat"} \cup Trigger

\* The reasons that contain "heartbeat_stale".
NamesHeartbeat == {"watchdog", "hazard and heartbeat", "operator on heartbeat"}

TypeOK ==
    /\ file \in File
    /\ trace \in Reason
    /\ stale \in BOOLEAN
    /\ watchdog \in {"idle", "writing", "auditing"}
    /\ autoKill \in {"idle", "writing", "auditing"}
    /\ fired \in Trigger
    /\ operator \in {"idle", "operator", "operator on heartbeat"}
    /\ reader \in [Reader -> {"idle", "judging", "clearing"}]
    /\ seen \in [Reader -> Reason]
    /\ tripped \in BOOLEAN
    /\ standing \subseteq {"operator", "trip"}

Init ==
    /\ file = "absent" /\ trace = "none" /\ stale = FALSE
    /\ watchdog = "idle" /\ autoKill = "idle" /\ operator = "idle"
    /\ fired \in Trigger
    /\ reader = [q \in Reader |-> "idle"]
    /\ seen = [q \in Reader |-> "none"]
    /\ tripped = FALSE /\ standing = {}

-----------------------------------------------------------------------------
(* The watchdog: enforceWatchdog.                                          *)

HeartbeatChanges ==
    /\ stale' = ~stale
    /\ UNCHANGED <<file, trace, watchdog, autoKill, fired, operator, reader,
                   seen, tripped, standing>>

\* A bug: the watchdog halts once and leaves a resumed daemon alone.
WatchdogChecksOnce ==
    /\ watchdog = "idle" /\ stale /\ file = "absent" /\ trace = "none"
    /\ watchdog' = "writing"
    /\ UNCHANGED <<file, trace, stale, autoKill, fired, operator, reader, seen,
                   tripped, standing>>

WatchdogChecks ==
    /\ watchdog = "idle" /\ stale /\ file = "absent"
    /\ watchdog' = "writing"
    /\ UNCHANGED <<file, trace, stale, autoKill, fired, operator, reader, seen,
                   tripped, standing>>

\* A bug: the file is created empty, and written later.
WatchdogCreates ==
    /\ watchdog = "writing"
    /\ file' = "empty"
    /\ watchdog' = "auditing"
    /\ UNCHANGED <<trace, stale, autoKill, fired, operator, reader, seen,
                   tripped, standing>>

WatchdogWrites ==
    /\ watchdog = "writing"
    /\ file' = "time"
    /\ watchdog' = "auditing"
    /\ UNCHANGED <<trace, stale, autoKill, fired, operator, reader, seen,
                   tripped, standing>>

WatchdogAudits ==
    /\ watchdog = "auditing"
    /\ trace' = "watchdog"
    /\ watchdog' = "idle"
    /\ UNCHANGED <<file, stale, autoKill, fired, operator, reader, seen,
                   tripped, standing>>

\* The write or the append fails, or the process is killed before it.
WatchdogDies ==
    /\ watchdog # "idle"
    /\ watchdog' = "idle"
    /\ UNCHANGED <<file, trace, stale, autoKill, fired, operator, reader, seen,
                   tripped, standing>>

-----------------------------------------------------------------------------
(* The auto-kill check: runAutoKillCheck.                                  *)

\* A bug: a file that is there is overwritten.
AutoKillOverwrites ==
    /\ autoKill = "idle"
    /\ fired' \in Trigger
    /\ autoKill' = "writing"
    /\ UNCHANGED <<file, trace, stale, watchdog, operator, reader, seen,
                   tripped, standing>>

\* Triggers fire; the heartbeat's does only when it is stale.  A file that is
\* there is left alone.
AutoKillTrips ==
    /\ autoKill = "idle"
    /\ fired' \in (IF stale THEN Trigger ELSE {"hazard"})
    /\ IF file = "absent"
       THEN autoKill' = "writing" /\ UNCHANGED tripped
       ELSE tripped' = (tripped \/ file # "heartbeat reason") /\ UNCHANGED autoKill
    /\ UNCHANGED <<file, trace, stale, watchdog, operator, reader, seen, standing>>

AutoKillWrites ==
    /\ autoKill = "writing"
    /\ file' = "event"
    /\ autoKill' = "auditing"
    /\ UNCHANGED <<trace, stale, watchdog, fired, operator, reader, seen,
                   tripped, standing>>

\* Whether the file will be cleared, or a reason to clear it audited, by a step
\* that is under way.
AboutToClear ==
    \/ watchdog # "idle" \/ operator = "operator on heartbeat"
    \/ \E q \in Reader : \/ reader[q] = "clearing"
                         \/ reader[q] = "judging" /\ seen[q] \in NamesHeartbeat

AutoKillAudits ==
    /\ autoKill = "auditing"
    /\ trace' = fired
    /\ autoKill' = "idle"
    /\ tripped' = (file # "absent")
    /\ standing' = IF file = "event" /\ fired = "hazard" /\ ~AboutToClear
                   THEN standing \cup {"trip"} ELSE standing
    /\ UNCHANGED <<file, stale, watchdog, fired, operator, reader, seen>>

AutoKillDies ==
    /\ autoKill # "idle"
    /\ autoKill' = "idle"
    /\ UNCHANGED <<file, trace, stale, watchdog, fired, operator, reader, seen,
                   tripped, standing>>

-----------------------------------------------------------------------------
(* The operator: kill:on and kill:off.                                     *)

\* Whether a step under way will overwrite or remove what is written now.
AboutToUndo ==
    \/ watchdog = "writing" \/ autoKill = "writing"
    \/ \E q \in Reader : reader[q] = "clearing"

OperatorHalts ==
    /\ operator = "idle"
    /\ file' = "reasoned"
    /\ operator' = "operator"
    /\ standing' = IF AboutToUndo THEN standing ELSE standing \cup {"operator"}
    /\ UNCHANGED <<trace, stale, watchdog, autoKill, fired, reader, seen, tripped>>

\* A halt whose reason names the heartbeat replaces what stood, and will be
\* cleared like the watchdog's.
OperatorHaltsOnHeartbeat ==
    /\ operator = "idle"
    /\ file' = "heartbeat reason"
    /\ operator' = "operator on heartbeat"
    /\ tripped' = FALSE /\ standing' = {}
    /\ UNCHANGED <<trace, stale, watchdog, autoKill, fired, reader, seen>>

\* A resume has a reason as well.
OperatorResumes ==
    /\ operator = "idle"
    /\ file' = "absent"
    /\ operator' \in {"operator", "operator on heartbeat"}
    /\ tripped' = FALSE /\ standing' = {}
    /\ UNCHANGED <<trace, stale, watchdog, autoKill, fired, reader, seen>>

OperatorAudits ==
    /\ operator # "idle"
    /\ trace' = operator
    /\ operator' = "idle"
    /\ UNCHANGED <<file, stale, watchdog, autoKill, fired, reader, seen,
                   tripped, standing>>

OperatorDies ==
    /\ operator # "idle"
    /\ operator' = "idle"
    /\ UNCHANGED <<file, trace, stale, watchdog, autoKill, fired, reader, seen,
                   tripped, standing>>

-----------------------------------------------------------------------------
(* A status request: readKillSwitchStatus.                                 *)

ReaderReadsAudit(q) ==
    /\ reader[q] = "idle"
    /\ seen' = [seen EXCEPT ![q] = trace]
    /\ reader' = [reader EXCEPT ![q] = "judging"]
    /\ UNCHANGED <<file, trace, stale, watchdog, autoKill, fired, operator,
                   tripped, standing>>

\* A bug: the reason in the file is not preferred to the audit's.
JudgesByAuditAlone(q) == file # "absent" /\ seen[q] \in NamesHeartbeat

\* The active reason is the file's, or else the audit's, and names a heartbeat.
JudgesStale(q) ==
    \/ file = "heartbeat reason"
    \/ file \in {"time", "event"} /\ seen[q] \in NamesHeartbeat

ReaderReadsFile(q) ==
    /\ reader[q] = "judging"
    /\ reader' = [reader EXCEPT ![q] = IF JudgesStale(q) THEN "clearing" ELSE "idle"]
    /\ UNCHANGED <<file, trace, stale, watchdog, autoKill, fired, operator, seen,
                   tripped, standing>>

\* The file goes, whatever it holds by now.  The record appended for it is
\* neither a halt nor a resume.
ReaderClears(q) ==
    /\ reader[q] = "clearing"
    /\ file' = "absent"
    /\ reader' = [reader EXCEPT ![q] = "idle"]
    /\ UNCHANGED <<trace, stale, watchdog, autoKill, fired, operator, seen,
                   tripped, standing>>

\* The file cannot be removed, or the process is killed.
ReaderFails(q) ==
    /\ reader[q] # "idle"
    /\ reader' = [reader EXCEPT ![q] = "idle"]
    /\ UNCHANGED <<file, trace, stale, watchdog, autoKill, fired, operator, seen,
                   tripped, standing>>

-----------------------------------------------------------------------------

Watchdog == WatchdogChecks \/ WatchdogWrites \/ WatchdogAudits

Next ==
    \/ HeartbeatChanges \/ Watchdog \/ WatchdogDies
    \/ AutoKillTrips \/ AutoKillWrites \/ AutoKillAudits \/ AutoKillDies
    \/ OperatorHalts \/ OperatorHaltsOnHeartbeat \/ OperatorResumes
    \/ OperatorAudits \/ OperatorDies
    \/ \E q \in Reader : \/ ReaderReadsAudit(q) \/ ReaderReadsFile(q)
                         \/ ReaderClears(q) \/ ReaderFails(q)

Spec == Init /\ [][Next]_vars

\* The watchdog's loop runs every fifteen seconds, and a write it tries again
\* and again succeeds at last.
FairSpec == Spec /\ WF_vars(Watchdog) /\ SF_vars(WatchdogWrites)

-----------------------------------------------------------------------------

\* An operator's halt stands until the operator resumes or halts on the
\* heartbeat, unless a step that was under way when it was written undoes it, or
\* its own reason names the heartbeat.
OperatorHaltStands == "operator" \in standing => file = "reasoned"

\* A trip on hazards alone, audited while no one was about to clear or to
\* rearm the file, stands until the operator resumes or halts on the heartbeat.
CleanTripStands == "trip" \in standing => file # "absent"

\* Once reported, a trip stands until the operator resumes or halts on the heartbeat.
TripStandsUntilReview == tripped => file # "absent"

\* A heartbeat that stays stale keeps bringing the file back, whoever clears it.
StaleKeepsHalting == <>[]stale => []<>(file # "absent")

=============================================================================
