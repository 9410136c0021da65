-------------------------- MODULE KillSwitchProofs --------------------------
(***************************************************************************)
(* Proofs about the kill switch, for any set of status readers.            *)
(***************************************************************************)
EXTENDS KillSwitch, TLAPS

\* The variables of the kill switch keep their types.
THEOREM TypeCorrect == Spec => []TypeOK
<1>1. Init => TypeOK
  BY DEF Init, TypeOK, File, Reason, Trigger
<1>2. TypeOK /\ [Next]_vars => TypeOK'
  <2> SUFFICES ASSUME TypeOK, [Next]_vars PROVE TypeOK'
    OBVIOUS
  <2> USE DEF TypeOK, File, Reason, Trigger
  <2>1. CASE HeartbeatChanges
    BY <2>1, ZenonT(60) DEF HeartbeatChanges
  <2>2. CASE Watchdog \/ WatchdogDies
    BY <2>2, ZenonT(60) DEF Watchdog, WatchdogChecks, WatchdogWrites, WatchdogAudits, WatchdogDies
  <2>3. CASE AutoKillTrips \/ AutoKillWrites \/ AutoKillDies
    BY <2>3, ZenonT(60) DEF AutoKillTrips, AutoKillWrites, AutoKillDies
  <2>4. CASE AutoKillAudits
    BY <2>4, ZenonT(60) DEF AutoKillAudits
  <2>5. CASE OperatorHalts \/ OperatorHaltsOnHeartbeat \/ OperatorResumes \/ OperatorAudits \/ OperatorDies
    BY <2>5, ZenonT(60) DEF OperatorHalts, OperatorHaltsOnHeartbeat, OperatorResumes,
                          OperatorAudits, OperatorDies
  <2>6. ASSUME NEW q \in Reader, ReaderReadsAudit(q)
        PROVE  TypeOK'
    BY <2>6, ZenonT(60) DEF ReaderReadsAudit
  <2>7. ASSUME NEW q \in Reader, ReaderReadsFile(q)
        PROVE  TypeOK'
    BY <2>7, JudgesStale(q) \/ ~JudgesStale(q), ZenonT(60) DEF ReaderReadsFile
  <2>8. ASSUME NEW q \in Reader, ReaderClears(q) \/ ReaderFails(q)
        PROVE  TypeOK'
    BY <2>8, ZenonT(60) DEF ReaderClears, ReaderFails
  <2>9. CASE UNCHANGED vars
    BY <2>9, ZenonT(60) DEF vars
  <2> QED
    BY <2>1, <2>2, <2>3, <2>4, <2>5, <2>6, <2>7, <2>8, <2>9 DEF Next
<1> QED
  BY <1>1, <1>2, PTL DEF Spec

-----------------------------------------------------------------------------
(* An operator's halt.                                                     *)

\* While an operator's halt stands, the file holds its reason and no step is
\* under way that would overwrite or remove it.  The second part is what keeps
\* the first: nothing that starts later starts against a file with a reason.
HaltInv == "operator" \in standing => file = "reasoned" /\ ~AboutToUndo

LEMMA HaltInvHolds == Spec => []HaltInv
<1>1. Init => HaltInv
  BY DEF Init, HaltInv
<1>2. TypeOK /\ HaltInv /\ [Next]_vars => HaltInv'
  <2> SUFFICES ASSUME TypeOK, HaltInv, [Next]_vars PROVE HaltInv'
    OBVIOUS
  <2> USE DEF TypeOK, HaltInv, AboutToUndo
  <2>1. CASE HeartbeatChanges
    BY <2>1 DEF HeartbeatChanges
  <2>2. CASE Watchdog \/ WatchdogDies
    BY <2>2 DEF Watchdog, WatchdogChecks, WatchdogWrites, WatchdogAudits, WatchdogDies
  <2>3. CASE AutoKillTrips \/ AutoKillWrites \/ AutoKillDies
    BY <2>3 DEF AutoKillTrips, AutoKillWrites, AutoKillDies
  <2>4. CASE AutoKillAudits
    BY <2>4 DEF AutoKillAudits
  <2>5. CASE OperatorHalts \/ OperatorHaltsOnHeartbeat
    BY <2>5 DEF OperatorHalts, OperatorHaltsOnHeartbeat
  <2>6. CASE OperatorResumes \/ OperatorAudits \/ OperatorDies
    BY <2>6 DEF OperatorResumes, OperatorAudits, OperatorDies
  <2>7. ASSUME NEW q \in Reader,
               ReaderReadsAudit(q) \/ ReaderClears(q) \/ ReaderFails(q)
        PROVE  HaltInv'
    BY <2>7 DEF ReaderReadsAudit, ReaderClears, ReaderFails
  <2>8. ASSUME NEW q \in Reader, ReaderReadsFile(q)
        PROVE  HaltInv'
    BY <2>8 DEF ReaderReadsFile, JudgesStale
  <2>9. CASE UNCHANGED vars
    BY <2>9 DEF vars
  <2> QED
    BY <2>1, <2>2, <2>3, <2>4, <2>5, <2>6, <2>7, <2>8, <2>9 DEF Next, Watchdog
<1> QED
  BY <1>1, <1>2, TypeCorrect, PTL DEF Spec

\* A halt the operator wrote while no other step was about to undo it stands
\* until the operator resumes or halts on the heartbeat, however many processes ask for the status and
\* whatever the watchdog and the auto-kill check do meanwhile.
THEOREM OperatorHaltHolds == Spec => []OperatorHaltStands
<1>1. HaltInv => OperatorHaltStands
  BY DEF HaltInv, OperatorHaltStands
<1> QED
  BY <1>1, HaltInvHolds, PTL

-----------------------------------------------------------------------------
(* A trip on hazards alone.                                                *)

\* While such a trip stands, the file is there, the audit's latest reason names
\* no heartbeat, and no step is under way that could change either: so no later
\* reader judges the file stale, and the watchdog finds it in place.
TripInv ==
    "trip" \in standing =>
        /\ file \in {"event", "reasoned"}
        /\ trace \in {"hazard", "operator"}
        /\ autoKill = "idle"
        /\ ~AboutToClear

LEMMA TripInvHolds == Spec => []TripInv
<1>1. Init => TripInv
  BY DEF Init, TripInv
<1>2. TypeOK /\ TripInv /\ [Next]_vars => TripInv'
  <2> SUFFICES ASSUME TypeOK, TripInv, [Next]_vars PROVE TripInv'
    OBVIOUS
  <2> USE DEF TypeOK, TripInv, AboutToClear, NamesHeartbeat
  <2>1. CASE HeartbeatChanges
    BY <2>1 DEF HeartbeatChanges
  <2>2. CASE Watchdog \/ WatchdogDies
    BY <2>2 DEF Watchdog, WatchdogChecks, WatchdogWrites, WatchdogAudits, WatchdogDies
  <2>3. CASE AutoKillTrips \/ AutoKillWrites \/ AutoKillDies
    BY <2>3 DEF AutoKillTrips, AutoKillWrites, AutoKillDies
  <2>4. CASE AutoKillAudits
    BY <2>4 DEF AutoKillAudits
  <2>5. CASE OperatorHalts \/ OperatorHaltsOnHeartbeat \/ OperatorResumes \/ OperatorAudits \/ OperatorDies
    BY <2>5 DEF OperatorHalts, OperatorHaltsOnHeartbeat, OperatorResumes,
                          OperatorAudits, OperatorDies
  <2>6. ASSUME NEW q \in Reader,
               ReaderReadsAudit(q) \/ ReaderClears(q) \/ ReaderFails(q)
        PROVE  TripInv'
    BY <2>6 DEF ReaderReadsAudit, ReaderClears, ReaderFails
  <2>7. ASSUME NEW q \in Reader, ReaderReadsFile(q)
        PROVE  TripInv'
    BY <2>7 DEF ReaderReadsFile, JudgesStale
  <2>8. CASE UNCHANGED vars
    BY <2>8 DEF vars
  <2> QED
    BY <2>1, <2>2, <2>3, <2>4, <2>5, <2>6, <2>7, <2>8 DEF Next, Watchdog
<1> QED
  BY <1>1, <1>2, TypeCorrect, PTL DEF Spec

\* A trip on hazards alone, audited while nothing was about to clear or rearm
\* the file, stands until the operator resumes or halts on the heartbeat.  TripStandsUntilReview, which
\* leaves both conditions out, does not hold.
THEOREM CleanTripHolds == Spec => []CleanTripStands
<1>1. TripInv => CleanTripStands
  BY DEF TripInv, CleanTripStands
<1> QED
  BY <1>1, TripInvHolds, PTL

=============================================================================
