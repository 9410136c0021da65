------------------------------ MODULE Refill ------------------------------
(***************************************************************************)
(* Refill jobs.  In a round the all-chain autopilot plans a job for every  *)
(* resource below its target, and for each job previews and then executes  *)
(* it in a child process, run-refill-job-stub, trying other methods when   *)
(* the plan is blocked.  All jobs draw on one source, whose inventory is   *)
(* scanned when the round is planned; the autopilot keeps the amounts it   *)
(* has probably spent reserved.  A child reads the execution journal once, *)
(* when it starts, passes a gate, and sends the legs of its plan to the    *)
(* signer one after the other.  The autopilot kills a child that takes too *)
(* long, a child gives up on a signer that takes too long, and the signer  *)
(* goes on in either case.  An operator may run the same child by hand.    *)
(***************************************************************************)
EXTENDS Integers, Sequences, FiniteSets

CONSTANTS
    Resources,          \* the resourceKeys below their targets
    Candidates,         \* refillBridgeCandidates of each job, the selected method first
    Legs,               \* Legs[m]: the kinds of the legs of method m
    Lifi, Intermediate, \* cross_chain_bridge_lifi, cross_chain_swap_via_btc_intermediate
    Threshold,          \* failureThreshold of the fallback
    Need,               \* what a job takes from the source
    MaxSource, MaxRounds, MaxManual,  \* bounds
    None

MethodsOf(r) == {Candidates[r][i] : i \in 1..Len(Candidates[r])}

Methods == UNION {MethodsOf(r) : r \in Resources}

ASSUME RefillAssumption ==
    /\ Candidates \in [Resources -> Seq(Methods)] /\ \A r \in Resources : Len(Candidates[r]) >= 2
    /\ Legs \in [Methods -> Seq({"swap", "bridge", "gateway"}) \ {<<>>}]
    /\ Threshold \in Nat \ {0} /\ Need \in Nat \ {0}
    /\ MaxSource \in Nat /\ MaxRounds \in Nat /\ MaxManual \in Nat
    /\ None \notin Methods \cup Resources

\* A method that does not swap first has only swaps after its first leg, as the
\* Gateway with the swap of what it delivers.
ASSUME LegsAssumption ==
    \A m \in Methods :
        Legs[m][1] = "swap" \/ \A i \in 2..Len(Legs[m]) : Legs[m][i] = "swap"

VARIABLES
    round,      \* the planning rounds so far: a job is a resource and a round
    source,     \* what the source holds
    journal,    \* what the execution journal says of each resource
    child,      \* the child process of the autopilot, and the operator's
    orphans,    \* debiting intents whose client is gone, still at the signer
    pc,         \* where the autopilot is in its round
    todo,       \* the jobs of the round it has not looked at
    inventory,  \* the source as the round's plan found it
    reserved,   \* the jobs whose amount is reserved
    indebted,   \* debitSourceReservation: the current job's amount is to be
    others,     \* methods still to be previewed for the current job
    manual,     \* runs the operator started
    debits,     \* history: debits of the round's jobs, by runner
    unshown     \* history: jobs whose run debited and ended without a report of it

auto == <<pc, todo, inventory, reserved, indebted, others>>
history == <<debits, unshown>>
vars == <<round, source, journal, child, orphans, auto, manual, history>>

Runners == {"autopilot", "operator"}

Outcomes == {"delivered", "unproven_timeout", "signer_rejected", "signer_error",
             "failed", "blocked"}

Statuses == Outcomes \cup {"none", "context_captured", "fallback_triggered"}

Entry == [latest: Statuses, active: Methods \cup {None}, fails: [Methods -> 0..Threshold]]

NoEntry == [latest |-> "none", active |-> None, fails |-> [m \in Methods |-> 0]]

Child == [at: {"none", "resolving", "preparing", "sending", "recording", "ended"},
          job: Resources \cup {None}, round: 0..MaxRounds, method: Methods \cup {None},
          execute: BOOLEAN, seen: Entry, leg: Nat \ {0},
          ready: BOOLEAN, status: Outcomes \cup {"none"}, shows: BOOLEAN,
          reason: {"none", "retryable", "timeout", "other"}]

NoChild == [at |-> "none", job |-> None, round |-> 0, method |-> None, execute |-> FALSE,
            seen |-> NoEntry, leg |-> 1, ready |-> FALSE, status |-> "none",
            shows |-> FALSE, reason |-> "none"]

TypeOK ==
    /\ round \in 0..MaxRounds /\ source \in 0..MaxSource /\ inventory \in 0..MaxSource
    /\ journal \in [Resources -> Entry]
    /\ child \in [Runners -> Child]
    /\ orphans \subseteq Runners \X Resources \X (0..MaxRounds)
    /\ pc \in {"idle", "picking", "previewing", "executing"}
    /\ todo \subseteq Resources /\ reserved \subseteq Resources /\ indebted \in BOOLEAN
    /\ others \subseteq Methods /\ manual \in 0..MaxManual
    /\ debits \in [Resources -> [Runners -> Nat]]
    /\ unshown \subseteq Resources

Init ==
    /\ round = 0 /\ source \in 0..MaxSource /\ inventory = 0
    /\ journal = [r \in Resources |-> NoEntry]
    /\ child = [p \in Runners |-> NoChild]
    /\ orphans = {} /\ pc = "idle" /\ todo = {} /\ reserved = {}
    /\ indebted = FALSE /\ others = {} /\ manual = 0
    /\ debits = [r \in Resources |-> [p \in Runners |-> 0]]
    /\ unshown = {}

-----------------------------------------------------------------------------
(* The journal.                                                            *)

\* A bug: a job that failed may start again.
GateForgives(status) == status \in {"submitted", "confirmed", "dry_run_planned", "planned"}

\* canStartExecution: what the latest event of the job lets through.
GateBlocks(status) == status \in {"submitted", "confirmed", "failed", "dry_run_planned", "planned"}

\* An event of a job.  Only an event of this round's job is its latest.
Append1(r, n, status) ==
    IF n = round THEN [journal[r] EXCEPT !.latest = status] ELSE journal[r]

\* isFailureOutcome, of an outcome without the source's native gas in its text.
Failing(status) == status \in {"failed", "signer_rejected", "blocked"}

\* The outcome event: the method's streak of failures grows or ends.
Outcome(r, n, method, status) ==
    [Append1(r, n, status) EXCEPT !.fails[method] =
        IF ~Failing(status) THEN 0 ELSE IF @ < Threshold THEN @ + 1 ELSE @]

ActiveMethod(r, seen) == IF seen.active = None THEN Candidates[r][1] ELSE seen.active

\* The next candidate, and the BTC intermediate after LI.FI.
NextCandidate(r, method) ==
    LET next == {i \in 2..Len(Candidates[r]) : Candidates[r][i - 1] = method} IN
    IF next # {} THEN Candidates[r][CHOOSE i \in next : TRUE]
    ELSE IF method = Lifi /\ Intermediate \in MethodsOf(r) THEN Intermediate
    ELSE None

\* resolveRefillBridgeFallback advances.
FallbackDue(r, seen) ==
    /\ seen.fails[ActiveMethod(r, seen)] >= Threshold
    /\ NextCandidate(r, ActiveMethod(r, seen)) # None

-----------------------------------------------------------------------------
(* A child process, the run p of run-refill-job-stub.                      *)

Launched(r, method, execute) ==
    [NoChild EXCEPT !.at = "resolving", !.job = r, !.round = round, !.method = method,
                    !.execute = execute, !.seen = journal[r]]

At(p, at) == child[p].at = at

Elsewhere == UNCHANGED <<round, auto, manual>>

\* A run that is over, with the result c; nobody looks at the operator's.
Over(p, c) ==
    child' = [child EXCEPT ![p] =
        IF p = "operator" THEN NoChild ELSE [c EXCEPT !.at = "ended", !.seen = NoEntry, !.leg = 1]]

\* The run ends without a plan or without an outcome.
Stops(p, reason) == Over(p, [child[p] EXCEPT !.reason = reason])

\* Without --method, the fallback is recorded and hides the latest event from
\* the gate.
FallsBack(p) ==
    LET c == child[p] IN
    /\ At(p, "resolving") /\ c.method = None /\ FallbackDue(c.job, c.seen)
    /\ LET next == NextCandidate(c.job, ActiveMethod(c.job, c.seen)) IN
       /\ journal' = [journal EXCEPT ![c.job] =
                        [Append1(c.job, c.round, "fallback_triggered") EXCEPT !.active = next]]
       /\ child' = [child EXCEPT ![p].at = "preparing", ![p].method = next, ![p].seen = NoEntry]
    /\ Elsewhere /\ UNCHANGED <<source, orphans, history>>

Admits(p) ==
    LET c == child[p] IN
    /\ At(p, "resolving") /\ ~(c.method = None /\ FallbackDue(c.job, c.seen))
    /\ ~GateBlocks(c.seen.latest)
    /\ child' = [child EXCEPT ![p].at = "preparing",
                              ![p].method = IF @ = None THEN ActiveMethod(c.job, c.seen) ELSE @,
                              ![p].seen = NoEntry]
    /\ Elsewhere /\ UNCHANGED <<source, journal, orphans, history>>

\* The gate is closed; its event is printed and not recorded.
Refuses(p) ==
    LET c == child[p] IN
    /\ At(p, "resolving") /\ ~(c.method = None /\ FallbackDue(c.job, c.seen))
    /\ GateBlocks(c.seen.latest)
    /\ Stops(p, "other")
    /\ Elsewhere /\ UNCHANGED <<source, journal, orphans, history>>

\* The funding source, the risk decision or the plan is not fit to execute.
Blocks(p) ==
    /\ At(p, "preparing")
    /\ \E reason \in {"retryable", "other"} : Stops(p, reason)
    /\ journal' = [journal EXCEPT ![child[p].job] = Append1(child[p].job, child[p].round, "blocked")]
    /\ Elsewhere /\ UNCHANGED <<source, orphans, history>>

\* The execution guards, the kill switch among them, throw.
Throws(p) ==
    /\ At(p, "preparing") /\ child[p].execute
    /\ Stops(p, "other")
    /\ Elsewhere /\ UNCHANGED <<source, journal, orphans, history>>

\* The plan is ready: its snapshot is recorded, and a preview ends.
Prepares(p) ==
    /\ At(p, "preparing")
    /\ journal' = [journal EXCEPT ![child[p].job] =
                     Append1(child[p].job, child[p].round, "context_captured")]
    /\ LET c == [child[p] EXCEPT !.ready = TRUE] IN
       IF c.execute THEN child' = [child EXCEPT ![p] = [c EXCEPT !.at = "sending"]] ELSE Over(p, c)
    /\ Elsewhere /\ UNCHANGED <<source, orphans, history>>

-----------------------------------------------------------------------------
(* The legs of a plan.                                                     *)

LegKind(c) == Legs[c.method][c.leg]

LastLeg(c) == c.leg = Len(Legs[c.method])

\* The signer broadcasts the first leg of a job: it debits the source.
Debits(p, r, n) ==
    /\ source >= Need /\ source' = source - Need
    /\ debits' = IF n = round THEN [debits EXCEPT ![r][p] = @ + 1] ELSE debits

NoDebit == UNCHANGED <<source, debits>>

\* The signer handles the leg: later legs do not touch the source.
Leg(p, broadcast) ==
    IF broadcast /\ child[p].leg = 1 THEN Debits(p, child[p].job, child[p].round) ELSE NoDebit

Sending(p) ==
    /\ At(p, "sending")
    /\ Elsewhere /\ UNCHANGED journal

\* The leg is confirmed, or its confirmation is still pending, and the next one
\* follows.  The Gateway executors report no steps.
Confirmed(p, leg, at, status, reason) ==
    /\ Sending(p) /\ Leg(p, TRUE)
    /\ child' = [child EXCEPT ![p].shows = @ \/ LegKind(child[p]) # "gateway", ![p].leg = leg,
                              ![p].at = at, ![p].status = status, ![p].reason = reason]
    /\ UNCHANGED <<orphans, unshown>>

LegConfirms(p) ==
    LET c == child[p] IN
    /\ At(p, "sending") /\ ~LastLeg(c)
    /\ Confirmed(p, c.leg + 1, "sending", c.status, c.reason)

\* After the last one the destination's balance is waited for.
Settles(p) ==
    /\ At(p, "sending") /\ LastLeg(child[p])
    /\ \/ Confirmed(p, 1, "recording", "delivered", "none")
       \/ Confirmed(p, 1, "recording", "unproven_timeout", "timeout")

\* What is left of a run that throws: the report of this leg alone.
Thrown(p, status, shows, reason) ==
    /\ child' = [child EXCEPT ![p].at = "recording", ![p].status = status, ![p].leg = 1,
                              ![p].shows = shows, ![p].reason = reason]
    /\ unshown' = IF ~shows /\ (child[p].leg > 1 \/ source' # source)
                     /\ p = "autopilot" /\ child[p].round = round
                  THEN unshown \cup {child[p].job} ELSE unshown

\* A swap or a bridge finds its balance short before it signs.
LegIsShort(p) ==
    LET c == child[p] IN
    /\ Sending(p)
    /\ LegKind(c) # "gateway" /\ (c.leg = 1 => source < Need)
    /\ NoDebit /\ Thrown(p, "blocked", FALSE, "other")
    /\ UNCHANGED orphans

\* The signer answers that the leg was rejected, that it failed, perhaps after
\* the broadcast, or that the transaction was reverted: only this last answer
\* has a transaction hash.  A swap throws, and "Signer did not complete" is a
\* reason to retry ...
SwapFails(p) ==
    /\ Sending(p) /\ LegKind(child[p]) = "swap"
    /\ \/ NoDebit /\ (\E reason \in {"retryable", "other"} : Thrown(p, "failed", FALSE, reason))
       \/ Leg(p, TRUE) /\ Thrown(p, "failed", FALSE, "other")
       \/ NoDebit /\ Thrown(p, "failed", TRUE, "other")
    /\ UNCHANGED orphans

\* ... and a bridge returns, so that the next leg is executed.
BridgeFails(p) ==
    LET c == child[p] IN
    /\ Sending(p) /\ LegKind(c) # "swap"
    /\ \E answer \in {"rejected", "error", "sent", "reverted"},
          status \in IF LegKind(c) = "gateway" THEN {"signer_error"} ELSE {"failed", "signer_error"},
          reason \in {"retryable", "other"} :
          /\ answer \in {"sent", "reverted"} => reason = "other"
          /\ Leg(p, answer = "sent")
          /\ LET shows == c.shows \/ (answer = "reverted" /\ LegKind(c) = "bridge") IN
             /\ child' = [child EXCEPT
                     ![p].status = IF answer = "rejected" THEN "signer_rejected" ELSE status,
                     ![p].shows = shows,
                     ![p].reason = reason,
                     ![p].leg = IF LastLeg(c) THEN 1 ELSE @ + 1,
                     ![p].at = IF LastLeg(c) THEN "recording" ELSE @]
             /\ unshown' = IF answer = "sent" /\ ~shows /\ p = "autopilot" /\ c.round = round
                           THEN unshown \cup {c.job} ELSE unshown
    /\ UNCHANGED orphans

\* A leg's intent is left at the signer by its client.
Orphaned(p) ==
    IF child[p].leg = 1 THEN orphans \cup {<<p, child[p].job, child[p].round>>} ELSE orphans

\* The client of the signer times out, which throws.
LegTimesOut(p) ==
    /\ Sending(p) /\ NoDebit
    /\ orphans' = Orphaned(p)
    /\ child' = [child EXCEPT ![p].at = "recording", ![p].status = "failed", ![p].leg = 1,
                              ![p].shows = FALSE, ![p].reason = "timeout"]
    /\ UNCHANGED unshown

\* The outcome is recorded.
Records(p) ==
    LET c == child[p] IN
    /\ At(p, "recording")
    /\ journal' = [journal EXCEPT ![c.job] = Outcome(c.job, c.round, c.method, c.status)]
    /\ Over(p, c)
    /\ Elsewhere /\ UNCHANGED <<source, orphans, history>>

Run(p) ==
    \/ FallsBack(p) \/ Admits(p) \/ Refuses(p) \/ Blocks(p) \/ Throws(p) \/ Prepares(p)
    \/ LegConfirms(p) \/ LegIsShort(p) \/ SwapFails(p) \/ BridgeFails(p) \/ LegTimesOut(p)
    \/ Settles(p) \/ Records(p)

-----------------------------------------------------------------------------
(* The round of the autopilot.                                             *)

Mine == child["autopilot"]

Outside == UNCHANGED <<source, journal, orphans, manual, history>>

\* The inventory is scanned and a job planned for every resource.
Plans ==
    /\ pc = "idle" /\ round < MaxRounds
    /\ round' = round + 1 /\ inventory' = source
    /\ journal' = [r \in Resources |-> [journal[r] EXCEPT !.latest = "none"]]
    /\ pc' = "picking" /\ todo' = Resources /\ reserved' = {}
    /\ debits' = [r \in Resources |-> [p \in Runners |-> 0]]
    /\ unshown' = {}
    /\ UNCHANGED <<source, child, orphans, indebted, others, manual>>

\* refillSourceReservation.
Accepted == Need * (Cardinality(reserved) + 1) <= inventory

Starts(r, method, execute) ==
    child' = [child EXCEPT !["autopilot"] = Launched(r, method, execute)]

Skips(r) ==
    /\ pc = "picking" /\ r \in todo /\ ~Accepted
    /\ todo' = todo \ {r}
    /\ Outside /\ UNCHANGED <<round, child, pc, inventory, reserved, indebted, others>>

Takes(r) ==
    /\ pc = "picking" /\ r \in todo /\ Accepted
    /\ pc' = "previewing" /\ todo' = todo \ {r} /\ indebted' = FALSE
    /\ others' = MethodsOf(r) \ {Candidates[r][1]}
    /\ Starts(r, None, FALSE)
    /\ Outside /\ UNCHANGED <<round, inventory, reserved>>

\* A bug: the job is forgotten before its amount is reserved.
ClosesFirst(owes) ==
    /\ pc' = "picking" /\ indebted' = FALSE /\ others' = {}
    /\ child' = [child EXCEPT !["autopilot"] = NoChild]
    /\ reserved' = IF owes THEN reserved \cup {child'["autopilot"].job} ELSE reserved
    /\ UNCHANGED <<todo, inventory>>

\* The job is done with; what it may have spent is reserved.
Closes(owes) ==
    /\ pc' = "picking" /\ indebted' = FALSE /\ others' = {}
    /\ reserved' = IF owes THEN reserved \cup {Mine.job} ELSE reserved
    /\ child' = [child EXCEPT !["autopilot"] = NoChild]
    /\ UNCHANGED <<todo, inventory>>

\* One of the methods left is previewed.
TriesAnother(methods) ==
    \E m \in methods :
        /\ pc' = "previewing" /\ others' = methods \ {m}
        /\ Starts(Mine.job, m, FALSE)
        /\ UNCHANGED <<todo, inventory, reserved>>

JudgesPreview ==
    /\ pc = "previewing" /\ At("autopilot", "ended")
    /\ \/ /\ Mine.ready
          /\ pc' = "executing" /\ Starts(Mine.job, Mine.method, TRUE)
          /\ UNCHANGED <<todo, inventory, reserved, indebted, others>>
       \/ /\ ~Mine.ready /\ Mine.reason = "retryable" /\ others # {}
          /\ TriesAnother(others) /\ UNCHANGED indebted
       \/ /\ ~Mine.ready /\ (Mine.reason # "retryable" \/ others = {})
          /\ Closes(indebted)
    /\ Outside /\ UNCHANGED round

\* refillExecutionRetryable.
Retryable(c) == c.status # "delivered" /\ ~c.shows /\ c.reason = "retryable"

\* A bug: only what is known to be spent is reserved.
LikelyOnly(c) == c.status = "delivered" \/ c.shows

\* refillSourceDebitLikely, or refillSourceDebitIndeterminate.
MayHaveDebited(c) == c.status = "delivered" \/ c.shows \/ c.reason = "timeout"

JudgesExecution ==
    /\ pc = "executing" /\ At("autopilot", "ended")
    /\ LET owes == indebted \/ MayHaveDebited(Mine) IN
       \/ /\ Retryable(Mine) /\ MethodsOf(Mine.job) # {Mine.method}
          /\ TriesAnother(MethodsOf(Mine.job) \ {Mine.method}) /\ indebted' = owes
       \/ /\ ~(Retryable(Mine) /\ MethodsOf(Mine.job) # {Mine.method})
          /\ Closes(owes)
    /\ Outside /\ UNCHANGED round

\* The command times out: the child is killed, the signer is not.
Kills ==
    /\ pc \in {"previewing", "executing"} /\ Mine.at \notin {"none", "ended"}
    /\ \E asked \in BOOLEAN :
          orphans' = IF asked /\ Mine.at = "sending" THEN Orphaned("autopilot") ELSE orphans
    /\ child' = [child EXCEPT !["autopilot"] =
                   [NoChild EXCEPT !.at = "ended", !.job = Mine.job, !.method = Mine.method,
                                   !.reason = "timeout"]]
    /\ UNCHANGED <<round, source, journal, auto, manual, history>>

RoundEnds ==
    /\ pc = "picking" /\ todo = {} /\ pc' = "idle"
    /\ Outside /\ UNCHANGED <<round, child, todo, inventory, reserved, indebted, others>>

-----------------------------------------------------------------------------
(* The rest.                                                               *)

\* npm run run:refill-job-stub by hand, with --execute.
OperatorRuns ==
    /\ round > 0 /\ manual < MaxManual /\ At("operator", "none")
    /\ manual' = manual + 1
    /\ \E r \in Resources : \E m \in MethodsOf(r) \cup {None} :
          child' = [child EXCEPT !["operator"] = Launched(r, m, TRUE)]
    /\ UNCHANGED <<round, source, journal, orphans, auto, history>>

\* The signer broadcasts an intent whose client is gone, if it ever does.
SignsLate(o) ==
    /\ o \in orphans /\ orphans' = orphans \ {o}
    /\ Debits(o[1], o[2], o[3])
    /\ UNCHANGED <<round, journal, child, auto, manual, unshown>>

Autopilot ==
    \/ Plans \/ (\E r \in Resources : Skips(r) \/ Takes(r))
    \/ JudgesPreview \/ JudgesExecution \/ Kills \/ RoundEnds

Next ==
    \/ \E p \in Runners : Run(p)
    \/ Autopilot \/ OperatorRuns \/ (\E o \in orphans : SignsLate(o))

Spec == Init /\ [][Next]_vars

-----------------------------------------------------------------------------
(* Properties.                                                             *)

\* In a round the autopilot debits the source at most once for a job that
\* nobody else runs: not when it kills the child, or the child gives up on the
\* signer, and the signer broadcasts later, and not when a later leg fails in a
\* way that looks fit for a retry with another method
\* (refillExecutionRetryable, canStartExecution).
DebitedOncePerRound ==
    manual = 0 => \A r \in Resources : debits[r]["autopilot"] <= 1

\* When the autopilot picks its next job, what the earlier jobs of the round
\* took from the source is reserved, but for a run whose report lost the debit
\* (refillSourceDebitLikely, refillSourceDebitIndeterminate).
DebitsReserved ==
    pc = "picking" =>
        \A r \in Resources \ todo :
            debits[r]["autopilot"] > 0 => r \in reserved \cup unshown
=============================================================================
