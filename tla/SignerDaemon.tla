---------------------------- MODULE SignerDaemon ----------------------------
(***************************************************************************)
(* The signer daemon: every request to sign, or to sign and broadcast, is  *)
(* one run of handleIntentCommand.  The runs of different requests are     *)
(* interleaved at each await, and share the audit log, the capital-audit   *)
(* pairs, the receipts and the kill-switch file.  Around them the chain    *)
(* mines, the operator and the watchdogs arm and disarm the kill switch,   *)
(* reset streaks and run the capital-audit backfill, the settlement        *)
(* watcher records what became of transactions that were left pending, any *)
(* step can fail, and the daemon can crash.  Nothing is recovered at a     *)
(* restart.                                                                *)
(***************************************************************************)
EXTENDS AuditLog

CONSTANTS
    SignOnly,       \* the requests of command sign_only
    Awaits,         \* those with awaitConfirmation, on an EVM chain
    MaxFailures,    \* maxConsecutiveFailures
    DayCap,         \* perDayUsd of a strategy
    Outcomes,       \* bound: pairs that the settlement watcher appends
    Lag             \* bound: records appended from its start until it does

ASSUME DaemonAssumption ==
    /\ SignOnly \subseteq Request /\ Awaits \subseteq Request
    /\ MaxFailures \in Nat \ {0} /\ DayCap \in Nat /\ Outcomes \in Nat /\ Lag \in Nat

VARIABLES
    log,            \* logs/signer-audit.jsonl
    closed,         \* hashes with a closed record in capital-audit-pairs
    activation,     \* date of the latest backfill or watcher's pair, 0 if none
    receipts,       \* requests with a closed record in receipt-reconciliations
    kill,           \* whether the kill-switch file exists
    up,             \* whether the daemon runs
    outcomes,       \* <<r, date>>: a watcher of that date has appended a pair of r,
                    \* and goes on to record the outcome
    pc,             \* where the run of each request is
    auditSeen,      \* length of the log when the run read it, or Unread
    pairsSeen,      \* <<closed, activation>> when the run read them, or NoPairs
    tx,             \* the request's transaction
    answer,         \* what the run answered
    prior,          \* history: the requests over when this one was submitted
    before          \* history: the length of the log when it was submitted

files == <<log, closed, activation, receipts>>
run == <<pc, auditSeen, pairsSeen, tx, answer, prior, before>>
vars == <<files, kill, up, outcomes, run>>

Unread == -1
NoPairs == <<{}, Unread>>

Active == {"reading", "signing", "signed", "rechecking", "cleared", "sent",
           "awaiting", "ingesting", "ingestingJob", "closing", "failing"}

PC == Active \cup {"idle", "done", "lost"}

\* A phantom was reported as accepted, but no node ever had it.
OnNetwork == {"mempool", "phantom", "mined", "reverted"}

Tx == OnNetwork \cup {"none", "signed"}

Answer == {"none", "ok", "pending", "rejected", "error"}

Over == {"done", "lost"}

TypeOK ==
    /\ log \in Seq(Record)
    /\ closed \subseteq Hash
    /\ activation \in Nat
    /\ receipts \subseteq Request
    /\ kill \in BOOLEAN
    /\ up \in BOOLEAN
    /\ outcomes \subseteq Request \X Nat
    /\ pc \in [Request -> PC]
    /\ auditSeen \in [Request -> Nat \cup {Unread}]
    /\ pairsSeen \in [Request -> (SUBSET Hash) \X (Nat \cup {Unread})]
    /\ tx \in [Request -> Tx]
    /\ answer \in [Request -> Answer]
    /\ prior \in [Request -> SUBSET Request]
    /\ before \in [Request -> Nat]

Init ==
    /\ log = <<>> /\ closed = {} /\ activation = 0 /\ receipts = {}
    /\ kill = FALSE /\ up = TRUE /\ outcomes = {}
    /\ pc = [r \in Request |-> "idle"]
    /\ auditSeen = [r \in Request |-> Unread]
    /\ pairsSeen = [r \in Request |-> NoPairs]
    /\ tx = [r \in Request |-> "none"]
    /\ answer = [r \in Request |-> "none"]
    /\ prior = [r \in Request |-> {}]
    /\ before = [r \in Request |-> 0]

-----------------------------------------------------------------------------
(* Helpers of the handler's steps.                                         *)

\* The run of r is at a step of the handler, and moves to another.
Moves(r, from, to) ==
    /\ pc[r] = from
    /\ pc' = [pc EXCEPT ![r] = to]

Ends(r, from, result) ==
    /\ Moves(r, from, "done")
    /\ answer' = [answer EXCEPT ![r] = result]

\* appendSignerAuditRecord.
Appends(r, verdict, stage, broadcast) ==
    log' = Append(log, RecordOf(r, verdict, stage, broadcast, Today(log)))

\* The run is done with what it read.
Forgets(r) ==
    /\ auditSeen' = [auditSeen EXCEPT ![r] = Unread]
    /\ pairsSeen' = [pairsSeen EXCEPT ![r] = NoPairs]

HandlerUnchanged == UNCHANGED <<kill, up, outcomes, prior, before>>

-----------------------------------------------------------------------------
(* The policies, evaluated on what the run read.                           *)

Seen(r) == SubSeq(log, 1, auditSeen[r])

\* A bug: a streak one longer than the limit is let through.
PausedLate(r) ==
    Streak(Seen(r), StrategyOf[r], ChainOf[r]) > MaxFailures

\* evaluateConsecutiveFailures: a lane pauses, except for a revocation.
Paused(r) ==
    /\ KindOf[r] # "revoke"
    /\ Streak(Seen(r), StrategyOf[r], ChainOf[r]) >= MaxFailures

\* A bug: only what was spent before counts, not this intent.
SpentOverCap(r) ==
    KindOf[r] # "unwind" /\ DailyVolume(Seen(r), StrategyOf[r]) > DayCap

\* evaluateCapCheck: the daily cap, except for an unwind.
OverCap(r) ==
    /\ KindOf[r] # "unwind"
    /\ DailyVolume(Seen(r), StrategyOf[r]) + AmountOf[r] > DayCap

\* A bug: an ingested receipt is taken for a closed pair.
UnreconciledUnlessIngested(r) ==
    CapitalGap(Seen(r), pairsSeen[r][1] \cup {HashOf[q] : q \in receipts},
               pairsSeen[r][2], StrategyOf[r])

\* evaluateCapitalAuditGate on what replayAuditForCapitalGaps flags.
Unreconciled(r) ==
    CapitalGap(Seen(r), pairsSeen[r][1], pairsSeen[r][2], StrategyOf[r])

-----------------------------------------------------------------------------
(* The steps of handleIntentCommand.                                       *)

Submit(r) ==
    /\ up
    /\ Moves(r, "idle", "reading")
    /\ prior' = [prior EXCEPT ![r] = {q \in Request : pc[q] \in Over}]
    /\ before' = [before EXCEPT ![r] = Len(log)]
    /\ UNCHANGED <<files, kill, up, outcomes, auditSeen, pairsSeen, tx, answer>>

\* The two files are read at the same time, and either comes first.
ReadAudit(r) ==
    /\ pc[r] = "reading" /\ auditSeen[r] = Unread
    /\ auditSeen' = [auditSeen EXCEPT ![r] = Len(log)]
    /\ UNCHANGED <<files, pc, pairsSeen, tx, answer>> /\ HandlerUnchanged

ReadPairs(r) ==
    /\ pc[r] = "reading" /\ pairsSeen[r] = NoPairs
    /\ pairsSeen' = [pairsSeen EXCEPT ![r] = <<closed, activation>>]
    /\ UNCHANGED <<files, pc, auditSeen, tx, answer>> /\ HandlerUnchanged

ReadsDone(r) == auditSeen[r] # Unread /\ pairsSeen[r] # NoPairs

\* A read, a policy or the append of the rejection throws: the handler has no
\* catch there, and the socket handler answers with the error.
Abort(r) ==
    /\ Ends(r, "reading", "error") /\ Forgets(r)
    /\ UNCHANGED <<files, tx>> /\ HandlerUnchanged

\* Some policy blocks.  The policies that are not modelled may block any
\* intent, so this is possible whatever was read.
Reject(r) ==
    /\ ReadsDone(r)
    /\ Ends(r, "reading", "rejected") /\ Forgets(r)
    /\ Appends(r, "rejected", "rejected", FALSE)
    /\ UNCHANGED <<closed, activation, receipts, tx>>
    /\ HandlerUnchanged

\* No policy blocks: the kill-switch file is looked for now, the rest is
\* judged on what was read.
Approve(r) ==
    /\ ReadsDone(r)
    /\ ~kill /\ ~Paused(r) /\ ~OverCap(r) /\ ~Unreconciled(r)
    /\ Moves(r, "reading", "signing") /\ Forgets(r)
    /\ UNCHANGED <<files, tx, answer>> /\ HandlerUnchanged

Sign(r) ==
    /\ Moves(r, "signing", "signed")
    /\ tx' = [tx EXCEPT ![r] = "signed"]
    /\ UNCHANGED <<files, auditSeen, pairsSeen, answer>> /\ HandlerUnchanged

\* A bug: the broadcast does not wait for the append of the signed record.
ClearUnrecorded(r) ==
    /\ Moves(r, "signed", "cleared")
    /\ UNCHANGED <<files, auditSeen, pairsSeen, tx, answer>> /\ HandlerUnchanged

RecordSigned(r) ==
    /\ IF r \in SignOnly
       THEN Ends(r, "signed", "ok")
       ELSE Moves(r, "signed", "rechecking") /\ UNCHANGED answer
    /\ Appends(r, "approved", "signed", FALSE)
    /\ UNCHANGED <<closed, activation, receipts, auditSeen, pairsSeen, tx>>
    /\ HandlerUnchanged

\* The kill switch was armed since: the signed transaction is never sent.
Void(r) ==
    /\ kill
    /\ Ends(r, "rechecking", "rejected")
    /\ Appends(r, "rejected", "rejected", FALSE)
    /\ UNCHANGED <<closed, activation, receipts, auditSeen, pairsSeen, tx>>
    /\ HandlerUnchanged

\* A bug: the kill switch is not looked for again before the broadcast.
ClearAnyway(r) ==
    /\ Moves(r, "rechecking", "cleared")
    /\ UNCHANGED <<files, auditSeen, pairsSeen, tx, answer>> /\ HandlerUnchanged

Clear(r) ==
    /\ ~kill
    /\ Moves(r, "rechecking", "cleared")
    /\ UNCHANGED <<files, auditSeen, pairsSeen, tx, answer>> /\ HandlerUnchanged

\* A provider took the transaction, or said it already had it.
Broadcast(r) ==
    /\ Moves(r, "cleared", "sent")
    /\ \E got \in {"mempool", "phantom"} : tx' = [tx EXCEPT ![r] = got]
    /\ UNCHANGED <<files, auditSeen, pairsSeen, answer>> /\ HandlerUnchanged

\* A bug: a broadcast that no provider answered is recorded as rejected.
RejectUnanswered(r) ==
    /\ Ends(r, "cleared", "error")
    /\ \E got \in {"mempool", "signed"} : tx' = [tx EXCEPT ![r] = got]
    /\ Appends(r, "rejected", "rejected", FALSE)
    /\ UNCHANGED <<closed, activation, receipts, auditSeen, pairsSeen>>
    /\ HandlerUnchanged

\* Every provider failed to answer, but one may have taken the transaction.
BroadcastFails(r) ==
    /\ Moves(r, "cleared", "failing")
    /\ \E got \in {"mempool", "signed"} : tx' = [tx EXCEPT ![r] = got]
    /\ UNCHANGED <<files, auditSeen, pairsSeen, answer>> /\ HandlerUnchanged

\* A bug: an awaited broadcast is recorded only once it is confirmed.
RecordUnlessAwaited(r) ==
    /\ Moves(r, "sent", IF r \in Awaits THEN "awaiting" ELSE "ingestingJob")
    /\ IF r \in Awaits THEN UNCHANGED log
       ELSE Appends(r, "approved", "broadcasted", TRUE)
    /\ UNCHANGED <<closed, activation, receipts, auditSeen, pairsSeen, tx, answer>>
    /\ HandlerUnchanged

RecordBroadcast(r) ==
    /\ Moves(r, "sent", IF r \in Awaits THEN "awaiting" ELSE "ingestingJob")
    /\ Appends(r, "approved", "broadcasted", TRUE)
    /\ UNCHANGED <<closed, activation, receipts, auditSeen, pairsSeen, tx, answer>>
    /\ HandlerUnchanged

Confirm(r) ==
    /\ tx[r] = "mined"
    /\ Moves(r, "awaiting", "ingesting")
    /\ Appends(r, "approved", "confirmed", TRUE)
    /\ UNCHANGED <<closed, activation, receipts, auditSeen, pairsSeen, tx, answer>>
    /\ HandlerUnchanged

Revert(r) ==
    /\ tx[r] = "reverted"
    /\ Ends(r, "awaiting", "error")
    /\ Appends(r, "errored", "reverted", TRUE)
    /\ UNCHANGED <<closed, activation, receipts, auditSeen, pairsSeen, tx>>
    /\ HandlerUnchanged

\* A bug: the wait for a confirmation has no timer.
AwaitWithoutTimer(r) ==
    /\ tx[r] \in {"mined", "reverted"}
    /\ Ends(r, "awaiting", "pending")
    /\ Appends(r, "approved", "confirmation_pending", TRUE)
    /\ UNCHANGED <<closed, activation, receipts, auditSeen, pairsSeen, tx>>
    /\ HandlerUnchanged

\* A bug: the record of a timed out wait has a stage no policy knows.
AwaitTimesOutUnknown(r) ==
    /\ Ends(r, "awaiting", "pending")
    /\ log' = Append(log, [RecordOf(r, "approved", "signed", TRUE, Today(log))
                            EXCEPT !.stage = "timed_out"])
    /\ UNCHANGED <<closed, activation, receipts, auditSeen, pairsSeen, tx>>
    /\ HandlerUnchanged

\* The timer of the handler fires before any provider has the receipt.
AwaitTimesOut(r) ==
    /\ Ends(r, "awaiting", "pending")
    /\ Appends(r, "approved", "confirmation_pending", TRUE)
    /\ UNCHANGED <<closed, activation, receipts, auditSeen, pairsSeen, tx>>
    /\ HandlerUnchanged

\* Auto-ingest is off, there is nothing to ingest, or the spawned command ran.
IngestEnds(r) ==
    /\ \E from \in {"ingesting", "ingestingJob"} : Ends(r, from, "ok")
    /\ UNCHANGED <<files, auditSeen, pairsSeen, tx>> /\ HandlerUnchanged

\* The ingest throws: that is recorded, and the answer is ok all the same.
IngestFails(r) ==
    /\ \E from \in {"ingesting", "ingestingJob"} : Ends(r, from, "ok")
    /\ Appends(r, "approved", "auto_ingest_error", FALSE)
    /\ UNCHANGED <<closed, activation, receipts, auditSeen, pairsSeen, tx>>
    /\ HandlerUnchanged

\* The receipt is ingested in the daemon, then the capital-audit pair closed.
IngestReceipt(r) ==
    /\ Moves(r, "ingesting", "closing")
    /\ receipts' = receipts \cup {r}
    /\ UNCHANGED <<log, closed, activation, auditSeen, pairsSeen, tx, answer>>
    /\ HandlerUnchanged

CloseGap(r) ==
    /\ Ends(r, "closing", "ok")
    /\ closed' = closed \cup {HashOf[r]}
    /\ UNCHANGED <<log, activation, receipts, auditSeen, pairsSeen, tx>>
    /\ HandlerUnchanged

\* Any other step of the try block throws: signing, an append, a wait that
\* every provider failed.
StepFails(r) ==
    /\ \E from \in {"signing", "signed", "rechecking", "sent", "awaiting",
                    "ingesting", "ingestingJob", "closing"} :
           Moves(r, from, "failing")
    /\ UNCHANGED <<files, auditSeen, pairsSeen, tx, answer>> /\ HandlerUnchanged

RecordError(r) ==
    /\ Ends(r, "failing", "error")
    /\ Appends(r, "errored", "error", FALSE)
    /\ UNCHANGED <<closed, activation, receipts, auditSeen, pairsSeen, tx>>
    /\ HandlerUnchanged

\* The append of the error throws out of the handler.
RecordErrorFails(r) ==
    /\ Ends(r, "failing", "error")
    /\ UNCHANGED <<files, auditSeen, pairsSeen, tx>> /\ HandlerUnchanged

\* A step that ends the run of r or brings it further.
Step(r) ==
    \/ ReadAudit(r) \/ ReadPairs(r) \/ Abort(r) \/ Reject(r) \/ Approve(r)
    \/ Sign(r) \/ RecordSigned(r) \/ Void(r) \/ Clear(r)
    \/ Broadcast(r) \/ BroadcastFails(r) \/ RecordBroadcast(r)
    \/ Confirm(r) \/ Revert(r) \/ AwaitTimesOut(r)
    \/ IngestEnds(r) \/ IngestFails(r) \/ IngestReceipt(r) \/ CloseGap(r)
    \/ StepFails(r) \/ RecordError(r) \/ RecordErrorFails(r)

-----------------------------------------------------------------------------
(* Around the daemon.                                                      *)

Mine(r) ==
    /\ tx[r] = "mempool"
    /\ \E fate \in {"mined", "reverted"} : tx' = [tx EXCEPT ![r] = fate]
    /\ UNCHANGED <<files, kill, up, outcomes, pc, auditSeen, pairsSeen, answer, prior, before>>

Toggle ==
    /\ kill' = ~kill
    /\ UNCHANGED <<files, up, outcomes, run>>

\* The operator resets the streak of a lane, or of all lanes of a strategy.
ResetStreak(i) ==
    /\ \A n \in DOMAIN log : log[n].intent # i
    /\ log' = Append(log, ResetRecord(i, Today(log)))
    /\ UNCHANGED <<closed, activation, receipts>>
    /\ UNCHANGED <<kill, up, outcomes, run>>

\* A command run by hand, one the ingest spawned, or the watcher reconciles the
\* receipt of a transaction.
IngestByHand(r) ==
    /\ tx[r] \in {"mined", "reverted"} /\ r \notin receipts
    /\ receipts' = receipts \cup {r}
    /\ UNCHANGED <<log, closed, activation>>
    /\ UNCHANGED <<kill, up, outcomes, run>>

\* The hashes with a broadcast whose outcome is known, not closed so far.
Closable ==
    {HashOf[log[n].intent] : n \in {m \in DOMAIN log :
        /\ HasBroadcastEvidence(log[m])
        /\ log[m].stage \in {"confirmed", "reverted"} \/ log[m].intent \in receipts}}
    \ closed

\* The backfill closes them; its date is the new activation.
Backfill ==
    /\ Closable # {}
    /\ closed' = closed \cup Closable
    /\ activation' = StartedAt(Len(log))
    /\ UNCHANGED <<log, receipts>>
    /\ UNCHANGED <<kill, up, outcomes, run>>

\* pendingSignerConfirmationCandidates, on the first n records: the latest
\* pending record of its intentHash is of r, and none of them is final.
Candidate(r, n) ==
    LET ofHash == {m \in 1 .. n : HashOf[log[m].intent] = HashOf[r]}
        pending == {m \in ofHash : log[m].stage \in {"broadcasted", "confirmation_pending"}}
    IN  /\ ChainOf[r] # "bitcoin"
        /\ \A m \in ofHash : log[m].stage \notin {"confirmed", "reverted", "rejected", "error"}
        /\ \E m \in pending : log[m].intent = r /\ \A k \in pending : k <= m

\* A watcher that started when the log had m records, and read it when it had n,
\* finds the receipt of r and appends a pair, which is closed unless the receipt
\* misses the output.  Its date, the watcher's, may be the new activation.
AppendPair(r) ==
    /\ tx[r] \in {"mined", "reverted"}
    /\ Cardinality(outcomes) < Outcomes
    /\ \E n \in 0 .. Len(log) : \E m \in 0 .. n :
           /\ Len(log) - m <= Lag /\ Candidate(r, n)
           /\ activation' = IF activation < StartedAt(m) THEN StartedAt(m) ELSE activation
           /\ outcomes' = outcomes \cup {<<r, StartedAt(m)>>}
    /\ \/ closed' = closed \cup {HashOf[r]}
       \/ tx[r] = "mined" /\ closed' = closed
    /\ UNCHANGED <<log, receipts>>
    /\ UNCHANGED <<kill, up, run>>

OutcomeOf(r) == IF tx[r] = "mined" THEN "confirmed" ELSE "reverted"

\* The watcher reads the log again, and records the outcome unless it is there.
\* The record has the date at which the watcher started.  A watcher that dies
\* before it gets here never takes this step.
AppendOutcome(r, date) ==
    /\ <<r, date>> \in outcomes
    /\ \A n \in DOMAIN log : ~(log[n].intent = r /\ log[n].stage = OutcomeOf(r))
    /\ log' = Append(log, RecordOf(r, IF tx[r] = "mined" THEN "approved" ELSE "errored",
                                    OutcomeOf(r), TRUE, date))
    /\ UNCHANGED <<closed, activation, receipts>>
    /\ UNCHANGED <<kill, up, outcomes, run>>

\* The process dies, and with it every run.
Crash ==
    /\ up
    /\ up' = FALSE
    /\ pc' = [r \in Request |-> IF pc[r] \in Active THEN "lost" ELSE pc[r]]
    /\ auditSeen' = [r \in Request |-> Unread]
    /\ pairsSeen' = [r \in Request |-> NoPairs]
    /\ UNCHANGED <<files, kill, outcomes, tx, answer, prior, before>>

Restart ==
    /\ ~up
    /\ up' = TRUE
    /\ UNCHANGED <<files, kill, outcomes, run>>

Environment ==
    \/ \E r \in Request : Mine(r) \/ IngestByHand(r)
    \/ \E i \in Reset : ResetStreak(i)
    \/ \E r \in Request : AppendPair(r)
    \/ \E o \in outcomes : AppendOutcome(o[1], o[2])
    \/ Toggle \/ Backfill \/ Crash \/ Restart

Next == (\E r \in Request : Submit(r) \/ Step(r)) \/ Environment

Spec == Init /\ [][Next]_vars

\* A run goes on as long as its calls answer or time out.  That a call fails is
\* possible and never counted on.
Proceeds(r) ==
    \/ ReadAudit(r) \/ ReadPairs(r) \/ Reject(r) \/ Approve(r)
    \/ Sign(r) \/ RecordSigned(r) \/ Void(r) \/ Clear(r)
    \/ Broadcast(r) \/ RecordBroadcast(r)
    \/ Confirm(r) \/ Revert(r) \/ AwaitTimesOut(r)
    \/ IngestEnds(r) \/ IngestFails(r) \/ IngestReceipt(r) \/ CloseGap(r)
    \/ RecordError(r)

FairSpec == Spec /\ \A r \in Request : WF_vars(Proceeds(r))

-----------------------------------------------------------------------------
(* What the daemon guarantees.                                             *)

HasRecord(r, stage) ==
    \E n \in DOMAIN log : log[n].intent = r /\ log[n].stage = stage

\* The policies let r through.
Passed(r) == pc[r] \in Active \ {"reading"} \/ tx[r] # "none"

\* The signed record is written ahead: whatever may be on the network was
\* recorded as signed before, even when a step failed or the daemon died.
WriteAhead ==
    \A r \in Request : tx[r] \in OnNetwork => HasRecord(r, "signed")

\* The answer and the log agree: an ok or pending answer was broadcast and the
\* log says so, a rejected request is recorded and was never sent, and a
\* transaction on the network without a broadcast record belongs to a run that
\* has yet to record it, that failed or that died.
AnswersMatchTheLog ==
    \A r \in Request :
        /\ answer[r] \in {"ok", "pending"} /\ r \notin SignOnly =>
               HasRecord(r, "broadcasted") /\ tx[r] \in OnNetwork
        /\ HasRecord(r, "rejected") => tx[r] \in {"none", "signed"}
        /\ tx[r] \in OnNetwork /\ ~HasRecord(r, "broadcasted") =>
               pc[r] \in {"sent", "failing", "lost"} \/ answer[r] = "error"

\* The capital-audit gate, for requests made one after the other: when r
\* passes, each earlier request of its strategy with a recorded broadcast is
\* reconciled, or was first recorded before the latest backfill or watcher's pair.
ReconciledBeforeNext ==
    \A r \in Request : \A q \in prior[r] :
        /\ Passed(r)
        /\ StrategyOf[q] = StrategyOf[r]
        /\ \E n \in Evidence(log, StrategyOf[r]) : log[n].intent = q
        => \/ HashOf[q] \in closed
           \/ \E m \in Evidence(log, StrategyOf[r]) :
                  HashOf[log[m].intent] = HashOf[q] /\ log[m].date < activation

Standing(r) ==
    /\ HasRecord(r, "broadcasted") /\ ~HasRecord(r, "reverted")
    /\ KindOf[r] # "unwind"

InSequence(S) ==
    \A q, r \in S : q # r => q \in prior[r] \/ r \in prior[q]

Spent(S) == MapThenSumSet(LAMBDA r : AmountOf[r], S)

\* The daily cap, for requests made one after the other that share no
\* intentId: what they broadcast, and did not revert, stays within the cap.
SequentialSpendingWithinCap ==
    \A S \in SUBSET {r \in Request : Standing(r)} :
        /\ InSequence(S)
        /\ \A q, r \in S : StrategyOf[q] = StrategyOf[r]
        /\ \A r \in S, q \in Request : IdOf[q] = IdOf[r] => q = r
        => Spent(S) <= DayCap

\* The same for all requests, as a reader of "caps" expects it.
SpendingWithinCap ==
    \A s \in {StrategyOf[r] : r \in Request} :
        Spent({r \in Request : Standing(r) /\ StrategyOf[r] = s}) <= DayCap

\* A record of a success is superseded, for r, when a later revert of the same
\* request was in the log at r's submission.
Superseded(r, m) ==
    \E n \in 1 .. before[r] : /\ log[n].intent = log[m].intent
                              /\ log[n].stage = "reverted"
                              /\ log[n].date > log[m].date

Good(r) ==
    {m \in DOMAIN log : /\ InLane(log[m], StrategyOf[r], ChainOf[r])
                        /\ Classify(log[m]) \in {"succeeded", "reset"}
                        /\ ~Superseded(r, m)}

\* At r's submission the log had a revert of q that is dated after the resets and
\* the successes of r's lane, and that no later record of q replaces.
RevertedSinceGood(r, q) ==
    \E n \in 1 .. before[r] :
        /\ log[n].intent = q /\ log[n].stage = "reverted"
        /\ InLane(log[n], StrategyOf[r], ChainOf[r])
        /\ \A m \in Good(r) : log[m].date < log[n].date
        /\ \A m \in DOMAIN log :
               log[m].intent = q /\ Classify(log[m]) # "none" /\ m # n => log[m].date < log[n].date

\* The pause: a request passes only when fewer than MaxFailures requests of its
\* lane are recorded as reverted, when it is submitted, since the lane's last
\* success or reset.  A resent intent is left out: its records share the hash
\* and replace one another.
PausedAfterReverts ==
    \A r \in Request :
        Passed(r) /\ KindOf[r] # "revoke" =>
            Cardinality({q \in Request :
                /\ RevertedSinceGood(r, q)
                /\ \A p \in Request : HashOf[p] = HashOf[q] => p = q}) < MaxFailures

Lanes == {<<StrategyOf[r], ChainOf[r]>> : r \in Request}

LastClass == Classify(log'[Len(log')])

\* The intent that the last record is of failed before.
FailedBefore ==
    \E n \in DOMAIN log : /\ Classify(log[n]) = "failed"
                          /\ HashOf[log[n].intent] = HashOf[log'[Len(log')].intent]

\* Only a success or a reset lifts the pause of a lane.  An intent that failed
\* before is left out here: its latest record, of whatever kind, replaces its
\* failure.  It is resent, or its run fails after the watcher recorded a revert.
PauseLiftedBySuccessOrReset ==
    [][log' # log => \A l \in Lanes :
        Streak(log, l[1], l[2]) >= MaxFailures /\ Streak(log', l[1], l[2]) < MaxFailures
        => LastClass \in {"succeeded", "reset"} \/ FailedBefore]_vars

\* Every submitted request comes to an end, whatever became of its transaction.
EveryRunEnds == \A r \in Request : pc[r] = "reading" ~> pc[r] \in Over

-----------------------------------------------------------------------------
(* The daemon implements the broadcast gate.                               *)

gateOf == [r \in Request |->
    IF tx[r] \in OnNetwork THEN "sent"
    ELSE IF pc[r] \in {"idle", "reading"} THEN "waiting"
    ELSE IF pc[r] \in {"signing", "signed", "rechecking"} THEN "approved"
    ELSE IF pc[r] = "cleared" THEN "released"
    ELSE "dropped"]

Gate == INSTANCE BroadcastGate WITH
    gate <- gateOf,
    recorded <- {r \in Request : HasRecord(r, "signed")},
    halted <- kill

\* Approval, the signed record, release and sending happen in this order, and
\* nothing is approved or released while the kill switch is armed.
ImplementsGate == Gate!Spec

=============================================================================
