------------------------- MODULE SignerDaemonProofs -------------------------
(***************************************************************************)
(* Proofs about the signer daemon, for any requests, resets, intents,      *)
(* limits and commands.                                                    *)
(***************************************************************************)
EXTENDS SignerDaemon, WellFoundedInduction, TLAPS

-----------------------------------------------------------------------------
(* The audit log.                                                          *)

LEMMA RecordOfType ==
    ASSUME NEW i \in Intent, NEW v \in Verdict, NEW st \in Stage, NEW b \in BOOLEAN,
           NEW d \in Nat
    PROVE  RecordOf(i, v, st, b, d) \in Record
BY DEF RecordOf, Record

LEMMA DatesType ==
    ASSUME log \in Seq(Record)
    PROVE  /\ Len(log) \in Nat /\ Today(log) \in Nat
           /\ \A n \in Nat : StartedAt(n) \in Nat
BY DEF Today, StartedAt

\* What is appended stays: the log keeps the records it has.
LEMMA AppendKeeps ==
    ASSUME NEW rec, log \in Seq(Record), log' = Append(log, rec),
           NEW r, NEW st, HasRecord(r, st)
    PROVE  HasRecord(r, st)'
<1>1. PICK n \in DOMAIN log : log[n].intent = r /\ log[n].stage = st
  BY DEF HasRecord
<1>2. n \in DOMAIN log' /\ log'[n] = log[n]
  OBVIOUS
<1> QED
  BY <1>1, <1>2 DEF HasRecord

\* The log holds what is appended, and nothing else that it did not.
LEMMA AppendAdds ==
    ASSUME log \in Seq(Record), NEW i \in Intent, NEW v, NEW st, NEW b, NEW d,
           log' = Append(log, RecordOf(i, v, st, b, d))
    PROVE  /\ HasRecord(i, st)'
           /\ \A r, x : HasRecord(r, x)' => HasRecord(r, x) \/ (r = i /\ x = st)
<1>1. /\ Len(log') = Len(log) + 1 /\ Len(log') \in DOMAIN log'
      /\ log'[Len(log')] = RecordOf(i, v, st, b, d)
  OBVIOUS
<1>2. HasRecord(i, st)'
  BY <1>1 DEF HasRecord, RecordOf
<1>3. ASSUME NEW r, NEW x, HasRecord(r, x)'
      PROVE  HasRecord(r, x) \/ (r = i /\ x = st)
  <2>1. PICK n \in DOMAIN log' : log'[n].intent = r /\ log'[n].stage = x
    BY <1>3 DEF HasRecord
  <2>2. CASE n = Len(log')
    BY <2>1, <2>2, <1>1 DEF RecordOf
  <2>3. CASE n # Len(log')
    <3>1. n \in DOMAIN log /\ log'[n] = log[n]
      BY <2>3, <1>1
    <3> QED
      BY <3>1, <2>1 DEF HasRecord
  <2> QED
    BY <2>2, <2>3
<1> QED
  BY <1>2, <1>3

-----------------------------------------------------------------------------
(* Type correctness.                                                       *)

LEMMA AppendsType ==
    ASSUME log \in Seq(Record), NEW r \in Request, NEW v \in Verdict,
           NEW st \in Stage, NEW b \in BOOLEAN, Appends(r, v, st, b)
    PROVE  log' \in Seq(Record)
BY RecordOfType, DatesType DEF Appends, Intent

LEMMA MovesType ==
    ASSUME pc \in [Request -> PC], NEW r \in Request, NEW from, NEW to \in PC,
           Moves(r, from, to)
    PROVE  pc' \in [Request -> PC]
BY DEF Moves

LEMMA EndsType ==
    ASSUME pc \in [Request -> PC], answer \in [Request -> Answer],
           NEW r \in Request, NEW from, NEW result \in Answer,
           Ends(r, from, result)
    PROVE  pc' \in [Request -> PC] /\ answer' \in [Request -> Answer]
BY MovesType DEF Ends, Moves, PC

LEMMA ForgetsType ==
    ASSUME TypeOK, NEW r \in Request, Forgets(r)
    PROVE  /\ auditSeen' \in [Request -> Nat \cup {Unread}]
           /\ pairsSeen' \in [Request -> (SUBSET Hash) \X (Nat \cup {Unread})]
BY DEF TypeOK, Forgets, NoPairs

\* The steps of a run keep the types.
LEMMA StepType ==
    ASSUME TypeOK, NEW r \in Request, Submit(r) \/ Step(r)
    PROVE  TypeOK'
<1> USE DEF TypeOK, files, HandlerUnchanged
<1>1. CASE Submit(r)
  <2>1. Len(log) \in Nat
    BY DatesType
  <2> QED
    BY <1>1, <2>1, MovesType DEF Submit, PC, Active
<1>2. CASE ReadAudit(r)
  BY <1>2 DEF ReadAudit
<1>22. CASE ReadPairs(r)
  <2>1. <<closed, activation>> \in (SUBSET Hash) \X (Nat \cup {Unread})
    OBVIOUS
  <2> QED
    BY <1>22, <2>1 DEF ReadPairs
<1>3. CASE Abort(r)
  BY <1>3, EndsType, ForgetsType DEF Abort, Answer
<1>4. CASE Reject(r)
  BY <1>4, EndsType, ForgetsType, AppendsType DEF Reject, Answer, Verdict, Stage
<1>5. CASE Approve(r)
  BY <1>5, MovesType, ForgetsType DEF Approve, PC, Active
<1>6. CASE Sign(r)
  BY <1>6, MovesType DEF Sign, PC, Active, Tx
<1>7. CASE RecordSigned(r)
  <2>1. log' \in Seq(Record)
    BY <1>7, AppendsType DEF RecordSigned, Verdict, Stage
  <2>2. pc' \in [Request -> PC] /\ answer' \in [Request -> Answer]
    BY <1>7, MovesType, EndsType DEF RecordSigned, PC, Active, Answer
  <2> QED
    BY <1>7, <2>1, <2>2 DEF RecordSigned
<1>8. CASE Void(r)
  BY <1>8, EndsType, AppendsType DEF Void, Answer, Verdict, Stage
<1>9. CASE Clear(r)
  BY <1>9, MovesType DEF Clear, PC, Active
<1>10. CASE Broadcast(r)
  BY <1>10, MovesType DEF Broadcast, PC, Active, Tx, OnNetwork
<1>23. CASE BroadcastFails(r)
  BY <1>23, MovesType DEF BroadcastFails, PC, Active, Tx, OnNetwork
<1>11. CASE RecordBroadcast(r)
  <2>1. log' \in Seq(Record)
    BY <1>11, AppendsType DEF RecordBroadcast, Verdict, Stage
  <2> QED
    BY <1>11, <2>1, MovesType DEF RecordBroadcast, PC, Active
<1>12. CASE Confirm(r)
  BY <1>12, MovesType, AppendsType DEF Confirm, PC, Active, Verdict, Stage
<1>13. CASE Revert(r)
  BY <1>13, EndsType, AppendsType DEF Revert, Answer, Verdict, Stage
<1>14. CASE AwaitTimesOut(r)
  BY <1>14, EndsType, AppendsType DEF AwaitTimesOut, Answer, Verdict, Stage
<1>15. CASE IngestEnds(r)
  BY <1>15, EndsType DEF IngestEnds, Answer
<1>16. CASE IngestFails(r)
  BY <1>16, EndsType, AppendsType DEF IngestFails, Answer, Verdict, Stage
<1>17. CASE IngestReceipt(r)
  BY <1>17, MovesType DEF IngestReceipt, PC, Active
<1>18. CASE CloseGap(r)
  BY <1>18, EndsType DEF CloseGap, Answer, Hash, Intent
<1>19. CASE StepFails(r)
  BY <1>19, MovesType DEF StepFails, PC, Active
<1>20. CASE RecordError(r)
  BY <1>20, EndsType, AppendsType DEF RecordError, Answer, Verdict, Stage
<1>21. CASE RecordErrorFails(r)
  BY <1>21, EndsType DEF RecordErrorFails, Answer
<1> QED
  BY <1>1, <1>2, <1>3, <1>4, <1>5, <1>6, <1>7, <1>8, <1>9, <1>10, <1>11, <1>12,
     <1>13, <1>14, <1>15, <1>16, <1>17, <1>18, <1>19, <1>20, <1>21, <1>22, <1>23 DEF Step

\* So do the steps around the daemon.
LEMMA EnvironmentType ==
    ASSUME TypeOK, Environment
    PROVE  TypeOK'
<1> USE DEF TypeOK, files, run
<1>1. ASSUME NEW r \in Request, Mine(r)
      PROVE  TypeOK'
  BY <1>1 DEF Mine, Tx, OnNetwork
<1>2. ASSUME NEW r \in Request, IngestByHand(r)
      PROVE  TypeOK'
  BY <1>2 DEF IngestByHand
<1>3. ASSUME NEW i \in Reset, ResetStreak(i)
      PROVE  TypeOK'
  <2>1. ResetRecord(i, Today(log)) \in Record
    BY RecordOfType, DatesType DEF ResetRecord, Intent, Verdict, Stage
  <2> QED
    BY <1>3, <2>1 DEF ResetStreak
<1>4. CASE Toggle \/ Restart
  BY <1>4 DEF Toggle, Restart
<1>5. CASE Backfill
  <2>1. ASSUME NEW n \in DOMAIN log
        PROVE  HashOf[log[n].intent] \in Hash
    <3>1. log[n] \in Record
      OBVIOUS
    <3> QED
      BY <3>1 DEF Record, Hash
  <2>2. Closable \subseteq Hash
    BY <2>1 DEF Closable
  <2>3. StartedAt(Len(log)) \in Nat
    BY DatesType
  <2> QED
    BY <1>5, <2>2, <2>3 DEF Backfill
<1>6. CASE Crash
  BY <1>6 DEF Crash, PC, NoPairs
<1>7. ASSUME NEW r \in Request, AppendPair(r)
      PROVE  TypeOK'
  <2>1. HashOf[r] \in Hash
    BY DEF Hash, Intent
  <2>2. PICK n \in 0 .. Len(log) : \E m \in 0 .. n :
            /\ activation' \in {activation, StartedAt(m)}
            /\ outcomes' = outcomes \cup {<<r, StartedAt(m)>>}
    BY <1>7 DEF AppendPair
  <2>3. PICK m \in 0 .. n :
            /\ activation' \in {activation, StartedAt(m)}
            /\ outcomes' = outcomes \cup {<<r, StartedAt(m)>>}
    BY <2>2
  <2>4. m \in Nat /\ StartedAt(m) \in Nat
    BY <2>3, DatesType
  <2>5. activation' \in Nat /\ outcomes' \subseteq Request \X Nat
    BY <2>3, <2>4
  <2>6. closed' \subseteq Hash
    BY <1>7, <2>1 DEF AppendPair
  <2>7. UNCHANGED <<log, receipts, kill, up, run>>
    BY <1>7 DEF AppendPair
  <2> QED
    BY <2>5, <2>6, <2>7
<1>8. ASSUME NEW o \in outcomes, AppendOutcome(o[1], o[2])
      PROVE  TypeOK'
  <2>1. o[1] \in Intent /\ o[2] \in Nat
    BY DEF Intent
  <2>2. PICK rec \in Record : log' = Append(log, rec)
    BY <1>8, <2>1, RecordOfType DEF AppendOutcome, OutcomeOf, Verdict, Stage
  <2>3. log' \in Seq(Record)
    BY <2>2
  <2>4. UNCHANGED <<closed, activation, receipts, kill, up, outcomes, run>>
    BY <1>8 DEF AppendOutcome
  <2> QED
    BY <2>3, <2>4
<1> QED
  BY <1>1, <1>2, <1>3, <1>4, <1>5, <1>6, <1>7, <1>8 DEF Environment

\* Every variable of the daemon keeps its type, in particular the log: no step
\* writes a record the policies cannot read.
THEOREM TypeCorrect == Spec => []TypeOK
<1>1. Init => TypeOK
  <2>1. NoPairs \in (SUBSET Hash) \X (Nat \cup {Unread})
    BY DEF NoPairs
  <2> SUFFICES ASSUME Init PROVE TypeOK
    OBVIOUS
  <2>2. log \in Seq(Record)
    BY DEF Init
  <2>3. /\ closed \subseteq Hash /\ activation \in Nat /\ receipts \subseteq Request
        /\ kill \in BOOLEAN /\ up \in BOOLEAN /\ outcomes \subseteq Request \X Nat
        /\ before \in [Request -> Nat]
    BY DEF Init
  <2>4. /\ pc \in [Request -> PC] /\ tx \in [Request -> Tx]
        /\ answer \in [Request -> Answer] /\ prior \in [Request -> SUBSET Request]
    BY DEF Init, PC, Tx, Answer
  <2>5. /\ auditSeen \in [Request -> Nat \cup {Unread}]
        /\ pairsSeen \in [Request -> (SUBSET Hash) \X (Nat \cup {Unread})]
    BY <2>1 DEF Init
  <2> QED
    BY <2>2, <2>3, <2>4, <2>5 DEF TypeOK
<1>2. TypeOK /\ [Next]_vars => TypeOK'
  <2>1. ASSUME TypeOK, UNCHANGED vars
        PROVE  TypeOK'
    BY <2>1 DEF TypeOK, vars, files, run
  <2> QED
    BY <2>1, StepType, EnvironmentType DEF Next
<1> QED
  BY <1>1, <1>2, PTL DEF Spec

-----------------------------------------------------------------------------
(* The answers, the log and the transactions.                              *)

\* The steps of a run append at most one record, of the run's own request.
LEMMA AppendsHas ==
    ASSUME TypeOK, NEW r \in Request, NEW v, NEW st, NEW b, Appends(r, v, st, b)
    PROVE  /\ \A x : HasRecord(r, x)' <=> HasRecord(r, x) \/ x = st
           /\ \A q, x : q # r => (HasRecord(q, x)' <=> HasRecord(q, x))
<1>1. log \in Seq(Record) /\ r \in Intent
  BY DEF TypeOK, Intent
<1>2. log' = Append(log, RecordOf(r, v, st, b, Today(log)))
  BY DEF Appends
<1>3. \A q, x : HasRecord(q, x) => HasRecord(q, x)'
  BY <1>1, <1>2, AppendKeeps
<1> QED
  BY <1>1, <1>2, <1>3, AppendAdds

LEMMA SameHas ==
    ASSUME UNCHANGED log
    PROVE  \A q, x : HasRecord(q, x)' <=> HasRecord(q, x)
BY DEF HasRecord

\* The steps of a run leave the other runs alone.
LEMMA StepKeepsOthers ==
    ASSUME TypeOK, NEW r \in Request, Submit(r) \/ Step(r),
           NEW q \in Request, q # r
    PROVE  /\ pc'[q] = pc[q] /\ tx'[q] = tx[q] /\ answer'[q] = answer[q]
           /\ \A x : HasRecord(q, x)' <=> HasRecord(q, x)
<1> USE DEF TypeOK, files, Moves, Ends
<1>1. CASE Submit(r)
  BY <1>1, SameHas DEF Submit
<1>2. CASE ReadAudit(r) \/ ReadPairs(r) \/ Abort(r) \/ Approve(r)
  BY <1>2, SameHas DEF ReadAudit, ReadPairs, Abort, Approve
<1>3. CASE Sign(r) \/ Clear(r) \/ Broadcast(r) \/ BroadcastFails(r)
  BY <1>3, SameHas DEF Sign, Clear, Broadcast, BroadcastFails
<1>4. CASE IngestEnds(r) \/ IngestReceipt(r) \/ CloseGap(r)
  BY <1>4, SameHas DEF IngestEnds, IngestReceipt, CloseGap
<1>5. CASE StepFails(r) \/ RecordErrorFails(r)
  BY <1>5, SameHas DEF StepFails, RecordErrorFails
<1>6. CASE Reject(r) \/ RecordSigned(r) \/ Void(r)
  <2>1. CASE Reject(r)
    BY <2>1, AppendsHas DEF Reject
  <2>2. CASE RecordSigned(r)
    BY <2>2, AppendsHas, ZenonT(60) DEF RecordSigned
  <2>3. CASE Void(r)
    BY <2>3, AppendsHas DEF Void
  <2> QED
    BY <1>6, <2>1, <2>2, <2>3
<1>7. CASE RecordBroadcast(r) \/ Confirm(r) \/ Revert(r) \/ AwaitTimesOut(r)
  BY <1>7, AppendsHas DEF RecordBroadcast, Confirm, Revert, AwaitTimesOut
<1>8. CASE IngestFails(r) \/ RecordError(r)
  BY <1>8, AppendsHas DEF IngestFails, RecordError
<1> QED
  BY <1>1, <1>2, <1>3, <1>4, <1>5, <1>6, <1>7, <1>8 DEF Step

\* Where a run is once its broadcast is recorded.
Broadcasted == {"awaiting", "ingesting", "ingestingJob", "closing"}

\* What the position of a run says of its transaction and of its records.
RunInv(r) ==
    /\ pc[r] \in {"idle", "reading", "signing"} => tx[r] = "none"
    /\ pc[r] \in {"signed", "rechecking", "cleared"} => tx[r] = "signed"
    /\ pc[r] \in {"rechecking", "cleared"} => HasRecord(r, "signed")
    /\ pc[r] = "sent" => tx[r] \in OnNetwork
    /\ pc[r] \in Broadcasted => tx[r] \in OnNetwork /\ HasRecord(r, "broadcasted")
    /\ tx[r] \in OnNetwork => HasRecord(r, "signed")
    /\ HasRecord(r, "broadcasted") => tx[r] \in OnNetwork
    /\ pc[r] = "done" <=> answer[r] # "none"
    /\ answer[r] \in {"ok", "pending"} /\ r \notin SignOnly =>
           HasRecord(r, "broadcasted") /\ tx[r] \in OnNetwork
    /\ HasRecord(r, "rejected") => pc[r] = "done" /\ tx[r] \in {"none", "signed"}
    /\ tx[r] \in OnNetwork /\ ~HasRecord(r, "broadcasted") =>
           pc[r] \in {"sent", "failing", "lost"} \/ answer[r] = "error"

Inv == \A r \in Request : RunInv(r)

LEMMA InitInv == Init => Inv
BY DEF Init, Inv, RunInv, HasRecord, Broadcasted, OnNetwork

\* The steps of a run preserve what is said of it.
LEMMA StepRunInv ==
    ASSUME TypeOK, NEW r \in Request, RunInv(r), Submit(r) \/ Step(r)
    PROVE  RunInv(r)'
<1> USE DEF TypeOK, files, Moves, Ends, RunInv, Broadcasted, OnNetwork
<1>1. CASE Submit(r) \/ ReadAudit(r) \/ ReadPairs(r) \/ Abort(r) \/ Approve(r)
  BY <1>1, SameHas DEF Submit, ReadAudit, ReadPairs, Abort, Approve
<1>2. CASE Reject(r)
  <2>1. \A x : HasRecord(r, x)' <=> HasRecord(r, x) \/ x = "rejected"
    BY <1>2, AppendsHas DEF Reject
  <2>2. /\ pc[r] = "reading" /\ pc'[r] = "done"
        /\ tx'[r] = tx[r] /\ answer'[r] = "rejected"
    BY <1>2 DEF Reject
  <2> QED
    BY <2>1, <2>2
<1>3. CASE Sign(r)
  BY <1>3, SameHas DEF Sign
<1>4. CASE RecordSigned(r)
  <2>1. \A x : HasRecord(r, x)' <=> HasRecord(r, x) \/ x = "signed"
    BY <1>4, AppendsHas DEF RecordSigned
  <2>2. CASE r \in SignOnly
    BY <1>4, <2>1, <2>2 DEF RecordSigned
  <2>3. CASE r \notin SignOnly
    BY <1>4, <2>1, <2>3 DEF RecordSigned
  <2> QED
    BY <2>2, <2>3
<1>5. CASE Void(r)
  <2>1. \A x : HasRecord(r, x)' <=> HasRecord(r, x) \/ x = "rejected"
    BY <1>5, AppendsHas DEF Void
  <2>2. /\ pc[r] = "rechecking" /\ pc'[r] = "done"
        /\ tx'[r] = tx[r] /\ answer'[r] = "rejected"
    BY <1>5 DEF Void
  <2> QED
    BY <2>1, <2>2
<1>6. CASE Clear(r)
  BY <1>6, SameHas DEF Clear
<1>7. CASE Broadcast(r)
  BY <1>7, SameHas DEF Broadcast
<1>8. CASE BroadcastFails(r)
  BY <1>8, SameHas DEF BroadcastFails
<1>9. CASE RecordBroadcast(r)
  <2>1. \A x : HasRecord(r, x)' <=> HasRecord(r, x) \/ x = "broadcasted"
    BY <1>9, AppendsHas DEF RecordBroadcast
  <2>2. /\ pc[r] = "sent" /\ pc'[r] \in Broadcasted
        /\ tx'[r] = tx[r] /\ answer'[r] = answer[r]
    BY <1>9 DEF RecordBroadcast
  <2> QED
    BY <2>1, <2>2
<1>10. CASE Confirm(r)
  <2>1. \A x : HasRecord(r, x)' <=> HasRecord(r, x) \/ x = "confirmed"
    BY <1>10, AppendsHas DEF Confirm
  <2>2. /\ pc[r] = "awaiting" /\ pc'[r] = "ingesting"
        /\ tx'[r] = tx[r] /\ answer'[r] = answer[r]
    BY <1>10 DEF Confirm
  <2> QED
    BY <2>1, <2>2
<1>11. CASE Revert(r)
  <2>1. \A x : HasRecord(r, x)' <=> HasRecord(r, x) \/ x = "reverted"
    BY <1>11, AppendsHas DEF Revert
  <2>2. /\ pc[r] = "awaiting" /\ pc'[r] = "done"
        /\ tx'[r] = tx[r] /\ answer'[r] = "error"
    BY <1>11 DEF Revert
  <2> QED
    BY <2>1, <2>2
<1>12. CASE AwaitTimesOut(r)
  <2>1. \A x : HasRecord(r, x)' <=> HasRecord(r, x) \/ x = "confirmation_pending"
    BY <1>12, AppendsHas DEF AwaitTimesOut
  <2>2. /\ pc[r] = "awaiting" /\ pc'[r] = "done"
        /\ tx'[r] = tx[r] /\ answer'[r] = "pending"
    BY <1>12 DEF AwaitTimesOut
  <2> QED
    BY <2>1, <2>2
<1>13. CASE IngestEnds(r) \/ IngestReceipt(r) \/ CloseGap(r)
  <2>1. CASE IngestEnds(r)
    BY <2>1, SameHas DEF IngestEnds
  <2>2. CASE IngestReceipt(r)
    BY <2>2, SameHas DEF IngestReceipt
  <2>3. CASE CloseGap(r)
    BY <2>3, SameHas DEF CloseGap
  <2> QED
    BY <1>13, <2>1, <2>2, <2>3
<1>14. CASE IngestFails(r)
  <2>1. \A x : HasRecord(r, x)' <=> HasRecord(r, x) \/ x = "auto_ingest_error"
    BY <1>14, AppendsHas DEF IngestFails
  <2>2. /\ pc[r] \in Broadcasted /\ pc'[r] = "done"
        /\ tx'[r] = tx[r] /\ answer'[r] = "ok"
    BY <1>14 DEF IngestFails
  <2> QED
    BY <2>1, <2>2
<1>15. CASE StepFails(r)
  BY <1>15, SameHas DEF StepFails
<1>16. CASE RecordError(r)
  <2>1. \A x : HasRecord(r, x)' <=> HasRecord(r, x) \/ x = "error"
    BY <1>16, AppendsHas DEF RecordError
  <2>2. /\ pc[r] = "failing" /\ pc'[r] = "done"
        /\ tx'[r] = tx[r] /\ answer'[r] = "error"
    BY <1>16 DEF RecordError
  <2> QED
    BY <2>1, <2>2
<1>17. CASE RecordErrorFails(r)
  BY <1>17, SameHas DEF RecordErrorFails
<1> QED
  BY <1>1, <1>2, <1>3, <1>4, <1>5, <1>6, <1>7, <1>8, <1>9, <1>10, <1>11, <1>12,
     <1>13, <1>14, <1>15, <1>16, <1>17 DEF Step

\* A reset record is of no request.
LEMMA ResetHas ==
    ASSUME TypeOK, NEW i \in Reset, ResetStreak(i)
    PROVE  \A r \in Request : \A x : HasRecord(r, x)' <=> HasRecord(r, x)
<1>1. /\ log \in Seq(Record) /\ i \in Intent
      /\ log' = Append(log, RecordOf(i, "approved", "reset", FALSE, Today(log)))
  BY DEF TypeOK, Intent, ResetStreak, ResetRecord
<1>2. \A r \in Request : r # i
  BY IntentAssumption
<1>3. \A r, x : HasRecord(r, x) => HasRecord(r, x)'
  BY <1>1, AppendKeeps
<1> QED
  BY <1>1, <1>2, <1>3, AppendAdds

\* The watcher records a confirmation or a revert, which says nothing of a run.
LEMMA OutcomeHas ==
    ASSUME TypeOK, NEW q \in Request, NEW d, AppendOutcome(q, d)
    PROVE  \A r : \A x \in {"signed", "broadcasted", "rejected"} :
               HasRecord(r, x)' <=> HasRecord(r, x)
<1>1. log \in Seq(Record) /\ q \in Intent
  BY DEF TypeOK, Intent
<1>2. PICK v \in {"approved", "errored"}, st \in {"confirmed", "reverted"} :
          log' = Append(log, RecordOf(q, v, st, TRUE, d))
  BY DEF AppendOutcome, OutcomeOf
<1>3. \A r, x : HasRecord(r, x) => HasRecord(r, x)'
  BY <1>1, <1>2, AppendKeeps
<1>4. \A r, x : HasRecord(r, x)' => HasRecord(r, x) \/ (r = q /\ x = st)
  BY <1>1, <1>2, AppendAdds
<1> QED
  BY <1>3, <1>4

\* The steps around the daemon preserve what is said of every run.
LEMMA EnvironmentInv ==
    ASSUME TypeOK, Inv, Environment
    PROVE  Inv'
<1> SUFFICES ASSUME NEW r \in Request PROVE RunInv(r)'
  BY DEF Inv
<1> RunInv(r)
  BY DEF Inv
<1> USE DEF TypeOK, files, run, RunInv, Broadcasted, OnNetwork
<1>1. ASSUME NEW q \in Request, Mine(q)
      PROVE  RunInv(r)'
  BY <1>1, SameHas DEF Mine
<1>2. ASSUME NEW q \in Request, IngestByHand(q)
      PROVE  RunInv(r)'
  BY <1>2, SameHas DEF IngestByHand
<1>3. ASSUME NEW i \in Reset, ResetStreak(i)
      PROVE  RunInv(r)'
  BY <1>3, ResetHas DEF ResetStreak
<1>4. CASE Toggle \/ Restart \/ Backfill
  BY <1>4, SameHas DEF Toggle, Restart, Backfill
<1>5. CASE Crash
  BY <1>5, SameHas DEF Crash, Active
<1>6. ASSUME NEW q \in Request, AppendPair(q)
      PROVE  RunInv(r)'
  BY <1>6, SameHas DEF AppendPair
<1>7. ASSUME NEW o \in outcomes, AppendOutcome(o[1], o[2])
      PROVE  RunInv(r)'
  <2>1. o[1] \in Request
    OBVIOUS
  <2>2. UNCHANGED <<pc, tx, answer>>
    BY <1>7 DEF AppendOutcome
  <2>3. \A x \in {"signed", "broadcasted", "rejected"} : HasRecord(r, x)' <=> HasRecord(r, x)
    BY <1>7, <2>1, OutcomeHas
  <2> QED
    BY <2>2, <2>3
<1> QED
  BY <1>1, <1>2, <1>3, <1>4, <1>5, <1>6, <1>7 DEF Environment

LEMMA NextInv == TypeOK /\ Inv /\ [Next]_vars => Inv'
<1> SUFFICES ASSUME TypeOK, Inv, [Next]_vars PROVE Inv'
  OBVIOUS
<1>1. ASSUME NEW r \in Request, Submit(r) \/ Step(r)
      PROVE  Inv'
  <2> SUFFICES ASSUME NEW q \in Request PROVE RunInv(q)'
    BY DEF Inv
  <2>1. RunInv(q)
    BY DEF Inv
  <2>2. CASE q = r
    BY <1>1, <2>1, <2>2, StepRunInv
  <2>3. CASE q # r
    BY <1>1, <2>1, <2>3, StepKeepsOthers DEF RunInv
  <2> QED
    BY <2>2, <2>3
<1>2. CASE UNCHANGED vars
  BY <1>2, SameHas DEF vars, files, run, Inv, RunInv
<1> QED
  BY <1>1, <1>2, EnvironmentInv DEF Next

LEMMA InvHolds == Spec => []Inv
BY InitInv, NextInv, TypeCorrect, PTL DEF Spec

\* The signed record is on file before the transaction may reach the network,
\* whichever step fails and whenever the daemon dies.
THEOREM WriteAheadHolds == Spec => []WriteAhead
<1>1. Inv => WriteAhead
  BY DEF Inv, RunInv, WriteAhead
<1> QED
  BY <1>1, InvHolds, PTL

\* The daemon's answers agree with its log, and the log with the network.
THEOREM AnswersHold == Spec => []AnswersMatchTheLog
<1>1. Inv => AnswersMatchTheLog
  BY DEF Inv, RunInv, AnswersMatchTheLog
<1> QED
  BY <1>1, InvHolds, PTL

-----------------------------------------------------------------------------
(* The daemon implements the broadcast gate.                               *)

recordedOf == {r \in Request : HasRecord(r, "signed")}

\* A step of r that appends nothing, or no signed record, records no request.
LEMMA RecordedSame ==
    ASSUME \A q \in Request : HasRecord(q, "signed")' <=> HasRecord(q, "signed")
    PROVE  UNCHANGED recordedOf
BY DEF recordedOf

LEMMA RecordedMore ==
    ASSUME TypeOK, NEW r \in Request, NEW v, NEW b, Appends(r, v, "signed", b)
    PROVE  recordedOf' = recordedOf \cup {r}
<1>1. ASSUME NEW q \in Request
      PROVE  HasRecord(q, "signed")' <=> HasRecord(q, "signed") \/ q = r
  <2>1. CASE q = r
    BY <2>1, AppendsHas
  <2>2. CASE q # r
    BY <2>2, AppendsHas
  <2> QED
    BY <2>1, <2>2
<1> QED
  BY <1>1 DEF recordedOf

\* The gate of a run depends on nothing of the other runs.
LEMMA GateOfStep ==
    ASSUME TypeOK, NEW r \in Request, Submit(r) \/ Step(r)
    PROVE  gateOf' = [gateOf EXCEPT ![r] = gateOf'[r]]
<1>1. ASSUME NEW q \in Request, q # r
      PROVE  gateOf'[q] = gateOf[q]
  BY <1>1, StepKeepsOthers DEF gateOf
<1>2. DOMAIN gateOf = Request /\ DOMAIN gateOf' = Request
      /\ gateOf = [q \in Request |-> gateOf[q]]
      /\ gateOf' = [q \in Request |-> gateOf'[q]]
  BY DEF gateOf
<1> QED
  BY <1>1, <1>2

\* A step after which the gate of its run is what it was.
LEMMA StutterStep ==
    ASSUME TypeOK, NEW r \in Request, Submit(r) \/ Step(r),
           gateOf'[r] = gateOf[r],
           HasRecord(r, "signed")' <=> HasRecord(r, "signed"), UNCHANGED kill
    PROVE  UNCHANGED <<gateOf, recordedOf, kill>>
<1>1. UNCHANGED recordedOf
  BY StepKeepsOthers, RecordedSame
<1>2. UNCHANGED gateOf
  <2>1. gateOf = [q \in Request |-> gateOf[q]]
    BY DEF gateOf
  <2> QED
    BY <2>1, GateOfStep
<1> QED
  BY <1>1, <1>2

\* A step that drops its run.
LEMMA DropStep ==
    ASSUME TypeOK, NEW r \in Request, Submit(r) \/ Step(r),
           gateOf[r] # "sent", gateOf'[r] = "dropped",
           HasRecord(r, "signed")' <=> HasRecord(r, "signed"), UNCHANGED kill
    PROVE  Gate!Next
<1>1. UNCHANGED recordedOf
  BY StepKeepsOthers, RecordedSame
<1>2. gateOf' = [q \in Request |-> IF q \in {r} THEN "dropped" ELSE gateOf[q]]
  <2>1. gateOf = [q \in Request |-> gateOf[q]]
    BY DEF gateOf
  <2>2. gateOf' = [gateOf EXCEPT ![r] = "dropped"]
    BY GateOfStep
  <2> QED
    BY <2>1, <2>2
<1>3. Gate!Drop({r})
  BY <1>1, <1>2 DEF Gate!Drop, recordedOf
<1> QED
  BY <1>3 DEF Gate!Next

\* Every step of a run is a step of the gate, or none.
LEMMA StepImplements ==
    ASSUME TypeOK, NEW r \in Request, RunInv(r), RunInv(r)', Submit(r) \/ Step(r)
    PROVE  Gate!Next \/ UNCHANGED <<gateOf, recordedOf, kill>>
<1> DEFINE Same == HasRecord(r, "signed")' <=> HasRecord(r, "signed")
<1> USE DEF TypeOK, files, HandlerUnchanged, Moves, Ends
<1>1. ASSUME Submit(r) \/ ReadAudit(r) \/ ReadPairs(r)
      PROVE  UNCHANGED <<gateOf, recordedOf, kill>>
  <2>1. gateOf'[r] = gateOf[r]
    BY <1>1 DEF Submit, ReadAudit, ReadPairs, gateOf
  <2>2. Same /\ UNCHANGED kill
    BY <1>1, SameHas DEF Submit, ReadAudit, ReadPairs
  <2> QED
    BY <1>1, <2>1, <2>2, StutterStep DEF Step
<1>2. ASSUME Abort(r) \/ Reject(r)
      PROVE  Gate!Next
  <2>1. gateOf[r] # "sent" /\ gateOf'[r] = "dropped"
    BY <1>2 DEF Abort, Reject, RunInv, gateOf, OnNetwork
  <2>2. Same /\ UNCHANGED kill
    BY ZenonT(60), <1>2, SameHas, AppendsHas DEF Abort, Reject
  <2> QED
    BY <1>2, <2>1, <2>2, DropStep DEF Step
<1>3. ASSUME Approve(r)
      PROVE  Gate!Next
  <2>1. gateOf[r] = "waiting" /\ gateOf'[r] = "approved"
    BY <1>3 DEF Approve, RunInv, gateOf, OnNetwork
  <2>2. UNCHANGED recordedOf
    BY <1>3, SameHas, RecordedSame DEF Approve
  <2>3. gateOf' = [gateOf EXCEPT ![r] = "approved"]
    BY <1>3, <2>1, GateOfStep DEF Step
  <2>4. Gate!Approve(r)
    BY <1>3, <2>1, <2>2, <2>3 DEF Approve, Gate!Approve, recordedOf
  <2> QED
    BY <2>4 DEF Gate!Next
<1>4. ASSUME Sign(r)
      PROVE  UNCHANGED <<gateOf, recordedOf, kill>>
  <2>1. gateOf'[r] = gateOf[r]
    BY <1>4 DEF Sign, RunInv, gateOf, OnNetwork
  <2>2. Same /\ UNCHANGED kill
    BY <1>4, SameHas DEF Sign
  <2> QED
    BY <1>4, <2>1, <2>2, StutterStep DEF Step
<1>5. ASSUME RecordSigned(r)
      PROVE  Gate!Next
  <2>1. gateOf[r] = "approved" /\ gateOf'[r] \in {"approved", "dropped"}
    BY <1>5 DEF RecordSigned, RunInv, gateOf, OnNetwork
  <2>2. recordedOf' = recordedOf \cup {r}
    BY <1>5, RecordedMore DEF RecordSigned
  <2>3. gateOf' = gateOf \/ gateOf' = [gateOf EXCEPT ![r] = "dropped"]
    <3>1. gateOf = [q \in Request |-> gateOf[q]]
      BY DEF gateOf
    <3> QED
      BY <1>5, <2>1, <3>1, GateOfStep DEF Step
  <2>4. Gate!Record(r)
    BY <1>5, <2>1, <2>2, <2>3 DEF RecordSigned, Gate!Record, recordedOf
  <2> QED
    BY <2>4 DEF Gate!Next
<1>6. ASSUME Void(r)
      PROVE  Gate!Next
  <2>1. gateOf[r] # "sent" /\ gateOf'[r] = "dropped"
    BY <1>6 DEF Void, RunInv, gateOf, OnNetwork
  <2>2. Same /\ UNCHANGED kill
    BY <1>6, AppendsHas DEF Void
  <2> QED
    BY <1>6, <2>1, <2>2, DropStep DEF Step
<1>7. ASSUME Clear(r)
      PROVE  Gate!Next
  <2>1. gateOf[r] = "approved" /\ gateOf'[r] = "released" /\ r \in recordedOf
    BY <1>7 DEF Clear, RunInv, gateOf, OnNetwork, recordedOf
  <2>2. UNCHANGED recordedOf
    BY <1>7, SameHas, RecordedSame DEF Clear
  <2>3. gateOf' = [gateOf EXCEPT ![r] = "released"]
    BY <1>7, <2>1, GateOfStep DEF Step
  <2>4. Gate!Release(r)
    BY <1>7, <2>1, <2>2, <2>3 DEF Clear, Gate!Release, recordedOf
  <2> QED
    BY <2>4 DEF Gate!Next
<1>8. ASSUME Broadcast(r) \/ BroadcastFails(r)
      PROVE  Gate!Next
  <2>1. gateOf[r] = "released" /\ gateOf'[r] \in {"sent", "dropped"}
    BY <1>8 DEF Broadcast, BroadcastFails, RunInv, gateOf, OnNetwork
  <2>2. Same /\ UNCHANGED kill
    BY <1>8, SameHas DEF Broadcast, BroadcastFails
  <2>3. CASE gateOf'[r] = "dropped"
    BY <1>8, <2>1, <2>2, <2>3, DropStep DEF Step
  <2>4. CASE gateOf'[r] = "sent"
    <3>1. UNCHANGED recordedOf
      BY <1>8, SameHas, RecordedSame DEF Broadcast, BroadcastFails
    <3>2. gateOf' = [gateOf EXCEPT ![r] = "sent"]
      BY <1>8, <2>4, GateOfStep DEF Step
    <3>3. Gate!Send(r)
      BY <2>1, <2>2, <3>1, <3>2 DEF Gate!Send, recordedOf
    <3> QED
      BY <3>3 DEF Gate!Next
  <2> QED
    BY <2>1, <2>3, <2>4
<1>9. ASSUME RecordBroadcast(r) \/ Confirm(r) \/ Revert(r) \/ AwaitTimesOut(r)
      PROVE  UNCHANGED <<gateOf, recordedOf, kill>>
  <2>1. gateOf'[r] = gateOf[r]
    <3>1. tx[r] \in OnNetwork /\ UNCHANGED tx
      BY <1>9 DEF RecordBroadcast, Confirm, Revert, AwaitTimesOut, RunInv, Broadcasted
    <3> QED
      BY <3>1 DEF gateOf
  <2>2. Same /\ UNCHANGED kill
    <3>1. PICK v \in {"approved", "errored"},
               st \in {"broadcasted", "confirmed", "reverted", "confirmation_pending"} :
              Appends(r, v, st, TRUE)
      BY <1>9 DEF RecordBroadcast, Confirm, Revert, AwaitTimesOut
    <3>2. Same
      BY <3>1, AppendsHas
    <3>3. UNCHANGED kill
      BY <1>9 DEF RecordBroadcast, Confirm, Revert, AwaitTimesOut
    <3> QED
      BY <3>2, <3>3
  <2> QED
    BY <1>9, <2>1, <2>2, StutterStep DEF Step
<1>10. ASSUME IngestEnds(r) \/ IngestFails(r) \/ IngestReceipt(r) \/ CloseGap(r)
       PROVE  UNCHANGED <<gateOf, recordedOf, kill>>
  <2>1. gateOf'[r] = gateOf[r]
    <3>1. tx[r] \in OnNetwork /\ UNCHANGED tx
      BY <1>10 DEF IngestEnds, IngestFails, IngestReceipt, CloseGap, RunInv, Broadcasted
    <3> QED
      BY <3>1 DEF gateOf
  <2>2. Same /\ UNCHANGED kill
    <3>1. CASE IngestFails(r)
      BY <3>1, AppendsHas DEF IngestFails
    <3>2. CASE IngestEnds(r) \/ IngestReceipt(r) \/ CloseGap(r)
      BY <3>2, SameHas DEF IngestEnds, IngestReceipt, CloseGap
    <3> QED
      BY <1>10, <3>1, <3>2
  <2> QED
    BY <1>10, <2>1, <2>2, StutterStep DEF Step
<1>11. ASSUME StepFails(r)
       PROVE  Gate!Next \/ UNCHANGED <<gateOf, recordedOf, kill>>
  <2>1. Same /\ UNCHANGED kill
    BY <1>11, SameHas DEF StepFails
  <2>2. gateOf'[r] = gateOf[r] \/ (gateOf[r] # "sent" /\ gateOf'[r] = "dropped")
    BY <1>11 DEF StepFails, gateOf
  <2> QED
    BY <1>11, <2>1, <2>2, StutterStep, DropStep DEF Step
<1>12. ASSUME RecordError(r) \/ RecordErrorFails(r)
       PROVE  UNCHANGED <<gateOf, recordedOf, kill>>
  <2>1. gateOf'[r] = gateOf[r]
    BY <1>12 DEF RecordError, RecordErrorFails, gateOf
  <2>2. Same /\ UNCHANGED kill
    BY ZenonT(60), <1>12, AppendsHas, SameHas DEF RecordError, RecordErrorFails
  <2> QED
    BY <1>12, <2>1, <2>2, StutterStep DEF Step
<1> QED
  BY <1>1, <1>2, <1>3, <1>4, <1>5, <1>6, <1>7, <1>8, <1>9, <1>10, <1>11, <1>12
     DEF Step

\* So is every step around the daemon.
LEMMA EnvironmentImplements ==
    ASSUME TypeOK, Inv, Environment
    PROVE  Gate!Next \/ UNCHANGED <<gateOf, recordedOf, kill>>
<1> USE DEF files, run
<1>1. ASSUME NEW r \in Request, Mine(r)
      PROVE  UNCHANGED <<gateOf, recordedOf, kill>>
  <2>1. UNCHANGED gateOf
    BY <1>1 DEF Mine, TypeOK, gateOf, OnNetwork
  <2>2. UNCHANGED recordedOf
    BY <1>1, SameHas DEF Mine, recordedOf
  <2> QED
    BY <1>1, <2>1, <2>2 DEF Mine
<1>2. ASSUME NEW r \in Request, IngestByHand(r)
      PROVE  UNCHANGED <<gateOf, recordedOf, kill>>
  BY <1>2, SameHas DEF IngestByHand, gateOf, recordedOf
<1>3. ASSUME NEW i \in Reset, ResetStreak(i)
      PROVE  UNCHANGED <<gateOf, recordedOf, kill>>
  <2>1. UNCHANGED recordedOf
    BY <1>3, ResetHas DEF recordedOf
  <2> QED
    BY <1>3, <2>1 DEF ResetStreak, gateOf
<1>4. ASSUME Backfill \/ Restart
      PROVE  UNCHANGED <<gateOf, recordedOf, kill>>
  BY <1>4, SameHas DEF Backfill, Restart, gateOf, recordedOf
<1>5. ASSUME Toggle
      PROVE  Gate!Next
  <2>1. Gate!Toggle
    BY <1>5, SameHas DEF Toggle, Gate!Toggle, gateOf, recordedOf
  <2> QED
    BY <2>1 DEF Gate!Next
<1>6. ASSUME Crash
      PROVE  Gate!Next
  <2> DEFINE S == {r \in Request : pc[r] \in Active /\ gateOf[r] # "sent"}
  <2>1. gateOf' = [r \in Request |-> IF r \in S THEN "dropped" ELSE gateOf[r]]
    BY <1>6 DEF Crash, TypeOK, gateOf, Active
  <2>2. UNCHANGED <<recordedOf, kill>>
    BY <1>6, SameHas DEF Crash, recordedOf
  <2>3. Gate!Drop(S)
    BY <2>1, <2>2 DEF Gate!Drop, recordedOf
  <2> QED
    BY <2>3 DEF Gate!Next
<1>7. ASSUME NEW r \in Request, AppendPair(r)
      PROVE  UNCHANGED <<gateOf, recordedOf, kill>>
  BY <1>7, SameHas DEF AppendPair, gateOf, recordedOf
<1>8. ASSUME NEW o \in outcomes, AppendOutcome(o[1], o[2])
      PROVE  UNCHANGED <<gateOf, recordedOf, kill>>
  <2>1. UNCHANGED recordedOf
    <3>1. o[1] \in Request
      BY DEF TypeOK
    <3> QED
      BY <1>8, <3>1, OutcomeHas DEF recordedOf
  <2> QED
    BY <1>8, <2>1 DEF AppendOutcome, gateOf
<1> QED
  BY <1>1, <1>2, <1>3, <1>4, <1>5, <1>6, <1>7, <1>8 DEF Environment

\* The daemon implements the gate: approval, the signed record, release and
\* sending come in this order for every request, nothing is approved or
\* released while the kill switch is armed, and a crash only drops requests.
THEOREM DaemonImplementsGate == Spec => ImplementsGate
<1>1. Init => Gate!Init
  BY DEF Init, Gate!Init, gateOf, OnNetwork, HasRecord
<1>2. TypeOK /\ Inv /\ Inv' /\ [Next]_vars => [Gate!Next]_(Gate!vars)
  <2> SUFFICES ASSUME TypeOK, Inv, Inv', [Next]_vars
               PROVE  Gate!Next \/ UNCHANGED <<gateOf, recordedOf, kill>>
    BY DEF Gate!vars, recordedOf
  <2>1. ASSUME NEW r \in Request, Submit(r) \/ Step(r)
        PROVE  Gate!Next \/ UNCHANGED <<gateOf, recordedOf, kill>>
    BY <2>1, StepImplements DEF Inv
  <2>2. CASE UNCHANGED vars
    BY <2>2, SameHas DEF vars, files, run, gateOf, recordedOf
  <2> QED
    BY <2>1, <2>2, EnvironmentImplements DEF Next
<1> QED
  BY <1>1, <1>2, TypeCorrect, InvHolds, PTL DEF Spec, ImplementsGate, Gate!Spec

-----------------------------------------------------------------------------
(* The capital-audit gate, between requests made one after the other,      *)
(* however many other requests overlap with them.                          *)

\* The consequent of ReconciledBeforeNext.
Settled(r, q) ==
    \/ HashOf[q] \in closed
    \/ \E m \in Evidence(log, StrategyOf[r]) :
           HashOf[log[m].intent] = HashOf[q] /\ log[m].date < activation

HasEvidence(r, q) ==
    \E n \in Evidence(log, StrategyOf[r]) : log[n].intent = q

\* What a run has read is no later than what there is.
ReadInv(r) ==
    /\ pc[r] # "reading" => auditSeen[r] = Unread /\ pairsSeen[r] = NoPairs
    /\ pairsSeen[r][1] \subseteq closed
    /\ pairsSeen[r][2] <= activation
    /\ auditSeen[r] <= Len(log)

\* The log says that q was broadcast.
Shown(q) == \E n \in DOMAIN log : log[n].intent = q /\ HasBroadcastEvidence(log[n])

\* A request that was over when r was submitted stays over: what the watcher
\* still records of it is no news, since a broadcast of it is among what r reads.
PriorInv(r, q) ==
    q \in prior[r] =>
        /\ pc[q] \in Over
        /\ auditSeen[r] # Unread /\ HasEvidence(r, q) =>
               \E n \in Evidence(log, StrategyOf[r]) : log[n].intent = q /\ n <= auditSeen[r]
        /\ Passed(r) /\ StrategyOf[q] = StrategyOf[r] /\ HasEvidence(r, q) => Settled(r, q)

\* No backfill or watcher is of the future, and a watcher only follows what the
\* log says was broadcast.
LogInv ==
    /\ activation <= StartedAt(Len(log))
    /\ \A n \in DOMAIN log : log[n].stage = "confirmation_pending" => log[n].broadcast
    /\ \A o \in outcomes : Shown(o[1])

BooksInv ==
    /\ LogInv
    /\ \A r \in Request : ReadInv(r)
    /\ \A r, q \in Request : PriorInv(r, q)

-----------------------------------------------------------------------------

\* How the books change in a step: the log grows by at most one record, of an
\* intent that is not over or that was broadcast, nothing is reopened and no
\* backfill is undone.
BooksGrow ==
    /\ \/ UNCHANGED log
       \/ \E rec \in Record :
              /\ log' = Append(log, rec)
              /\ rec.stage = "confirmation_pending" => rec.broadcast
              /\ rec.intent \in Request =>
                     pc[rec.intent] \notin Over \/ (rec.stage # "reset" /\ Shown(rec.intent))
    /\ closed \subseteq closed'
    /\ activation' \in Nat /\ activation <= activation'
    /\ activation' <= StartedAt(Len(log'))
    /\ \A o \in outcomes' : o \in outcomes \/ Shown(o[1])

\* Growing books keep what they say of a position.
LEMMA GrowKeeps ==
    ASSUME TypeOK, BooksGrow
    PROVE  /\ Len(log) <= Len(log')
           /\ \A n \in DOMAIN log : n \in DOMAIN log' /\ log'[n] = log[n]
           /\ \A s : \A n \in DOMAIN log :
                  n \in Evidence(log', s) <=> n \in Evidence(log, s)
<1>1. CASE UNCHANGED log
  <2>1. log' = log
    BY <1>1
  <2>2. Len(log) \in Nat
    BY DEF TypeOK
  <2> QED
    BY <2>1, <2>2
<1>2. ASSUME NEW rec \in Record, log' = Append(log, rec)
      PROVE  /\ Len(log) <= Len(log')
             /\ \A n \in DOMAIN log : n \in DOMAIN log' /\ log'[n] = log[n]
             /\ \A s : \A n \in DOMAIN log :
                    n \in Evidence(log', s) <=> n \in Evidence(log, s)
  <2>1. /\ Len(log) <= Len(log')
        /\ \A n \in DOMAIN log : n \in DOMAIN log' /\ log'[n] = log[n]
    BY <1>2 DEF TypeOK
  <2> QED
    BY <2>1 DEF Evidence
<1> QED
  BY <1>1, <1>2 DEF BooksGrow

\* What is settled stays settled.
LEMMA SettledStays ==
    ASSUME TypeOK, BooksGrow, NEW r \in Request, NEW q \in Request, Settled(r, q)
    PROVE  Settled(r, q)'
<1>1. CASE HashOf[q] \in closed
  BY <1>1 DEF Settled, BooksGrow
<1>2. CASE \E m \in Evidence(log, StrategyOf[r]) :
               HashOf[log[m].intent] = HashOf[q] /\ log[m].date < activation
  <2>1. PICK m \in Evidence(log, StrategyOf[r]) :
            HashOf[log[m].intent] = HashOf[q] /\ log[m].date < activation
    BY <1>2
  <2>2. m \in DOMAIN log /\ log[m].date \in Nat
    <3>1. m \in DOMAIN log
      BY DEF Evidence
    <3>2. log[m] \in Record
      BY <3>1 DEF TypeOK
    <3> QED
      BY <3>1, <3>2 DEF Record
  <2>3. m \in Evidence(log', StrategyOf[r]) /\ log'[m] = log[m]
    BY <2>2, GrowKeeps
  <2>4. log[m].date < activation'
    <3>1. activation \in Nat /\ activation' \in Nat /\ activation <= activation'
      BY DEF BooksGrow, TypeOK
    <3> QED
      BY <2>1, <2>2, <3>1
  <2> QED
    BY <2>1, <2>3, <2>4 DEF Settled
<1> QED
  BY <1>1, <1>2 DEF Settled

LEMMA LogStays ==
    ASSUME TypeOK, LogInv, BooksGrow
    PROVE  LogInv'
<1>1. ASSUME NEW q, Shown(q)
      PROVE  Shown(q)'
  BY <1>1, GrowKeeps DEF Shown
<1>2. ASSUME NEW n \in DOMAIN log', log'[n].stage = "confirmation_pending"
      PROVE  log'[n].broadcast
  <2>1. CASE UNCHANGED log
    BY <1>2, <2>1 DEF LogInv
  <2>2. ASSUME NEW rec \in Record, log' = Append(log, rec),
               rec.stage = "confirmation_pending" => rec.broadcast
        PROVE  log'[n].broadcast
    <3>1. CASE n \in DOMAIN log
      BY <1>2, <3>1, GrowKeeps DEF LogInv
    <3>2. CASE n \notin DOMAIN log
      <4>1. log'[n] = rec
        BY <2>2, <3>2 DEF TypeOK
      <4> QED
        BY <1>2, <2>2, <4>1
    <3> QED
      BY <3>1, <3>2
  <2> QED
    BY <2>1, <2>2 DEF BooksGrow
<1>3. \A o \in outcomes' : Shown(o[1])'
  BY <1>1 DEF LogInv, BooksGrow
<1> QED
  BY <1>2, <1>3 DEF LogInv, BooksGrow

\* No step gives evidence of a request that is over and had none.
LEMMA EvidenceOfOver ==
    ASSUME TypeOK, BooksGrow, NEW r, NEW q \in Request, pc[q] \in Over, HasEvidence(r, q)'
    PROVE  HasEvidence(r, q)
<1>1. PICK n \in Evidence(log', StrategyOf[r]) : log'[n].intent = q
  BY DEF HasEvidence
<1>2. CASE n \in DOMAIN log
  BY <1>1, <1>2, GrowKeeps DEF HasEvidence
<1>3. CASE n \notin DOMAIN log
  <2>1. n \in DOMAIN log'
    BY DEF Evidence
  <2>2. PICK rec \in Record :
            /\ log' = Append(log, rec)
            /\ rec.intent \in Request =>
                   pc[rec.intent] \notin Over \/ (rec.stage # "reset" /\ Shown(rec.intent))
    BY <1>3, <2>1 DEF BooksGrow
  <2>3. log'[n] = rec
    BY <1>3, <2>1, <2>2 DEF TypeOK
  <2>4. rec.intent = q /\ rec.stage # "reset" /\ Shown(q)
    BY <1>1, <2>2, <2>3
  <2>5. PICK m \in DOMAIN log : log[m].intent = q /\ HasBroadcastEvidence(log[m])
    BY <2>4 DEF Shown
  <2>6. StrategyOf[q] = StrategyOf[r] /\ KindOf[q] \notin {"approve", "revoke"}
    BY <1>1, <2>3, <2>4 DEF Evidence, IsApproval, IsReset
  <2>7. m \in Evidence(log, StrategyOf[r])
    BY <2>5, <2>6 DEF Evidence, IsApproval
  <2> QED
    BY <2>5, <2>7 DEF HasEvidence
<1> QED
  BY <1>2, <1>3

-----------------------------------------------------------------------------
(* What the steps do to the books and to what is read of them.             *)

LEMMA StepFrom ==
    ASSUME NEW r \in Request, Step(r)
    PROVE  pc[r] \in Active
BY DEF Step, Active, Moves, Ends, ReadAudit, ReadPairs, Abort, Reject, Approve, Sign,
       RecordSigned, Void, Clear, Broadcast, BroadcastFails, RecordBroadcast, Confirm,
       Revert, AwaitTimesOut, IngestEnds, IngestFails, IngestReceipt, CloseGap,
       StepFails, RecordError, RecordErrorFails

\* A step of a run appends a record of its request, or none.
LEMMA StepLog ==
    ASSUME NEW r \in Request, Submit(r) \/ Step(r)
    PROVE  \/ UNCHANGED log
           \/ Step(r) /\ \E v \in Verdict, st \in Stage, b \in BOOLEAN :
                             (st = "confirmation_pending" => b) /\ Appends(r, v, st, b)
<1> USE DEF files
<1>1. CASE Submit(r) \/ ReadAudit(r) \/ ReadPairs(r) \/ Abort(r) \/ Approve(r)
  BY <1>1 DEF Submit, ReadAudit, ReadPairs, Abort, Approve
<1>2. CASE Sign(r) \/ Clear(r) \/ Broadcast(r) \/ BroadcastFails(r)
  BY <1>2 DEF Sign, Clear, Broadcast, BroadcastFails
<1>3. CASE IngestEnds(r) \/ IngestReceipt(r) \/ CloseGap(r) \/ StepFails(r) \/ RecordErrorFails(r)
  BY <1>3 DEF IngestEnds, IngestReceipt, CloseGap, StepFails, RecordErrorFails
<1>4. CASE Reject(r) \/ RecordSigned(r) \/ Void(r)
  BY <1>4 DEF Reject, RecordSigned, Void, Step, Verdict, Stage
<1>5. CASE RecordBroadcast(r) \/ Confirm(r) \/ Revert(r) \/ AwaitTimesOut(r)
  BY <1>5 DEF RecordBroadcast, Confirm, Revert, AwaitTimesOut, Step, Verdict, Stage
<1>6. CASE IngestFails(r) \/ RecordError(r)
  BY <1>6 DEF IngestFails, RecordError, Step, Verdict, Stage
<1> QED
  BY <1>1, <1>2, <1>3, <1>4, <1>5, <1>6 DEF Step

\* A step of a run forgives nothing, and at most closes a pair.
LEMMA StepPairs ==
    ASSUME NEW r \in Request, Submit(r) \/ Step(r)
    PROVE  closed \subseteq closed' /\ activation' = activation /\ outcomes' = outcomes
<1> USE DEF files, HandlerUnchanged
<1>1. CASE Submit(r) \/ ReadAudit(r) \/ ReadPairs(r) \/ Abort(r) \/ Approve(r)
  BY <1>1 DEF Submit, ReadAudit, ReadPairs, Abort, Approve
<1>2. CASE Sign(r) \/ Clear(r) \/ Broadcast(r) \/ BroadcastFails(r)
  BY <1>2 DEF Sign, Clear, Broadcast, BroadcastFails
<1>3. CASE IngestEnds(r) \/ IngestReceipt(r) \/ CloseGap(r) \/ StepFails(r) \/ RecordErrorFails(r)
  BY <1>3 DEF IngestEnds, IngestReceipt, CloseGap, StepFails, RecordErrorFails
<1>4. CASE Reject(r) \/ RecordSigned(r) \/ Void(r)
  BY <1>4 DEF Reject, RecordSigned, Void
<1>5. CASE RecordBroadcast(r) \/ Confirm(r) \/ Revert(r) \/ AwaitTimesOut(r)
  BY <1>5 DEF RecordBroadcast, Confirm, Revert, AwaitTimesOut
<1>6. CASE IngestFails(r) \/ RecordError(r)
  BY <1>6 DEF IngestFails, RecordError
<1> QED
  BY <1>1, <1>2, <1>3, <1>4, <1>5, <1>6 DEF Step

LEMMA StepGrows ==
    ASSUME TypeOK, LogInv, NEW r \in Request, Submit(r) \/ Step(r)
    PROVE  BooksGrow
<1>1. log \in Seq(Record) /\ Len(log) \in Nat /\ Today(log) \in Nat /\ activation \in Nat
  BY DatesType DEF TypeOK
<1>2. CASE UNCHANGED log
  BY <1>1, <1>2, StepPairs DEF BooksGrow, LogInv
<1>3. ASSUME Step(r), NEW v \in Verdict, NEW st \in Stage, NEW b \in BOOLEAN,
             st = "confirmation_pending" => b, Appends(r, v, st, b)
      PROVE  BooksGrow
  <2> DEFINE rec == RecordOf(r, v, st, b, Today(log))
  <2>1. rec \in Record /\ rec.intent = r /\ (rec.stage = "confirmation_pending" => rec.broadcast)
    BY <1>1, <1>3, RecordOfType DEF RecordOf, Intent
  <2>2. pc[r] \notin Over
    BY <1>3, StepFrom DEF Active, Over
  <2>3. log' = Append(log, rec)
    BY <1>3 DEF Appends
  <2>4. Len(log') = Len(log) + 1
    BY <1>1, <2>1, <2>3
  <2>5. activation <= StartedAt(Len(log'))
    BY <1>1, <2>4 DEF LogInv, StartedAt
  <2> HIDE DEF rec
  <2> QED
    BY <1>1, <1>3, <2>1, <2>2, <2>3, <2>5, StepPairs DEF BooksGrow
<1> QED
  BY <1>2, <1>3, StepLog

LEMMA EnvironmentGrows ==
    ASSUME TypeOK, LogInv, Environment
    PROVE  BooksGrow
<1>1. log \in Seq(Record) /\ Len(log) \in Nat /\ Today(log) \in Nat /\ activation \in Nat
  BY DatesType DEF TypeOK
<1> USE DEF files, run
<1>2. ASSUME UNCHANGED <<log, closed, activation, outcomes>>
      PROVE  BooksGrow
  BY <1>1, <1>2 DEF BooksGrow, LogInv
<1>3. ASSUME NEW rec \in Record, log' = Append(log, rec),
             rec.stage = "confirmation_pending" => rec.broadcast,
             rec.intent \in Request => rec.stage # "reset" /\ Shown(rec.intent),
             UNCHANGED <<closed, activation, outcomes>>
      PROVE  BooksGrow
  <2>1. Len(log') = Len(log) + 1
    BY <1>1, <1>3
  <2>2. activation <= StartedAt(Len(log'))
    BY <1>1, <2>1 DEF LogInv, StartedAt
  <2> QED
    BY <1>1, <1>3, <2>2 DEF BooksGrow
<1>4. ASSUME NEW r \in Request, Mine(r) \/ IngestByHand(r)
      PROVE  BooksGrow
  BY <1>2, <1>4 DEF Mine, IngestByHand
<1>5. ASSUME NEW i \in Reset, ResetStreak(i)
      PROVE  BooksGrow
  <2> DEFINE rec == ResetRecord(i, Today(log))
  <2>1. rec \in Record /\ rec.intent = i /\ rec.stage = "reset"
    BY <1>1, RecordOfType DEF ResetRecord, RecordOf, Intent, Verdict, Stage
  <2>2. i \notin Request
    BY IntentAssumption
  <2>3. log' = Append(log, rec) /\ UNCHANGED <<closed, activation, outcomes>>
    BY <1>5 DEF ResetStreak
  <2> HIDE DEF rec
  <2> QED
    BY <1>3, <2>1, <2>2, <2>3
<1>6. CASE Toggle \/ Restart \/ Crash
  BY <1>2, <1>6 DEF Toggle, Restart, Crash
<1>7. CASE Backfill
  <2>1. UNCHANGED <<log, outcomes>> /\ closed \subseteq closed' /\ activation' = StartedAt(Len(log))
    BY <1>7 DEF Backfill
  <2>2. StartedAt(Len(log)) \in Nat
    BY <1>1 DEF StartedAt
  <2> QED
    BY <1>1, <2>1, <2>2 DEF BooksGrow, LogInv
<1>8. ASSUME NEW r \in Request, AppendPair(r)
      PROVE  BooksGrow
  <2>1. PICK n \in 0 .. Len(log) : \E m \in 0 .. n :
            /\ Candidate(r, n)
            /\ activation' = IF activation < StartedAt(m) THEN StartedAt(m) ELSE activation
            /\ outcomes' = outcomes \cup {<<r, StartedAt(m)>>}
    BY <1>8 DEF AppendPair
  <2>2. PICK m \in 0 .. n :
            /\ Candidate(r, n)
            /\ activation' = IF activation < StartedAt(m) THEN StartedAt(m) ELSE activation
            /\ outcomes' = outcomes \cup {<<r, StartedAt(m)>>}
    BY <2>1
  <2>3. Shown(r)
    <3>1. PICK k \in 1 .. n : /\ log[k].intent = r
                              /\ log[k].stage \in {"broadcasted", "confirmation_pending"}
      BY <2>2 DEF Candidate
    <3>2. k \in DOMAIN log
      BY <1>1
    <3>3. HasBroadcastEvidence(log[k])
      BY <3>1, <3>2 DEF LogInv, HasBroadcastEvidence
    <3> QED
      BY <3>1, <3>2, <3>3 DEF Shown
  <2>4. /\ activation' \in Nat /\ activation <= activation'
        /\ activation' <= StartedAt(Len(log))
    <3>1. n \in Nat /\ m \in Nat /\ n <= Len(log) /\ m <= n
      BY <1>1
    <3> QED
      BY <1>1, <2>2, <3>1 DEF LogInv, StartedAt
  <2>5. closed \subseteq closed' /\ UNCHANGED log
    BY <1>8 DEF AppendPair
  <2>6. \A o \in outcomes' : o \in outcomes \/ Shown(o[1])
    BY <2>2, <2>3
  <2> QED
    BY <2>4, <2>5, <2>6 DEF BooksGrow
<1>9. ASSUME NEW o \in outcomes, AppendOutcome(o[1], o[2])
      PROVE  BooksGrow
  <2>1. o[1] \in Intent /\ o[2] \in Nat /\ Shown(o[1])
    BY DEF TypeOK, Intent, LogInv
  <2>2. PICK v \in {"approved", "errored"}, st \in {"confirmed", "reverted"} :
            log' = Append(log, RecordOf(o[1], v, st, TRUE, o[2]))
    BY <1>9 DEF AppendOutcome, OutcomeOf
  <2> DEFINE rec == RecordOf(o[1], v, st, TRUE, o[2])
  <2>3. rec \in Record
    BY <2>1, RecordOfType DEF Verdict, Stage
  <2>4. rec.intent = o[1] /\ rec.stage # "reset" /\ rec.broadcast
    BY DEF RecordOf
  <2>5. log' = Append(log, rec) /\ UNCHANGED <<closed, activation, outcomes>>
    BY <1>9, <2>2 DEF AppendOutcome
  <2> HIDE DEF rec
  <2> QED
    BY <1>3, <2>1, <2>3, <2>4, <2>5
<1> QED
  BY <1>4, <1>5, <1>6, <1>7, <1>8, <1>9 DEF Environment

\* A step of a run touches what no other run read; its own run reads, or goes
\* on having forgotten what it read.
LEMMA StepReading ==
    ASSUME TypeOK, NEW r \in Request, ReadInv(r), Step(r)
    PROVE  /\ UNCHANGED prior
           /\ \A q \in Request : q # r =>
                  auditSeen'[q] = auditSeen[q] /\ pairsSeen'[q] = pairsSeen[q]
           /\ \/ ReadAudit(r) \/ ReadPairs(r)
              \/ auditSeen'[r] = Unread /\ pairsSeen'[r] = NoPairs
<1> USE DEF TypeOK, ReadInv, HandlerUnchanged, Moves, Ends
<1>1. CASE ReadAudit(r) \/ ReadPairs(r)
  BY <1>1 DEF ReadAudit, ReadPairs
<1>2. CASE Abort(r) \/ Reject(r) \/ Approve(r)
  BY <1>2 DEF Abort, Reject, Approve, Forgets
<1>3. CASE Sign(r) \/ RecordSigned(r) \/ Void(r) \/ Clear(r) \/ Broadcast(r) \/ BroadcastFails(r)
  BY <1>3 DEF Sign, RecordSigned, Void, Clear, Broadcast, BroadcastFails
<1>4. CASE RecordBroadcast(r) \/ Confirm(r) \/ Revert(r) \/ AwaitTimesOut(r)
  BY <1>4 DEF RecordBroadcast, Confirm, Revert, AwaitTimesOut
<1>5. CASE IngestEnds(r) \/ IngestFails(r) \/ IngestReceipt(r) \/ CloseGap(r)
  BY <1>5 DEF IngestEnds, IngestFails, IngestReceipt, CloseGap
<1>6. CASE StepFails(r) \/ RecordError(r) \/ RecordErrorFails(r)
  BY <1>6 DEF StepFails, RecordError, RecordErrorFails
<1> QED
  BY <1>1, <1>2, <1>3, <1>4, <1>5, <1>6 DEF Step

\* Only an approval lets a request through.
LEMMA StepPasses ==
    ASSUME TypeOK, NEW r \in Request, RunInv(r), Step(r), ~Approve(r), Passed(r)'
    PROVE  Passed(r)
<1>1. CASE pc[r] # "reading"
  BY <1>1, StepFrom DEF Passed
<1>2. CASE pc[r] = "reading"
  <2>1. ReadAudit(r) \/ ReadPairs(r) \/ Abort(r) \/ Reject(r)
    BY <1>2 DEF Step, Moves, Ends, Sign,
       RecordSigned, Void, Clear, Broadcast, BroadcastFails, RecordBroadcast, Confirm,
       Revert, AwaitTimesOut, IngestEnds, IngestFails, IngestReceipt, CloseGap,
       StepFails, RecordError, RecordErrorFails
  <2>2. tx'[r] = tx[r] /\ pc'[r] \in {"reading", "done"}
    BY <1>2, <2>1 DEF TypeOK, Moves, Ends, ReadAudit, ReadPairs, Abort, Reject
  <2> QED
    BY <1>2, <2>2 DEF RunInv, Passed, Active
<1> QED
  BY <1>1, <1>2

-----------------------------------------------------------------------------
(* The gate itself.                                                        *)

LEMMA LeastNumber ==
    ASSUME NEW T \in SUBSET Nat, T # {}
    PROVE  \E n \in T : \A m \in T : n <= m
<1>1. \E n \in T : \A m \in T : ~(<<m, n>> \in OpToRel(<, Nat))
  BY NatLessThanWellFounded, WFMin
<1>2. PICK n \in T : \A m \in T : ~(<<m, n>> \in OpToRel(<, Nat))
  BY <1>1
<1>3. \A m \in T : ~(m < n)
  BY <1>2 DEF OpToRel
<1> QED
  BY <1>3

\* What passes the gate is settled: the run read a broadcast of q, and the gate
\* found the first one of its hash closed or forgiven.
LEMMA ApprovalSettles ==
    ASSUME TypeOK, NEW r \in Request, NEW q \in Request,
           ReadInv(r), PriorInv(r, q), Approve(r),
           q \in prior[r], StrategyOf[q] = StrategyOf[r], HasEvidence(r, q)
    PROVE  Settled(r, q)
<1> DEFINE s == StrategyOf[r]
           seen == Seen(r)
<1>1. /\ auditSeen[r] # Unread /\ ~Unreconciled(r) /\ auditSeen[r] \in Nat
      /\ auditSeen[r] <= Len(log)
  BY DEF Approve, ReadsDone, TypeOK, ReadInv
<1>2. PICK e \in Evidence(log, s) : log[e].intent = q /\ e <= auditSeen[r]
  BY <1>1 DEF PriorInv
<1>3. /\ DOMAIN seen = 1 .. auditSeen[r] /\ DOMAIN log = 1 .. Len(log)
      /\ \A m \in DOMAIN seen : m \in DOMAIN log /\ seen[m] = log[m]
  BY <1>1 DEF Seen, TypeOK
<1>4. e \in DOMAIN seen
  BY <1>1, <1>2, <1>3 DEF Evidence
<1> DEFINE Alike == {m \in DOMAIN seen :
                        /\ HashOf[seen[m].intent] = HashOf[q]
                        /\ HasBroadcastEvidence(seen[m]) /\ ~IsApproval(seen[m])}
<1>5. e \in Alike
  BY <1>2, <1>3, <1>4 DEF Evidence
<1>6. PICK n \in Alike : \A m \in Alike : n <= m
  BY <1>3, <1>5, LeastNumber, Alike \in SUBSET Nat
<1>7. n \in DOMAIN seen /\ n \in DOMAIN log /\ seen[n] = log[n] /\ log[n] \in Record
  BY <1>3, <1>6 DEF TypeOK
<1>8. StrategyOf[log[n].intent] = s
  <2>1. log[n].intent \in Intent /\ q \in Intent
    BY <1>7 DEF Record, Intent
  <2> QED
    BY <1>6, <1>7, <2>1, DigestAssumption
<1>9. n \in Evidence(seen, s) /\ n \in Evidence(log, s)
  BY <1>6, <1>7, <1>8 DEF Evidence
<1>10. FirstOfHash(seen, n)
  BY <1>6 DEF FirstOfHash
<1>11. CASE HashOf[q] \in pairsSeen[r][1]
  BY <1>11 DEF ReadInv, Settled
<1>12. CASE HashOf[q] \notin pairsSeen[r][1]
  <2>1. ~CapitalGap(seen, pairsSeen[r][1], pairsSeen[r][2], s)
    BY <1>1 DEF Unreconciled
  <2>2. HashOf[seen[n].intent] = HashOf[q]
    BY <1>6
  <2>3. ~(seen[n].date >= pairsSeen[r][2])
    BY <1>9, <1>10, <1>12, <2>1, <2>2 DEF CapitalGap
  <2>4. /\ pairsSeen[r][2] \in Int /\ pairsSeen[r][2] <= activation /\ activation \in Nat
        /\ log[n].date \in Nat
    BY <1>7 DEF TypeOK, ReadInv, Unread, Record
  <2>5. log[n].date < activation
    BY <1>7, <2>3, <2>4
  <2> QED
    BY <1>7, <1>9, <2>2, <2>5 DEF Settled
<1> QED
  BY <1>11, <1>12

\* A pair of runs is left as it was by a step that does not submit or approve r
\* and in which r reads nothing.
LEMMA PriorStays ==
    ASSUME TypeOK, BooksGrow, NEW r \in Request, NEW q \in Request, PriorInv(r, q),
           prior'[r] = prior[r], pc[q] \in Over => pc'[q] \in Over,
           auditSeen'[r] \in {auditSeen[r], Unread}, Passed(r)' => Passed(r)
    PROVE  PriorInv(r, q)'
<1> SUFFICES ASSUME q \in prior'[r]
             PROVE  /\ pc'[q] \in Over
                    /\ auditSeen'[r] # Unread /\ HasEvidence(r, q)' =>
                           \E n \in Evidence(log', StrategyOf[r]) :
                               log'[n].intent = q /\ n <= auditSeen'[r]
                    /\ Passed(r)' /\ StrategyOf[q] = StrategyOf[r] /\ HasEvidence(r, q)'
                           => Settled(r, q)'
  BY DEF PriorInv
<1>1. q \in prior[r] /\ pc[q] \in Over /\ pc'[q] \in Over
  BY DEF PriorInv
<1>2. ASSUME auditSeen'[r] # Unread, HasEvidence(r, q)'
      PROVE  \E n \in Evidence(log', StrategyOf[r]) : log'[n].intent = q /\ n <= auditSeen'[r]
  <2>1. HasEvidence(r, q)
    BY <1>1, <1>2, EvidenceOfOver
  <2>2. PICK n \in Evidence(log, StrategyOf[r]) : log[n].intent = q /\ n <= auditSeen[r]
    BY <1>1, <1>2, <2>1 DEF PriorInv
  <2>3. n \in DOMAIN log
    BY DEF Evidence
  <2>4. n \in Evidence(log', StrategyOf[r]) /\ log'[n] = log[n]
    BY <2>3, GrowKeeps
  <2> QED
    BY <1>2, <2>2, <2>4
<1>3. ASSUME Passed(r)', StrategyOf[q] = StrategyOf[r], HasEvidence(r, q)'
      PROVE  Settled(r, q)'
  <2>1. HasEvidence(r, q)
    BY <1>1, <1>3, EvidenceOfOver
  <2>2. Settled(r, q)
    BY <1>1, <1>3, <2>1 DEF PriorInv
  <2> QED
    BY <2>2, SettledStays
<1> QED
  BY <1>1, <1>2, <1>3

\* What a run has read stays no later than what there is.
LEMMA ReadStays ==
    ASSUME TypeOK, BooksGrow, NEW r \in Request, ReadInv(r),
           pc'[r] # "reading" => pc[r] # "reading",
           auditSeen'[r] = auditSeen[r], pairsSeen'[r] = pairsSeen[r]
    PROVE  ReadInv(r)'
<1>1. /\ Len(log) \in Nat /\ Len(log') \in Nat /\ Len(log) <= Len(log')
      /\ auditSeen[r] \in Int /\ pairsSeen[r][2] \in Int
      /\ activation \in Nat /\ activation' \in Nat
  BY GrowKeeps DEF TypeOK, Unread, BooksGrow
<1> QED
  BY <1>1 DEF ReadInv, BooksGrow

LEMMA ForgottenRead ==
    ASSUME TypeOK', NEW r \in Request, auditSeen'[r] = Unread, pairsSeen'[r] = NoPairs
    PROVE  ReadInv(r)'
<1>1. Len(log') \in Nat /\ activation' \in Nat
  BY DEF TypeOK
<1> QED
  BY <1>1 DEF ReadInv, NoPairs, Unread

-----------------------------------------------------------------------------

LEMMA InitBooks == Init => BooksInv
<1> SUFFICES ASSUME Init PROVE BooksInv
  OBVIOUS
<1>1. LogInv
  BY DEF Init, LogInv, StartedAt
<1>2. ASSUME NEW r \in Request
      PROVE  ReadInv(r)
  BY DEF Init, ReadInv, NoPairs, Unread
<1>3. ASSUME NEW r \in Request, NEW q \in Request
      PROVE  PriorInv(r, q)
  BY DEF Init, PriorInv
<1> QED
  BY <1>1, <1>2, <1>3 DEF BooksInv

\* A run is submitted: it has read nothing, and what is over then is its prior.
LEMMA SubmitBooks ==
    ASSUME TypeOK, TypeOK', Inv, BooksInv, NEW r \in Request, Submit(r)
    PROVE  BooksInv'
<1>1. BooksGrow
  BY StepGrows DEF BooksInv
<1>10. LogInv'
  BY <1>1, LogStays DEF BooksInv
<1>2. /\ pc[r] = "idle" /\ pc'[r] = "reading" /\ tx'[r] = "none"
      /\ auditSeen' = auditSeen /\ pairsSeen' = pairsSeen
      /\ \A p \in Request : p # r => pc'[p] = pc[p]
      /\ \A p \in Request : p # r => tx'[p] = tx[p]
      /\ \A p \in Request : p # r => prior'[p] = prior[p]
      /\ prior'[r] = {q \in Request : pc[q] \in Over}
  BY DEF Submit, Moves, TypeOK, Inv, RunInv
<1>3. ASSUME NEW p \in Request
      PROVE  ReadInv(p)'
  <2>1. auditSeen'[p] = auditSeen[p] /\ pairsSeen'[p] = pairsSeen[p] /\ ReadInv(p)
    BY <1>2 DEF BooksInv
  <2>2. pc'[p] # "reading" => pc[p] # "reading"
    BY <1>2
  <2> QED
    BY <1>1, <2>1, <2>2, ReadStays
<1>4. ASSUME NEW p \in Request, NEW q \in Request
      PROVE  PriorInv(p, q)'
  <2>1. CASE p = r
    <3>1. auditSeen'[p] = Unread /\ ~Passed(p)'
      BY <1>2, <2>1 DEF BooksInv, ReadInv, Passed
    <3>2. q \in prior'[p] => pc'[q] \in Over
      BY <1>2, <2>1 DEF Over
    <3> QED
      BY <3>1, <3>2 DEF PriorInv
  <2>2. CASE p # r
    <3>1. pc[q] \in Over => pc'[q] \in Over
      BY <1>2 DEF Over
    <3>2. prior'[p] = prior[p] /\ auditSeen'[p] = auditSeen[p] /\ (Passed(p)' => Passed(p))
      BY <1>2, <2>2 DEF Passed
    <3> QED
      BY <1>1, <3>1, <3>2, PriorStays DEF BooksInv
  <2> QED
    BY <2>1, <2>2
<1> QED
  BY <1>10, <1>3, <1>4 DEF BooksInv

\* A run reads, or goes on.
LEMMA StepBooks ==
    ASSUME TypeOK, TypeOK', Inv, BooksInv, NEW r \in Request, Step(r)
    PROVE  BooksInv'
<1>1. BooksGrow
  BY StepGrows DEF BooksInv
<1>10. LogInv'
  BY <1>1, LogStays DEF BooksInv
<1>2. /\ pc[r] \notin Over /\ UNCHANGED prior
      /\ \A p \in Request : p # r =>
             /\ pc'[p] = pc[p] /\ tx'[p] = tx[p]
             /\ auditSeen'[p] = auditSeen[p] /\ pairsSeen'[p] = pairsSeen[p]
  BY StepFrom, StepReading, StepKeepsOthers DEF BooksInv, Active, Over
<1>3. \A q \in Request : pc[q] \in Over => pc'[q] \in Over
  BY <1>2
<1>4. ASSUME NEW p \in Request, p # r
      PROVE  ReadInv(p)' /\ \A q \in Request : PriorInv(p, q)'
  <2>1. ReadInv(p)'
    BY <1>1, <1>2, <1>4, ReadStays DEF BooksInv
  <2>2. Passed(p)' => Passed(p)
    BY <1>2, <1>4 DEF Passed
  <2> QED
    BY <1>1, <1>2, <1>3, <1>4, <2>1, <2>2, PriorStays DEF BooksInv
<1>5. CASE ReadAudit(r)
  <2>1. /\ pc' = pc /\ tx' = tx /\ log' = log /\ pc[r] = "reading"
        /\ auditSeen'[r] = Len(log) /\ pairsSeen' = pairsSeen
        /\ UNCHANGED <<closed, activation>>
    BY <1>5 DEF ReadAudit, TypeOK, files
  <2>2. ReadInv(r)'
    <3>1. ReadInv(r) /\ Len(log) \in Nat
      BY DEF BooksInv, TypeOK
    <3> QED
      BY <2>1, <3>1 DEF ReadInv
  <2>3. ASSUME NEW q \in Request
        PROVE  PriorInv(r, q)'
    <3>1. PriorInv(r, q)
      BY DEF BooksInv
    <3>2. \A n \in Evidence(log, StrategyOf[r]) : n <= Len(log)
      BY DEF TypeOK, Evidence
    <3>3. /\ Passed(r)' <=> Passed(r)
          /\ HasEvidence(r, q)' <=> HasEvidence(r, q)
          /\ Settled(r, q)' <=> Settled(r, q)
      BY <2>1 DEF Passed, HasEvidence, Settled
    <3> QED
      BY <1>2, <2>1, <3>1, <3>2, <3>3 DEF PriorInv, HasEvidence
  <2> QED
    BY <1>10, <1>4, <2>2, <2>3 DEF BooksInv
<1>6. CASE ReadPairs(r)
  <2>1. /\ pc' = pc /\ tx' = tx /\ pc[r] = "reading" /\ auditSeen' = auditSeen
        /\ pairsSeen'[r] = <<closed, activation>>
        /\ UNCHANGED <<log, closed, activation>>
    BY <1>6 DEF ReadPairs, TypeOK, files
  <2>2. ReadInv(r)'
    <3>1. ReadInv(r) /\ activation \in Nat
      BY DEF BooksInv, TypeOK
    <3> QED
      BY <2>1, <3>1 DEF ReadInv
  <2>3. Passed(r)' => Passed(r)
    BY <2>1 DEF Passed
  <2>4. \A q \in Request : PriorInv(r, q)'
    BY <1>1, <1>2, <1>3, <2>1, <2>3, PriorStays DEF BooksInv
  <2> QED
    BY <1>10, <1>4, <2>2, <2>4 DEF BooksInv
<1>7. CASE ~ReadAudit(r) /\ ~ReadPairs(r)
  <2>1. auditSeen'[r] = Unread /\ pairsSeen'[r] = NoPairs
    BY <1>7, StepReading DEF BooksInv
  <2>2. ReadInv(r)'
    BY <2>1, ForgottenRead
  <2>3. ASSUME NEW q \in Request, ~Approve(r)
        PROVE  PriorInv(r, q)'
    <3>1. Passed(r)' => Passed(r)
      BY <2>3, StepPasses DEF Inv
    <3> QED
      BY <1>1, <1>2, <1>3, <2>1, <3>1, PriorStays DEF BooksInv
  <2>4. ASSUME NEW q \in Request, Approve(r)
        PROVE  PriorInv(r, q)'
    <3>1. UNCHANGED <<log, closed, activation>>
      BY <2>4 DEF Approve, files
    <3>2. /\ HasEvidence(r, q)' <=> HasEvidence(r, q)
          /\ Settled(r, q)' <=> Settled(r, q)
      BY <3>1 DEF HasEvidence, Settled
    <3>3. /\ q \in prior[r] => pc'[q] \in Over
          /\ q \in prior[r] /\ StrategyOf[q] = StrategyOf[r] /\ HasEvidence(r, q)
                 => Settled(r, q)
      BY <1>3, <2>4, ApprovalSettles DEF BooksInv, PriorInv
    <3> QED
      BY <1>2, <2>1, <3>2, <3>3 DEF PriorInv
  <2> QED
    BY <1>10, <1>4, <2>2, <2>3, <2>4 DEF BooksInv
<1> QED
  BY <1>5, <1>6, <1>7

\* The steps around the daemon only make the books grow, or make runs forget.
LEMMA EnvironmentBooks ==
    ASSUME TypeOK, TypeOK', Inv, BooksInv, Environment
    PROVE  BooksInv'
<1>1. BooksGrow
  BY EnvironmentGrows DEF BooksInv
<1>10. LogInv'
  BY <1>1, LogStays DEF BooksInv
<1>2. CASE Crash
  <2>1. /\ \A r \in Request : auditSeen'[r] = Unread /\ pairsSeen'[r] = NoPairs
        /\ \A r \in Request : pc[r] \in Over => pc'[r] = pc[r]
        /\ \A r \in Request : pc'[r] \in Active => pc'[r] = pc[r]
        /\ tx' = tx /\ prior' = prior
    BY <1>2 DEF Crash, Active, Over
  <2>2. \A r \in Request : ReadInv(r)'
    BY <2>1, ForgottenRead
  <2>3. \A r \in Request : Passed(r)' => Passed(r)
    BY <2>1 DEF Passed
  <2>4. \A r, q \in Request : PriorInv(r, q)'
    BY <1>1, <2>1, <2>3, PriorStays DEF BooksInv
  <2> QED
    BY <1>10, <2>2, <2>4 DEF BooksInv
<1>3. CASE ~Crash
  <2>1. /\ pc' = pc /\ auditSeen' = auditSeen /\ pairsSeen' = pairsSeen /\ prior' = prior
        /\ \A r \in Request : tx'[r] # "none" => tx[r] # "none"
    BY <1>3 DEF Environment, Mine, IngestByHand, ResetStreak, Toggle, Backfill, Restart,
                AppendPair, AppendOutcome, run, TypeOK
  <2>2. \A r \in Request : ReadInv(r)'
    BY <1>1, <2>1, ReadStays DEF BooksInv
  <2>3. \A r \in Request : Passed(r)' => Passed(r)
    BY <2>1 DEF Passed
  <2>4. \A r, q \in Request : PriorInv(r, q)'
    BY <1>1, <2>1, <2>3, PriorStays DEF BooksInv
  <2> QED
    BY <1>10, <2>2, <2>4 DEF BooksInv
<1> QED
  BY <1>2, <1>3

LEMMA BooksHold == Spec => []BooksInv
<1>1. TypeOK /\ TypeOK' /\ Inv /\ BooksInv /\ [Next]_vars => BooksInv'
  <2> SUFFICES ASSUME TypeOK, TypeOK', Inv, BooksInv, [Next]_vars PROVE BooksInv'
    OBVIOUS
  <2>1. CASE UNCHANGED vars
    BY <2>1 DEF vars, files, run, BooksInv, LogInv, Shown, ReadInv, PriorInv, Passed,
                   HasEvidence, Settled
  <2> QED
    BY <2>1, SubmitBooks, StepBooks, EnvironmentBooks DEF Next
<1> QED
  BY <1>1, InitBooks, TypeCorrect, InvHolds, PTL DEF Spec

\* The capital-audit gate: when a request passes, every broadcast recorded for
\* an earlier request of its strategy is reconciled, or a later date forgave it,
\* whatever overlapped, failed or crashed in between.
THEOREM ReconciledHolds == Spec => []ReconciledBeforeNext
<1>1. TypeOK /\ BooksInv => ReconciledBeforeNext
  <2> SUFFICES ASSUME TypeOK, BooksInv, NEW r \in Request, NEW q \in prior[r],
                      Passed(r), StrategyOf[q] = StrategyOf[r], HasEvidence(r, q)
               PROVE  Settled(r, q)
    BY DEF ReconciledBeforeNext, HasEvidence, Settled
  <2>1. q \in Request
    BY DEF TypeOK
  <2> QED
    BY <2>1 DEF BooksInv, PriorInv
<1> QED
  BY <1>1, TypeCorrect, BooksHold, PTL

=============================================================================
