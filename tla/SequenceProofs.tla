--------------------------- MODULE SequenceProofs ---------------------------
(***************************************************************************)
(* The proofs of what the streak and the daily cap guarantee between       *)
(* requests made one after the other, for any intents and limits, and      *)
(* however many other requests overlap with them.                          *)
(***************************************************************************)
EXTENDS SignerDaemonProofs, FiniteSetTheorems

-----------------------------------------------------------------------------
(* The order of the records.                                               *)

\* What the daemon, the operator and the watcher write: only a revert records that
\* a broadcast failed.
Shaped(rec) ==
    \/ /\ rec.intent \in Request /\ rec.stage # "reset"
       /\ rec.stage = "reverted" => rec.verdict = "errored"
       /\ rec.verdict # "approved" /\ HasBroadcastEvidence(rec) => rec.stage = "reverted"
    \/ rec.intent \in Reset /\ rec.stage = "reset" /\ ~rec.broadcast

\* A broadcast of a request is recorded before the requests that come after it
\* read the log, and before they have a record of their own.
SentInv(r) ==
    \A q \in prior[r] : \A n \in DOMAIN log :
        log[n].intent = q /\ log[n].stage = "broadcasted" =>
            /\ auditSeen[r] # Unread => n <= auditSeen[r]
            /\ \A m \in DOMAIN log : log[m].intent = r => n < m

\* What was in the log at a submission is among what the run reads.
BeforeInv(r) ==
    /\ before[r] <= Len(log)
    /\ auditSeen[r] # Unread => before[r] <= auditSeen[r]

RecordsInv ==
    /\ \A n \in DOMAIN log : /\ Shaped(log[n])
                             /\ log[n].intent \in Request => pc[log[n].intent] # "idle"
    /\ \A r \in Request : SentInv(r) /\ BeforeInv(r)

\* What may be added to the log: only a run that is under way says that it
\* broadcast.
Addable(rec) ==
    /\ Shaped(rec)
    /\ rec.intent \in Request => pc[rec.intent] # "idle"
    /\ rec.stage = "broadcasted" => pc[rec.intent] \in Active

Adds(rec) == rec \in Record /\ log' = Append(log, rec) /\ Addable(rec)

LEMMA RecordsFact ==
    ASSUME RecordsInv, NEW n \in DOMAIN log
    PROVE  Shaped(log[n]) /\ (log[n].intent \in Request => pc[log[n].intent] # "idle")
BY DEF RecordsInv

LEMMA StepAdds ==
    ASSUME TypeOK, NEW r \in Request, Submit(r) \/ Step(r)
    PROVE  UNCHANGED log \/ \E rec : Adds(rec)
<1> USE DEF files
<1>1. CASE Submit(r) \/ ReadAudit(r) \/ ReadPairs(r) \/ Abort(r) \/ Approve(r)
  BY <1>1 DEF Submit, ReadAudit, ReadPairs, Abort, Approve
<1>2. CASE Sign(r) \/ Clear(r) \/ Broadcast(r) \/ BroadcastFails(r)
  BY <1>2 DEF Sign, Clear, Broadcast, BroadcastFails
<1>3. CASE IngestEnds(r) \/ IngestReceipt(r) \/ CloseGap(r) \/ StepFails(r) \/ RecordErrorFails(r)
  BY <1>3 DEF IngestEnds, IngestReceipt, CloseGap, StepFails, RecordErrorFails
<1>4. ASSUME NEW v \in Verdict, NEW st \in Stage \ {"reset"}, NEW b \in BOOLEAN,
             Appends(r, v, st, b), Step(r),
             v # "approved" => st = "reverted" \/ (st \in {"rejected", "error"} /\ ~b),
             st = "reverted" => v = "errored"
      PROVE  \E rec : Adds(rec)
  <2> DEFINE rec == RecordOf(r, v, st, b, Today(log))
  <2>0. Today(log) \in Nat
    BY DatesType DEF TypeOK
  <2>1. /\ rec \in Record /\ rec.intent = r /\ rec.stage = st /\ rec.verdict = v
        /\ rec.broadcast = b
    BY <2>0, RecordOfType DEF RecordOf, Intent
  <2>2. log' = Append(log, rec)
    BY <1>4 DEF Appends
  <2>3. pc[r] \in Active
    BY <1>4, StepFrom
  <2> HIDE DEF rec
  <2>4. Shaped(rec)
    BY <1>4, <2>1 DEF Shaped, HasBroadcastEvidence
  <2>5. Adds(rec)
    BY <2>1, <2>2, <2>3, <2>4 DEF Adds, Addable, Active
  <2> QED
    BY <2>5
<1> USE DEF Verdict, Stage, Step
<1>5. CASE Reject(r)
  BY <1>4, <1>5 DEF Reject
<1>6. CASE Void(r)
  BY <1>4, <1>6 DEF Void
<1>7. CASE RecordSigned(r)
  BY <1>4, <1>7 DEF RecordSigned
<1>8. CASE RecordBroadcast(r)
  BY <1>4, <1>8 DEF RecordBroadcast
<1>9. CASE Confirm(r)
  BY <1>4, <1>9 DEF Confirm
<1>10. CASE AwaitTimesOut(r)
  BY <1>4, <1>10 DEF AwaitTimesOut
<1>11. CASE Revert(r)
  BY <1>4, <1>11 DEF Revert
<1>12. CASE IngestFails(r)
  BY <1>4, <1>12 DEF IngestFails
<1>13. CASE RecordError(r)
  BY <1>4, <1>13 DEF RecordError
<1> QED
  BY <1>1, <1>2, <1>3, <1>5, <1>6, <1>7, <1>8, <1>9, <1>10, <1>11, <1>12, <1>13

LEMMA EnvironmentAdds ==
    ASSUME TypeOK, BooksInv, RecordsInv, Environment
    PROVE  UNCHANGED log \/ \E rec : Adds(rec)
<1> USE DEF files, run
<1>1. ASSUME NEW r \in Request, Mine(r) \/ IngestByHand(r) \/ AppendPair(r)
      PROVE  UNCHANGED log
  BY <1>1 DEF Mine, IngestByHand, AppendPair
<1>2. ASSUME NEW i \in Reset, ResetStreak(i)
      PROVE  \E rec : Adds(rec)
  <2> DEFINE rec == ResetRecord(i, Today(log))
  <2>1. rec \in Record
    BY RecordOfType, DatesType DEF ResetRecord, Intent, Verdict, Stage, TypeOK
  <2>2. i \notin Request /\ rec.intent = i /\ rec.stage = "reset" /\ ~rec.broadcast
    BY IntentAssumption DEF ResetRecord, RecordOf
  <2>3. log' = Append(log, rec)
    BY <1>2 DEF ResetStreak
  <2> HIDE DEF rec
  <2>4. Adds(rec)
    BY <2>1, <2>2, <2>3 DEF Adds, Addable, Shaped
  <2> QED
    BY <2>4
<1>3. CASE Toggle \/ Restart \/ Crash \/ Backfill
  BY <1>3 DEF Toggle, Restart, Crash, Backfill
<1>4. ASSUME NEW o \in outcomes, AppendOutcome(o[1], o[2])
      PROVE  \E rec : Adds(rec)
  <2>1. o[1] \in Request /\ o[1] \in Intent /\ o[2] \in Nat
    BY DEF TypeOK, Intent
  <2>2. pc[o[1]] # "idle"
    <3>1. Shown(o[1])
      BY DEF BooksInv, LogInv
    <3>2. PICK n \in DOMAIN log : log[n].intent = o[1]
      BY <3>1 DEF Shown
    <3>3. log[n].intent \in Request => pc[log[n].intent] # "idle"
      BY RecordsFact
    <3> QED
      BY <2>1, <3>2, <3>3
  <2>3. PICK v \in {"approved", "errored"}, st \in {"confirmed", "reverted"} :
            /\ log' = Append(log, RecordOf(o[1], v, st, TRUE, o[2]))
            /\ v = "errored" <=> st = "reverted"
    BY <1>4 DEF AppendOutcome, OutcomeOf
  <2> DEFINE rec == RecordOf(o[1], v, st, TRUE, o[2])
  <2>4. rec \in Record
    BY <2>1, RecordOfType DEF Verdict, Stage
  <2>5. rec.intent = o[1] /\ rec.stage = st /\ rec.verdict = v
    BY DEF RecordOf
  <2>6. log' = Append(log, rec)
    BY <2>3
  <2> HIDE DEF rec
  <2>7. Adds(rec)
    BY <2>1, <2>2, <2>3, <2>4, <2>5, <2>6 DEF Adds, Addable, Shaped
  <2> QED
    BY <2>7
<1> QED
  BY <1>1, <1>2, <1>3, <1>4 DEF Environment

\* How the log goes on in a step.
LogGoesOn ==
    /\ Len(log) \in Nat /\ Len(log') \in Nat /\ Len(log) <= Len(log')
    /\ DOMAIN log = 1 .. Len(log) /\ DOMAIN log' = 1 .. Len(log')
    /\ \A n \in DOMAIN log : n \in DOMAIN log' /\ log'[n] = log[n]
    /\ \A n \in DOMAIN log' : n \notin DOMAIN log =>
           Addable(log'[n]) /\ \A m \in DOMAIN log : m < n

LEMMA NextLog ==
    ASSUME TypeOK, BooksInv, RecordsInv, Next
    PROVE  LogGoesOn
<1>1. CASE UNCHANGED log
  BY <1>1 DEF TypeOK, LogGoesOn
<1>2. ASSUME NEW rec, Adds(rec)
      PROVE  LogGoesOn
  <2>1. /\ Len(log) \in Nat /\ Len(log') = Len(log) + 1
        /\ DOMAIN log = 1 .. Len(log) /\ DOMAIN log' = 1 .. Len(log')
        /\ \A n \in DOMAIN log : log'[n] = log[n]
        /\ log'[Len(log')] = rec
    BY <1>2 DEF TypeOK, Adds
  <2>2. Addable(rec)
    BY <1>2 DEF Adds
  <2> HIDE DEF Addable
  <2> QED
    BY <2>1, <2>2 DEF LogGoesOn
<1> QED
  BY <1>1, <1>2, StepAdds, EnvironmentAdds DEF Next

LEMMA StepBefore ==
    ASSUME NEW r \in Request, Step(r)
    PROVE  before' = before
<1> USE DEF HandlerUnchanged
<1>1. CASE ReadAudit(r) \/ ReadPairs(r) \/ Abort(r) \/ Reject(r) \/ Approve(r)
  BY <1>1 DEF ReadAudit, ReadPairs, Abort, Reject, Approve
<1>2. CASE Sign(r) \/ RecordSigned(r) \/ Void(r) \/ Clear(r) \/ Broadcast(r) \/ BroadcastFails(r)
  BY <1>2 DEF Sign, RecordSigned, Void, Clear, Broadcast, BroadcastFails
<1>3. CASE RecordBroadcast(r) \/ Confirm(r) \/ Revert(r) \/ AwaitTimesOut(r)
  BY <1>3 DEF RecordBroadcast, Confirm, Revert, AwaitTimesOut
<1>4. CASE IngestEnds(r) \/ IngestFails(r) \/ IngestReceipt(r) \/ CloseGap(r)
  BY <1>4 DEF IngestEnds, IngestFails, IngestReceipt, CloseGap
<1>5. CASE StepFails(r) \/ RecordError(r) \/ RecordErrorFails(r)
  BY <1>5 DEF StepFails, RecordError, RecordErrorFails
<1> QED
  BY <1>1, <1>2, <1>3, <1>4, <1>5 DEF Step

\* How the runs go on in a step.  Only a submission says what was over before.
RunsGoOn ==
    /\ \A q \in Request : /\ pc[q] \in Over => pc'[q] \in Over
                          /\ pc'[q] = "idle" => pc[q] = "idle"
    /\ \A r \in Request :
           \/ prior'[r] = prior[r] /\ before'[r] = before[r]
           \/ /\ pc[r] = "idle" /\ ~Passed(r)' /\ auditSeen'[r] = Unread
              /\ before'[r] = Len(log)
    /\ \A r \in Request : Passed(r)' => Passed(r) \/ (Approve(r) /\ before'[r] = before[r])
    /\ \A r \in Request : auditSeen'[r] \in {auditSeen[r], Unread} \/ auditSeen'[r] = Len(log)

LEMMA NextGoesOn ==
    ASSUME TypeOK, Inv, BooksInv, Next
    PROVE  RunsGoOn
<1>1. ASSUME NEW r \in Request, Submit(r)
      PROVE  RunsGoOn
  <2>1. /\ pc[r] = "idle" /\ pc'[r] = "reading" /\ tx'[r] = "none"
        /\ \A p \in Request : p # r => pc'[p] = pc[p]
        /\ \A p \in Request : p # r => tx'[p] = tx[p]
        /\ \A p \in Request : p # r => prior'[p] = prior[p] /\ before'[p] = before[p]
        /\ before'[r] = Len(log)
    BY <1>1 DEF Submit, Moves, TypeOK, Inv, RunInv
  <2>2. ~Passed(r)'
    BY <2>1 DEF Passed
  <2>3. \A p \in Request : p # r => (Passed(p)' <=> Passed(p))
    BY <2>1 DEF Passed
  <2>4. auditSeen' = auditSeen /\ auditSeen[r] = Unread
    BY <1>1, <2>1 DEF Submit, BooksInv, ReadInv
  <2> QED
    BY <2>1, <2>2, <2>3, <2>4 DEF RunsGoOn, Over
<1>2. ASSUME NEW r \in Request, Step(r)
      PROVE  RunsGoOn
  <2>1. /\ pc[r] \in Active /\ UNCHANGED prior
        /\ \A p \in Request : p # r => pc'[p] = pc[p] /\ tx'[p] = tx[p]
        /\ \A p \in Request : p # r => auditSeen'[p] = auditSeen[p]
    BY <1>2, StepFrom, StepReading, StepKeepsOthers DEF BooksInv
  <2>2. \A p \in Request : p # r => (Passed(p)' <=> Passed(p))
    BY <2>1 DEF Passed
  <2>3. Passed(r)' => Passed(r) \/ Approve(r)
    BY <1>2, StepPasses DEF Inv
  <2>4. pc'[r] # "idle"
    BY <1>2 DEF Step, Moves, Ends, ReadAudit, ReadPairs, Abort, Reject, Approve, Sign,
       RecordSigned, Void, Clear, Broadcast, BroadcastFails, RecordBroadcast, Confirm,
       Revert, AwaitTimesOut, IngestEnds, IngestFails, IngestReceipt, CloseGap,
       StepFails, RecordError, RecordErrorFails, TypeOK, PC, Active
  <2>5. before' = before
    BY <1>2, StepBefore
  <2>6. auditSeen'[r] \in {auditSeen[r], Unread} \/ auditSeen'[r] = Len(log)
    <3>1. ReadAudit(r) => auditSeen'[r] = Len(log)
      BY DEF ReadAudit, TypeOK
    <3>2. ReadPairs(r) => auditSeen'[r] = auditSeen[r]
      BY DEF ReadPairs
    <3> QED
      BY <1>2, <3>1, <3>2, StepReading DEF BooksInv
  <2> QED
    BY <2>1, <2>2, <2>3, <2>4, <2>5, <2>6 DEF RunsGoOn, Over, Active
<1>3. CASE Environment
  <2>1. CASE Crash
    <3>1. /\ \A r \in Request : pc'[r] = IF pc[r] \in Active THEN "lost" ELSE pc[r]
          /\ \A r \in Request : auditSeen'[r] = Unread
          /\ UNCHANGED <<tx, prior, before>>
      BY <2>1 DEF Crash
    <3>2. \A r \in Request : Passed(r)' => Passed(r)
      BY <3>1 DEF Passed, Active
    <3> QED
      BY <3>1, <3>2 DEF RunsGoOn, Over, Active
  <2>2. CASE ~Crash
    <3>1. /\ pc' = pc /\ prior' = prior /\ before' = before /\ auditSeen' = auditSeen
          /\ \A r \in Request : tx'[r] # "none" => tx[r] # "none"
      BY <1>3, <2>2 DEF Environment, Mine, IngestByHand, ResetStreak, Toggle, Backfill, Restart,
                  AppendPair, AppendOutcome, run, TypeOK
    <3> QED
      BY <3>1 DEF RunsGoOn, Passed
  <2> QED
    BY <2>1, <2>2
<1> QED
  BY <1>1, <1>2, <1>3 DEF Next

\* What a step that adds a record leaves of the log.
LEMMA AddsFacts ==
    ASSUME TypeOK, NEW rec, Adds(rec)
    PROVE  /\ Len(log) \in Nat /\ Len(log') = Len(log) + 1
           /\ DOMAIN log = 1 .. Len(log) /\ DOMAIN log' = DOMAIN log \cup {Len(log')}
           /\ \A n \in DOMAIN log : n # Len(log') /\ n < Len(log') /\ log'[n] = log[n]
           /\ log'[Len(log')] = rec
BY DEF TypeOK, Adds

LEMMA RecordsStay ==
    ASSUME TypeOK, TypeOK', BooksInv, RecordsInv, RunsGoOn, LogGoesOn
    PROVE  RecordsInv'
<1>1. ASSUME NEW n \in DOMAIN log'
      PROVE  Shaped(log'[n]) /\ (log'[n].intent \in Request => pc'[log'[n].intent] # "idle")
  <2>1. Shaped(log'[n]) /\ (log'[n].intent \in Request => pc[log'[n].intent] # "idle")
    <3>1. CASE n \in DOMAIN log
      BY <3>1, RecordsFact DEF LogGoesOn
    <3>2. CASE n \notin DOMAIN log
      <4>1. Addable(log'[n])
        BY <3>2 DEF LogGoesOn
      <4> QED
        BY <4>1 DEF Addable, Active
    <3> QED
      BY <3>1, <3>2
  <2> DEFINE i == log'[n].intent
  <2>2. i \in Request => pc[i] # "idle"
    BY <2>1
  <2>3. i \in Request => pc'[i] # "idle"
    <3> HIDE DEF i
    <3> QED
      BY <2>2 DEF RunsGoOn
  <2> QED
    BY <2>1, <2>3
<1>2. ASSUME NEW r \in Request
      PROVE  BeforeInv(r)'
  <2>1. /\ before[r] \in Nat /\ auditSeen[r] \in Int /\ before[r] <= Len(log)
        /\ auditSeen[r] # Unread => before[r] <= auditSeen[r]
        /\ Len(log) \in Nat /\ Len(log') \in Nat /\ Len(log) <= Len(log')
    BY DEF TypeOK, RecordsInv, BeforeInv, LogGoesOn, Unread
  <2>2. CASE before'[r] = before[r]
    BY <2>1, <2>2 DEF BeforeInv, RunsGoOn
  <2>3. CASE before'[r] = Len(log) /\ auditSeen'[r] = Unread
    BY <2>1, <2>3 DEF BeforeInv
  <2> QED
    BY <2>2, <2>3 DEF RunsGoOn
<1>3. ASSUME NEW r \in Request, NEW q \in prior'[r], NEW n \in DOMAIN log',
             log'[n].intent = q, log'[n].stage = "broadcasted"
      PROVE  /\ auditSeen'[r] # Unread => n <= auditSeen'[r]
             /\ \A m \in DOMAIN log' : log'[m].intent = r => n < m
  <2>1. CASE prior'[r] # prior[r]
    <3>1. pc[r] = "idle" /\ auditSeen'[r] = Unread
      BY <2>1 DEF RunsGoOn
    <3>2. ASSUME NEW m \in DOMAIN log' PROVE log'[m].intent # r
      <4>1. CASE m \in DOMAIN log
        <5>1. log'[m] = log[m]
          BY <4>1 DEF LogGoesOn
        <5>2. log[m].intent \in Request => pc[log[m].intent] # "idle"
          BY <4>1, RecordsFact
        <5> QED
          BY <3>1, <5>1, <5>2
      <4>2. CASE m \notin DOMAIN log
        <5>1. Addable(log'[m])
          BY <4>2 DEF LogGoesOn
        <5> QED
          BY <3>1, <5>1 DEF Addable, Active
      <4> QED
        BY <4>1, <4>2
    <3> QED
      BY <1>3, <3>1, <3>2
  <2>2. CASE prior'[r] = prior[r]
    <3>1. q \in prior[r] /\ q \in Request /\ pc[q] \in Over
      BY <2>2 DEF TypeOK, BooksInv, PriorInv
    <3>2. n \in DOMAIN log /\ log'[n] = log[n]
      BY <1>3, <3>1 DEF LogGoesOn, Addable, Over, Active
    <3>3. SentInv(r)
      BY DEF RecordsInv
    <3>4. /\ auditSeen[r] # Unread => n <= auditSeen[r]
          /\ \A m \in DOMAIN log : log[m].intent = r => n < m
      BY <1>3, <3>1, <3>2, <3>3 DEF SentInv
    <3>5. auditSeen'[r] # Unread => n <= auditSeen'[r]
      <4>1. n <= Len(log)
        BY <3>2 DEF LogGoesOn
      <4> QED
        BY <3>4, <4>1 DEF RunsGoOn
    <3>6. ASSUME NEW m \in DOMAIN log', log'[m].intent = r PROVE n < m
      BY <3>2, <3>4, <3>6 DEF LogGoesOn
    <3> QED
      BY <3>5, <3>6
  <2> QED
    BY <2>1, <2>2
<1>4. \A r \in Request : SentInv(r)'
  BY <1>3 DEF SentInv
<1> QED
  BY <1>1, <1>2, <1>4 DEF RecordsInv

LEMMA RecordsHold == Spec => []RecordsInv
<1>1. Init => RecordsInv
  BY DEF Init, RecordsInv, SentInv, BeforeInv
<1>2. TypeOK /\ TypeOK' /\ Inv /\ BooksInv /\ RecordsInv /\ [Next]_vars => RecordsInv'
  <2> SUFFICES ASSUME TypeOK, TypeOK', Inv, BooksInv, RecordsInv, [Next]_vars PROVE RecordsInv'
    OBVIOUS
  <2>1. CASE UNCHANGED vars
    BY <2>1 DEF vars, files, run, RecordsInv, SentInv, BeforeInv
  <2>2. CASE Next
    BY <2>2, NextGoesOn, NextLog, RecordsStay
  <2> QED
    BY <2>1, <2>2
<1> QED
  BY <1>1, <1>2, TypeCorrect, InvHolds, BooksHold, PTL DEF Spec

-----------------------------------------------------------------------------
(* The streak, and what lifts the pause of a lane.                         *)

\* The failures that a streak counts.
Streaking(lg, s, c) ==
    {n \in Latest(lg, s, c) :
        /\ Classify(lg[n]) = "failed"
        /\ \A m \in Latest(lg, s, c) :
               Precedes(lg, s, c, m, n) => Classify(lg[m]) \notin {"succeeded", "reset"}}

LEMMA StreakCounts ==
    ASSUME NEW lg \in Seq(Record), NEW s, NEW c
    PROVE  /\ Streak(lg, s, c) = Cardinality(Streaking(lg, s, c))
           /\ IsFiniteSet(Streaking(lg, s, c)) /\ Streak(lg, s, c) \in Nat
<1>1. Streaking(lg, s, c) \subseteq 1 .. Len(lg) /\ Len(lg) \in Nat
  BY DEF Streaking, Latest, Classified
<1>2. IsFiniteSet(Streaking(lg, s, c))
  <2>1. IsFiniteSet(1 .. Len(lg))
    BY <1>1, FS_Interval
  <2> QED
    BY <1>1, <2>1, FS_Subset
<1>3. Streak(lg, s, c) = Cardinality(Streaking(lg, s, c))
  BY DEF Streak, Streaking
<1> QED
  BY <1>2, <1>3, FS_CardinalityType

\* A record that is no success and no reset, and whose intent never failed, ends
\* no streak.
LEMMA StreakKept ==
    ASSUME TypeOK, TypeOK', NEW rec, Adds(rec), NEW s, NEW c,
           Classify(rec) \notin {"succeeded", "reset"},
           \A n \in DOMAIN log : Classify(log[n]) = "failed" =>
               HashOf[log[n].intent] # HashOf[rec.intent]
    PROVE  Streak(log', s, c) >= Streak(log, s, c)
<1> DEFINE N == Len(log')
           C == Classified(log, s, c)
           CC == Classified(log', s, c)
<1>1. /\ DOMAIN log' = DOMAIN log \cup {N} /\ log'[N] = rec /\ N \in Nat
      /\ \A n \in DOMAIN log : n # N /\ n < N /\ log'[n] = log[n] /\ n \in Nat
  <2>1. /\ Len(log) \in Nat /\ N = Len(log) + 1 /\ DOMAIN log = 1 .. Len(log)
        /\ DOMAIN log' = DOMAIN log \cup {N} /\ log'[N] = rec
        /\ \A n \in DOMAIN log : n # N /\ n < N /\ log'[n] = log[n]
    BY AddsFacts
  <2> QED
    BY <2>1
<1> HIDE DEF N
<1>2. C \subseteq DOMAIN log /\ CC \subseteq DOMAIN log'
  BY DEF Classified
<1>3. \A n \in DOMAIN log : n \in CC <=> n \in C
  BY <1>1 DEF Classified
<1> HIDE DEF C, CC
<1>4. \A m, n \in DOMAIN log : NoLater(log', m, n) <=> NoLater(log, m, n)
  BY <1>1 DEF NoLater
<1>5. \A n \in DOMAIN log : n \in Latest(log', s, c) => n \in Latest(log, s, c)
  <2> SUFFICES ASSUME NEW n \in DOMAIN log, n \in Latest(log', s, c)
               PROVE  n \in Latest(log, s, c)
    OBVIOUS
  <2>1. n \in CC /\ \A m \in CC : HashOf[log'[m].intent] = HashOf[log'[n].intent]
                                     => NoLater(log', m, n)
    BY DEF Latest, CC
  <2>2. n \in C /\ \A m \in C : HashOf[log[m].intent] = HashOf[log[n].intent]
                                   => NoLater(log, m, n)
    BY <1>1, <1>2, <1>3, <1>4, <2>1
  <2> QED
    BY <2>2 DEF Latest, C
\* What precedes a record of the log in the longer log precedes it in the log.
<1>6. ASSUME NEW m \in DOMAIN log, NEW n \in C, Precedes(log', s, c, m, n)
      PROVE  Precedes(log, s, c, m, n)
  <2>0. n \in DOMAIN log /\ n \in CC
    BY <1>2, <1>3
  <2>1. CASE log'[m].date > log'[n].date
    BY <1>1, <2>0, <2>1 DEF Precedes
  <2>2. CASE ~(log'[m].date > log'[n].date)
    <3>1. /\ log'[m].date = log'[n].date
          /\ \E i \in CC : /\ HashOf[log'[i].intent] = HashOf[log'[m].intent]
                           /\ \A j \in CC : HashOf[log'[j].intent] = HashOf[log'[n].intent] => i < j
      BY <1>6, <2>2 DEF Precedes, CC
    <3>2. PICK i \in CC : /\ HashOf[log'[i].intent] = HashOf[log'[m].intent]
                          /\ \A j \in CC : HashOf[log'[j].intent] = HashOf[log'[n].intent] => i < j
      BY <3>1
    <3>3. i < n
      BY <2>0, <3>2
    <3>4. i \in DOMAIN log
      BY <1>1, <1>2, <2>0, <3>3
    <3>5. i \in C /\ \A j \in C : HashOf[log[j].intent] = HashOf[log[n].intent] => i < j
      BY <1>1, <1>2, <1>3, <2>0, <3>2, <3>4
    <3>6. HashOf[log[i].intent] = HashOf[log[m].intent] /\ log[m].date = log[n].date
      BY <1>1, <2>0, <3>1, <3>2, <3>4
    <3> QED
      BY <3>5, <3>6 DEF Precedes, C
  <2> QED
    BY <2>1, <2>2
<1>7. ASSUME NEW n \in Streaking(log, s, c)
      PROVE  n \in Streaking(log', s, c)
  <2>1. /\ n \in C /\ n \in Latest(log, s, c) /\ Classify(log[n]) = "failed"
        /\ \A m \in C : HashOf[log[m].intent] = HashOf[log[n].intent] => NoLater(log, m, n)
        /\ \A m \in Latest(log, s, c) :
               Precedes(log, s, c, m, n) => Classify(log[m]) \notin {"succeeded", "reset"}
    BY DEF Streaking, Latest, C
  <2>2. /\ n \in DOMAIN log /\ log'[n] = log[n] /\ n \in CC
        /\ HashOf[log[n].intent] # HashOf[rec.intent]
    BY <1>1, <1>2, <1>3, <2>1
  <2>3. ASSUME NEW m \in CC, HashOf[log'[m].intent] = HashOf[log'[n].intent]
        PROVE  NoLater(log', m, n)
    <3>1. m # N
      BY <1>1, <2>2, <2>3
    <3>2. m \in DOMAIN log
      BY <1>1, <1>2, <3>1
    <3> QED
      BY <1>1, <1>3, <1>4, <2>1, <2>2, <2>3, <3>2
  <2>4. n \in Latest(log', s, c)
    BY <2>2, <2>3 DEF Latest, CC
  <2>5. ASSUME NEW m \in Latest(log', s, c), Precedes(log', s, c, m, n)
        PROVE  Classify(log'[m]) \notin {"succeeded", "reset"}
    <3>1. m \in DOMAIN log'
      BY <1>2 DEF Latest, CC
    <3>2. CASE m = N
      BY <1>1, <3>2
    <3>3. CASE m \in DOMAIN log
      <4>1. m \in Latest(log, s, c) /\ Precedes(log, s, c, m, n)
        BY <1>5, <1>6, <2>1, <2>5, <3>3
      <4> QED
        BY <1>1, <2>1, <3>3, <4>1
    <3> QED
      BY <1>1, <3>1, <3>2, <3>3
  <2> QED
    BY <2>1, <2>2, <2>4, <2>5 DEF Streaking
<1>8. /\ Streak(log, s, c) = Cardinality(Streaking(log, s, c))
      /\ Streak(log', s, c) = Cardinality(Streaking(log', s, c))
      /\ IsFiniteSet(Streaking(log', s, c)) /\ Streak(log', s, c) \in Nat /\ Streak(log, s, c) \in Nat
  BY StreakCounts DEF TypeOK
<1>9. Streaking(log, s, c) \subseteq Streaking(log', s, c)
  BY <1>7
<1>10. Cardinality(Streaking(log, s, c)) <= Cardinality(Streaking(log', s, c))
  BY <1>8, <1>9, FS_Subset
<1> QED
  BY <1>8, <1>10

\* The pause of a lane is lifted by a success of the lane or by a reset, and
\* otherwise only by another record of an intent that failed.
THEOREM PauseLiftedAlways == Spec => PauseLiftedBySuccessOrReset
<1>1. ASSUME TypeOK, TypeOK', BooksInv, RecordsInv, [Next]_vars, NEW l \in Lanes,
             Streak(log, l[1], l[2]) >= MaxFailures, Streak(log', l[1], l[2]) < MaxFailures
      PROVE  LastClass \in {"succeeded", "reset"} \/ FailedBefore
  <2>1. /\ MaxFailures \in Nat
        /\ Streak(log, l[1], l[2]) \in Nat /\ Streak(log', l[1], l[2]) \in Nat
    BY <1>1, StreakCounts, DaemonAssumption DEF TypeOK
  <2>2. ~ UNCHANGED log
    BY <1>1, <2>1
  <2>3. PICK rec : Adds(rec)
    BY <1>1, <2>2, StepAdds, EnvironmentAdds DEF Next, vars, files
  <2>4. log'[Len(log')] = rec
    BY <1>1, <2>3, AddsFacts
  <2>5. SUFFICES ASSUME Classify(rec) \notin {"succeeded", "reset"} PROVE FailedBefore
    BY <2>4 DEF LastClass
  <2>6. PICK n \in DOMAIN log : /\ Classify(log[n]) = "failed"
                                /\ HashOf[log[n].intent] = HashOf[rec.intent]
    BY <1>1, <2>1, <2>3, <2>5, StreakKept
  <2> QED
    BY <2>4, <2>6 DEF FailedBefore
<1>2. TypeOK /\ TypeOK' /\ BooksInv /\ RecordsInv /\ [Next]_vars =>
        [log' # log => \A l \in Lanes :
            Streak(log, l[1], l[2]) >= MaxFailures /\ Streak(log', l[1], l[2]) < MaxFailures
            => LastClass \in {"succeeded", "reset"} \/ FailedBefore]_vars
  BY <1>1
<1> QED
  BY <1>2, TypeCorrect, BooksHold, RecordsHold, PTL DEF Spec, PauseLiftedBySuccessOrReset

-----------------------------------------------------------------------------
(* The pause, on the reverts that were recorded at a submission.           *)

\* The requests that PausedAfterReverts counts.
CountedReverts(r) ==
    {q \in Request : /\ RevertedSinceGood(r, q)
                     /\ \A p \in Request : HashOf[p] = HashOf[q] => p = q}

PauseInv ==
    \A r \in Request :
        Passed(r) /\ KindOf[r] # "revoke" =>
            IsFiniteSet(CountedReverts(r)) /\ Cardinality(CountedReverts(r)) < MaxFailures

\* A revert is a failure.
LEMMA RevertsFail ==
    ASSUME RecordsInv, NEW n \in DOMAIN log, log[n].stage = "reverted"
    PROVE  Classify(log[n]) = "failed" /\ log[n].intent \in Request
<1>1. Shaped(log[n])
  BY DEF RecordsInv
<1>2. log[n].verdict = "errored" /\ log[n].intent \in Request
  BY <1>1 DEF Shaped
<1> QED
  BY <1>2 DEF Classify, IsReset, HasBroadcastEvidence

\* The streak that a run read counts each of them.
LEMMA RevertsStreak ==
    ASSUME TypeOK, BooksInv, RecordsInv, NEW r \in Request, auditSeen[r] # Unread,
           NEW q \in CountedReverts(r)
    PROVE  \E n \in Streaking(Seen(r), StrategyOf[r], ChainOf[r]) : Seen(r)[n].intent = q
<1> DEFINE s == StrategyOf[r]
           c == ChainOf[r]
           seen == Seen(r)
<1>1. q \in Request /\ \A p \in Request : HashOf[p] = HashOf[q] => p = q
  BY DEF CountedReverts
<1>2. PICK n \in 1 .. before[r] :
          /\ log[n].intent = q /\ log[n].stage = "reverted" /\ InLane(log[n], s, c)
          /\ \A m \in Good(r) : log[m].date < log[n].date
          /\ \A m \in DOMAIN log :
                 log[m].intent = q /\ Classify(log[m]) # "none" /\ m # n => log[m].date < log[n].date
  BY DEF CountedReverts, RevertedSinceGood
<1>3. /\ auditSeen[r] \in Nat /\ auditSeen[r] <= Len(log) /\ Len(log) \in Nat
      /\ before[r] \in Nat /\ before[r] <= auditSeen[r]
  BY DEF TypeOK, BooksInv, ReadInv, RecordsInv, BeforeInv
<1>4. /\ DOMAIN seen = 1 .. auditSeen[r] /\ DOMAIN log = 1 .. Len(log)
      /\ \A m \in DOMAIN seen : /\ m \in DOMAIN log /\ m \in Nat /\ seen[m] = log[m]
                                /\ log[m].date \in Nat
  <2>1. /\ DOMAIN seen = 1 .. auditSeen[r] /\ DOMAIN log = 1 .. Len(log)
        /\ \A m \in DOMAIN seen : m \in DOMAIN log /\ m \in Nat /\ seen[m] = log[m]
    BY <1>3 DEF Seen, TypeOK
  <2>2. \A m \in DOMAIN log : log[m].date \in Nat
    <3>1. \A m \in DOMAIN log : log[m] \in Record
      BY DEF TypeOK
    <3> QED
      BY <3>1 DEF Record
  <2> QED
    BY <2>1, <2>2
<1>5. \A k \in 1 .. before[r] : k \in DOMAIN seen /\ k \in DOMAIN log /\ seen[k] = log[k]
  BY <1>3, <1>4
<1>6. n \in DOMAIN seen /\ n \in DOMAIN log /\ seen[n] = log[n]
  BY <1>5
<1> HIDE DEF seen
<1>7. Classify(log[n]) = "failed" /\ n \in Classified(seen, s, c)
  BY <1>2, <1>6, RevertsFail DEF Classified
<1>8. ASSUME NEW m \in Classified(seen, s, c), HashOf[seen[m].intent] = HashOf[seen[n].intent]
      PROVE  NoLater(seen, m, n)
  <2>1. /\ m \in DOMAIN seen /\ m \in DOMAIN log /\ seen[m] = log[m]
        /\ InLane(log[m], s, c) /\ Classify(log[m]) # "none"
    BY <1>4 DEF Classified
  <2>2. CASE m = n
    BY <1>4, <1>6, <2>2 DEF NoLater
  <2>3. CASE m # n /\ log[m].intent \in Request
    <3>1. log[m].intent = q
      BY <1>1, <1>2, <1>6, <1>8, <2>1, <2>3
    <3>2. log[m].date < log[n].date
      BY <1>2, <2>1, <2>3, <3>1
    <3> QED
      BY <1>6, <2>1, <3>2 DEF NoLater
  <2>4. CASE log[m].intent \notin Request
    <3>1. IsReset(log[m])
      BY <2>1, <2>4 DEF RecordsInv, Shaped, IsReset
    <3>2. ~Superseded(r, m)
      <4>1. ASSUME NEW k \in 1 .. before[r], log[k].stage = "reverted"
            PROVE  log[k].intent # log[m].intent
        BY <1>5, <2>4, <4>1, RevertsFail
      <4> QED
        BY <4>1 DEF Superseded
    <3>3. m \in Good(r)
      BY <2>1, <3>1, <3>2 DEF Good, Classify
    <3>4. log[m].date < log[n].date
      BY <1>2, <3>3
    <3> QED
      BY <1>6, <2>1, <3>4 DEF NoLater
  <2> QED
    BY <2>2, <2>3, <2>4
<1>9. n \in Latest(seen, s, c)
  BY <1>7, <1>8 DEF Latest
<1>10. ASSUME NEW m \in Latest(seen, s, c), Classify(seen[m]) \in {"succeeded", "reset"}
       PROVE  seen[m].date < seen[n].date
  <2>1. /\ m \in DOMAIN seen /\ m \in DOMAIN log /\ seen[m] = log[m] /\ m \in Nat
        /\ InLane(log[m], s, c) /\ log[m].date \in Nat
    BY <1>4 DEF Latest, Classified
  <2>2. CASE m \in Good(r)
    BY <1>2, <1>6, <2>1, <2>2
  <2>3. CASE m \notin Good(r)
    <3>1. Superseded(r, m)
      BY <1>10, <2>1, <2>3 DEF Good
    <3>2. PICK k \in 1 .. before[r] : /\ log[k].intent = log[m].intent
                                      /\ log[k].stage = "reverted"
                                      /\ log[k].date > log[m].date
      BY <3>1 DEF Superseded
    <3>3. k \in DOMAIN seen /\ k \in DOMAIN log /\ seen[k] = log[k] /\ log[k].date \in Nat
      BY <1>4, <1>5
    <3>4. Classify(log[k]) = "failed" /\ log[k].intent \in Request
      BY <3>2, <3>3, RevertsFail
    <3>5. ~IsReset(log[m])
      <4>1. Shaped(log[m]) /\ log[m].intent \notin Reset
        BY <2>1, <3>2, <3>4, IntentAssumption DEF RecordsInv
      <4> QED
        BY <4>1 DEF Shaped, IsReset
    <3>6. InLane(log[k], s, c)
      BY <2>1, <3>2, <3>5 DEF InLane
    <3>7. k \in Classified(seen, s, c)
      BY <3>3, <3>4, <3>6 DEF Classified
    <3>8. NoLater(seen, k, m)
      BY <2>1, <3>2, <3>3, <3>7 DEF Latest
    <3> QED
      BY <2>1, <3>2, <3>3, <3>8 DEF NoLater
  <2> QED
    BY <2>2, <2>3
<1>11. ASSUME NEW m \in Latest(seen, s, c), Precedes(seen, s, c, m, n)
       PROVE  Classify(seen[m]) \notin {"succeeded", "reset"}
  <2>1. m \in DOMAIN seen
    BY DEF Latest, Classified
  <2>2. seen[m].date \in Nat /\ seen[n].date \in Nat
    BY <1>4, <1>6, <2>1
  <2>3. ~(seen[m].date < seen[n].date)
    BY <1>11, <2>2 DEF Precedes
  <2> QED
    BY <1>10, <2>3
<1>12. n \in Streaking(seen, s, c)
  BY <1>6, <1>7, <1>9, <1>11 DEF Streaking
<1> QED
  BY <1>2, <1>6, <1>12 DEF seen

\* What is not paused has fewer reverts before it than the limit.
LEMMA ApprovalBelowLimit ==
    ASSUME TypeOK, BooksInv, RecordsInv, NEW r \in Request, auditSeen[r] # Unread,
           ~Paused(r), KindOf[r] # "revoke"
    PROVE  IsFiniteSet(CountedReverts(r)) /\ Cardinality(CountedReverts(r)) < MaxFailures
<1> DEFINE K == Streaking(Seen(r), StrategyOf[r], ChainOf[r])
           request == [n \in K |-> Seen(r)[n].intent]
           Requests == {request[n] : n \in K}
<1>1. Seen(r) \in Seq(Record)
  <2>1. auditSeen[r] \in Nat /\ auditSeen[r] <= Len(log) /\ Len(log) \in Nat
    BY DEF TypeOK, BooksInv, ReadInv
  <2> QED
    BY <2>1 DEF Seen, TypeOK
<1>2. IsFiniteSet(K) /\ Cardinality(K) < MaxFailures /\ Cardinality(K) \in Nat
  <2>1. ~(Streak(Seen(r), StrategyOf[r], ChainOf[r]) >= MaxFailures)
    BY DEF Paused
  <2> QED
    BY <1>1, <2>1, StreakCounts, DaemonAssumption
<1>3. CountedReverts(r) \subseteq Requests
  BY RevertsStreak
<1> HIDE DEF K
<1>4. IsFiniteSet(Requests) /\ Cardinality(Requests) <= Cardinality(K)
  <2>1. request \in Surjection(K, Requests)
    BY DEF Surjection
  <2> HIDE DEF request, Requests
  <2> QED
    BY <1>2, <2>1, FS_Surjection
<1> HIDE DEF Requests
<1>5. IsFiniteSet(CountedReverts(r)) /\ Cardinality(CountedReverts(r)) <= Cardinality(Requests)
  BY <1>3, <1>4, FS_Subset
<1>6. Cardinality(CountedReverts(r)) \in Nat /\ Cardinality(Requests) \in Nat /\ MaxFailures \in Nat
  BY <1>4, <1>5, FS_CardinalityType, DaemonAssumption
<1> QED
  BY <1>2, <1>4, <1>5, <1>6

\* No revert is added to those that were recorded at the submission, while the log
\* grows.
LEMMA RevertsStay ==
    ASSUME TypeOK, RecordsInv, LogGoesOn, NEW r \in Request, before'[r] = before[r]
    PROVE  CountedReverts(r)' \subseteq CountedReverts(r)
<1> SUFFICES ASSUME NEW q \in CountedReverts(r)' PROVE q \in CountedReverts(r)
  OBVIOUS
<1>1. /\ q \in Request /\ RevertedSinceGood(r, q)'
      /\ \A p \in Request : HashOf[p] = HashOf[q] => p = q
  BY DEF CountedReverts
<1>2. /\ \A n \in DOMAIN log : n \in DOMAIN log' /\ log'[n] = log[n]
      /\ \A n \in 1 .. before[r] : n \in DOMAIN log
  <2>1. /\ before[r] \in Nat /\ before[r] <= Len(log) /\ Len(log) \in Nat
        /\ DOMAIN log = 1 .. Len(log)
        /\ \A n \in DOMAIN log : n \in DOMAIN log' /\ log'[n] = log[n]
    BY DEF TypeOK, RecordsInv, BeforeInv, LogGoesOn
  <2> QED
    BY <2>1
<1>3. PICK n \in 1 .. before[r] :
          /\ log'[n].intent = q /\ log'[n].stage = "reverted"
          /\ InLane(log'[n], StrategyOf[r], ChainOf[r])
          /\ \A m \in Good(r)' : log'[m].date < log'[n].date
          /\ \A m \in DOMAIN log' :
                 log'[m].intent = q /\ Classify(log'[m]) # "none" /\ m # n
                     => log'[m].date < log'[n].date
  BY <1>1 DEF RevertedSinceGood
<1>4. n \in DOMAIN log /\ log'[n] = log[n]
  BY <1>2
<1>5. ASSUME NEW m \in Good(r)
      PROVE  m \in Good(r)' /\ log'[m] = log[m]
  <2>1. /\ m \in DOMAIN log /\ InLane(log[m], StrategyOf[r], ChainOf[r])
        /\ Classify(log[m]) \in {"succeeded", "reset"} /\ ~Superseded(r, m)
    BY DEF Good
  <2>2. m \in DOMAIN log' /\ log'[m] = log[m]
    BY <1>2, <2>1
  <2>3. ~Superseded(r, m)'
    BY <1>2, <2>1, <2>2 DEF Superseded
  <2> QED
    BY <2>1, <2>2, <2>3 DEF Good
<1>6. RevertedSinceGood(r, q)
  <2>1. \A m \in Good(r) : log[m].date < log[n].date
    BY <1>3, <1>4, <1>5
  <2>2. \A m \in DOMAIN log : log[m].intent = q /\ Classify(log[m]) # "none" /\ m # n
                                  => log[m].date < log[n].date
    BY <1>2, <1>3, <1>4
  <2> QED
    BY <1>3, <1>4, <2>1, <2>2 DEF RevertedSinceGood
<1> QED
  BY <1>1, <1>6 DEF CountedReverts

LEMMA NextPause ==
    ASSUME TypeOK, Inv, BooksInv, RecordsInv, PauseInv, Next
    PROVE  PauseInv'
<1> SUFFICES ASSUME NEW r \in Request, Passed(r)', KindOf[r] # "revoke"
             PROVE  /\ IsFiniteSet(CountedReverts(r)')
                    /\ Cardinality(CountedReverts(r)') < MaxFailures
  BY DEF PauseInv
<1>1. RunsGoOn /\ LogGoesOn
  BY NextGoesOn, NextLog
<1>2. CountedReverts(r)' \subseteq CountedReverts(r)
  BY <1>1, RevertsStay DEF RunsGoOn
<1>3. IsFiniteSet(CountedReverts(r)) /\ Cardinality(CountedReverts(r)) < MaxFailures
  <2>1. CASE Passed(r)
    BY <2>1 DEF PauseInv
  <2>2. CASE Approve(r)
    BY <2>2, ApprovalBelowLimit DEF Approve, ReadsDone
  <2> QED
    BY <1>1, <2>1, <2>2 DEF RunsGoOn
<1> HIDE DEF CountedReverts
<1>4. /\ IsFiniteSet(CountedReverts(r)')
      /\ Cardinality(CountedReverts(r)') <= Cardinality(CountedReverts(r))
  BY <1>2, <1>3, FS_Subset
<1>5. Cardinality(CountedReverts(r)') \in Nat /\ Cardinality(CountedReverts(r)) \in Nat
  BY <1>3, <1>4, FS_CardinalityType
<1> QED
  BY <1>3, <1>4, <1>5, DaemonAssumption

\* The pause: a request passes only when fewer than MaxFailures requests of its
\* lane are recorded as reverted, at its submission, since the lane's last success
\* or reset, whether their runs recorded it or the watcher did.
THEOREM PausedAfterRevertsAlways == Spec => []PausedAfterReverts
<1>1. Init => PauseInv
  BY DEF Init, PauseInv, Passed, Active
<1>2. TypeOK /\ Inv /\ BooksInv /\ RecordsInv /\ PauseInv /\ [Next]_vars => PauseInv'
  <2> SUFFICES ASSUME TypeOK, Inv, BooksInv, RecordsInv, PauseInv, [Next]_vars PROVE PauseInv'
    OBVIOUS
  <2>1. CASE UNCHANGED vars
    BY <2>1 DEF vars, files, run, PauseInv, Passed, CountedReverts, RevertedSinceGood, Good,
                Superseded
  <2>2. CASE Next
    BY <2>2, NextPause
  <2> QED
    BY <2>1, <2>2
<1>3. PauseInv => PausedAfterReverts
  BY DEF PauseInv, PausedAfterReverts, CountedReverts
<1> QED
  BY <1>1, <1>2, <1>3, TypeCorrect, InvHolds, BooksHold, RecordsHold, PTL DEF Spec

-----------------------------------------------------------------------------
(* Finite sums.  The library has no theorem about them: a sum is a CHOOSE  *)
(* of a recursive function, and that there is one is proved here.          *)

\* What holds of 0 and passes from each number to the next holds up to N: the
\* set T is of the numbers of which it holds.
LEMMA HoldsUpTo ==
    ASSUME NEW N \in Nat, NEW T, 0 \in T, \A n \in 1 .. N : n - 1 \in T => n \in T
    PROVE  \A n \in 0 .. N : n \in T
<1> DEFINE Missing == {n \in 0 .. N : n \notin T}
<1>1. SUFFICES ASSUME Missing # {} PROVE FALSE
  OBVIOUS
<1>2. PICK n \in Missing : \A m \in Missing : n <= m
  BY <1>1, LeastNumber, Missing \in SUBSET Nat
<1>3. n \in 1 .. N /\ n - 1 \in 0 .. N /\ n - 1 \notin Missing
  BY <1>2
<1> QED
  BY <1>2, <1>3

-----------------------------------------------------------------------------

Sum(f, S) == MapThenSumSet(LAMBDA x : f[x], S)

\* The element that the sum over T takes first.
Pick(T) == CHOOSE x \in T : TRUE

\* The recursion by which a sum over S is computed.
SumRun(g, f, S) ==
    g = [T \in SUBSET S |-> IF T = {} THEN 0 ELSE f[Pick(T)] + g[T \ {Pick(T)}]]

LEMMA PickFrom ==
    ASSUME NEW T, T # {}
    PROVE  Pick(T) \in T
BY DEF Pick

LEMMA Smaller ==
    ASSUME NEW T, IsFiniteSet(T), NEW x \in T
    PROVE  /\ IsFiniteSet(T \ {x}) /\ Cardinality(T) \in Nat /\ Cardinality(T \ {x}) \in Nat
           /\ Cardinality(T \ {x}) = Cardinality(T) - 1
BY FS_RemoveElement, FS_CardinalityType

\* A finite sum has a run.
LEMMA SumRuns ==
    ASSUME NEW S, IsFiniteSet(S), NEW f
    PROVE  \E g : SumRun(g, f, S)
<1> DEFINE N == Cardinality(S)
           Value(g, T) == IF T = {} THEN 0 ELSE f[Pick(T)] + g[T \ {Pick(T)}]
           Runs(k, g) == \A T \in SUBSET S : Cardinality(T) <= k => g[T] = Value(g, T)
           Maps(g) == g = [T \in SUBSET S |-> g[T]]
           Fine == {k \in 0 .. N : \E g : Maps(g) /\ Runs(k, g)}
<1>1. N \in Nat
  BY FS_CardinalityType
<1>2. ASSUME NEW T \in SUBSET S
      PROVE  /\ Cardinality(T) \in 0 .. N
             /\ T # {} => /\ T \ {Pick(T)} \in SUBSET S
                          /\ Cardinality(T \ {Pick(T)}) = Cardinality(T) - 1
             /\ Cardinality(T) = 0 => T = {}
  <2>1. IsFiniteSet(T) /\ Cardinality(T) <= N
    BY FS_Subset
  <2>2. Cardinality(T) \in Nat
    BY <2>1, FS_CardinalityType
  <2> QED
    BY <1>1, <2>1, <2>2, PickFrom, Smaller, FS_EmptySet
<1> HIDE DEF N
<1>3. 0 \in Fine
  <2> DEFINE g == [T \in SUBSET S |-> 0]
  <2>1. ASSUME NEW T \in SUBSET S, Cardinality(T) <= 0 PROVE g[T] = Value(g, T)
    <3>1. Cardinality(T) = 0
      <4>1. Cardinality(T) \in 0 .. N
        BY <1>2
      <4> QED
        BY <1>1, <2>1, <4>1
    <3> QED
      BY <1>2, <3>1
  <2>2. Maps(g)
    OBVIOUS
  <2>3. 0 \in 0 .. N
    BY <1>1
  <2> HIDE DEF g, Maps, Value
  <2> QED
    BY <2>1, <2>2, <2>3
<1>4. ASSUME NEW k \in 1 .. N, k - 1 \in Fine
      PROVE  k \in Fine
  <2>1. PICK g : Maps(g) /\ Runs(k - 1, g)
    BY <1>4
  <2> DEFINE h == [T \in SUBSET S |-> Value(g, T)]
  <2>2. \A T \in SUBSET S : h[T] = Value(g, T)
    OBVIOUS
  <2>3. Maps(h)
    OBVIOUS
  <2> HIDE DEF h, Maps
  <2>4. \A T \in SUBSET S : Cardinality(T) <= k - 1 => h[T] = g[T]
    BY <2>1, <2>2
  <2>5. ASSUME NEW T \in SUBSET S, Cardinality(T) <= k
        PROVE  h[T] = Value(h, T)
    <3>1. CASE T = {}
      BY <2>2, <3>1
    <3>2. CASE T # {}
      <4>1. T \ {Pick(T)} \in SUBSET S /\ Cardinality(T \ {Pick(T)}) <= k - 1
        BY <1>1, <1>2, <2>5, <3>2
      <4>2. h[T \ {Pick(T)}] = g[T \ {Pick(T)}]
        BY <2>4, <4>1
      <4> QED
        BY <2>2, <3>2, <4>2
    <3> QED
      BY <3>1, <3>2
  <2>6. k \in 0 .. N
    BY <1>1
  <2> HIDE DEF Value
  <2> QED
    BY <2>3, <2>5, <2>6
<1>5. N \in Fine
  <2>1. N \in 0 .. N
    BY <1>1
  <2> HIDE DEF Fine
  <2> QED
    BY <1>1, <1>3, <1>4, <2>1, HoldsUpTo
<1>6. PICK g : Maps(g) /\ Runs(N, g)
  BY <1>5
<1>7. ASSUME NEW T \in SUBSET S PROVE g[T] = Value(g, T)
  <2>1. Cardinality(T) <= N
    <3>1. Cardinality(T) \in 0 .. N
      BY <1>2
    <3> QED
      BY <1>1, <3>1
  <2> HIDE DEF Value
  <2> QED
    BY <1>6, <2>1
<1>8. g = [T \in SUBSET S |-> Value(g, T)]
  <2> HIDE DEF Value
  <2> QED
    BY <1>6, <1>7
<1> QED
  BY <1>8 DEF SumRun

\* The value of a run over a set does not depend on the set the run is over.
LEMMA RunsAgree ==
    ASSUME NEW S, IsFiniteSet(S), NEW U, NEW f, \A x \in S : f[x] \in Nat,
           NEW g, SumRun(g, f, S), NEW h, SumRun(h, f, U)
    PROVE  \A T \in SUBSET (S \cap U) : g[T] = h[T] /\ g[T] \in Nat
<1> DEFINE N == Cardinality(S)
           Fine == {k \in 0 .. N : \A T \in SUBSET (S \cap U) :
                        Cardinality(T) = k => g[T] = h[T] /\ g[T] \in Nat}
<1>1. N \in Nat
  BY FS_CardinalityType
<1>2. ASSUME NEW T \in SUBSET (S \cap U)
      PROVE  /\ Cardinality(T) \in 0 .. N /\ Cardinality(T) \in Nat /\ IsFiniteSet(T)
             /\ Cardinality(T) = 0 => T = {}
  <2>1. IsFiniteSet(T) /\ Cardinality(T) <= N
    BY FS_Subset
  <2>2. Cardinality(T) \in Nat
    BY <2>1, FS_CardinalityType
  <2> QED
    BY <1>1, <2>1, <2>2, FS_EmptySet
<1> HIDE DEF N
<1>3. ASSUME NEW T \in SUBSET (S \cap U)
      PROVE  /\ T = {} => g[T] = 0 /\ h[T] = 0
             /\ T # {} => /\ g[T] = f[Pick(T)] + g[T \ {Pick(T)}]
                          /\ h[T] = f[Pick(T)] + h[T \ {Pick(T)}]
  BY DEF SumRun
<1>4. 0 \in Fine
  <2>1. 0 \in 0 .. N
    BY <1>1
  <2>2. ASSUME NEW T \in SUBSET (S \cap U), Cardinality(T) = 0 PROVE g[T] = h[T] /\ g[T] \in Nat
    BY <1>2, <1>3, <2>2
  <2> QED
    BY <2>1, <2>2
<1>5. ASSUME NEW k \in 1 .. N, k - 1 \in Fine
      PROVE  k \in Fine
  <2>1. ASSUME NEW T \in SUBSET (S \cap U), Cardinality(T) = k
        PROVE  g[T] = h[T] /\ g[T] \in Nat
    <3>1. T # {}
      BY <1>1, <2>1, FS_EmptySet
    <3>2. Pick(T) \in T /\ f[Pick(T)] \in Nat
      BY <3>1, PickFrom
    <3>3. T \ {Pick(T)} \in SUBSET (S \cap U) /\ Cardinality(T \ {Pick(T)}) = k - 1
      BY <1>2, <2>1, <3>2, Smaller
    <3>4. g[T \ {Pick(T)}] = h[T \ {Pick(T)}] /\ g[T \ {Pick(T)}] \in Nat
      BY <1>5, <3>3
    <3> QED
      BY <1>3, <3>1, <3>2, <3>4
  <2> QED
    BY <1>1, <2>1
<1>6. \A k \in 0 .. N : k \in Fine
  <2> HIDE DEF Fine
  <2> QED
    BY <1>1, <1>4, <1>5, HoldsUpTo
<1> QED
  BY <1>2, <1>6

LEMMA SumIsRun ==
    ASSUME NEW S, NEW f
    PROVE  \E g : Sum(f, S) = g[S] /\ g = CHOOSE h : SumRun(h, f, S)
BY DEF Sum, MapThenSumSet, MapThenFoldSet, SumRun, Pick

\* Whatever runs over S sums it up.
LEMMA SumOfRun ==
    ASSUME NEW S, IsFiniteSet(S), NEW f, \A x \in S : f[x] \in Nat
    PROVE  /\ Sum(f, S) \in Nat
           /\ \A g : SumRun(g, f, S) => \A T \in SUBSET S : g[T] = Sum(f, T)
<1>1. ASSUME NEW T \in SUBSET S
      PROVE  \E h : SumRun(h, f, T) /\ Sum(f, T) = h[T]
  <2>1. IsFiniteSet(T)
    BY FS_Subset
  <2>2. PICK h : SumRun(h, f, T)
    BY <2>1, SumRuns
  <2> QED
    BY <2>2, SumIsRun
<1>2. ASSUME NEW g, SumRun(g, f, S), NEW T \in SUBSET S
      PROVE  g[T] = Sum(f, T) /\ g[T] \in Nat
  <2>1. PICK h : SumRun(h, f, T) /\ Sum(f, T) = h[T]
    BY <1>1
  <2>2. T \in SUBSET (S \cap T)
    OBVIOUS
  <2> QED
    BY <1>2, <2>1, <2>2, RunsAgree
<1>3. PICK g : SumRun(g, f, S)
  BY SumRuns
<1> QED
  BY <1>2, <1>3

\* Any element of a finite set can be summed last.
LEMMA SumTakes ==
    ASSUME NEW S, IsFiniteSet(S), NEW f, \A x \in S : f[x] \in Nat, NEW x \in S
    PROVE  /\ Sum(f, S) = f[x] + Sum(f, S \ {x})
           /\ Sum(f, S) \in Nat /\ Sum(f, S \ {x}) \in Nat
<1>1. PICK g : SumRun(g, f, S)
  BY SumRuns
<1>2. ASSUME NEW T \in SUBSET S
      PROVE  /\ IsFiniteSet(T) /\ g[T] = Sum(f, T) /\ Sum(f, T) \in Nat
             /\ T # {} => Sum(f, T) = f[Pick(T)] + Sum(f, T \ {Pick(T)})
  <2>1. IsFiniteSet(T)
    BY FS_Subset
  <2>2. g[T] = Sum(f, T) /\ Sum(f, T) \in Nat
    BY <1>1, <2>1, SumOfRun
  <2>3. T \ {Pick(T)} \in SUBSET S
    OBVIOUS
  <2>4. g[T \ {Pick(T)}] = Sum(f, T \ {Pick(T)})
    BY <1>1, <2>3, SumOfRun
  <2>5. T # {} => g[T] = f[Pick(T)] + g[T \ {Pick(T)}]
    BY <1>1 DEF SumRun
  <2> QED
    BY <2>1, <2>2, <2>4, <2>5
<1> DEFINE N == Cardinality(S)
           Takes(T, y) == Sum(f, T) = f[y] + Sum(f, T \ {y})
           Fine == {k \in 0 .. N : \A T \in SUBSET S : Cardinality(T) = k =>
                        \A y \in T : Takes(T, y)}
<1>3. N \in Nat
  BY FS_CardinalityType
<1> HIDE DEF N
<1>4. 0 \in Fine
  <2>1. 0 \in 0 .. N
    BY <1>3
  <2>2. ASSUME NEW T \in SUBSET S, Cardinality(T) = 0 PROVE T = {}
    BY <1>2, <2>2, FS_EmptySet
  <2> HIDE DEF Takes
  <2> QED
    BY <2>1, <2>2
<1>5. ASSUME NEW k \in 1 .. N, k - 1 \in Fine
      PROVE  k \in Fine
  <2>1. ASSUME NEW T \in SUBSET S, Cardinality(T) = k, NEW y \in T
        PROVE  Takes(T, y)
    <3> DEFINE z == Pick(T)
    <3>1. z \in T /\ Sum(f, T) = f[z] + Sum(f, T \ {z})
      BY <1>2, PickFrom
    <3> HIDE DEF z
    <3>2. CASE y = z
      BY <3>1, <3>2
    <3>3. CASE y # z
      <4>1. /\ T \ {y} \in SUBSET S /\ Cardinality(T \ {y}) = k - 1 /\ z \in T \ {y}
            /\ T \ {z} \in SUBSET S /\ Cardinality(T \ {z}) = k - 1 /\ y \in T \ {z}
        BY <1>2, <2>1, <3>1, <3>3, Smaller
      <4>2. Takes(T \ {y}, z) /\ Takes(T \ {z}, y)
        <5> HIDE DEF Takes
        <5> QED
          BY <1>5, <4>1
      <4>3. (T \ {y}) \ {z} = (T \ {z}) \ {y}
        OBVIOUS
      <4>4. /\ Sum(f, T \ {y}) = f[z] + Sum(f, (T \ {z}) \ {y})
            /\ Sum(f, T \ {z}) = f[y] + Sum(f, (T \ {z}) \ {y})
        BY <4>2, <4>3
      <4>5. Sum(f, (T \ {z}) \ {y}) \in Nat /\ f[y] \in Nat /\ f[z] \in Nat
        BY <1>2, <3>1
      <4> QED
        BY <3>1, <4>4, <4>5
    <3> QED
      BY <3>2, <3>3
  <2>2. k \in 0 .. N
    BY <1>3
  <2> HIDE DEF Takes
  <2> QED
    BY <2>1, <2>2
<1>6. \A k \in 0 .. N : k \in Fine
  <2> HIDE DEF Fine
  <2> QED
    BY <1>3, <1>4, <1>5, HoldsUpTo
<1>7. Takes(S, x)
  <2>1. N \in 0 .. N
    BY <1>3
  <2> HIDE DEF Takes
  <2> QED
    BY <1>6, <2>1 DEF N
<1>8. S \ {x} \in SUBSET S /\ S \in SUBSET S
  OBVIOUS
<1> QED
  BY <1>2, <1>7, <1>8

\* A sum is at most the sum over what its elements are mapped into, one to one.
LEMMA SumWithin ==
    ASSUME NEW S, IsFiniteSet(S), NEW f, \A x \in S : f[x] \in Nat,
           NEW U, IsFiniteSet(U), NEW g, \A y \in U : g[y] \in Nat,
           NEW h, \A x \in S : h[x] \in U /\ g[h[x]] = f[x],
           \A x, y \in S : h[x] = h[y] => x = y
    PROVE  Sum(f, S) <= Sum(g, U)
<1> DEFINE N == Cardinality(S)
           Into(T, V) == \A x \in T : h[x] \in V
           Fine == {k \in 0 .. N : \A T \in SUBSET S : \A V \in SUBSET U :
                        Cardinality(T) = k /\ Into(T, V) => Sum(f, T) <= Sum(g, V)}
<1>1. N \in Nat
  BY FS_CardinalityType
<1>2. \A T \in SUBSET S : IsFiniteSet(T) /\ Sum(f, T) \in Nat
  BY FS_Subset, SumOfRun
<1>3. \A V \in SUBSET U : IsFiniteSet(V) /\ Sum(g, V) \in Nat
  BY FS_Subset, SumOfRun
<1> HIDE DEF N
<1>4. 0 \in Fine
  <2>1. Sum(f, {}) = 0
    <3>1. PICK r : SumRun(r, f, {})
      BY FS_EmptySet, SumRuns
    <3>2. r[{}] = 0
      BY <3>1 DEF SumRun
    <3>3. r[{}] = Sum(f, {})
      BY <3>1, FS_EmptySet, SumOfRun
    <3> QED
      BY <3>2, <3>3
  <2>2. ASSUME NEW T \in SUBSET S, Cardinality(T) = 0 PROVE T = {}
    BY <1>2, <2>2, FS_EmptySet
  <2>3. 0 \in 0 .. N
    BY <1>1
  <2>4. \A T \in SUBSET S : \A V \in SUBSET U : Cardinality(T) = 0 => Sum(f, T) <= Sum(g, V)
    BY <1>3, <2>1, <2>2
  <2> QED
    BY <2>3, <2>4
<1>5. ASSUME NEW k \in 1 .. N, k - 1 \in Fine
      PROVE  k \in Fine
  <2>1. ASSUME NEW T \in SUBSET S, NEW V \in SUBSET U, Cardinality(T) = k, Into(T, V)
        PROVE  Sum(f, T) <= Sum(g, V)
    <3>1. PICK x \in T : TRUE
      BY <1>1, <2>1, FS_EmptySet
    <3>2. h[x] \in V /\ g[h[x]] = f[x] /\ f[x] \in Nat
      BY <2>1, <3>1
    <3>3. /\ Sum(f, T) = f[x] + Sum(f, T \ {x})
          /\ Sum(f, T \ {x}) \in Nat
      BY <1>2, <3>1, SumTakes
    <3>4. /\ Sum(g, V) = g[h[x]] + Sum(g, V \ {h[x]})
          /\ Sum(g, V \ {h[x]}) \in Nat
      BY <1>3, <3>2, SumTakes
    <3>5. /\ T \ {x} \in SUBSET S /\ V \ {h[x]} \in SUBSET U
          /\ Cardinality(T \ {x}) = k - 1
      BY <1>2, <2>1, <3>1, Smaller
    <3>6. Into(T \ {x}, V \ {h[x]})
      BY <2>1, <3>1
    <3>7. Sum(f, T \ {x}) <= Sum(g, V \ {h[x]})
      <4> HIDE DEF Into
      <4> QED
        BY <1>5, <3>5, <3>6
    <3> QED
      BY <3>2, <3>3, <3>4, <3>7
  <2>2. k \in 0 .. N
    BY <1>1
  <2> HIDE DEF Into
  <2> QED
    BY <2>1, <2>2
<1>6. \A k \in 0 .. N : k \in Fine
  <2> HIDE DEF Fine
  <2> QED
    BY <1>1, <1>4, <1>5, HoldsUpTo
<1>7. Into(S, U) /\ N \in 0 .. N /\ S \in SUBSET S /\ U \in SUBSET U
  BY <1>1
<1> HIDE DEF Into
<1> QED
  BY <1>6, <1>7 DEF N

-----------------------------------------------------------------------------
(* The daily cap, for requests made one after the other.                   *)

LEMMA SpentIsSum ==
    ASSUME NEW S
    PROVE  Spent(S) = Sum(AmountOf, S)
BY DEF Spent, Sum, MapThenSumSet, MapThenFoldSet

\* The positions that the daily volume counts, and what it counts for them.
Counted(lg, s) == {n \in BestById(lg, s) : SuccessfulBroadcast(lg[n])}

Amounts(lg, s) == [n \in Counted(lg, s) |-> AmountOf[lg[n].intent]]

VolumeRun(h, lg, W) ==
    h = [T \in SUBSET W |-> IF T = {} THEN 0
                            ELSE AmountOf[lg[Pick(T)].intent] + h[T \ {Pick(T)}]]

LEMMA VolumeIsRun ==
    ASSUME NEW lg, NEW s
    PROVE  \E h : /\ DailyVolume(lg, s) = h[Counted(lg, s)]
                  /\ h = CHOOSE x : VolumeRun(x, lg, Counted(lg, s))
BY DEF DailyVolume, MapThenSumSet, MapThenFoldSet, VolumeRun, Counted, Pick

LEMMA VolumeIsSum ==
    ASSUME NEW lg \in Seq(Record), NEW s
    PROVE  /\ IsFiniteSet(Counted(lg, s))
           /\ \A n \in Counted(lg, s) : /\ n \in DOMAIN lg
                                        /\ Amounts(lg, s)[n] = AmountOf[lg[n].intent]
                                        /\ Amounts(lg, s)[n] \in Nat
           /\ DailyVolume(lg, s) = Sum(Amounts(lg, s), Counted(lg, s))
<1> DEFINE W == Counted(lg, s)
           f == Amounts(lg, s)
<1>1. W \subseteq DOMAIN lg /\ DOMAIN lg = 1 .. Len(lg) /\ Len(lg) \in Nat
  BY DEF Counted, BestById, OfStrategy
<1>2. IsFiniteSet(W)
  <2>1. IsFiniteSet(1 .. Len(lg))
    BY <1>1, FS_Interval
  <2> QED
    BY <1>1, <2>1, FS_Subset
<1>3. \A n \in W : f[n] = AmountOf[lg[n].intent]
  BY DEF Amounts
<1>4. \A n \in W : AmountOf[lg[n].intent] \in Nat
  <2>1. \A n \in W : lg[n] \in Record
    BY <1>1
  <2> QED
    BY <2>1, IntentAssumption DEF Record
<1> HIDE DEF W, f
<1>5. ASSUME NEW h
      PROVE  VolumeRun(h, lg, W) <=> SumRun(h, f, W)
  <2>1. \A T \in SUBSET W : T # {} => f[Pick(T)] = AmountOf[lg[Pick(T)].intent]
    BY <1>3, PickFrom
  <2>2. [T \in SUBSET W |-> IF T = {} THEN 0
                            ELSE AmountOf[lg[Pick(T)].intent] + h[T \ {Pick(T)}]]
        = [T \in SUBSET W |-> IF T = {} THEN 0 ELSE f[Pick(T)] + h[T \ {Pick(T)}]]
    BY <2>1
  <2> QED
    BY <2>2 DEF VolumeRun, SumRun
<1>6. \E h : VolumeRun(h, lg, W)
  BY <1>2, <1>5, SumRuns
<1>7. PICK h : VolumeRun(h, lg, W) /\ DailyVolume(lg, s) = h[W]
  BY <1>6, VolumeIsRun DEF W
<1>8. h[W] = Sum(f, W)
  <2>1. \A x \in W : f[x] \in Nat
    BY <1>3, <1>4
  <2>2. SumRun(h, f, W)
    BY <1>5, <1>7
  <2>3. W \in SUBSET W
    OBVIOUS
  <2> QED
    BY <1>2, <2>1, <2>2, <2>3, SumOfRun
<1> QED
  BY <1>1, <1>2, <1>3, <1>4, <1>7, <1>8 DEF W, f

TotalOn(S, Le) ==
    /\ \A m, n \in S : <<m, n>> \in Le \/ <<n, m>> \in Le
    /\ \A k, m, n \in S : <<k, m>> \in Le /\ <<m, n>> \in Le => <<k, n>> \in Le

\* Some positions of a log have a greatest one, in any total order.
LEMMA Greatest ==
    ASSUME NEW N \in Nat, NEW S \in SUBSET (1 .. N), S # {}, NEW Le, TotalOn(S, Le)
    PROVE  \E b \in S : \A m \in S : <<m, b>> \in Le
<1> DEFINE Upto(k) == {m \in S : m <= k}
           T == {k \in 0 .. N : Upto(k) # {} => \E b \in Upto(k) : \A m \in Upto(k) : <<m, b>> \in Le}
<1>0. /\ \A m \in S : m \in 1 .. N
      /\ \A m, n \in S : <<m, n>> \in Le \/ <<n, m>> \in Le
      /\ \A k, m, n \in S : <<k, m>> \in Le /\ <<m, n>> \in Le => <<k, n>> \in Le
  BY DEF TotalOn
<1> HIDE DEF TotalOn
<1>1. 0 \in T
  <2>1. \A m \in S : ~(m <= 0)
    BY <1>0
  <2>2. Upto(0) = {}
    BY <2>1
  <2> QED
    BY <2>2
<1>2. ASSUME NEW k \in 1 .. N, k - 1 \in T
      PROVE  k \in T
  <2>1. CASE k \notin S
    <3>1. Upto(k) = Upto(k - 1)
      <4>1. \A m \in S : m <= k <=> m <= k - 1
        BY <1>0, <2>1
      <4> QED
        BY <4>1
    <3>2. k \in 0 .. N
      OBVIOUS
    <3> HIDE DEF Upto
    <3> QED
      BY <1>2, <3>1, <3>2
  <2>2. CASE k \in S
    <3>1. Upto(k) = Upto(k - 1) \cup {k} /\ k \in Upto(k) /\ Upto(k) \subseteq S
      <4>1. \A m \in S : m <= k <=> m <= k - 1 \/ m = k
        BY <1>0, <2>2
      <4>2. k <= k
        OBVIOUS
      <4> QED
        BY <2>2, <4>1, <4>2
    <3>2. k \in 0 .. N
      OBVIOUS
    <3>3. <<k, k>> \in Le
      BY <1>0, <2>2
    <3>4. CASE Upto(k - 1) = {}
      <4>1. Upto(k) = {k}
        BY <3>1, <3>4
      <4> QED
        BY <3>2, <3>3, <4>1
    <3>5. CASE Upto(k - 1) # {}
      <4>1. PICK b \in Upto(k - 1) : \A m \in Upto(k - 1) : <<m, b>> \in Le
        BY <1>2, <3>5
      <4>2. b \in S /\ b \in Upto(k)
        BY <3>1, <4>1
      <4>3. CASE <<k, b>> \in Le
        <5>1. \A m \in Upto(k) : <<m, b>> \in Le
          <6> HIDE DEF Upto
          <6> QED
            BY <3>1, <4>1, <4>3
        <5> HIDE DEF Upto
        <5> QED
          BY <3>2, <4>2, <5>1
      <4>4. CASE <<b, k>> \in Le
        <5>1. \A m \in Upto(k - 1) : m \in S /\ <<m, k>> \in Le
          BY <1>0, <2>2, <4>1, <4>2, <4>4
        <5>2. \A m \in Upto(k) : <<m, k>> \in Le
          <6> HIDE DEF Upto
          <6> QED
            BY <3>1, <3>3, <5>1
        <5> HIDE DEF Upto
        <5> QED
          BY <3>1, <3>2, <5>2
      <4> QED
        BY <1>0, <2>2, <4>2, <4>3, <4>4
    <3> QED
      BY <3>4, <3>5
  <2> QED
    BY <2>1, <2>2
<1>3. N \in T
  <2>1. N \in 0 .. N
    OBVIOUS
  <2> HIDE DEF T
  <2> QED
    BY <1>1, <1>2, <2>1, HoldsUpTo
<1>4. Upto(N) = S
  <2>1. \A m \in S : m <= N
    BY <1>0
  <2> QED
    BY <2>1
<1> HIDE DEF Upto
<1> QED
  BY <1>3, <1>4

\* Every record has one of its intentId that stands for it.
LEMMA HasBest ==
    ASSUME NEW lg \in Seq(Record), NEW s, NEW n \in OfStrategy(lg, s)
    PROVE  \E b \in BestById(lg, s) : /\ IdOf[lg[b].intent] = IdOf[lg[n].intent]
                                      /\ Rank(lg[b]) >= Rank(lg[n])
<1> DEFINE Same == {m \in OfStrategy(lg, s) : IdOf[lg[m].intent] = IdOf[lg[n].intent]}
           N == Len(lg)
           rank == [m \in Same |-> Rank(lg[m])]
           date == [m \in Same |-> lg[m].date]
           Below(m, k) == \/ rank[m] < rank[k]
                          \/ /\ rank[m] = rank[k]
                             /\ date[m] < date[k] \/ (date[m] = date[k] /\ m <= k)
           Le == {p \in Same \X Same : Below(p[1], p[2])}
<1>1. /\ N \in Nat /\ n \in Same /\ Same \in SUBSET (1 .. N)
      /\ Same \subseteq OfStrategy(lg, s)
  BY DEF OfStrategy
<1>2. ASSUME NEW m \in Same
      PROVE  /\ m \in Nat /\ rank[m] = Rank(lg[m]) /\ rank[m] \in 0 .. 5
             /\ date[m] = lg[m].date /\ date[m] \in Nat
  <2>1. lg[m] \in Record
    BY DEF OfStrategy
  <2>2. lg[m].date \in Nat
    BY <2>1 DEF Record
  <2> QED
    BY <1>1, <2>2 DEF Rank
<1>3. ASSUME NEW m \in OfStrategy(lg, s)
      PROVE  IdOf[lg[m].intent] = IdOf[lg[n].intent] <=> m \in Same
  OBVIOUS
<1> HIDE DEF Same, rank, date, N
<1>4. \A m, k \in Same : <<m, k>> \in Le <=> Below(m, k)
  OBVIOUS
<1>5. TotalOn(Same, Le)
  <2>1. \A m, k \in Same : Below(m, k) \/ Below(k, m)
    BY <1>2
  <2>2. ASSUME NEW j \in Same, NEW m \in Same, NEW k \in Same, Below(j, m), Below(m, k)
        PROVE  Below(j, k)
    <3>1. /\ rank[j] \in Nat /\ rank[m] \in Nat /\ rank[k] \in Nat
          /\ date[j] \in Nat /\ date[m] \in Nat /\ date[k] \in Nat
          /\ j \in Nat /\ m \in Nat /\ k \in Nat
      BY <1>2
    <3> QED
      BY <2>2, <3>1
  <2> HIDE DEF Le, Below
  <2> QED
    BY <1>4, <2>1, <2>2 DEF TotalOn
<1>6. PICK b \in Same : \A m \in Same : <<m, b>> \in Le
  <2> HIDE DEF Le
  <2> QED
    BY <1>1, <1>5, Greatest
<1>7. \A m \in Same : Below(m, b)
  BY <1>4, <1>6
<1>8. b \in BestById(lg, s)
  <2>1. ASSUME NEW m \in OfStrategy(lg, s), IdOf[lg[m].intent] = IdOf[lg[b].intent]
        PROVE  \/ Rank(lg[m]) < Rank(lg[b])
               \/ Rank(lg[m]) = Rank(lg[b]) /\ NoLater(lg, m, b)
    <3>1. m \in Same
      BY <1>1, <1>3, <2>1
    <3>2. Below(m, b)
      BY <1>7, <3>1
    <3> QED
      BY <1>2, <3>1, <3>2 DEF NoLater
  <2> QED
    BY <1>1, <2>1 DEF BestById
<1>9. Rank(lg[b]) >= Rank(lg[n])
  BY <1>1, <1>2, <1>7
<1> QED
  BY <1>1, <1>3, <1>8, <1>9

\* The requests before r that its daily cap has to count: none of them shares its
\* intentId with another request.
Counting(r) ==
    {q \in prior[r] : /\ Standing(q) /\ StrategyOf[q] = StrategyOf[r]
                      /\ \A p \in Request : IdOf[p] = IdOf[q] => p = q}

CapInv ==
    \A r \in Request :
        Passed(r) /\ KindOf[r] # "unwind" =>
            \A S \in SUBSET Counting(r) :
                IsFiniteSet(S) /\ Spent(S) + AmountOf[r] <= DayCap

\* The volume that a run read counts each of them, by a record of its own.
LEMMA StandingCounted ==
    ASSUME TypeOK, BooksInv, RecordsInv, NEW r \in Request, auditSeen[r] # Unread,
           NEW q \in Counting(r)
    PROVE  \E n \in Counted(Seen(r), StrategyOf[r]) : Seen(r)[n].intent = q
<1> DEFINE s == StrategyOf[r]
           seen == Seen(r)
<1>1. /\ q \in Request /\ q \in prior[r] /\ HasRecord(q, "broadcasted")
      /\ ~HasRecord(q, "reverted") /\ StrategyOf[q] = s
      /\ \A p \in Request : IdOf[p] = IdOf[q] => p = q
  BY DEF Counting, TypeOK, Standing
<1>2. auditSeen[r] \in Nat /\ auditSeen[r] <= Len(log) /\ Len(log) \in Nat
  BY DEF TypeOK, BooksInv, ReadInv
<1>3. /\ seen \in Seq(Record) /\ DOMAIN seen = 1 .. auditSeen[r]
      /\ \A m \in DOMAIN seen : m \in DOMAIN log /\ seen[m] = log[m]
  BY <1>2 DEF Seen, TypeOK
<1>4. PICK n \in DOMAIN log : log[n].intent = q /\ log[n].stage = "broadcasted"
  BY <1>1 DEF HasRecord
<1>5. n \in DOMAIN seen /\ seen[n] = log[n]
  <2>1. n <= auditSeen[r]
    BY <1>1, <1>4 DEF RecordsInv, SentInv
  <2>2. n \in 1 .. Len(log)
    BY <1>4 DEF TypeOK
  <2> QED
    BY <1>2, <1>3, <2>1, <2>2
<1> HIDE DEF seen
<1>6. n \in OfStrategy(seen, s) /\ Rank(seen[n]) = 3
  BY <1>1, <1>4, <1>5 DEF OfStrategy, Rank
<1>7. PICK b \in BestById(seen, s) : /\ IdOf[seen[b].intent] = IdOf[q]
                                     /\ Rank(seen[b]) >= 3
  <2>1. \E b \in BestById(seen, s) : /\ IdOf[seen[b].intent] = IdOf[seen[n].intent]
                                     /\ Rank(seen[b]) >= Rank(seen[n])
    BY <1>3, <1>6, HasBest
  <2> QED
    BY <1>4, <1>5, <1>6, <2>1
<1>8. b \in DOMAIN log /\ seen[b] = log[b] /\ Shaped(log[b])
  BY <1>3, <1>7 DEF BestById, OfStrategy, RecordsInv
<1>9. log[b].stage \in {"reverted", "confirmed", "broadcasted"}
  BY <1>7, <1>8 DEF Rank
<1>10. log[b].intent = q
  BY <1>1, <1>7, <1>8, <1>9 DEF Shaped
<1>11. log[b].stage # "reverted"
  BY <1>1, <1>8, <1>10 DEF HasRecord
<1>12. SuccessfulBroadcast(seen[b])
  BY <1>8, <1>9, <1>11 DEF SuccessfulBroadcast
<1> QED
  BY <1>7, <1>8, <1>10, <1>12 DEF Counted, seen

\* What is not over the cap stays within it with what was spent before.
LEMMA ApprovalWithinCap ==
    ASSUME TypeOK, BooksInv, RecordsInv, NEW r \in Request, auditSeen[r] # Unread,
           ~OverCap(r), KindOf[r] # "unwind", NEW S \in SUBSET Counting(r)
    PROVE  IsFiniteSet(S) /\ Spent(S) + AmountOf[r] <= DayCap
<1> DEFINE seen == Seen(r)
           W == Counted(seen, StrategyOf[r])
           f == Amounts(seen, StrategyOf[r])
           at == [q \in S |-> CHOOSE n \in W : seen[n].intent = q]
<1>1. seen \in Seq(Record)
  <2>1. auditSeen[r] \in Nat /\ auditSeen[r] <= Len(log) /\ Len(log) \in Nat
    BY DEF TypeOK, BooksInv, ReadInv
  <2> QED
    BY <2>1 DEF Seen, TypeOK
<1>2. \A q \in S : \E n \in W : seen[n].intent = q
  BY StandingCounted
<1>3. /\ IsFiniteSet(W) /\ DailyVolume(seen, StrategyOf[r]) = Sum(f, W)
      /\ \A n \in W : f[n] = AmountOf[seen[n].intent] /\ f[n] \in Nat
  <2> HIDE DEF seen
  <2> QED
    BY <1>1, VolumeIsSum
<1> HIDE DEF seen, W, f
<1>4. \A q \in S : at[q] \in W /\ seen[at[q]].intent = q
  BY <1>2
<1>5. \A p, q \in S : at[p] = at[q] => p = q
  BY <1>4
<1>6. at \in [S -> W]
  BY <1>4
<1> HIDE DEF at
<1>7. IsFiniteSet(S)
  <2>1. at \in Injection(S, W)
    BY <1>5, <1>6 DEF Injection, IsInjective
  <2> QED
    BY <1>3, <2>1, FS_Injection
<1>8. \A q \in S : f[at[q]] = AmountOf[q] /\ AmountOf[q] \in Nat
  BY <1>3, <1>4
<1>9. Sum(AmountOf, S) <= Sum(f, W)
  BY <1>3, <1>4, <1>5, <1>7, <1>8, SumWithin
<1>10. /\ Sum(AmountOf, S) \in Nat /\ Sum(f, W) \in Nat
       /\ AmountOf[r] \in Nat /\ DayCap \in Nat
  <2>1. AmountOf[r] \in Nat /\ DayCap \in Nat
    BY IntentAssumption, DaemonAssumption DEF Intent
  <2> QED
    BY <1>3, <1>7, <1>8, <2>1, SumOfRun
<1>11. ~(Sum(f, W) + AmountOf[r] > DayCap)
  BY <1>3 DEF OverCap, seen
<1> QED
  BY <1>7, <1>9, <1>10, <1>11, SpentIsSum

\* What was spent before a request stays, as its prior requests are over.
LEMMA CountingStays ==
    ASSUME TypeOK, BooksInv, LogGoesOn, NEW r \in Request, prior'[r] = prior[r]
    PROVE  Counting(r)' \subseteq Counting(r)
<1> SUFFICES ASSUME NEW q \in Counting(r)' PROVE q \in Counting(r)
  OBVIOUS
<1>1. /\ q \in prior[r] /\ Standing(q)' /\ StrategyOf[q] = StrategyOf[r]
      /\ \A p \in Request : IdOf[p] = IdOf[q] => p = q
  BY DEF Counting
<1>2. q \in Request /\ pc[q] \in Over
  BY <1>1 DEF TypeOK, BooksInv, PriorInv
<1>3. HasRecord(q, "broadcasted")
  <2>1. PICK n \in DOMAIN log' : log'[n].intent = q /\ log'[n].stage = "broadcasted"
    BY <1>1 DEF Standing, HasRecord
  <2>2. n \in DOMAIN log /\ log'[n] = log[n]
    BY <1>2, <2>1 DEF LogGoesOn, Addable, Over, Active
  <2> QED
    BY <2>1, <2>2 DEF HasRecord
<1>4. ~HasRecord(q, "reverted")
  <2>1. SUFFICES ASSUME NEW n \in DOMAIN log, log[n].intent = q, log[n].stage = "reverted"
                 PROVE  HasRecord(q, "reverted")'
    BY <1>1 DEF Standing, HasRecord
  <2>2. n \in DOMAIN log' /\ log'[n] = log[n]
    BY DEF LogGoesOn
  <2> QED
    BY <2>1, <2>2 DEF HasRecord
<1> QED
  BY <1>1, <1>3, <1>4 DEF Counting, Standing

LEMMA NextCap ==
    ASSUME TypeOK, Inv, BooksInv, RecordsInv, CapInv, Next
    PROVE  CapInv'
<1> SUFFICES ASSUME NEW r \in Request, Passed(r)', KindOf[r] # "unwind",
                    NEW S \in SUBSET (Counting(r)')
             PROVE  IsFiniteSet(S) /\ Spent(S) + AmountOf[r] <= DayCap
  BY DEF CapInv
<1>1. RunsGoOn /\ LogGoesOn
  BY NextGoesOn, NextLog
<1>2. S \in SUBSET Counting(r)
  BY <1>1, CountingStays DEF RunsGoOn
<1>3. CASE Passed(r)
  BY <1>2, <1>3 DEF CapInv
<1>4. CASE Approve(r)
  BY <1>2, <1>4, ApprovalWithinCap DEF Approve, ReadsDone
<1> QED
  BY <1>1, <1>3, <1>4 DEF RunsGoOn

\* Of some requests made one after the other, the one whose broadcast was
\* recorded last comes after the others.
LEMMA LastOfSequence ==
    ASSUME TypeOK, RecordsInv, NEW S \in SUBSET {r \in Request : Standing(r)},
           InSequence(S), S # {}
    PROVE  \E r \in S : S \ {r} \subseteq prior[r]
<1> DEFINE Sent == {n \in DOMAIN log : log[n].intent \in S /\ log[n].stage = "broadcasted"}
           Before == {k \in 0 .. Len(log) : Len(log) - k \in Sent}
<1>1. /\ Len(log) \in Nat /\ Sent \subseteq 1 .. Len(log)
      /\ \A q \in S : \E n \in Sent : log[n].intent = q
      /\ \A n \in Sent : log[n].intent \in S
  <2>1. DOMAIN log = 1 .. Len(log) /\ Len(log) \in Nat
    BY DEF TypeOK
  <2>2. \A q \in S : \E n \in Sent : log[n].intent = q
    BY DEF Standing, HasRecord
  <2> QED
    BY <2>1, <2>2
<1> HIDE DEF Sent
<1>2. PICK k \in Before : \A j \in Before : k <= j
  <2>1. PICK n \in Sent : TRUE
    BY <1>1
  <2>2. Len(log) - n \in Before
    BY <1>1, <2>1
  <2> QED
    BY <2>2, LeastNumber, Before \in SUBSET Nat
<1> DEFINE last == Len(log) - k
           r == log[last].intent
<1>3. last \in Sent /\ \A n \in Sent : n <= last
  <2>1. last \in Sent
    BY <1>2
  <2>2. ASSUME NEW n \in Sent PROVE n <= last
    <3>1. Len(log) - n \in Before
      BY <1>1
    <3>2. k <= Len(log) - n
      BY <1>2, <3>1
    <3> QED
      BY <1>1, <1>2, <3>2
  <2> QED
    BY <2>1, <2>2
<1> HIDE DEF last, Before
<1>4. r \in S
  BY <1>1, <1>3
<1>5. ASSUME NEW q \in S, q # r
      PROVE  q \in prior[r]
  <2>1. PICK n \in Sent : log[n].intent = q
    BY <1>1
  <2>2. r \notin prior[q]
    <3>1. SUFFICES ASSUME r \in prior[q] PROVE FALSE
      OBVIOUS
    <3>2. last \in DOMAIN log /\ n \in DOMAIN log /\ q \in Request
      BY <1>3 DEF Sent
    <3>3. last < n
      BY <1>3, <2>1, <3>1, <3>2 DEF RecordsInv, SentInv, Sent
    <3>4. n <= last /\ n \in Nat /\ last \in Nat
      BY <1>1, <1>3
    <3> QED
      BY <3>3, <3>4
  <2> QED
    BY <1>4, <1>5, <2>2 DEF InSequence
<1> QED
  BY <1>4, <1>5

LEMMA CapOfSequences ==
    ASSUME TypeOK, Inv, RecordsInv, CapInv
    PROVE  SequentialSpendingWithinCap
<1> SUFFICES ASSUME NEW S \in SUBSET {r \in Request : Standing(r)}, InSequence(S),
                    \A q, r \in S : StrategyOf[q] = StrategyOf[r],
                    \A r \in S, q \in Request : IdOf[q] = IdOf[r] => q = r
             PROVE  Spent(S) <= DayCap
  BY DEF SequentialSpendingWithinCap
<1>1. CASE S = {}
  <2>1. PICK g : SumRun(g, AmountOf, {})
    BY FS_EmptySet, SumRuns
  <2>2. g[{}] = 0
    BY <2>1 DEF SumRun
  <2>3. g[{}] = Sum(AmountOf, {})
    BY <2>1, FS_EmptySet, SumOfRun
  <2> QED
    BY <1>1, <2>2, <2>3, SpentIsSum, DaemonAssumption
<1>2. CASE S # {}
  <2>1. PICK r \in S : S \ {r} \subseteq prior[r]
    BY <1>2, LastOfSequence
  <2>2. r \in Request /\ Standing(r) /\ KindOf[r] # "unwind"
    BY DEF Standing
  <2>3. Passed(r)
    BY <2>2 DEF Standing, Inv, RunInv, Passed, OnNetwork
  <2>4. S \ {r} \subseteq Counting(r)
    BY <2>1 DEF Counting
  <2>5. IsFiniteSet(S \ {r}) /\ Spent(S \ {r}) + AmountOf[r] <= DayCap
    BY <2>2, <2>3, <2>4 DEF CapInv
  <2>6. IsFiniteSet(S)
    <3>1. IsFiniteSet((S \ {r}) \cup {r})
      BY <2>5, FS_AddElement
    <3>2. (S \ {r}) \cup {r} = S
      OBVIOUS
    <3> QED
      BY <3>1, <3>2
  <2>7. \A q \in S : AmountOf[q] \in Nat
    BY IntentAssumption DEF Intent
  <2>8. /\ Sum(AmountOf, S) = AmountOf[r] + Sum(AmountOf, S \ {r})
        /\ Sum(AmountOf, S) \in Nat /\ Sum(AmountOf, S \ {r}) \in Nat
    BY <2>6, <2>7, SumTakes
  <2>9. Sum(AmountOf, S \ {r}) + AmountOf[r] <= DayCap
    BY <2>5, SpentIsSum
  <2> QED
    BY <2>7, <2>8, <2>9, SpentIsSum
<1> QED
  BY <1>1, <1>2

\* The daily cap: what requests made one after the other broadcast and did not
\* revert stays within it, whatever else overlapped, failed or crashed.
THEOREM SpendingWithinCapAlways == Spec => []SequentialSpendingWithinCap
<1>1. Init => CapInv
  BY DEF Init, CapInv, Passed, Active
<1>2. TypeOK /\ Inv /\ BooksInv /\ RecordsInv /\ CapInv /\ [Next]_vars => CapInv'
  <2> SUFFICES ASSUME TypeOK, Inv, BooksInv, RecordsInv, CapInv, [Next]_vars PROVE CapInv'
    OBVIOUS
  <2>1. CASE UNCHANGED vars
    BY <2>1 DEF vars, files, run, CapInv, Passed, Counting, Standing, HasRecord
  <2>2. CASE Next
    BY <2>2, NextCap
  <2> QED
    BY <2>1, <2>2
<1>3. TypeOK /\ Inv /\ RecordsInv /\ CapInv => SequentialSpendingWithinCap
  BY CapOfSequences
<1> QED
  BY <1>1, <1>2, <1>3, TypeCorrect, InvHolds, BooksHold, RecordsHold, PTL DEF Spec

=============================================================================
