------------------------------ MODULE AuditLog ------------------------------
(***************************************************************************)
(* The signer's audit log, logs/signer-audit.jsonl, and the pure functions *)
(* the policies compute from it: the consecutive-failure streak of a lane  *)
(* (a strategy on a chain), the daily volume of a strategy, and the        *)
(* capital-audit gap of a strategy.                                        *)
(*                                                                         *)
(* A record keeps what those functions read of a JSON line.  Its date is a *)
(* number that orders the records as their timestamps do: a record is      *)
(* dated when it is appended, but for the outcomes that the settlement     *)
(* watcher records, which have the date at which it started.  The whole    *)
(* log is of one UTC day.  Each function is a loop over the log in the     *)
(* code; here it is said with sets of positions, and AuditLogGrowth checks *)
(* it against the loop.                                                    *)
(***************************************************************************)
EXTENDS Integers, Sequences, FiniteSets, FiniteSetsExt

CONSTANTS
    Request,        \* submissions of an intent to the signer daemon
    Reset,          \* operator resets of a failure streak
    HashOf,         \* intentHash: the digest of the whole normalized intent
    IdOf,           \* intentId: shared by the retries of one sub-step
    StrategyOf,
    ChainOf,
    KindOf,
    AmountOf,       \* in USD
    AllChains       \* the ChainOf of a reset that names no chain

Intent == Request \cup Reset

\* What the policies distinguish: an ordinary intent, one that leaves a
\* position, an exact token approval, and an approval of zero.
Kind == {"trade", "unwind", "approve", "revoke"}

ASSUME IntentAssumption ==
    /\ Request \cap Reset = {}
    /\ KindOf \in [Request -> Kind]
    /\ AmountOf \in [Intent -> Nat]

\* The digest covers the intent, so that intents of one hash are the same.
ASSUME DigestAssumption ==
    \A i, j \in Intent : HashOf[i] = HashOf[j] =>
        /\ IdOf[i] = IdOf[j] /\ StrategyOf[i] = StrategyOf[j]
        /\ ChainOf[i] = ChainOf[j] /\ AmountOf[i] = AmountOf[j]

Hash == {HashOf[i] : i \in Intent}

Verdict == {"approved", "rejected", "errored"}

Stage == {"signed", "rejected", "broadcasted", "confirmation_pending",
          "confirmed", "reverted", "auto_ingest_error", "error", "reset"}

Record == [intent : Intent, verdict : Verdict, stage : Stage, broadcast : BOOLEAN,
           date : Nat]

RecordOf(i, verdict, stage, broadcast, date) ==
    [intent |-> i, verdict |-> verdict, stage |-> stage, broadcast |-> broadcast,
     date |-> date]

\* An operator's reset is a record of its own, of stage "reset".
ResetRecord(i, date) == RecordOf(i, "approved", "reset", FALSE, date)

\* The date of the record that is appended next, and that of a process which
\* starts when the log has n records: after the first n, before the others.
Today(log) == 2 * (Len(log) + 1)
StartedAt(n) == 2 * n + 1

\* Record m is dated no later than record n; of two dated alike, the one that is
\* read last replaces the other.
NoLater(log, m, n) ==
    \/ log[m].date < log[n].date
    \/ log[m].date = log[n].date /\ m <= n

IsReset(rec) == rec.stage = "reset"

IsApproval(rec) == ~IsReset(rec) /\ KindOf[rec.intent] \in {"approve", "revoke"}

HasBroadcastEvidence(rec) ==
    rec.broadcast \/ rec.stage \in {"broadcasted", "confirmed", "reverted"}

-----------------------------------------------------------------------------
(* The consecutive-failure streak.                                         *)

\* What a record says of its intent.  Approvals that went well say nothing.
Classify(rec) ==
    IF IsReset(rec) THEN "reset"
    ELSE IF IsApproval(rec) /\ rec.verdict = "approved" /\ HasBroadcastEvidence(rec)
         THEN "none"
    ELSE IF rec.stage \in {"broadcasted", "confirmed"} THEN "succeeded"
    ELSE IF HasBroadcastEvidence(rec)
         THEN IF rec.verdict = "approved" THEN "succeeded" ELSE "failed"
    ELSE CASE rec.verdict = "rejected" -> "policyRejected"
           [] rec.verdict = "errored"  -> "noTxFailure"
           [] rec.verdict = "approved" -> "none"

\* A bug: the chain of the record is not looked at.
InLaneOfStrategy(rec, s, c) == StrategyOf[rec.intent] = s

\* Whether a record belongs to the lane of strategy s on chain c.
InLane(rec, s, c) ==
    /\ StrategyOf[rec.intent] = s
    /\ \/ ChainOf[rec.intent] = c
       \/ IsReset(rec) /\ ChainOf[rec.intent] = AllChains

Classified(log, s, c) ==
    {n \in DOMAIN log : InLane(log[n], s, c) /\ Classify(log[n]) # "none"}

\* A bug: the first classified record of an intentHash is kept.
EarliestOfHash(log, s, c) ==
    {n \in Classified(log, s, c) :
        \A m \in Classified(log, s, c) :
            HashOf[log[m].intent] = HashOf[log[n].intent] => m >= n}

\* The latest classified record of each intentHash: it alone stands for it.
Latest(log, s, c) ==
    {n \in Classified(log, s, c) :
        \A m \in Classified(log, s, c) :
            HashOf[log[m].intent] = HashOf[log[n].intent] => NoLater(log, m, n)}

\* The order of the records kept, the latest first.  The sort is stable, so that
\* records dated alike stay in the order in which their hashes came up.
Precedes(log, s, c, m, n) ==
    \/ log[m].date > log[n].date
    \/ /\ log[m].date = log[n].date
       /\ \E i \in Classified(log, s, c) :
              /\ HashOf[log[i].intent] = HashOf[log[m].intent]
              /\ \A j \in Classified(log, s, c) :
                     HashOf[log[j].intent] = HashOf[log[n].intent] => i < j

\* A bug: a policy rejection, or an error before any broadcast, ends the streak.
StreakUntilAnyOther(log, s, c) ==
    Cardinality({n \in Latest(log, s, c) :
        \A m \in Latest(log, s, c) :
            ~Precedes(log, s, c, n, m) => Classify(log[m]) = "failed"})

\* The failed intents since the last success or reset of the lane.
Streak(log, s, c) ==
    LET latest == Latest(log, s, c)
    IN  Cardinality({n \in latest :
            /\ Classify(log[n]) = "failed"
            /\ \A m \in latest :
                   Precedes(log, s, c, m, n) => Classify(log[m]) \notin {"succeeded", "reset"}})

-----------------------------------------------------------------------------
(* The daily volume of a strategy.                                         *)

Rank(rec) ==
    CASE rec.stage = "reverted"    -> 5
      [] rec.stage = "confirmed"   -> 4
      [] rec.stage = "broadcasted" -> 3
      [] rec.stage = "signed"      -> 2
      [] OTHER                     -> IF rec.verdict = "approved" THEN 1 ELSE 0

OfStrategy(log, s) == {n \in DOMAIN log : StrategyOf[log[n].intent] = s}

\* A bug: the latest record of an intentId stands for it, whatever its stage.
LastById(log, s) ==
    {n \in OfStrategy(log, s) :
        \A m \in OfStrategy(log, s) :
            IdOf[log[m].intent] = IdOf[log[n].intent] => NoLater(log, m, n)}

\* The furthest record of each intentId, the later of two as far.
BestById(log, s) ==
    {n \in OfStrategy(log, s) :
        \A m \in OfStrategy(log, s) :
            IdOf[log[m].intent] = IdOf[log[n].intent] =>
                \/ Rank(log[m]) < Rank(log[n])
                \/ Rank(log[m]) = Rank(log[n]) /\ NoLater(log, m, n)}

SuccessfulBroadcast(rec) ==
    /\ rec.stage = "signed" => rec.broadcast
    /\ rec.verdict = "approved" \/ rec.stage \in {"broadcasted", "confirmed"}

DailyVolume(log, s) ==
    MapThenSumSet(LAMBDA n : AmountOf[log[n].intent],
                  {n \in BestById(log, s) : SuccessfulBroadcast(log[n])})

-----------------------------------------------------------------------------
(* The capital-audit gap of a strategy.                                    *)

\* The records of broadcasts that must be reconciled; an approval moves none.
Evidence(log, s) ==
    {n \in DOMAIN log :
        /\ StrategyOf[log[n].intent] = s
        /\ HasBroadcastEvidence(log[n])
        /\ ~IsApproval(log[n])}

\* The first record of its hash that must be reconciled.
FirstOfHash(log, n) ==
    \A m \in DOMAIN log :
        /\ HashOf[log[m].intent] = HashOf[log[n].intent]
        /\ HasBroadcastEvidence(log[m]) /\ ~IsApproval(log[m])
        => n <= m

\* A bug: a backfill forgives a broadcast when its last record is older.
GapUnlessSettledBefore(log, closed, activation, s) ==
    \E n \in Evidence(log, s) :
        /\ HashOf[log[n].intent] \notin closed
        /\ log[n].date >= activation

\* A bug: only the last record of a hash is asked for its broadcast.
GapOfLastRecord(log, closed, activation, s) ==
    \E n \in Evidence(log, s) :
        /\ HashOf[log[n].intent] \notin closed
        /\ log[n].date >= activation
        /\ \A m \in DOMAIN log :
               HashOf[log[m].intent] = HashOf[log[n].intent] => m <= n

\* Whether strategy s has a broadcast that no pair in closed reconciles and
\* whose first record is not older than the latest backfill, of date activation.
CapitalGap(log, closed, activation, s) ==
    \E n \in Evidence(log, s) :
        /\ HashOf[log[n].intent] \notin closed
        /\ FirstOfHash(log, n)
        /\ log[n].date >= activation

=============================================================================
