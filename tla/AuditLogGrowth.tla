--------------------------- MODULE AuditLogGrowth ---------------------------
(***************************************************************************)
(* The functions of AuditLog over every log the daemons and the operator   *)
(* can write, up to a length: each is compared with the loop over the log  *)
(* that computes it in the code, and what one more record may change is    *)
(* stated.                                                                 *)
(***************************************************************************)
EXTENDS AuditLog

CONSTANTS
    Chain,          \* the chains whose lanes are looked at
    MaxLength       \* bound: records in the log

VARIABLE log

\* What the handler may append for a request, in any order: several runs of
\* one intent may overlap.
RecordsOf(r, date) ==
    {RecordOf(r, "approved", "signed", FALSE, date),
     RecordOf(r, "rejected", "rejected", FALSE, date),
     RecordOf(r, "approved", "broadcasted", TRUE, date),
     RecordOf(r, "approved", "confirmation_pending", TRUE, date),
     RecordOf(r, "approved", "confirmed", TRUE, date),
     RecordOf(r, "errored", "reverted", TRUE, date),
     RecordOf(r, "approved", "auto_ingest_error", FALSE, date),
     RecordOf(r, "errored", "error", FALSE, date)}

\* What the settlement watcher appends, when a record of r says it is pending.
OutcomesOf(r, date) ==
    {RecordOf(r, "approved", "confirmed", TRUE, date),
     RecordOf(r, "errored", "reverted", TRUE, date)}

Init == log = <<>>

AppendOfRequest ==
    /\ Len(log) < MaxLength
    /\ \E r \in Request : \E rec \in RecordsOf(r, Today(log)) :
           log' = Append(log, rec)

\* The watcher started when the log had n records.
AppendOfWatcher ==
    /\ Len(log) < MaxLength
    /\ \E m \in DOMAIN log, n \in 0 .. Len(log) :
           /\ log[m].stage \in {"broadcasted", "confirmation_pending"}
           /\ \E rec \in OutcomesOf(log[m].intent, StartedAt(n)) : log' = Append(log, rec)

AppendOfReset ==
    /\ Len(log) < MaxLength
    /\ \E i \in Reset :
           /\ \A n \in DOMAIN log : log[n].intent # i
           /\ log' = Append(log, ResetRecord(i, Today(log)))

Next == AppendOfRequest \/ AppendOfWatcher \/ AppendOfReset

Spec == Init /\ [][Next]_log

Strategies == {StrategyOf[r] : r \in Request}
Lanes == Strategies \X Chain

-----------------------------------------------------------------------------
(* The loops.  f[n] is what a loop holds after the first n records.        *)

\* latestClassifiedRecords: the map from intentHash to the record kept for it.
Grouped(s, c) ==
    LET f[n \in 0 .. Len(log)] ==
            IF n = 0 THEN [h \in Hash |-> 0]
            ELSE LET h == HashOf[log[n].intent]
                     kept == f[n - 1][h]
                 IN  IF /\ InLane(log[n], s, c) /\ Classify(log[n]) # "none"
                        /\ kept = 0 \/ log[n].date >= log[kept].date
                     THEN [f[n - 1] EXCEPT ![h] = n]
                     ELSE f[n - 1]
    IN  f[Len(log)]

Kept(s, c) == {Grouped(s, c)[h] : h \in Hash} \ {0}

\* Where the sort puts a kept record, the latest last.
Place(s, c, kept, n) == Cardinality({m \in kept : ~Precedes(log, s, c, m, n)})

\* countConsecutiveBroadcastFailures, from the latest kept record backwards.
CountedBackwards(s, c) ==
    LET kept == Kept(s, c)
        place == [n \in kept |-> Place(s, c, kept, n)]
        g[i \in 0 .. Cardinality(kept)] ==
            IF i = 0 THEN 0
            ELSE LET n == CHOOSE k \in kept : place[k] = i
                 IN  IF Classify(log[n]) \in {"policyRejected", "noTxFailure"} THEN g[i - 1]
                     ELSE IF Classify(log[n]) = "failed" THEN 1 + g[i - 1]
                     ELSE 0
    IN  g[Cardinality(kept)]

\* dedupeRecords: the map from intentId to the best record so far.
Deduped(s) ==
    LET f[n \in 0 .. Len(log)] ==
            IF n = 0 THEN [i \in {IdOf[j] : j \in Intent} |-> 0]
            ELSE LET id == IdOf[log[n].intent]
                     best == f[n - 1][id]
                 IN  IF /\ StrategyOf[log[n].intent] = s
                        /\ \/ best = 0 \/ Rank(log[n]) > Rank(log[best])
                           \/ Rank(log[n]) = Rank(log[best]) /\ log[n].date >= log[best].date
                     THEN [f[n - 1] EXCEPT ![id] = n]
                     ELSE f[n - 1]
    IN  f[Len(log)]

\* replayAuditForCapitalGaps: <<the hashes seen, the strategies flagged>>.
Replayed(closed, activation) ==
    LET f[n \in 0 .. Len(log)] ==
            IF n = 0 THEN <<{}, {}>>
            ELSE LET h == HashOf[log[n].intent]
                 IN  IF \/ ~HasBroadcastEvidence(log[n]) \/ IsApproval(log[n])
                        \/ h \in closed \/ h \in f[n - 1][1]
                     THEN f[n - 1]
                     ELSE <<f[n - 1][1] \cup {h},
                            f[n - 1][2] \cup (IF log[n].date < activation THEN {}
                                              ELSE {StrategyOf[log[n].intent]})>>
    IN  f[Len(log)]

-----------------------------------------------------------------------------

\* The streak of a lane is what latestClassifiedRecords and
\* countConsecutiveBroadcastFailures compute.
StreakIsTheLoop ==
    \A l \in Lanes : Streak(log, l[1], l[2]) = CountedBackwards(l[1], l[2])

\* The records counted by buildStrategyCapState are the ones dedupeRecords keeps.
BestIsTheLoop ==
    \A s \in Strategies :
        BestById(log, s) = {Deduped(s)[i] : i \in DOMAIN Deduped(s)} \ {0}

\* The hashes that a pair may have closed: those of requests.
Closable == {HashOf[r] : r \in Request}

\* The dates of the latest backfill: none yet, or one that began before.
Activations == {0} \cup {StartedAt(n) : n \in 0 .. Len(log)}

\* A strategy has a gap exactly when replayAuditForCapitalGaps flags it,
\* whatever is closed and whenever the latest backfill was.
GapIsTheReplay ==
    \A closed \in SUBSET Closable : \A activation \in Activations :
        {s \in Strategies : CapitalGap(log, closed, activation, s)}
            = Replayed(closed, activation)[2]

LastRecord == log'[Len(log')]

\* A record changes the streak of no lane but its own: a failure elsewhere
\* never pauses a lane, nor does a success elsewhere release it.
LanesAreIndependent ==
    [][\A l \in Lanes :
        Streak(log', l[1], l[2]) # Streak(log, l[1], l[2]) =>
            /\ StrategyOf[LastRecord.intent] = l[1]
            /\ ChainOf[LastRecord.intent] \in {l[2], AllChains}]_log

\* No record of any kind makes a capital gap go away: only a closed pair or a
\* later backfill does.  So a gate that blocked blocks until the books change.
GapsOutliveRecords ==
    [][\A closed \in SUBSET Closable : \A activation \in Activations :
        \A s \in Strategies :
            CapitalGap(log, closed, activation, s) =>
                CapitalGap(log', closed, activation, s)]_log

=============================================================================
