--------------------------- MODULE AuditLogProofs ---------------------------
(***************************************************************************)
(* Proofs about the functions of the audit log, for any requests, resets   *)
(* and intents, and for logs of any length.                                *)
(***************************************************************************)
EXTENDS AuditLogGrowth, FiniteSetTheorems, WellFoundedInduction, TLAPS

\* A record is of a request, or an operator's reset.
Written(rec) ==
    \/ rec.intent \in Request /\ rec.stage # "reset"
    \/ rec.intent \in Reset /\ rec.stage = "reset" /\ ~rec.broadcast

LogInv ==
    /\ log \in Seq(Record)
    /\ \A n \in DOMAIN log : Written(log[n])

LEMMA RecordTypes ==
    ASSUME NEW date \in Nat
    PROVE  /\ \A r \in Request : \A rec \in RecordsOf(r, date) \cup OutcomesOf(r, date) :
                  rec \in Record /\ Written(rec)
           /\ \A i \in Reset : ResetRecord(i, date) \in Record /\ Written(ResetRecord(i, date))
<1>1. ASSUME NEW r \in Request, NEW rec \in RecordsOf(r, date) \cup OutcomesOf(r, date)
      PROVE  rec \in Record /\ Written(rec)
  <2>1. ASSUME NEW v \in Verdict, NEW st \in Stage \ {"reset"}, NEW b \in BOOLEAN
        PROVE  RecordOf(r, v, st, b, date) \in Record /\ Written(RecordOf(r, v, st, b, date))
    BY DEF RecordOf, Record, Intent, Written
  <2>2. \E v \in Verdict, st \in Stage \ {"reset"}, b \in BOOLEAN :
            rec = RecordOf(r, v, st, b, date)
    BY DEF RecordsOf, OutcomesOf, Verdict, Stage
  <2> QED
    BY <2>1, <2>2
<1>2. ASSUME NEW i \in Reset
      PROVE  ResetRecord(i, date) \in Record /\ Written(ResetRecord(i, date))
  BY DEF ResetRecord, RecordOf, Record, Intent, Written, Verdict, Stage
<1> QED
  BY <1>1, <1>2

\* A step appends one record.
LEMMA NextAppends ==
    ASSUME LogInv, Next
    PROVE  \E rec \in Record : Written(rec) /\ log' = Append(log, rec)
<1>1. Len(log) \in Nat /\ Today(log) \in Nat /\ \A n \in 0 .. Len(log) : StartedAt(n) \in Nat
  BY DEF LogInv, Today, StartedAt
<1>2. CASE AppendOfRequest
  BY <1>1, <1>2, RecordTypes DEF AppendOfRequest
<1>3. CASE AppendOfWatcher
  <2>1. PICK m \in DOMAIN log, n \in 0 .. Len(log) :
            /\ log[m].stage \in {"broadcasted", "confirmation_pending"}
            /\ \E rec \in OutcomesOf(log[m].intent, StartedAt(n)) : log' = Append(log, rec)
    BY <1>3 DEF AppendOfWatcher
  <2>2. log[m].intent \in Request
    BY <2>1 DEF LogInv, Written
  <2> QED
    BY <1>1, <2>1, <2>2, RecordTypes
<1>4. CASE AppendOfReset
  BY <1>1, <1>4, RecordTypes DEF AppendOfReset
<1> QED
  BY <1>2, <1>3, <1>4 DEF Next

LEMMA AppendFacts ==
    ASSUME LogInv, NEW rec \in Record, log' = Append(log, rec)
    PROVE  /\ log' \in Seq(Record) /\ Len(log) \in Nat /\ Len(log') = Len(log) + 1
           /\ DOMAIN log = 1 .. Len(log) /\ DOMAIN log' = DOMAIN log \cup {Len(log')}
           /\ \A n \in DOMAIN log : n # Len(log') /\ n < Len(log') /\ log'[n] = log[n]
           /\ log'[Len(log')] = rec
BY DEF LogInv

LEMMA LogHolds == Spec => []LogInv
<1>1. Init => LogInv
  BY DEF Init, LogInv
<1>2. LogInv /\ [Next]_log => LogInv'
  <2> SUFFICES ASSUME LogInv, [Next]_log PROVE LogInv'
    OBVIOUS
  <2>1. CASE UNCHANGED log
    BY <2>1 DEF LogInv
  <2>2. CASE Next
    <3>1. PICK rec \in Record : Written(rec) /\ log' = Append(log, rec)
      BY <2>2, NextAppends
    <3> QED
      BY <3>1, AppendFacts DEF LogInv
  <2> QED
    BY <2>1, <2>2
<1> QED
  BY <1>1, <1>2, PTL DEF Spec

-----------------------------------------------------------------------------
(* The loops over the log.  The library's induction theorems take the        *)
(* property they prove as an operator, which no prover here instantiates;  *)
(* a least number of a nonempty set, which a well-founded order gives, is  *)
(* induction too.                                                          *)

\* A nonempty set of numbers has a least one.
LEMMA LeastNumber ==
    ASSUME NEW T \in SUBSET Nat, T # {}
    PROVE  \E n \in T : \A m \in T : n <= m
<1>1. \E n \in T : \A m \in T : ~(<<m, n>> \in OpToRel(<, Nat))
  BY NatLessThanWellFounded, WFMin
<1>2. PICK n \in T : \A m \in T : ~(<<m, n>> \in OpToRel(<, Nat))
  BY <1>1
<1>3. \A m \in T : ~(m < n)
  BY <1>2 DEF OpToRel
<1> QED
  BY <1>3

\* What holds of 0 and passes from each number to the next holds up to N: the
\* set T is of the numbers of which it holds.
LEMMA HoldsUpTo ==
    ASSUME NEW N \in Nat, NEW T, 0 \in T, \A n \in 1 .. N : n - 1 \in T => n \in T
    PROVE  \A n \in 0 .. N : n \in T
<1> DEFINE Missing == {n \in 0 .. N : n \notin T}
<1>1. SUFFICES ASSUME Missing # {} PROVE FALSE
  OBVIOUS
<1>2. PICK n \in Missing : \A m \in Missing : n <= m
  BY <1>1, LeastNumber, Missing \in SUBSET Nat
<1>3. n \in 1 .. N /\ n - 1 \in 0 .. N /\ n - 1 \notin Missing
  BY <1>2
<1> QED
  BY <1>2, <1>3

\* A run of a loop of N rounds: step[<<n, v>>] is what round n makes of v.
IsRun(f, N, V, base, step) ==
    /\ f \in [0 .. N -> V] /\ f[0] = base
    /\ \A n \in 1 .. N : f[n] = step[<<n, f[n - 1]>>]

LEMMA LoopRuns ==
    ASSUME NEW N \in Nat, NEW V, NEW base \in V, NEW step \in [(1 .. N) \X V -> V]
    PROVE  \E f : IsRun(f, N, V, base, step)
<1> DEFINE Runs(k, f) == f[0] = base /\ \A n \in 1 .. k : f[n] = step[<<n, f[n - 1]>>]
           T == {k \in 0 .. N : \E f \in [0 .. N -> V] : Runs(k, f)}
<1>1. 0 \in T
  <2>1. [n \in 0 .. N |-> base] \in [0 .. N -> V] /\ [n \in 0 .. N |-> base][0] = base
    OBVIOUS
  <2>2. PICK f \in [0 .. N -> V] : f[0] = base
    BY <2>1
  <2>3. Runs(0, f)
    BY <2>2
  <2> QED
    BY <2>3
<1>2. ASSUME NEW k \in 1 .. N, k - 1 \in T
      PROVE  k \in T
  <2>1. PICK f \in [0 .. N -> V] : Runs(k - 1, f)
    BY <1>2
  <2>2. step[<<k, f[k - 1]>>] \in V
    OBVIOUS
  <2> DEFINE g == [f EXCEPT ![k] = step[<<k, f[k - 1]>>]]
  <2>3. g \in [0 .. N -> V] /\ g[k] = step[<<k, f[k - 1]>>] /\ \A n \in 0 .. k - 1 : g[n] = f[n]
    BY <2>2
  <2> HIDE DEF g
  <2>4. Runs(k, g)
    <3>1. g[0] = base
      BY <2>1, <2>3
    <3>2. ASSUME NEW n \in 1 .. k PROVE g[n] = step[<<n, g[n - 1]>>]
      <4>1. g[n - 1] = f[n - 1]
        BY <2>3
      <4>2. CASE n = k
        BY <2>3, <4>1, <4>2
      <4>3. CASE n \in 1 .. k - 1
        BY <2>1, <2>3, <4>1, <4>3
      <4> QED
        BY <4>2, <4>3
    <3> QED
      BY <3>1, <3>2
  <2> QED
    BY <2>3, <2>4
<1>3. N \in T
  <2> HIDE DEF T
  <2> QED
    BY <1>1, <1>2, HoldsUpTo
<1> QED
  BY <1>3 DEF IsRun

LinearOn(S, Le) ==
    /\ \A m, n \in S : <<m, n>> \in Le \/ <<n, m>> \in Le
    /\ \A m, n \in S : <<m, n>> \in Le /\ <<n, m>> \in Le => m = n
    /\ \A k, m, n \in S : <<k, m>> \in Le /\ <<m, n>> \in Le => <<k, n>> \in Le

\* The numbers of C that are the highest, in the order Le, of their keys.
Highest(C, key, Le) == {n \in C : \A m \in C : key[m] = key[n] => <<m, n>> \in Le}

\* A loop that keeps one number of each key, and replaces it by the next one of
\* the key that is not below it.
Keeping(f, N, C, Keys, key, Le) ==
    /\ f[0] = [k \in Keys |-> 0]
    /\ \A n \in 1 .. N :
           f[n] = IF n \in C /\ (f[n - 1][key[n]] = 0 \/ <<f[n - 1][key[n]], n>> \in Le)
                  THEN [f[n - 1] EXCEPT ![key[n]] = n] ELSE f[n - 1]

\* Such a loop holds the highest numbers at the end.
LEMMA KeepsHighest ==
    ASSUME NEW N \in Nat, NEW C \in SUBSET (1 .. N), NEW Keys, NEW key \in [1 .. N -> Keys],
           NEW Le, LinearOn(C, Le), NEW f, Keeping(f, N, C, Keys, key, Le)
    PROVE  /\ f[N] \in [Keys -> 0 .. N]
           /\ {f[N][k] : k \in Keys} \ {0} = Highest(C, key, Le)
<1> USE DEF LinearOn, Keeping
<1> DEFINE Held(n) ==
        /\ f[n] \in [Keys -> 0 .. n]
        /\ \A k \in Keys : f[n][k] # 0 => f[n][k] \in C /\ key[f[n][k]] = k
        /\ \A m \in C : m <= n => f[n][key[m]] # 0 /\ <<m, f[n][key[m]]>> \in Le
<1>1. Held(0)
  <2>1. \A m \in C : ~(m <= 0)
    OBVIOUS
  <2>2. \A k \in Keys : f[0][k] = 0
    OBVIOUS
  <2>3. f[0] \in [Keys -> 0 .. 0]
    OBVIOUS
  <2> QED
    BY <2>1, <2>2, <2>3
<1>2. ASSUME NEW n \in 1 .. N, Held(n - 1) PROVE Held(n)
  <2>1. n - 1 \in Nat /\ n \in Nat /\ n # 0 /\ \A k \in 0 .. n - 1 : k \in 0 .. n
    OBVIOUS
  <2>2. f[n - 1] \in [Keys -> 0 .. n] /\ key[n] \in Keys
    BY <1>2, <2>1
  <2>3. \A m \in C : m <= n => m <= n - 1 \/ m = n
    OBVIOUS
  <2> DEFINE old == f[n - 1][key[n]]
  <2>4. CASE n \notin C
    <3>1. f[n] = f[n - 1]
      BY <2>4
    <3>2. \A m \in C : m <= n => m <= n - 1
      BY <2>3, <2>4
    <3> QED
      BY <1>2, <2>2, <3>1, <3>2
  <2>5. CASE n \in C /\ old # 0 /\ <<old, n>> \notin Le
    <3>1. f[n] = f[n - 1]
      BY <2>5
    <3>2. old \in C /\ <<n, old>> \in Le
      BY <1>2, <2>2, <2>5
    <3>3. \A m \in C : m <= n => f[n][key[m]] # 0 /\ <<m, f[n][key[m]]>> \in Le
      BY <1>2, <2>3, <2>5, <3>1, <3>2
    <3> QED
      BY <1>2, <2>2, <3>1, <3>3
  <2>6. CASE n \in C /\ (old = 0 \/ <<old, n>> \in Le)
    <3>1. f[n] = [f[n - 1] EXCEPT ![key[n]] = n]
      BY <2>6
    <3>2. f[n][key[n]] = n /\ \A k \in Keys : k # key[n] => f[n][k] = f[n - 1][k]
      BY <2>2, <3>1
    <3>3. f[n] \in [Keys -> 0 .. n]
      BY <2>1, <2>2, <3>1
    <3>4. ASSUME NEW m \in C, m <= n PROVE f[n][key[m]] # 0 /\ <<m, f[n][key[m]]>> \in Le
      <4>1. key[m] \in Keys
        OBVIOUS
      <4>2. CASE m = n
        BY <2>1, <2>6, <3>2, <4>2
      <4>3. CASE m # n /\ key[m] # key[n]
        BY <1>2, <2>3, <3>2, <3>4, <4>1, <4>3
      <4>4. CASE m # n /\ key[m] = key[n]
        <5>1. old # 0 /\ <<m, old>> \in Le
          BY <1>2, <2>3, <3>4, <4>4
        <5>2. <<old, n>> \in Le /\ old \in C
          BY <1>2, <2>2, <2>6, <5>1
        <5>3. <<m, n>> \in Le
          BY <2>6, <5>1, <5>2
        <5> QED
          BY <2>1, <3>2, <4>4, <5>3
      <4> QED
        BY <4>2, <4>3, <4>4
    <3>5. \A k \in Keys : f[n][k] # 0 => f[n][k] \in C /\ key[f[n][k]] = k
      BY <1>2, <2>6, <3>2
    <3> QED
      BY <3>3, <3>4, <3>5
  <2> QED
    BY <2>4, <2>5, <2>6
<1>3. Held(N)
  <2> DEFINE T == {n \in 0 .. N : Held(n)}
  <2>1. 0 \in T
    BY <1>1
  <2>2. ASSUME NEW n \in 1 .. N, n - 1 \in T PROVE n \in T
    <3> HIDE DEF Held
    <3> QED
      BY <1>2, <2>2
  <2>3. N \in 0 .. N
    OBVIOUS
  <2> HIDE DEF T
  <2>4. N \in T
    BY <2>1, <2>2, <2>3, HoldsUpTo
  <2> QED
    BY <2>4 DEF T
<1>4. \A m \in C : m <= N
  OBVIOUS
<1>5. ASSUME NEW k \in Keys, f[N][k] # 0
      PROVE  f[N][k] \in C /\ \A m \in C : key[m] = key[f[N][k]] => <<m, f[N][k]>> \in Le
  BY <1>3, <1>4, <1>5
<1>6. ASSUME NEW n \in C, \A m \in C : key[m] = key[n] => <<m, n>> \in Le
      PROVE  \E k \in Keys : n = f[N][k] /\ n # 0
  <2>1. key[n] \in Keys /\ f[N][key[n]] # 0 /\ <<n, f[N][key[n]]>> \in Le
    BY <1>3, <1>4
  <2>2. f[N][key[n]] \in C /\ key[f[N][key[n]]] = key[n]
    BY <1>3, <2>1
  <2>3. n = f[N][key[n]]
    BY <1>6, <2>1, <2>2
  <2> QED
    BY <2>1, <2>3
<1>7. f[N] \in [Keys -> 0 .. N]
  BY <1>3
<1> HIDE DEF Held, LinearOn, Keeping
<1>8. \A n \in {f[N][k] : k \in Keys} \ {0} : n \in Highest(C, key, Le)
  BY <1>5 DEF Highest
<1>9. \A n \in Highest(C, key, Le) : n \in {f[N][k] : k \in Keys} \ {0}
  BY <1>6 DEF Highest
<1> QED
  BY <1>7, <1>8, <1>9

-----------------------------------------------------------------------------
(* The consecutive-failure streak.                                         *)

\* The run of the loop of latestClassifiedRecords.
GroupedRun(f, s, c) ==
    f = [n \in 0 .. Len(log) |->
            IF n = 0 THEN [h \in Hash |-> 0]
            ELSE IF /\ InLane(log[n], s, c) /\ Classify(log[n]) # "none"
                    /\ \/ f[n - 1][HashOf[log[n].intent]] = 0
                       \/ log[n].date >= log[f[n - 1][HashOf[log[n].intent]]].date
                 THEN [f[n - 1] EXCEPT ![HashOf[log[n].intent]] = n]
                 ELSE f[n - 1]]

LEMMA GroupedRuns ==
    ASSUME Len(log) \in Nat, NEW s, NEW c
    PROVE  \E f : GroupedRun(f, s, c) /\ Grouped(s, c) = f[Len(log)]
<1> DEFINE N == Len(log)
           V == [Hash -> 0 .. N]
           base == [h \in Hash |-> 0]
           round(n, v) == IF /\ InLane(log[n], s, c) /\ Classify(log[n]) # "none"
                             /\ \/ v[HashOf[log[n].intent]] = 0
                                \/ log[n].date >= log[v[HashOf[log[n].intent]]].date
                          THEN [v EXCEPT ![HashOf[log[n].intent]] = n]
                          ELSE v
           step == [p \in (1 .. N) \X V |-> round(p[1], p[2])]
<1>1. base \in V /\ N \in Nat
  OBVIOUS
<1>2. ASSUME NEW n \in 1 .. N, NEW v \in V
      PROVE  round(n, v) \in V
  <2>1. ASSUME NEW h PROVE [v EXCEPT ![h] = n] \in V
    <3>1. n \in 0 .. N
      OBVIOUS
    <3> QED
      BY <3>1
  <2> QED
    BY <2>1
<1> HIDE DEF round, V, base, N
<1>3. step \in [(1 .. N) \X V -> V]
  BY <1>2
<1>4. \A n \in 1 .. N : \A v \in V : step[<<n, v>>] = round(n, v)
  OBVIOUS
<1> HIDE DEF step
<1>5. PICK f : IsRun(f, N, V, base, step)
  BY <1>1, <1>3, LoopRuns, Zenon
<1>6. f = [n \in 0 .. N |-> IF n = 0 THEN base ELSE round(n, f[n - 1])]
  <2>1. \A n \in 1 .. N : n - 1 \in 0 .. N /\ n \in 0 .. N /\ n # 0
    BY <1>1
  <2>2. \A n \in 1 .. N : f[n] = round(n, f[n - 1])
    BY <1>4, <1>5, <2>1 DEF IsRun
  <2> QED
    BY <1>1, <1>5, <2>2 DEF IsRun
<1>7. GroupedRun(f, s, c)
  BY <1>6 DEF GroupedRun, round, base, N
<1>8. \E g : Grouped(s, c) = g[Len(log)] /\ g = CHOOSE h : GroupedRun(h, s, c)
  BY DEF Grouped, GroupedRun
<1> QED
  BY <1>7, <1>8

\* The dates of a log and the positions put its records in a linear order.
LEMMA DatesOrder ==
    ASSUME LogInv
    PROVE  /\ \A n \in DOMAIN log : log[n].date \in Nat /\ HashOf[log[n].intent] \in Hash
           /\ \A m, n \in DOMAIN log : NoLater(log, m, n) \/ NoLater(log, n, m)
           /\ \A m, n \in DOMAIN log : NoLater(log, m, n) /\ NoLater(log, n, m) => m = n
           /\ \A k, m, n \in DOMAIN log :
                  NoLater(log, k, m) /\ NoLater(log, m, n) => NoLater(log, k, n)
<1>1. DOMAIN log \subseteq Nat /\ \A n \in DOMAIN log : log[n] \in Record
  BY DEF LogInv
<1>2. \A n \in DOMAIN log : log[n].date \in Nat /\ HashOf[log[n].intent] \in Hash
  BY <1>1 DEF Record, Hash
<1> QED
  BY <1>1, <1>2 DEF NoLater

\* The map of latestClassifiedRecords holds the latest record of each intentHash.
LEMMA KeptIsLatest ==
    ASSUME LogInv, NEW s, NEW c
    PROVE  Kept(s, c) = Latest(log, s, c)
<1> DEFINE N == Len(log)
           C == Classified(log, s, c)
           key == [n \in 1 .. N |-> HashOf[log[n].intent]]
           Le == {p \in (1 .. N) \X (1 .. N) : NoLater(log, p[1], p[2])}
<1>1. N \in Nat /\ DOMAIN log = 1 .. N
  BY DEF LogInv
<1>2. C \in SUBSET (1 .. N) /\ key \in [1 .. N -> Hash]
  BY <1>1, DatesOrder DEF Classified
<1>3. \A m, n \in 1 .. N : <<m, n>> \in Le <=> NoLater(log, m, n)
  OBVIOUS
<1>4. LinearOn(C, Le)
  <2> HIDE DEF Le, C
  <2> QED
    BY <1>1, <1>2, <1>3, DatesOrder DEF LinearOn
<1>5. PICK f : GroupedRun(f, s, c) /\ Grouped(s, c) = f[N]
  BY <1>1, GroupedRuns
<1>6. f[0] = [h \in Hash |-> 0]
  BY <1>1, <1>5 DEF GroupedRun
<1>7. \A n \in 1 .. N : n \in C <=> InLane(log[n], s, c) /\ Classify(log[n]) # "none"
  BY <1>1 DEF Classified
<1> DEFINE Replaces(n, k) == k = 0 \/ log[n].date >= log[k].date
<1>8. ASSUME NEW n \in 1 .. N
      PROVE  f[n] = IF n \in C /\ Replaces(n, f[n - 1][key[n]])
                    THEN [f[n - 1] EXCEPT ![key[n]] = n] ELSE f[n - 1]
  <2>1. n \in 0 .. N /\ n # 0
    BY <1>1
  <2> HIDE DEF C
  <2> QED
    BY <1>5, <1>7, <2>1 DEF GroupedRun
<1> HIDE DEF N, C, key, Le
<1> DEFINE Ranges(n) == \A h \in Hash : f[n][h] \in 0 .. n
<1>9. \A n \in 0 .. N : f[n] \in [Hash -> 0 .. n]
  <2> DEFINE T == {n \in 0 .. N : f[n] \in [Hash -> 0 .. n]}
  <2>1. 0 \in T
    BY <1>1, <1>6
  <2>2. ASSUME NEW n \in 1 .. N, n - 1 \in T PROVE n \in T
    <3>1. f[n - 1] \in [Hash -> 0 .. n] /\ n \in 0 .. N /\ n \in 0 .. n
      BY <1>1, <2>2
    <3>2. [f[n - 1] EXCEPT ![key[n]] = n] \in [Hash -> 0 .. n]
      BY <3>1
    <3> QED
      BY <1>8, <3>1, <3>2
  <2> HIDE DEF T
  <2>3. \A n \in 0 .. N : n \in T
    BY <1>1, <2>1, <2>2, HoldsUpTo
  <2> QED
    BY <2>3 DEF T
<1>10. ASSUME NEW n \in 1 .. N
       PROVE  Replaces(n, f[n - 1][key[n]])
                  <=> f[n - 1][key[n]] = 0 \/ <<f[n - 1][key[n]], n>> \in Le
  <2> DEFINE k == f[n - 1][key[n]]
  <2>1. n - 1 \in 0 .. N /\ key[n] \in Hash
    BY <1>1, <1>2
  <2>2. k \in 0 .. n - 1
    BY <1>9, <2>1
  <2>3. k # 0 => k \in 1 .. N /\ k < n
    BY <1>1, <2>2
  <2>4. k # 0 => (NoLater(log, k, n) <=> log[n].date >= log[k].date)
    BY <1>1, <2>3, DatesOrder DEF NoLater
  <2> HIDE DEF k
  <2>5. k # 0 => (<<k, n>> \in Le <=> NoLater(log, k, n))
    BY <1>3, <2>3
  <2>6. Replaces(n, k) <=> k = 0 \/ <<k, n>> \in Le
    BY <2>4, <2>5
  <2> QED
    BY <2>6 DEF k
<1> HIDE DEF Replaces
<1>11. Keeping(f, N, C, Hash, key, Le)
  BY <1>6, <1>8, <1>10 DEF Keeping
<1>12. {f[N][h] : h \in Hash} \ {0} = Highest(C, key, Le)
  BY <1>1, <1>2, <1>4, <1>11, KeepsHighest
<1>13. Latest(log, s, c) = Highest(C, key, Le)
  <2>1. \A m, n \in C : /\ key[m] = key[n] <=> HashOf[log[m].intent] = HashOf[log[n].intent]
                        /\ <<m, n>> \in Le <=> NoLater(log, m, n)
    BY <1>2, <1>3 DEF key
  <2> QED
    BY <2>1 DEF Latest, C, Highest
<1> QED
  BY <1>5, <1>12, <1>13 DEF Kept

LEMMA ClassesOfRecords ==
    ASSUME NEW rec \in Record
    PROVE  Classify(rec) \in {"none", "succeeded", "failed", "policyRejected",
                              "noTxFailure", "reset"}
BY DEF Classify, Record, Verdict

\* The places of a finite set in a linear order: how many are at or below it.
LEMMA Places ==
    ASSUME NEW S, IsFiniteSet(S), NEW Le, LinearOn(S, Le),
           NEW place \in [S -> Nat],
           \A n \in S : place[n] = Cardinality({m \in S : <<m, n>> \in Le})
    PROVE  /\ Cardinality(S) \in Nat
           /\ \A n \in S : place[n] \in 1 .. Cardinality(S)
           /\ \A m, n \in S : place[m] <= place[n] <=> <<m, n>> \in Le
           /\ \A i \in 1 .. Cardinality(S) : \E n \in S : place[n] = i
<1> USE DEF LinearOn
<1> DEFINE K == Cardinality(S)
           Down(n) == {m \in S : <<m, n>> \in Le}
<1>1. K \in Nat
  BY FS_CardinalityType
<1>2. ASSUME NEW n \in S
      PROVE  IsFiniteSet(Down(n)) /\ Cardinality(Down(n)) \in Nat /\ Cardinality(Down(n)) <= K
  <2>1. Down(n) \in SUBSET S
    OBVIOUS
  <2> QED
    BY <2>1, FS_Subset, FS_CardinalityType
<1>3. ASSUME NEW n \in S PROVE place[n] \in 1 .. K
  <2>1. n \in Down(n)
    OBVIOUS
  <2> HIDE DEF Down, K
  <2>2. Cardinality(Down(n)) # 0
    BY <1>2, <2>1, FS_EmptySet
  <2>3. place[n] = Cardinality(Down(n))
    BY DEF Down
  <2> QED
    BY <1>1, <1>2, <2>2, <2>3
<1>4. ASSUME NEW m \in S, NEW n \in S, <<m, n>> \in Le, m # n PROVE place[m] < place[n]
  <2>1. Down(m) \in SUBSET Down(n) /\ n \in Down(n) /\ n \notin Down(m)
    BY <1>4
  <2>2. Down(m) # Down(n)
    BY <2>1
  <2>3. place[m] = Cardinality(Down(m)) /\ place[n] = Cardinality(Down(n))
    OBVIOUS
  <2> HIDE DEF Down, K
  <2>4. Cardinality(Down(m)) <= Cardinality(Down(n)) /\ Cardinality(Down(n)) # Cardinality(Down(m))
    BY <1>2, <2>1, <2>2, FS_Subset
  <2>5. place[m] \in Nat /\ place[n] \in Nat
    OBVIOUS
  <2> QED
    BY <2>3, <2>4, <2>5
<1>5. ASSUME NEW m \in S, NEW n \in S PROVE place[m] <= place[n] <=> <<m, n>> \in Le
  <2>0. place[m] \in Nat /\ place[n] \in Nat
    OBVIOUS
  <2>1. CASE m = n
    BY <2>0, <2>1
  <2>2. CASE m # n /\ <<m, n>> \in Le
    BY <1>4, <2>0, <2>2
  <2>3. CASE m # n /\ <<m, n>> \notin Le
    <3>1. <<n, m>> \in Le
      BY <2>3
    <3>2. place[n] < place[m]
      BY <1>4, <2>3, <3>1
    <3> QED
      BY <2>0, <2>3, <3>2
  <2> QED
    BY <2>1, <2>2, <2>3
<1>6. place \in Injection(S, 1 .. K)
  <2>1. \A m, n \in S : place[m] = place[n] => m = n
    BY <1>3, <1>5
  <2>2. place \in [S -> 1 .. K]
    BY <1>3
  <2> QED
    BY <2>1, <2>2 DEF Injection, IsInjective
<1>7. IsFiniteSet(1 .. K) /\ Cardinality(1 .. K) = K
  BY <1>1, FS_Interval
<1>8. place \in Surjection(S, 1 .. K)
  BY <1>6, <1>7, FS_Injection
<1>9. \A i \in 1 .. K : \E n \in S : place[n] = i
  BY <1>8 DEF Surjection
<1> QED
  BY <1>1, <1>3, <1>5, <1>9

\* Latest has no two records of a hash, so that dates and first records put it
\* in a linear order.
LEMMA PrecedesOrders ==
    ASSUME LogInv, NEW s, NEW c
    PROVE  LET L == Latest(log, s, c)
           IN  /\ \A m, n \in L : ~Precedes(log, s, c, m, n) \/ ~Precedes(log, s, c, n, m)
               /\ \A m, n \in L :
                      ~Precedes(log, s, c, m, n) /\ ~Precedes(log, s, c, n, m) => m = n
               /\ \A k, m, n \in L :
                      ~Precedes(log, s, c, k, m) /\ ~Precedes(log, s, c, m, n)
                      => ~Precedes(log, s, c, k, n)
<1> DEFINE L == Latest(log, s, c)
           C == Classified(log, s, c)
           H(n) == HashOf[log[n].intent]
           D(n) == log[n].date
           Firsts(n, i) == i \in C /\ H(i) = H(n) /\ \A j \in C : H(j) = H(n) => i <= j
           first == [n \in L |-> CHOOSE i \in C : Firsts(n, i)]
<1>1. C \in SUBSET Nat /\ L \subseteq C /\ C \subseteq DOMAIN log
  BY DEF LogInv, Latest, Classified
<1>2. ASSUME NEW n \in L PROVE Firsts(n, first[n])
  <2> DEFINE T == {i \in C : H(i) = H(n)}
  <2>1. T \in SUBSET Nat /\ T # {}
    BY <1>1
  <2>2. \E i \in T : \A j \in T : i <= j
    BY <2>1, LeastNumber
  <2>3. \E i \in C : Firsts(n, i)
    BY <2>2
  <2> QED
    BY <2>3
<1>3. ASSUME NEW m \in L, NEW n \in L
      PROVE  Precedes(log, s, c, m, n) <=> D(m) > D(n) \/ (D(m) = D(n) /\ first[m] < first[n])
  <2>1. Firsts(m, first[m]) /\ Firsts(n, first[n])
    BY <1>2
  <2> HIDE DEF first
  <2>2. (\E i \in C : H(i) = H(m) /\ \A j \in C : H(j) = H(n) => i < j) <=> first[m] < first[n]
    <3>1. first[m] \in C /\ first[n] \in C /\ \A i \in C : i \in Nat
      BY <1>1, <2>1
    <3>2. ASSUME NEW i \in C, H(i) = H(m), \A j \in C : H(j) = H(n) => i < j
          PROVE  first[m] < first[n]
      BY <2>1, <3>1, <3>2
    <3>3. ASSUME first[m] < first[n], NEW j \in C, H(j) = H(n) PROVE first[m] < j
      BY <2>1, <3>1, <3>3
    <3> QED
      BY <2>1, <3>2, <3>3
  <2> QED
    BY <2>2 DEF Precedes
<1>4. ASSUME NEW m \in L, NEW n \in L, first[m] = first[n] PROVE m = n
  <2>1. H(m) = H(n)
    BY <1>2, <1>4
  <2>2. NoLater(log, m, n) /\ NoLater(log, n, m)
    BY <1>1, <2>1 DEF Latest
  <2> QED
    BY <1>1, <2>2, DatesOrder
<1>5. \A n \in L : D(n) \in Nat /\ first[n] \in Nat
  BY <1>1, <1>2, DatesOrder
<1> HIDE DEF L, D, first
<1>6. /\ \A m, n \in L : ~Precedes(log, s, c, m, n) \/ ~Precedes(log, s, c, n, m)
      /\ \A m, n \in L : ~Precedes(log, s, c, m, n) /\ ~Precedes(log, s, c, n, m) => m = n
  BY <1>3, <1>4, <1>5
<1>7. ASSUME NEW k \in L, NEW m \in L, NEW n \in L,
             ~Precedes(log, s, c, k, m), ~Precedes(log, s, c, m, n)
      PROVE  ~Precedes(log, s, c, k, n)
  BY <1>3, <1>5, <1>7
<1> QED
  BY <1>6, <1>7 DEF L

At(kept, place, i) == CHOOSE k \in kept : place[k] = i

\* The run of the loop of countConsecutiveBroadcastFailures over the records
\* kept, which are sorted by their places.
CountRun(g, kept, place) ==
    g = [i \in 0 .. Cardinality(kept) |->
            IF i = 0 THEN 0
            ELSE LET n == At(kept, place, i)
                 IN  IF Classify(log[n]) \in {"policyRejected", "noTxFailure"} THEN g[i - 1]
                     ELSE IF Classify(log[n]) = "failed" THEN 1 + g[i - 1]
                     ELSE 0]

PlaceIn(s, c, kept) == [n \in kept |-> Place(s, c, kept, n)]

LEMMA CountRuns ==
    ASSUME NEW s, NEW c, Cardinality(Kept(s, c)) \in Nat
    PROVE  \E g : /\ CountRun(g, Kept(s, c), PlaceIn(s, c, Kept(s, c)))
                  /\ CountedBackwards(s, c) = g[Cardinality(Kept(s, c))]
<1> DEFINE kept == Kept(s, c)
           K == Cardinality(kept)
           place == PlaceIn(s, c, kept)
           round(i, v) ==
               IF Classify(log[At(kept, place, i)]) \in {"policyRejected", "noTxFailure"} THEN v
               ELSE IF Classify(log[At(kept, place, i)]) = "failed" THEN 1 + v
               ELSE 0
           step == [p \in (1 .. K) \X Nat |-> round(p[1], p[2])]
<1>1. K \in Nat /\ 0 \in Nat
  OBVIOUS
<1> HIDE DEF kept, K, place
<1>2. \A i \in 1 .. K : \A v \in Nat : round(i, v) \in Nat
  OBVIOUS
<1> HIDE DEF round
<1>3. step \in [(1 .. K) \X Nat -> Nat]
  BY <1>2
<1>4. \A i \in 1 .. K : \A v \in Nat : step[<<i, v>>] = round(i, v)
  OBVIOUS
<1> HIDE DEF step
<1>5. PICK g : IsRun(g, K, Nat, 0, step)
  BY <1>1, <1>3, LoopRuns, Zenon
<1>6. g = [i \in 0 .. K |-> IF i = 0 THEN 0 ELSE round(i, g[i - 1])]
  <2>1. \A i \in 1 .. K : i - 1 \in 0 .. K /\ i \in 0 .. K /\ i # 0
    BY <1>1
  <2>2. \A i \in 1 .. K : g[i] = round(i, g[i - 1])
    BY <1>4, <1>5, <2>1 DEF IsRun
  <2> QED
    BY <1>1, <1>5, <2>2 DEF IsRun
<1>7. CountRun(g, kept, place)
  BY <1>6 DEF CountRun, round, K
<1>8. \E h : CountedBackwards(s, c) = h[K] /\ h = CHOOSE k : CountRun(k, kept, place)
  BY DEF CountedBackwards, CountRun, PlaceIn, At, place, K, kept
<1> QED
  BY <1>7, <1>8 DEF place, K, kept

\* What countConsecutiveBroadcastFailures counts is the streak.
LEMMA CountIsStreak ==
    ASSUME LogInv, NEW s, NEW c
    PROVE  CountedBackwards(s, c) = Streak(log, s, c)
<1> DEFINE L == Latest(log, s, c)
           K == Cardinality(L)
           place == PlaceIn(s, c, L)
           Le == {p \in L \X L : ~Precedes(log, s, c, p[1], p[2])}
           class(n) == Classify(log[n])
           Counted(i) == {k \in L : /\ place[k] <= i
                                    /\ class(k) = "failed"
                                    /\ \A m \in L : place[m] > place[k] /\ place[m] <= i =>
                                           class(m) \notin {"succeeded", "reset"}}
<1>1. Len(log) \in Nat /\ DOMAIN log = 1 .. Len(log) /\ log \in Seq(Record)
  BY DEF LogInv
<1>2. L \subseteq DOMAIN log /\ \A n \in L : class(n) # "none"
  BY DEF Latest, Classified
<1>3. \A n \in L : class(n) \in {"succeeded", "failed", "policyRejected", "noTxFailure", "reset"}
  <2> SUFFICES ASSUME NEW n \in L
               PROVE  class(n) \in {"succeeded", "failed", "policyRejected", "noTxFailure", "reset"}
    OBVIOUS
  <2>1. log[n] \in Record
    BY <1>1, <1>2
  <2> QED
    BY <1>2, <2>1, ClassesOfRecords
<1>4. IsFiniteSet(L)
  <2>1. IsFiniteSet(1 .. Len(log))
    BY <1>1, FS_Interval
  <2> HIDE DEF L
  <2> QED
    BY <1>1, <1>2, <2>1, FS_Subset
<1>5. \A n \in L : place[n] = Cardinality({m \in L : <<m, n>> \in Le})
  <2> SUFFICES ASSUME NEW n \in L PROVE place[n] = Cardinality({m \in L : <<m, n>> \in Le})
    OBVIOUS
  <2> HIDE DEF L
  <2>1. {m \in L : ~Precedes(log, s, c, m, n)} = {m \in L : <<m, n>> \in Le}
    OBVIOUS
  <2> QED
    BY <2>1 DEF PlaceIn, Place
<1>6. place \in [L -> Nat]
  <2> SUFFICES ASSUME NEW n \in L PROVE place[n] \in Nat
    BY DEF PlaceIn
  <2>1. {m \in L : <<m, n>> \in Le} \in SUBSET L
    OBVIOUS
  <2> HIDE DEF L, Le, place
  <2> QED
    BY <1>4, <1>5, <2>1, FS_Subset, FS_CardinalityType
<1>7. LinearOn(L, Le)
  <2>1. \A m, n \in L : <<m, n>> \in Le <=> ~Precedes(log, s, c, m, n)
    OBVIOUS
  <2>3. /\ \A m, n \in L : ~Precedes(log, s, c, m, n) \/ ~Precedes(log, s, c, n, m)
        /\ \A m, n \in L : ~Precedes(log, s, c, m, n) /\ ~Precedes(log, s, c, n, m) => m = n
        /\ \A k, m, n \in L : ~Precedes(log, s, c, k, m) /\ ~Precedes(log, s, c, m, n)
                             => ~Precedes(log, s, c, k, n)
    BY PrecedesOrders
  <2> HIDE DEF L, Le
  <2> QED
    BY <2>1, <2>3 DEF LinearOn
<1> HIDE DEF Le, place
<1>8. /\ K \in Nat
      /\ \A n \in L : place[n] \in 1 .. K
      /\ \A m, n \in L : place[m] <= place[n] <=> <<m, n>> \in Le
      /\ \A i \in 1 .. K : \E n \in L : place[n] = i
  <2> HIDE DEF L
  <2> QED
    BY <1>4, <1>5, <1>6, <1>7, Places
<1>9. \A m, n \in L : place[m] = place[n] => m = n
  BY <1>6, <1>7, <1>8 DEF LinearOn
<1>10. PICK g : CountRun(g, L, place) /\ CountedBackwards(s, c) = g[K]
  BY <1>8, CountRuns, KeptIsLatest DEF place, K
<1>11. g[0] = 0 /\ \A n \in L : LET i == place[n] IN
           g[i] = IF class(n) \in {"policyRejected", "noTxFailure"} THEN g[i - 1]
                  ELSE IF class(n) = "failed" THEN 1 + g[i - 1]
                  ELSE 0
  <2> HIDE DEF L, K
  <2>1. g[0] = 0
    BY <1>8, <1>10 DEF CountRun, K
  <2>2. ASSUME NEW n \in L
        PROVE  g[place[n]] = IF class(n) \in {"policyRejected", "noTxFailure"} THEN g[place[n] - 1]
                             ELSE IF class(n) = "failed" THEN 1 + g[place[n] - 1]
                             ELSE 0
    <3>1. place[n] \in 0 .. Cardinality(L) /\ place[n] # 0
      BY <1>8 DEF K
    <3>2. At(L, place, place[n]) = n
      BY <1>9 DEF At
    <3>3. \A i \in 0 .. Cardinality(L) :
              g[i] = IF i = 0 THEN 0
                     ELSE IF class(At(L, place, i)) \in {"policyRejected", "noTxFailure"} THEN g[i - 1]
                     ELSE IF class(At(L, place, i)) = "failed" THEN 1 + g[i - 1]
                     ELSE 0
      BY <1>10 DEF CountRun
    <3> HIDE DEF class
    <3> QED
      BY <3>1, <3>2, <3>3
  <2> QED
    BY <2>1, <2>2
<1> HIDE DEF K, L, class
<1> DEFINE Held(i) == IsFiniteSet(Counted(i)) /\ g[i] = Cardinality(Counted(i))
<1>12. Held(0)
  <2>1. \A k \in L : ~(place[k] <= 0)
    BY <1>8
  <2>2. Counted(0) = {}
    BY <2>1
  <2> HIDE DEF Counted
  <2> QED
    BY <1>11, <2>2, FS_EmptySet
<1>13. ASSUME NEW i \in 1 .. K, Held(i - 1) PROVE Held(i)
  <2>0. PICK n \in L : place[n] = i
    BY <1>8
  <2>1. \A k \in L : place[k] \in Nat /\ (place[k] <= i <=> place[k] <= i - 1 \/ k = n)
    BY <1>8, <1>9, <2>0
  <2>2. ~(place[n] <= i - 1) /\ i \in Nat
    BY <1>8, <2>0
  <2>3. CASE class(n) \in {"policyRejected", "noTxFailure"}
    <3>1. Counted(i) = Counted(i - 1)
      <4>1. ASSUME NEW k \in L PROVE k \in Counted(i) <=> k \in Counted(i - 1)
        BY <2>1, <2>2, <2>3
      <4> QED
        BY <4>1
    <3>2. g[i] = g[i - 1]
      BY <1>11, <2>0, <2>3
    <3> HIDE DEF Counted
    <3> QED
      BY <1>13, <3>1, <3>2
  <2>4. CASE class(n) = "failed"
    <3>1. n \in Counted(i) /\ n \notin Counted(i - 1)
      BY <2>0, <2>1, <2>2, <2>4
    <3>2. \A k \in L : k \in Counted(i) <=> k \in Counted(i - 1) \/ k = n
      BY <2>0, <2>1, <2>2, <2>4, <3>1
    <3>3. Counted(i) \subseteq L /\ Counted(i - 1) \subseteq L
      OBVIOUS
    <3> HIDE DEF Counted
    <3>4. Counted(i) = Counted(i - 1) \cup {n}
      BY <3>2, <3>3
    <3>5. g[i] = 1 + g[i - 1]
      BY <1>11, <2>0, <2>4
    <3>6. IsFiniteSet(Counted(i)) /\ Cardinality(Counted(i)) = Cardinality(Counted(i - 1)) + 1
      BY <1>13, <3>1, <3>4, FS_AddElement
    <3>7. Cardinality(Counted(i - 1)) \in Nat
      BY <1>13, FS_CardinalityType
    <3> QED
      BY <1>13, <3>5, <3>6, <3>7
  <2>5. CASE class(n) \in {"succeeded", "reset"}
    <3>0. \A k \in L : k \notin Counted(i)
      BY <2>0, <2>1, <2>2, <2>5
    <3>1. Counted(i) = {}
      BY <3>0
    <3>2. g[i] = 0
      BY <1>11, <2>0, <2>5
    <3> HIDE DEF Counted
    <3> QED
      BY <3>1, <3>2, FS_EmptySet
  <2> QED
    BY <1>3, <2>3, <2>4, <2>5
<1>14. Held(K)
  <2> DEFINE T == {i \in 0 .. K : Held(i)}
  <2>1. 0 \in T
    BY <1>8, <1>12
  <2>2. \A i \in 1 .. K : i - 1 \in T => i \in T
    BY <1>8, <1>13
  <2>3. K \in 0 .. K
    BY <1>8
  <2> HIDE DEF T
  <2>4. K \in T
    BY <1>8, <2>1, <2>2, <2>3, HoldsUpTo
  <2> QED
    BY <2>4 DEF T
<1>15. \A m, k \in L : place[m] > place[k] <=> Precedes(log, s, c, m, k)
  <2> SUFFICES ASSUME NEW m \in L, NEW k \in L
               PROVE  place[m] > place[k] <=> Precedes(log, s, c, m, k)
    OBVIOUS
  <2>1. <<m, k>> \in Le <=> ~Precedes(log, s, c, m, k)
    BY DEF Le
  <2>2. place[m] \in Nat /\ place[k] \in Nat /\ (place[m] <= place[k] <=> <<m, k>> \in Le)
    BY <1>6, <1>8
  <2> QED
    BY <2>1, <2>2
<1>16. Counted(K) = {k \in L : /\ class(k) = "failed"
                               /\ \A m \in L : Precedes(log, s, c, m, k) =>
                                      class(m) \notin {"succeeded", "reset"}}
  <2>1. \A k \in L : place[k] <= K
    BY <1>8
  <2> QED
    BY <1>15, <2>1
<1>17. Streak(log, s, c) = Cardinality(Counted(K))
  BY <1>16 DEF Streak, L, class
<1> QED
  BY <1>10, <1>14, <1>17

\* In every log, the streak of a lane, the intents whose latest record failed
\* since the last success or reset, is what latestClassifiedRecords and
\* countConsecutiveBroadcastFailures compute.
THEOREM StreakIsTheLoopAlways == Spec => []StreakIsTheLoop
<1>1. LogInv => StreakIsTheLoop
  BY CountIsStreak DEF StreakIsTheLoop
<1> QED
  BY <1>1, LogHolds, PTL

-----------------------------------------------------------------------------
(* The daily volume.                                                       *)

\* The run of the loop of dedupeRecords.
DedupeRun(f, s) ==
    f = [n \in 0 .. Len(log) |->
            IF n = 0 THEN [i \in {IdOf[j] : j \in Intent} |-> 0]
            ELSE IF /\ StrategyOf[log[n].intent] = s
                    /\ \/ f[n - 1][IdOf[log[n].intent]] = 0
                       \/ Rank(log[n]) > Rank(log[f[n - 1][IdOf[log[n].intent]]])
                       \/ /\ Rank(log[n]) = Rank(log[f[n - 1][IdOf[log[n].intent]]])
                          /\ log[n].date >= log[f[n - 1][IdOf[log[n].intent]]].date
                 THEN [f[n - 1] EXCEPT ![IdOf[log[n].intent]] = n]
                 ELSE f[n - 1]]

LEMMA DedupeRuns ==
    ASSUME Len(log) \in Nat, NEW s
    PROVE  \E f : DedupeRun(f, s) /\ Deduped(s) = f[Len(log)]
<1> DEFINE N == Len(log)
           V == [{IdOf[j] : j \in Intent} -> 0 .. N]
           base == [i \in {IdOf[j] : j \in Intent} |-> 0]
           round(n, v) == IF /\ StrategyOf[log[n].intent] = s
                             /\ \/ v[IdOf[log[n].intent]] = 0
                                \/ Rank(log[n]) > Rank(log[v[IdOf[log[n].intent]]])
                                \/ /\ Rank(log[n]) = Rank(log[v[IdOf[log[n].intent]]])
                                   /\ log[n].date >= log[v[IdOf[log[n].intent]]].date
                          THEN [v EXCEPT ![IdOf[log[n].intent]] = n]
                          ELSE v
           step == [p \in (1 .. N) \X V |-> round(p[1], p[2])]
<1>1. base \in V /\ N \in Nat
  OBVIOUS
<1>2. ASSUME NEW n \in 1 .. N, NEW v \in V
      PROVE  round(n, v) \in V
  <2>1. ASSUME NEW i PROVE [v EXCEPT ![i] = n] \in V
    <3>1. n \in 0 .. N
      OBVIOUS
    <3> QED
      BY <3>1
  <2> QED
    BY <2>1
<1> HIDE DEF round, V, base, N
<1>3. step \in [(1 .. N) \X V -> V]
  BY <1>2
<1>4. \A n \in 1 .. N : \A v \in V : step[<<n, v>>] = round(n, v)
  OBVIOUS
<1> HIDE DEF step
<1>5. PICK f : IsRun(f, N, V, base, step)
  BY <1>1, <1>3, LoopRuns, Zenon
<1>6. f = [n \in 0 .. N |-> IF n = 0 THEN base ELSE round(n, f[n - 1])]
  <2>1. \A n \in 1 .. N : n - 1 \in 0 .. N /\ n \in 0 .. N /\ n # 0
    BY <1>1
  <2>2. \A n \in 1 .. N : f[n] = round(n, f[n - 1])
    BY <1>4, <1>5, <2>1 DEF IsRun
  <2> QED
    BY <1>1, <1>5, <2>2 DEF IsRun
<1>7. DedupeRun(f, s)
  BY <1>6 DEF DedupeRun, round, base, N
<1>8. \E g : Deduped(s) = g[Len(log)] /\ g = CHOOSE h : DedupeRun(h, s)
  BY DEF Deduped, DedupeRun
<1> QED
  BY <1>7, <1>8

LEMMA RanksOfRecords ==
    ASSUME NEW rec \in Record
    PROVE  Rank(rec) \in Nat
BY DEF Rank, Record, Stage

\* dedupeRecords keeps the record that BestById defines, of every intentId.
LEMMA DedupedIsBest ==
    ASSUME LogInv, NEW s
    PROVE  {Deduped(s)[i] : i \in DOMAIN Deduped(s)} \ {0} = BestById(log, s)
<1> DEFINE N == Len(log)
           Ids == {IdOf[j] : j \in Intent}
           C == OfStrategy(log, s)
           R(n) == Rank(log[n])
           Below(m, n) == R(m) < R(n) \/ (R(m) = R(n) /\ NoLater(log, m, n))
           key == [n \in 1 .. N |-> IdOf[log[n].intent]]
           Le == {p \in (1 .. N) \X (1 .. N) : Below(p[1], p[2])}
<1>1. N \in Nat /\ DOMAIN log = 1 .. N /\ log \in Seq(Record)
  BY DEF LogInv
<1>2. ASSUME NEW n \in 1 .. N PROVE IdOf[log[n].intent] \in Ids /\ R(n) \in Nat
  <2>1. log[n] \in Record
    BY <1>1
  <2> QED
    BY <2>1, RanksOfRecords DEF Record
<1>3. C \in SUBSET (1 .. N) /\ key \in [1 .. N -> Ids]
  BY <1>1, <1>2 DEF OfStrategy
<1>4. \A m, n \in 1 .. N : <<m, n>> \in Le <=> Below(m, n)
  OBVIOUS
<1>5. LinearOn(C, Le)
  <2>1. /\ \A m, n \in 1 .. N : Below(m, n) \/ Below(n, m)
        /\ \A m, n \in 1 .. N : Below(m, n) /\ Below(n, m) => m = n
        /\ \A k, m, n \in 1 .. N : Below(k, m) /\ Below(m, n) => Below(k, n)
    <3> HIDE DEF R
    <3>1. \A m, n \in 1 .. N : Below(m, n) \/ Below(n, m)
      BY <1>1, <1>2, DatesOrder
    <3>2. \A m, n \in 1 .. N : Below(m, n) /\ Below(n, m) => m = n
      BY <1>1, <1>2, DatesOrder
    <3>3. ASSUME NEW k \in 1 .. N, NEW m \in 1 .. N, NEW n \in 1 .. N, Below(k, m), Below(m, n)
          PROVE  Below(k, n)
      <4>1. R(k) \in Nat /\ R(m) \in Nat /\ R(n) \in Nat
        BY <1>2
      <4>2. NoLater(log, k, m) /\ NoLater(log, m, n) => NoLater(log, k, n)
        BY <1>1, DatesOrder
      <4> QED
        BY <3>3, <4>1, <4>2
    <3> QED
      BY <3>1, <3>2, <3>3
  <2> HIDE DEF Le, C, Below
  <2> QED
    BY <1>3, <1>4, <2>1 DEF LinearOn
<1>6. PICK f : DedupeRun(f, s) /\ Deduped(s) = f[N]
  BY <1>1, DedupeRuns
<1>7. f[0] = [i \in Ids |-> 0]
  BY <1>1, <1>6 DEF DedupeRun
<1>8. \A n \in 1 .. N : n \in C <=> StrategyOf[log[n].intent] = s
  BY <1>1 DEF OfStrategy
<1> DEFINE Replaces(n, k) ==
        k = 0 \/ R(n) > R(k) \/ (R(n) = R(k) /\ log[n].date >= log[k].date)
<1>9. ASSUME NEW n \in 1 .. N
      PROVE  f[n] = IF n \in C /\ Replaces(n, f[n - 1][key[n]])
                    THEN [f[n - 1] EXCEPT ![key[n]] = n] ELSE f[n - 1]
  <2>1. n \in 0 .. N /\ n # 0
    BY <1>1
  <2> HIDE DEF C
  <2> QED
    BY <1>6, <1>8, <2>1 DEF DedupeRun
<1> HIDE DEF N, C, key, Le, R, Ids
<1>10. \A n \in 0 .. N : f[n] \in [Ids -> 0 .. n]
  <2> DEFINE T == {n \in 0 .. N : f[n] \in [Ids -> 0 .. n]}
  <2>1. 0 \in T
    BY <1>1, <1>7
  <2>2. ASSUME NEW n \in 1 .. N, n - 1 \in T PROVE n \in T
    <3>1. f[n - 1] \in [Ids -> 0 .. n] /\ n \in 0 .. N /\ n \in 0 .. n
      BY <1>1, <2>2
    <3>2. [f[n - 1] EXCEPT ![key[n]] = n] \in [Ids -> 0 .. n]
      BY <3>1
    <3> HIDE DEF Replaces
    <3> QED
      BY <1>9, <3>1, <3>2
  <2> HIDE DEF T
  <2>3. \A n \in 0 .. N : n \in T
    BY <1>1, <2>1, <2>2, HoldsUpTo
  <2> QED
    BY <2>3 DEF T
<1>11. ASSUME NEW n \in 1 .. N
       PROVE  Replaces(n, f[n - 1][key[n]])
                  <=> f[n - 1][key[n]] = 0 \/ <<f[n - 1][key[n]], n>> \in Le
  <2> DEFINE k == f[n - 1][key[n]]
  <2>1. n - 1 \in 0 .. N /\ key[n] \in Ids
    BY <1>1, <1>3
  <2>2. k \in 0 .. n - 1
    BY <1>10, <2>1
  <2>3. k # 0 => k \in 1 .. N /\ k < n
    BY <1>1, <2>2
  <2>4. k # 0 => (NoLater(log, k, n) <=> log[n].date >= log[k].date)
    BY <1>1, <2>3, DatesOrder DEF NoLater
  <2> HIDE DEF k
  <2>5. k # 0 => (<<k, n>> \in Le <=> Below(k, n)) /\ R(k) \in Nat /\ R(n) \in Nat
    BY <1>2, <1>4, <2>3
  <2>6. Replaces(n, k) <=> k = 0 \/ <<k, n>> \in Le
    BY <2>4, <2>5
  <2> QED
    BY <2>6 DEF k
<1> HIDE DEF Replaces
<1>12. Keeping(f, N, C, Ids, key, Le)
  BY <1>7, <1>9, <1>11 DEF Keeping
<1>13. /\ f[N] \in [Ids -> 0 .. N]
       /\ {f[N][i] : i \in Ids} \ {0} = Highest(C, key, Le)
  <2>1. N \in Nat
    BY <1>1
  <2> QED
    BY <1>3, <1>5, <1>12, <2>1, KeepsHighest
<1>14. BestById(log, s) = Highest(C, key, Le)
  <2>1. \A m, n \in C : /\ key[m] = key[n] <=> IdOf[log[m].intent] = IdOf[log[n].intent]
                        /\ <<m, n>> \in Le <=> Below(m, n)
    BY <1>3, <1>4 DEF key
  <2> QED
    BY <2>1 DEF BestById, C, R, Highest
<1>15. DOMAIN Deduped(s) = Ids
  BY <1>6, <1>13
<1> QED
  BY <1>6, <1>13, <1>14, <1>15

\* In every log, the records whose amounts buildStrategyCapState adds up are
\* those dedupeRecords keeps.
THEOREM BestIsTheLoopAlways == Spec => []BestIsTheLoop
<1>1. LogInv => BestIsTheLoop
  BY DedupedIsBest DEF BestIsTheLoop
<1> QED
  BY <1>1, LogHolds, PTL

-----------------------------------------------------------------------------
(* The capital-audit gap.                                                  *)

\* The run of the loop of replayAuditForCapitalGaps.
ReplayRun(f, closed, activation) ==
    f = [n \in 0 .. Len(log) |->
            IF n = 0 THEN <<{}, {}>>
            ELSE IF \/ ~HasBroadcastEvidence(log[n]) \/ IsApproval(log[n])
                    \/ HashOf[log[n].intent] \in closed
                    \/ HashOf[log[n].intent] \in f[n - 1][1]
                 THEN f[n - 1]
                 ELSE <<f[n - 1][1] \cup {HashOf[log[n].intent]},
                        f[n - 1][2] \cup (IF log[n].date < activation THEN {}
                                          ELSE {StrategyOf[log[n].intent]})>>]

LEMMA ReplayRuns ==
    ASSUME LogInv, NEW closed, NEW activation
    PROVE  \E f : /\ ReplayRun(f, closed, activation)
                  /\ Replayed(closed, activation) = f[Len(log)]
<1> DEFINE N == Len(log)
           V == (SUBSET {HashOf[i] : i \in Intent}) \X (SUBSET {StrategyOf[i] : i \in Intent})
           base == <<{}, {}>>
           round(n, v) ==
               IF \/ ~HasBroadcastEvidence(log[n]) \/ IsApproval(log[n])
                  \/ HashOf[log[n].intent] \in closed
                  \/ HashOf[log[n].intent] \in v[1]
               THEN v
               ELSE <<v[1] \cup {HashOf[log[n].intent]},
                      v[2] \cup (IF log[n].date < activation THEN {}
                                 ELSE {StrategyOf[log[n].intent]})>>
           step == [p \in (1 .. N) \X V |-> round(p[1], p[2])]
<1>1. base \in V /\ N \in Nat
  BY DEF LogInv
<1>2. ASSUME NEW n \in 1 .. N, NEW v \in V
      PROVE  round(n, v) \in V
  <2>1. log[n].intent \in Intent
    <3>1. log \in Seq(Record) /\ n \in DOMAIN log
      BY DEF LogInv
    <3>2. log[n] \in Record
      BY <3>1
    <3> QED
      BY <3>2 DEF Record
  <2>2. /\ v[1] \cup {HashOf[log[n].intent]} \in SUBSET {HashOf[i] : i \in Intent}
        /\ v[2] \cup {} \in SUBSET {StrategyOf[i] : i \in Intent}
        /\ v[2] \cup {StrategyOf[log[n].intent]} \in SUBSET {StrategyOf[i] : i \in Intent}
    BY <2>1
  <2> QED
    BY <2>2
<1> HIDE DEF round, V, base, N
<1>3. step \in [(1 .. N) \X V -> V]
  BY <1>2
<1>4. \A n \in 1 .. N : \A v \in V : step[<<n, v>>] = round(n, v)
  OBVIOUS
<1> HIDE DEF step
<1>5. PICK f : IsRun(f, N, V, base, step)
  BY <1>1, <1>3, LoopRuns, Zenon
<1>6. f = [n \in 0 .. N |-> IF n = 0 THEN base ELSE round(n, f[n - 1])]
  <2>1. \A n \in 1 .. N : n - 1 \in 0 .. N /\ n \in 0 .. N /\ n # 0
    BY <1>1
  <2>2. \A n \in 1 .. N : f[n] = round(n, f[n - 1])
    BY <1>4, <1>5, <2>1 DEF IsRun
  <2> QED
    BY <1>1, <1>5, <2>2 DEF IsRun
<1>7. ReplayRun(f, closed, activation)
  BY <1>6 DEF ReplayRun, round, base, N
<1>8. \E g : /\ Replayed(closed, activation) = g[Len(log)]
             /\ g = CHOOSE h : ReplayRun(h, closed, activation)
  BY DEF Replayed, ReplayRun
<1> QED
  BY <1>7, <1>8

\* replayAuditForCapitalGaps flags the strategies that have a gap.
LEMMA ReplayedIsGap ==
    ASSUME LogInv, NEW closed, NEW activation \in Nat
    PROVE  {s \in Strategies : CapitalGap(log, closed, activation, s)}
               = Replayed(closed, activation)[2]
<1> DEFINE N == Len(log)
           H(n) == HashOf[log[n].intent]
           S(n) == StrategyOf[log[n].intent]
           Moves(n) == HasBroadcastEvidence(log[n]) /\ ~IsApproval(log[n])
           Open(n) == Moves(n) /\ H(n) \notin closed
           Early(n) == log[n].date < activation
           First(n) == Open(n) /\ \A k \in 1 .. n - 1 : Open(k) => H(k) # H(n)
           Seen(n) == {h \in Hash : \E m \in 1 .. n : Open(m) /\ H(m) = h}
           Flagged(n) == {s \in Strategies : \E m \in 1 .. n : First(m) /\ ~Early(m) /\ S(m) = s}
<1>1. N \in Nat /\ DOMAIN log = 1 .. N /\ log \in Seq(Record) /\ activation \in Nat
  BY DEF LogInv
<1>2. PICK f : ReplayRun(f, closed, activation) /\ Replayed(closed, activation) = f[N]
  BY ReplayRuns
<1>3. ASSUME NEW n \in 1 .. N PROVE H(n) \in Hash /\ (Moves(n) => S(n) \in Strategies)
  <2>1. log[n] \in Record /\ Written(log[n])
    BY <1>1 DEF LogInv
  <2>2. H(n) \in Hash
    BY <2>1 DEF Record, Hash
  <2>3. ASSUME Moves(n) PROVE log[n].intent \in Request
    BY <2>1, <2>3 DEF Written, HasBroadcastEvidence
  <2> QED
    BY <2>2, <2>3 DEF Strategies
<1>4. \A n, m \in 1 .. N : H(n) = H(m) => S(n) = S(m)
  <2>1. ASSUME NEW n \in 1 .. N PROVE log[n].intent \in Intent
    <3>1. log[n] \in Record
      BY <1>1
    <3> QED
      BY <3>1 DEF Record
  <2> QED
    BY <2>1, DigestAssumption
<1>5. f[0] = <<{}, {}>>
  BY <1>1, <1>2 DEF ReplayRun
<1>6. ASSUME NEW n \in 1 .. N
      PROVE  f[n] = IF ~Open(n) \/ H(n) \in f[n - 1][1] THEN f[n - 1]
                    ELSE <<f[n - 1][1] \cup {H(n)},
                           f[n - 1][2] \cup (IF Early(n) THEN {} ELSE {S(n)})>>
  <2>1. n \in 0 .. N /\ n # 0
    BY <1>1
  <2> QED
    BY <1>2, <2>1 DEF ReplayRun
<1>7. ASSUME NEW s
      PROVE  CapitalGap(log, closed, activation, s) <=>
                 \E n \in 1 .. N : /\ S(n) = s /\ Open(n) /\ ~Early(n)
                                   /\ \A m \in 1 .. N : H(m) = H(n) /\ Moves(m) => n <= m
  <2>1. \A n \in 1 .. N : ~Early(n) <=> log[n].date >= activation
    BY <1>1, DatesOrder
  <2>2. \A n \in 1 .. N : FirstOfHash(log, n)
                              <=> \A m \in 1 .. N : H(m) = H(n) /\ Moves(m) => n <= m
    BY <1>1 DEF FirstOfHash
  <2>3. \A n : n \in Evidence(log, s) <=> n \in 1 .. N /\ S(n) = s /\ Moves(n)
    BY <1>1 DEF Evidence
  <2> QED
    BY <2>1, <2>2, <2>3 DEF CapitalGap
<1>8. \A n : Open(n) <=> Moves(n) /\ H(n) \notin closed
  OBVIOUS
<1> HIDE DEF N, H, S, Moves, Open, Early
<1> DEFINE Held(n) == f[n] = <<Seen(n), Flagged(n)>>
<1>9. Held(0)
  <2>1. \A m \in 1 .. 0 : FALSE
    OBVIOUS
  <2>2. Seen(0) = {} /\ Flagged(0) = {}
    BY <2>1
  <2> QED
    BY <1>5, <2>2
<1>10. ASSUME NEW n \in 1 .. N, Held(n - 1) PROVE Held(n)
  <2>1. /\ n \in Nat /\ n \in 1 .. n
        /\ \A m \in 1 .. n : m \in 1 .. n - 1 \/ m = n
        /\ \A m \in 1 .. n - 1 : m \in 1 .. n
    BY <1>1
  <2>2. f[n - 1][1] = Seen(n - 1) /\ f[n - 1][2] = Flagged(n - 1)
    BY <1>10
  <2>3. H(n) \in Hash /\ (Open(n) => S(n) \in Strategies)
    BY <1>3, <1>8
  <2>4. First(n) <=> Open(n) /\ H(n) \notin Seen(n - 1)
    BY <2>3
  <2>5. CASE ~Open(n)
    <3>1. Seen(n) = Seen(n - 1)
      BY <2>1, <2>5
    <3>2. Flagged(n) = Flagged(n - 1)
      <4>1. ~First(n)
        BY <2>5
      <4> HIDE DEF First
      <4> QED
        BY <2>1, <4>1
    <3> HIDE DEF Seen, Flagged
    <3> QED
      BY <1>6, <1>10, <2>5, <3>1, <3>2
  <2>6. CASE Open(n) /\ H(n) \in Seen(n - 1)
    <3>1. Seen(n) = Seen(n - 1)
      BY <2>1, <2>6
    <3>2. Flagged(n) = Flagged(n - 1)
      <4>1. ~First(n)
        BY <2>4, <2>6
      <4> HIDE DEF First
      <4> QED
        BY <2>1, <4>1
    <3> HIDE DEF Seen, Flagged
    <3> QED
      BY <1>6, <1>10, <2>2, <2>6, <3>1, <3>2
  <2>7. CASE Open(n) /\ H(n) \notin Seen(n - 1)
    <3>1. Seen(n) = Seen(n - 1) \cup {H(n)}
      BY <2>1, <2>3, <2>7
    <3>2. Flagged(n) = Flagged(n - 1) \cup (IF Early(n) THEN {} ELSE {S(n)})
      <4>1. First(n) /\ S(n) \in Strategies
        BY <2>3, <2>4, <2>7
      <4> HIDE DEF First
      <4> QED
        BY <2>1, <4>1
    <3> HIDE DEF Seen, Flagged
    <3> QED
      BY <1>6, <2>2, <2>7, <3>1, <3>2
  <2> QED
    BY <2>5, <2>6, <2>7
<1>11. Held(N)
  <2> DEFINE T == {n \in 0 .. N : Held(n)}
  <2>1. 0 \in T
    BY <1>1, <1>9
  <2>2. ASSUME NEW n \in 1 .. N, n - 1 \in T PROVE n \in T
    <3>1. n \in 0 .. N /\ Held(n - 1)
      BY <1>1, <2>2
    <3> HIDE DEF Held
    <3>2. Held(n)
      BY <1>10, <3>1
    <3> QED
      BY <3>1, <3>2
  <2>3. N \in 0 .. N
    BY <1>1
  <2> HIDE DEF T
  <2>4. N \in T
    BY <1>1, <2>1, <2>2, <2>3, HoldsUpTo
  <2> QED
    BY <2>4 DEF T
<1>12. ASSUME NEW s \in Strategies, CapitalGap(log, closed, activation, s)
       PROVE  s \in Flagged(N)
  <2>1. PICK n \in 1 .. N : /\ S(n) = s /\ Open(n) /\ ~Early(n)
                            /\ \A m \in 1 .. N : H(m) = H(n) /\ Moves(m) => n <= m
    BY <1>7, <1>12
  <2>2. First(n)
    <3>1. \A k \in 1 .. n - 1 : k \in 1 .. N /\ ~(n <= k)
      BY <1>1
    <3> QED
      BY <1>8, <2>1, <3>1
  <2> QED
    BY <2>1, <2>2
<1>13. ASSUME NEW s \in Flagged(N)
       PROVE  CapitalGap(log, closed, activation, s)
  <2>1. PICK n \in 1 .. N : First(n) /\ ~Early(n) /\ S(n) = s
    OBVIOUS
  <2>2. ASSUME NEW m \in 1 .. N, H(m) = H(n), Moves(m) PROVE n <= m
    <3>1. Open(m)
      BY <1>8, <2>1, <2>2
    <3>2. ~(m \in 1 .. n - 1)
      BY <2>1, <2>2, <3>1
    <3> QED
      BY <1>1, <3>2
  <2> QED
    BY <1>7, <2>1, <2>2
<1> QED
  BY <1>2, <1>11, <1>12, <1>13

\* In every log, whatever pairs are closed and whenever the latest backfill was,
\* the strategies with a gap are those replayAuditForCapitalGaps flags.
THEOREM GapIsTheReplayAlways == Spec => []GapIsTheReplay
<1>1. LogInv => GapIsTheReplay
  <2> SUFFICES ASSUME LogInv PROVE GapIsTheReplay
    OBVIOUS
  <2>1. Activations \subseteq Nat
    BY DEF LogInv, Activations, StartedAt
  <2> QED
    BY <2>1, ReplayedIsGap DEF GapIsTheReplay
<1> QED
  BY <1>1, LogHolds, PTL

-----------------------------------------------------------------------------
(* What one more record may change.                                        *)

\* No record makes a capital-audit gap go away, so that a gate that blocked a
\* strategy blocks until a pair is closed or a backfill is made.
THEOREM GapsOutliveRecordsAlways == Spec => GapsOutliveRecords
<1>1. ASSUME LogInv, [Next]_log,
             NEW closed, NEW activation, NEW s, CapitalGap(log, closed, activation, s)
      PROVE  CapitalGap(log', closed, activation, s)
  <2>1. CASE UNCHANGED log
    BY <1>1, <2>1
  <2>2. CASE Next
    <3>1. PICK rec \in Record : log' = Append(log, rec)
      BY <1>1, <2>2, NextAppends
    <3>2. PICK n \in Evidence(log, s) :
              /\ HashOf[log[n].intent] \notin closed
              /\ FirstOfHash(log, n)
              /\ log[n].date >= activation
      BY <1>1 DEF CapitalGap
    <3>3. n \in DOMAIN log /\ n \in Evidence(log', s) /\ log'[n] = log[n]
      BY <1>1, <3>1, AppendFacts DEF Evidence
    <3>4. FirstOfHash(log', n)
      <4> SUFFICES ASSUME NEW m \in DOMAIN log', HashOf[log'[m].intent] = HashOf[log'[n].intent],
                          HasBroadcastEvidence(log'[m]), ~IsApproval(log'[m])
                   PROVE  n <= m
        BY DEF FirstOfHash
      <4>1. CASE m \in DOMAIN log
        <5>1. log'[m] = log[m]
          BY <1>1, <3>1, <4>1, AppendFacts
        <5> QED
          BY <3>2, <3>3, <4>1, <5>1 DEF FirstOfHash
      <4>2. CASE m = Len(log')
        BY <1>1, <3>1, <3>3, <4>2, AppendFacts
      <4> QED
        BY <1>1, <3>1, <4>1, <4>2, AppendFacts
    <3> QED
      BY <3>2, <3>3, <3>4 DEF CapitalGap
  <2> QED
    BY <1>1, <2>1, <2>2
<1>2. LogInv /\ [Next]_log =>
        [\A closed \in SUBSET Closable : \A activation \in Activations : \A s \in Strategies :
            CapitalGap(log, closed, activation, s) => CapitalGap(log', closed, activation, s)]_log
  BY <1>1
<1> QED
  BY <1>2, LogHolds, PTL DEF Spec, GapsOutliveRecords

\* A record outside a lane leaves the records that stand for its intents.
LEMMA LatestElsewhere ==
    ASSUME LogInv, NEW rec \in Record, log' = Append(log, rec),
           NEW s, NEW c, ~InLane(rec, s, c)
    PROVE  /\ Latest(log', s, c) = Latest(log, s, c)
           /\ Latest(log, s, c) \subseteq Classified(log, s, c)
           /\ Classified(log', s, c) = Classified(log, s, c)
           /\ \A n \in Classified(log, s, c) : log'[n] = log[n]
<1>1. Classified(log', s, c) = Classified(log, s, c)
  BY AppendFacts DEF Classified
<1>2. Classified(log, s, c) \subseteq DOMAIN log
  BY DEF Classified
<1>3. \A n \in Classified(log, s, c) : log'[n] = log[n]
  BY <1>2, AppendFacts
<1>4. \A m, n \in Classified(log, s, c) : NoLater(log', m, n) <=> NoLater(log, m, n)
  BY <1>3 DEF NoLater
<1> QED
  BY <1>1, <1>3, <1>4 DEF Latest

\* A record changes the streak of no lane but its own: a failure elsewhere
\* pauses no lane, and a success elsewhere releases none.
THEOREM LanesAreIndependentAlways == Spec => LanesAreIndependent
<1>1. ASSUME LogInv, [Next]_log, log' # log, NEW l \in Lanes,
             Streak(log', l[1], l[2]) # Streak(log, l[1], l[2])
      PROVE  /\ StrategyOf[LastRecord.intent] = l[1]
             /\ ChainOf[LastRecord.intent] \in {l[2], AllChains}
  <2>1. PICK rec \in Record : log' = Append(log, rec)
    BY <1>1, NextAppends
  <2>2. LastRecord = rec
    BY <1>1, <2>1, AppendFacts DEF LastRecord
  <2>3. InLane(rec, l[1], l[2])
    <3>1. SUFFICES ASSUME ~InLane(rec, l[1], l[2]) PROVE FALSE
      OBVIOUS
    <3>2. /\ Latest(log', l[1], l[2]) = Latest(log, l[1], l[2])
          /\ Latest(log, l[1], l[2]) \subseteq Classified(log, l[1], l[2])
          /\ Classified(log', l[1], l[2]) = Classified(log, l[1], l[2])
          /\ \A n \in Classified(log, l[1], l[2]) : log'[n] = log[n]
      BY <1>1, <2>1, <3>1, LatestElsewhere
    <3>3. ASSUME NEW m \in Latest(log, l[1], l[2]), NEW n \in Latest(log, l[1], l[2])
          PROVE  Precedes(log', l[1], l[2], m, n) <=> Precedes(log, l[1], l[2], m, n)
      BY <3>2 DEF Precedes
    <3>4. {n \in Latest(log', l[1], l[2]) :
              /\ Classify(log'[n]) = "failed"
              /\ \A m \in Latest(log', l[1], l[2]) :
                     Precedes(log', l[1], l[2], m, n) =>
                         Classify(log'[m]) \notin {"succeeded", "reset"}}
          = {n \in Latest(log, l[1], l[2]) :
              /\ Classify(log[n]) = "failed"
              /\ \A m \in Latest(log, l[1], l[2]) :
                     Precedes(log, l[1], l[2], m, n) =>
                         Classify(log[m]) \notin {"succeeded", "reset"}}
      BY <3>2, <3>3
    <3> QED
      BY <1>1, <3>4 DEF Streak
  <2> QED
    BY <2>2, <2>3 DEF InLane
<1>2. LogInv /\ [Next]_log =>
        [\A l \in Lanes :
            Streak(log', l[1], l[2]) # Streak(log, l[1], l[2]) =>
                /\ StrategyOf[LastRecord.intent] = l[1]
                /\ ChainOf[LastRecord.intent] \in {l[2], AllChains}]_log
  BY <1>1
<1> QED
  BY <1>2, LogHolds, PTL DEF Spec, LanesAreIndependent
=============================================================================
