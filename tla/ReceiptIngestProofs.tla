------------------------- MODULE ReceiptIngestProofs -------------------------
(***************************************************************************)
(* Proofs about the books of receipts, for every value of the constants.   *)
(***************************************************************************)
EXTENDS ReceiptIngest, FiniteSetTheorems, TLAPS

USE IngestAssumption

-----------------------------------------------------------------------------
(* The inductive invariant.                                                *)

\* What a run knows by where it is.
RunInv(r) ==
    /\ run[r] = "idle" => tx[r] = "none"
    /\ run[r] \in {"answered", "pricing"} => OnChain(r)
    /\ run[r] = "ingesting" /\ ~Job(r) => OnChain(r)
    /\ run[r] = "closing" => receipts[r] # <<>>

\* What a watcher knows of the transaction it is at.
WatchInv(w) ==
    LET at == watcher[w].at
        on == watcher[w].on
    IN
    /\ at \in {"matching", "appending", "pairing", "rereading", "finalizing"} =>
          on \in Request /\ OnChain(on)
    /\ at \in {"matching", "pairing", "rereading", "finalizing"} => receipts[on] # <<>>
    /\ at \in {"rereading", "finalizing"} => on \in closed \cup pending
    /\ \A r \in Request : watcher[w].known[r] # None => receipts[r] # <<>>

IInv ==
    /\ TypeOK /\ OutcomesRest
    /\ \A r \in Request : RunInv(r)
    /\ \A w \in Watcher : WatchInv(w)

-----------------------------------------------------------------------------
(* Types.                                                                  *)

LEMMA RecordsType ==
    ASSUME TypeOK, NEW r \in Request, NEW stage \in Stage, Records(r, stage)
    PROVE  stages' \in [Request -> SUBSET Stage]
<1>1. stages[r] \cup {stage} \in SUBSET Stage
  BY DEF TypeOK
<1> QED
  BY <1>1 DEF TypeOK, Records

LEMMA AppendsType ==
    ASSUME TypeOK, NEW r \in Request, NEW by \in Writer, NEW status \in Status,
           AppendsReceipt(r, by, status)
    PROVE  /\ receipts' \in [Request -> Seq([by : Writer, status : Status])]
           /\ receipts'[r] # <<>>
           /\ \A s \in Request : receipts[s] # <<>> => receipts'[s] # <<>>
<1>1. receipts[r] \in Seq([by : Writer, status : Status])
  BY DEF TypeOK
<1>2. Append(receipts[r], [by |-> by, status |-> status])
        \in Seq([by : Writer, status : Status])
  BY <1>1
<1>3. Append(receipts[r], [by |-> by, status |-> status]) # <<>>
  BY <1>1
<1>4. receipts' = [receipts EXCEPT ![r] = Append(receipts[r], [by |-> by, status |-> status])]
  BY DEF AppendsReceipt
<1>5. receipts \in [Request -> Seq([by : Writer, status : Status])]
  BY DEF TypeOK
<1> QED
  BY <1>2, <1>3, <1>4, <1>5

LEMMA HeadType ==
    ASSUME NEW S, NEW s \in Seq(S), s # <<>>
    PROVE  Head(s) \in S
OBVIOUS

LEMMA HeadStatus ==
    ASSUME TypeOK, NEW r \in Request, receipts[r] # <<>>
    PROVE  Head(receipts[r]).status \in Status
<1>1. receipts[r] \in Seq([by : Writer, status : Status])
  BY DEF TypeOK
<1>2. Head(receipts[r]) \in [by : Writer, status : Status]
  BY <1>1, HeadType
<1> QED
  BY <1>2

LEMMA StatusType == \A r \in Request : StatusOf(r) \subseteq Status
BY DEF StatusOf, Status

LEMMA NoRunType == NoRun.known \in [Request -> Status \cup {None}] /\ NoRun \in WatcherRun
BY DEF NoRun, WatcherRun

LEMMA CandidatesType == TypeOK => Candidates \subseteq Request
BY DEF TypeOK, Candidates

LEMMA TurnsType ==
    ASSUME TypeOK, NEW w \in Watcher,
           NEW to \in {"off", "settling", "matching", "loading", "looking", "appending",
                       "pairing", "rereading", "finalizing"},
           NEW todo \in SUBSET Request,
           NEW known \in [Request -> Status \cup {None}],
           NEW on \in Request \cup {None},
           Turns(w, to, todo, known, on)
    PROVE  /\ watcher' \in [Watcher -> WatcherRun]
           /\ watcher'[w] = [at |-> to, todo |-> todo, known |-> known, on |-> on]
           /\ \A v \in Watcher \ {w} : watcher'[v] = watcher[v]
           /\ UNCHANGED <<kind, tx, run, byHand>>
<1>1. [at |-> to, todo |-> todo, known |-> known, on |-> on] \in WatcherRun
  BY DEF WatcherRun
<1> QED
  BY <1>1 DEF TypeOK, Turns

LEMMA WatcherFields ==
    ASSUME TypeOK, NEW w \in Watcher
    PROVE  /\ watcher[w].todo \in SUBSET Request
           /\ watcher[w].known \in [Request -> Status \cup {None}]
           /\ watcher[w].on \in Request \cup {None}
BY DEF TypeOK, WatcherRun

RunType == [Request -> {"idle", "waiting", "ingesting", "closing", "answered",
                        "pricing", "over"}]

LEMMA GoesType ==
    ASSUME TypeOK, NEW r \in Request, NEW from,
           NEW to \in {"idle", "waiting", "ingesting", "closing", "answered", "pricing", "over"},
           Goes(r, from, to)
    PROVE  run' \in RunType
BY DEF TypeOK, Goes, RunType

LEMMA GoesTo ==
    ASSUME TypeOK, NEW r \in Request, NEW from, NEW to, Goes(r, from, to)
    PROVE  run[r] = from /\ run'[r] = to
BY DEF TypeOK, Goes

LEMMA RunTypes ==
    ASSUME TypeOK, NEW r \in Request, Run(r)
    PROVE  TypeOK'
<1>1. CASE Broadcasts(r)
  <2>1. stages' \in [Request -> SUBSET Stage]
    BY <1>1, RecordsType DEF Broadcasts, Stage
  <2>2. HashOf[r] \in Hash
    BY DEF Hash
  <2> QED
    BY <1>1, <2>1, <2>2 DEF Broadcasts, Goes, history, TypeOK
<1>2. CASE Rejects(r) \/ Confirms(r) \/ Reverts(r) \/ Fails(r)
  <2>1. PICK stage \in Stage : Records(r, stage)
    BY <1>2 DEF Rejects, Confirms, Reverts, Fails, Stage
  <2>2. stages' \in [Request -> SUBSET Stage]
    BY <2>1, RecordsType
  <2> QED
    BY <1>2, <2>2 DEF Rejects, Confirms, Reverts, Fails, Goes, history, TypeOK
<1>3. CASE TimesOut(r)
  <2>1. stages' \in [Request -> SUBSET Stage]
    BY <1>3, RecordsType DEF TimesOut, Stage
  <2>2. HashOf[r] \in Hash
    BY DEF Hash
  <2> QED
    BY <1>3, <2>1, <2>2 DEF TimesOut, Goes, history, TypeOK
<1>4. CASE Ingests(r) \/ IngestsJob(r) \/ ExecutorAppends(r)
  <2>1. PICK by \in Writer, status \in StatusOf(r) : AppendsReceipt(r, by, status)
    BY <1>4 DEF Ingests, IngestsJob, ExecutorAppends, Writer, Unchecked
  <2>2. status \in Status
    BY <2>1, StatusType
  <2>3. receipts' \in [Request -> Seq([by : Writer, status : Status])]
    BY <2>1, <2>2, AppendsType
  <2>4. run' \in RunType /\ UNCHANGED <<tx, stages, last, closed, pending>>
    BY <1>4, GoesType DEF Ingests, IngestsJob, ExecutorAppends
  <2>5. UNCHANGED <<kind, watcher, byHand, deaths, history>>
    BY <1>4 DEF Ingests, IngestsJob, ExecutorAppends, Goes
  <2> QED
    BY <2>3, <2>4, <2>5 DEF history, TypeOK, RunType
<1>5. CASE IngestFails(r) \/ ExecutorReads(r) \/ RunDies(r)
  <2>1. run' \in RunType
    <3>1. CASE IngestFails(r)
      BY <3>1, GoesType DEF IngestFails
    <3>2. CASE ExecutorReads(r)
      BY <3>2, GoesType DEF ExecutorReads
    <3>3. CASE RunDies(r)
      BY <3>3, GoesType DEF RunDies
    <3> QED
      BY <1>5, <3>1, <3>2, <3>3
  <2>2. UNCHANGED <<kind, tx, books, watcher, byHand, deaths, history>>
    BY <1>5 DEF IngestFails, ExecutorReads, RunDies, Goes
  <2> QED
    BY <2>1, <2>2 DEF books, history, TypeOK, RunType
<1>6. CASE Closes(r)
  BY <1>6 DEF Closes, Goes, history, TypeOK
<1> QED
  BY <1>1, <1>2, <1>3, <1>4, <1>5, <1>6 DEF Run

LEMMA WatchTypes ==
    ASSUME TypeOK, NEW w \in Watcher, WatchInv(w), Watch(w) \/ WatcherDies(w)
    PROVE  TypeOK'
<1> USE WatcherFields, NoRunType
<1>1. CASE WatcherStarts(w) \/ NoProof(w) \/ ReadsAudit(w) \/ MisreadsReceipts(w)
           \/ FindsNothing(w) \/ WatcherEnds(w) \/ Rereads(w)
  <2>1. watcher' \in [Watcher -> WatcherRun] /\ UNCHANGED <<kind, tx, run, byHand>>
    <3>1. CASE WatcherStarts(w)
      BY <3>1, TurnsType DEF WatcherStarts, Watches, TypeOK
    <3>2. CASE NoProof(w)
      BY <3>2, TurnsType DEF NoProof, Watches
    <3>3. CASE ReadsAudit(w)
      BY <3>3, TurnsType, CandidatesType DEF ReadsAudit, Watches
    <3>4. CASE MisreadsReceipts(w)
      BY <3>4, TurnsType DEF MisreadsReceipts, Watches
    <3>5. CASE FindsNothing(w)
      BY <3>5, TurnsType DEF FindsNothing, Watches
    <3>6. CASE WatcherEnds(w)
      BY <3>6, TurnsType DEF WatcherEnds, Watches
    <3>7. CASE Rereads(w)
      BY <3>7, TurnsType DEF Rereads, Moves, Watches
    <3> QED
      BY <1>1, <3>1, <3>2, <3>3, <3>4, <3>5, <3>6, <3>7
  <2>2. UNCHANGED <<books, deaths, finalized>> /\ blind' \subseteq blind \cup {w}
    BY <1>1 DEF WatcherStarts, NoProof, ReadsAudit, MisreadsReceipts, FindsNothing,
                WatcherEnds, Rereads, Moves, Watches, history
  <2> QED
    BY <2>1, <2>2 DEF TypeOK, books
<1>2. CASE Settles(w)
  <2>1. PICK r \in watcher[w].todo :
          /\ Watches(w, "settling", "matching", watcher[w].todo \ {r}, NoRun.known, r)
          /\ AppendsReceipt(r, "settlement", "pending_output")
    BY <1>2 DEF Settles
  <2>2. watcher' \in [Watcher -> WatcherRun] /\ UNCHANGED <<kind, tx, run, byHand, deaths>>
    BY <2>1, TurnsType DEF Watches
  <2>3. receipts' \in [Request -> Seq([by : Writer, status : Status])]
    BY <2>1, AppendsType DEF Writer, Unchecked, Status
  <2> QED
    BY <1>2, <2>2, <2>3 DEF Settles, history, TypeOK
<1>3. CASE ClosesSettled(w) \/ AppendsPair(w)
  <2>1. watcher' \in [Watcher -> WatcherRun] /\ UNCHANGED <<kind, tx, run, byHand, deaths>>
    BY <1>3, TurnsType DEF ClosesSettled, AppendsPair, Moves, Watches
  <2>2. watcher[w].on \in Request
    BY <1>3 DEF ClosesSettled, AppendsPair, Moves, Watches, WatchInv
  <2>3. closed' \subseteq closed \cup {watcher[w].on} /\ pending' \subseteq pending \cup {watcher[w].on}
    BY <1>3 DEF ClosesSettled, AppendsPair
  <2>4. UNCHANGED <<stages, last, receipts, finalized, blind>>
    BY <1>3 DEF ClosesSettled, AppendsPair, history
  <2> QED
    BY <2>1, <2>2, <2>3, <2>4 DEF TypeOK
<1>4. CASE ReadsReceipts(w)
  <2> DEFINE known == [r \in Request |-> IF r \in watcher[w].todo /\ receipts[r] # <<>>
                                         THEN Head(receipts[r]).status ELSE None]
  <2>1. \A r \in Request : receipts[r] # <<>> => Head(receipts[r]).status \in Status
    BY HeadStatus
  <2>2. known \in [Request -> Status \cup {None}]
    BY <2>1
  <2>3. Watches(w, "loading", "looking", watcher[w].todo, known, None)
    BY <1>4 DEF ReadsReceipts
  <2>4. watcher' \in [Watcher -> WatcherRun] /\ UNCHANGED <<kind, tx, run, byHand, deaths>>
    <3> HIDE DEF known
    <3> QED
      BY <2>2, <2>3, TurnsType DEF Watches
  <2> QED
    BY <1>4, <2>4 DEF ReadsReceipts, books, history, TypeOK
<1>5. CASE Finds(w)
  <2>1. \A r \in Request :
          IF watcher[w].known[r] = "pending_output" THEN {"pending_output", "reconciled"} \subseteq Status
                                                    ELSE {watcher[w].known[r]} \subseteq Status \cup {None}
    BY DEF Status
  <2>2. PICK r \in watcher[w].todo, status \in Status \cup {None} :
          Watches(w, "looking", IF watcher[w].known[r] = None THEN "appending" ELSE "pairing",
                  watcher[w].todo \ {r}, [watcher[w].known EXCEPT ![r] = status], r)
    BY <1>5, <2>1 DEF Finds
  <2>3. watcher' \in [Watcher -> WatcherRun] /\ UNCHANGED <<kind, tx, run, byHand, deaths>>
    BY <2>2, TurnsType DEF Watches
  <2> QED
    BY <1>5, <2>3 DEF Finds, books, history, TypeOK
<1>6. CASE AppendsFound(w)
  <2>1. watcher[w].on \in Request
    BY <1>6 DEF AppendsFound, WatchInv
  <2>2. PICK status \in Status :
          /\ Watches(w, "appending", "pairing", watcher[w].todo,
                     [watcher[w].known EXCEPT ![watcher[w].on] = status], watcher[w].on)
          /\ AppendsReceipt(watcher[w].on, w, status)
    BY <1>6, <2>1, StatusType DEF AppendsFound
  <2>3. watcher' \in [Watcher -> WatcherRun] /\ UNCHANGED <<kind, tx, run, byHand, deaths>>
    BY <2>1, <2>2, TurnsType DEF Watches
  <2>4. receipts' \in [Request -> Seq([by : Writer, status : Status])]
    BY <2>1, <2>2, AppendsType DEF Writer
  <2> QED
    BY <1>6, <2>3, <2>4 DEF AppendsFound, history, TypeOK
<1>7. CASE Finalizes(w)
  <2>1. watcher[w].on \in Request
    BY <1>7 DEF Finalizes, Watches, WatchInv
  <2>2. watcher' \in [Watcher -> WatcherRun] /\ UNCHANGED <<kind, tx, run, byHand, deaths>>
    BY <1>7, TurnsType DEF Finalizes, Watches
  <2>3. stages' \in [Request -> SUBSET Stage]
    BY <1>7, <2>1, RecordsType DEF Finalizes, Outcome, Stage
  <2> QED
    BY <1>7, <2>1, <2>2, <2>3 DEF Finalizes, TypeOK
<1>8. CASE WatcherDies(w)
  <2>1. watcher' \in [Watcher -> WatcherRun] /\ UNCHANGED <<kind, tx, run, byHand>>
    BY <1>8, TurnsType DEF WatcherDies
  <2>2. deaths' \in 0..MaxDeaths
    BY <1>8 DEF WatcherDies, TypeOK
  <2> QED
    BY <1>8, <2>1, <2>2 DEF WatcherDies, books, history, TypeOK
<1> QED
  BY <1>1, <1>2, <1>3, <1>4, <1>5, <1>6, <1>7, <1>8 DEF Watch

LEMMA RestTypes ==
    ASSUME TypeOK, NEW r \in Request, Mined(r) \/ IngestsByHand(r)
    PROVE  TypeOK'
<1>1. CASE Mined(r)
  <2>1. tx' \in [Request -> {"none", "sent", "mined", "reverted"}]
    BY <1>1 DEF Mined, TypeOK
  <2> QED
    BY <1>1, <2>1 DEF Mined, books, history, TypeOK
<1>2. CASE IngestsByHand(r)
  <2>1. PICK status \in Status : AppendsReceipt(r, "command", status)
    BY <1>2, StatusType DEF IngestsByHand
  <2>2. receipts' \in [Request -> Seq([by : Writer, status : Status])]
    BY <2>1, AppendsType DEF Writer, Unchecked
  <2> QED
    BY <1>2, <2>2 DEF IngestsByHand, history, TypeOK
<1> QED
  BY <1>1, <1>2

-----------------------------------------------------------------------------
(* What a step leaves true of the runs and watchers it does not move.      *)

\* Nothing in the books is taken back, and no transaction is sent unsent.
Grows ==
    /\ kind' = kind
    /\ \A r \in Request :
          /\ receipts[r] # <<>> => receipts'[r] # <<>>
          /\ OnChain(r) => tx'[r] = tx[r]
    /\ closed \subseteq closed' /\ pending \subseteq pending'

LEMMA WatcherKept ==
    ASSUME TypeOK, NEW w \in Watcher, WatchInv(w), watcher'[w] = watcher[w], Grows
    PROVE  WatchInv(w)'
BY DEF WatchInv, Grows, OnChain

LEMMA WatchersKept ==
    ASSUME TypeOK, \A w \in Watcher : WatchInv(w), watcher' = watcher, Grows
    PROVE  \A w \in Watcher : WatchInv(w)'
BY WatcherKept

LEMMA RunKept ==
    ASSUME TypeOK, NEW r \in Request, RunInv(r), run'[r] = run[r], Grows,
           tx[r] = "none" => tx'[r] = "none"
    PROVE  RunInv(r)'
BY DEF RunInv, Grows, OnChain, Job

LEMMA AppendsGrows ==
    ASSUME TypeOK, NEW r \in Request, NEW by \in Writer, NEW status \in Status,
           AppendsReceipt(r, by, status), UNCHANGED <<kind, tx, closed, pending>>
    PROVE  Grows /\ receipts'[r] # <<>>
BY AppendsType DEF Grows

-----------------------------------------------------------------------------
(* The runs.                                                               *)

LEMMA RunSteps ==
    ASSUME IInv, NEW r \in Request, Run(r)
    PROVE  IInv'
<1> USE DEF IInv
<1>1. TypeOK'
  BY RunTypes
<1>2. UNCHANGED <<kind, watcher, finalized>>
  BY DEF Run, Broadcasts, Rejects, Confirms, Reverts, TimesOut, Fails, Ingests, IngestsJob,
         IngestFails, Closes, ExecutorReads, ExecutorAppends, RunDies, Goes, history
<1>3. run \in [Request -> {"idle", "waiting", "ingesting", "closing", "answered", "pricing",
                           "over"}]
  BY DEF TypeOK
<1>4. \A s \in Request \ {r} : run'[s] = run[s]
  BY <1>3 DEF Run, Broadcasts, Rejects, Confirms, Reverts, TimesOut, Fails, Ingests, IngestsJob,
         IngestFails, Closes, ExecutorReads, ExecutorAppends, RunDies, Goes
<1>5. Grows /\ \A s \in Request \ {r} : tx'[s] = tx[s]
  <2>1. CASE Broadcasts(r)
    <3>1. tx[r] = "none"
      BY <2>1 DEF Broadcasts, Goes, RunInv
    <3> QED
      BY <2>1, <3>1 DEF Broadcasts, Goes, Grows, OnChain, TypeOK
  <2>2. CASE Rejects(r) \/ Confirms(r) \/ Reverts(r) \/ TimesOut(r) \/ Fails(r) \/ IngestFails(r)
             \/ Closes(r) \/ ExecutorReads(r) \/ RunDies(r)
    <3>1. UNCHANGED <<tx, receipts, pending>> /\ closed \subseteq closed'
      BY <2>2 DEF Rejects, Confirms, Reverts, TimesOut, Fails, IngestFails, Closes,
                  ExecutorReads, RunDies, books
    <3> QED
      BY <1>2, <3>1 DEF Grows
  <2>3. CASE Ingests(r) \/ IngestsJob(r) \/ ExecutorAppends(r)
    <3>1. PICK by \in Writer, status \in StatusOf(r) : AppendsReceipt(r, by, status)
      BY <2>3 DEF Ingests, IngestsJob, ExecutorAppends, Writer, Unchecked
    <3>2. UNCHANGED <<kind, tx, closed, pending>>
      BY <2>3, <1>2 DEF Ingests, IngestsJob, ExecutorAppends
    <3> QED
      BY <3>1, <3>2, AppendsGrows, StatusType
  <2> QED
    BY <2>1, <2>2, <2>3 DEF Run
<1>6. \A s \in Request : RunInv(s)'
  <2> SUFFICES ASSUME NEW s \in Request PROVE RunInv(s)'
    OBVIOUS
  <2>1. CASE s # r
    BY <2>1, <1>4, <1>5, RunKept
  <2>2. CASE s = r
    <3>1. CASE Broadcasts(r) \/ Rejects(r) \/ Reverts(r) \/ TimesOut(r) \/ Fails(r)
               \/ IngestsJob(r) \/ IngestFails(r) \/ Closes(r) \/ ExecutorAppends(r) \/ RunDies(r)
      <4>1. \/ run'[r] \in {"waiting", "over"}
            \/ run'[r] = "ingesting" /\ Job(r)
            \/ run'[r] = "answered" /\ OnChain(r) /\ tx'[r] = tx[r]
        <5>1. CASE Broadcasts(r)
          BY <5>1, GoesTo DEF Broadcasts
        <5>2. CASE Reverts(r)
          BY <5>2, GoesTo DEF Reverts, OnChain
        <5>3. CASE Rejects(r) \/ TimesOut(r) \/ Fails(r) \/ IngestsJob(r) \/ IngestFails(r)
                   \/ Closes(r) \/ ExecutorAppends(r) \/ RunDies(r)
          BY <5>3, GoesTo DEF Rejects, TimesOut, Fails, IngestsJob, IngestFails, Closes,
                              ExecutorAppends, RunDies
        <5> QED
          BY <3>1, <5>1, <5>2, <5>3
      <4> QED
        BY <2>2, <4>1, <1>2 DEF RunInv, Job, OnChain
    <3>2. CASE Confirms(r)
      BY <2>2, <3>2, <1>3 DEF Confirms, Goes, RunInv, OnChain
    <3>3. CASE ExecutorReads(r)
      BY <2>2, <3>3, <1>3 DEF ExecutorReads, Goes, RunInv, OnChain
    <3>4. CASE Ingests(r)
      <4>1. PICK status \in Status : AppendsReceipt(r, "daemon", status)
        BY <3>4, StatusType DEF Ingests
      <4>2. receipts'[r] # <<>>
        BY <4>1, AppendsType DEF Writer, Unchecked
      <4>3. run'[r] = "closing"
        BY <3>4, <1>3 DEF Ingests, Goes
      <4> QED
        BY <2>2, <4>2, <4>3 DEF RunInv
    <3> QED
      BY <3>1, <3>2, <3>3, <3>4 DEF Run
  <2> QED
    BY <2>1, <2>2
<1>7. \A w \in Watcher : WatchInv(w)'
  BY <1>2, <1>5, WatchersKept
<1>8. OutcomesRest'
  <2>1. (finalized \subseteq closed \cup pending)'
    BY <1>2, <1>5 DEF OutcomesRest, Grows
  <2>2. \A s \in Request : s \in closed' \cup pending' => receipts'[s] # <<>>
    <3>1. CASE Closes(r)
      BY <3>1, <1>5 DEF Closes, Goes, RunInv, OutcomesRest, Grows
    <3>2. CASE ~Closes(r)
      <4>1. UNCHANGED <<closed, pending>>
        BY <3>2 DEF Run, Broadcasts, Rejects, Confirms, Reverts, TimesOut, Fails, Ingests,
               IngestsJob, IngestFails, ExecutorReads, ExecutorAppends, RunDies, books
      <4> QED
        BY <4>1, <1>5 DEF OutcomesRest, Grows
    <3> QED
      BY <3>1, <3>2
  <2>3. \A s \in Request : receipts'[s] # <<>> => OnChain(s)'
    <3>1. CASE Ingests(r) \/ IngestsJob(r) \/ ExecutorAppends(r)
      <4>1. OnChain(r) /\ UNCHANGED tx
        BY <3>1 DEF Ingests, IngestsJob, ExecutorAppends, Goes, RunInv
      <4>2. \A s \in Request \ {r} : receipts'[s] = receipts[s]
        BY <3>1 DEF Ingests, IngestsJob, ExecutorAppends, AppendsReceipt, TypeOK
      <4> QED
        BY <4>1, <4>2 DEF OutcomesRest, OnChain
    <3>2. CASE ~(Ingests(r) \/ IngestsJob(r) \/ ExecutorAppends(r))
      <4>1. UNCHANGED receipts
        BY <3>2 DEF Run, Broadcasts, Rejects, Confirms, Reverts, TimesOut, Fails, IngestFails,
               Closes, ExecutorReads, RunDies, books
      <4> QED
        BY <4>1, <1>5 DEF OutcomesRest, Grows, OnChain
    <3> QED
      BY <3>1, <3>2
  <2>4. \A s \in Request : /\ "confirmed" \in stages'[s] => tx'[s] = "mined"
                           /\ "reverted" \in stages'[s] => tx'[s] = "reverted"
    <3>1. \A s \in Request \ {r} : stages'[s] = stages[s]
      BY DEF Run, Broadcasts, Rejects, Confirms, Reverts, TimesOut, Fails, Ingests, IngestsJob,
             IngestFails, Closes, ExecutorReads, ExecutorAppends, RunDies, books, Records, TypeOK
    <3>2. /\ "confirmed" \in stages'[r] => tx'[r] = "mined"
          /\ "reverted" \in stages'[r] => tx'[r] = "reverted"
      <4>1. CASE Confirms(r) \/ Reverts(r)
        BY <4>1 DEF Confirms, Reverts, Records, TypeOK, OutcomesRest
      <4>2. CASE ~(Confirms(r) \/ Reverts(r))
        <5>1. stages'[r] \subseteq stages[r] \cup {"broadcasted", "confirmation_pending", "error"}
          BY <4>2 DEF Run, Broadcasts, Rejects, TimesOut, Fails, Ingests, IngestsJob,
                 IngestFails, Closes, ExecutorReads, ExecutorAppends, RunDies, books, Records, TypeOK
        <5> QED
          BY <5>1, <1>5 DEF OutcomesRest, Grows, OnChain
      <4> QED
        BY <4>1, <4>2
    <3> QED
      BY <3>1, <3>2, <1>5 DEF OutcomesRest
  <2>5. (closed \cup pending \subseteq Request)'
    BY <1>1 DEF TypeOK
  <2> QED
    BY <2>1, <2>2, <2>3, <2>4, <2>5 DEF OutcomesRest
<1> QED
  BY <1>1, <1>6, <1>7, <1>8

-----------------------------------------------------------------------------
(* The watchers.                                                           *)

LEMMA MovedWatcher ==
    ASSUME TypeOK, \A v \in Watcher : WatchInv(v), \A r \in Request : RunInv(r),
           NEW w \in Watcher,
           NEW to \in {"off", "settling", "matching", "loading", "looking", "appending",
                       "pairing", "rereading", "finalizing"},
           NEW todo \in SUBSET Request,
           NEW known \in [Request -> Status \cup {None}],
           NEW on \in Request \cup {None},
           Turns(w, to, todo, known, on), Grows,
           to \in {"matching", "appending", "pairing", "rereading", "finalizing"} =>
              on \in Request /\ OnChain(on),
           to \in {"matching", "pairing", "rereading", "finalizing"} => receipts'[on] # <<>>,
           to \in {"rereading", "finalizing"} => on \in closed' \cup pending',
           \A r \in Request : known[r] # None => receipts'[r] # <<>>
    PROVE  /\ \A v \in Watcher : WatchInv(v)'
           /\ \A r \in Request : RunInv(r)'
<1>1. /\ watcher'[w] = [at |-> to, todo |-> todo, known |-> known, on |-> on]
      /\ \A v \in Watcher \ {w} : watcher'[v] = watcher[v]
      /\ UNCHANGED <<kind, tx, run>>
  BY DEF TypeOK, Turns
<1>2. WatchInv(w)'
  BY <1>1 DEF WatchInv, OnChain
<1>3. \A v \in Watcher \ {w} : WatchInv(v)'
  BY <1>1, WatcherKept
<1>4. \A r \in Request : RunInv(r)'
  BY <1>1, RunKept
<1> QED
  BY <1>2, <1>3, <1>4

\* A step that appends nothing.
LEMMA QuietWatcher ==
    ASSUME IInv, UNCHANGED <<kind, tx, books, finalized>>
    PROVE  Grows /\ OutcomesRest'
BY DEF IInv, Grows, OutcomesRest, OnChain, books

\* A step that appends a receipt of a transaction on chain.
LEMMA ReceiptAppended ==
    ASSUME IInv, NEW r \in Request, OnChain(r), NEW by \in Writer, NEW status \in Status,
           AppendsReceipt(r, by, status),
           UNCHANGED <<kind, tx, stages, closed, pending, finalized>>
    PROVE  Grows /\ OutcomesRest' /\ receipts'[r] # <<>>
<1>1. Grows /\ receipts'[r] # <<>>
  BY AppendsGrows DEF IInv
<1>2. \A s \in Request \ {r} : receipts'[s] = receipts[s]
  BY DEF AppendsReceipt, IInv, TypeOK
<1>3. closed \cup pending \subseteq Request
  BY DEF IInv, TypeOK
<1> QED
  BY <1>1, <1>2, <1>3 DEF IInv, Grows, OutcomesRest, OnChain

LEMMA WatchSteps ==
    ASSUME IInv, NEW w \in Watcher, Watch(w) \/ WatcherDies(w)
    PROVE  IInv'
<1>0. TypeOK /\ OutcomesRest /\ (\A r \in Request : RunInv(r)) /\ (\A v \in Watcher : WatchInv(v))
  BY DEF IInv
<1>1. TypeOK'
  BY <1>0, WatchTypes
<1> DEFINE Kept == /\ \A v \in Watcher : WatchInv(v)'
                   /\ \A r \in Request : RunInv(r)'
<1>2. WatchInv(w)
  BY <1>0
<1>3. /\ watcher[w].todo \in SUBSET Request
      /\ watcher[w].known \in [Request -> Status \cup {None}]
      /\ watcher[w].on \in Request \cup {None}
      /\ \A r \in Request : watcher[w].known[r] # None => receipts[r] # <<>>
      /\ NoRun.known \in [Request -> Status \cup {None}]
      /\ \A r \in Request : NoRun.known[r] = None
  BY <1>0, <1>2, WatcherFields, NoRunType DEF WatchInv, NoRun
<1>4. CASE WatcherStarts(w) \/ NoProof(w) \/ ReadsAudit(w) \/ MisreadsReceipts(w)
           \/ FindsNothing(w) \/ WatcherEnds(w) \/ WatcherDies(w)
  <2>1. UNCHANGED <<kind, tx, books, finalized>>
    BY <1>4 DEF WatcherStarts, NoProof, ReadsAudit, MisreadsReceipts, FindsNothing,
                WatcherEnds, WatcherDies, Watches, Turns, history
  <2>2. Grows /\ OutcomesRest' /\ receipts' = receipts
    BY <2>1, QuietWatcher DEF books
  <2>3. PICK to \in {"off", "settling", "loading", "looking"}, todo \in SUBSET Request,
             known \in {watcher[w].known, NoRun.known} : Turns(w, to, todo, known, None)
    <3>1. CASE WatcherStarts(w)
      BY <3>1, <1>0 DEF WatcherStarts, Watches, TypeOK
    <3>2. CASE NoProof(w)
      BY <3>2, <1>3 DEF NoProof, Watches
    <3>3. CASE ReadsAudit(w)
      BY <3>3, <1>0, CandidatesType DEF ReadsAudit, Watches
    <3>4. CASE MisreadsReceipts(w)
      BY <3>4, <1>3 DEF MisreadsReceipts, Watches
    <3>5. CASE FindsNothing(w)
      BY <3>5, <1>3 DEF FindsNothing, Watches
    <3>6. CASE WatcherEnds(w)
      BY <3>6 DEF WatcherEnds, Watches
    <3>7. CASE WatcherDies(w)
      BY <3>7 DEF WatcherDies
    <3> QED
      BY <1>4, <3>1, <3>2, <3>3, <3>4, <3>5, <3>6, <3>7
  <2>4. Kept
    BY <2>2, <2>3, <1>0, <1>3, MovedWatcher
  <2> QED
    BY <1>1, <2>2, <2>4 DEF IInv
<1>5. CASE ReadsReceipts(w)
  <2> DEFINE known == [r \in Request |-> IF r \in watcher[w].todo /\ receipts[r] # <<>>
                                         THEN Head(receipts[r]).status ELSE None]
  <2>1. Grows /\ OutcomesRest' /\ receipts' = receipts
    BY <1>5, QuietWatcher DEF ReadsReceipts, Watches, Turns, books, history
  <2>2. Turns(w, "looking", watcher[w].todo, known, None)
    BY <1>5 DEF ReadsReceipts, Watches
  <2>3. known \in [Request -> Status \cup {None}]
    BY <1>0, HeadStatus
  <2>4. \A r \in Request : known[r] # None => receipts[r] # <<>>
    OBVIOUS
  <2>5. Kept
    <3> HIDE DEF known
    <3> QED
      BY <2>1, <2>2, <2>3, <2>4, <1>0, <1>3, MovedWatcher
  <2> QED
    BY <1>1, <2>1, <2>5 DEF IInv
<1>6. CASE Settles(w)
  <2>1. PICK r \in watcher[w].todo :
          /\ tx[r] = "mined"
          /\ Watches(w, "settling", "matching", watcher[w].todo \ {r}, NoRun.known, r)
          /\ AppendsReceipt(r, "settlement", "pending_output")
    BY <1>6 DEF Settles
  <2>2. r \in Request /\ OnChain(r)
    BY <1>3, <2>1 DEF OnChain
  <2>3. UNCHANGED <<kind, tx, stages, closed, pending, finalized>>
    BY <1>6, <2>1 DEF Settles, Watches, Turns, history
  <2>4. Grows /\ OutcomesRest' /\ receipts'[r] # <<>>
    BY <2>1, <2>2, <2>3, ReceiptAppended DEF Writer, Unchecked, Status
  <2>5. Kept
    BY <2>1, <2>2, <2>4, <1>0, <1>3, MovedWatcher DEF Watches
  <2> QED
    BY <1>1, <2>4, <2>5 DEF IInv
<1>7. CASE ClosesSettled(w)
  <2>1. /\ watcher[w].at = "matching"
        /\ Turns(w, "settling", watcher[w].todo, NoRun.known, None)
        /\ closed' = closed \cup {watcher[w].on}
        /\ UNCHANGED <<kind, tx, stages, receipts, pending, finalized>>
    BY <1>7 DEF ClosesSettled, Watches, Turns, history
  <2>2. watcher[w].on \in Request /\ receipts[watcher[w].on] # <<>>
    BY <1>2, <2>1 DEF WatchInv
  <2>3. Grows
    BY <2>1 DEF Grows
  <2>4. OutcomesRest'
    BY <1>0, <2>1, <2>2 DEF OutcomesRest, OnChain
  <2>5. Kept
    BY <2>1, <2>3, <1>0, <1>3, MovedWatcher
  <2> QED
    BY <1>1, <2>4, <2>5 DEF IInv
<1>8. CASE Finds(w)
  <2>1. PICK r \in watcher[w].todo :
          /\ OnChain(r)
          /\ \E status \in IF watcher[w].known[r] = "pending_output"
                           THEN {"pending_output", "reconciled"} ELSE {watcher[w].known[r]} :
                Turns(w, IF watcher[w].known[r] = None THEN "appending" ELSE "pairing",
                      watcher[w].todo \ {r}, [watcher[w].known EXCEPT ![r] = status], r)
    BY <1>8 DEF Finds, Watches
  <2>2. PICK status \in IF watcher[w].known[r] = "pending_output"
                        THEN {"pending_output", "reconciled"} ELSE {watcher[w].known[r]} :
          Turns(w, IF watcher[w].known[r] = None THEN "appending" ELSE "pairing",
                watcher[w].todo \ {r}, [watcher[w].known EXCEPT ![r] = status], r)
    BY <2>1
  <2>3. r \in Request
    BY <1>3, <2>1
  <2>4. status \in Status \cup {None} /\ (status # None => watcher[w].known[r] # None)
    BY <1>3, <2>2, <2>3 DEF Status
  <2>5. [watcher[w].known EXCEPT ![r] = status] \in [Request -> Status \cup {None}]
    BY <1>3, <2>3, <2>4
  <2>6. Grows /\ OutcomesRest' /\ receipts' = receipts
    BY <1>8, <2>2, QuietWatcher DEF Finds, Turns, books, history
  <2>7. \A s \in Request : [watcher[w].known EXCEPT ![r] = status][s] # None => receipts[s] # <<>>
    BY <1>3, <2>3, <2>4
  <2>8. Kept
    <3>1. CASE watcher[w].known[r] = None
      BY <3>1, <2>1, <2>2, <2>3, <2>5, <2>6, <2>7, <1>0, <1>3, MovedWatcher
    <3>2. CASE watcher[w].known[r] # None
      <4>1. receipts[r] # <<>>
        BY <3>2, <2>3, <1>3
      <4> QED
        BY <3>2, <4>1, <2>1, <2>2, <2>3, <2>5, <2>6, <2>7, <1>0, <1>3, MovedWatcher
    <3> QED
      BY <3>1, <3>2
  <2> QED
    BY <1>1, <2>6, <2>8 DEF IInv
<1>9. CASE AppendsFound(w)
  <2> DEFINE r == watcher[w].on
  <2>1. watcher[w].at = "appending" /\ r \in Request /\ OnChain(r)
    BY <1>2, <1>9 DEF AppendsFound, WatchInv
  <2>2. PICK status \in Status :
          /\ Turns(w, "pairing", watcher[w].todo, [watcher[w].known EXCEPT ![r] = status], r)
          /\ AppendsReceipt(r, w, status)
    BY <1>9, <2>1, StatusType DEF AppendsFound, Watches
  <2>3. UNCHANGED <<kind, tx, stages, closed, pending, finalized>>
    BY <1>9, <2>2 DEF AppendsFound, Turns, history
  <2> HIDE DEF r
  <2>4. Grows /\ OutcomesRest' /\ receipts'[r] # <<>>
    BY <2>1, <2>2, <2>3, ReceiptAppended DEF Writer
  <2>5. [watcher[w].known EXCEPT ![r] = status] \in [Request -> Status \cup {None}]
    BY <1>3, <2>1
  <2>6. \A s \in Request : [watcher[w].known EXCEPT ![r] = status][s] # None => receipts'[s] # <<>>
    BY <1>3, <2>1, <2>4 DEF Grows
  <2>7. Kept
    BY <2>1, <2>2, <2>4, <2>5, <2>6, <1>0, MovedWatcher, <1>3
  <2> QED
    BY <1>1, <2>4, <2>7 DEF IInv
<1>10. CASE AppendsPair(w)
  <2> DEFINE r == watcher[w].on
  <2>1. /\ watcher[w].at = "pairing"
        /\ Turns(w, "rereading", watcher[w].todo, watcher[w].known, r)
        /\ UNCHANGED <<kind, tx, stages, receipts, finalized>>
    BY <1>10 DEF AppendsPair, Moves, Watches, Turns, history
  <2>2. \/ closed' = closed \cup {r} /\ pending' = pending
        \/ pending' = pending \cup {r} /\ closed' = closed
    BY <1>10 DEF AppendsPair
  <2>3. r \in Request /\ OnChain(r) /\ receipts[r] # <<>>
    BY <1>2, <2>1 DEF WatchInv
  <2> HIDE DEF r
  <2>4. Grows
    BY <2>1, <2>2 DEF Grows
  <2>5. OutcomesRest'
    BY <1>0, <2>1, <2>2, <2>3 DEF OutcomesRest, OnChain
  <2>6. Kept
    BY <2>1, <2>2, <2>3, <2>4, <1>0, <1>3, MovedWatcher
  <2> QED
    BY <1>1, <2>5, <2>6 DEF IInv
<1>11. CASE Rereads(w)
  <2> DEFINE r == watcher[w].on
  <2>1. watcher[w].at = "rereading"
    BY <1>11 DEF Rereads
  <2>2. \/ Turns(w, "looking", watcher[w].todo, watcher[w].known, None)
        \/ Turns(w, "finalizing", watcher[w].todo, watcher[w].known, r)
    BY <1>11 DEF Rereads, Moves, Watches
  <2>3. r \in Request /\ OnChain(r) /\ receipts[r] # <<>> /\ r \in closed \cup pending
    BY <1>2, <2>1 DEF WatchInv
  <2>4. Grows /\ OutcomesRest' /\ UNCHANGED <<receipts, closed, pending>>
    BY <1>11, <2>2, QuietWatcher DEF Rereads, Turns, books, history
  <2> HIDE DEF r
  <2>5. CASE Turns(w, "looking", watcher[w].todo, watcher[w].known, None)
    <3>1. Kept
      BY <2>4, <2>5, <1>0, <1>3, MovedWatcher
    <3> QED
      BY <1>1, <2>4, <3>1 DEF IInv
  <2>6. CASE Turns(w, "finalizing", watcher[w].todo, watcher[w].known, r)
    <3>1. Kept
      BY <2>3, <2>4, <2>6, <1>0, <1>3, MovedWatcher
    <3> QED
      BY <1>1, <2>4, <3>1 DEF IInv
  <2> QED
    BY <2>2, <2>5, <2>6
<1>12. CASE Finalizes(w)
  <2> DEFINE r == watcher[w].on
  <2>1. /\ watcher[w].at = "finalizing"
        /\ Turns(w, "looking", watcher[w].todo, watcher[w].known, None)
        /\ Records(r, Outcome(r)) /\ finalized' = finalized \cup {r}
        /\ UNCHANGED <<kind, tx, receipts, closed, pending>>
    BY <1>12 DEF Finalizes, Watches, Turns
  <2>2. r \in Request /\ OnChain(r) /\ r \in closed \cup pending
    BY <1>2, <2>1 DEF WatchInv
  <2> HIDE DEF r
  <2>3. Grows
    BY <2>1 DEF Grows
  <2>4. \A s \in Request : /\ "confirmed" \in stages'[s] => tx'[s] = "mined"
                           /\ "reverted" \in stages'[s] => tx'[s] = "reverted"
    <3>1. \A s \in Request \ {r} : stages'[s] = stages[s]
      BY <1>0, <2>1 DEF Records, TypeOK
    <3>2. stages'[r] = stages[r] \cup {Outcome(r)}
      BY <1>0, <2>1, <2>2 DEF Records, TypeOK
    <3>3. \/ tx[r] = "mined" /\ Outcome(r) = "confirmed"
          \/ tx[r] = "reverted" /\ Outcome(r) = "reverted"
      BY <2>2 DEF OnChain, Outcome
    <3> QED
      BY <3>1, <3>2, <3>3, <1>0, <2>1, <2>2 DEF OutcomesRest
  <2>5. OutcomesRest'
    BY <1>0, <2>1, <2>2, <2>4 DEF OutcomesRest, OnChain
  <2>6. Kept
    BY <2>1, <2>3, <1>0, <1>3, MovedWatcher
  <2> QED
    BY <1>1, <2>5, <2>6 DEF IInv
<1> QED
  BY <1>4, <1>5, <1>6, <1>7, <1>8, <1>9, <1>10, <1>11, <1>12 DEF Watch

LEMMA RestSteps ==
    ASSUME IInv, NEW r \in Request, Mined(r) \/ IngestsByHand(r)
    PROVE  IInv'
<1>0. TypeOK /\ OutcomesRest /\ (\A s \in Request : RunInv(s)) /\ (\A w \in Watcher : WatchInv(w))
  BY DEF IInv
<1>1. TypeOK'
  BY <1>0, RestTypes
<1>2. CASE Mined(r)
  <2>1. /\ tx[r] = "sent" /\ \A s \in Request \ {r} : tx'[s] = tx[s]
        /\ UNCHANGED <<kind, run, stages, receipts, closed, pending, watcher, finalized>>
        /\ tx'[r] # "none"
    BY <1>0, <1>2 DEF Mined, books, history, TypeOK
  <2>2. Grows
    BY <2>1 DEF Grows, OnChain
  <2>3. OutcomesRest'
    BY <1>0, <2>1 DEF OutcomesRest, OnChain
  <2>4. \A w \in Watcher : WatchInv(w)'
    BY <1>0, <2>1, <2>2, WatchersKept
  <2>5. \A s \in Request : RunInv(s)'
    BY <1>0, <2>1, <2>2, RunKept
  <2> QED
    BY <1>1, <2>3, <2>4, <2>5 DEF IInv
<1>3. CASE IngestsByHand(r)
  <2>1. PICK status \in Status : AppendsReceipt(r, "command", status)
    BY <1>3, StatusType DEF IngestsByHand
  <2>2. OnChain(r) /\ UNCHANGED <<kind, tx, run, stages, closed, pending, watcher, finalized>>
    BY <1>3 DEF IngestsByHand, history
  <2>3. Grows /\ OutcomesRest'
    BY <2>1, <2>2, ReceiptAppended DEF Writer, Unchecked
  <2>4. \A w \in Watcher : WatchInv(w)'
    BY <1>0, <2>2, <2>3, WatchersKept
  <2>5. \A s \in Request : RunInv(s)'
    BY <1>0, <2>2, <2>3, RunKept
  <2> QED
    BY <1>1, <2>3, <2>4, <2>5 DEF IInv
<1> QED
  BY <1>2, <1>3

-----------------------------------------------------------------------------
(* The theorems.                                                           *)

LEMMA InitInv == Init => IInv
<1> SUFFICES ASSUME Init PROVE IInv
  OBVIOUS
<1>1. TypeOK
  BY NoRunType DEF Init, TypeOK
<1>2. OutcomesRest
  BY DEF Init, OutcomesRest
<1>3. \A r \in Request : RunInv(r)
  BY DEF Init, RunInv
<1>4. \A w \in Watcher : WatchInv(w)
  BY DEF Init, WatchInv, NoRun
<1> QED
  BY <1>1, <1>2, <1>3, <1>4 DEF IInv

LEMMA NextInv == IInv /\ [Next]_vars => IInv'
<1> SUFFICES ASSUME IInv, [Next]_vars PROVE IInv'
  OBVIOUS
<1>1. CASE UNCHANGED vars
  BY <1>1 DEF vars, books, history, IInv, TypeOK, OutcomesRest, RunInv, WatchInv, OnChain, Job
<1>2. CASE Next
  BY <1>2, RunSteps, WatchSteps, RestSteps DEF Next
<1> QED
  BY <1>1, <1>2

LEMMA Invariance == Spec => []IInv
BY InitInv, NextInv, PTL DEF Spec

\* The books, the runs and the watchers keep their types, for any requests
\* and watchers (the records of the audit log, the reconciliations, the pairs).
THEOREM TypeCorrect == Spec => []TypeOK
<1>1. IInv => TypeOK
  BY DEF IInv
<1> QED
  BY <1>1, Invariance, PTL

\* An outcome a watcher recorded has its pair, a pair has its receipt, and
\* receipts and outcomes are those of the chain, wherever a run or a watcher
\* dies and however many of them append (the order of the appends in
\* backfillPendingSignerConfirmations and handleIntentCommand).
THEOREM OutcomesRestAlways == Spec => []OutcomesRest
<1>1. IInv => OutcomesRest
  BY DEF IInv
<1> QED
  BY <1>1, Invariance, PTL

-----------------------------------------------------------------------------
(* Who has appended a receipt.                                             *)

\* The receipts of a transaction that x appended.
By(r, x) == {n \in 1..Len(receipts[r]) : receipts[r][n].by = x}

\* The watchers that could always read the receipts, and the executor.
Careful == (Watcher \ blind) \cup {"executor"}

\* What a watcher has still to look at, and knows no receipt of, has none of
\* its own.
TodoInv(w) ==
    LET at == watcher[w].at
        on == watcher[w].on
        todo == watcher[w].todo
    IN
    /\ at \in {"looking", "appending", "pairing", "rereading", "finalizing"} =>
          \A r \in todo : watcher[w].known[r] = None => By(r, w) = {}
    /\ at = "appending" => By(on, w) = {} /\ on \notin todo

OnceInv ==
    /\ \A r \in Request : run[r] # "over" => By(r, "executor") = {}
    /\ \A w \in Watcher \ blind : TodoInv(w)
    /\ \A r \in Request, x \in Careful : \A n, k \in By(r, x) : n = k

LEMMA AppendsBy ==
    ASSUME TypeOK, NEW r \in Request, NEW by \in Writer, NEW status \in Status,
           AppendsReceipt(r, by, status)
    PROVE  /\ \A s \in Request : \A x : s # r \/ x # by => By(s, x)' = By(s, x)
           /\ By(r, by) = {} => \A n, k \in By(r, by)' : n = k
<1> DEFINE rec == [by |-> by, status |-> status]
<1>1. receipts[r] \in Seq([by : Writer, status : Status])
  BY DEF TypeOK
<1>2. /\ receipts'[r] = Append(receipts[r], rec)
      /\ \A s \in Request \ {r} : receipts'[s] = receipts[s]
  BY DEF TypeOK, AppendsReceipt
<1>3. /\ Len(receipts'[r]) = Len(receipts[r]) + 1 /\ Len(receipts[r]) \in Nat
      /\ \A n \in 1..Len(receipts[r]) : receipts'[r][n] = receipts[r][n]
      /\ receipts'[r][Len(receipts[r]) + 1] = rec
  BY <1>1, <1>2
<1>4. \A n \in 1..Len(receipts'[r]) : n \in 1..Len(receipts[r]) \/ n = Len(receipts[r]) + 1
  BY <1>3
<1>5. \A n \in 1..Len(receipts[r]) : n \in 1..Len(receipts'[r])
  BY <1>3
<1>6. rec.by = by
  OBVIOUS
<1> HIDE DEF rec
<1>7. \A x : x # by => By(r, x)' = By(r, x)
  BY <1>3, <1>4, <1>5, <1>6 DEF By
<1>8. By(r, by) = {} => \A n \in By(r, by)' : n = Len(receipts[r]) + 1
  BY <1>3, <1>4 DEF By
<1>9. \A s \in Request \ {r} : \A x : By(s, x)' = By(s, x)
  BY <1>2 DEF By
<1> QED
  BY <1>7, <1>8, <1>9

\* A step that appends nothing careful leaves the sets as they are.
SameBy == \A s \in Request, x \in Watcher \cup {"executor"} : By(s, x)' = By(s, x)

LEMMA UncheckedSame ==
    ASSUME TypeOK, NEW r \in Request, NEW by \in Unchecked, NEW status \in Status,
           AppendsReceipt(r, by, status)
    PROVE  SameBy
<1>1. by \in Writer /\ by \notin Watcher \cup {"executor"}
  BY WriterAssumption DEF Writer, Unchecked
<1> QED
  BY <1>1, AppendsBy DEF SameBy

LEMMA QuietSame == ASSUME receipts' = receipts PROVE SameBy
BY DEF SameBy, By

LEMMA TodoKept ==
    ASSUME TypeOK, NEW w \in Watcher, TodoInv(w), watcher'[w] = watcher[w],
           IInv, \A s \in Request : By(s, w)' = By(s, w)
    PROVE  TodoInv(w)'
<1>1. watcher[w].todo \subseteq Request
  BY DEF TypeOK, WatcherRun
<1>2. watcher[w].at = "appending" => watcher[w].on \in Request
  BY DEF IInv, WatchInv
<1> QED
  BY <1>1, <1>2 DEF TodoInv

LEMMA OnceRun ==
    ASSUME IInv, OnceInv, NEW r \in Request, Run(r)
    PROVE  OnceInv'
<1>0. TypeOK
  BY DEF IInv
<1>1. UNCHANGED <<watcher, blind>>
  BY DEF Run, Broadcasts, Rejects, Confirms, Reverts, TimesOut, Fails, Ingests, IngestsJob,
         IngestFails, Closes, ExecutorReads, ExecutorAppends, RunDies, Goes, history
<1>2. \A s \in Request : run'[s] # "over" => run[s] # "over"
  BY <1>0 DEF Run, Broadcasts, Rejects, Confirms, Reverts, TimesOut, Fails, Ingests, IngestsJob,
         IngestFails, Closes, ExecutorReads, ExecutorAppends, RunDies, Goes, TypeOK
<1>3. CASE ~ExecutorAppends(r)
  <2>1. SameBy
    <3>1. CASE Ingests(r) \/ IngestsJob(r)
      <4>1. PICK by \in Unchecked, status \in StatusOf(r) : AppendsReceipt(r, by, status)
        BY <3>1 DEF Ingests, IngestsJob, Unchecked
      <4> QED
        BY <4>1, <1>0, StatusType, UncheckedSame
    <3>2. CASE ~(Ingests(r) \/ IngestsJob(r))
      <4>1. receipts' = receipts
        BY <1>3, <3>2 DEF Run, Broadcasts, Rejects, Confirms, Reverts, TimesOut, Fails,
               IngestFails, Closes, ExecutorReads, RunDies, books
      <4> QED
        BY <4>1, QuietSame
    <3> QED
      BY <3>1, <3>2
  <2>2. \A w \in Watcher \ blind : TodoInv(w)'
    BY <2>1, <1>0, <1>1, TodoKept DEF OnceInv, SameBy
  <2> QED
    BY <2>1, <2>2, <1>1, <1>2 DEF OnceInv, SameBy, Careful
<1>4. CASE ExecutorAppends(r)
  <2>1. PICK status \in Status : AppendsReceipt(r, "executor", status)
    BY <1>4, StatusType DEF ExecutorAppends
  <2>2. run[r] = "pricing" /\ run'[r] = "over"
    BY <1>0, <1>4 DEF ExecutorAppends, Goes, TypeOK
  <2>3. By(r, "executor") = {}
    BY <2>2 DEF OnceInv
  <2>4. /\ \A s \in Request : \A x : s # r \/ x # "executor" => By(s, x)' = By(s, x)
        /\ \A n, k \in By(r, "executor")' : n = k
    BY <2>1, <2>3, <1>0, AppendsBy DEF Writer
  <2>5. "executor" \notin Watcher
    BY WriterAssumption
  <2>6. \A w \in Watcher \ blind : TodoInv(w)'
    BY <2>4, <2>5, <1>0, <1>1, TodoKept DEF OnceInv
  <2>7. \A s \in Request : run'[s] # "over" => By(s, "executor")' = {}
    BY <2>2, <2>4, <1>2 DEF OnceInv
  <2>8. \A s \in Request, x \in Careful' : \A n, k \in By(s, x)' : n = k
    BY <2>4, <1>1 DEF OnceInv, Careful
  <2> QED
    BY <2>6, <2>7, <2>8, <1>1 DEF OnceInv
<1> QED
  BY <1>3, <1>4

LEMMA OnceWatch ==
    ASSUME IInv, OnceInv, NEW w \in Watcher, Watch(w) \/ WatcherDies(w)
    PROVE  OnceInv'
<1>0. TypeOK /\ WatchInv(w)
  BY DEF IInv
<1>1. run' = run /\ \A v \in Watcher \ {w} : watcher'[v] = watcher[v]
  BY <1>0 DEF Watch, WatcherDies, WatcherStarts, Settles, ClosesSettled, NoProof, ReadsAudit,
         ReadsReceipts, MisreadsReceipts, Finds, FindsNothing, AppendsFound, AppendsPair, Rereads,
         Finalizes, WatcherEnds, Moves, Watches, Turns, TypeOK
<1>2. blind \subseteq blind' /\ (w \notin blind' => w \notin blind)
  BY DEF Watch, WatcherDies, WatcherStarts, Settles, ClosesSettled, NoProof, ReadsAudit,
         ReadsReceipts, MisreadsReceipts, Finds, FindsNothing, AppendsFound, AppendsPair, Rereads,
         Finalizes, WatcherEnds, history
<1>3. /\ watcher[w].todo \in SUBSET Request
      /\ watcher[w].known \in [Request -> Status \cup {None}]
      /\ watcher[w].on \in Request \cup {None}
      /\ watcher \in [Watcher -> WatcherRun]
  BY <1>0, WatcherFields DEF TypeOK
<1>4. \A to, todo, known, on : Turns(w, to, todo, known, on) =>
          /\ watcher'[w].at = to /\ watcher'[w].todo = todo
          /\ watcher'[w].known = known /\ watcher'[w].on = on
  <2> SUFFICES ASSUME NEW to, NEW todo, NEW known, NEW on, Turns(w, to, todo, known, on)
               PROVE  /\ watcher'[w].at = to /\ watcher'[w].todo = todo
                      /\ watcher'[w].known = known /\ watcher'[w].on = on
    OBVIOUS
  <2>1. watcher'[w] = [at |-> to, todo |-> todo, known |-> known, on |-> on]
    BY <1>3 DEF Turns
  <2> QED
    BY <2>1
<1>5. w \notin blind' => TodoInv(w)
  BY <1>2 DEF OnceInv
<1>6. CASE ~AppendsFound(w)
  <2>1. SameBy
    <3>1. CASE Settles(w)
      <4>1. PICK r \in watcher[w].todo : AppendsReceipt(r, "settlement", "pending_output")
        BY <3>1 DEF Settles
      <4> QED
        BY <4>1, <1>0, <1>3, UncheckedSame DEF Unchecked, Status
    <3>2. CASE ~Settles(w)
      <4>1. receipts' = receipts
        BY <1>6, <3>2 DEF Watch, WatcherDies, WatcherStarts, ClosesSettled, NoProof, ReadsAudit,
               ReadsReceipts, MisreadsReceipts, Finds, FindsNothing, AppendsPair, Rereads,
               Finalizes, WatcherEnds, books
      <4> QED
        BY <4>1, QuietSame
    <3> QED
      BY <3>1, <3>2
  <2>2. \A s \in Request : By(s, w)' = By(s, w)
    BY <2>1 DEF SameBy
  <2>3. w \notin blind' => TodoInv(w)'
    <3> SUFFICES ASSUME w \notin blind' PROVE TodoInv(w)'
      OBVIOUS
    <3>0. TodoInv(w)
      BY <1>5
    <3>1. CASE WatcherStarts(w) \/ Settles(w) \/ ClosesSettled(w) \/ NoProof(w) \/ ReadsAudit(w)
               \/ WatcherEnds(w) \/ WatcherDies(w)
      <4>1. watcher'[w].at \in {"off", "settling", "matching", "loading"}
        BY <3>1, <1>4 DEF WatcherStarts, Settles, ClosesSettled, NoProof, ReadsAudit,
               WatcherEnds, WatcherDies, Watches
      <4> QED
        BY <4>1 DEF TodoInv
    <3>2. CASE ReadsReceipts(w)
      <4>1. /\ watcher'[w].at = "looking" /\ watcher'[w].todo = watcher[w].todo
            /\ watcher'[w].known = [r \in Request |->
                  IF r \in watcher[w].todo /\ receipts[r] # <<>>
                  THEN Head(receipts[r]).status ELSE None]
        BY <3>2, <1>4 DEF ReadsReceipts, Watches
      <4>2. \A r \in watcher[w].todo : watcher'[w].known[r] = None => receipts[r] = <<>>
        <5> SUFFICES ASSUME NEW r \in watcher[w].todo, receipts[r] # <<>>
                     PROVE  watcher'[w].known[r] # None
          OBVIOUS
        <5>1. r \in Request /\ Head(receipts[r]).status \in Status
          BY <1>0, <1>3, HeadStatus
        <5> QED
          BY <4>1, <5>1
      <4>3. \A r \in watcher[w].todo : receipts[r] = <<>> => By(r, w)' = {}
        BY <2>2, <1>3 DEF By
      <4> QED
        BY <4>1, <4>2, <4>3 DEF TodoInv
    <3>3. CASE MisreadsReceipts(w)
      BY <3>3 DEF MisreadsReceipts
    <3>4. CASE Finds(w)
      <4>1. PICK r \in watcher[w].todo, status \in Status \cup {None} :
              /\ watcher[w].known[r] # None => status # None
              /\ watcher[w].at = "looking"
              /\ Turns(w, IF watcher[w].known[r] = None THEN "appending" ELSE "pairing",
                       watcher[w].todo \ {r}, [watcher[w].known EXCEPT ![r] = status], r)
        BY <3>4, <1>3 DEF Finds, Watches, Status
      <4>2. /\ watcher'[w].at = IF watcher[w].known[r] = None THEN "appending" ELSE "pairing"
            /\ watcher'[w].todo = watcher[w].todo \ {r}
            /\ watcher'[w].known = [watcher[w].known EXCEPT ![r] = status]
            /\ watcher'[w].on = r
        BY <4>1, <1>4
      <4>3. \A s \in watcher[w].todo \ {r} : watcher'[w].known[s] = watcher[w].known[s]
        BY <4>2, <1>3
      <4>4. \A s \in watcher[w].todo : watcher[w].known[s] = None => By(s, w)' = {}
        BY <3>0, <4>1, <2>2, <1>3 DEF TodoInv
      <4> QED
        BY <4>2, <4>3, <4>4 DEF TodoInv
    <3>5. CASE FindsNothing(w) \/ AppendsPair(w) \/ Rereads(w) \/ Finalizes(w)
      <4>1. /\ watcher[w].at \in {"looking", "pairing", "rereading", "finalizing"}
            /\ watcher'[w].at \in {"looking", "pairing", "rereading", "finalizing"}
            /\ watcher'[w].todo \subseteq watcher[w].todo
            /\ watcher'[w].known = watcher[w].known
        <5>1. CASE FindsNothing(w)
          BY <5>1, <1>4 DEF FindsNothing, Watches
        <5>2. CASE AppendsPair(w)
          BY <5>2, <1>4 DEF AppendsPair, Moves, Watches
        <5>3. CASE Rereads(w)
          BY <5>3, <1>4 DEF Rereads, Moves, Watches
        <5>4. CASE Finalizes(w)
          BY <5>4, <1>4 DEF Finalizes, Watches
        <5> QED
          BY <3>5, <5>1, <5>2, <5>3, <5>4
      <4> QED
        BY <3>0, <4>1, <2>2, <1>3 DEF TodoInv
    <3> QED
      BY <1>6, <3>1, <3>2, <3>3, <3>4, <3>5 DEF Watch
  <2>4. \A v \in Watcher \ blind' : TodoInv(v)'
    BY <2>1, <2>3, <1>0, <1>1, <1>2, TodoKept DEF OnceInv, SameBy
  <2> QED
    BY <2>1, <2>4, <1>1, <1>2 DEF OnceInv, SameBy, Careful
<1>7. CASE AppendsFound(w)
  <2>1. PICK r \in Request : r = watcher[w].on /\ watcher[w].at = "appending"
    BY <1>0, <1>7 DEF AppendsFound, WatchInv
  <2>2. PICK status \in Status :
          /\ Turns(w, "pairing", watcher[w].todo, [watcher[w].known EXCEPT ![r] = status], r)
          /\ AppendsReceipt(r, w, status)
    BY <1>7, <2>1, StatusType DEF AppendsFound, Watches
  <2>3. blind' = blind
    BY <1>7 DEF AppendsFound, history
  <2>4. w \notin blind => By(r, w) = {} /\ r \notin watcher[w].todo
    BY <2>1 DEF OnceInv, TodoInv
  <2>5. /\ \A s \in Request : \A x : s # r \/ x # w => By(s, x)' = By(s, x)
        /\ By(r, w) = {} => \A n, k \in By(r, w)' : n = k
    <3>1. w \in Writer /\ AppendsReceipt(r, w, status)
      BY <2>2 DEF Writer
    <3> QED
      BY <3>1, <1>0, AppendsBy
  <2>6. w \notin blind => TodoInv(w)'
    <3>1. /\ watcher'[w].at = "pairing" /\ watcher'[w].todo = watcher[w].todo
          /\ watcher'[w].known = [watcher[w].known EXCEPT ![r] = status]
      BY <2>2, <1>4
    <3>2. w \notin blind => \A s \in watcher[w].todo :
              s # r /\ watcher'[w].known[s] = watcher[w].known[s] /\ By(s, w)' = By(s, w)
      BY <2>4, <2>5, <3>1, <1>3
    <3> QED
      BY <2>1, <3>1, <3>2 DEF OnceInv, TodoInv
  <2>7. \A v \in Watcher \ blind : TodoInv(v)'
    <3>1. \A v \in (Watcher \ blind) \ {w} : TodoInv(v)'
      BY <2>5, <1>0, <1>1, TodoKept DEF OnceInv
    <3> QED
      BY <2>6, <3>1
  <2>8. "executor" # w
    BY WriterAssumption
  <2>9. \A s \in Request : run'[s] # "over" => By(s, "executor")' = {}
    BY <2>5, <2>8, <1>1 DEF OnceInv
  <2>10. \A s \in Request, x \in Careful' : \A n, k \in By(s, x)' : n = k
    BY <2>3, <2>4, <2>5, <2>8 DEF OnceInv, Careful
  <2> QED
    BY <2>3, <2>7, <2>9, <2>10 DEF OnceInv
<1> QED
  BY <1>6, <1>7

LEMMA OnceRest ==
    ASSUME IInv, OnceInv, NEW r \in Request, Mined(r) \/ IngestsByHand(r)
    PROVE  OnceInv'
<1>0. TypeOK
  BY DEF IInv
<1>1. UNCHANGED <<run, watcher, blind>>
  BY DEF Mined, IngestsByHand, history
<1>2. SameBy
  <2>1. CASE Mined(r)
    BY <2>1, QuietSame DEF Mined, books
  <2>2. CASE IngestsByHand(r)
    BY <2>2, <1>0, StatusType, UncheckedSame DEF IngestsByHand, Unchecked
  <2> QED
    BY <2>1, <2>2
<1>3. \A w \in Watcher \ blind : TodoInv(w)'
  BY <1>0, <1>1, <1>2, TodoKept DEF OnceInv, SameBy
<1> QED
  BY <1>1, <1>2, <1>3 DEF OnceInv, SameBy, Careful

LEMMA OnceInvariance == Spec => []OnceInv
<1>1. Init => OnceInv
  BY DEF Init, OnceInv, TodoInv, NoRun, By
<1>2. IInv /\ OnceInv /\ [Next]_vars => OnceInv'
  <2> SUFFICES ASSUME IInv, OnceInv, [Next]_vars PROVE OnceInv'
    OBVIOUS
  <2>1. CASE UNCHANGED vars
    <3>1. UNCHANGED <<run, watcher, receipts, blind>>
      BY <2>1 DEF vars, books, history
    <3>2. SameBy
      BY <3>1, QuietSame
    <3>3. \A w \in Watcher \ blind : TodoInv(w)'
      BY <3>1, <3>2, TodoKept DEF OnceInv, SameBy, IInv
    <3> QED
      BY <3>1, <3>2, <3>3 DEF OnceInv, SameBy, Careful
  <2>2. CASE Next
    BY <2>2, OnceRun, OnceWatch, OnceRest DEF Next
  <2> QED
    BY <2>1, <2>2
<1> QED
  BY <1>1, <1>2, Invariance, PTL DEF Spec

\* A watcher that can read the receipts appends at most one for a transaction
\* over all its runs, wherever it dies, and so does the executor, whoever else
\* appends meanwhile (existingReceiptTxHashes in
\* backfillPendingSignerConfirmations, appendExecutionReceiptReconciliation).
THEOREM OncePerWriterAlways == Spec => []OncePerWriter
<1>1. OnceInv => OncePerWriter
  <2> SUFFICES ASSUME OnceInv, NEW r \in Request, NEW x \in Careful
               PROVE  Cardinality(By(r, x)) <= 1
    BY DEF OncePerWriter, Careful, By
  <2>1. CASE By(r, x) = {}
    BY <2>1, FS_EmptySet
  <2>2. CASE By(r, x) # {}
    <3>1. PICK n \in By(r, x) : TRUE
      BY <2>2
    <3>2. By(r, x) = {n}
      BY <3>1 DEF OnceInv
    <3>3. Cardinality({n}) = 1
      BY FS_Singleton
    <3> QED
      BY <3>2, <3>3
  <2> QED
    BY <2>1, <2>2
<1> QED
  BY <1>1, OnceInvariance, PTL
=============================================================================
