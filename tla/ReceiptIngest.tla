---------------------------- MODULE ReceiptIngest ----------------------------
(***************************************************************************)
(* How the outcome of a broadcast transaction gets into the books: the     *)
(* signer audit log, the receipt reconciliations and the capital-audit     *)
(* pairs.  Several processes append to them without a lock:                *)
(*                                                                         *)
(*   - a run of the signer daemon, which waits for the receipt, records    *)
(*     the outcome, ingests the receipt and closes the pair;               *)
(*   - the executor that sent the intent, which ingests the receipt of the *)
(*     answer itself (skipAutoIngest), unless it finds one;                *)
(*   - the ingest command, run by the daemon for a refill job or by hand;  *)
(*   - the settlement watcher, which goes over the pairs that are pending  *)
(*     and then over the broadcasts without an outcome.                    *)
(*                                                                         *)
(* Any of them may die between two steps, the autopilot kills a watcher    *)
(* after a minute, and nothing of a run is kept but what it appended.      *)
(***************************************************************************)
EXTENDS Integers, Sequences, FiniteSets

CONSTANTS
    Request,        \* live intents on EVM chains, each with one transaction
    HashOf,         \* intentHash: a resent intent has that of the first
    Awaited,        \* those whose client asks for the confirmation
    Watcher,        \* the autopilot's watcher, and an operator's
    ByHand,         \* bound: those that may be ingested by hand, once
    MaxReceipts,    \* bound on the receipts of a transaction, for settlements
    MaxDeaths,      \* bound on the deaths of watchers
    None

Status == {"reconciled", "failed", "pending_output"}

ASSUME IngestAssumption ==
    /\ Awaited \subseteq Request /\ ByHand \subseteq Request
    /\ MaxReceipts \in Nat /\ MaxDeaths \in Nat
    /\ None \notin Request \cup Status

Hash == {HashOf[r] : r \in Request}

\* Who ingests the receipt: the daemon, the ingest command when the metadata
\* names a job, or the executor.
Kind == {"direct", "job", "own"}

Stage == {"broadcasted", "confirmation_pending", "confirmed", "reverted", "error"}

Unchecked == {"daemon", "command", "settlement"}

Writer == Watcher \cup {"executor"} \cup Unchecked

ASSUME WriterAssumption == Watcher \cap ({"executor"} \cup Unchecked) = {}

VARIABLES
    kind,       \* the kind of an intent, a part of its hash
    tx,         \* the transaction of each request
    run,        \* where the daemon's run and the executor's are
    stages,     \* the stages of the audit records of each request
    last,       \* the request of the latest pending record of each hash
    receipts,   \* the receipt reconciliations of each transaction, in order
    closed,     \* requests with a closed pair
    pending,    \* requests with a pending pair, closed later or not
    watcher,    \* the watchers' runs
    byHand,     \* those left to be ingested by hand
    deaths,
    finalized,  \* history: outcomes recorded by a watcher
    blind       \* history: watchers that once failed to read the receipts

books == <<stages, last, receipts, closed, pending>>
history == <<finalized, blind>>
vars == <<kind, tx, run, books, watcher, byHand, deaths, history>>

NoRun == [at |-> "off", todo |-> {}, known |-> [r \in Request |-> None], on |-> None]

WatcherRun ==
    [at: {"off", "settling", "matching", "loading", "looking", "appending",
          "pairing", "rereading", "finalizing"},
     todo: SUBSET Request,
     known: [Request -> Status \cup {None}],
     on: Request \cup {None}]

TypeOK ==
    /\ kind \in [Hash -> Kind]
    /\ tx \in [Request -> {"none", "sent", "mined", "reverted"}]
    /\ run \in [Request -> {"idle", "waiting", "ingesting", "closing", "answered",
                            "pricing", "over"}]
    /\ stages \in [Request -> SUBSET Stage]
    /\ last \in [Hash -> Request \cup {None}]
    /\ receipts \in [Request -> Seq([by: Writer, status: Status])]
    /\ closed \subseteq Request /\ pending \subseteq Request
    /\ watcher \in [Watcher -> WatcherRun]
    /\ byHand \subseteq ByHand /\ deaths \in 0..MaxDeaths
    /\ finalized \subseteq Request /\ blind \subseteq Watcher

Init ==
    /\ kind \in [Hash -> Kind]
    /\ tx = [r \in Request |-> "none"]
    /\ run = [r \in Request |-> "idle"]
    /\ stages = [r \in Request |-> {}]
    /\ last = [h \in Hash |-> None]
    /\ receipts = [r \in Request |-> <<>>]
    /\ closed = {} /\ pending = {}
    /\ watcher = [w \in Watcher |-> NoRun]
    /\ byHand = ByHand /\ deaths = 0 /\ finalized = {} /\ blind = {}

-----------------------------------------------------------------------------
(* The books.                                                              *)

Job(r) == kind[HashOf[r]] = "job"
Own(r) == kind[HashOf[r]] = "own"

OnChain(r) == tx[r] \in {"mined", "reverted"}

\* reconciliationStatus: what a receipt says, with an output or without.
StatusOf(r) == IF tx[r] = "reverted" THEN {"failed"} ELSE {"reconciled", "pending_output"}

Records(r, stage) == stages' = [stages EXCEPT ![r] = @ \cup {stage}]

AppendsReceipt(r, by, status) ==
    receipts' = [receipts EXCEPT ![r] = Append(@, [by |-> by, status |-> status])]

\* finalSignerAuditIntentHashes: an outcome of any record of the hash.
Final(h) ==
    \E r \in Request :
        HashOf[r] = h /\ stages[r] \cap {"confirmed", "reverted", "error"} # {}

\* pendingSignerConfirmationCandidates: the latest pending record of a hash.
Candidates == {last[h] : h \in {g \in Hash : last[g] # None /\ ~Final(g)}}

-----------------------------------------------------------------------------
(* The daemon's run of a request, from its broadcast on.                   *)

Goes(r, from, to) ==
    /\ run[r] = from /\ run' = [run EXCEPT ![r] = to]
    /\ UNCHANGED <<kind, watcher, byHand, deaths, history>>

\* The broadcast is recorded, and the receipt waited for when the client asks
\* for it.
Broadcasts(r) ==
    /\ Goes(r, "idle", IF r \in Awaited THEN "waiting" ELSE IF Job(r) THEN "ingesting" ELSE "over")
    /\ tx' = [tx EXCEPT ![r] = "sent"]
    /\ Records(r, "broadcasted") /\ last' = [last EXCEPT ![HashOf[r]] = r]
    /\ UNCHANGED <<receipts, closed, pending>>

\* The intent is rejected, or fails before its broadcast.
Rejects(r) ==
    /\ Goes(r, "idle", "over") /\ Records(r, "error")
    /\ UNCHANGED <<tx, last, receipts, closed, pending>>

Confirms(r) ==
    /\ Goes(r, "waiting", IF Own(r) THEN "answered" ELSE "ingesting")
    /\ tx[r] = "mined" /\ Records(r, "confirmed")
    /\ UNCHANGED <<tx, last, receipts, closed, pending>>

\* A revert is answered at once.
Reverts(r) ==
    /\ Goes(r, "waiting", IF Own(r) THEN "answered" ELSE "over")
    /\ tx[r] = "reverted" /\ Records(r, "reverted")
    /\ UNCHANGED <<tx, last, receipts, closed, pending>>

TimesOut(r) ==
    /\ Goes(r, "waiting", "over")
    /\ Records(r, "confirmation_pending") /\ last' = [last EXCEPT ![HashOf[r]] = r]
    /\ UNCHANGED <<tx, receipts, closed, pending>>

\* The wait for the receipt fails, or the closure of the pair.
Fails(r) ==
    /\ Goes(r, "waiting", "over") \/ Goes(r, "closing", "over")
    /\ Records(r, "error")
    /\ UNCHANGED <<tx, last, receipts, closed, pending>>

\* A bug: the pair is closed before the receipt is ingested.
ClosesFirst(r) ==
    /\ ~Job(r)
    /\ Goes(r, "ingesting", "closing")
    /\ closed' = closed \cup {r}
    /\ UNCHANGED <<tx, stages, last, receipts, pending>>

\* runDirectReceiptIngest: the receipt is appended, whatever is there.
Ingests(r) ==
    /\ ~Job(r)
    /\ Goes(r, "ingesting", "closing")
    /\ \E status \in StatusOf(r) : AppendsReceipt(r, "daemon", status)
    /\ UNCHANGED <<tx, stages, last, closed, pending>>

\* The ingest command, run as a child, which looks for the receipt on chain.
IngestsJob(r) ==
    /\ Job(r) /\ OnChain(r)
    /\ Goes(r, "ingesting", "over")
    /\ \E status \in StatusOf(r) : AppendsReceipt(r, "command", status)
    /\ UNCHANGED <<tx, stages, last, closed, pending>>

\* The ingest fails or takes too long, which is answered like a success.
IngestFails(r) ==
    /\ Goes(r, "ingesting", "over")
    /\ UNCHANGED <<tx, books>>

\* A pair is appended only when its receipt has an output.
Closes(r) ==
    /\ Goes(r, "closing", "over")
    /\ \E n \in 1..Len(receipts[r]) :
          /\ receipts[r][n].by = "daemon"
          /\ closed' = IF receipts[r][n].status = "pending_output" THEN closed ELSE closed \cup {r}
    /\ UNCHANGED <<tx, stages, last, receipts, pending>>

\* appendExecutionReceiptReconciliation of the executor: the receipts are read,
\* and prices fetched ...
ExecutorReads(r) ==
    /\ Goes(r, "answered", IF receipts[r] = <<>> THEN "pricing" ELSE "over")
    /\ UNCHANGED <<tx, books>>

\* ... before the receipt is appended.
ExecutorAppends(r) ==
    /\ Goes(r, "pricing", "over")
    /\ \E status \in StatusOf(r) : AppendsReceipt(r, "executor", status)
    /\ UNCHANGED <<tx, stages, last, closed, pending>>

\* The daemon dies, or the executor, or an append of the run fails.
RunDies(r) ==
    /\ run[r] \notin {"idle", "over"}
    /\ Goes(r, run[r], "over")
    /\ UNCHANGED <<tx, books>>

Run(r) ==
    \/ Broadcasts(r) \/ Rejects(r) \/ Confirms(r) \/ Reverts(r) \/ TimesOut(r) \/ Fails(r)
    \/ Ingests(r) \/ IngestsJob(r) \/ IngestFails(r) \/ Closes(r)
    \/ ExecutorReads(r) \/ ExecutorAppends(r) \/ RunDies(r)

-----------------------------------------------------------------------------
(* The settlement watcher.                                                 *)

Turns(w, to, todo, known, on) ==
    /\ watcher' = [watcher EXCEPT ![w] = [at |-> to, todo |-> todo, known |-> known, on |-> on]]
    /\ UNCHANGED <<kind, tx, run, byHand>>

Watches(w, from, to, todo, known, on) ==
    /\ watcher[w].at = from
    /\ Turns(w, to, todo, known, on) /\ UNCHANGED deaths

\* A step of a watcher that changes where it is alone.
Moves(w, from, to) == Watches(w, from, to, watcher[w].todo, watcher[w].known, watcher[w].on)

\* runAsyncSettlementWatcher reads the pairs.  A pending record stays in the
\* log when a later one closes its pair.
WatcherStarts(w) ==
    /\ Watches(w, "off", "settling", pending, NoRun.known, None)
    /\ UNCHANGED <<books, history>>

\* A bug: what is settled is not kept for the closure.
SettlesUnnamed(w) ==
    /\ \E r \in watcher[w].todo :
          /\ tx[r] = "mined" /\ Len(receipts[r]) < MaxReceipts
          /\ Watches(w, "settling", "matching", watcher[w].todo \ {r}, NoRun.known, None)
          /\ AppendsReceipt(r, "settlement", "pending_output")
    /\ UNCHANGED <<stages, last, closed, pending, history>>

\* A proof of the settlement is found, and a receipt made of it ...
Settles(w) ==
    /\ \E r \in watcher[w].todo :
          /\ tx[r] = "mined" /\ Len(receipts[r]) < MaxReceipts
          /\ Watches(w, "settling", "matching", watcher[w].todo \ {r}, NoRun.known, r)
          /\ AppendsReceipt(r, "settlement", "pending_output")
    /\ UNCHANGED <<stages, last, closed, pending, history>>

\* ... and then its closure.
ClosesSettled(w) ==
    /\ Watches(w, "matching", "settling", watcher[w].todo, NoRun.known, None)
    /\ closed' = closed \cup {watcher[w].on}
    /\ UNCHANGED <<stages, last, receipts, pending, history>>

\* There is no proof, or the pairs could not be read.
NoProof(w) ==
    /\ \E r \in watcher[w].todo :
          Watches(w, "settling", "settling", watcher[w].todo \ {r}, NoRun.known, None)
    /\ UNCHANGED <<books, history>>

\* backfillPendingSignerConfirmations reads the audit log ...
ReadsAudit(w) ==
    /\ watcher[w].todo = {}
    /\ Watches(w, "settling", "loading", Candidates, NoRun.known, None)
    /\ UNCHANGED <<books, history>>

\* A bug: only the receipts with an output are looked at.
ReadsReconciled(w) ==
    /\ Watches(w, "loading", "looking", watcher[w].todo,
               [r \in Request |->
                   IF \E n \in 1..Len(receipts[r]) : receipts[r][n].status # "pending_output"
                   THEN "reconciled" ELSE None], None)
    /\ UNCHANGED <<books, history>>

\* ... then the receipts.
ReadsReceipts(w) ==
    /\ Watches(w, "loading", "looking", watcher[w].todo,
               [r \in Request |-> IF r \in watcher[w].todo /\ receipts[r] # <<>>
                                  THEN Head(receipts[r]).status ELSE None],
               None)
    /\ UNCHANGED <<books, history>>

\* They cannot be read, which is taken for none.
MisreadsReceipts(w) ==
    /\ Watches(w, "loading", "looking", watcher[w].todo, NoRun.known, None)
    /\ blind' = blind \cup {w}
    /\ UNCHANGED <<books, finalized>>

\* A bug: a candidate whose receipt is known is taken to be done.
FindsUnknown(w) ==
    /\ \E r \in watcher[w].todo :
          /\ OnChain(r) /\ watcher[w].known[r] = None
          /\ Watches(w, "looking", "appending", watcher[w].todo \ {r}, watcher[w].known, r)
    /\ UNCHANGED <<books, history>>

\* The receipt of a candidate is found on chain.  One that is known without
\* its output may be given it, in memory.
Finds(w) ==
    /\ \E r \in watcher[w].todo :
          LET known == watcher[w].known IN
          /\ OnChain(r)
          /\ \E status \in IF known[r] = "pending_output" THEN {"pending_output", "reconciled"}
                                                          ELSE {known[r]} :
                Watches(w, "looking", IF known[r] = None THEN "appending" ELSE "pairing",
                        watcher[w].todo \ {r}, [known EXCEPT ![r] = status], r)
    /\ UNCHANGED <<books, history>>

\* There is none yet, or the call fails: the next run looks again.
FindsNothing(w) ==
    /\ \E r \in watcher[w].todo :
          Watches(w, "looking", "looking", watcher[w].todo \ {r}, watcher[w].known, None)
    /\ UNCHANGED <<books, history>>

AppendsFound(w) ==
    LET r == watcher[w].on IN
    /\ watcher[w].at = "appending"
    /\ \E status \in StatusOf(r) :
          /\ Watches(w, "appending", "pairing", watcher[w].todo,
                     [watcher[w].known EXCEPT ![r] = status], r)
          /\ AppendsReceipt(r, w, status)
    /\ UNCHANGED <<stages, last, closed, pending, history>>

\* The closure record, of a receipt without an output a pending one.
AppendsPair(w) ==
    LET r == watcher[w].on IN
    /\ Moves(w, "pairing", "rereading")
    /\ IF watcher[w].known[r] = "pending_output"
       THEN pending' = pending \cup {r} /\ UNCHANGED closed
       ELSE closed' = closed \cup {r} /\ UNCHANGED pending
    /\ UNCHANGED <<stages, last, receipts, history>>

Outcome(r) == IF tx[r] = "reverted" THEN "reverted" ELSE "confirmed"

\* The audit log is read again, for a record of the same outcome.  When that
\* fails, it is taken for empty.
Rereads(w) ==
    /\ watcher[w].at = "rereading"
    /\ \/ /\ Outcome(watcher[w].on) \in stages[watcher[w].on]
          /\ Watches(w, "rereading", "looking", watcher[w].todo, watcher[w].known, None)
       \/ Moves(w, "rereading", "finalizing")
    /\ UNCHANGED <<books, history>>

\* The outcome is recorded: the hash is no candidate any more.
Finalizes(w) ==
    LET r == watcher[w].on IN
    /\ Watches(w, "finalizing", "looking", watcher[w].todo, watcher[w].known, None)
    /\ Records(r, Outcome(r)) /\ finalized' = finalized \cup {r}
    /\ UNCHANGED <<last, receipts, closed, pending, blind>>

WatcherEnds(w) ==
    /\ watcher[w].todo = {}
    /\ Watches(w, "looking", "off", {}, NoRun.known, None)
    /\ UNCHANGED <<books, history>>

\* The watcher is killed, or an append of its run fails.
WatcherDies(w) ==
    /\ watcher[w].at # "off" /\ deaths < MaxDeaths
    /\ deaths' = deaths + 1
    /\ Turns(w, "off", {}, NoRun.known, None)
    /\ UNCHANGED <<books, history>>

\* What a watcher does of itself; it dies in WatcherDies.
Watch(w) ==
    \/ WatcherStarts(w) \/ Settles(w) \/ ClosesSettled(w) \/ NoProof(w) \/ ReadsAudit(w)
    \/ ReadsReceipts(w) \/ MisreadsReceipts(w) \/ Finds(w) \/ FindsNothing(w) \/ AppendsFound(w)
    \/ AppendsPair(w) \/ Rereads(w) \/ Finalizes(w) \/ WatcherEnds(w)

-----------------------------------------------------------------------------
(* The rest.                                                               *)

Mined(r) ==
    /\ tx[r] = "sent" /\ \E outcome \in {"mined", "reverted"} : tx' = [tx EXCEPT ![r] = outcome]
    /\ UNCHANGED <<kind, run, books, watcher, byHand, deaths, history>>

\* npm run ingest:execution-receipt by hand.
IngestsByHand(r) ==
    /\ Job(r) /\ OnChain(r) /\ r \in byHand
    /\ byHand' = byHand \ {r}
    /\ \E status \in StatusOf(r) : AppendsReceipt(r, "command", status)
    /\ UNCHANGED <<kind, tx, run, stages, last, closed, pending, watcher, deaths, history>>

Next ==
    \/ \E r \in Request : Run(r) \/ Mined(r) \/ IngestsByHand(r)
    \/ \E w \in Watcher : Watch(w) \/ WatcherDies(w)

Spec == Init /\ [][Next]_vars

\* The autopilot runs the watcher again and again, a call to the chain that is
\* tried again and again succeeds at last, and a watcher is not always killed.
FairSpec ==
    Spec /\ \A w \in Watcher : WF_vars(Watch(w)) /\ SF_vars(Finds(w))

-----------------------------------------------------------------------------
(* Properties.                                                             *)

\* The books are appended to in an order that survives a death between any two
\* appends: an outcome a watcher recorded has its pair, without which nobody
\* would come back to it; a pair has a receipt of its transaction; and receipts
\* and outcomes are those of the chain (backfillPendingSignerConfirmations,
\* runDirectReceiptIngest and the closure in handleIntentCommand).
OutcomesRest ==
    /\ finalized \subseteq closed \cup pending
    /\ \A r \in closed \cup pending : receipts[r] # <<>>
    /\ \A r \in Request :
          /\ receipts[r] # <<>> => OnChain(r)
          /\ "confirmed" \in stages[r] => tx[r] = "mined"
          /\ "reverted" \in stages[r] => tx[r] = "reverted"

\* Over all its runs, dying where it may, a watcher that can read the receipts
\* appends at most one for a transaction, and the executor does too
\* (existingReceiptTxHashes, appendExecutionReceiptReconciliation).
OncePerWriter ==
    \A r \in Request, w \in (Watcher \ blind) \cup {"executor"} :
        Cardinality({n \in 1..Len(receipts[r]) : receipts[r][n].by = w}) <= 1

\* When a candidate of the backfill is mined or reverted, there comes a time
\* when none is left that is: whatever the watcher had done for one when it
\* died, another run finishes it (pendingSignerConfirmationCandidates).
Backlog == {r \in Candidates : OnChain(r)}

Drained == Backlog # {} ~> Backlog = {}
=============================================================================
