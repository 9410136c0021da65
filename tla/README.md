# bob-claw in TLA+

A model of the part of bob-claw that moves money: the signer daemon, what it
records, the policies that read the records back, the kill switch, and three
programs around it: the payback scheduler, the refill jobs of the autopilot, and
the ingest of receipts with the settlement watcher.  Every definition is
translated from the code under `src/`; `PROJECT.json` names the lines of each.

## The system

bob-claw looks for yield on wrapped BTC over many chains.  Some nine hundred
modules scan, score and report; a dispatcher turns a plan into *intents*, and an
intent reaches a chain in one way only: a client sends it over a Unix socket to
the **signer daemon**, which evaluates the policies, signs, broadcasts, waits
and reconciles.  Everything is kept in append-only JSONL files, read whole when
needed, and in a few single-purpose files such as `KILL_SWITCH`.  There are no
locks and no database; the daemon serves requests concurrently in one Node
process, and several other processes share its files.

| Component | State it keeps | Operations | Interacts through | What is hard | What makes it correct |
|---|---|---|---|---|---|
| Signer daemon (`executor/signer/daemon.mjs`) | runs of `handleIntentCommand` | sign, sign and broadcast | audit log, pairs, receipts, kill-switch file, chain | interleaving at every await, failures of any step, crashes, timeouts | nothing is sent unrecorded or unapproved; answers agree with records |
| Audit log (`audit-log.mjs`) | `logs/signer-audit.jsonl` | append, read all | read by every policy | order of records of concurrent runs | the policies compute what the records say |
| Consecutive failures (`policy/consecutive-failures.mjs`) | none (replays the log) | streak of a lane, pause, reset | audit log | records that replace one another | a lane pauses after its reverts and only a success or a reset releases it |
| Caps (`policy/cap-check.mjs`) | none (replays the log) | daily volume | audit log | deduplication, concurrency | spending stays within the cap |
| Capital audit (`capital/audit-replay-startup.mjs`, `capital-audit-pair.mjs`, `capital-audit-backfill.mjs`) | `capital-audit-pairs.jsonl` | close a pair, backfill, gate | audit log, receipts, the settlement watcher's pairs | partial failure between broadcast and closure, pairs that forgive more than they close | a strategy does not go on with unreconciled capital |
| Kill switch (`policy/kill-switch.mjs`, `watchdog/`, `risk/auto-kill-events.mjs`, `cli/run-kill-switch.mjs`) | the file and `kill-switch-audit.jsonl` | halt, resume, trip, watchdog halt, stale clear | file existence | four kinds of process writing without a lock | a halt stands until somebody entitled lifts it |
| EVM signer (`signer/evm-local-signer.mjs`) | nonce managers | sign, broadcast, wait | providers | several providers, lost answers, resets, intents with a nonce of their own | but for explicit nonces, a manager hands out a nonce once, and without holes |
| Payback (`payback/`, `cli/run-payback-scheduler.mjs`) | the last tick, in memory; disbursement records | tick: decide, bridge, offramp, wait, record | receipts, treasury inventory, signer, the recipient's balance | a memory that a restart loses, periods that touch, partial failure, delivery told from a balance | what is stated as delivered was received; profit is counted once; a payment is recorded once |
| Refill jobs and their journal (`all-chain-autopilot.mjs`, `helpers/`, `execution/journal.mjs`, `cli/run-refill-job-stub.mjs`) | jobs and reservations of a round, journal of events | plan, preview, execute, retry, fall back | child processes, signer | children that are killed or give up while the signer goes on, several legs | a job debits its source once, and what it took is reserved |
| Receipt ingest (`ingestor/`, `cli/ingest-execution-receipt.mjs`) | `receipt-reconciliations.jsonl`, `capital-audit-pairs.jsonl` | ingest, settle, backfill confirmations | audit log, receipts, chain | four kinds of writer without a lock, deaths between appends | outcomes, pairs and receipts agree; the backlog is drained |
| Blocker resolution (`cli/run-blocker-resolver.mjs`, `blocker-resolution/`) | lock, state, pending dispatches, breaker | plan, act, dispatch, confirm | signer audit, receipts | none that has an effect: its actions are stubs | out of scope |
| Stages, canaries (`policy/stage-evaluator.mjs`, `canary/`) | none (computed from records) | promote, demote | records | hysteresis | a stage is held only under its conditions |
| Allocator, settlement table, development lock, refresh queue | none that several steps change | sort, look up | files | none | out of scope |
| Strategies, market data, reports, dashboard, CLI | none or derived | scoring, reports | read only | numeric | out of scope |

`PROJECT.json` lists every component with its status, and under `hazards` each
place where the code is hard to test, with the property that covers it.

## The modules

| Module | Models | Checked by |
|---|---|---|
| `AuditLog` | records, streak, daily volume, capital gap as sets of positions | through the two below |
| `AuditLogGrowth` | every log up to a length; the loops of the code as reference | `MCAuditLog` |
| `AuditLogProofs` | theorems | tlapm |
| `BroadcastGate` | abstract: what the daemon promises about broadcasts | as `ImplementsGate` |
| `SignerDaemon` | `handleIntentCommand`, one action per step, and its environment | `MCSignerDaemon` |
| `SignerDaemonProofs`, `SequenceProofs` | theorems: one run, then requests made one after the other | tlapm |
| `KillSwitch` | the kill-switch file and those who write it | `MCKillSwitch` |
| `KillSwitchProofs` | theorems | tlapm |
| `EvmNonce` | the EVM signer's nonce managers, its fallback over providers, the nodes behind them | `MCEvmNonce` |
| `EvmNonceProofs` | theorems | tlapm |
| `PaybackLedger` | abstract: what the payback ledger promises | as `ImplementsLedger` |
| `Payback` | the scheduler's loop and tick, the transfers, the records | `MCPayback` |
| `PaybackProofs` | theorems | tlapm |
| `Refill` | a round of refills: autopilot, child processes, journal, signer | `MCRefill` |
| `RefillProofs` | theorems | tlapm |
| `ReceiptIngest` | audit records, receipts and pairs, and those who append them | `MCReceiptIngest` |
| `ReceiptIngestProofs` | theorems | tlapm |

### AuditLog

A record keeps what a policy reads: the intent, `policyVerdict`, the lifecycle
`stage`, whether it has a transaction hash (`broadcast`), and its `date`, a
number that orders records as their timestamps do.  What the daemon or the
operator appends is dated by its place in the log (`Today`); what the
settlement watcher records of a transaction has the date at which the watcher
started (`StartedAt(n)`, when the log had `n` records), and so lies behind
records that were appended earlier.  Streak, volume and gap compare dates, and
break ties by the order of reading, as the loops do.  A log is of one UTC day.
Strings are model values; `HashOf` and `IdOf` say which submissions share `intentHash` and
`intentId`.  The loops over the log (`latestClassifiedRecords`,
`countConsecutiveBroadcastFailures`, `dedupeRecords`,
`replayAuditForCapitalGaps`) are stated without order of evaluation, as sets
of positions, and `AuditLogGrowth` compares them with the loops, written as
recursive functions over the log, for logs that the daemon, resets and the
watcher (`AppendOfWatcher`) append to.

### SignerDaemon

A request is one submission.  `pc[r]` is where its run of
`handleIntentCommand` is:

    idle -> reading -> signing -> signed -> rechecking -> cleared -> sent
         -> awaiting -> ingesting -> closing -> done
    sent -> ingestingJob -> done        (no wait for the confirmation)
    any of the try block -> failing -> done,   any -> lost (crash)

`auditSeen` and `pairsSeen` are what the run read at its start and judges with
at `Approve`: that is the snapshot between which and the broadcast other runs
go on.  `tx[r]` is the transaction as the network sees it; a `phantom` was
reported as accepted (or as known already) and never mined.  `BroadcastFails`
may or may not leave the transaction in a mempool.  `prior[r]` is a history
variable: the requests that were over when `r` was submitted, for properties
about requests made one after the other; so is `before[r]`, the length of the
log at that moment.

The environment mines or reverts what is in a mempool, arms and disarms the
kill switch, resets streaks, ingests receipts by hand, backfills, and crashes
and restarts the daemon.  A restart recovers nothing, as in the code.

The settlement watcher is a part of this environment.  It looks at what the log,
as it read it, says is broadcast and has no final record (`Candidate`).  When it
finds the transaction on chain it appends a pair (`AppendPair`), which closes the
intent or at least is dated, and since `latestBackfillActivationAt` takes the
latest pair of its source, moves `activation` forward like a backfill; and then
the outcome (`AppendOutcome`), `confirmed` or `reverted`, unless the log has it
by now.  Both have the watcher's own date, which may be older than records of
other runs.  A watcher may die between the two: nothing obliges `AppendOutcome`.
`Outcomes` bounds the pairs, and `Lag` how many records are appended between a
watcher's start and its pair; more may come before the outcome.

### KillSwitch

`file` holds what a reader can tell apart: the bare time the watchdog writes,
the event the auto-kill check writes (neither has a `reason`), and the
operator's text, which has one: what the operator typed, which may contain
`heartbeat_stale` (`OperatorHaltsOnHeartbeat`).  Such a halt is cleared by the
next status request like the watchdog's, and it replaces whatever stood before,
so `OperatorHaltStands` and the properties of trips hold until the operator
resumes or writes one.  A resume's reason may name the heartbeat too, and is
then what the audit says last.  `trace` is the latest halt or resume in the
kill-switch audit.  Each process looks, writes and appends in separate steps
and may die in between.  `readKillSwitchStatus` is three steps: the audit, the
file, the removal.  `tripped` and `standing` are history variables.

`SignerDaemon` sees only whether the file exists, and its `Toggle` may change
that at any time, so it covers every behaviour of `KillSwitch`.

### EvmNonce

Each provider has a `SequentialNonceManager` (`next[p]`); a build tries the
providers in turn until one hands out a nonce, a broadcast goes to all of them,
and the wait takes the first receipt.  `reserve` is two steps, `Count` and
`Reserve`, since other runs reserve while the count is on its way.  An intent
with a nonce of its own (`ReserveExplicit`, `asked`) skips the count and sets
the manager to go on from there, back or forward: after it the manager may hand
out a nonce again, or leave some out.  `ManagersCountApart` and `NoHoles` say how
far: a nonce is repeated only when an explicit one that is no larger came to the same
manager since its reset, and one is missing only below an explicit one.  All
managers are reset when a broadcast or a wait fails.  The nodes behind the
providers need not agree: each has its `pool` and has seen `head[p]` of the
`mined` transactions.  `AlreadyKnown` is where the code takes an error for an
acceptance.  `handed` and `taken` are history variables.

`SignerDaemon` sees of this only outcomes: `Broadcast` with `phantom` for what
was accepted and not taken, `BroadcastFails` with or without the transaction in
a mempool.

### Payback

`now` is a clock whose instants fall into minutes, some of which the cron
expression matches; `earned[t]` is the profit of the receipts observed up to `t`,
so that a receipt ingested late changes a past that a tick may have judged.
`pc` is where the scheduler is:

    down -> asleep -> loading -> deciding -> asleep          (carried or deferred)
                                 deciding -> bridging -> crossing -> measuring
          -> listing -> paying -> settling -> proving -> recording -> asleep
    any -> down        (a death, or an exception, which nothing catches)

`triggered` is `lastTriggeredAt`, which is lost with the process; a run without
`--loop` goes straight to `loading` and back to `down`.  `seen` is what the tick
loaded, with which it goes on while the world changes.  The bridge's refusal
and its timeout end the step like a success, as `submitCompositePaybackPlan` does
not look at the results.  A delivery is proven by two reads, each done once
before the offramp and again while waiting: the recipient's balance (`before`,
`delta`) must have grown by enough, and its list of transactions (`listed`,
`deposits`) must have a new one (`Proven`).  `delta` is what the record states as
`settledBalanceDeltaSats` of a delivered payment, and `stated` adds those up.

What is stated is not what is credited.  The accumulator counts a payment as
delivered only when it finds the hash of its source transaction, in one of the fields of
`HashLookedFor`; a disbursement record has it under the names of `HashRecorded`.
They share none, so `PaidBack`, the `paidBackSats_lifetime` that the next tick
loads, is 0.  `counted` is a history variable: in how many of its periods
the process counted the profit of each instant.

`PaybackLedger` knows payments, arrivals and records only: a payment arrives at
most once, is recorded at most once, and the records in all state no more as
delivered than was received.  `ImplementsLedger` is the identity on those variables.

### Refill

A round of `runAllChainAutopilot`: `Plans` scans the source once, `Skips` and
`Takes` go over the jobs with the amounts reserved so far, and each job is
previewed and executed by a child process, `Mine`.  A child is
`run-refill-job-stub`: it reads the journal once (`seen`), resolves a fallback,
passes the gate, prepares, and sends the legs of its method to the signer.  `Kills`
is the autopilot's timeout, `LegTimesOut` the child's; in both the intent stays
at the signer (`orphans`) and may be broadcast later (`SignsLate`).  The journal
is abstracted to what its readers make of it: the latest event of the job, the
active method, and each method's failures in a row.

What the legs report is what decides: a swap that fails throws, and the results
of the legs before it are lost; a bridge that fails returns, and the next leg is
sent all the same; the Gateway executors report no steps.  `MayHaveDebited` and
`Retryable` read only that report.  `debits` counts what the signer broadcast, and
`unshown` has the jobs whose debit is in no report.

### ReceiptIngest

`stages`, `receipts`, `closed` and `pending` are the audit records, the receipt
reconciliations and the capital-audit pairs of each request; `run[r]` is the
daemon's run of it, and after the answer the executor's; `watcher[w]` a run of
`runAsyncSettlementWatcher` with what it read (`todo`, `known`).  Every read and
every append is a step, and a run, an executor or a watcher may die between
any two.  A request's kind says who ingests its receipt.  A resent intent shares
the hash of the first, so that a record of one is taken for one of the other
where the code compares hashes (`Final`, `Candidates`).

`SignerDaemon` has the ingest and the closure of the daemon as steps that fail or
succeed, and any receipt may be ingested by hand there; `ReceiptIngest` has the
writers one by one, and of the daemon only what comes after a broadcast.

## The runs

| Run | Bounds | What it shows |
|---|---|---|
| `audit_log` | 4 records of 3 requests (one a resend, one an approval) and a reset | streak, volume and gap are the loops'; lanes are independent; no record hides a gap |
| `pair` | an awaited and a broadcast-only request, limit 1, a cap both fit under, so that the capital gate decides | every interleaving with failures, crashes and a pair and outcome of the watcher: write-ahead, answers, capital gate, refinement |
| `sequence` | 3 requests one at a time, limit 2, cap 5, an outcome of the watcher | cap and pause over longer histories |
| `mixed` | a sign-only approval and an awaited unwind, a reset, with fairness | answers agree with the log on these paths too; every run ends |
| `kill_switch` | 2 readers, with fairness | halts and clean trips stand until the operator's next command; a stale heartbeat keeps halting |
| `nonces` | 2 requests, 2 providers, counts and explicit nonces up to 2 | what the nonce managers guarantee |
| `payback` | 4 instants in 2 minutes that the cron matches, 1 sat earned, 2 payments, with fairness | what is stated as delivered, periods, the end of ticks, refinement |
| `refill` | 2 jobs, one by the BTC intermediate (3 legs) or LI.FI (1), one by the Gateway (2 legs) or LI.FI, 1 round, 1 run by hand, a source for none, one or both | one debit a job; what was taken is reserved |
| `receipts` | an intent and its resend, 1 watcher that dies once, 2 receipts of a settlement, with fairness | books that survive deaths; who may append twice; the backlog is drained |
| `concurrent_spending`, `kill_trip_cleared`, `payback_never_pays` | the smallest that shows it | the findings below |

Two requests are enough for the invariants of `pair` because each relates at
most two of them; the theorems extend all five to any number, and the cap and
the pause of `sequence` to requests that others overlap.  The cap
and the limit are small so that the second or third request meets them.  The
state spaces are finite without counters: a request is submitted once, a reset
recorded once.  `sequence` is constrained (`PlainSequence`) to one run at a
time, no crash and no phantom: the properties it checks are about requests in
sequence, and the theorems have the rest.  In it the watcher follows the runs
that are over and were left pending, and no receipt is ingested but for a confirmed one.
`pair` is constrained (`QuietAfterPair`) to a daemon that stays up, with the kill
switch off, once the watcher has appended its pair: before it, and in `mixed`
throughout, both change as they like.  One pair (`Outcomes`) is enough for one
outcome that is dated before what was appended after it, or that moves the
activation over a gap; the theorems have any number, and any `Lag`.

`PausedAfterReverts` counts the reverts that were in the log when the request was
submitted, by the daemon or the watcher, and that are dated after every reset and success of the
lane but one that a later revert of the same request supersedes.  A broadcast of an
overlapping request that the run read, and that reverts later, did
end the streak when it was judged.  A revert that is not the latest record of
its request is left out: see below.  `CHECK_DEADLOCK FALSE` is stated
where all requests may be over, or the log full: there the model ends.

In `payback` two periods meet, overlap after a restart, or are counted late within
four instants, and two payments can arrive in either order, late or never; the
amounts are one sat because the properties compare sums and not ratios.  In
`refill` two jobs are what a reservation relates, and the three legs of the BTC
intermediate have every kind: first and last swap, and a Gateway leg between
them.  The Gateway's two legs begin with one that returns when it fails, and end
with the swap of what was delivered, which throws.  `Threshold` is one, so that the fallback happens within a round.  In
`receipts` the resend gives every record another of its hash to be taken for;
a second watcher adds nothing to `OncePerWriter`, which is of each writer alone,
and the theorem has any number.

In `nonces` `MaxNonce` is the number of requests, so that no count is cut off by
it; two requests are what each of its invariants relates, but for a nonce repeated
by two requests after an explicit third, which only the theorem has.

**Fairness.** `mixed` assumes that a run whose next step is possible takes
it (`WF_vars(Proceeds(r))`): each call of the handler has a timeout of its own
or is local.  No failure is counted on, and nothing is assumed of mining: a
run ends though its transaction is never mined.  `kill_switch` assumes that the
watchdog's loop of fifteen seconds goes on, restarted when it dies, and that a
write it tries again and again succeeds at last (`SF`).  The grace it gives a
daemon that has never written a heartbeat is left out.  `payback` assumes that a
tick takes its next step (`WF_vars(Tick)`), since each await of it has a deadline
(the client of the signer, the bridge's settlement, the recipient's balance), and
that a refused offramp throws (`WF` of `Dies` at `paying`).  `receipts` assumes
that the autopilot goes on running the watcher (`WF` of `Watch`), that a read of
the chain that is tried again and again succeeds at last (`SF` of `Finds`), and
that it is not killed for ever (`MaxDeaths`); nothing of the daemon or of
mining.  It takes `asyncSettlementEnabled` to be on.

## Where code and documents differ

Each is a run that TLC finds violated; `PROJECT.json` quotes the text.

1. `concurrent_spending`: two overlapping runs judge the same log and together
   exceed the daily cap.  One after the other they cannot
   (`SequentialSpendingWithinCap`).
2. `kill_trip_cleared`: a status request removes the file of a trip when the
   latest reason in the audit names the heartbeat.
3. `payback_never_pays`: a period's target that is below the minimum is carried,
   but the next period starts after it and counts only its own profit; the
   runbook has the pending sats add up.

More were met and are no runs, as they are plain reading:

- The kill-switch file is not looked for between the last check and the
  broadcast (`daemon.mjs:259`).
- The error record of a run that fails after its broadcast replaces the
  broadcast in the streak, and a rejection of a resent intent the revert of the
  first submission (`consecutive-failures.mjs:142`), although the file's comment
  has only successes and resets clear a streak.
- The settlement watcher dates the revert it records with its own start: a
  `confirmation_pending` record that the run appends after that start is dated
  later, stands for the intent, and counts as a success.  An error record that
  the run appends later counts as neither, and stands for the intent too.  In
  both cases the revert is not in the streak (`execution-receipt-ingest.mjs:751-774`).
  `PausedAfterReverts` and `PauseLiftedBySuccessOrReset` leave out these cases
  and the one above.
- The watcher's pair of one transaction is dated like a backfill, and forgives
  every earlier broadcast of every strategy (`execution-receipt-ingest.mjs:726-733`,
  `audit-replay-startup.mjs:16-25`).
- "Nonce too low" is taken for an acceptance though it may be about another
  transaction (`evm-local-signer.mjs:475`; `PhantomHasRival` is what does hold).
- The annual cap of paybacks (`config/payback.mjs:36` has a "rolling 12-month
  cap") bounds nothing: it is compared with `paidBackSats_lifetime`, and the
  accumulator finds no source hash in the scheduler's records
  (`accumulator.mjs:365-371`, `scheduler.mjs:1218-1257`), so that they count
  for 0.  The model has this (`PaidBack`), and no property says that the cap holds.
- An operator's halt whose reason contains `heartbeat_stale` is cleared by the
  next status request (`kill-switch.mjs:246-250`), though the heartbeat may be
  stale or not.

## The proofs

For every set of requests or readers and every value of the constants:

- **SignerDaemonProofs.** `TypeCorrect` proves the types.  `WriteAheadHolds` and
  `AnswersHold` come from one inductive invariant, `Inv`: it says what each
  program counter knows of the log, the transaction and the answer (a run past
  `signed` has its signed record; one past `sent` has its broadcast record; a
  rejected one was never sent), which the properties leave out and every step
  needs.  `DaemonImplementsGate` proves that each step of the daemon is a step
  or a stutter of `BroadcastGate` under `gateOf`; it rests on the write-ahead,
  since a release needs the record.

  `ReconciledHolds`: when a request passes the capital gate, each earlier
  request of its strategy with a recorded broadcast is reconciled or was recorded
  before the latest backfill or watcher's pair.  `BooksInv` adds what the gate saw: a
  snapshot is a prefix of the log, `closed` and `activation` only grow, and of a
  request that was over when the snapshot was taken nobody appends but the
  watcher, who follows only what the log already shows was broadcast (`Shown`).  It uses
  `DigestAssumption`: intents of one digest are of one strategy.
- **SequenceProofs.** What holds between requests made one after the other, while
  any others overlap with them, fail or crash, and while watchers record outcomes
  with dates of their own.  All of it rests on `RecordsInv`: only a revert records
  that a broadcast failed, the broadcast of a request is recorded before those
  that come after it read the log, and what was in the log at a submission is
  among what the run reads.

  `PauseLiftedAlways` compares the streak before and after one record: the
  failures it counts (`Streaking`) are all still counted unless the record
  classifies as a success or a reset, or shares its hash with one of them
  (`FailedBefore`); a record that is dated earlier than others moves none of them.

  `PausedAfterRevertsAlways`: at `Approve` each request that the property counts
  has a failure of its own in the streak that was read (`RevertsStreak`), so that
  the streak is no smaller; `PauseInv` carries the bound on: the reverts counted
  were in the log at the submission, and a record that is appended later, whoever
  appends it and whatever its date, can only take a request out.

  `SpendingWithinCapAlways`: at `Approve` each earlier request that stands has a
  record of its own in the volume that was read: the furthest record of its
  `intentId` ranks at least as a broadcast, is not a revert and belongs to nobody
  else (`HasBest`, `StandingCounted`).  The positions are therefore an image,
  one to one, of the requests, and the sum over the requests is at most the volume
  (`SumWithin`).  `CapInv` carries this on, and the theorem follows for any
  sequence by taking the request that broadcast last (`LastOfSequence`).
- **AuditLogProofs.** The sets of positions of `AuditLog` are what the loops of
  the code compute, for logs of any length: `StreakIsTheLoopAlways`,
  `BestIsTheLoopAlways`, `GapIsTheReplayAlways`.  For each loop an invariant says
  what it holds after the first `n` records (of `latestClassifiedRecords`: the
  latest classified record of each hash among them; of the count: the failures
  kept among them since the last success or reset; of `dedupeRecords`: the
  furthest record of each id; of the replay: the hashes with open evidence, and
  the strategies of those first recorded after the backfill), and it passes from
  `n - 1` to `n`.  `GapsOutliveRecordsAlways` and
  `LanesAreIndependentAlways` are about one more record.

  *Induction over data.*  The library's induction theorems take a predicate as
  a parameter, and the provers cannot instantiate them.  With sets in place of
  predicates there is another way: a nonempty set of numbers has a least element
  (`LeastNumber`, from the well-foundedness of `<`), so a set that contains `0`
  and passes from each number to the next has them all (`HoldsUpTo`).  A recursive
  function is by definition a `CHOOSE`, so that there is one must be proved before
  anything can be said of it: `LoopRuns` does so for the loops, `SumRuns` for the
  sums of the community modules.  `SumTakes` then says that a sum does not depend
  on the order in which it is taken.

- **KillSwitchProofs.** `HaltInv` adds to an operator's halt that no step is under
  way that would undo it, `TripInv` that the audit names no heartbeat and no
  reader is judging by an older one.  What starts later starts against a file
  that is there or a reason that is not stale, until the operator resumes or writes a reason that is.

- **EvmNonceProofs.** `CountApartHolds`: what a manager has handed out since its
  reset is below its `next`, or an explicit nonce that is no larger was handed
  out since, which is what takes `next` back (`ManagerInv`).
  `NoHolesHold`: up to each reserved nonce, and below each count on its way and
  each `next`, a nonce is reserved or lies below an explicit one (`Filled`,
  `HoleInv`), as a node has a nonce only if it was reserved (`NetInv`).
  `RivalHolds`: a nonce a node has was taken from some request, and an accepted
  request whose own transaction was never taken was accepted because of it
  (`RivalInv`).  The key is assumed to be used by nobody else.

- **PaybackProofs.** `StatedWasReceivedAlways`: a measured balance is never above
  the current one and what is stated never above a measured one, so a delta added
  to what is stated is covered (`StatedInv`).  `CountedOnceAlways`: no instant after the end of the latest
  period was counted, and that end at most once; the next period begins there,
  and only in a later minute (`CountInv`).
  `LedgerRefinement`: every step is a step or a stutter of `PaybackLedger`; it
  needs that the payment being settled is the last one and has no record.
- **ReceiptIngestProofs.** `OutcomesRestAlways`, for any sets of requests and watchers.  The
  invariant adds to `OutcomesRest` what a run and a watcher know in the middle of
  their work: a daemon about to close has its receipt, a watcher that found
  a receipt is about a transaction on chain, and one about to record the outcome
  has appended the pair (`RunInv`, `WatchInv`).  `OncePerWriterAlways`: what a watcher has still
  to look at and knows no receipt of has none of its own, since it reads before it
  looks and nobody else writes in its name (`TodoInv`, `OnceInv`).
- **RefillProofs.** Both properties follow a job through its child's report.
  `DebitedOncePerRoundAlways`: once a run has spent, or has left an intent at the
  signer (`Spent`), it is `Settled`: a later leg of it shows, its result is no reason
  to retry, or the journal's last event of the job is a failure, which closes the
  gate on the next preview (`SpentInv`).  `DebitsReservedAlways`: until the run is
  judged what it spent is owed (`Owing`), and afterwards reserved or in no report
  (`OwedInv`); this holds with an operator's runs too.  `MineInv` says where the
  autopilot's child is in the round.  `LegsAssumption`: a method
  that does not swap first, as the Gateway with the swap of what it delivers, has
  only swaps after its first leg (`SwapsLeft`): they throw, so that a debit that
  no step shows is not retried; a second bridge after one that failed would
  return, and let it be.
  The theorem has any number of rounds, the run `refill` one.

Every invariant and every action property that a passing run checks is stated by
a theorem, and so are both refinements.  Only model-checked is liveness
(`EveryRunEnds`, `StaleKeepsHalting`, `TicksEnd`, `Drained`), which is out of the
prover's reach.

**Assumptions.**  Of the constants the theorems assume what `IntentAssumption`,
`DigestAssumption`, `DaemonAssumption` and their like in the other modules say,
which TLC evaluates in every run: requests and resets are different, kinds and
amounts are of their types, one digest is of one intent, limits are positive.
No set of requests, resets or chains is assumed finite.

## What is left out, and why

- Policies other than streak, caps and capital gate compare fields of an intent
  with a quote or a constant; `Reject` may block any request, so the model
  allows whatever they decide.  `Approve` requires only the three and the kill
  switch.
- The special verdict of `prelive_fork_execution`, the immediate closure of
  `gateway-btc-onramp`, committed resets (`resumeAfter`), loss caps, the change
  of UTC day, and amounts that a record may override.
- The client's timeout of thirty seconds abandons a run that goes on in the
  daemon; its resubmission is another request with the same `HashOf`.
- A write of a small file or an append of one line is one step; the backfill
  command, a batch run by hand, is one step.
- Fees, the checks of calldata and targets: they
  make a build fail or choose between `Supplants` and `AlreadyKnown`, which are
  both allowed.  The order of the providers after the active one is any.
- Payback: one scheduler at a time; the recipient is configured; the market
  multipliers are 1, as in every call; whether the kill switch is on, and whether a plan can be built, is a
  choice at `Declines`; the swap of a reserve that is not wrapped BTC, which comes before the
  bridge and spends nothing on BOB.  The loop run with `--execute` and without
  `--write`, which pays and records nothing, is left out.
- Refill: the amounts are equal; the order of the alternative methods is any;
  the executors' `submitted` events, and the ingest by hand that writes them;
  `--force`.  A debit by an operator's run is not the autopilot's
  (`DebitedOncePerRound` is for rounds nobody else runs a job of: both can find
  that it may start).
- Receipt ingest: what a receipt is worth, Bitcoin and Gateway receipts, the
  search for a proof of settlement.

### Not modelled

The map covers a small part of the repository's lines, and a larger part could
only be had by transcribing what keeps no state.  Most of the tree is strategies, scoring,
catalogues, quotes, reports, command-line parsing and two dashboards: functions
of market data or of files that others write, without a second party, an order
or a failure that could leave something half done.  In particular:

- *Strategies, market data, reports, dashboard, command line*: stateless or read
  only.  What they can do to the money is send an intent, and `SignerDaemon` takes
  any intent.
- *Auto-kill triggers, risk breakers, stages, allocator*: thresholds over one
  call's data.  Their outcome is a choice (`AutoKillTrips`, `Reject`).
- *Blocker resolution*: its default action is a stub that answers ok, and nothing
  calls what would trip its breaker.
- *The BTC signer*: it selects from outputs that come with the intent and keeps
  nothing between requests.
- *Async settlement registry, slot mutex, refresh queue, development lock*: a
  table filled once at the start, a mutex without a caller, a sort, and a test that a file exists.

## The order in which it was built, and what is left

1. `AuditLog`, `SignerDaemon`, `BroadcastGate`, `KillSwitch` and their proofs.
2. `EvmNonce` and its proofs.
3. `Payback`, `PaybackLedger` and their proofs.
4. `Refill` and `ReceiptIngest`, with their proofs.

Left: `SignerDaemon` composed with `EvmNonce`, so that a phantom is traced to
the answer the daemon gives, and with `ReceiptIngest`, so that the capital gate
is seen to be opened by the watcher's closures.
