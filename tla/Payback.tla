------------------------------- MODULE Payback -------------------------------
(***************************************************************************)
(* The payback scheduler.  A tick looks at the profit of its period, and   *)
(* when a share of it is worth a payment moves the reserve's wrapped BTC   *)
(* from Base to BOB, offramps it to the Bitcoin recipient, waits for the   *)
(* recipient's balance to grow and records the disbursement.  The          *)
(* scheduler runs as a loop on a weekly cron, or once, and one at a time;  *)
(* it can die at any step, and when it last ticked is in its memory only.  *)
(* Around it time passes, receipts are ingested, some of them late, the    *)
(* reserve grows and is scanned, and transfers arrive or do not.           *)
(***************************************************************************)
EXTENDS Integers, Sequences

CONSTANTS
    MaxTime, MaxEarned, MaxPayments, MaxSats,   \* bounds
    MinuteLength,   \* instants of the clock in a minute
    CronEvery,      \* the cron matches one minute in CronEvery
    Share,          \* 1 / baseRatio
    MinPayback,     \* effectiveMinPaybackSats
    PeriodMax,      \* perPeriodMaxSats
    AnnualMax,      \* annualMaxPaybackSats
    Cost,           \* estimatedOfframpCostSats of a plan
    CostShare,      \* 1 / maxOfframpCostPctOfPayback
    BobCapital      \* wrapped BTC on BOB that is not the reserve's

ASSUME PaybackAssumption ==
    /\ MaxTime \in Nat \ {0} /\ MaxEarned \in Nat /\ MaxPayments \in Nat /\ MaxSats \in Nat
    /\ MinuteLength \in Nat \ {0} /\ CronEvery \in Nat \ {0}
    /\ Share \in Nat \ {0} /\ CostShare \in Nat \ {0}
    /\ MinPayback \in Nat /\ PeriodMax \in Nat /\ AnnualMax \in Nat
    /\ Cost \in Nat /\ BobCapital \in Nat

VARIABLES
    now,
    earned,         \* earned[t]: profit of the recorded receipts observed up to t
    reserve,        \* wrapped BTC of the reserve on Base
    inventory,      \* the reserve in the latest treasury-inventory record
    crossing,       \* wrapped BTC on its way to BOB
    bob,            \* wrapped BTC on BOB
    sent,           \* the sats of each payment, in the order they were sent
    arrived,        \* the payments that reached the recipient
    received,       \* the recipient's Bitcoin balance
    deposits,       \* the transactions that pay to the recipient
    disbursed,      \* the payments with a disbursement record
    delivered,      \* those whose record says delivered
    stated,         \* the settledBalanceDeltaSats of those, added up
    pc,             \* where the scheduler is
    looping,        \* run with --loop
    triggered,      \* lastTriggeredAt, 0 for null
    until,          \* periodEndAt of the tick
    seen,           \* what the tick makes of the inputs it loaded
    before,         \* the recipient's balance, read before the offramp
    listed,         \* its transactions, listed after that
    delta,          \* what the balance grew by; 0 once that is unproven
    counted         \* history: the periods of this process each instant was in

world == <<reserve, inventory, crossing, bob>>
money == <<sent, arrived, received, deposits>>
books == <<disbursed, delivered, stated>>
memory == <<pc, looping, triggered, until, seen, before, listed, delta, counted>>
vars == <<now, earned, world, money, books, memory>>

Time == 1..MaxTime

NoInputs == [target |-> 0, paid |-> 0, reserve |-> 0]

Ticking == {"loading", "deciding", "bridging", "crossing", "measuring", "listing",
            "paying", "settling", "proving", "recording"}

Payments == 1..Len(sent)

\* The types, by group of variables.
WorldOK ==
    /\ reserve \in Nat /\ inventory \in Nat /\ crossing \in Nat /\ bob \in Nat
    /\ now \in Time
    /\ earned \in [0..MaxTime -> Nat]

MoneyOK ==
    /\ sent \in Seq(Nat)
    /\ arrived \subseteq Payments
    /\ received \in Nat /\ deposits \in Nat

BooksOK ==
    /\ delivered \subseteq disbursed /\ disbursed \subseteq Payments
    /\ stated \in Nat

MemoryOK ==
    /\ pc \in Ticking \cup {"down", "asleep"}
    /\ looping \in BOOLEAN
    /\ triggered \in 0..now /\ until \in 0..now
    /\ seen \in [target: Int, paid: Nat, reserve: Nat]
    /\ before \in Nat /\ listed \in Nat /\ delta \in Nat
    /\ counted \in [Time -> Nat]

TypeOK == WorldOK /\ MoneyOK /\ BooksOK /\ MemoryOK

Init ==
    /\ now = 1
    /\ earned = [t \in 0..MaxTime |-> 0]
    /\ reserve = 0 /\ inventory = 0 /\ crossing = 0 /\ bob = BobCapital
    /\ sent = <<>> /\ arrived = {} /\ received = 0 /\ deposits = 0
    /\ disbursed = {} /\ delivered = {} /\ stated = 0
    /\ pc = "down" /\ looping = FALSE /\ triggered = 0 /\ until = 0
    /\ seen = NoInputs /\ before = 0 /\ listed = 0 /\ delta = 0
    /\ counted = [t \in Time |-> 0]

-----------------------------------------------------------------------------
(* The clock and the cron expression.                                      *)

Minute(t) == t \div MinuteLength

\* matchesCronExpression.
CronMatches(t) == Minute(t) % CronEvery = 0

\* sameCronMinute.  A null lastTriggeredAt reads as the epoch.
SameCronMinute(s, t) == Minute(s) = Minute(t)

\* A bug: a minute that matched is due however often it is polled.
DueAgain(t) == CronMatches(t)

Due(t) == CronMatches(t) /\ ~SameCronMinute(triggered, t)

-----------------------------------------------------------------------------
(* The decision, on the inputs the tick loaded.                            *)

\* Math.round(profit * baseRatio): the market multipliers are 1 in every call.
TargetOf(profit) == (2 * profit + Share) \div (2 * Share)

\* isWithinWindow of the accumulator, both ends included.
ProfitWithin(from, to) == earned[to] - (IF from = 0 THEN 0 ELSE earned[from - 1])

WithinCaps ==
    seen.target <= PeriodMax /\ seen.paid + seen.target <= AnnualMax

\* Where a disbursement record has the hash of the source transaction, and
\* where the accumulator looks for one, without which a payment does not count
\* as delivered.  The order and the Bitcoin transaction it finds.
HashRecorded == {"sourceTxHash", "receipt.sourceTxHash"}

HashLookedFor == {"signerResult.broadcast.txHash", "broadcast.txHash", "receipt.hash", "txHash"}

\* paidBackSats_lifetime: what the records count for.
PaidBack == IF HashRecorded \cap HashLookedFor = {} THEN 0 ELSE stated

\* A composite plan is asked for.
Plannable == seen.target >= MinPayback /\ seen.reserve > 0 /\ WithinCaps

\* Nothing to pay, or not enough for a payment, before or after its cost.
CarriesOver ==
    \/ seen.target <= 0
    \/ seen.target < MinPayback
    \/ Plannable /\ seen.target - Cost < MinPayback

\* The composite plan is ready to execute.
Emits ==
    /\ Plannable
    /\ seen.target - Cost >= MinPayback
    /\ Cost * CostShare <= seen.target - Cost
-----------------------------------------------------------------------------
(* The process.                                                            *)

ProcessUnchanged == UNCHANGED <<now, earned>>

Forgotten ==
    /\ seen' = NoInputs /\ before' = 0 /\ listed' = 0 /\ delta' = 0

\* run-payback-scheduler is started, as a loop or for a single tick.
Start ==
    /\ pc = "down"
    /\ \E loop \in BOOLEAN :
          /\ looping' = loop
          /\ pc' = IF loop THEN "asleep" ELSE "loading"
    /\ triggered' = 0 /\ until' = 0 /\ Forgotten
    /\ counted' = [t \in Time |-> 0]
    /\ ProcessUnchanged /\ UNCHANGED <<world, money, books>>

\* The process dies, or its tick throws: nothing catches it.
Dies ==
    /\ pc # "down"
    /\ pc' = "down" /\ triggered' = 0 /\ until' = 0 /\ Forgotten
    /\ looping' = FALSE /\ counted' = [t \in Time |-> 0]
    /\ ProcessUnchanged /\ UNCHANGED <<world, money, books>>

\* An iteration of the loop that finds the cron minute due.  The others only
\* sleep again.
Poll ==
    /\ pc = "asleep" /\ Due(now)
    /\ pc' = "loading" /\ until' = now
    /\ counted' = [t \in Time |-> IF t \in triggered..now THEN counted[t] + 1 ELSE counted[t]]
    /\ ProcessUnchanged
    /\ UNCHANGED <<world, money, books, looping, triggered, seen, before, listed, delta>>

\* loadTickInputs, and what buildPaybackDecision makes of them.
Loads ==
    /\ pc = "loading"
    /\ until' = IF looping THEN until ELSE now
    /\ seen' = [target  |-> TargetOf(ProfitWithin(triggered, until')),
                paid    |-> PaidBack,
                reserve |-> inventory]
    /\ pc' = "deciding"
    /\ ProcessUnchanged
    /\ UNCHANGED <<world, money, books, looping, triggered, before, listed, delta,
                   counted>>

\* A bug: the next period starts after the end of this one.
EndsAfter ==
    /\ pc' = IF looping THEN "asleep" ELSE "down"
    /\ triggered' = IF looping THEN until + 1 ELSE 0
    /\ Forgotten
    /\ ProcessUnchanged
    /\ UNCHANGED <<world, money, looping, until, counted>>

\* The tick is over: its result is written, and the loop sleeps again.
Ends ==
    /\ pc' = IF looping THEN "asleep" ELSE "down"
    /\ triggered' = IF looping THEN until ELSE 0
    /\ Forgotten
    /\ ProcessUnchanged
    /\ UNCHANGED <<world, money, looping, until, counted>>

\* The tick ends without a payment: the kill switch is on, the target is
\* carried over, or it is deferred by a cap, by the cost, or by a reserve or a
\* plan that is missing.
Declines ==
    /\ pc = "deciding"
    /\ \E halted, planned \in BOOLEAN :
          halted \/ CarriesOver \/ ~planned \/ ~Emits
    /\ Ends
    /\ UNCHANGED <<disbursed, delivered, stated>>

\* The tick executes its plan.
Plans ==
    /\ pc = "deciding" /\ Emits
    /\ pc' = "bridging"
    /\ ProcessUnchanged
    /\ UNCHANGED <<world, money, books, looping, triggered, until, seen, before,
                   listed, delta, counted>>

Steps(from, to) ==
    /\ pc = from /\ pc' = to
    /\ ProcessUnchanged
    /\ UNCHANGED <<books, looping, triggered, until, seen, counted>>

\* The whole of the inventoried reserve is bridged to BOB ...
Bridges ==
    /\ Steps("bridging", "crossing")
    /\ reserve >= seen.reserve
    /\ reserve' = reserve - seen.reserve
    /\ crossing' = crossing + seen.reserve
    /\ UNCHANGED <<inventory, bob, money, before, listed, delta>>

\* ... or the signer refuses or fails, which ends the step like a success.
BridgeRefused ==
    /\ Steps("bridging", "measuring")
    /\ UNCHANGED <<world, money, before, listed, delta>>

\* The bridge settles, or the wait for it times out: the next step does not ask.
BridgeEnds ==
    /\ Steps("crossing", "measuring")
    /\ UNCHANGED <<world, money, before, listed, delta>>

\* A bug: the balance before is taken to be zero once there was a payment.
MeasuresOnce ==
    /\ Steps("measuring", "listing")
    /\ before' = IF sent = <<>> THEN received ELSE 0
    /\ UNCHANGED <<world, money, listed, delta>>

\* Before the offramp is signed the recipient's balance is read ...
Measures ==
    /\ Steps("measuring", "listing")
    /\ before' = received
    /\ UNCHANGED <<world, money, listed, delta>>

\* ... and then its transactions.
Lists ==
    /\ Steps("listing", "paying")
    /\ listed' = deposits
    /\ UNCHANGED <<world, money, before, delta>>

\* The offramp is broadcast.  When the signer refuses, the tick throws: Dies.
Pays ==
    /\ Steps("paying", "settling")
    /\ bob >= seen.reserve /\ Len(sent) < MaxPayments
    /\ bob' = bob - seen.reserve
    /\ sent' = Append(sent, seen.reserve)
    /\ UNCHANGED <<reserve, inventory, crossing, arrived, received, deposits,
                   before, listed, delta>>

\* The balance is polled, for the last time ...
Polls ==
    /\ Steps("settling", "proving")
    /\ delta' = received - before
    /\ UNCHANGED <<world, money, before, listed>>

\* ... and then the transactions listed: the payment is proven when the balance
\* grew by what was asked, and a transaction is listed that was not before.
Proven == delta >= seen.reserve /\ deposits > listed

\* A bug: the balance itself is taken for what it grew by.
DeliveredBalance ==
    /\ Steps("proving", "recording")
    /\ Proven
    /\ delta' = before + delta
    /\ UNCHANGED <<world, money, before, listed>>

\* waitForBitcoinBalanceDelta ends with the proof ...
Delivered ==
    /\ Steps("proving", "recording")
    /\ Proven
    /\ UNCHANGED <<world, money, before, listed, delta>>

\* A bug: the wait has no deadline.
TimesOutOnArrival ==
    /\ Steps("proving", "recording")
    /\ ~Proven /\ Len(sent) \in arrived
    /\ delta' = 0
    /\ UNCHANGED <<world, money, before, listed>>

\* ... or the deadline has come: the record states what the balance grew by,
\* but not as delivered.
TimesOut ==
    /\ Steps("proving", "recording")
    /\ ~Proven
    /\ delta' = 0
    /\ UNCHANGED <<world, money, before, listed>>

\* persistResult: the disbursement record of the tick's payment.
Records ==
    /\ pc = "recording"
    /\ disbursed' = disbursed \cup {Len(sent)}
    /\ delivered' = IF delta > 0 THEN delivered \cup {Len(sent)} ELSE delivered
    /\ stated' = stated + delta
    /\ Ends

Tick ==
    \/ Loads \/ Declines \/ Plans \/ Bridges \/ BridgeRefused \/ BridgeEnds
    \/ Measures \/ Lists \/ Pays \/ Polls \/ Delivered \/ TimesOut \/ Records

-----------------------------------------------------------------------------
(* The rest of the world.                                                  *)

TimePasses ==
    /\ now < MaxTime /\ now' = now + 1
    /\ UNCHANGED <<earned, world, money, books, memory>>

\* A receipt with a profit is recorded, one instant late or at once.
Ingests ==
    /\ earned[MaxTime] < MaxEarned
    /\ \E at \in {now - 1, now} :
          earned' = [t \in 0..MaxTime |-> IF t >= at /\ t > 0 THEN earned[t] + 1 ELSE earned[t]]
    /\ UNCHANGED <<now, world, money, books, memory>>

\* Profit is converted into the reserve.
ReserveGrows ==
    /\ reserve + crossing + bob < MaxSats + BobCapital
    /\ reserve' = reserve + 1
    /\ UNCHANGED <<now, earned, inventory, crossing, bob, money, books, memory>>

ReserveScanned ==
    /\ inventory' = reserve
    /\ UNCHANGED <<now, earned, reserve, crossing, bob, money, books, memory>>

BridgeArrives ==
    /\ crossing > 0
    /\ bob' = bob + crossing /\ crossing' = 0
    /\ UNCHANGED <<now, earned, reserve, inventory, money, books, memory>>

PaymentArrives ==
    /\ \E p \in Payments \ arrived :
          /\ arrived' = arrived \cup {p}
          /\ received' = received + sent[p] /\ deposits' = deposits + 1
    /\ UNCHANGED <<now, earned, world, sent, books, memory>>

\* Someone else pays to the recipient's address.
StrangerPays ==
    /\ received < MaxSats
    /\ received' = received + 1 /\ deposits' = deposits + 1
    /\ UNCHANGED <<now, earned, world, sent, arrived, books, memory>>

World ==
    \/ TimePasses \/ Ingests \/ ReserveGrows \/ ReserveScanned \/ BridgeArrives
    \/ PaymentArrives \/ StrangerPays

Next == Start \/ Dies \/ Poll \/ Tick \/ World

Spec == Init /\ [][Next]_vars

\* Every await of a tick has a deadline.  A signer's refusal of the offramp
\* throws, so does a read that fails.
FairSpec == Spec /\ WF_vars(Tick) /\ WF_vars(Dies /\ pc = "paying")

-----------------------------------------------------------------------------
(* Properties.                                                             *)

\* Delivery is told from the recipient's balance, which also grows by earlier
\* payments that arrive late and by other people's: still what the records of
\* delivered payments state in all has been received (waitForBitcoinBalanceDelta,
\* and settledBalanceDeltaSats of buildPaybackDisbursementRecord).
StatedWasReceived == stated <= received

\* One process counts the profit of an instant in at most two of its periods,
\* and in two only where one period ends and the next begins: it never pays a
\* share of the same profit week after week (lastTriggeredAt in the loop).
CountedOnce ==
    \A t \in Time :
        /\ counted[t] <= 2
        /\ pc = "asleep" /\ t >= triggered => counted[t] <= 1

\* What is sent, arrives and is stated goes by the ledger's rules.
Ledger == INSTANCE PaybackLedger

ImplementsLedger == Ledger!Spec

\* A tick comes to an end: no wait of it is without a deadline.
TicksEnd == pc \in Ticking ~> pc \notin Ticking

\* docs/operations-runbook.md: the scheduler carries while the pending sats
\* are below the minimum.
CarriesBelowMinimum ==
    [][Loads /\ CarriesOver'
        => TargetOf(earned[until'] - stated) < MinPayback + Cost]_vars
=============================================================================
