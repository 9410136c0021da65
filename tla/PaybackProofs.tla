---------------------------- MODULE PaybackProofs ----------------------------
(***************************************************************************)
(* Proofs about the payback scheduler, for every value of its constants.   *)
(***************************************************************************)
EXTENDS Payback, TLAPS

USE PaybackAssumption

-----------------------------------------------------------------------------
(* Types.                                                                  *)

LEMMA TargetType ==
    ASSUME NEW profit \in Int
    PROVE  TargetOf(profit) \in Int
BY DEF TargetOf

LEMMA ProfitType ==
    ASSUME WorldOK, NEW from \in 0..now, NEW to \in 0..now
    PROVE  ProfitWithin(from, to) \in Int
<1>1. earned[to] \in Nat
  BY DEF WorldOK, Time
<1>2. (IF from = 0 THEN 0 ELSE earned[from - 1]) \in Nat
  BY DEF WorldOK, Time
<1> QED
  BY <1>1, <1>2 DEF ProfitWithin

LEMMA WorldTypes == TypeOK /\ [Next]_vars => WorldOK'
<1> SUFFICES ASSUME TypeOK, [Next]_vars PROVE WorldOK'
  OBVIOUS
<1> USE DEF TypeOK, WorldOK
<1>1. CASE Start \/ Dies \/ Poll
  BY <1>1 DEF Start, Dies, Poll, ProcessUnchanged, world
<1>2. CASE Loads \/ Declines \/ Plans \/ Records
  BY <1>2 DEF Loads, Declines, Plans, Records, Ends, ProcessUnchanged, world
<1>3. CASE Bridges \/ Pays
  <2>1. seen.reserve \in Nat
    BY DEF MemoryOK
  <2>2. CASE Bridges
    BY <2>1, <2>2 DEF Bridges, Steps, ProcessUnchanged
  <2>3. CASE Pays
    BY <2>1, <2>3 DEF Pays, Steps, ProcessUnchanged
  <2> QED
    BY <1>3, <2>2, <2>3
<1>4. CASE BridgeRefused \/ BridgeEnds \/ Measures \/ Lists \/ Polls \/ Delivered \/ TimesOut
  BY <1>4 DEF BridgeRefused, BridgeEnds, Measures, Lists, Polls, Delivered, TimesOut, Steps,
              ProcessUnchanged, world
<1>5. CASE TimePasses
  BY <1>5 DEF TimePasses, Time, world
<1>6. CASE Ingests
  <2>1. PICK at \in {now - 1, now} :
          earned' = [t \in 0..MaxTime |-> IF t >= at /\ t > 0 THEN earned[t] + 1 ELSE earned[t]]
    BY <1>6 DEF Ingests
  <2>2. \A t \in 0..MaxTime : earned[t] + 1 \in Nat /\ earned[t] \in Nat
    OBVIOUS
  <2>3. earned' \in [0..MaxTime -> Nat]
    BY <2>1, <2>2
  <2> QED
    BY <1>6, <2>3 DEF Ingests, world
<1>7. CASE ReserveGrows \/ ReserveScanned \/ BridgeArrives
  BY <1>7 DEF ReserveGrows, ReserveScanned, BridgeArrives
<1>8. CASE PaymentArrives \/ StrangerPays
  BY <1>8 DEF PaymentArrives, StrangerPays, world
<1>9. CASE UNCHANGED vars
  BY <1>9 DEF vars, world
<1> QED
  BY <1>1, <1>2, <1>3, <1>4, <1>5, <1>6, <1>7, <1>8, <1>9 DEF Next, Tick, World

LEMMA MoneyTypes == TypeOK /\ [Next]_vars => MoneyOK' /\ Payments \subseteq Payments'
<1> SUFFICES ASSUME TypeOK, [Next]_vars PROVE MoneyOK' /\ Payments \subseteq Payments'
  OBVIOUS
<1> USE DEF TypeOK, MoneyOK, Payments
<1>1. CASE Start \/ Dies \/ Poll
  BY <1>1 DEF Start, Dies, Poll, money
<1>2. CASE Loads \/ Declines \/ Plans \/ Records
  BY <1>2 DEF Loads, Declines, Plans, Records, Ends, money
<1>3. CASE Bridges \/ BridgeRefused \/ BridgeEnds \/ Measures \/ Lists \/ Polls \/ Delivered \/ TimesOut
  BY <1>3 DEF Bridges, BridgeRefused, BridgeEnds, Measures, Lists, Polls, Delivered, TimesOut, money
<1>4. CASE Pays
  <2>1. sent' = Append(sent, seen.reserve) /\ UNCHANGED <<arrived, received, deposits>>
    BY <1>4 DEF Pays
  <2>2. seen.reserve \in Nat
    BY DEF MemoryOK
  <2>3. sent' \in Seq(Nat) /\ Len(sent') = Len(sent) + 1
    BY <2>1, <2>2
  <2> QED
    BY <2>1, <2>3
<1>5. CASE TimePasses \/ Ingests \/ ReserveGrows \/ ReserveScanned \/ BridgeArrives
  BY <1>5 DEF TimePasses, Ingests, ReserveGrows, ReserveScanned, BridgeArrives, money
<1>6. CASE PaymentArrives
  <2>1. PICK p \in Payments \ arrived :
          arrived' = arrived \cup {p} /\ received' = received + sent[p]
    BY <1>6 DEF PaymentArrives
  <2>2. sent[p] \in Nat
    OBVIOUS
  <2> QED
    BY <1>6, <2>1, <2>2 DEF PaymentArrives
<1>7. CASE StrangerPays
  BY <1>7 DEF StrangerPays
<1>8. CASE UNCHANGED vars
  BY <1>8 DEF vars, money
<1> QED
  BY <1>1, <1>2, <1>3, <1>4, <1>5, <1>6, <1>7, <1>8 DEF Next, Tick, World

LEMMA BooksTypes == TypeOK /\ (pc = "recording" => Len(sent) >= 1) /\ [Next]_vars => BooksOK'
<1> SUFFICES ASSUME TypeOK, pc = "recording" => Len(sent) >= 1, [Next]_vars
             PROVE  BooksOK'
  OBVIOUS
<1>1. Payments \subseteq Payments'
  BY MoneyTypes
<1>2. CASE Records
  <2>1. Len(sent) \in Nat /\ Len(sent) >= 1
    BY <1>2 DEF Records, TypeOK, MoneyOK
  <2>2. Len(sent) \in Payments'
    BY <1>1, <2>1 DEF Payments
  <2>3. delta \in Nat
    BY DEF TypeOK, MemoryOK
  <2>4. stated' \in Nat
    BY <1>2, <2>3 DEF Records, TypeOK, BooksOK
  <2> QED
    BY <1>1, <1>2, <2>2, <2>4 DEF Records, TypeOK, BooksOK
<1>3. CASE UNCHANGED books
  BY <1>1, <1>3 DEF books, TypeOK, BooksOK
<1>4. Next /\ ~Records => UNCHANGED books
  BY DEF Next, Tick, World, Start, Dies, Poll, Loads, Declines, Plans, Bridges,
         BridgeRefused, BridgeEnds, Measures, Lists, Pays, Polls, Delivered, TimesOut, Steps,
         TimePasses, Ingests, ReserveGrows, ReserveScanned, BridgeArrives,
         PaymentArrives, StrangerPays, books
<1> QED
  BY <1>2, <1>3, <1>4 DEF vars

LEMMA MemoryTypes ==
    ASSUME TypeOK, pc = "settling" => before <= received, [Next]_vars
    PROVE  MemoryOK'
<1> USE DEF TypeOK, MemoryOK, Ticking
<1>1. now \in Nat /\ now' \in Nat /\ now <= now'
  <2>1. now' = now \/ now' = now + 1
    BY DEF Next, Tick, World, Start, Dies, Poll, Loads, Declines, Plans, Bridges,
           BridgeRefused, BridgeEnds, Measures, Lists, Pays, Polls, Delivered, TimesOut, Records,
           Ends, Steps, ProcessUnchanged, TimePasses, Ingests, ReserveGrows,
           ReserveScanned, BridgeArrives, PaymentArrives, StrangerPays, vars
  <2> QED
    BY <2>1 DEF WorldOK, Time
<1>2. CASE Start \/ Dies
  <2>1. counted' \in [Time -> Nat]
    <3>1. counted' = [t \in Time |-> 0]
      BY <1>2 DEF Start, Dies
    <3> QED
      BY <3>1
  <2>5. looping' \in BOOLEAN
    BY <1>2, ZenonT(60) DEF Start, Dies
  <2>2. pc' \in Ticking \cup {"down", "asleep"}
    BY <1>2 DEF Start, Dies
  <2>3. triggered' \in 0..now' /\ until' \in 0..now'
    BY <1>1, <1>2 DEF Start, Dies
  <2>4. seen' \in [target: Int, paid: Nat, reserve: Nat] /\ before' \in Nat /\ listed' \in Nat
           /\ delta' \in Nat
    BY <1>2 DEF Start, Dies, Forgotten, NoInputs
  <2> QED
    BY <2>1, <2>2, <2>3, <2>4, <2>5
<1>3. CASE Poll
  <2>1. \A t \in Time : counted[t] + 1 \in Nat /\ counted[t] \in Nat
    OBVIOUS
  <2>2. counted' \in [Time -> Nat]
    BY <1>3, <2>1 DEF Poll
  <2> QED
    BY <1>1, <1>3, <2>2 DEF Poll, ProcessUnchanged
<1>4. CASE Loads
  <2>1. until' \in 0..now
    BY <1>1, <1>4 DEF Loads
  <2>2. ProfitWithin(triggered, until') \in Int
    BY <2>1, ProfitType
  <2>3. TargetOf(ProfitWithin(triggered, until')) \in Int
    BY <2>2, TargetType
  <2>4. PaidBack \in Nat
    BY DEF PaidBack, BooksOK
  <2>5. seen' \in [target: Int, paid: Nat, reserve: Nat]
    BY <1>4, <2>3, <2>4 DEF Loads, WorldOK
  <2> QED
    BY <1>1, <1>4, <2>1, <2>5 DEF Loads, ProcessUnchanged
<1>5. CASE Declines \/ Records
  BY <1>1, <1>5 DEF Declines, Records, Ends, Forgotten, NoInputs, ProcessUnchanged
<1>6. CASE Plans
  BY <1>1, <1>6 DEF Plans, ProcessUnchanged
<1>7. CASE Bridges \/ BridgeRefused \/ BridgeEnds \/ Pays
  BY <1>1, <1>7 DEF Bridges, BridgeRefused, BridgeEnds, Pays, Steps, ProcessUnchanged
<1>8. CASE Measures \/ Lists
  <2>1. before' \in Nat /\ listed' \in Nat
    BY <1>8 DEF Measures, Lists, MoneyOK
  <2> QED
    BY <1>1, <1>8, <2>1 DEF Measures, Lists, Steps, ProcessUnchanged
<1>9. CASE Polls
  <2>1. received - before \in Nat
    BY <1>9 DEF Polls, Steps, MoneyOK
  <2> QED
    BY <1>1, <1>9, <2>1 DEF Polls, Steps, ProcessUnchanged
<1>10. CASE Delivered \/ TimesOut
  BY <1>1, <1>10 DEF Delivered, TimesOut, Steps, ProcessUnchanged
<1>11. CASE World
  BY <1>1, <1>11 DEF World, TimePasses, Ingests, ReserveGrows, ReserveScanned,
                     BridgeArrives, PaymentArrives, StrangerPays, memory
<1>12. CASE UNCHANGED vars
  BY <1>1, <1>12 DEF vars, memory
<1> QED
  BY <1>2, <1>3, <1>4, <1>5, <1>6, <1>7, <1>8, <1>9, <1>10, <1>11, <1>12 DEF Next, Tick

-----------------------------------------------------------------------------
(* What the records state as delivered.                                    *)

\* A payment on its way or sent is not recorded yet, and the balance read
\* before it covers all that is: what the balance grows by since can be
\* stated as delivered.
StatedInv ==
    /\ stated <= received
    /\ pc \in {"listing", "paying", "settling"} => stated <= before /\ before <= received
    /\ pc \in {"proving", "recording"} => stated + delta <= received
    /\ pc \in {"settling", "proving", "recording"} =>
          Len(sent) >= 1 /\ Len(sent) \notin disbursed

LEMMA StatedStep ==
    ASSUME TypeOK, StatedInv, [Next]_vars
    PROVE  StatedInv'
<1> USE DEF TypeOK, MoneyOK, BooksOK, MemoryOK, StatedInv, Payments
<1>0. Len(sent) \in Nat
  OBVIOUS
<1>1. CASE Start \/ Dies \/ Poll \/ Loads \/ Plans
  BY <1>1 DEF Start, Dies, Poll, Loads, Plans, money, books
<1>2. CASE Declines
  BY <1>2 DEF Declines, Ends, money
<1>3. CASE Bridges \/ BridgeRefused \/ BridgeEnds \/ Measures \/ Lists
  BY <1>3 DEF Bridges, BridgeRefused, BridgeEnds, Measures, Lists, Steps, money, books
<1>4. CASE Pays
  <2>1. Len(sent') = Len(sent) + 1
    BY <1>4 DEF Pays
  <2>2. pc = "paying" /\ pc' = "settling" /\ UNCHANGED <<received, stated, disbursed, before>>
    BY <1>4 DEF Pays, Steps, books
  <2>3. Len(sent') >= 1 /\ Len(sent') \notin disbursed
    BY <1>0, <2>1
  <2> QED
    BY <2>2, <2>3
<1>5. CASE Polls
  BY <1>0, <1>5 DEF Polls, Steps, money, books
<1>10. CASE Delivered \/ TimesOut
  BY <1>0, <1>10 DEF Delivered, TimesOut, Steps, money, books
<1>6. CASE Records
  BY <1>6 DEF Records, Ends, money
<1>7. CASE TimePasses \/ Ingests \/ ReserveGrows \/ ReserveScanned \/ BridgeArrives
  BY <1>7 DEF TimePasses, Ingests, ReserveGrows, ReserveScanned, BridgeArrives,
              money, books, memory
<1>8. CASE PaymentArrives \/ StrangerPays
  <2>1. received' >= received
    <3>1. CASE PaymentArrives
      <4>1. PICK p \in Payments \ arrived : received' = received + sent[p]
        BY <3>1 DEF PaymentArrives
      <4>2. sent[p] \in Nat
        OBVIOUS
      <4> QED
        BY <4>1, <4>2
    <3>2. CASE StrangerPays
      BY <3>2 DEF StrangerPays
    <3> QED
      BY <1>8, <3>1, <3>2
  <2>2. UNCHANGED <<sent, books, memory>> /\ received' \in Int
    BY <1>8, MoneyTypes DEF PaymentArrives, StrangerPays
  <2> QED
    BY <2>1, <2>2 DEF books, memory
<1>9. CASE UNCHANGED vars
  BY <1>9 DEF vars, money, books, memory
<1> QED
  BY <1>1, <1>2, <1>3, <1>4, <1>5, <1>6, <1>7, <1>8, <1>9, <1>10 DEF Next, Tick, World

LEMMA InitTyped == Init => TypeOK /\ StatedInv
<1> SUFFICES ASSUME Init PROVE TypeOK /\ StatedInv
  OBVIOUS
<1>1. WorldOK
  BY DEF Init, WorldOK, Time
<1>2. MoneyOK /\ BooksOK
  BY DEF Init, MoneyOK, BooksOK, Payments
<1>3. MemoryOK
  <2>1. counted \in [Time -> Nat]
    BY DEF Init
  <2>2. triggered \in 0..now /\ until \in 0..now /\ before \in Nat /\ listed \in Nat
          /\ delta \in Nat
    BY DEF Init
  <2>3. seen \in [target: Int, paid: Nat, reserve: Nat]
    BY DEF Init, NoInputs
  <2> QED
    BY <2>1, <2>2, <2>3 DEF Init, MemoryOK, Ticking
<1>4. StatedInv
  BY DEF Init, StatedInv
<1> QED
  BY <1>1, <1>2, <1>3, <1>4 DEF TypeOK

\* The scheduler's variables keep their types, and its records state nothing as
\* delivered that the recipient has not received.
LEMMA TypedAndCovered == Spec => [](TypeOK /\ StatedInv)
<1>1. TypeOK /\ StatedInv /\ [Next]_vars => (TypeOK /\ StatedInv)'
  <2> SUFFICES ASSUME TypeOK, StatedInv, [Next]_vars PROVE TypeOK' /\ StatedInv'
    OBVIOUS
  <2>1. WorldOK' /\ MoneyOK'
    BY WorldTypes, MoneyTypes
  <2>3. MemoryOK'
    BY MemoryTypes DEF StatedInv
  <2>2. BooksOK'
    BY BooksTypes DEF StatedInv
  <2> QED
    BY <2>1, <2>2, <2>3, StatedStep DEF TypeOK
<1> QED
  BY <1>1, InitTyped, PTL DEF Spec

\* The variables of the scheduler and of the world around it keep their types.
THEOREM TypeCorrect == Spec => []TypeOK
BY TypedAndCovered, PTL

\* What the disbursement records state as delivered in all has been received.
THEOREM StatedWasReceivedAlways == Spec => []StatedWasReceived
<1>1. StatedInv => StatedWasReceived
  BY DEF StatedInv, StatedWasReceived
<1> QED
  BY <1>1, TypedAndCovered, PTL

-----------------------------------------------------------------------------
(* The scheduler implements the ledger.                                    *)

LEMMA LedgerStep ==
    ASSUME TypeOK, StatedInv, [Next]_vars
    PROVE  [Ledger!Next]_(Ledger!vars)
<1> USE DEF Ledger!vars, Ledger!Next
<1>0. CASE UNCHANGED <<money, books>>
  BY <1>0 DEF money, books
<1>1. Start \/ Dies \/ Poll \/ Loads \/ Plans => UNCHANGED <<money, books>>
  BY DEF Start, Dies, Poll, Loads, Plans
<1>2. Declines => UNCHANGED <<money, books>>
  BY DEF Declines, Ends, books
<1>3. Bridges \/ BridgeRefused \/ BridgeEnds \/ Measures \/ Lists \/ Polls \/ Delivered \/ TimesOut
        => UNCHANGED <<money, books>>
  BY DEF Bridges, BridgeRefused, BridgeEnds, Measures, Lists, Polls, Delivered, TimesOut, Steps
<1>4. TimePasses \/ Ingests \/ ReserveGrows \/ ReserveScanned \/ BridgeArrives
        => UNCHANGED <<money, books>>
  BY DEF TimePasses, Ingests, ReserveGrows, ReserveScanned, BridgeArrives
<1>5. CASE Pays
  <2>1. sent' = Append(sent, seen.reserve) /\ seen.reserve \in Nat /\ sent \in Seq(Nat)
    BY <1>5 DEF Pays, TypeOK, MemoryOK, MoneyOK
  <2>2. Len(sent') = Len(sent) + 1 /\ SubSeq(sent', 1, Len(sent)) = sent
    BY <2>1
  <2> QED
    BY <1>5, <2>2 DEF Ledger!Send, Pays, Steps, books
<1>6. CASE Records
  <2>1. Len(sent) \in DOMAIN sent \ disbursed
    BY <1>6 DEF Records, StatedInv, TypeOK, MoneyOK
  <2>2. stated' = stated + delta /\ stated <= stated' /\ stated' <= received
    BY <1>6 DEF Records, StatedInv, TypeOK, MoneyOK, BooksOK, MemoryOK
  <2> QED
    BY <1>6, <2>1, <2>2 DEF Ledger!Disburse, Records, Ends, money
<1>7. CASE PaymentArrives
  BY <1>7 DEF Ledger!Arrive, PaymentArrives, Payments, books, TypeOK, MoneyOK
<1>8. CASE StrangerPays
  BY <1>8 DEF Ledger!Deposit, StrangerPays, books, TypeOK, MoneyOK
<1>9. CASE UNCHANGED vars
  BY <1>0, <1>9 DEF vars
<1> QED
  BY <1>0, <1>1, <1>2, <1>3, <1>4, <1>5, <1>6, <1>7, <1>8, <1>9 DEF Next, Tick, World

\* The scheduler is an implementation of the payback ledger.
THEOREM LedgerRefinement == Spec => ImplementsLedger
<1>1. Init => Ledger!Init
  BY DEF Init, Ledger!Init
<1>2. TypeOK /\ StatedInv /\ [Next]_vars => [Ledger!Next]_(Ledger!vars)
  BY LedgerStep
<1> QED
  BY <1>1, <1>2, TypedAndCovered, PTL DEF Spec, ImplementsLedger, Ledger!Spec

-----------------------------------------------------------------------------
(* The periods of one process.                                             *)

\* The end of the latest period of the loop.
Edge == IF looping /\ pc \in Ticking THEN until ELSE triggered

\* Nothing after the latest period was counted, its end once.
CountInv ==
    /\ ~looping => triggered = 0
    /\ pc = "asleep" => looping
    /\ \A t \in Time :
          /\ counted[t] <= 2
          /\ t > Edge => counted[t] = 0
          /\ t = Edge => counted[t] <= 1

LEMMA CountStep ==
    ASSUME TypeOK, CountInv, [Next]_vars
    PROVE  CountInv'
<1> USE DEF TypeOK, MemoryOK, CountInv, Edge
<1>1. CASE Start \/ Dies
  <2>1. counted' = [t \in Time |-> 0] /\ triggered' = 0
    BY <1>1 DEF Start, Dies
  <2>2. \A t \in Time : counted'[t] = 0
    BY <2>1
  <2>3. pc' = "asleep" => looping'
    BY <1>1 DEF Start, Dies
  <2> QED
    BY <2>1, <2>2, <2>3
<1>2. CASE Poll
  <2>1. triggered < now /\ now \in Time
    BY <1>2 DEF Poll, Due, SameCronMinute, WorldOK, Time
  <2>2. counted' = [t \in Time |-> IF t \in triggered..now THEN counted[t] + 1 ELSE counted[t]]
    BY <1>2 DEF Poll
  <2>3. pc = "asleep" /\ pc' = "loading" /\ until' = now /\ UNCHANGED <<triggered, looping>>
    BY <1>2 DEF Poll
  <2>4. ASSUME NEW t \in Time
        PROVE  counted'[t] <= 2 /\ (t > now => counted'[t] = 0) /\ (t = now => counted'[t] <= 1)
    BY <2>1, <2>2, <2>3 DEF Ticking, Time
  <2> QED
    BY <2>3, <2>4 DEF Ticking
<1>3. CASE Loads
  BY <1>3 DEF Loads, Ticking
<1>4. CASE Declines \/ Records
  <2>1. pc \in Ticking /\ UNCHANGED <<looping, until, counted>>
    BY <1>4 DEF Declines, Records, Ends, Ticking
  <2>2. pc' = (IF looping THEN "asleep" ELSE "down")
    BY <1>4 DEF Declines, Records, Ends
  <2>3. triggered' = (IF looping THEN until ELSE 0)
    BY <1>4 DEF Declines, Records, Ends
  <2> QED
    BY <2>1, <2>2, <2>3 DEF Ticking
<1>5. CASE Plans
  BY <1>5 DEF Plans, Ticking
<1>6. CASE Bridges \/ BridgeRefused \/ BridgeEnds \/ Measures \/ Lists
  BY <1>6 DEF Bridges, BridgeRefused, BridgeEnds, Measures, Lists, Steps, Ticking
<1>7. CASE Pays \/ Polls \/ Delivered \/ TimesOut
  BY <1>7 DEF Pays, Polls, Delivered, TimesOut, Steps, Ticking
<1>8. CASE World
  BY <1>8 DEF World, TimePasses, Ingests, ReserveGrows, ReserveScanned,
              BridgeArrives, PaymentArrives, StrangerPays, memory
<1>9. CASE UNCHANGED vars
  BY <1>9 DEF vars, memory
<1> QED
  BY <1>1, <1>2, <1>3, <1>4, <1>5, <1>6, <1>7, <1>8, <1>9 DEF Next, Tick

\* The loop counts the profit of an instant in at most two of its periods, and
\* in two only where they meet.
THEOREM CountedOnceAlways == Spec => []CountedOnce
<1>1. Init => CountInv
  BY DEF Init, CountInv, Edge
<1>2. TypeOK /\ CountInv /\ [Next]_vars => CountInv'
  BY CountStep
<1>3. TypeOK /\ CountInv => CountedOnce
  <2> SUFFICES ASSUME TypeOK, CountInv, NEW t \in Time
               PROVE  counted[t] <= 2 /\ (pc = "asleep" /\ t >= triggered => counted[t] <= 1)
    BY DEF CountedOnce
  <2>1. counted[t] \in Nat /\ triggered \in Int /\ t \in Int
    BY DEF TypeOK, MemoryOK, Time
  <2> QED
    BY <2>1 DEF CountInv, Edge, Ticking
<1> QED
  BY <1>1, <1>2, <1>3, TypeCorrect, PTL DEF Spec
=============================================================================
