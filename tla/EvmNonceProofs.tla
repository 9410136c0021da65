--------------------------- MODULE EvmNonceProofs ---------------------------
(***************************************************************************)
(* Proofs about the nonces of the EVM signer, for any requests, providers  *)
(* and bound on the nonces.                                                *)
(***************************************************************************)
EXTENDS EvmNonce, TLAPS

\* The variables of the signer and of the nodes keep their types, and a
\* request that reserved has a nonce: it is unset before and never after.
PcInv ==
    \A r \in Request :
        /\ pc[r] \in {"idle", "building", "counted"} => nonce[r] = Unset
        /\ r \in asked => nonce[r] # Unset
        /\ pc[r] \in {"reserved", "broadcasting", "sent"} => nonce[r] # Unset
        /\ pc[r] = "counted" <=> count[r] # Unset

LEMMA TypeAndPc == Spec => [](TypeOK /\ PcInv)
<1> USE NonceAssumption DEF TypeOK, PcInv, Unset
<1>1. Init => TypeOK /\ PcInv
  BY DEF Init
<1>2. TypeOK /\ PcInv /\ [Next]_vars => TypeOK' /\ PcInv'
  <2> SUFFICES ASSUME TypeOK, PcInv, [Next]_vars PROVE TypeOK' /\ PcInv'
    OBVIOUS
  <2> USE DEF managers, loop, network, Goes
  <2>1. ASSUME NEW r \in Request,
               Build(r) \/ TryNext(r) \/ BuildFails(r) \/ Drop(r) \/ StartBroadcast(r)
        PROVE  TypeOK' /\ PcInv'
    <3>1. UNCHANGED <<next, active, handed, asked, count, nonce, accepted, network>>
      BY <2>1 DEF Build, TryNext, BuildFails, Drop, StartBroadcast
    <3>2. CASE Build(r)
      BY <3>1, <3>2 DEF Build, Loops
    <3>5. CASE StartBroadcast(r)
      BY <3>1, <3>5 DEF StartBroadcast, Loops
    <3>3. CASE TryNext(r)
      <4>1. PICK p \in rest[r] : /\ at' = [at EXCEPT ![r] = p]
                                 /\ rest' = [rest EXCEPT ![r] = @ \ {p}]
        BY <3>3 DEF TryNext, Continues
      <4>2. UNCHANGED pc
        BY <3>3 DEF TryNext, Continues
      <4> QED
        BY <3>1, <4>1, <4>2
    <3>4. CASE BuildFails(r) \/ Drop(r)
      BY <3>1, <3>4 DEF BuildFails, Drop
    <3> QED
      BY <2>1, <3>2, <3>3, <3>4, <3>5
  <2>2. ASSUME NEW r \in Request, Count(r)
        PROVE  TypeOK' /\ PcInv'
    BY <2>2 DEF Count
  <2>3. ASSUME NEW r \in Request, Reserve(r) \/ ReserveExplicit(r)
        PROVE  TypeOK' /\ PcInv'
    <3>1. CASE Reserve(r)
      BY <3>1 DEF Reserve, Hands
    <3>2. CASE ReserveExplicit(r)
      <4>1. PICK n \in 0 .. MaxNonce : Hands(r, n)
        BY <3>2 DEF ReserveExplicit
      <4>2. n \in Nat
        OBVIOUS
      <4> QED
        BY <3>2, <4>1, <4>2 DEF ReserveExplicit, Hands
    <3> QED
      BY <2>3, <3>1, <3>2
  <2>4. ASSUME NEW r \in Request, NEW b \in BOOLEAN, pc[r] = "broadcasting", GoesOn(r, b),
               Takes(r) \/ Supplants(r) \/ UNCHANGED network
        PROVE  TypeOK' /\ PcInv'
    <3>1. /\ pool' \in [Provider -> SUBSET Request] /\ taken' \subseteq Request
          /\ UNCHANGED <<head, mined>>
      <4>1. CASE Takes(r)
        BY <4>1 DEF Takes
      <4>2. CASE Supplants(r)
        BY <4>2 DEF Supplants
      <4> QED
        BY <2>4, <4>1, <4>2
    <3>2. CASE Continues(r) /\ UNCHANGED <<next, handed>>
      <4>1. PICK p \in rest[r] : /\ at' = [at EXCEPT ![r] = p]
                                 /\ rest' = [rest EXCEPT ![r] = @ \ {p}]
        BY <3>2 DEF Continues
      <4>2. /\ accepted' \subseteq Request /\ active' \in Provider
            /\ UNCHANGED <<pc, next, handed, asked, count, nonce>>
        BY <2>4, <3>2 DEF GoesOn, Continues
      <4> QED
        BY <3>1, <4>1, <4>2
    <3>3. CASE /\ rest[r] = {} /\ UNCHANGED <<at, rest>>
               /\ IF r \in accepted'
                  THEN Goes(r, "broadcasting", "sent") /\ UNCHANGED <<next, handed>>
                  ELSE Goes(r, "broadcasting", "over") /\ Reset
      BY <2>4, <3>1, <3>3 DEF GoesOn, Reset
    <3> QED
      BY <2>4, <3>2, <3>3 DEF GoesOn
  <2>5. ASSUME NEW r \in Request, Receipt(r) \/ NoReceipt(r)
        PROVE  TypeOK' /\ PcInv'
    BY <2>5 DEF Receipt, NoReceipt, Reset
  <2>6. CASE Nodes
    <3>1. UNCHANGED <<next, active, handed, asked, pc, at, rest, count, nonce, accepted>>
      BY <2>6 DEF Nodes, Mine, SeesMined, Hears, Evicts
    <3>2. ASSUME NEW r \in Request, Mine(r)
          PROVE  TypeOK' /\ PcInv'
      BY <3>1, <3>2 DEF Mine
    <3>3. ASSUME NEW p \in Provider, SeesMined(p)
          PROVE  TypeOK' /\ PcInv'
      BY <3>1, <3>3 DEF SeesMined
    <3>4. ASSUME NEW p \in Provider, NEW r \in Request, Hears(p, r)
          PROVE  TypeOK' /\ PcInv'
      BY <3>1, <3>4 DEF Hears
    <3>5. ASSUME NEW p \in Provider, NEW r \in Request, Evicts(p, r)
          PROVE  TypeOK' /\ PcInv'
      BY <3>1, <3>5 DEF Evicts
    <3> QED
      BY <2>6, <3>2, <3>3, <3>4, <3>5 DEF Nodes
  <2>7. CASE Restart
    BY <2>7 DEF Restart, Reset
  <2>8. CASE UNCHANGED vars
    BY <2>8 DEF vars
  <2> QED
    BY <2>1, <2>2, <2>3, <2>4, <2>5, <2>6, <2>7, <2>8
       DEF Next, Step, Accept, AlreadyKnown, Unanswered
<1> QED
  BY <1>1, <1>2, PTL DEF Spec

\* The variables of the EVM signer and of the nodes keep their types.
THEOREM TypeCorrect == Spec => []TypeOK
  BY TypeAndPc, PTL

-----------------------------------------------------------------------------
(* The nodes.                                                              *)

\* A nonce, once reserved, stays with its request.
LEMMA NoncesStay ==
    ASSUME TypeOK, PcInv, [Next]_vars
    PROVE  \A q \in Request : nonce[q] # Unset => nonce'[q] = nonce[q]
<1>1. ASSUME NEW r \in Request, Reserve(r) \/ ReserveExplicit(r)
      PROVE  \A q \in Request : nonce[q] # Unset => nonce'[q] = nonce[q]
  BY <1>1 DEF Reserve, ReserveExplicit, Hands, Goes, PcInv, TypeOK
<1>2. (\A r \in Request : ~Reserve(r) /\ ~ReserveExplicit(r)) => UNCHANGED nonce
  BY DEF Next, Step, Nodes, vars, network, managers, loop, Build, Count, TryNext,
         BuildFails, Drop, StartBroadcast, Accept, AlreadyKnown, Unanswered, GoesOn,
         Receipt, NoReceipt, Mine, SeesMined, Hears, Evicts, Restart
<1> QED
  BY <1>1, <1>2

\* A step leaves the nodes alone, is one of theirs, or is that of a node that
\* takes a transaction that is broadcast.
LEMMA NodesChange ==
    ASSUME [Next]_vars
    PROVE  \/ UNCHANGED network
           \/ UNCHANGED nonce /\ Nodes
           \/ /\ UNCHANGED nonce
              /\ \E r \in Request : pc[r] = "broadcasting" /\ (Takes(r) \/ Supplants(r))
BY DEF Next, Step, Nodes, vars, network, managers, loop, Build, Count, TryNext, Reserve,
       ReserveExplicit, Hands, BuildFails, Drop, StartBroadcast, Accept, AlreadyKnown, Unanswered, GoesOn,
       Receipt, NoReceipt, Mine, SeesMined, Hears, Evicts, Restart

\* What a node has was taken, what was taken was reserved, and the chain holds
\* one transaction of each nonce, in order.
NetInv ==
    /\ \A p \in Provider : pool[p] \subseteq taken /\ head[p] <= Len(mined)
    /\ taken \subseteq Reserved
    /\ \A i \in 1 .. Len(mined) : mined[i] \in taken /\ nonce[mined[i]] = i - 1

LEMMA NetInvHolds == Spec => []NetInv
<1>1. Init => NetInv
  BY DEF Init, NetInv, Reserved
<1>2. TypeOK /\ PcInv /\ NetInv /\ [Next]_vars => NetInv'
  <2> SUFFICES ASSUME TypeOK, PcInv, NetInv, [Next]_vars PROVE NetInv'
    OBVIOUS
  <2>1. \A q \in Request : nonce[q] # Unset => nonce'[q] = nonce[q]
    BY NoncesStay
  <2>2. CASE UNCHANGED network
    BY <2>1, <2>2 DEF NetInv, Reserved, network, TypeOK
  <2>3. ASSUME UNCHANGED nonce, NEW r \in Request, Mine(r)
        PROVE  NetInv'
    <3>1. r \in taken /\ mined' = Append(mined, r) /\ UNCHANGED <<pool, head, taken>>
      BY <2>3 DEF Mine, NetInv
    <3>2. /\ Len(mined') = Len(mined) + 1
          /\ \A i \in 1 .. Len(mined') :
                 mined'[i] = IF i = Len(mined') THEN r ELSE mined[i]
      BY <3>1 DEF TypeOK
    <3>3. \A i \in 1 .. Len(mined') : mined'[i] \in taken' /\ nonce'[mined'[i]] = i - 1
      BY <2>3, <3>1, <3>2 DEF Mine, NetInv, TypeOK
    <3> QED
      BY <2>3, <3>1, <3>2, <3>3 DEF NetInv, Reserved, TypeOK
  <2>4. ASSUME UNCHANGED nonce, NEW p \in Provider, SeesMined(p)
        PROVE  NetInv'
    BY <2>4 DEF SeesMined, NetInv, Reserved, TypeOK
  <2>5. ASSUME UNCHANGED nonce, NEW p \in Provider, NEW r \in Request, Hears(p, r)
        PROVE  NetInv'
    BY <2>5 DEF Hears, NetInv, Reserved, TypeOK
  <2>6. ASSUME UNCHANGED nonce, NEW p \in Provider, NEW r \in Request, Evicts(p, r)
        PROVE  NetInv'
    BY <2>6 DEF Evicts, NetInv, Reserved, TypeOK
  <2>7. ASSUME UNCHANGED nonce, NEW r \in Request, pc[r] = "broadcasting", Takes(r)
        PROVE  NetInv'
    BY <2>7 DEF Takes, NetInv, Reserved, PcInv, TypeOK
  <2>8. ASSUME UNCHANGED nonce, NEW r \in Request, pc[r] = "broadcasting", Supplants(r)
        PROVE  NetInv'
    BY <2>8 DEF Supplants, NetInv, Reserved, PcInv, TypeOK
  <2> QED
    BY <2>2, <2>3, <2>4, <2>5, <2>6, <2>7, <2>8, NodesChange DEF Nodes
<1> QED
  BY <1>1, <1>2, TypeAndPc, PTL DEF Spec

\* A node that has a nonce has it from a transaction that was taken.
LEMMA HasTaken ==
    ASSUME TypeOK, NetInv, NEW p \in Provider, NEW n \in Nat, Has(p, n)
    PROVE  \E q \in taken : nonce[q] = n
<1>1. CASE n < head[p]
  <2>1. n + 1 \in 1 .. Len(mined)
    BY <1>1 DEF NetInv, TypeOK
  <2>2. mined[n + 1] \in taken /\ nonce[mined[n + 1]] = n
    BY <2>1 DEF NetInv
  <2> QED
    BY <2>2
<1>2. CASE \E q \in pool[p] : nonce[q] = n
  BY <1>2 DEF NetInv
<1> QED
  BY <1>1, <1>2 DEF Has

-----------------------------------------------------------------------------
(* Phantoms.                                                               *)

\* Beside PhantomHasRival: what is accepted was reserved, so that its nonce, as
\* well as its rival's, stays.
RivalInv == PhantomHasRival /\ accepted \subseteq Reserved

LEMMA RivalInvHolds == Spec => []RivalInv
<1>1. Init => RivalInv
  BY DEF Init, RivalInv, PhantomHasRival
<1>2. TypeOK /\ PcInv /\ NetInv /\ RivalInv /\ [Next]_vars => RivalInv'
  <2> SUFFICES ASSUME TypeOK, PcInv, NetInv, RivalInv, [Next]_vars PROVE RivalInv'
    OBVIOUS
  <2> USE DEF RivalInv, PhantomHasRival, Reserved
  <2>1. \A q \in Request : nonce[q] # Unset => nonce'[q] = nonce[q]
    BY NoncesStay
  <2>2. taken \subseteq taken' /\ taken \subseteq Reserved /\ taken \subseteq Request
    BY NodesChange DEF network, Nodes, Mine, SeesMined, Hears, Evicts, Takes, Supplants,
                       NetInv, TypeOK
  <2>3. CASE accepted' = accepted
    BY <2>1, <2>2, <2>3 DEF TypeOK
  <2>4. ASSUME NEW r \in Request, pc[r] = "broadcasting", GoesOn(r, TRUE),
               r \in taken' \/ Has(at[r], nonce[r])
        PROVE  RivalInv'
    <3>1. accepted' = accepted \cup {r} /\ nonce' = nonce /\ nonce[r] \in Nat
      BY <2>4 DEF GoesOn, PcInv, TypeOK
    <3>2. r \in taken' \/ \E q \in taken : nonce[q] = nonce[r]
      BY <2>4, <3>1, HasTaken DEF TypeOK
    <3>3. ASSUME NEW s \in accepted' \ taken'
          PROVE  \E q \in taken' : q # s /\ nonce'[q] = nonce'[s]
      <4>1. CASE s = r
        BY <2>2, <3>1, <3>2, <3>3, <4>1
      <4>2. CASE s # r
        BY <2>2, <3>1, <3>3, <4>2
      <4> QED
        BY <4>1, <4>2
    <3>4. accepted' \subseteq Reserved'
      BY <3>1 DEF Unset
    <3> QED
      BY <3>3, <3>4
  <2>5. \/ accepted' = accepted
        \/ \E r \in Request : Accept(r) \/ AlreadyKnown(r)
    BY DEF Next, Step, Nodes, vars, network, managers, loop, Build, Count, TryNext, Reserve,
           ReserveExplicit, Hands, BuildFails, Drop, StartBroadcast, Unanswered, GoesOn, Receipt, NoReceipt,
           Mine, SeesMined, Hears, Evicts, Restart
  <2> QED
    BY <2>3, <2>4, <2>5 DEF Accept, AlreadyKnown, Takes, Supplants
<1> QED
  BY <1>1, <1>2, TypeAndPc, NetInvHolds, PTL DEF Spec

\* A transaction reported as sent that no node ever took has a rival of the same
\* nonce that a node took: an acceptance is false only because a nonce was
\* handed out twice, never because a provider did not answer.
THEOREM RivalHolds == Spec => []PhantomHasRival
  BY RivalInvHolds, PTL DEF RivalInv

-----------------------------------------------------------------------------
(* Holes.                                                                  *)

\* Who reserved a nonce goes on having it, and who asked for one having asked.
LEMMA ReservedStay ==
    ASSUME TypeOK, PcInv, [Next]_vars
    PROVE  /\ \A q \in Reserved : q \in Reserved' /\ nonce'[q] = nonce[q]
           /\ \A e \in asked : e \in asked' /\ nonce'[e] = nonce[e]
<1>1. asked \subseteq asked'
  BY DEF Next, Step, Nodes, vars, network, managers, loop, Build, Count, TryNext, Reserve,
         ReserveExplicit, BuildFails, Drop, StartBroadcast, Accept, AlreadyKnown,
         Unanswered, GoesOn, Receipt, NoReceipt, Mine, SeesMined, Hears, Evicts, Restart
<1> QED
  BY <1>1, NoncesStay DEF Reserved, PcInv, TypeOK

\* Each nonce up to m is one of S, or left out below one of A that is at most m.
Filled(S, A, f, m) ==
    \A n \in 0 .. m : \/ \E q \in S : f[q] = n
                      \/ \E e \in A : n < f[e] /\ f[e] <= m

\* Every nonce is accounted for up to each nonce reserved, and below the next of
\* each manager and each count on its way, which may be older than both.
HoleInv ==
    /\ \A p \in Provider : Filled(Reserved, asked, nonce, next[p] - 1)
    /\ \A r \in Request : /\ Filled(Reserved, asked, nonce, count[r] - 1)
                          /\ Filled(Reserved, asked, nonce, nonce[r])

LEMMA HoleInvHolds == Spec => []HoleInv
<1>1. Init => HoleInv
  BY DEF Init, HoleInv, Filled, Unset
<1>2. TypeOK /\ TypeOK' /\ PcInv /\ NetInv /\ HoleInv /\ [Next]_vars => HoleInv'
  <2> SUFFICES ASSUME TypeOK, TypeOK', PcInv, NetInv, HoleInv, [Next]_vars PROVE HoleInv'
    OBVIOUS
  <2>1. ASSUME NEW m, Filled(Reserved, asked, nonce, m)
        PROVE  Filled(Reserved', asked', nonce', m)
    BY <2>1, ReservedStay DEF Filled
  <2>2. \A S, A, f : Filled(S, A, f, Unset) /\ Filled(S, A, f, Unset - 1)
    BY DEF Filled, Unset
  <2>3. ASSUME NEW r \in Request, Count(r)
        PROVE  HoleInv'
    <3>1. PICK n \in 0 .. MaxNonce :
              Pending(at[r], n) /\ count' = [count EXCEPT ![r] = n]
      BY <2>3 DEF Count
    <3>2. Filled(Reserved, asked, nonce, n - 1)
      <4> SUFFICES ASSUME NEW m \in 0 .. n - 1 PROVE \E q \in Reserved : nonce[q] = m
        BY DEF Filled
      <4>1. n \in Nat /\ m \in Nat /\ at[r] \in Provider /\ Has(at[r], m)
        BY <3>1, NonceAssumption DEF Pending, TypeOK
      <4> QED
        BY <4>1, HasTaken DEF NetInv
    <3>3. UNCHANGED <<next, nonce>>
      BY <2>3 DEF Count, managers
    <3> QED
      BY <2>1, <3>1, <3>2, <3>3 DEF HoleInv, TypeOK
  <2>4. ASSUME NEW r \in Request, NEW n \in Nat, Hands(r, n),
               Filled(Reserved', asked', nonce', n)
        PROVE  HoleInv'
    <3>1. /\ next' = [next EXCEPT ![at[r]] = n + 1]
          /\ count' = [count EXCEPT ![r] = Unset]
          /\ nonce' = [nonce EXCEPT ![r] = n]
      BY <2>4 DEF Hands
    <3>2. (n + 1) - 1 = n
      OBVIOUS
    <3>3. \A p \in Provider : Filled(Reserved', asked', nonce', next'[p] - 1)
      BY <2>1, <2>4, <3>1, <3>2 DEF HoleInv, TypeOK
    <3>4. \A q \in Request : /\ Filled(Reserved', asked', nonce', count'[q] - 1)
                             /\ Filled(Reserved', asked', nonce', nonce'[q])
      BY <2>1, <2>2, <2>4, <3>1 DEF HoleInv, TypeOK
    <3> QED
      BY <3>3, <3>4 DEF HoleInv
  <2>5. ASSUME NEW r \in Request, Reserve(r)
        PROVE  HoleInv'
    <3> DEFINE n == IF count[r] > next[at[r]] THEN count[r] ELSE next[at[r]]
    <3>1. /\ Hands(r, n) /\ nonce' = [nonce EXCEPT ![r] = n]
          /\ at[r] \in Provider
      BY <2>5 DEF Reserve, Hands, TypeOK
    <3>2. n \in Nat /\ Filled(Reserved, asked, nonce, n - 1)
      BY <2>5 DEF Reserve, Goes, PcInv, HoleInv, TypeOK, Unset
    <3> HIDE DEF n
    <3>3. r \in Reserved' /\ nonce'[r] = n
      BY <3>1, <3>2 DEF Reserved, TypeOK, Unset
    <3>4. Filled(Reserved', asked', nonce', n - 1)
      BY <2>1, <3>2
    <3>5. Filled(Reserved', asked', nonce', n)
      <4> SUFFICES ASSUME NEW m \in 0 .. n
                   PROVE  \/ \E q \in Reserved' : nonce'[q] = m
                          \/ \E e \in asked' : m < nonce'[e] /\ nonce'[e] <= n
        BY DEF Filled
      <4>1. CASE m = n
        BY <3>3, <4>1
      <4>2. CASE m # n
        <5>1. m \in 0 .. n - 1
          BY <3>2, <4>2
        <5>2. \/ \E q \in Reserved' : nonce'[q] = m
              \/ \E e \in asked' : m < nonce'[e] /\ nonce'[e] <= n - 1
          BY <3>4, <5>1 DEF Filled
        <5>3. \A e \in asked' : nonce'[e] \in Int
          BY DEF TypeOK, Unset
        <5> QED
          BY <3>2, <5>2, <5>3
      <4> QED
        BY <4>1, <4>2
    <3> QED
      BY <2>4, <3>1, <3>2, <3>5
  <2>6. ASSUME NEW r \in Request, ReserveExplicit(r)
        PROVE  HoleInv'
    <3>1. PICK n \in 0 .. MaxNonce : Hands(r, n)
      BY <2>6 DEF ReserveExplicit
    <3>2. n \in Nat /\ nonce' = [nonce EXCEPT ![r] = n] /\ r \in asked'
      <4>1. n \in Nat
        BY NonceAssumption
      <4> QED
        BY <2>6, <3>1, <4>1 DEF ReserveExplicit, Hands
    <3>3. r \in Reserved' /\ nonce'[r] = n
      BY <3>2 DEF Reserved, TypeOK, Unset
    <3>4. Filled(Reserved', asked', nonce', n)
      BY <3>2, <3>3 DEF Filled
    <3> QED
      BY <2>4, <3>1, <3>2, <3>4
  <2>7. \/ \E r \in Request : Count(r) \/ Reserve(r) \/ ReserveExplicit(r)
        \/ /\ UNCHANGED nonce
           /\ count' = count \/ count' = [r \in Request |-> Unset]
           /\ next' = next \/ next' = [p \in Provider |-> Unset]
    BY DEF Next, Step, Nodes, vars, network, managers, loop, Build, TryNext, BuildFails,
           Drop, StartBroadcast, Accept, AlreadyKnown, Unanswered, GoesOn, Reset, Receipt,
           NoReceipt, Mine, SeesMined, Hears, Evicts, Restart
  <2>8. ASSUME UNCHANGED nonce,
               count' = count \/ count' = [r \in Request |-> Unset],
               next' = next \/ next' = [p \in Provider |-> Unset]
        PROVE  HoleInv'
    <3>1. \A p \in Provider : Filled(Reserved', asked', nonce', next'[p] - 1)
      BY <2>1, <2>2, <2>8 DEF HoleInv
    <3>2. \A q \in Request : /\ Filled(Reserved', asked', nonce', count'[q] - 1)
                             /\ Filled(Reserved', asked', nonce', nonce'[q])
      BY <2>1, <2>2, <2>8 DEF HoleInv
    <3> QED
      BY <3>1, <3>2 DEF HoleInv
  <2> QED
    BY <2>3, <2>5, <2>6, <2>7, <2>8
<1> QED
  BY <1>1, <1>2, TypeAndPc, NetInvHolds, PTL DEF Spec

\* Nonces are handed out without holes but those that an intent with a nonce of
\* its own leaves below it, over resets, restarts, counts that arrive late and
\* nodes that lag or evict.
THEOREM NoHolesHold == Spec => []NoHoles
<1>1. TypeOK /\ HoleInv => NoHoles
  <2> SUFFICES ASSUME TypeOK, HoleInv, NEW r \in Reserved, NEW n \in 0 .. nonce[r] - 1
               PROVE  \/ \E q \in Reserved : nonce[q] = n
                      \/ \E e \in asked : n < nonce[e] /\ nonce[e] <= nonce[r]
    BY DEF NoHoles
  <2>1. r \in Request /\ nonce[r] \in Nat /\ Filled(Reserved, asked, nonce, nonce[r])
    BY DEF Reserved, TypeOK, Unset, HoleInv
  <2>2. n \in 0 .. nonce[r]
    BY <2>1
  <2> QED
    BY <2>1, <2>2 DEF Filled
<1> QED
  BY <1>1, TypeAndPc, HoleInvHolds, PTL

-----------------------------------------------------------------------------
(* Managers.                                                               *)

\* Beside ManagersCountApart: what a manager handed out since its reset is below
\* its next nonce, unless an intent took the manager back.
ManagerInv ==
    /\ ManagersCountApart
    /\ \A p \in Provider : \A r \in handed[p] :
           /\ nonce[r] # Unset
           /\ nonce[r] < next[p] \/ \E e \in handed[p] \cap asked : nonce[e] <= nonce[r]

LEMMA ManagerInvHolds == Spec => []ManagerInv
<1>1. Init => ManagerInv
  BY DEF Init, ManagerInv, ManagersCountApart
<1>2. TypeOK /\ PcInv /\ ManagerInv /\ [Next]_vars => ManagerInv'
  <2> SUFFICES ASSUME TypeOK, PcInv, ManagerInv, [Next]_vars PROVE ManagerInv'
    OBVIOUS
  <2> USE DEF ManagerInv, ManagersCountApart, TypeOK
  <2>1. ASSUME NEW r \in Request, NEW n \in Nat, Hands(r, n), nonce[r] = Unset,
               \/ n >= next[at[r]] /\ asked' = asked
               \/ asked' = asked \cup {r}
        PROVE  ManagerInv'
    <3>1. /\ next' = [next EXCEPT ![at[r]] = n + 1]
          /\ handed' = [handed EXCEPT ![at[r]] = @ \cup {r}]
          /\ nonce' = [nonce EXCEPT ![r] = n]
      BY <2>1 DEF Hands
    <3>2. \A p \in Provider : r \notin handed[p]
      BY <2>1
    <3>3. \A p \in Provider : \A q \in handed[p] :
             q # r /\ nonce'[q] = nonce[q] /\ nonce[q] \in Nat
      BY <3>1, <3>2 DEF Unset
    <3>4. r \notin asked
      BY <2>1 DEF PcInv
    <3>5. ASSUME NEW p \in Provider, p # at[r]
          PROVE  /\ \A q \in handed'[p] :
                        /\ nonce'[q] # Unset
                        /\ \/ nonce'[q] < next'[p]
                           \/ \E e \in handed'[p] \cap asked' : nonce'[e] <= nonce'[q]
                 /\ \A q, s \in handed'[p] : nonce'[q] = nonce'[s] /\ q # s =>
                        \E e \in handed'[p] \cap asked' : nonce'[e] <= nonce'[s]
      <4>1. handed'[p] = handed[p] /\ next'[p] = next[p]
        BY <3>1, <3>5
      <4>2. handed'[p] \cap asked' = handed[p] \cap asked
        BY <2>1, <3>2, <4>1
      <4> QED
        BY <3>3, <4>1, <4>2
    <3>6. /\ handed'[at[r]] = handed[at[r]] \cup {r} /\ next'[at[r]] = n + 1 /\ nonce'[r] = n
          /\ at[r] \in Provider
      BY <3>1
    <3> DEFINE Below(m) == \E e \in handed'[at[r]] \cap asked' : nonce'[e] <= m
    <3>7. \A q \in handed[at[r]] :
             nonce'[q] \in Nat /\ (nonce[q] < next[at[r]] \/ Below(nonce[q]))
      BY <2>1, <3>3, <3>6
    <3>8. asked' = asked \cup {r} => \A m \in Nat : m >= n => Below(m)
      BY <3>6
    <3> HIDE DEF Below
    <3>9. ASSUME NEW q \in handed'[at[r]]
          PROVE  /\ nonce'[q] \in Nat
                 /\ nonce'[q] < next'[at[r]] \/ Below(nonce'[q])
      <4>1. CASE q = r
        BY <3>6, <4>1
      <4>2. CASE q # r
        <5>1. q \in handed[at[r]] /\ nonce'[q] = nonce[q] /\ nonce[q] \in Nat
          BY <3>3, <3>6, <4>2
        <5>2. next[at[r]] \in Int
          BY <3>6 DEF Unset
        <5> QED
          BY <2>1, <3>6, <3>7, <3>8, <5>1, <5>2
      <4> QED
        BY <4>1, <4>2
    <3>10. ASSUME NEW q \in handed'[at[r]], NEW s \in handed'[at[r]],
                  nonce'[q] = nonce'[s], q # s
           PROVE  Below(nonce'[s])
      <4>1. CASE q # r /\ s # r
        <5>1. PICK e \in handed[at[r]] \cap asked : nonce[e] <= nonce[s]
          BY <3>3, <3>6, <3>10, <4>1
        <5> QED
          BY <2>1, <3>3, <3>6, <4>1, <5>1 DEF Below
      <4>2. CASE q = r \/ s = r
        <5>1. PICK o \in handed[at[r]] : nonce[o] = n /\ nonce'[s] = n
          BY <3>3, <3>6, <3>10, <4>2
        <5>2. next[at[r]] \in Int
          BY <3>6 DEF Unset
        <5> QED
          BY <2>1, <3>7, <3>8, <5>1, <5>2
      <4> QED
        BY <4>1, <4>2
    <3>11. /\ \A q \in handed'[at[r]] :
                  /\ nonce'[q] # Unset
                  /\ \/ nonce'[q] < next'[at[r]]
                     \/ \E e \in handed'[at[r]] \cap asked' : nonce'[e] <= nonce'[q]
           /\ \A q, s \in handed'[at[r]] : nonce'[q] = nonce'[s] /\ q # s =>
                  \E e \in handed'[at[r]] \cap asked' : nonce'[e] <= nonce'[s]
      BY <3>9, <3>10 DEF Below, Unset
    <3> QED
      BY <3>5, <3>11
  <2>2. ASSUME NEW r \in Request, Reserve(r)
        PROVE  ManagerInv'
    <3> DEFINE n == IF count[r] > next[at[r]] THEN count[r] ELSE next[at[r]]
    <3>1. n \in Nat /\ n >= next[at[r]]
      BY <2>2 DEF Reserve, Goes, PcInv, Unset
    <3>2. Hands(r, n) /\ nonce[r] = Unset /\ asked' = asked
      BY <2>2 DEF Reserve, Goes, PcInv
    <3> HIDE DEF n
    <3> QED
      BY <2>1, <3>1, <3>2
  <2>3. ASSUME NEW r \in Request, ReserveExplicit(r)
        PROVE  ManagerInv'
    <3>1. PICK n \in 0 .. MaxNonce : Hands(r, n)
      BY <2>3 DEF ReserveExplicit
    <3>2. n \in Nat /\ nonce[r] = Unset /\ asked' = asked \cup {r}
      BY <2>3 DEF ReserveExplicit, Goes, PcInv
    <3> QED
      BY <2>1, <3>1, <3>2
  <2>4. \/ \E r \in Request : Reserve(r) \/ ReserveExplicit(r)
        \/ UNCHANGED <<nonce, next, handed, asked>>
        \/ UNCHANGED <<nonce, asked>> /\ Reset
    BY DEF Next, Step, Nodes, vars, network, managers, loop, Build, Count, TryNext,
           BuildFails, Drop, StartBroadcast, Accept, AlreadyKnown, Unanswered, GoesOn,
           Receipt, NoReceipt, Mine, SeesMined, Hears, Evicts, Restart
  <2>5. CASE UNCHANGED <<nonce, next, handed, asked>>
    BY <2>5
  <2>6. CASE UNCHANGED <<nonce, asked>> /\ Reset
    BY <2>6 DEF Reset
  <2> QED
    BY <2>2, <2>3, <2>4, <2>5, <2>6
<1> QED
  BY <1>1, <1>2, TypeAndPc, PTL DEF Spec

\* A manager hands out a nonce twice between two resets only after an intent came
\* to it with a nonce of its own that is no larger, however the counts of
\* concurrent requests overtake one another.
THEOREM CountApartHolds == Spec => []ManagersCountApart
  BY ManagerInvHolds, PTL DEF ManagerInv

=============================================================================
