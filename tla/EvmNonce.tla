------------------------------ MODULE EvmNonce ------------------------------
(***************************************************************************)
(* The EVM signer on one chain: a nonce manager for each RPC provider, the *)
(* fallback from one provider to the next while a transaction is built and *)
(* while it is broadcast, and the nodes behind the providers, which need   *)
(* not have the same transactions.                                         *)
(*                                                                         *)
(* The requests are those that reserve a nonce (previews take none), and   *)
(* the key is used by no one else.  The order of the providers after the   *)
(* active one is the configuration's; here it is any.                      *)
(***************************************************************************)
EXTENDS Integers, Sequences

CONSTANTS
    Request,
    Provider,
    Main,           \* the provider of index 0
    MaxNonce        \* MAX_REASONABLE_EVM_NONCE: a count above it is an error

ASSUME NonceAssumption == Main \in Provider /\ MaxNonce \in Nat

VARIABLES
    next,           \* nextNonce of each provider's manager, or Unset
    active,         \* the provider that is tried first
    pc,             \* where each request is
    at,             \* the provider its loop is at
    rest,           \* the providers its loop has yet to try
    count,          \* the pending count on its way to the request, or Unset
    nonce,          \* the nonce of its transaction, or Unset
    accepted,       \* the requests a provider took or said it had
    handed,         \* history: the requests each manager served since its reset
    asked,          \* history: those whose intent came with a nonce of its own
    pool,           \* the transactions each node has
    head,           \* how many transactions of the account each node saw mined
    mined,          \* the transactions of the account on the chain
    taken           \* history: the transactions some node ever took

managers == <<next, active, handed, asked>>
loop == <<pc, at, rest, count, nonce, accepted>>
network == <<pool, head, mined, taken>>
vars == <<managers, loop, network>>

Unset == -1

TypeOK ==
    /\ next \in [Provider -> Nat \cup {Unset}]
    /\ active \in Provider
    /\ pc \in [Request -> {"idle", "building", "counted", "reserved",
                           "broadcasting", "sent", "received", "over"}]
    /\ at \in [Request -> Provider]
    /\ rest \in [Request -> SUBSET Provider]
    /\ count \in [Request -> Nat \cup {Unset}]
    /\ nonce \in [Request -> Nat \cup {Unset}]
    /\ accepted \subseteq Request
    /\ handed \in [Provider -> SUBSET Request]
    /\ asked \subseteq Request
    /\ pool \in [Provider -> SUBSET Request]
    /\ head \in [Provider -> Nat]
    /\ mined \in Seq(Request)
    /\ taken \subseteq Request

Init ==
    /\ next = [p \in Provider |-> Unset] /\ active = Main
    /\ handed = [p \in Provider |-> {}] /\ asked = {}
    /\ pc = [r \in Request |-> "idle"]
    /\ at = [r \in Request |-> Main]
    /\ rest = [r \in Request |-> {}]
    /\ count = [r \in Request |-> Unset]
    /\ nonce = [r \in Request |-> Unset]
    /\ accepted = {}
    /\ pool = [p \in Provider |-> {}] /\ head = [p \in Provider |-> 0]
    /\ mined = <<>> /\ taken = {}

-----------------------------------------------------------------------------
(* The nodes.                                                              *)

\* Node p has a transaction of nonce n, or saw it mined.
Has(p, n) == n < head[p] \/ \E q \in pool[p] : nonce[q] = n

\* The count of tag "pending": the first nonce the node does not have.
Pending(p, n) == ~Has(p, n) /\ \A m \in 0 .. n - 1 : Has(p, m)

Mine(r) ==
    /\ \E p \in Provider : r \in pool[p]
    /\ nonce[r] = Len(mined)
    /\ mined' = Append(mined, r)
    /\ UNCHANGED <<pool, head, taken>> /\ UNCHANGED <<managers, loop>>

SeesMined(p) ==
    /\ head[p] < Len(mined)
    /\ head' = [head EXCEPT ![p] = @ + 1]
    /\ UNCHANGED <<pool, mined, taken>> /\ UNCHANGED <<managers, loop>>

\* A node hears of a transaction from another.
Hears(p, r) ==
    /\ \E q \in Provider : r \in pool[q]
    /\ ~Has(p, nonce[r])
    /\ pool' = [pool EXCEPT ![p] = @ \cup {r}]
    /\ UNCHANGED <<head, mined, taken>> /\ UNCHANGED <<managers, loop>>

Evicts(p, r) ==
    /\ r \in pool[p]
    /\ pool' = [pool EXCEPT ![p] = @ \ {r}]
    /\ UNCHANGED <<head, mined, taken>> /\ UNCHANGED <<managers, loop>>

-----------------------------------------------------------------------------
(* A transaction is built: buildTransactionRequest under withRpcFallback.  *)

Goes(r, from, to) ==
    /\ pc[r] = from
    /\ pc' = [pc EXCEPT ![r] = to]

\* The loop begins with the active provider.
Loops(r) ==
    /\ at' = [at EXCEPT ![r] = active]
    /\ rest' = [rest EXCEPT ![r] = Provider \ {active}]

\* It goes on with another one.
Continues(r) ==
    /\ \E p \in rest[r] :
           /\ at' = [at EXCEPT ![r] = p]
           /\ rest' = [rest EXCEPT ![r] = @ \ {p}]
    /\ UNCHANGED pc

Build(r) ==
    /\ Goes(r, "idle", "building") /\ Loops(r)
    /\ UNCHANGED <<count, nonce, accepted>> /\ UNCHANGED <<managers, network>>

\* The provider answers with its pending count.
Count(r) ==
    /\ Goes(r, "building", "counted")
    /\ \E n \in 0 .. MaxNonce :
           Pending(at[r], n) /\ count' = [count EXCEPT ![r] = n]
    /\ UNCHANGED <<at, rest, nonce, accepted>> /\ UNCHANGED <<managers, network>>

\* The fees, the balance or the count cannot be read, or the count is absurd.
TryNext(r) ==
    /\ pc[r] = "building" /\ Continues(r)
    /\ UNCHANGED <<count, nonce, accepted>> /\ UNCHANGED <<managers, network>>

\* No provider is left, or the balance is too low.
BuildFails(r) ==
    /\ Goes(r, "building", "over")
    /\ UNCHANGED <<at, rest, count, nonce, accepted>>
    /\ UNCHANGED <<managers, network>>

Hands(r, n) ==
    /\ nonce' = [nonce EXCEPT ![r] = n]
    /\ count' = [count EXCEPT ![r] = Unset]
    /\ next' = [next EXCEPT ![at[r]] = n + 1]
    /\ handed' = [handed EXCEPT ![at[r]] = @ \cup {r}]
    /\ active' = at[r]
    /\ UNCHANGED <<at, rest, accepted>> /\ UNCHANGED network

\* A bug: the count is trusted, without the nonces reserved since.
ReserveCounted(r) ==
    /\ Goes(r, "counted", "reserved") /\ Hands(r, count[r])
    /\ UNCHANGED asked

\* A bug: the counter is incremented before it is used.
ReservePreIncremented(r) ==
    /\ Goes(r, "counted", "reserved")
    /\ Hands(r, IF count[r] > next[at[r]] THEN count[r] ELSE next[at[r]] + 1)
    /\ UNCHANGED asked

\* The larger of the count and of what the manager remembers.
Reserve(r) ==
    /\ Goes(r, "counted", "reserved")
    /\ Hands(r, IF count[r] > next[at[r]] THEN count[r] ELSE next[at[r]])
    /\ UNCHANGED asked

\* The intent comes with a nonce: no count is read, and the manager goes on from
\* that nonce, whether it takes it back or leaves nonces out.
ReserveExplicit(r) ==
    /\ Goes(r, "building", "reserved")
    /\ \E n \in 0 .. MaxNonce : Hands(r, n)
    /\ asked' = asked \cup {r}

\* A bug: the nonce is given back.
DropGivesBack(r) ==
    /\ Goes(r, "reserved", "over")
    /\ next' = [next EXCEPT ![at[r]] = @ - 1]
    /\ UNCHANGED <<active, handed, asked>> /\ UNCHANGED <<at, rest, count, nonce, accepted>>
    /\ UNCHANGED network

\* Signing or the signed record fails, or the kill switch was armed since: the
\* nonce is not given back.
Drop(r) ==
    /\ Goes(r, "reserved", "over")
    /\ UNCHANGED <<at, rest, count, nonce, accepted>>
    /\ UNCHANGED <<managers, network>>

-----------------------------------------------------------------------------
(* It is broadcast: broadcastSignedIntent, to every provider in turn.      *)

StartBroadcast(r) ==
    /\ Goes(r, "reserved", "broadcasting") /\ Loops(r)
    /\ UNCHANGED <<count, nonce, accepted>> /\ UNCHANGED <<managers, network>>

\* resetNonceManagers.
Reset ==
    /\ next' = [p \in Provider |-> Unset]
    /\ handed' = [p \in Provider |-> {}]

\* The loop goes on to the next provider, or ends.  When no provider accepted
\* all managers are reset.
GoesOn(r, acceptedNow) ==
    /\ accepted' = IF acceptedNow THEN accepted \cup {r} ELSE accepted
    /\ active' = IF acceptedNow THEN at[r] ELSE active
    /\ \/ Continues(r) /\ UNCHANGED <<next, handed>>
       \/ /\ rest[r] = {} /\ UNCHANGED <<at, rest>>
          /\ IF r \in accepted'
             THEN Goes(r, "broadcasting", "sent") /\ UNCHANGED <<next, handed>>
             ELSE Goes(r, "broadcasting", "over") /\ Reset
    /\ UNCHANGED <<count, nonce, asked>>

Takes(r) ==
    /\ ~Has(at[r], nonce[r])
    /\ pool' = [pool EXCEPT ![at[r]] = @ \cup {r}]
    /\ taken' = taken \cup {r}
    /\ UNCHANGED <<head, mined>>

\* The better paid of two transactions of a nonce replaces the other.
Supplants(r) ==
    /\ nonce[r] >= head[at[r]]
    /\ \E q \in pool[at[r]] \ {r} :
           /\ nonce[q] = nonce[r]
           /\ pool' = [pool EXCEPT ![at[r]] = (@ \ {q}) \cup {r}]
    /\ taken' = taken \cup {r}
    /\ UNCHANGED <<head, mined>>

Accept(r) ==
    /\ pc[r] = "broadcasting"
    /\ Takes(r) \/ Supplants(r)
    /\ GoesOn(r, TRUE)

\* "already known", "nonce too low" or "replacement transaction underpriced"
\* is taken for an acceptance.
AlreadyKnown(r) ==
    /\ pc[r] = "broadcasting"
    /\ Has(at[r], nonce[r])
    /\ GoesOn(r, TRUE) /\ UNCHANGED network

\* A bug: so is no answer at all.
UnansweredIsKnown(r) ==
    /\ pc[r] = "broadcasting"
    /\ Takes(r) \/ Supplants(r) \/ UNCHANGED network
    /\ GoesOn(r, TRUE)

\* No answer: the node may have taken the transaction.
Unanswered(r) ==
    /\ pc[r] = "broadcasting"
    /\ Takes(r) \/ Supplants(r) \/ UNCHANGED network
    /\ GoesOn(r, FALSE)

-----------------------------------------------------------------------------
(* The receipt is awaited: waitForTransaction.                             *)

\* All providers are asked at once: each that has a receipt becomes the active
\* one, also after the first.
Receipt(r) ==
    /\ \E from \in {"sent", "received"} : Goes(r, from, "received")
    /\ \E p \in Provider :
           /\ \E i \in 1 .. head[p] : mined[i] = r
           /\ active' = p
    /\ UNCHANGED <<next, handed, asked>>
    /\ UNCHANGED <<at, rest, count, nonce, accepted>> /\ UNCHANGED network

\* Every provider times out or fails.
NoReceipt(r) ==
    /\ Goes(r, "sent", "over") /\ Reset
    /\ UNCHANGED <<active, asked, at, rest, count, nonce, accepted>>
    /\ UNCHANGED network

\* The process dies and is started again: the managers are new.
Restart ==
    /\ Reset /\ active' = Main
    /\ pc' = [r \in Request |-> IF pc[r] = "idle" THEN "idle" ELSE "over"]
    /\ count' = [r \in Request |-> Unset]
    /\ UNCHANGED <<asked, at, rest, nonce, accepted>> /\ UNCHANGED network

Step(r) ==
    \/ Build(r) \/ Count(r) \/ TryNext(r) \/ BuildFails(r)
    \/ Reserve(r) \/ ReserveExplicit(r) \/ Drop(r)
    \/ StartBroadcast(r) \/ Accept(r) \/ AlreadyKnown(r) \/ Unanswered(r)
    \/ Receipt(r) \/ NoReceipt(r)

Nodes ==
    \/ \E r \in Request : Mine(r)
    \/ \E p \in Provider : SeesMined(p) \/ \E r \in Request : Hears(p, r) \/ Evicts(p, r)

Next == (\E r \in Request : Step(r)) \/ Nodes \/ Restart

Spec == Init /\ [][Next]_vars

-----------------------------------------------------------------------------

Reserved == {r \in Request : nonce[r] # Unset}

\* A manager hands out a nonce twice between two resets only when an intent came
\* to it with a nonce of its own that is no larger, whatever counts were on their
\* way when it did.  Two managers, or one over a reset, may repeat it.
ManagersCountApart ==
    \A p \in Provider : \A q, r \in handed[p] :
        nonce[q] = nonce[r] /\ q # r => \E e \in handed[p] \cap asked : nonce[e] <= nonce[r]

\* A nonce that is left out below a reserved one was left out by an intent with a
\* nonce of its own, between the two.  Otherwise a transaction that waits in a
\* pool waits for one that was dropped, lost or evicted, not for a nonce nobody has.
NoHoles ==
    \A r \in Reserved : \A n \in 0 .. nonce[r] - 1 :
        \/ \E q \in Reserved : nonce[q] = n
        \/ \E e \in asked : n < nonce[e] /\ nonce[e] <= nonce[r]

\* A transaction reported as sent that no node ever took has a rival: another
\* request with its nonce, which a node took.
PhantomHasRival ==
    \A r \in accepted \ taken : \E q \in taken : q # r /\ nonce[q] = nonce[r]

=============================================================================
