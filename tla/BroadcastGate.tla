--------------------------- MODULE BroadcastGate ---------------------------
(***************************************************************************)
(* What the signer daemon promises about broadcasts, and nothing of how:   *)
(* a transaction goes to the network only after its request was approved,  *)
(* then recorded as signed, then released, and neither approval nor        *)
(* release happens while the kill switch is armed.  A request that is not  *)
(* sent may be dropped at any time, several at once when the daemon dies.  *)
(* Sending is not guarded: a halt does not stop what is already released.  *)
(***************************************************************************)
CONSTANT Request

VARIABLES
    gate,       \* how far each request is
    recorded,   \* the requests whose signed transaction is in the audit log
    halted      \* whether the kill switch is armed

vars == <<gate, recorded, halted>>

TypeOK ==
    /\ gate \in [Request -> {"waiting", "approved", "released", "sent", "dropped"}]
    /\ recorded \subseteq Request
    /\ halted \in BOOLEAN

Init ==
    /\ gate = [r \in Request |-> "waiting"]
    /\ recorded = {}
    /\ halted = FALSE

Approve(r) ==
    /\ gate[r] = "waiting" /\ ~halted
    /\ gate' = [gate EXCEPT ![r] = "approved"]
    /\ UNCHANGED <<recorded, halted>>

\* A request that is only signed is over as soon as it is recorded.
Record(r) ==
    /\ gate[r] = "approved"
    /\ recorded' = recorded \cup {r}
    /\ \/ UNCHANGED gate
       \/ gate' = [gate EXCEPT ![r] = "dropped"]
    /\ UNCHANGED halted

Release(r) ==
    /\ gate[r] = "approved" /\ r \in recorded /\ ~halted
    /\ gate' = [gate EXCEPT ![r] = "released"]
    /\ UNCHANGED <<recorded, halted>>

Send(r) ==
    /\ gate[r] = "released"
    /\ gate' = [gate EXCEPT ![r] = "sent"]
    /\ UNCHANGED <<recorded, halted>>

Drop(S) ==
    /\ \A r \in S : gate[r] # "sent"
    /\ gate' = [r \in Request |-> IF r \in S THEN "dropped" ELSE gate[r]]
    /\ UNCHANGED <<recorded, halted>>

Toggle ==
    /\ halted' = ~halted
    /\ UNCHANGED <<gate, recorded>>

Next ==
    \/ \E r \in Request : Approve(r) \/ Record(r) \/ Release(r) \/ Send(r)
    \/ \E S \in SUBSET Request : Drop(S)
    \/ Toggle

Spec == Init /\ [][Next]_vars

=============================================================================
