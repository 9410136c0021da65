---------------------------- MODULE PaybackLedger ----------------------------
(***************************************************************************)
(* What the payback ledger promises, whoever sends the payments: a payment *)
(* reaches the Bitcoin recipient at most once, has at most one             *)
(* disbursement record, and what the records state as delivered in all has *)
(* been received by then.                                                  *)
(***************************************************************************)
EXTENDS Integers, Sequences

VARIABLES
    sent,           \* the sats of each payment, in the order they were sent
    arrived,        \* the payments that reached the recipient
    disbursed,      \* the payments with a disbursement record
    received,       \* sats the recipient received, from anyone
    stated          \* sats the disbursement records state as delivered

vars == <<sent, arrived, disbursed, received, stated>>

Init ==
    /\ sent = <<>> /\ arrived = {} /\ disbursed = {}
    /\ received = 0 /\ stated = 0

Send ==
    /\ Len(sent') = Len(sent) + 1 /\ SubSeq(sent', 1, Len(sent)) = sent
    /\ UNCHANGED <<arrived, disbursed, received, stated>>

Arrive ==
    /\ \E p \in DOMAIN sent \ arrived :
          /\ arrived' = arrived \cup {p}
          /\ received' = received + sent[p]
    /\ UNCHANGED <<sent, disbursed, stated>>

\* Someone else pays to the same address.
Deposit ==
    /\ received' > received
    /\ UNCHANGED <<sent, arrived, disbursed, stated>>

Disburse ==
    /\ \E p \in DOMAIN sent \ disbursed : disbursed' = disbursed \cup {p}
    /\ stated <= stated' /\ stated' <= received
    /\ UNCHANGED <<sent, arrived, received>>

Next == Send \/ Arrive \/ Deposit \/ Disburse

Spec == Init /\ [][Next]_vars
=============================================================================
