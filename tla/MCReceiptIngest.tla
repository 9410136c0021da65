--------------------------- MODULE MCReceiptIngest ---------------------------
(* An intent and its resend, which share their hash.                       *)
EXTENDS ReceiptIngest

MCHashOf == [r \in Request |-> "hash"]
=============================================================================
