----------------------------- MODULE MCAuditLog -----------------------------
(* A small instance of the audit log for TLC. *)
EXTENDS AuditLogGrowth, TLC

CONSTANTS first, resent, approval, reset, mainnet

\* "resent" is the intent "first" submitted again, unchanged.
MCHashOf == [i \in Intent |-> IF i \in {first, resent} THEN "once" ELSE i]
MCStrategyOf == [i \in Intent |-> "strategy"]
MCChainOf == [i \in Intent |-> IF i = reset THEN mainnet ELSE "base"]
MCKindOf == [r \in Request |-> IF r = approval THEN "approve" ELSE "trade"]
MCAmountOf == [i \in Intent |-> 1]

Alike == Permutations({first, resent})
=============================================================================
