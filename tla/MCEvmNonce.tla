----------------------------- MODULE MCEvmNonce -----------------------------
(* Small instances of the EVM signer for TLC. *)
EXTENDS EvmNonce, TLC

CONSTANTS r1, r2, r3, main, other

Alike == Permutations(Request)
=============================================================================
