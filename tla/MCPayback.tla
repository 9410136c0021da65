------------------------------ MODULE MCPayback ------------------------------
(* A small instance of the payback scheduler for TLC. *)
EXTENDS Payback
=============================================================================
