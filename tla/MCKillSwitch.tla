---------------------------- MODULE MCKillSwitch ----------------------------
(* Small instances of the kill switch for TLC. *)
EXTENDS KillSwitch, TLC

CONSTANTS q1, q2

Alike == Permutations(Reader)
=============================================================================
