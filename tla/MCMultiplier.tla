---------------------------- MODULE MCMultiplier ----------------------------
(***************************************************************************)
(* Small instances of Multiplier: two registered users and, where a curse  *)
(* on a stranger matters, a third; a handful of beef; a curse of 2.        *)
(***************************************************************************)
EXTENDS Multiplier, TLC

CONSTANTS u1, u2, u3, t1, t2, t3

TypedAmounts == {-1, 1, 2}

TaskSymmetry == Permutations(Tasks)
=============================================================================
