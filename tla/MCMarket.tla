------------------------------ MODULE MCMarket ------------------------------
(***************************************************************************)
(* A small instance of Market: an int has the 16 values -8..7, and among   *)
(* the numbers typed are one that becomes negative as an int, one that     *)
(* becomes -1 and one that becomes a small bet.                            *)
(***************************************************************************)
EXTENDS Market, TLC

CONSTANTS u1, u2, t1, t2

TypedOrders == {0, 2}
TypedBets == {-1, 0, 2, 9, 15, 20}
SomeDraws == {-1}

TaskSymmetry == Permutations(Tasks)
=============================================================================
