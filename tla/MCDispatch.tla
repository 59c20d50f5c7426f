----------------------------- MODULE MCDispatch -----------------------------
(***************************************************************************)
(* Small instances of Dispatch, cooldowns scaled down to one or two ticks  *)
(* of the clock.                                                           *)
(***************************************************************************)
EXTENDS Dispatch, TLC

CONSTANTS u1, u2, t1, t2, t3, h1, h2

CooldownOf == [c \in Commands |-> CASE c = "shareitem" -> 0
                                    [] c = "beg" -> 1
                                    [] OTHER -> 2]

TaskSymmetry == Permutations(Tasks)
=============================================================================
