------------------------------ MODULE MCCoins ------------------------------
(***************************************************************************)
(* Small instances of Coins.  Prices and limits are scaled down so that    *)
(* every comparison of the code is reached from both sides with a handful  *)
(* of coins; the integers a user types include -1, the largest stake that  *)
(* fits and one that does not.                                             *)
(***************************************************************************)
EXTENDS Coins, TLC

CONSTANTS u1, u2, t1, t2

SomeAmounts == {-2, -1, 1, 2}
SomeGibs == {-1, 2}

\* A miner who owes celeries draws less than nothing.
SomeMines == {-1, 2}

SomePrice == 1 :> 1 @@ 2 :> 2 @@ 3 :> 1

\* Coroutine slots are interchangeable.
TaskSymmetry == Permutations(Tasks)
============================================================================
