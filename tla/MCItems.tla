------------------------------ MODULE MCItems ------------------------------
(***************************************************************************)
(* Small instances of Items.  The shop has the three items mine looks at,  *)
(* one of them traded, or also two that are used; prices are one or two    *)
(* coins, so that a sale at half the price earns.  An account starts with  *)
(* a new inventory or with an old one, which lacks an item that has been   *)
(* added to the shop since, or has a kind that has been removed from it.   *)
(***************************************************************************)
EXTENDS Items, TLC

CONSTANTS u1, u2, t1, t2

MineItems == {"puppy_pass", "capitalism_blessing", "horrorse_celery"}
MorePrices == [i \in MineItems \cup {"coin_bag", "bank_space"} |->
                 IF i \in {"coin_bag", "capitalism_blessing"} THEN 2 ELSE 1]
ShopPrice == [i \in Items |-> MorePrices[i]]

\* one and two: the kinds there is one of, or two.
With(has, one, two) ==
  [has |-> has, n |-> [k \in Kinds |-> IF k \in two THEN 2 ELSE IF k \in one THEN 1 ELSE 0]]

NewAccounts == {With(Items, {}, {})}
OldAccounts == {With((Items \ {"puppy_pass"}) \cup Legacy,
                     {"bank_space"} \cup Legacy, {"coin_bag"})}

\* std::map sorts its keys.
KeyOrder == <<"bank_space", "capitalism_blessing", "coin_bag",
              "horrorse_celery", "old_token", "puppy_pass">>
KeyRank == [k \in Kinds |-> CHOOSE i \in 1..6 : KeyOrder[i] = k]

\* An int64_t has the values -8..7: 9 of an item at 2 coins cost 2 coins.
TypedAmounts == {-2, -1, 1, 2}
TypedNumbers == {-2, -1, 1, 9}
SomeGifts == {<<"coin_bag", 1>>}
Blessings == {<<"capitalism_blessing", -1>>, <<"capitalism_blessing", 1>>}
SomeDraws == {-2, 3}

TaskSymmetry == Permutations(Tasks)
============================================================================
