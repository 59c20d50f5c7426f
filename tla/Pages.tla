-------------------------------- MODULE Pages --------------------------------
(***************************************************************************)
(* The page loop that getinv and getshop of src/commands/utils.hpp share.  *)
(* The entries of a map are visited in the order of their keys; entry i    *)
(* (from 0) is skipped as long as (page-1)*5 > i, then shown, and after it *)
(* the loop stops if (i+1) / page == 5.                                    *)
(***************************************************************************)
EXTENDS CppInt

CONSTANT PageSize   \* 5 in the code

ASSUME PageAssumption == PageSize \in Nat \ {0}

\* std::ceil(n/5.0)
page_total(n) == (n + PageSize - 1) \div PageSize

Skipped(i, page) == (page - 1) * PageSize > i

LastOfEarlierPage(i, page) ==   \* mutant: compares with the entry's own index
  Quotient(i, page) = PageSize

LastOfPage(i, page) == Quotient(i + 1, page) = PageSize

\* The entries, of n, that the given page shows.
Shown(n, page) ==
  {i \in 0..n-1 :
     /\ page <= page_total(n)
     /\ ~Skipped(i, page)
     /\ \A j \in 0..i-1 : Skipped(j, page) \/ ~LastOfPage(j, page)}

\* What a page is meant to show: its slice of the entries.
Slice(n, page) == {i \in 0..n-1 : /\ (page - 1) * PageSize <= i
                                  /\ i < page * PageSize}
=============================================================================
