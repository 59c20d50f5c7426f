----------------------------- MODULE PagesProofs -----------------------------
(***************************************************************************)
(* The page loop of utils.hpp shows what a page is meant to show, for      *)
(* every page from 1, every number of entries and every size of a page.    *)
(***************************************************************************)
EXTENDS Pages, Arithmetic

\* The conversion to an int keeps what an int can hold.
LEMMA ToIntKeeps ==
  ASSUME NEW n \in Int32
  PROVE  ToInt(n) = n
BY IntAssumption, ConversionKeeps DEF Int32, ToInt, Wrapped

LEMMA ToIntType ==
  ASSUME NEW n \in Int
  PROVE  ToInt(n) \in Int
BY IntAssumption DEF ToInt, Wrapped

\* The loop goes on before the last entry of a page ...
LEMMA GoesOn ==
  ASSUME NEW page \in Nat \ {0}, NEW j \in Nat, j + 1 < page * PageSize
  PROVE  ~LastOfPage(j, page)
<1>1. PageSize \in Nat \ {0} /\ PageSize * page = page * PageSize
  BY PageAssumption
<1>2. (j + 1) \div page < PageSize
  BY <1>1, QuotientBelow
<1>3. Quotient(j + 1, page) = (j + 1) \div page /\ (j + 1) \div page \in Int
  BY DEF Quotient
<1> QED BY <1>1, <1>2, <1>3 DEF LastOfPage

\* ... and stops after it.
LEMMA Stops ==
  ASSUME NEW page \in Nat \ {0}, NEW j \in Nat, j + 1 = page * PageSize
  PROVE  LastOfPage(j, page)
<1>1. PageSize \in Nat \ {0} /\ PageSize * page = page * PageSize
  BY PageAssumption
<1>2. PageSize <= (j + 1) \div page
  BY <1>1, QuotientAtLeast
<1>3. (PageSize + 1) * page = PageSize * page + page
  BY <1>1
<1>4. (j + 1) \div page < PageSize + 1
  BY <1>1, <1>3, QuotientBelow
<1>5. Quotient(j + 1, page) = (j + 1) \div page /\ (j + 1) \div page \in Int
  BY DEF Quotient
<1> QED BY <1>1, <1>2, <1>4, <1>5 DEF LastOfPage

\* The entries a page shows are its slice: the test (i+1) / page == 5 of
\* getinv and getshop ends each page where it should, whatever the page.
THEOREM ShownIsSlice ==
  ASSUME NEW n \in Nat, NEW page \in Nat \ {0}
  PROVE  Shown(n, page) = Slice(n, page)
<1> DEFINE p == page * PageSize
           q == (page - 1) * PageSize
<1>1. PageSize \in Nat \ {0} /\ p \in Nat /\ q \in Nat /\ p = q + PageSize
  BY PageAssumption, TimesNat
<1>2. ASSUME NEW i \in 0..n-1, i \in Shown(n, page)
      PROVE  q <= i /\ i < p
  <2>1. ~Skipped(i, page)
    BY <1>2 DEF Shown
  <2>2. q <= i
    BY <1>1, <2>1 DEF Skipped
  <2>3. ASSUME p <= i PROVE FALSE
    <3> DEFINE j == p - 1
    <3>1. j \in 0..i-1 /\ j \in Nat /\ j + 1 = p /\ q <= j
      BY <1>1, <2>3
    <3>2. LastOfPage(j, page)
      BY <3>1, Stops
    <3>3. ~Skipped(j, page)
      BY <1>1, <3>1 DEF Skipped
    <3> QED BY <1>2, <3>1, <3>2, <3>3 DEF Shown
  <2> QED BY <1>1, <2>2, <2>3
<1>3. ASSUME NEW i \in 0..n-1, q <= i, i < p
      PROVE  i \in Shown(n, page)
  <2>1. page <= page_total(n)
    <3>1. page * PageSize <= n + PageSize - 1
      BY <1>1, <1>3
    <3> QED BY <1>1, <3>1, QuotientAtLeast DEF page_total
  <2>2. \A j \in 0..i-1 : ~LastOfPage(j, page)
    BY <1>1, <1>3, GoesOn
  <2>3. ~Skipped(i, page)
    BY <1>1, <1>3 DEF Skipped
  <2> QED BY <2>1, <2>2, <2>3 DEF Shown
<1>4. Shown(n, page) \subseteq 0..n-1
  BY DEF Shown
<1> QED BY <1>2, <1>3, <1>4 DEF Slice

\* Every entry is on one page, which is one of those that getinv counts.
THEOREM OnePage ==
  ASSUME NEW n \in Nat, NEW i \in 0..n-1
  PROVE  \E one \in 1..page_total(n) :
           {page \in 1..page_total(n) : i \in Shown(n, page)} = {one}
<1> DEFINE one == i \div PageSize + 1
<1>1. PageSize \in Nat \ {0}
  BY PageAssumption
<1>2. /\ i \div PageSize \in Int
      /\ PageSize * (i \div PageSize) <= i
      /\ i < PageSize * (i \div PageSize) + PageSize
  BY <1>1, QuotientBounds
<1>3. 0 <= i \div PageSize
  BY <1>1, QuotientAtLeast
<1> DEFINE d == i \div PageSize
<1>4. d \in Nat /\ one = d + 1 /\ PageSize * d <= i /\ i < PageSize * d + PageSize
  BY <1>2, <1>3
<1> HIDE DEF d, one
<1>5. one \in 1..page_total(n)
  <2>1. one * PageSize = PageSize * d + PageSize /\ PageSize * d \in Int
    BY <1>1, <1>4
  <2>2. one * PageSize <= n + PageSize - 1
    BY <1>1, <1>4, <2>1
  <2>3. one <= page_total(n)
    BY <1>1, <1>4, <2>2, QuotientAtLeast DEF page_total
  <2>4. page_total(n) \in Int
    BY <1>1, QuotientBounds DEF page_total
  <2> QED BY <1>4, <2>3, <2>4
<1>6. ASSUME NEW page \in 1..page_total(n)
      PROVE  i \in Shown(n, page) <=> page = one
  <2>1. i \in Shown(n, page) <=> (page - 1) * PageSize <= i /\ i < page * PageSize
    BY <1>6, ShownIsSlice DEF Slice
  <2>2. page \in Nat \ {0}
    BY <1>6
  <2>3. CASE page = one
    <3>1. (page - 1) * PageSize = PageSize * d /\ page * PageSize = PageSize * d + PageSize
      BY <1>1, <1>4, <2>3
    <3> QED BY <1>4, <2>1, <2>3, <3>1
  <2>4. CASE page <= d
    <3>1. page * PageSize <= d * PageSize
      BY <1>1, <1>4, <2>2, <2>4, TimesMonotone
    <3>2. d * PageSize = PageSize * d /\ page * PageSize \in Int /\ d * PageSize \in Int
      BY <1>1, <1>4, <2>2
    <3> QED BY <1>4, <2>1, <2>2, <2>4, <3>1, <3>2
  <2>5. CASE page >= d + 2
    <3>1. (d + 1) * PageSize <= (page - 1) * PageSize
      BY <1>1, <1>4, <2>2, <2>5, TimesMonotone
    <3>2. /\ (d + 1) * PageSize = PageSize * d + PageSize
          /\ (page - 1) * PageSize \in Int /\ PageSize * d \in Int
      BY <1>1, <1>4, <2>2
    <3> QED BY <1>1, <1>4, <2>1, <2>2, <2>5, <3>1, <3>2
  <2> QED BY <1>4, <2>2, <2>3, <2>4, <2>5
<1> QED BY <1>5, <1>6
=============================================================================
