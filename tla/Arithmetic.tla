----------------------------- MODULE Arithmetic -----------------------------
(***************************************************************************)
(* Facts about products, quotients and conversions of unknown numbers, and *)
(* about sums over finite sets, which the other modules of proofs cite.    *)
(*                                                                         *)
(* SumFunctionOnSet is defined by a recursive function that takes one      *)
(* chosen element of the set after the other.  What it does is proved by   *)
(* induction on the subsets of a finite set; the induction itself comes    *)
(* from the well-foundedness of the strict subset ordering.                *)
(***************************************************************************)
EXTENDS Integers, FiniteSetsExt, FiniteSetTheorems, TLAPS

LEMMA TimesNat ==
  ASSUME NEW a \in Nat, NEW b \in Nat
  PROVE  a * b \in Nat
OBVIOUS

LEMMA TimesMonotone ==
  ASSUME NEW a \in Int, NEW b \in Int, NEW c \in Nat, a <= b
  PROVE  a * c <= b * c
<1>1. b - a \in Nat
  OBVIOUS
<1>2. (b - a) * c \in Nat
  BY <1>1, TimesNat
<1>3. (b - a) * c = b * c - a * c
  OBVIOUS
<1> QED BY <1>2, <1>3

\* A number below the divisor is its own remainder.
LEMMA SmallRemainder ==
  ASSUME NEW s \in Nat \ {0}, NEW x \in 0..s-1
  PROVE  x % s = x
<1>1. x = s * (x \div s) + (x % s) /\ x % s \in 0..s-1 /\ x \div s \in Int
  OBVIOUS
<1> DEFINE q == x \div s
<1>2. CASE q >= 1
  <2>1. s * q >= s
    BY <1>1, <1>2, TimesMonotone
  <2> QED BY <1>1, <2>1
<1>3. CASE q <= -1
  <2>1. s * q <= -s
    BY <1>1, <1>3, TimesMonotone
  <2> QED BY <1>1, <2>1
<1>4. CASE q = 0
  BY <1>1, <1>4
<1> QED BY <1>1, <1>2, <1>3, <1>4

LEMMA QuotientBounds ==
  ASSUME NEW x \in Int, NEW d \in Nat \ {0}
  PROVE  /\ x \div d \in Int
         /\ d * (x \div d) <= x
         /\ x < d * (x \div d) + d
OBVIOUS

\* A quotient is at least what times the divisor does not exceed the number.
LEMMA QuotientAtLeast ==
  ASSUME NEW x \in Int, NEW d \in Nat \ {0}, NEW q \in Int, q * d <= x
  PROVE  q <= x \div d
<1> DEFINE r == x \div d
<1>1. r \in Int /\ d * r <= x /\ x < d * r + d
  BY QuotientBounds
<1> HIDE DEF r
<1>2. ASSUME r < q PROVE FALSE
  <2>1. (r + 1) * d <= q * d
    BY <1>1, <1>2, TimesMonotone
  <2>2. (r + 1) * d = d * r + d
    BY <1>1
  <2>3. q * d \in Int /\ d * r \in Int
    BY <1>1
  <2> QED BY <1>1, <2>1, <2>2, <2>3
<1>3. q <= r
  BY <1>1, <1>2
<1> QED BY <1>3 DEF r

LEMMA QuotientBelow ==
  ASSUME NEW x \in Int, NEW d \in Nat \ {0}, NEW q \in Int, x < q * d
  PROVE  x \div d < q
<1> DEFINE r == x \div d
<1>1. r \in Int /\ d * r <= x
  BY QuotientBounds
<1> HIDE DEF r
<1>2. ASSUME q <= r PROVE FALSE
  <2>1. q * d <= r * d
    BY <1>1, <1>2, TimesMonotone
  <2>2. r * d = d * r /\ q * d \in Int /\ d * r \in Int
    BY <1>1
  <2> QED BY <1>1, <2>1, <2>2
<1>3. r < q
  BY <1>1, <1>2
<1> QED BY <1>3 DEF r

\* A conversion to a type of span values keeps what the type can hold.
LEMMA ConversionKeeps ==
  ASSUME NEW span \in Nat \ {0}, span % 2 = 0,
         NEW n \in -(span \div 2)..(span \div 2) - 1
  PROVE  ((n + span \div 2) % span) - (span \div 2) = n
<1> DEFINE h == span \div 2
<1>1. h \in Nat /\ span = 2 * h
  OBVIOUS
<1>2. n \in Int /\ n + h \in 0..span-1
  BY <1>1
<1> HIDE DEF h
<1>3. (n + h) % span = n + h
  BY <1>2, SmallRemainder
<1>4. ((n + h) % span) - h = n
  BY <1>1, <1>2, <1>3
<1> QED BY <1>4 DEF h

---------------------------------------------------------------------------
(* Induction. *)

\* A set that contains 0 and with a number the next one contains all.
LEMMA NumbersInduction ==
  ASSUME NEW G, 0 \in G, \A n \in Nat : n \in G => n + 1 \in G
  PROVE  Nat \subseteq G
<1> SUFFICES ASSUME ~(Nat \subseteq G) PROVE FALSE
  OBVIOUS
<1> DEFINE B == Nat \ G
<1>1. B \subseteq Nat /\ B # {}
  OBVIOUS
<1> HIDE DEF B
<1>2. \E n \in B : \A m \in B : ~(<<m, n>> \in OpToRel(<, Nat))
  BY <1>1, NatLessThanWellFounded, WFMin, Zenon
<1>3. PICK n \in B : \A m \in B : ~(m < n)
  BY <1>1, <1>2 DEF OpToRel
<1> QED BY <1>1, <1>3 DEF B

LEMMA SubsetsWellFounded ==
  ASSUME NEW S, IsFiniteSet(S)
  PROVE  IsWellFoundedOn(StrictSubsetOrdering(S), SUBSET S)
<1>1. FiniteSubsetsOf(S) = SUBSET S
  BY FS_FiniteSubsetsOfFinite
<1> QED BY <1>1, FS_StrictSubsetOrderingWellFounded

\* A set that contains a subset of S whenever it contains all smaller ones
\* contains all subsets of S.
LEMMA SubsetsInduction ==
  ASSUME NEW S, IsFiniteSet(S), NEW G,
         \A T \in SUBSET S : (\A U \in SUBSET T : U # T => U \in G) => T \in G
  PROVE  SUBSET S \subseteq G
<1> SUFFICES ASSUME ~(SUBSET S \subseteq G) PROVE FALSE
  OBVIOUS
<1> DEFINE B == (SUBSET S) \ G
<1>1. B \subseteq SUBSET S /\ B # {}
  OBVIOUS
<1>2. IsWellFoundedOn(StrictSubsetOrdering(S), SUBSET S)
  BY SubsetsWellFounded
<1> HIDE DEF B
<1>3. \E T \in B : \A U \in B : ~(<<U, T>> \in StrictSubsetOrdering(S))
  BY <1>1, <1>2, WFMin
<1>4. PICK T \in B : \A U \in B : ~(U \subseteq T /\ U # T)
  BY <1>1, <1>3 DEF StrictSubsetOrdering
<1> QED BY <1>1, <1>4 DEF B

---------------------------------------------------------------------------
(* Sums over finite sets. *)

Some(s) == CHOOSE x \in s : TRUE

\* The function that SumFunctionOnSet chooses: it[s] is the sum over s.
Summing(it, F, S) ==
  it = [s \in SUBSET S |-> IF s = {} THEN 0 ELSE F[Some(s)] + it[s \ {Some(s)}]]

LEMMA SomeIn == \A s : s # {} => Some(s) \in s
BY DEF Some

\* By induction on the size of the subsets.
LEMMA SummingExists ==
  ASSUME NEW S, IsFiniteSet(S), NEW F, \A x \in S : F[x] \in Int
  PROVE  \E it \in [SUBSET S -> Int] : Summing(it, F, S)
<1> DEFINE Upto(n) == {s \in SUBSET S : Cardinality(s) <= n}
           Body(it, s) == IF s = {} THEN 0 ELSE F[Some(s)] + it[s \ {Some(s)}]
           G == {n \in Nat : \E it \in [Upto(n) -> Int] :
                               \A s \in Upto(n) : it[s] = Body(it, s)}
<1>1. \A s \in SUBSET S : /\ IsFiniteSet(s) /\ Cardinality(s) \in Nat
                          /\ s # {} => /\ Some(s) \in s /\ F[Some(s)] \in Int
                                       /\ s \ {Some(s)} \in SUBSET S
                                       /\ Cardinality(s \ {Some(s)}) = Cardinality(s) - 1
                          /\ Cardinality(s) = 0 => s = {}
  BY FS_Subset, FS_CardinalityType, FS_RemoveElement, FS_EmptySet, SomeIn
<1>2. 0 \in G
  <2> DEFINE it == [s \in Upto(0) |-> 0]
  <2>1. ASSUME NEW s \in Upto(0) PROVE s = {}
    <3>1. Cardinality(s) \in Nat /\ Cardinality(s) <= 0
      BY <1>1
    <3>2. Cardinality(s) = 0
      BY <3>1
    <3> QED BY <1>1, <3>2
  <2>2. it \in [Upto(0) -> Int] /\ \A s \in Upto(0) : it[s] = Body(it, s)
    BY <2>1
  <2> QED BY <2>2
<1>3. ASSUME NEW n \in Nat, n \in G PROVE n + 1 \in G
  <2>1. PICK it \in [Upto(n) -> Int] : \A s \in Upto(n) : it[s] = Body(it, s)
    BY <1>3
  <2> DEFINE jt == [s \in Upto(n+1) |-> Body(it, s)]
  <2>2. ASSUME NEW s \in Upto(n+1), s # {} PROVE s \ {Some(s)} \in Upto(n)
    BY <1>1, <2>2
  <2>3. jt \in [Upto(n+1) -> Int]
    BY <1>1, <2>1, <2>2
  <2>4. \A s \in Upto(n) : s \in Upto(n+1) /\ jt[s] = it[s]
    BY <1>1, <2>1
  <2>5. \A s \in Upto(n+1) : jt[s] = Body(jt, s)
    BY <2>2, <2>4
  <2> HIDE DEF jt
  <2>6. \E kt \in [Upto(n+1) -> Int] : \A s \in Upto(n+1) : kt[s] = Body(kt, s)
    BY <2>3, <2>5
  <2> HIDE DEF Upto, Body
  <2> QED BY <2>6
<1>4. Cardinality(S) \in G
  <2> HIDE DEF G
  <2> QED BY <1>2, <1>3, NumbersInduction, FS_CardinalityType
<1>5. Upto(Cardinality(S)) = SUBSET S
  BY FS_Subset
<1>6. PICK it \in [Upto(Cardinality(S)) -> Int] :
        \A s \in Upto(Cardinality(S)) : it[s] = Body(it, s)
  BY <1>4
<1>7. it \in [SUBSET S -> Int] /\ \A s \in SUBSET S : it[s] = Body(it, s)
  BY <1>5, <1>6
<1>8. it = [s \in SUBSET S |-> Body(it, s)]
  BY <1>7
<1> QED BY <1>7, <1>8 DEF Summing

LEMMA SumIs ==
  ASSUME NEW S, IsFiniteSet(S), NEW F, \A x \in S : F[x] \in Int
  PROVE  \E it : Summing(it, F, S) /\ SumFunctionOnSet(F, S) = it[S]
<1> DEFINE it == CHOOSE g : Summing(g, F, S)
<1>1. \E g : Summing(g, F, S)
  BY SummingExists
<1>2. Summing(it, F, S)
  BY <1>1
<1>3. SumFunctionOnSet(F, S) = it[S]
  BY DEF Summing, Some, SumFunctionOnSet, FoldFunctionOnSet, MapThenFoldSet
<1> HIDE DEF it
<1> QED BY <1>2, <1>3

LEMMA SummingUnique ==
  ASSUME NEW S, IsFiniteSet(S), NEW T \in SUBSET S, NEW F, NEW it, NEW jt,
         Summing(it, F, S), Summing(jt, F, T)
  PROVE  it[T] = jt[T]
<1> DEFINE G == {U \in SUBSET T : it[U] = jt[U]}
<1>1. ASSUME NEW U \in SUBSET T, \A V \in SUBSET U : V # U => V \in G
      PROVE  U \in G
  <2>1. CASE U = {}
    BY <2>1 DEF Summing
  <2>2. CASE U # {}
    <3>1. U \ {Some(U)} \in SUBSET U /\ U \ {Some(U)} # U
      BY <2>2, SomeIn
    <3>2. it[U \ {Some(U)}] = jt[U \ {Some(U)}]
      BY <1>1, <3>1
    <3>3. /\ it[U] = F[Some(U)] + it[U \ {Some(U)}]
          /\ jt[U] = F[Some(U)] + jt[U \ {Some(U)}]
      BY <2>2 DEF Summing
    <3> QED BY <3>2, <3>3
  <2> QED BY <2>1, <2>2
<1>2. IsFiniteSet(T)
  BY FS_Subset
<1> HIDE DEF G
<1>3. T \in G
  BY <1>1, <1>2, SubsetsInduction
<1> QED BY <1>3 DEF G

\* The premise of the facts about sums.
Numbers(F, S) == \A x \in S : F[x] \in Int

\* A sum is what is summed at the chosen element and the sum of the rest.
LEMMA SumChosen ==
  ASSUME NEW S, IsFiniteSet(S), NEW F, Numbers(F, S)
  PROVE  SumFunctionOnSet(F, S) =
           IF S = {} THEN 0
           ELSE F[Some(S)] + SumFunctionOnSet(F, S \ {Some(S)})
<1> DEFINE T == S \ {Some(S)}
<1>1. PICK it : Summing(it, F, S) /\ SumFunctionOnSet(F, S) = it[S]
  BY SumIs DEF Numbers
<1>2. IsFiniteSet(T) /\ Numbers(F, T) /\ T \in SUBSET S
  BY FS_RemoveElement DEF Numbers
<1>3. PICK jt : Summing(jt, F, T) /\ SumFunctionOnSet(F, T) = jt[T]
  BY <1>2, SumIs DEF Numbers
<1> HIDE DEF T
<1>4. it[T] = jt[T]
  BY <1>1, <1>2, <1>3, SummingUnique
<1>5. it[S] = IF S = {} THEN 0 ELSE F[Some(S)] + it[T]
  BY <1>1 DEF Summing, T
<1> QED BY <1>1, <1>3, <1>4, <1>5 DEF T

LEMMA SumType ==
  ASSUME NEW S, IsFiniteSet(S), NEW F, Numbers(F, S)
  PROVE  SumFunctionOnSet(F, S) \in Int
<1> DEFINE G == {T \in SUBSET S : SumFunctionOnSet(F, T) \in Int}
<1>1. ASSUME NEW T \in SUBSET S, \A U \in SUBSET T : U # T => U \in G
      PROVE  T \in G
  <2>1. IsFiniteSet(T) /\ Numbers(F, T)
    BY FS_Subset DEF Numbers
  <2>2. CASE T = {}
    <3>1. SumFunctionOnSet(F, T) = 0
      BY <2>1, <2>2, SumChosen
    <3> QED BY <3>1
  <2>3. CASE T # {}
    <3>1. T \ {Some(T)} \in G /\ F[Some(T)] \in Int
      BY <1>1, <2>1, <2>3, SomeIn DEF Numbers
    <3>2. SumFunctionOnSet(F, T) = F[Some(T)] + SumFunctionOnSet(F, T \ {Some(T)})
      BY <2>1, <2>3, SumChosen
    <3>3. SumFunctionOnSet(F, T \ {Some(T)}) \in Int
      BY <3>1
    <3> HIDE DEF G
    <3>4. SumFunctionOnSet(F, T) \in Int
      BY <3>1, <3>2, <3>3
    <3> QED BY <3>4 DEF G
  <2> QED BY <2>2, <2>3
<1> HIDE DEF G
<1>2. S \in G
  BY <1>1, SubsetsInduction
<1> QED BY <1>2 DEF G

\* ... at any element, in fact.
LEMMA SumRemove ==
  ASSUME NEW S, IsFiniteSet(S), NEW F, Numbers(F, S), NEW x \in S
  PROVE  SumFunctionOnSet(F, S) = F[x] + SumFunctionOnSet(F, S \ {x})
<1> DEFINE Sum(T) == SumFunctionOnSet(F, T)
           G == {T \in SUBSET S : \A y \in T : Sum(T) = F[y] + Sum(T \ {y})}
<1>1. ASSUME NEW T \in SUBSET S, \A U \in SUBSET T : U # T => U \in G
      PROVE  T \in G
  <2> SUFFICES ASSUME NEW y \in T PROVE Sum(T) = F[y] + Sum(T \ {y})
    OBVIOUS
  <2> DEFINE c == Some(T)
  <2>1. /\ IsFiniteSet(T) /\ Numbers(F, T) /\ c \in T
        /\ IsFiniteSet(T \ {c}) /\ Numbers(F, T \ {c})
        /\ IsFiniteSet((T \ {c}) \ {y}) /\ Numbers(F, (T \ {c}) \ {y})
    BY FS_Subset, SomeIn DEF Numbers
  <2>2. Sum(T) = F[c] + Sum(T \ {c})
    BY <2>1, SumChosen
  <2>3. CASE y = c
    BY <2>2, <2>3
  <2>4. CASE y # c
    <3>1. T \ {c} \in G /\ T \ {y} \in G
      BY <1>1, <2>1
    <3>2. /\ Sum(T \ {c}) = F[y] + Sum((T \ {c}) \ {y})
          /\ Sum(T \ {y}) = F[c] + Sum((T \ {y}) \ {c})
      BY <2>1, <2>4, <3>1
    <3>3. (T \ {c}) \ {y} = (T \ {y}) \ {c}
      OBVIOUS
    <3>4. Sum((T \ {c}) \ {y}) \in Int /\ F[y] \in Int /\ F[c] \in Int
      BY <2>1, SumType DEF Numbers
    <3>5. Sum((T \ {c}) \ {y}) = Sum((T \ {y}) \ {c})
      BY <3>3
    <3> DEFINE s == Sum((T \ {c}) \ {y})
    <3>6. Sum(T) = F[c] + (F[y] + s) /\ Sum(T \ {y}) = F[c] + s
      BY <2>2, <3>2, <3>5
    <3>7. s \in Int /\ F[y] \in Int /\ F[c] \in Int
      BY <3>4
    <3> HIDE DEF Sum, c, s
    <3> QED BY <3>6, <3>7
  <2> QED BY <2>3, <2>4
<1> HIDE DEF G
<1>2. S \in G
  BY <1>1, SubsetsInduction
<1> QED BY <1>2 DEF G

\* Two functions that agree on a set have one sum.
LEMMA SumSame ==
  ASSUME NEW S, IsFiniteSet(S), NEW F, NEW H, Numbers(F, S),
         \A x \in S : F[x] = H[x]
  PROVE  SumFunctionOnSet(F, S) = SumFunctionOnSet(H, S)
<1> DEFINE G == {T \in SUBSET S : SumFunctionOnSet(F, T) = SumFunctionOnSet(H, T)}
<1>1. ASSUME NEW T \in SUBSET S, \A U \in SUBSET T : U # T => U \in G
      PROVE  T \in G
  <2>1. IsFiniteSet(T) /\ Numbers(F, T) /\ Numbers(H, T)
    BY FS_Subset DEF Numbers
  <2>2. CASE T = {}
    BY <2>1, <2>2, SumChosen
  <2>3. CASE T # {}
    <3>1. T \ {Some(T)} \in G /\ F[Some(T)] = H[Some(T)]
      BY <1>1, <2>3, SomeIn
    <3> QED BY <2>1, <2>3, <3>1, SumChosen
  <2> QED BY <2>2, <2>3
<1> HIDE DEF G
<1>2. S \in G
  BY <1>1, SubsetsInduction
<1> QED BY <1>2 DEF G

\* What a sum becomes when one of the summands changes.
LEMMA SumOneChanged ==
  ASSUME NEW S, IsFiniteSet(S), NEW F, NEW H, Numbers(F, S), Numbers(H, S),
         NEW x \in S, \A y \in S : y # x => F[y] = H[y]
  PROVE  SumFunctionOnSet(H, S) = SumFunctionOnSet(F, S) - F[x] + H[x]
<1> DEFINE T == S \ {x}
<1>1. IsFiniteSet(T) /\ Numbers(F, T) /\ \A y \in T : F[y] = H[y]
  BY FS_Subset DEF Numbers
<1>2. SumFunctionOnSet(F, T) = SumFunctionOnSet(H, T)
  BY <1>1, SumSame
<1>3. /\ SumFunctionOnSet(F, S) = F[x] + SumFunctionOnSet(F, T)
      /\ SumFunctionOnSet(H, S) = H[x] + SumFunctionOnSet(H, T)
  BY SumRemove
<1>4. SumFunctionOnSet(F, T) \in Int /\ F[x] \in Int /\ H[x] \in Int
  BY <1>1, SumType DEF Numbers
<1> QED BY <1>2, <1>3, <1>4

LEMMA SumNat ==
  ASSUME NEW S, IsFiniteSet(S), NEW F, \A x \in S : F[x] \in Nat
  PROVE  SumFunctionOnSet(F, S) \in Nat
<1> DEFINE G == {T \in SUBSET S : SumFunctionOnSet(F, T) \in Nat}
<1>1. ASSUME NEW T \in SUBSET S, \A U \in SUBSET T : U # T => U \in G
      PROVE  T \in G
  <2>1. IsFiniteSet(T) /\ Numbers(F, T)
    BY FS_Subset DEF Numbers
  <2>2. CASE T = {}
    <3>1. SumFunctionOnSet(F, T) = 0
      BY <2>1, <2>2, SumChosen
    <3> QED BY <3>1
  <2>3. CASE T # {}
    <3>1. T \ {Some(T)} \in G /\ F[Some(T)] \in Nat
      BY <1>1, <2>1, <2>3, SomeIn DEF Numbers
    <3>2. SumFunctionOnSet(F, T) = F[Some(T)] + SumFunctionOnSet(F, T \ {Some(T)})
      BY <2>1, <2>3, SumChosen
    <3>3. SumFunctionOnSet(F, T \ {Some(T)}) \in Nat
      BY <3>1
    <3> HIDE DEF G
    <3>4. SumFunctionOnSet(F, T) \in Nat
      BY <3>1, <3>2, <3>3
    <3> QED BY <3>4 DEF G
  <2> QED BY <2>2, <2>3
<1> HIDE DEF G
<1>2. S \in G
  BY <1>1, SubsetsInduction
<1> QED BY <1>2 DEF G

LEMMA SumZero ==
  ASSUME NEW S, IsFiniteSet(S), NEW F, \A x \in S : F[x] = 0
  PROVE  SumFunctionOnSet(F, S) = 0
<1> DEFINE G == {T \in SUBSET S : SumFunctionOnSet(F, T) = 0}
<1>1. ASSUME NEW T \in SUBSET S, \A U \in SUBSET T : U # T => U \in G
      PROVE  T \in G
  <2>1. IsFiniteSet(T) /\ Numbers(F, T)
    BY FS_Subset DEF Numbers
  <2>2. CASE T = {}
    BY <2>1, <2>2, SumChosen
  <2>3. CASE T # {}
    <3>1. T \ {Some(T)} \in G /\ F[Some(T)] = 0
      BY <1>1, <2>3, SomeIn
    <3> QED BY <2>1, <2>3, <3>1, SumChosen
  <2> QED BY <2>2, <2>3
<1> HIDE DEF G
<1>2. S \in G
  BY <1>1, SubsetsInduction
<1> QED BY <1>2 DEF G
=============================================================================
