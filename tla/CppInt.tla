------------------------------- MODULE CppInt -------------------------------
(***************************************************************************)
(* The integer arithmetic of C++ where it differs from that of Integers.   *)
(* Discord hands an integer option over as int64_t; getinv, getshop, roll  *)
(* and roulette take it as an int, which keeps its last 32 bits.           *)
(***************************************************************************)
EXTENDS Integers

CONSTANT IntSpan   \* how many values an int has: 2^32 in the code

ASSUME IntAssumption == IntSpan \in Nat \ {0, 1} /\ IntSpan % 2 = 0

Int32 == -(IntSpan \div 2)..(IntSpan \div 2) - 1

\* What is left of n where a type has span values.
Wrapped(n, span) == ((n + span \div 2) % span) - (span \div 2)

\* Conversion of an int64_t to an int.
ToInt(n) == Wrapped(n, IntSpan)

\* Integer division rounds towards zero.  By zero it is undefined: x86 traps
\* (see Items!Trap), and where the processor does not, the quotient is 0.
Quotient(n, d) ==
  CASE d = 0 -> 0
    [] n >= 0 /\ d > 0 -> n \div d
    [] n < 0 /\ d > 0 -> -((-n) \div d)
    [] n >= 0 /\ d < 0 -> -(n \div (-d))
    [] n < 0 /\ d < 0 -> (-n) \div (-d)
=============================================================================
