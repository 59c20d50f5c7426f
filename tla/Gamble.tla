------------------------------- MODULE Gamble -------------------------------
(***************************************************************************)
(* roll and roulette of src/commands/currency.cpp.  The amount is typed as *)
(* an int64_t, compared with the smallest bet as such, and then copied to  *)
(* an int, which is what is compared with the balance, and with -1.  The   *)
(* balance of a user who bets all is copied to an int as well.             *)
(***************************************************************************)
EXTENDS Wallet, CppInt

CONSTANTS
  RollMin, RollMax,          \* 15 and 500
  RouletteMin, RouletteMax,  \* 50 and 5000
  Bets,       \* integers users type as the amount, -1 for "all"
  Bonuses,    \* percent that multi, experience and celery, of which nobody
              \* owes any here, add to a win
  WildDraws   \* what a draw from an interval upside down yields

ASSUME GambleAssumption ==
  /\ RollMin \in Nat /\ RouletteMin \in Nat
  /\ RollMax \in Nat /\ RollMin <= RollMax
  /\ RouletteMax \in Nat /\ RouletteMin <= RouletteMax
  /\ Bets \subseteq Int /\ Bonuses \subseteq Nat
  /\ WildDraws \subseteq Int

\* What is at stake, if the checks let the bet n pass.
Stake(n, bal, min, max) ==
  LET amount == IF ToInt(n) = -1 THEN ToInt(bal) ELSE ToInt(n)
      passes == /\ n >= min \/ n = -1
                /\ bal >= IF ToInt(n) = -1 THEN min ELSE amount IN
  IF passes THEN {IF amount < max THEN amount ELSE max} ELSE {}

\* uniform_int_distribution(lo, hi); if lo > hi, which it must not be,
\* libstdc++ draws from all of int.
Draw(lo, hi) == IF lo <= hi THEN lo..hi ELSE WildDraws

\* (int)(draw * (1 + multi/100.0)).  Where the factor is no double, like 1.13,
\* a product that is a whole number may come out just below it.
Winnings(lo, hi) ==
  UNION {LET product == draw * (100 + multi)
             exact == multi % 25 = 0 \/ product % 100 # 0 IN
         {Quotient(product + e, 100) : e \in IF exact THEN {0} ELSE {-1, 1}} :
           draw \in Draw(lo, hi), multi \in Bonuses}

\* No number of the bet is cut off.
Fits(n, bal) == n \in Int32 /\ (n = -1 => bal \in Int32)

Bet(t, cmd, u, n, stake, coins) ==
  /\ Resume(t, [pc |-> "patch", cmd |-> cmd, user |-> u,
                req |-> [bal |-> coins, btc |-> 0], seen |-> base[u],
                quote |-> 0, price |-> 0, stake |-> stake,
                fits |-> Fits(n, base[u].bal)])
  /\ UNCHANGED <<base, unchecked>>

RollTyped(t, u) ==   \* mutant: the win is drawn from what was typed
  /\ Start(t)
  /\ \E n \in Bets : \E stake \in Stake(n, base[u].bal, RollMin, RollMax) :
       \/ Bet(t, "roll", u, n, stake, -stake)
       \/ \E coins \in Winnings(Quotient(ToInt(n), 2), ToInt(n)) :
            Bet(t, "roll", u, n, stake, coins)

\* A tie is answered without a request, and so is a win of a user whose
\* inventory has no count of horrorse_celery: the handler throws.
Roll(t, u) ==
  /\ Start(t)
  /\ \E n \in Bets : \E stake \in Stake(n, base[u].bal, RollMin, RollMax) :
       \/ Bet(t, "roll", u, n, stake, -stake)
       \/ \E coins \in Winnings(Quotient(stake, 2), stake) :
            Bet(t, "roll", u, n, stake, coins)

\* The number itself wins half to all of the stake, or all to twice of it if
\* it is 0; the same parity wins an eighth to a quarter.
Roulette(t, u) ==
  /\ Start(t)
  /\ \E n \in Bets : \E stake \in Stake(n, base[u].bal, RouletteMin, RouletteMax) :
       \/ Bet(t, "roulette", u, n, stake, -stake)
       \/ \E coins \in Winnings(Quotient(stake, 2), stake)
                       \cup Winnings(stake, 2 * stake)
                       \cup Winnings(Quotient(stake, 8), Quotient(stake, 4)) :
            Bet(t, "roulette", u, n, stake, coins)
=============================================================================
