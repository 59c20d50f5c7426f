------------------------------ MODULE Bitcoin ------------------------------
(***************************************************************************)
(* The command btc and the timer of src/main.cpp that draws a new rate.    *)
(* exchange_rate and minute_left are plain variables of the process: the   *)
(* timer writes them on its own thread, btc reset on that of its command,  *)
(* while an order reads the rate three times, to check that it can be      *)
(* paid, to charge it, and for its message.  Each read takes the value of  *)
(* its moment.                                                             *)
(***************************************************************************)
EXTENDS Wallet

CONSTANTS
  Rates,        \* what the timer draws from: 9500..10500
  DefaultRate,  \* 10000
  Period,       \* minutes from one draw to the next: 30
  Cap,          \* bitcoins a user may have: 1000000000
  Orders        \* integers users type as the amount of bitcoins

ASSUME BitcoinAssumption ==
  /\ Rates \subseteq Nat /\ DefaultRate \in Nat /\ Rates # {}
  /\ Period \in Nat \ {0} /\ Cap \in Nat /\ Orders \subseteq Int

VARIABLES exchange_rate, minute_left

market == <<exchange_rate, minute_left>>

BitcoinInit == exchange_rate = DefaultRate /\ minute_left = 1

---------------------------------------------------------------------------
(* The timer, once a minute, and btc reset, which any user may issue.      *)

TimerRunsOn ==   \* mutant: the minutes are not set back when a rate is drawn
  /\ exchange_rate' \in IF minute_left = Period THEN Rates ELSE {exchange_rate}
  /\ minute_left' = minute_left + 1
  /\ UNCHANGED wallet

Timer ==
  /\ IF minute_left = Period
     THEN exchange_rate' \in Rates /\ minute_left' = 1
     ELSE exchange_rate' = exchange_rate /\ minute_left' = minute_left + 1
  /\ UNCHANGED wallet

ResetRate ==
  /\ exchange_rate' = DefaultRate
  /\ UNCHANGED <<minute_left, wallet>>

---------------------------------------------------------------------------
Order(t, pc, cmd, u, req) ==
  /\ Resume(t, [pc |-> pc, cmd |-> cmd, user |-> u, req |-> req,
                seen |-> base[u], quote |-> exchange_rate,
                price |-> exchange_rate, stake |-> 0, fits |-> TRUE])
  /\ UNCHANGED <<base, unchecked, market>>

BuyBtcUncapped(t, u) ==   \* mutant: only what there is already is looked at
  /\ Start(t)
  /\ \E amount \in Orders :
       /\ amount > 0
       /\ base[u].btc <= Cap
       /\ base[u].bal >= exchange_rate * amount
       /\ Order(t, "checked", "buy", u, [bal |-> 0, btc |-> amount])

BuyBtc(t, u) ==
  /\ Start(t)
  /\ \E amount \in Orders :
       /\ amount > 0
       /\ base[u].btc <= Cap /\ base[u].btc + amount <= Cap
       /\ base[u].bal >= exchange_rate * amount
       /\ Order(t, "checked", "buy", u, [bal |-> 0, btc |-> amount])

\* The request of a buy is made: the rate is read again.
PlaceBuy(t) ==
  LET f == task[t] IN
  /\ f.pc = "checked"
  /\ Resume(t, [pc |-> "patch", cmd |-> "buy", user |-> f.user,
                req |-> [bal |-> -(f.req.btc * exchange_rate), btc |-> f.req.btc],
                seen |-> f.seen, quote |-> f.quote,
                price |-> exchange_rate, stake |-> 0, fits |-> TRUE])
  /\ UNCHANGED <<base, unchecked, market>>

SellBtcAtDefault(t, u) == \* mutant: pays the rate after a reset
  /\ Start(t)
  /\ \E amount \in Orders :
       /\ amount > 0 /\ base[u].btc >= amount
       /\ Order(t, "patch", "sell", u,
                [bal |-> amount * DefaultRate, btc |-> -amount])

SellBtc(t, u) ==
  /\ Start(t)
  /\ \E amount \in Orders :
       /\ amount > 0 /\ base[u].btc >= amount
       /\ Order(t, "patch", "sell", u,
                [bal |-> amount * exchange_rate, btc |-> -amount])
=============================================================================
