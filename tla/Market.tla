------------------------------- MODULE Market -------------------------------
(***************************************************************************)
(* Bitcoin orders and bets on the same wallets, with the timer.            *)
(***************************************************************************)
EXTENDS Bitcoin, Gamble

vars == <<base, task, unchecked, exchange_rate, minute_left>>

Init == WalletInit /\ BitcoinInit

Trade(t) == \E u \in Users : BuyBtc(t, u) \/ SellBtc(t, u)

Gambling(t) == /\ \E u \in Users : Roll(t, u) \/ Roulette(t, u)
               /\ UNCHANGED market

Reply(t) == \/ PlaceBuy(t)
            \/ PatchReply(t) /\ UNCHANGED market

\* The process dies and is started again.
Restart == /\ Faulty
           /\ task' = [t \in Tasks |-> Done]
           /\ exchange_rate' = DefaultRate
           /\ minute_left' = 1
           /\ UNCHANGED <<base, unchecked>>

Next == \/ \E t \in Tasks : Trade(t) \/ Gambling(t) \/ Reply(t)
        \/ Timer \/ ResetRate \/ Restart

Spec == Init /\ [][Next]_vars

---------------------------------------------------------------------------
(* Properties. *)

TypeOK == /\ base \in [Users -> Account]
          /\ task \in [Tasks -> Frame]
          /\ unchecked \in BOOLEAN
          /\ exchange_rate \in Rates \cup {DefaultRate}
          /\ minute_left \in 1..Period

\* Nobody owes coins or bitcoins or has more bitcoins than the cap allows,
\* as long as each request meets what its handler saw: between an order and
\* a bet, between the check of an order and its charge, and in the
\* conversions of a bet, nothing else can go wrong.
SolventUnlessUnchecked ==
  ~unchecked => \A u \in Users : /\ base[u].bal >= 0
                                 /\ base[u].btc >= 0 /\ base[u].btc <= Cap

Staked(stake, bal, min, max) == stake \in min..max /\ stake <= bal

\* coins is the stake lost, or a win between the part-th of the stake and
\* most times the stake with the greatest bonus.
Paid(coins, stake, part, most) ==
  /\ coins < 0 => coins = -stake
  /\ coins >= 0 => coins >= Quotient(stake, part)
  /\ \A b \in Bonuses : (\A c \in Bonuses : c <= b) =>
       100 * coins <= most * stake * (100 + b)

\* A bet of numbers that an int can hold stakes neither less than the least
\* bet nor more than the greatest, and no more than the wallet had when it
\* was read.  What it loses is the stake; what it wins is at least a half of
\* that in roll and an eighth in roulette, and at most the stake and twice
\* the stake, with the greatest bonus on top.
BetsBounded ==
  \A t \in Tasks :
    LET f == task[t] IN
    f.fits =>
      /\ f.cmd = "roll" => /\ Staked(f.stake, f.seen.bal, RollMin, RollMax)
                           /\ Paid(f.req.bal, f.stake, 2, 1)
      /\ f.cmd = "roulette" =>
           /\ Staked(f.stake, f.seen.bal, RouletteMin, RouletteMax)
           /\ Paid(f.req.bal, f.stake, 8, 2)

Wealth(u) == base[u].bal + base[u].btc * exchange_rate

\* What a user has, bitcoins counted at the rate of the day, grows by bets,
\* by a new rate, and by orders at a rate that has gone; to buy and to sell
\* at one rate, in any order and overlapping, gains nothing.
OnlyTheRateEnriches ==
  [][\A u \in Users : Wealth(u)' > Wealth(u) =>
       \/ exchange_rate' # exchange_rate
       \/ \E t \in Tasks : /\ task'[t] # task[t]
                           /\ \/ task[t].cmd \in {"roll", "roulette"}
                              \/ task[t].price # exchange_rate]_vars

---------------------------------------------------------------------------
(* What messages of the program promise, and the code does not keep.       *)

\* currency.cpp:653: "Successfully bought {} btc for {}." names the charge.
ChargedAsTold ==
  [][\A t \in Tasks :
       LET u == task[t].user IN
       task[t].cmd = "buy" /\ base' # base /\ task'[t] # task[t] =>
         base[u].bal - base'[u].bal = exchange_rate * (base'[u].btc - base[u].btc)]_vars

\* currency.cpp:1145: "You need to bet at least 15 coins".
StakesAtLeastMin ==
  \A t \in Tasks : task[t].cmd = "roll" /\ task[t].req.bal < 0
                     => -task[t].req.bal >= RollMin

\* currency.cpp:1291-1292 and :1333-1334, of the wins of roulette: "minimum
\* earn 0.5 * (1 + multi/100)", "maximum earn 1 * (1 + multi/100)".
RouletteAsCommented ==
  \A t \in Tasks :
    LET f == task[t] IN
    f.cmd = "roulette" /\ f.fits /\ f.req.bal >= 0 =>
      /\ f.req.bal >= Quotient(f.stake, 2)
      /\ \E b \in Bonuses : 100 * f.req.bal <= f.stake * (100 + b)
=============================================================================
