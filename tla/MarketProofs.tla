---------------------------- MODULE MarketProofs ----------------------------
(***************************************************************************)
(* Theorems about Market, for any users, coroutines, rates, bets and       *)
(* bonuses, and any width of an int.  A frame is Backed when its request   *)
(* is what its handler checked against the copy it saw; that is what makes *)
(* solvency inductive, and what ties each order to a price.                *)
(***************************************************************************)
EXTENDS Market, Arithmetic

---------------------------------------------------------------------------
(* Arithmetic.                                                             *)

\* The conversion to an int keeps what an int can hold.
LEMMA ToIntKeeps ==
  ASSUME NEW n \in Int32
  PROVE  ToInt(n) = n
BY IntAssumption, ConversionKeeps DEF Int32, ToInt, Wrapped

LEMMA ToIntType ==
  ASSUME NEW n \in Int
  PROVE  ToInt(n) \in Int
BY IntAssumption DEF ToInt, Wrapped

\* What is at stake lies between the limits and is there.
LEMMA StakeBounds ==
  ASSUME NEW n \in Int, NEW bal \in Int, NEW min \in Nat, NEW max \in Nat,
         min <= max, NEW stake \in Stake(n, bal, min, max)
  PROVE  /\ stake \in Int
         /\ Fits(n, bal) => stake \in min..max /\ stake <= bal
<1>1. stake \in Int
  BY ToIntType DEF Stake
<1>2. ASSUME Fits(n, bal) PROVE stake \in min..max /\ stake <= bal
  <2>1. ToInt(n) = n /\ (n = -1 => ToInt(bal) = bal)
    BY <1>2, ToIntKeeps DEF Fits
  <2> QED BY <2>1 DEF Stake
<1> QED BY <1>1, <1>2

LEMMA HalfType ==
  ASSUME NEW n \in Int, NEW d \in {2, 4, 8, 100}
  PROVE  /\ Quotient(n, d) \in Int
         /\ n >= 0 => Quotient(n, d) >= 0 /\ Quotient(n, d) <= n
BY DEF Quotient

\* A win is at least the least draw, and at most the greatest with the bonus.
LEMMA WinningsBounds ==
  ASSUME NEW lo \in Int, NEW hi \in Int, NEW coins \in Winnings(lo, hi)
  PROVE  /\ coins \in Int
         /\ 0 <= lo /\ lo <= hi =>
              /\ coins >= lo
              /\ \A b \in Bonuses : (\A c \in Bonuses : c <= b) =>
                   100 * coins <= hi * (100 + b)
<1>1. PICK draw \in Draw(lo, hi), multi \in Bonuses, e \in {-1, 0, 1} :
        /\ coins = Quotient(draw * (100 + multi) + e, 100)
        /\ e # 0 => multi # 0 /\ (draw * (100 + multi)) % 100 = 0
  BY DEF Winnings
<1>2. draw \in Int /\ multi \in Nat
  BY GambleAssumption DEF Draw
<1> DEFINE p == draw * (100 + multi)
<1>3. p \in Int
  BY <1>2
<1>4. coins = Quotient(p + e, 100) /\ (e # 0 => multi # 0 /\ p % 100 = 0)
  BY <1>1
<1> HIDE DEF p
<1>5. coins \in Int
  BY <1>3, <1>4, HalfType
<1>6. ASSUME 0 <= lo, lo <= hi
      PROVE  /\ coins >= lo
             /\ \A b \in Bonuses : (\A c \in Bonuses : c <= b) =>
                  100 * coins <= hi * (100 + b)
  <2>1. draw \in lo..hi /\ draw \in Nat /\ 100 + multi \in Nat
    BY <1>2, <1>6 DEF Draw
  <2>2. p \in Nat
    BY <2>1, TimesNat DEF p
  <2>3. 100 * coins <= p
    BY <1>4, <2>2 DEF Quotient
  <2>5. coins >= lo
    <3>1. p = 100 * draw + draw * multi /\ draw * multi \in Nat
      BY <1>2, <2>1, TimesNat DEF p
    <3>2. CASE draw = 0
      BY <1>4, <1>6, <2>1, <2>2, <3>2 DEF Quotient
    <3>3. CASE draw # 0 /\ multi = 0
      <4>1. p = 100 * draw /\ e = 0
        BY <1>2, <1>4, <3>1, <3>3
      <4>2. coins = draw
        BY <1>4, <2>1, <4>1 DEF Quotient
      <4> QED BY <2>1, <4>2
    <3>4. CASE draw # 0 /\ multi # 0
      <4>1. 1 * multi <= draw * multi
        BY <1>2, <2>1, <3>4, TimesMonotone
      <4>2. p + e >= 100 * draw
        BY <1>2, <2>1, <3>1, <3>4, <4>1
      <4>3. coins >= draw
        BY <1>4, <2>1, <2>2, <4>2 DEF Quotient
      <4> QED BY <1>5, <1>6, <2>1, <4>3
    <3> QED BY <3>2, <3>3, <3>4
  <2>4. ASSUME NEW b \in Bonuses, \A c \in Bonuses : c <= b
        PROVE  100 * coins <= hi * (100 + b)
    <3>1. b \in Nat /\ multi <= b
      BY <2>4, GambleAssumption
    <3>2. p <= hi * (100 + multi)
      BY <2>1, TimesMonotone DEF p
    <3>3. (100 + multi) * hi <= (100 + b) * hi
      BY <1>2, <1>6, <3>1, TimesMonotone
    <3>4. (100 + multi) * hi = hi * (100 + multi) /\ (100 + b) * hi = hi * (100 + b)
      BY <1>2, <3>1
    <3>5. hi * (100 + multi) \in Int /\ hi * (100 + b) \in Int
      BY <1>2, <3>1
    <3> QED BY <1>5, <2>2, <2>3, <3>2, <3>3, <3>4, <3>5
  <2> QED BY <2>4, <2>5
<1> QED BY <1>5, <1>6

\* The loss of the stake, and a draw between parts of it, are as Paid says.
LEMMA LossPaid ==
  ASSUME NEW stake \in Nat, NEW part \in {2, 8}, NEW most \in {1, 2}
  PROVE  Paid(-stake, stake, part, most)
<1>1. ASSUME NEW b \in Bonuses
      PROVE  100 * (-stake) <= most * stake * (100 + b)
  <2>1. b \in Nat /\ most * stake \in Nat
    BY GambleAssumption
  <2>2. most * stake * (100 + b) \in Nat
    BY <2>1, TimesNat
  <2> QED BY <2>2
<1>2. -stake < 0 \/ stake = 0
  OBVIOUS
<1> QED BY <1>1, <1>2 DEF Paid, Quotient

LEMMA WinPaid ==
  ASSUME NEW stake \in Nat, NEW part \in {2, 8}, NEW most \in {1, 2},
         NEW lo \in Int, NEW hi \in Int,
         Quotient(stake, part) <= lo, lo <= hi, hi <= most * stake,
         NEW coins \in Winnings(lo, hi)
  PROVE  Paid(coins, stake, part, most)
<1>1. Quotient(stake, part) \in Nat
  BY DEF Quotient
<1>2. /\ coins \in Int /\ coins >= lo
      /\ \A b \in Bonuses : (\A c \in Bonuses : c <= b) =>
           100 * coins <= hi * (100 + b)
  BY <1>1, WinningsBounds
<1>3. ASSUME NEW b \in Bonuses, \A c \in Bonuses : c <= b
      PROVE  100 * coins <= most * stake * (100 + b)
  <2>1. 100 + b \in Nat /\ most * stake \in Int
    BY GambleAssumption
  <2>2. hi * (100 + b) <= most * stake * (100 + b)
    BY <2>1, TimesMonotone
  <2>3. 100 * coins <= hi * (100 + b)
    BY <1>2, <1>3
  <2>4. hi * (100 + b) \in Int /\ most * stake * (100 + b) \in Int
    BY <2>1
  <2> QED BY <1>2, <2>2, <2>3, <2>4
<1>4. coins >= 0 /\ coins >= Quotient(stake, part)
  BY <1>1, <1>2
<1> QED BY <1>2, <1>3, <1>4 DEF Paid

---------------------------------------------------------------------------
(* The invariant.                                                          *)

Backed(f) ==
  /\ f.quote \in Nat /\ f.price \in Nat
  /\ f.pc = "idle" <=> f.cmd = "none"
  /\ f.pc = "checked" => f.cmd = "buy"
  /\ f.cmd = "buy" => /\ f.req.btc > 0
                      /\ f.seen.btc + f.req.btc <= Cap
                      /\ f.seen.bal >= f.quote * f.req.btc
                      /\ f.pc = "patch" => f.req.bal = -(f.req.btc * f.price)
  /\ f.cmd = "sell" => /\ f.req.btc < 0
                       /\ f.seen.btc >= -f.req.btc
                       /\ f.req.bal = -f.req.btc * f.price
  /\ f.cmd \in {"roll", "roulette"} => f.req.btc = 0
  /\ f.cmd = "roll" /\ f.fits =>
       /\ Staked(f.stake, f.seen.bal, RollMin, RollMax)
       /\ Paid(f.req.bal, f.stake, 2, 1)
  /\ f.cmd = "roulette" /\ f.fits =>
       /\ Staked(f.stake, f.seen.bal, RouletteMin, RouletteMax)
       /\ Paid(f.req.bal, f.stake, 8, 2)

AllBacked == \A t \in Tasks : Backed(task[t])

IInv == TypeOK /\ AllBacked /\ SolventUnlessUnchecked

LEMMA DoneBacked == Done \in Frame /\ Backed(Done)
<1>1. (CHOOSE u \in Users : TRUE) \in Users
  BY WalletAssumption
<1> DEFINE d == CHOOSE u \in Users : TRUE
<1> HIDE DEF d
<1>2. [pc |-> "idle", cmd |-> "none", user |-> d, req |-> NoRequest, seen |-> Fresh,
       quote |-> 0, price |-> 0, stake |-> 0, fits |-> TRUE] \in Frame
  BY <1>1, WalletAssumption DEF Frame, Account, Fresh, NoRequest, d
<1>3. Done \in Frame
  BY <1>2 DEF Done, d
<1>4. /\ Done.pc = "idle" /\ Done.cmd = "none" /\ Done.quote = 0 /\ Done.price = 0
  BY DEF Done
<1> QED BY <1>3, <1>4 DEF Backed

LEMMA RateNat ==
  ASSUME TypeOK
  PROVE  exchange_rate \in Nat
BY BitcoinAssumption DEF TypeOK

LEMMA InitInv == Init => IInv
<1> SUFFICES ASSUME Init PROVE IInv
  OBVIOUS
<1>1. \A t \in Tasks : task[t] = Done
  BY DEF Init, WalletInit
<1>2. TypeOK
  <2>1. base \in [Users -> Account]
    BY WalletAssumption DEF Init, WalletInit, Account, Fresh
  <2>2. task \in [Tasks -> Frame]
    BY DoneBacked DEF Init, WalletInit
  <2>3. exchange_rate \in Rates \cup {DefaultRate} /\ minute_left \in 1..Period
    BY BitcoinAssumption DEF Init, BitcoinInit
  <2>4. unchecked \in BOOLEAN
    BY DEF Init, WalletInit
  <2> QED BY <2>1, <2>2, <2>3, <2>4 DEF TypeOK
<1>3. AllBacked
  BY <1>1, DoneBacked DEF AllBacked
<1>4. SolventUnlessUnchecked
  <2>1. \A u \in Users : base[u].bal = FirstBal /\ base[u].btc = 0
    BY DEF Init, WalletInit, Fresh
  <2>2. ASSUME NEW u \in Users
        PROVE  base[u].bal >= 0 /\ base[u].btc >= 0 /\ base[u].btc <= Cap
    BY <2>1, WalletAssumption, BitcoinAssumption
  <2> QED BY <2>2 DEF SolventUnlessUnchecked
<1> QED BY <1>2, <1>3, <1>4 DEF IInv

\* A step that puts a Backed frame into a slot, or the default one into all,
\* and changes no item, preserves the invariant.
LEMMA FrameStep ==
  ASSUME IInv, NEW t \in Tasks, NEW f \in Frame, Backed(f),
         task' = [task EXCEPT ![t] = f], UNCHANGED <<base, unchecked, market>>
  PROVE  IInv'
<1>1. TypeOK'
  BY DEF IInv, TypeOK, market
<1>2. \A d \in Tasks : Backed(task'[d])
  BY DEF IInv, TypeOK, AllBacked
<1>3. AllBacked'
  BY <1>2 DEF AllBacked, Backed
<1>4. SolventUnlessUnchecked'
  BY DEF IInv, SolventUnlessUnchecked
<1> QED BY <1>1, <1>3, <1>4 DEF IInv

---------------------------------------------------------------------------
(* The orders.                                                             *)

LEMMA BuyStep ==
  ASSUME IInv, NEW t \in Tasks, NEW u \in Users, BuyBtc(t, u)
  PROVE  IInv'
<1>1. PICK amount \in Orders :
        /\ amount > 0 /\ base[u].btc + amount <= Cap
        /\ base[u].bal >= exchange_rate * amount
        /\ Order(t, "checked", "buy", u, [bal |-> 0, btc |-> amount])
  BY DEF BuyBtc
<1>2. amount \in Int /\ exchange_rate \in Nat /\ base[u] \in Account
  BY BitcoinAssumption, RateNat DEF IInv, TypeOK
<1> DEFINE f == [pc |-> "checked", cmd |-> "buy", user |-> u,
                 req |-> [bal |-> 0, btc |-> amount], seen |-> base[u],
                 quote |-> exchange_rate, price |-> exchange_rate, stake |-> 0, fits |-> TRUE]
<1>3. f \in Frame
  BY <1>2 DEF Frame, Account
<1>4. Backed(f)
  BY <1>1, <1>2 DEF Backed
<1>5. task' = [task EXCEPT ![t] = f] /\ UNCHANGED <<base, unchecked, market>>
  BY <1>1 DEF Order, Resume
<1> HIDE DEF f
<1> QED BY <1>3, <1>4, <1>5, FrameStep

LEMMA PlaceStep ==
  ASSUME IInv, NEW t \in Tasks, PlaceBuy(t)
  PROVE  IInv'
<1> DEFINE k == task[t]
           f == [pc |-> "patch", cmd |-> "buy", user |-> k.user,
                 req |-> [bal |-> -(k.req.btc * exchange_rate), btc |-> k.req.btc],
                 seen |-> k.seen, quote |-> k.quote,
                 price |-> exchange_rate, stake |-> 0, fits |-> TRUE]
<1>1. k \in Frame /\ Backed(k) /\ k.pc = "checked" /\ exchange_rate \in Nat
  BY RateNat DEF PlaceBuy, IInv, TypeOK, AllBacked
<1>2. k.req.btc \in Int /\ -(k.req.btc * exchange_rate) \in Int
  BY <1>1 DEF Frame, Account
<1>3. task' = [task EXCEPT ![t] = f] /\ UNCHANGED <<base, unchecked, market>>
  BY DEF PlaceBuy, Resume
<1>4. /\ k.cmd = "buy" /\ k.quote \in Nat /\ k.req.btc > 0
      /\ k.seen.btc + k.req.btc <= Cap /\ k.seen.bal >= k.quote * k.req.btc
  BY <1>1 DEF Backed
<1>5. f \in Frame
  BY <1>1, <1>2 DEF Frame, Account
<1>6. Backed(f)
  BY <1>1, <1>2, <1>4 DEF Backed
<1> HIDE DEF f
<1> QED BY <1>3, <1>5, <1>6, FrameStep

LEMMA SellStep ==
  ASSUME IInv, NEW t \in Tasks, NEW u \in Users, SellBtc(t, u)
  PROVE  IInv'
<1>1. PICK amount \in Orders :
        /\ amount > 0 /\ base[u].btc >= amount
        /\ Order(t, "patch", "sell", u, [bal |-> amount * exchange_rate, btc |-> -amount])
  BY DEF SellBtc
<1>2. amount \in Int /\ exchange_rate \in Nat /\ base[u] \in Account
  BY BitcoinAssumption, RateNat DEF IInv, TypeOK
<1>3. -(-amount) = amount /\ amount * exchange_rate \in Int /\ -amount \in Int
  BY <1>2
<1> DEFINE f == [pc |-> "patch", cmd |-> "sell", user |-> u,
                 req |-> [bal |-> amount * exchange_rate, btc |-> -amount],
                 seen |-> base[u],
                 quote |-> exchange_rate, price |-> exchange_rate, stake |-> 0, fits |-> TRUE]
<1>4. f \in Frame
  BY <1>2, <1>3 DEF Frame, Account
<1>5. Backed(f)
  BY <1>1, <1>2, <1>3 DEF Backed
<1>6. task' = [task EXCEPT ![t] = f] /\ UNCHANGED <<base, unchecked, market>>
  BY <1>1 DEF Order, Resume
<1> HIDE DEF f
<1> QED BY <1>4, <1>5, <1>6, FrameStep

---------------------------------------------------------------------------
(* The bets.                                                               *)

\* A bet staked and paid as its command has it is Backed.
LEMMA BetStep ==
  ASSUME IInv, UNCHANGED market, NEW t \in Tasks, NEW u \in Users,
         NEW n \in Int, NEW stake \in Int, NEW coins \in Int,
         NEW cmd \in {"roll", "roulette"},
         NEW min \in Nat, NEW max \in Nat, NEW part \in {2, 8}, NEW most \in {1, 2},
         cmd = "roll" => min = RollMin /\ max = RollMax /\ part = 2 /\ most = 1,
         cmd = "roulette" =>
           min = RouletteMin /\ max = RouletteMax /\ part = 8 /\ most = 2,
         Bet(t, cmd, u, n, stake, coins),
         Fits(n, base[u].bal) => /\ Staked(stake, base[u].bal, min, max)
                                 /\ Paid(coins, stake, part, most)
  PROVE  IInv'
<1> DEFINE fit == Fits(n, base[u].bal)
           f == [pc |-> "patch", cmd |-> cmd, user |-> u,
                 req |-> [bal |-> coins, btc |-> 0], seen |-> base[u],
                 quote |-> 0, price |-> 0, stake |-> stake, fits |-> fit]
<1>1. base[u] \in Account /\ fit \in BOOLEAN
  BY DEF IInv, TypeOK, Fits
<1>2. task' = [task EXCEPT ![t] = f] /\ UNCHANGED <<base, unchecked, market>>
  BY DEF Bet, Resume
<1>3. fit => Staked(stake, base[u].bal, min, max) /\ Paid(coins, stake, part, most)
  OBVIOUS
<1> HIDE DEF fit
<1>4. f \in Frame
  BY <1>1 DEF Frame, Account
<1>5. Backed(f)
  BY <1>3 DEF Backed
<1> HIDE DEF f
<1> QED BY <1>2, <1>4, <1>5, FrameStep

LEMMA RollStep ==
  ASSUME IInv, UNCHANGED market, NEW t \in Tasks, NEW u \in Users, Roll(t, u)
  PROVE  IInv'
<1>1. PICK n \in Bets : \E stake \in Stake(n, base[u].bal, RollMin, RollMax) :
        \/ Bet(t, "roll", u, n, stake, -stake)
        \/ \E coins \in Winnings(Quotient(stake, 2), stake) :
             Bet(t, "roll", u, n, stake, coins)
  BY DEF Roll
<1>2. PICK stake \in Stake(n, base[u].bal, RollMin, RollMax) :
        \/ Bet(t, "roll", u, n, stake, -stake)
        \/ \E coins \in Winnings(Quotient(stake, 2), stake) :
             Bet(t, "roll", u, n, stake, coins)
  BY <1>1
<1>3. /\ n \in Int /\ base[u].bal \in Int
      /\ RollMin \in Nat /\ RollMax \in Nat /\ RollMin <= RollMax
  BY GambleAssumption DEF IInv, TypeOK, Account
<1>4. /\ stake \in Int /\ -stake \in Int
      /\ Fits(n, base[u].bal) =>
           stake \in Nat /\ Staked(stake, base[u].bal, RollMin, RollMax)
  BY <1>2, <1>3, StakeBounds DEF Staked
<1>5. CASE Bet(t, "roll", u, n, stake, -stake)
  <2>1. Fits(n, base[u].bal) => Paid(-stake, stake, 2, 1)
    BY <1>4, LossPaid
  <2> QED BY <1>3, <1>4, <1>5, <2>1, BetStep
<1>6. ASSUME NEW coins \in Winnings(Quotient(stake, 2), stake),
             Bet(t, "roll", u, n, stake, coins)
      PROVE  IInv'
  <2>1. coins \in Int
    BY <1>4, HalfType, WinningsBounds
  <2>2. ASSUME Fits(n, base[u].bal)
        PROVE  Paid(coins, stake, 2, 1)
    <3>1. /\ Quotient(stake, 2) \in Int /\ Quotient(stake, 2) <= stake
          /\ stake <= 1 * stake /\ stake \in Nat
      BY <1>4, <2>2, HalfType
    <3> QED BY <1>6, <3>1, WinPaid
  <2> QED BY <1>3, <1>4, <1>6, <2>1, <2>2, BetStep
<1> QED BY <1>2, <1>5, <1>6

LEMMA RouletteStep ==
  ASSUME IInv, UNCHANGED market, NEW t \in Tasks, NEW u \in Users, Roulette(t, u)
  PROVE  IInv'
<1> DEFINE Won(stake) == Winnings(Quotient(stake, 2), stake)
                           \cup Winnings(stake, 2 * stake)
                           \cup Winnings(Quotient(stake, 8), Quotient(stake, 4))
<1>1. PICK n \in Bets : \E stake \in Stake(n, base[u].bal, RouletteMin, RouletteMax) :
        \/ Bet(t, "roulette", u, n, stake, -stake)
        \/ \E coins \in Won(stake) : Bet(t, "roulette", u, n, stake, coins)
  BY DEF Roulette
<1>2. PICK stake \in Stake(n, base[u].bal, RouletteMin, RouletteMax) :
        \/ Bet(t, "roulette", u, n, stake, -stake)
        \/ \E coins \in Won(stake) : Bet(t, "roulette", u, n, stake, coins)
  BY <1>1
<1>3. /\ n \in Int /\ base[u].bal \in Int
      /\ RouletteMin \in Nat /\ RouletteMax \in Nat /\ RouletteMin <= RouletteMax
  BY GambleAssumption DEF IInv, TypeOK, Account
<1>4. /\ stake \in Int /\ -stake \in Int
      /\ Fits(n, base[u].bal) =>
           stake \in Nat /\ Staked(stake, base[u].bal, RouletteMin, RouletteMax)
  BY <1>2, <1>3, StakeBounds DEF Staked
<1>5. CASE Bet(t, "roulette", u, n, stake, -stake)
  <2>1. Fits(n, base[u].bal) => Paid(-stake, stake, 8, 2)
    BY <1>4, LossPaid
  <2> QED BY <1>3, <1>4, <1>5, <2>1, BetStep
<1>6. ASSUME NEW coins \in Won(stake), Bet(t, "roulette", u, n, stake, coins)
      PROVE  IInv'
  <2>1. coins \in Int
    BY <1>4, HalfType, WinningsBounds
  <2>2. ASSUME Fits(n, base[u].bal)
        PROVE  Paid(coins, stake, 8, 2)
    <3>1. /\ stake \in Nat /\ Quotient(stake, 8) <= Quotient(stake, 4)
          /\ Quotient(stake, 8) <= Quotient(stake, 2)
          /\ Quotient(stake, 2) <= stake /\ Quotient(stake, 4) <= stake
          /\ Quotient(stake, 8) <= stake
          /\ stake <= 2 * stake
      BY <1>4, <2>2 DEF Quotient
    <3>2. Quotient(stake, 2) \in Int /\ Quotient(stake, 4) \in Int
          /\ Quotient(stake, 8) \in Int /\ 2 * stake \in Int
      BY <1>4, HalfType
    <3>3. CASE coins \in Winnings(Quotient(stake, 2), stake)
      BY <3>1, <3>2, <3>3, WinPaid
    <3>4. CASE coins \in Winnings(stake, 2 * stake)
      BY <3>1, <3>2, <3>4, WinPaid
    <3>5. CASE coins \in Winnings(Quotient(stake, 8), Quotient(stake, 4))
      <4>1. Quotient(stake, 4) <= 2 * stake
        BY <3>1, <3>2
      <4> QED BY <3>1, <3>2, <3>5, <4>1, WinPaid
    <3> QED BY <1>6, <3>3, <3>4, <3>5
  <2> QED BY <1>3, <1>4, <1>6, <2>1, <2>2, BetStep
<1> QED BY <1>2, <1>5, <1>6

---------------------------------------------------------------------------
(* A request is executed.                                                  *)

\* What a request that is Covered leaves is solvent.
LEMMA CoveredSolvent ==
  ASSUME NEW f \in Frame, Backed(f), f.pc = "patch", Covered(f),
         base[f.user] \in Account,
         base[f.user].bal >= 0, base[f.user].btc \in 0..Cap
  PROVE  LET a == Incremented(base[f.user], f.req) IN
         a.bal >= 0 /\ a.btc \in 0..Cap
<1> DEFINE a == base[f.user]
<1>1. /\ a.bal \in Int /\ a.btc \in Int /\ f.req.bal \in Int /\ f.req.btc \in Int
      /\ f.seen.bal \in Int /\ f.seen.btc \in Int /\ Cap \in Nat
      /\ f.price \in Nat /\ f.quote \in Nat
      /\ f.cmd \in {"buy", "sell", "roll", "roulette"}
  BY BitcoinAssumption DEF Frame, Account, Backed
<1>2. CASE f.cmd = "buy"
  <2>1. /\ f.req.btc > 0 /\ f.seen.btc + f.req.btc <= Cap
        /\ f.seen.bal >= f.quote * f.req.btc /\ f.req.bal = -(f.req.btc * f.price)
    BY <1>2 DEF Backed
  <2>2. a.btc <= f.seen.btc /\ f.price <= f.quote /\ (f.req.bal < 0 => a.bal >= f.seen.bal)
    BY <1>1, <2>1 DEF Covered
  <2>3. f.price * f.req.btc <= f.quote * f.req.btc
    BY <1>1, <2>1, <2>2, TimesMonotone
  <2>4. f.price * f.req.btc = f.req.btc * f.price
    BY <1>1
  <2>5. f.price * f.req.btc \in Int /\ f.quote * f.req.btc \in Int
    BY <1>1
  <2> QED BY <1>1, <2>1, <2>2, <2>3, <2>4, <2>5 DEF Incremented
<1>3. CASE f.cmd = "sell"
  <2>1. /\ f.req.btc < 0 /\ f.seen.btc >= -f.req.btc /\ f.req.bal = -f.req.btc * f.price
    BY <1>3 DEF Backed
  <2>2. a.btc >= f.seen.btc
    BY <1>1, <2>1 DEF Covered
  <2>3. -f.req.btc \in Nat
    BY <1>1, <2>1
  <2>4. f.req.bal >= 0
    BY <1>1, <2>1, <2>3, TimesNat
  <2> QED BY <1>1, <2>1, <2>2, <2>4 DEF Incremented
<1>4. CASE f.cmd \in {"roll", "roulette"}
  <2>1. f.fits /\ f.req.btc = 0 /\ (f.req.bal < 0 => a.bal >= f.seen.bal)
    BY <1>4 DEF Covered, Backed
  <2>2. f.req.bal < 0 => -f.req.bal <= f.seen.bal
    BY <1>1, <1>4, <2>1 DEF Backed, Staked, Paid, Frame
  <2> QED BY <1>1, <2>1, <2>2 DEF Incremented
<1> QED BY <1>1, <1>2, <1>3, <1>4

LEMMA PatchStep ==
  ASSUME IInv, UNCHANGED market, NEW t \in Tasks, PatchReply(t)
  PROVE  IInv'
<1> DEFINE f == task[t]
           a == Incremented(base[f.user], f.req)
<1>1. f \in Frame /\ Backed(f) /\ f.pc = "patch" /\ f.user \in Users
  BY DEF IInv, TypeOK, AllBacked, PatchReply, Frame
<1>2. /\ base' = base \/ base' = [base EXCEPT ![f.user] = a]
      /\ task' = [task EXCEPT ![t] = Done]
      /\ unchecked' = (unchecked \/ (base' # base /\ ~Covered(f)))
  BY DEF PatchReply, Patch, Resume
<1>3. a \in Account
  BY <1>1 DEF IInv, TypeOK, Frame, Account, Incremented
<1>4. TypeOK'
  <2>1. base' \in [Users -> Account]
    BY <1>1, <1>2, <1>3 DEF IInv, TypeOK
  <2>2. task' \in [Tasks -> Frame]
    BY <1>2, DoneBacked DEF IInv, TypeOK
  <2>3. unchecked' \in BOOLEAN
    BY <1>2 DEF IInv, TypeOK
  <2> QED BY <2>1, <2>2, <2>3 DEF IInv, TypeOK, market
<1>5. AllBacked'
  <2>1. \A d \in Tasks : Backed(task'[d])
    BY <1>2, DoneBacked DEF IInv, TypeOK, AllBacked
  <2> QED BY <2>1 DEF AllBacked, Backed
<1>6. ASSUME ~unchecked', NEW u \in Users
      PROVE  base'[u].bal >= 0 /\ base'[u].btc >= 0 /\ base'[u].btc <= Cap
  <2>1. ~unchecked /\ (base' = base \/ Covered(f))
    BY <1>2, <1>6
  <2>2. \A v \in Users : base[v].bal >= 0 /\ base[v].btc >= 0 /\ base[v].btc <= Cap
    BY <2>1 DEF IInv, SolventUnlessUnchecked
  <2>3. CASE base' = base
    BY <2>2, <2>3
  <2>4. CASE base' = [base EXCEPT ![f.user] = a] /\ Covered(f)
    <3>1. base[f.user] \in Account /\ base[f.user].btc \in 0..Cap
      BY <1>1, <2>2, BitcoinAssumption DEF IInv, TypeOK, Account
    <3>2. a.bal >= 0 /\ a.btc \in 0..Cap
      BY <1>1, <2>2, <2>4, <3>1, CoveredSolvent
    <3> HIDE DEF a, f
    <3>3. a.btc >= 0 /\ a.btc <= Cap
      BY <3>2, BitcoinAssumption
    <3>4. base'[u] = a \/ base'[u] = base[u]
      BY <1>1, <2>4 DEF IInv, TypeOK
    <3> QED BY <2>2, <3>2, <3>3, <3>4
  <2> QED BY <1>2, <2>1, <2>3, <2>4
<1>7. SolventUnlessUnchecked'
  BY <1>6 DEF SolventUnlessUnchecked
<1> QED BY <1>4, <1>5, <1>7 DEF IInv

---------------------------------------------------------------------------
(* All steps.                                                              *)

LEMMA ClockStep ==
  ASSUME IInv, Timer \/ ResetRate
  PROVE  IInv'
<1>1. /\ exchange_rate' \in Rates \cup {DefaultRate}
      /\ minute_left' \in 1..Period
      /\ UNCHANGED <<base, task, unchecked>>
  BY BitcoinAssumption DEF IInv, TypeOK, Timer, ResetRate, wallet
<1>2. TypeOK'
  BY <1>1 DEF IInv, TypeOK
<1>3. AllBacked' /\ SolventUnlessUnchecked'
  BY <1>1 DEF IInv, AllBacked, Backed, SolventUnlessUnchecked
<1> QED BY <1>2, <1>3 DEF IInv

LEMMA RestartStep ==
  ASSUME IInv, Restart
  PROVE  IInv'
<1>1. TypeOK'
  <2>1. task' \in [Tasks -> Frame]
    BY DoneBacked DEF Restart
  <2>2. exchange_rate' \in Rates \cup {DefaultRate} /\ minute_left' \in 1..Period
    BY BitcoinAssumption DEF Restart
  <2> QED BY <2>1, <2>2 DEF IInv, TypeOK, Restart
<1>2. \A d \in Tasks : Backed(task'[d])
  BY DoneBacked DEF Restart
<1>3. AllBacked'
  BY <1>2 DEF AllBacked, Backed
<1>4. SolventUnlessUnchecked'
  BY DEF IInv, Restart, SolventUnlessUnchecked
<1> QED BY <1>1, <1>3, <1>4 DEF IInv

LEMMA StepInv == IInv /\ [Next]_vars => IInv'
<1> SUFFICES ASSUME IInv, [Next]_vars PROVE IInv'
  OBVIOUS
<1>1. ASSUME NEW t \in Tasks, Trade(t) PROVE IInv'
  BY <1>1, BuyStep, SellStep DEF Trade
<1>2. ASSUME NEW t \in Tasks, Gambling(t) PROVE IInv'
  BY <1>2, RollStep, RouletteStep DEF Gambling
<1>3. ASSUME NEW t \in Tasks, Reply(t) PROVE IInv'
  BY <1>3, PlaceStep, PatchStep DEF Reply
<1>4. CASE UNCHANGED vars
  BY <1>4 DEF vars, IInv, TypeOK, AllBacked, Backed, SolventUnlessUnchecked
<1> QED BY <1>1, <1>2, <1>3, <1>4, ClockStep, RestartStep DEF Next

\* Every reachable state satisfies IInv: every order and every bet in flight
\* was checked, against the copy its handler saw.
THEOREM Invariance == Spec => []IInv
BY InitInv, StepInv, PTL DEF Spec

\* Wallets, frames, the rate and the minutes never leave their types; the
\* timer of main.cpp keeps minute_left within its period.
THEOREM TypeCorrect == Spec => []TypeOK
<1>1. IInv => TypeOK
  BY DEF IInv
<1> QED BY <1>1, Invariance, PTL

\* For every rate, cap and width of an int: debts, and bitcoins beyond the
\* cap, come only from a request that met what its handler had not seen.
THEOREM Solvency == Spec => []SolventUnlessUnchecked
<1>1. IInv => SolventUnlessUnchecked
  BY DEF IInv
<1> QED BY <1>1, Invariance, PTL

\* Whatever is typed, a bet that fits an int stays within the limits of roll
\* or roulette and the wallet, its win within twice the limit and the bonus.
THEOREM BetsAreBounded == Spec => []BetsBounded
<1>1. IInv => BetsBounded
  BY DEF IInv, AllBacked, Backed, BetsBounded
<1> QED BY <1>1, Invariance, PTL

---------------------------------------------------------------------------
(* Orders at the rate of the day change nobody's wealth.                   *)

LEMMA Exchanged ==
  ASSUME NEW bal \in Int, NEW btc \in Int, NEW n \in Int, NEW x \in Int
  PROVE  (bal - n * x) + (btc + n) * x = bal + btc * x
<1>1. (btc + n) * x = btc * x + n * x
  OBVIOUS
<1>2. btc * x \in Int /\ n * x \in Int
  OBVIOUS
<1> QED BY <1>1, <1>2

\* Buying and selling at one rate gains nothing, in whatever order orders
\* are checked, charged and executed: only a new rate, a bet, or an order at
\* a rate that has gone makes anybody richer.
THEOREM TradeGainsNothing == Spec => OnlyTheRateEnriches
<1> DEFINE A(u) == \/ exchange_rate' # exchange_rate
                   \/ \E t \in Tasks : /\ task'[t] # task[t]
                                       /\ \/ task[t].cmd \in {"roll", "roulette"}
                                          \/ task[t].price # exchange_rate
<1>1. ASSUME IInv, [Next]_vars, NEW u \in Users, Wealth(u)' > Wealth(u)
      PROVE  A(u)
  <2>1. CASE base' = base
    <3>1. Wealth(u) \in Int
      BY <1>1, RateNat DEF IInv, TypeOK, Account, Wealth
    <3>2. exchange_rate' = exchange_rate => Wealth(u)' = Wealth(u)
      BY <2>1 DEF Wealth
    <3> QED BY <1>1, <3>1, <3>2
  <2>2. ASSUME NEW t \in Tasks, PatchReply(t), UNCHANGED market
        PROVE  A(u)
    <3> DEFINE f == task[t]
    <3>1. f \in Frame /\ Backed(f) /\ f.pc = "patch" /\ base[u] \in Account
      BY <1>1, <2>2 DEF IInv, TypeOK, AllBacked, PatchReply
    <3>2. /\ task'[t] = Done /\ Done.pc = "idle"
          /\ base' = base \/ base' = [base EXCEPT ![f.user] = Incremented(@, f.req)]
      BY <1>1, <2>2 DEF IInv, TypeOK, PatchReply, Patch, Resume, Done
    <3>3. task'[t] # task[t]
      BY <3>1, <3>2
    <3>4. ASSUME f.cmd \in {"buy", "sell"}, f.price = exchange_rate
          PROVE  FALSE
      <4>1. /\ f.req.bal = -(f.req.btc * exchange_rate)
            /\ f.req.btc \in Int /\ base[u].bal \in Int /\ base[u].btc \in Int
            /\ exchange_rate \in Int /\ exchange_rate' = exchange_rate
        BY <1>1, <2>2, <3>1, <3>4, RateNat DEF Backed, Frame, Account, market, IInv
      <4>2. Wealth(u)' = base'[u].bal + base'[u].btc * exchange_rate
        BY <4>1 DEF Wealth
      <4>3. CASE base'[u] = base[u]
        BY <1>1, <4>1, <4>2, <4>3 DEF Wealth
      <4>4. CASE base'[u] = Incremented(base[u], f.req)
        <5>1. /\ base'[u].btc = base[u].btc + f.req.btc
              /\ base'[u].bal = base[u].bal - f.req.btc * exchange_rate
          BY <4>1, <4>4 DEF Incremented
        <5> HIDE DEF f
        <5>2. Wealth(u)' = Wealth(u)
          BY <4>1, <4>2, <5>1, Exchanged DEF Wealth
        <5>3. Wealth(u) \in Int
          BY <4>1 DEF Wealth
        <5> QED BY <1>1, <5>2, <5>3
      <4> QED BY <1>1, <3>2, <4>3, <4>4 DEF IInv, TypeOK
    <3>5. f.cmd \in {"buy", "sell", "roll", "roulette"}
      BY <3>1 DEF Frame, Backed
    <3> QED BY <3>3, <3>4, <3>5
  <2>3. ASSUME NEW t \in Tasks, Trade(t) \/ Gambling(t) \/ PlaceBuy(t)
        PROVE  base' = base
    BY <2>3 DEF Trade, BuyBtc, SellBtc, PlaceBuy, Order, Gambling, Roll, Roulette, Bet
  <2>4. CASE Timer \/ ResetRate \/ Restart \/ UNCHANGED vars
    BY <2>1, <2>4 DEF Timer, ResetRate, Restart, wallet, vars
  <2> QED BY <1>1, <2>1, <2>2, <2>3, <2>4 DEF Next, Reply
<1>2. IInv /\ [Next]_vars => [\A u \in Users : Wealth(u)' > Wealth(u) => A(u)]_vars
  BY <1>1
<1> QED BY <1>2, Invariance, PTL DEF Spec, OnlyTheRateEnriches

=============================================================================
