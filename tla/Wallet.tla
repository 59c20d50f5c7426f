------------------------------- MODULE Wallet -------------------------------
(***************************************************************************)
(* What the commands btc, roll and roulette of src/commands/currency.cpp   *)
(* share: the fields bal and btc of a user's item, and coroutines that     *)
(* decide on a copy of them and then send one PATCH, which increments.     *)
(* The item of a user is there: these commands read it first, and nothing  *)
(* removes one, as the key that DELETE names is nobody's (Deta!DelKey).    *)
(***************************************************************************)
EXTENDS Integers

CONSTANTS Users, Tasks,
          FirstBal,   \* coins of an account at the start
          Faulty,     \* may a request or its answer be lost?
          MaxCoins    \* bound: no command starts beyond it, or below -1

ASSUME WalletAssumption == /\ Users # {} /\ FirstBal \in Nat
                           /\ Faulty \in BOOLEAN /\ MaxCoins \in Nat

VARIABLES
  base,       \* base[u]: the two fields of the item of u
  task,       \* task[t]: the coroutine in slot t
  unchecked   \* history: a request took what its handler had not seen there

wallet == <<base, task, unchecked>>

Account == [bal: Int, btc: Int]

\* Of an order for bitcoins, quote is the rate it was checked at and price
\* the rate of its request; of a bet, stake is what may be lost, and fits
\* tells that no number was cut off.
Frame == [pc: {"idle", "checked", "patch"},
          cmd: {"none", "buy", "sell", "roll", "roulette"}, user: Users,
          req: Account, seen: Account, quote: Int, price: Int,
          stake: Int, fits: BOOLEAN]

Fresh == [bal |-> FirstBal, btc |-> 0]

NoRequest == [bal |-> 0, btc |-> 0]

Done == [pc |-> "idle", cmd |-> "none", user |-> CHOOSE u \in Users : TRUE,
         req |-> NoRequest, seen |-> Fresh, quote |-> 0, price |-> 0,
         stake |-> 0, fits |-> TRUE]

WalletInit == /\ base = [u \in Users |-> Fresh]
              /\ task = [t \in Tasks |-> Done]
              /\ unchecked = FALSE

WithinBound == \A u \in Users : base[u].bal \in -1..MaxCoins

Start(t) == task[t].pc = "idle" /\ WithinBound

Resume(t, f) == task' = [task EXCEPT ![t] = f]

---------------------------------------------------------------------------
NoAnswer == 0

Incremented(a, r) == [bal |-> a.bal + r.bal, btc |-> a.btc + r.btc]

\* Db::patch: done, or no answer, in which case it may be done or not.
Patch(u, r, status) ==
  \/ /\ status = 200 \/ (status = NoAnswer /\ Faulty)
     /\ base' = [base EXCEPT ![u] = Incremented(@, r)]
  \/ /\ status = NoAnswer /\ Faulty
     /\ base' = base

\* History: does the request meet what its handler saw?  What it takes is
\* still there, there is still room for bitcoins, the rate at which an order
\* was checked is the one it is charged at, and a bet was of a number that
\* an int can hold.
Covered(f) ==
  LET r == f.req
      a == base[f.user] IN
  /\ f.fits
  /\ r.bal < 0 => a.bal >= f.seen.bal
  /\ r.btc < 0 => a.btc >= f.seen.btc
  /\ r.btc > 0 => a.btc <= f.seen.btc /\ f.price <= f.quote

\* The request is executed, and the coroutine tells its user.
PatchReply(t) ==
  LET f == task[t] IN
  /\ f.pc = "patch"
  /\ \E status \in {200, NoAnswer} : Patch(f.user, f.req, status)
  /\ Resume(t, Done)
  /\ unchecked' = (unchecked \/ (base' # base /\ ~Covered(f)))
=============================================================================
