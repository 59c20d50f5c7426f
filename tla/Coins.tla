------------------------------- MODULE Coins -------------------------------
(***************************************************************************)
(* The coin commands of src/commands/currency.cpp: register, unregister,   *)
(* beg, mine, bank buy, deposit, withdraw, share and gib.                  *)
(*                                                                         *)
(* A command runs as a coroutine: it reads the caller's item (getbal),     *)
(* decides on that copy, sends a PATCH that increments or sets fields, and *)
(* resumes with its status.  The copy may be stale when the PATCH is       *)
(* executed: other commands, of this user or of others, run in between.    *)
(* A task is one coroutine slot.  The action named after a command goes    *)
(* from the start of the command to the request it sends after its read,   *)
(* the action ...Reply is the execution of that request and the            *)
(* resumption of the coroutine.  A command whose checks refuse it changes  *)
(* nothing and is not a step.                                              *)
(***************************************************************************)
EXTENDS Deta, FiniteSetsExt

CONSTANTS
  Tasks,        \* coroutines that may be in flight at once
  Owner,        \* the user give_money obeys
  Pog,          \* users with the "Pog" badge
  Commands,     \* the commands the users of an instance issue
  Amounts,      \* integers the users type, -1 for "all"
  GibAmounts,   \* integers the owner types
  BegAmounts, MineAmounts,   \* what the random draws of beg and mine yield;
                \* who owes celery, Items!ShareItem, draws less than nothing
  Price,        \* coins a bank type costs: 5000, 25000, 20000
  PremiumMax,   \* largest deposit of a premium bank (200)
  RoyalMin,     \* smallest deposit of a royal bank (2500)
  MaxCoins      \* bound: no command starts once a wallet is beyond it,
                \* or a bank by two beyond its limit

AllCommands == {"register", "unregister", "beg", "mine", "bank",
                "deposit", "withdraw", "share", "gib"}

ASSUME CoinsAssumption ==
  /\ IsFiniteSet(Users) /\ IsFiniteSet(Tasks)
  /\ Owner \in Users
  /\ Pog \subseteq Users
  /\ Commands \subseteq AllCommands
  /\ Amounts \subseteq Int /\ GibAmounts \subseteq Int
  /\ BegAmounts \subseteq Int /\ MineAmounts \subseteq Int
  /\ Price \in [1..3 -> Nat]
  /\ PremiumMax \in Nat /\ RoyalMin \in Nat /\ MaxCoins \in Nat

VARIABLES
  task,       \* task[t]: the coroutine in slot t
  unchecked,  \* history: a request took what its handler had not seen there
  issued      \* history: coins created less coins destroyed by commands
              \* other than share

vars == <<keys, base, task, unchecked, issued>>

Frame == [pc: {"idle", "post", "delete", "patch", "credit", "debit"},
          cmd: AllCommands \cup {"none"}, user: Users,
          req: PatchRequest, seen: Account,
          said: {"nothing", "ok", "error"}]

NoRequest == Increment(Owner, 0, 0)

\* A slot whose coroutine has returned, with the last thing it told its user.
Done(said) == [pc |-> "idle", cmd |-> "none", user |-> Owner,
               req |-> NoRequest, seen |-> Fresh, said |-> said]

TypeOK == /\ keys \subseteq Users
          /\ base \in [Users -> Account]
          /\ task \in [Tasks -> Frame]
          /\ unchecked \in BOOLEAN
          /\ issued \in Int

Init == /\ keys = {}
        /\ base = [u \in Users |-> Fresh]
        /\ task = [t \in Tasks |-> Done("nothing")]
        /\ unchecked = FALSE
        /\ issued = 0

---------------------------------------------------------------------------
(* Arithmetic of the handlers. *)

\* Integer division of C++ rounds towards zero.
Quotient(n, d) == IF n >= 0 THEN n \div d ELSE -((-n) \div d)

\* int64_t *= 0.85 rounds the double product towards zero.
Taxed(n) == Quotient(85 * n, 100)

RoomOfAnEmptyBank(a) == a.bank_max
Room(a) == a.bank_max - a.bank

\* "-1" stands for all there is.
Asked(n, all) == IF n = -1 THEN all ELSE n

---------------------------------------------------------------------------
(* Starting a command: an idle slot, and the request the checks allow.     *)

WithinBound == /\ issued \in -2 * MaxCoins..2 * MaxCoins
               /\ \A u \in Users : /\ base[u].bal \in -MaxCoins..MaxCoins
                                    /\ base[u].bank \in -MaxCoins..(FirstBankMax + 1)

Start(t, cmd) == /\ cmd \in Commands
                 /\ task[t].pc = "idle"
                 /\ WithinBound

Send(t, cmd, u, pc, req, seen) ==
  /\ task' = [task EXCEPT ![t] = [pc |-> pc, cmd |-> cmd, user |-> u,
                                  req |-> req, seen |-> seen,
                                  said |-> "nothing"]]
  /\ UNCHANGED <<keys, base, unchecked, issued>>

\* co_await getbal(...): the caller has an item, and seen is a copy of it.
SendAfterRead(t, cmd, u, pc, req) ==
  /\ Start(t, cmd)
  /\ u \in keys
  /\ Send(t, cmd, u, pc, req, base[u])

SendUnread(t, cmd, u, pc, req) ==
  /\ Start(t, cmd)
  /\ Send(t, cmd, u, pc, req, Fresh)

Register(t, u) == SendUnread(t, "register", u, "post", NoRequest)

Unregister(t, u) == SendUnread(t, "unregister", u, "delete", NoRequest)

\* The owner adds any amount to anybody's wallet; nothing is read first.  The
\* target's name is asked of Discord before: when that fails, the coroutine
\* throws, sends no request and gives no answer, and that is no step.
GiveMoney(t, u) ==
  \E n \in GibAmounts : SendUnread(t, "gib", Owner, "patch", Increment(u, n, 0))

\* The draw is multiplied by 1 + multi/100, where multi counts 100 for each
\* celery: with two celeries owed it is negative.
Beg(t, u) ==
  \E n \in BegAmounts : SendAfterRead(t, "beg", u, "patch", Increment(u, n, 0))

\* A lucky miner earns, an unlucky one without a pass loses the wallet.
Mine(t, u) ==
  \/ \E n \in MineAmounts :
       SendAfterRead(t, "mine", u, "patch", Increment(u, n, 0))
  \/ SendAfterRead(t, "mine", u, "patch", Wipe(u))

BankBuyOnCredit(t, u) ==  \* mutant: the wallet is not looked at
  \E type \in 1..3 : /\ base[u].bank_type # type
                     /\ SendAfterRead(t, "bank", u, "patch",
                                      BuyType(u, Price[type], type))

BankBuy(t, u) ==
  LET a == base[u]
      buy(price, type) ==
        SendAfterRead(t, "bank", u, "patch", BuyType(u, price, type)) IN
  \/ a.bank_type \notin {0, 4} /\ buy(0, 0)
  \/ a.bank_type # 4 /\ a.bal >= 1 /\ buy(0, 4)
  \/ \E type \in 1..3 : /\ a.bank_type # type
                        /\ a.bal >= Price[type]
                        /\ buy(Price[type], type)

\* The bank's own restriction on a deposit of d coins.
BankAccepts(type, d) == /\ type = 1 => d <= PremiumMax
                        /\ type = 2 => d >= RoyalMin

DepositUnlimited(t, u) == \* mutant: the limits of the bank types are forgotten
  \E n \in Amounts :
    LET a == base[u]
        d == Asked(n, IF a.bal > Room(a) THEN Room(a) ELSE a.bal) IN
    /\ n > 0 \/ n = -1
    /\ a.bal >= d /\ Room(a) >= d /\ a.bal # 0
    /\ SendAfterRead(t, "deposit", u, "patch", Increment(u, -d, d))

Deposit(t, u) ==
  \E n \in Amounts :
    LET a == base[u]
        d == Asked(n, IF a.bal > Room(a) THEN Room(a) ELSE a.bal)
        kept == IF a.bank_type = 4 THEN Quotient(d, 2) ELSE d IN
    /\ n > 0 \/ n = -1
    /\ a.bal >= d /\ Room(a) >= d /\ a.bal # 0
    /\ BankAccepts(a.bank_type, d)
    /\ \/ SendAfterRead(t, "deposit", u, "patch", Increment(u, -d, kept))
       \/ /\ a.bank_type = 3    \* one in twenty is robbed on the way
          /\ SendAfterRead(t, "deposit", u, "patch", Increment(u, -d, 0))

WithdrawTyped(t, u) ==    \* mutant: takes what was typed, not what was meant
  \E n \in Amounts :
    LET a == base[u]
        w == Asked(n, a.bank) IN
    /\ n > 0 \/ n = -1
    /\ a.bank >= w /\ a.bank # 0
    /\ SendAfterRead(t, "withdraw", u, "patch", Increment(u, w, -n))

Withdraw(t, u) ==
  \E n \in Amounts :
    LET a == base[u]
        w == Asked(n, a.bank) IN
    /\ n > 0 \/ n = -1
    /\ a.bank >= w /\ a.bank # 0
    /\ SendAfterRead(t, "withdraw", u, "patch", Increment(u, w, -w))

ShareAny(t, u) ==         \* mutant: any integer may be shared
  \E v \in Users \ {u}, n \in Amounts :
    LET a == base[u]
        n1 == Asked(n, a.bal)
        n2 == IF u \in Pog THEN n1 ELSE Taxed(n1) IN
    /\ IF n = -1 THEN a.bal # 0 ELSE a.bal >= n
    /\ SendAfterRead(t, "share", u, "credit", Increment(v, n2, 0))

\* The amount that reaches v; the sender is debited the same amount later.
Share(t, u) ==
  \E v \in Users \ {u}, n \in Amounts :
    LET a == base[u]
        n1 == Asked(n, a.bal)
        n2 == IF u \in Pog THEN n1 ELSE Taxed(n1) IN
    /\ n > 0 \/ n = -1
    /\ IF n = -1 THEN a.bal # 0 ELSE a.bal >= n
    /\ SendAfterRead(t, "share", u, "credit", Increment(v, n2, 0))
---------------------------------------------------------------------------
(* The request in flight is executed, and the coroutine resumes.           *)

\* History: is what the request takes away, or fills up, still there as the
\* handler saw it?  gib, beg and mine look at nothing.
Covered(f) ==
  LET r == f.req
      a == base[r.key] IN
  /\ r.bal < 0 => /\ f.cmd \notin {"gib", "beg", "mine"}
                  /\ r.key = f.user => a.bal >= f.seen.bal
  /\ r.bank < 0 => a.bank >= f.seen.bank
  /\ r.bank > 0 => a.bank <= f.seen.bank

Observe(f) == unchecked' = (unchecked \/ (base' # base /\ ~Covered(f)))

Return(t, said) == task' = [task EXCEPT ![t] = Done(said)]

\* Every status but 409 is answered with "Registered."
RegisterReply(t) ==
  /\ task[t].pc = "post"
  /\ \E status \in {201, 409, NoAnswer} :
       /\ Post(task[t].user, status)
       /\ Return(t, IF status = 409 THEN "error" ELSE "ok")
  /\ UNCHANGED <<unchecked, issued>>

\* The status is not looked at: the answer is "Unregistered."
UnregisterReply(t) ==
  /\ task[t].pc = "delete"
  /\ \E status \in {200, NoAnswer} : Del(task[t].user, status)
  /\ Return(t, "ok")
  /\ UNCHANGED <<unchecked, issued>>

\* The commands that send one PATCH.
PatchReply(t) ==
  LET f == task[t]
      r == f.req IN
  /\ f.pc = "patch"
  /\ \E status \in {200, 404, NoAnswer} :
       /\ Patch(r, status)
       /\ Return(t, IF status = 200 THEN "ok" ELSE "error")
  /\ Observe(f)
  /\ issued' = issued + (base'[r.key].bal - base[r.key].bal)
                      + (base'[r.key].bank - base[r.key].bank)

CreditReplyUnread(t) ==   \* mutant: the status of the credit is not looked at
  LET f == task[t] IN
  /\ f.pc = "credit"
  /\ \E status \in {200, 404, NoAnswer} : Patch(f.req, status)
  /\ task' = [task EXCEPT ![t].pc = "debit",
                          ![t].req = Increment(f.user, -f.req.bal, 0)]
  /\ Observe(f)
  /\ UNCHANGED issued

CreditReplyRetries(t) ==  \* mutant: a credit without an answer is sent again
  LET f == task[t] IN
  /\ f.pc = "credit"
  /\ \E status \in {200, 404, NoAnswer} :
       /\ Patch(f.req, status)
       /\ CASE status = 200 ->
                 task' = [task EXCEPT ![t].pc = "debit",
                                      ![t].req = Increment(f.user, -f.req.bal, 0)]
            [] status = 404 -> Return(t, "error")
            [] OTHER -> task' = task
  /\ Observe(f)
  /\ UNCHANGED issued

\* share: only a credit that was answered with 200 is followed by the debit.
CreditReply(t) ==
  LET f == task[t] IN
  /\ f.pc = "credit"
  /\ \E status \in {200, 404, NoAnswer} :
       /\ Patch(f.req, status)
       /\ IF status = 200
          THEN task' = [task EXCEPT ![t].pc = "debit",
                                    ![t].req = Increment(f.user, -f.req.bal, 0)]
          ELSE Return(t, "error")
  /\ Observe(f)
  /\ UNCHANGED issued

\* share: the status of the debit is not looked at.
DebitReply(t) ==
  /\ task[t].pc = "debit"
  /\ \E status \in {200, 404, NoAnswer} : Patch(task[t].req, status)
  /\ Return(t, "ok")
  /\ Observe(task[t])
  /\ UNCHANGED issued

\* The process dies and is started again: the coroutines are gone.
Restart == /\ Faulty
           /\ task' = [t \in Tasks |-> Done("nothing")]
           /\ UNCHANGED <<keys, base, unchecked, issued>>

---------------------------------------------------------------------------
Command(t) == \E u \in Users :
  \/ Register(t, u) \/ Unregister(t, u) \/ GiveMoney(t, u)
  \/ Beg(t, u) \/ Mine(t, u) \/ BankBuy(t, u)
  \/ Deposit(t, u) \/ Withdraw(t, u) \/ Share(t, u)

Reply(t) == \/ RegisterReply(t) \/ UnregisterReply(t) \/ PatchReply(t)
            \/ CreditReply(t) \/ DebitReply(t)

Next == (\E t \in Tasks : Command(t) \/ Reply(t)) \/ Restart

Spec == Init /\ [][Next]_vars

---------------------------------------------------------------------------
(* Properties. *)

Solvent(u) == /\ base[u].bal >= 0
              /\ 0 <= base[u].bank /\ base[u].bank <= base[u].bank_max

\* Every wallet and bank stays within its limits as long as each request
\* finds what its handler saw: the checks of all commands, with their "-1"
\* and rounding cases, are complete, and debt has no other source than a
\* copy that went stale between read and write, or a gib, beg or mine of less
\* than nothing, which no handler checks.
SolventUnlessUnchecked == ~unchecked => \A u \in Users : Solvent(u)

Coins == SumFunction([u \in Users |-> base[u].bal + base[u].bank])
Undebited == SumFunction([t \in Tasks |-> IF task[t].pc = "debit"
                                          THEN -task[t].req.bal ELSE 0])

\* What a handler puts into its request can be paid from the item it saw:
\* a wallet is charged by its owner's commands only and never more than was
\* in it, a bank neither goes below zero nor beyond its limit.
Backed(f) ==
  LET r == f.req IN
  /\ f.seen.bank_max = FirstBankMax
  /\ f.pc \in {"patch", "debit"} /\ f.cmd # "gib" =>
       r.key = f.user /\ (f.cmd \notin {"beg", "mine"} => f.seen.bal + r.bal >= 0)
  /\ f.cmd = "gib" => r.bank = 0 /\ ~r.wipe
  /\ f.pc = "credit" => /\ f.cmd = "share" /\ r.bal \in 0..f.seen.bal
                        /\ r.bank = 0 /\ ~r.wipe
  /\ r.bank # 0 => f.seen.bank + r.bank \in 0..FirstBankMax

\* Every request in flight is payable, under the same proviso.
RequestsBacked == ~unchecked => \A t \in Tasks : Backed(task[t])

\* What the users hold beyond what the commands other than share issued
\* and the shares credited but not yet debited.
Drift == Coins - issued - Undebited

\* share, the only command that writes two items, creates and destroys no
\* coins, whatever commands run between its two requests.  The exceptions
\* are a credit that was executed but not answered with 200, and a debit
\* that is never executed because it or its coroutine is lost.
SharesConserve ==
  [][Drift' # Drift =>
       \E t \in Tasks :
         /\ task'[t].pc = "idle"
         /\ \/ task[t].pc = "credit" /\ task'[t].said = "error"
            \/ task[t].pc = "debit" /\ base' = base]_vars

\* When requests are lost and processes die between the two requests, the
\* credit has gone first, so users gain coins and never lose any, as long as
\* each request finds what its handler saw.  (Who shares "all" of a debt that
\* a stale copy caused is credited by the debit, and its loss costs coins.)
SharesNeverLose == ~unchecked => Drift >= 0

\* The request of f is executed, or lost, in this step, and it is u's item
\* that the request names.
Resumes(t, u) == task'[t] # task[t] /\ task[t].pc # "idle" /\ task[t].req.key = u

\* The commands of other users lower what a user holds in two ways only: the
\* owner gives a negative amount, or somebody shares "all" of a wallet that
\* is in debt.  Every other loss is due to a command of the user.
OnlyOwnCommandsSpend ==
  [][\A u \in Users :
       base'[u].bal + base'[u].bank < base[u].bal + base[u].bank =>
         \E t \in Tasks :
           LET f == task[t] IN
           /\ Resumes(t, u)
           /\ \/ f.user = u
              \/ f.cmd = "gib" /\ f.req.bal < 0
              \/ f.cmd = "share" /\ f.seen.bal < 0]_vars

\* A deposit of "all" a wallet in debt or a bank beyond its limit has: less
\* than nothing.
DepositsDebt(f) == /\ f.cmd = "deposit"
                   /\ f.seen.bal < 0 \/ f.seen.bank > f.seen.bank_max

\* Besides beg, mine and gib only a deposit of a debt creates coins: a USSR
\* bank is charged half of what the wallet gets, rounded, and a meme bank that
\* is robbed of a debt nothing.  No withdrawal, no purchase, no other deposit
\* does, whatever was changed while its request was on its way.
OnlyFaucetsMint ==
  [][issued' > issued =>
       \E t \in Tasks :
         LET f == task[t] IN
         /\ task'[t] # f
         /\ \/ f.cmd \in {"beg", "mine", "gib"}
            \/ DepositsDebt(f) /\ f.seen.bank_type \in {3, 4}]_vars

\* A premium bank takes at most 200 coins at once and a royal bank no less
\* than 2500, also less than nothing; a bank that became another one while
\* the deposit was on its way obeys the limits of the type it had.
LimitsAsSeen ==
  [][\A t \in Tasks :
       LET f == task[t]
           gain == base'[f.user].bank - base[f.user].bank IN
       f.cmd = "deposit" /\ task'[t] # f /\ gain # 0
         => BankAccepts(f.seen.bank_type, gain)]_vars

\* Every debt has one of four causes: a command of the user that had seen more
\* coins than are left, a gib, beg or mine of less than nothing, a share of
\* "all" of another debt, or a withdrawal of "all" from a bank in debt.  No
\* check of a command lets a request through that overdraws what it saw.
DebtsHaveCauses ==
  [][\A u \in Users :
       base'[u].bal < 0 /\ base'[u].bal < base[u].bal =>
         \E t \in Tasks :
           LET f == task[t] IN
           /\ Resumes(t, u)
           /\ \/ f.user = u /\ f.seen.bal > base[u].bal
              \/ f.cmd \in {"gib", "beg", "mine"} /\ f.req.bal < 0
              \/ f.pc = "credit" /\ f.seen.bal < 0
              \/ f.cmd = "withdraw" /\ f.seen.bank < 0]_vars

---------------------------------------------------------------------------
(* What messages of the program promise, and the code does not keep.       *)

\* currency.cpp:413 and :759 refuse to spend more than the wallet holds.
NoOverdraft == \A u \in Users : base[u].bal >= 0

\* currency.cpp:376: "(there is no going back)" from the USSR bank.
UssrIsForever ==
  [][\A u \in Users : base[u].bank_type = 4 => base'[u].bank_type = 4]_vars

\* currency.cpp:33: "Unregistered." is said of a user without an item.
UnregisteredIsGone ==
  [][\A t \in Tasks :
       task[t].pc = "delete" /\ task'[t].said = "ok"
         => task[t].user \notin keys']_vars

\* currency.cpp:25: "Registered." is said of a user with an item.
RegisteredIsStored ==
  [][\A t \in Tasks :
       task[t].pc = "post" /\ task'[t].said = "ok"
         => task[t].user \in keys']_vars

\* currency.cpp:323: "Database request failure, you are not charged."
FailureIsFree ==
  [][\A t \in Tasks :
       task[t].cmd = "bank" /\ task'[t].said = "error"
         => base'[task[t].user].bal = base[task[t].user].bal]_vars

\* currency.cpp:769: coins are shared "after a 15% tax rate", so a sender
\* without the badge pays more than the receiver gets.
ShareIsTaxed ==
  [][\A t \in Tasks :
       task[t].pc = "credit" /\ task'[t].pc = "debit" /\ task[t].user \notin Pog
         => -task'[t].req.bal > task[t].req.bal]_vars

\* currency.cpp:741: "Share at least 1 coin bro".
ShareMovesCoins ==
  \A t \in Tasks : task[t].pc = "credit" => task[t].req.bal >= 1

\* currency.cpp:253 and :262: "Every deposit must be lower than 200" with a
\* premium bank, and "higher than 2500" with a royal one; the checks at :425
\* and :428 take exactly 200 and exactly 2500.
DepositsAsAdvertised ==
  [][\A u \in Users :
       LET gain == base'[u].bank - base[u].bank IN
       gain > 0 => /\ base[u].bank_type = 1 => gain < PremiumMax
                   /\ base[u].bank_type = 2 => gain > RoyalMin]_vars

\* currency.cpp:426: "You cannot deposit more than 200 with premium bank!"
PremiumCap ==
  [][\A u \in Users :
       base[u].bank_type = 1 => base'[u].bank - base[u].bank <= PremiumMax]_vars
===========================================================================
