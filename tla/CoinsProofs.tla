---------------------------- MODULE CoinsProofs ----------------------------
(***************************************************************************)
(* Proofs about Coins, for any number of users and coroutines, any amounts *)
(* and prices.  The invariant IInv is inductive: TypeOK, the item of a     *)
(* user without one is the placeholder, bank_max never moves, and, until a *)
(* request has met an item that changed under it (unchecked), every item   *)
(* is solvent and every request in flight is payable from the copy its     *)
(* handler saw (RequestsBacked).  Solvency alone is not inductive: a       *)
(* request already in flight decides on the next state.                    *)
(*                                                                         *)
(* What is said of single steps, whether or not a copy was stale, and of    *)
(* the coins of all users, rests on a second invariant, FramesShaped: which *)
(* command has which request in flight, and what its checks left of it.    *)
(* The sums over all users are those of Arithmetic.                        *)
(***************************************************************************)
EXTENDS Coins, Arithmetic

USE DEF NoAnswer

Placeholders == \A u \in Users : u \notin keys => base[u] = Fresh

OneBankMax == \A u \in Users : base[u].bank_max = FirstBankMax

IInv == /\ TypeOK
        /\ Placeholders
        /\ OneBankMax
        /\ SolventUnlessUnchecked
        /\ RequestsBacked

---------------------------------------------------------------------------
(* The arithmetic of the handlers. *)

\* share: the taxed amount lies between nothing and the amount.
LEMMA TaxedBounds ==
  ASSUME NEW n \in Nat
  PROVE  Taxed(n) \in 0..n
BY DEF Taxed, Quotient

LEMMA TaxedInt ==
  ASSUME NEW n \in Int
  PROVE  Taxed(n) \in Int
BY DEF Taxed, Quotient

\* deposit: what the USSR bank keeps lies between nothing and the deposit.
LEMMA HalfBounds ==
  ASSUME NEW n \in Nat
  PROVE  Quotient(n, 2) \in 0..n
BY DEF Quotient

LEMMA HalfInt ==
  ASSUME NEW n \in Int
  PROVE  Quotient(n, 2) \in Int
BY DEF Quotient

---------------------------------------------------------------------------
(* The database and the frames keep their types. *)

LEMMA FreshType == Fresh \in Account
BY DetaAssumption DEF Fresh, Account, BankTypes

LEMMA IncrementType ==
  ASSUME NEW k \in Users, NEW n \in Int, NEW m \in Int
  PROVE  Increment(k, n, m) \in PatchRequest
BY DEF Increment, PatchRequest, Keep

LEMMA BuyType_Type ==
  ASSUME NEW k \in Users, NEW n \in Int, NEW type \in BankTypes
  PROVE  BuyType(k, n, type) \in PatchRequest
BY DEF BuyType, PatchRequest, Keep

LEMMA WipeType ==
  ASSUME NEW k \in Users
  PROVE  Wipe(k) \in PatchRequest
BY DEF Wipe, PatchRequest, Keep

\* Db::patch keeps an item an item, and does not touch bank_max.
LEMMA PatchedType ==
  ASSUME NEW a \in Account, NEW r \in PatchRequest
  PROVE  /\ Patched(a, r) \in Account
         /\ Patched(a, r).bal = IF r.wipe THEN 0 ELSE a.bal + r.bal
         /\ Patched(a, r).bank = a.bank + r.bank
         /\ Patched(a, r).bank_max = a.bank_max
<1>1. /\ a.bal \in Int /\ a.bank \in Int /\ a.bank_max \in Int
      /\ a.bank_type \in BankTypes
  BY DEF Account
<1>2. r.bal \in Int /\ r.bank \in Int /\ r.bank_type \in BankTypes \cup {Keep}
  BY DEF PatchRequest
<1>3. (IF r.wipe THEN 0 ELSE a.bal + r.bal) \in Int
  <2>1. a.bal + r.bal \in Int
    BY <1>1, <1>2
  <2> QED BY <2>1
<1>4. (IF r.bank_type = Keep THEN a.bank_type ELSE r.bank_type) \in BankTypes
  BY <1>1, <1>2
<1>5. a.bank + r.bank \in Int
  BY <1>1, <1>2
<1>6. Patched(a, r) \in Account
  BY <1>1, <1>3, <1>4, <1>5, Zenon DEF Patched, Account
<1> QED BY <1>6, Zenon DEF Patched

LEMMA DoneType ==
  ASSUME NEW said \in {"nothing", "ok", "error"}
  PROVE  Done(said) \in Frame
BY FreshType, IncrementType, CoinsAssumption
DEF Done, Frame, NoRequest, AllCommands

\* A patch changes at most the item it names, and only one that exists.
LEMMA PatchEffect ==
  ASSUME TypeOK, NEW r \in PatchRequest, NEW status, Patch(r, status)
  PROVE  /\ keys' = keys
         /\ \/ base' = base
            \/ /\ r.key \in keys
               /\ base' = [base EXCEPT ![r.key] = Patched(@, r)]
         /\ base' \in [Users -> Account]
<1>1. r.key \in Users
  BY DEF PatchRequest
<1>2. keys' = keys /\ (\/ base' = base
                       \/ /\ r.key \in keys
                          /\ base' = [base EXCEPT ![r.key] = Patched(@, r)])
  BY DEF Patch
<1>3. base \in [Users -> Account]
  BY DEF TypeOK
<1>4. Patched(base[r.key], r) \in Account
  BY <1>1, <1>3, PatchedType
<1>5. base' \in [Users -> Account]
  BY <1>1, <1>2, <1>3, <1>4
<1> QED BY <1>2, <1>5

\* A post touches only the placeholder of a user without an item.
LEMMA PostEffect ==
  ASSUME TypeOK, NEW k \in Users, NEW status, Post(k, status)
  PROVE  /\ keys \subseteq keys' /\ keys' \subseteq Users
         /\ \/ base' = base
            \/ /\ k \notin keys /\ k \in keys'
               /\ base' = [base EXCEPT ![k] = Fresh]
         /\ base' \in [Users -> Account]
BY FreshType DEF Post, TypeOK, db

\* The key a delete names is nobody's: no registration is ever undone.
LEMMA DelEffect ==
  ASSUME TypeOK, NEW u \in Users, NEW status, Del(u, status)
  PROVE  keys' = keys /\ base' = base
<1>1. DelKey(u) \notin keys
  BY DetaAssumption DEF TypeOK
<1> QED BY <1>1 DEF Del, db

---------------------------------------------------------------------------
(* Starting a command preserves the invariant. *)

LEMMA InitInv == Init => IInv
<1> SUFFICES ASSUME Init PROVE IInv
  OBVIOUS
<1> USE DEF Init
<1>1. \A t \in Tasks : task[t] = Done("nothing") /\ task[t] \in Frame
  BY DoneType
<1>2. TypeOK
  <2>1. base \in [Users -> Account] /\ task \in [Tasks -> Frame]
    BY FreshType, DoneType
  <2>2. keys \subseteq Users /\ issued \in Int
    OBVIOUS
  <2>3. unchecked \in BOOLEAN
    BY Zenon
  <2> QED BY <2>1, <2>2, <2>3 DEF TypeOK
<1>3. Placeholders /\ OneBankMax
  BY DEF Placeholders, OneBankMax, Fresh
<1>4. SolventUnlessUnchecked
  <2>1. ASSUME NEW u \in Users PROVE Solvent(u)
    <3>1. base[u] = Fresh
      OBVIOUS
    <3>2. base[u].bal = 0 /\ base[u].bank = 0 /\ base[u].bank_max = FirstBankMax
      BY <3>1, Zenon DEF Fresh
    <3> HIDE DEF Init
    <3> QED BY <3>2, DetaAssumption DEF Solvent
  <2> QED BY <2>1 DEF SolventUnlessUnchecked
<1>5. Backed(Done("nothing"))
  BY DEF Backed, Done, NoRequest, Increment, Fresh
<1>6. RequestsBacked
  BY <1>1, <1>5 DEF RequestsBacked
<1> QED BY <1>2, <1>3, <1>4, <1>6 DEF IInv

\* A new frame in one slot, the base as it was.
LEMMA NewFrame ==
  ASSUME IInv, NEW t \in Tasks, NEW f \in Frame,
         ~unchecked => Backed(f),
         task' = [task EXCEPT ![t] = f],
         UNCHANGED <<keys, base, unchecked, issued>>
  PROVE  IInv'
<1> USE DEF IInv
<1>1. \A s \in Tasks : task'[s] = IF s = t THEN f ELSE task[s]
  BY DEF TypeOK
<1>2. TypeOK'
  BY DEF TypeOK
<1>3. Placeholders' /\ OneBankMax' /\ SolventUnlessUnchecked'
  BY DEF Placeholders, OneBankMax, SolventUnlessUnchecked, Solvent
<1>4. RequestsBacked'
  <2> SUFFICES ASSUME ~unchecked', NEW s \in Tasks PROVE Backed(task'[s])
    BY DEF RequestsBacked, Backed
  <2>1. CASE s = t
    BY <2>1, <1>1
  <2>2. CASE s # t
    BY <2>2, <1>1 DEF RequestsBacked
  <2> QED BY <2>1, <2>2
<1> QED BY <1>2, <1>3, <1>4

\* The frame Send puts into the slot.
FrameOf(cmd, u, pc, req, seen) ==
  [pc |-> pc, cmd |-> cmd, user |-> u, req |-> req, seen |-> seen,
   said |-> "nothing"]

LEMMA SendStep ==
  ASSUME IInv, NEW t \in Tasks, NEW cmd \in AllCommands, NEW u \in Users,
         NEW pc \in {"post", "delete", "patch", "credit"},
         NEW req \in PatchRequest, NEW seen \in Account,
         ~unchecked => Backed(FrameOf(cmd, u, pc, req, seen)),
         Send(t, cmd, u, pc, req, seen)
  PROVE  IInv'
<1>1. FrameOf(cmd, u, pc, req, seen) \in Frame
  BY DEF FrameOf, Frame
<1>2. task' = [task EXCEPT ![t] = FrameOf(cmd, u, pc, req, seen)]
  BY DEF Send, FrameOf
<1>3. UNCHANGED <<keys, base, unchecked, issued>>
  BY DEF Send
<1> QED BY <1>1, <1>2, <1>3, NewFrame

\* A command that reads the caller's item and patches the same item backs
\* its request when the checks left enough in the copy.
LEMMA PatchSent ==
  ASSUME IInv, NEW t \in Tasks, NEW cmd \in AllCommands \ {"gib"},
         NEW u \in Users, NEW req \in PatchRequest, req.key = u,
         ~unchecked =>
           /\ cmd \notin {"beg", "mine"} => base[u].bal + req.bal >= 0
           /\ req.bank # 0 => base[u].bank + req.bank \in 0..base[u].bank_max,
         SendAfterRead(t, cmd, u, "patch", req)
  PROVE  IInv'
<1>1. base[u] \in Account /\ base[u].bank_max = FirstBankMax
  BY DEF IInv, TypeOK, OneBankMax
<1>2. ~unchecked => Backed(FrameOf(cmd, u, "patch", req, base[u]))
  BY <1>1 DEF Backed, FrameOf
<1> QED BY <1>1, <1>2, SendStep DEF SendAfterRead

\* Requests that were sent without a read take nothing, or are a gib.
LEMMA UnreadSent ==
  ASSUME IInv, NEW t \in Tasks, NEW cmd \in {"register", "unregister", "gib"},
         NEW u \in Users, NEW pc \in {"post", "delete", "patch"},
         pc = "patch" => cmd = "gib",
         NEW k \in Users, NEW n \in Int,
         SendUnread(t, cmd, u, pc, Increment(k, n, 0))
  PROVE  IInv'
<1>1. Backed(FrameOf(cmd, u, pc, Increment(k, n, 0), Fresh))
  BY DEF Backed, FrameOf, Increment, Fresh
<1>2. cmd \in AllCommands
  BY DEF AllCommands
<1> QED BY <1>1, <1>2, FreshType, IncrementType, SendStep DEF SendUnread

LEMMA RegisterStep ==
  ASSUME IInv, NEW t \in Tasks, NEW u \in Users, Register(t, u)
  PROVE  IInv'
BY UnreadSent, CoinsAssumption DEF Register, NoRequest

LEMMA UnregisterStep ==
  ASSUME IInv, NEW t \in Tasks, NEW u \in Users, Unregister(t, u)
  PROVE  IInv'
BY UnreadSent, CoinsAssumption DEF Unregister, NoRequest

LEMMA GiveMoneyStep ==
  ASSUME IInv, NEW t \in Tasks, NEW u \in Users, GiveMoney(t, u)
  PROVE  IInv'
<1> PICK n \in GibAmounts :
      SendUnread(t, "gib", Owner, "patch", Increment(u, n, 0))
  BY DEF GiveMoney
<1> QED BY UnreadSent, CoinsAssumption

\* What the invariant says of the copy a handler gets.
LEMMA Copy ==
  ASSUME IInv, NEW u \in Users
  PROVE  /\ base[u].bal \in Int /\ base[u].bank \in Int
         /\ base[u].bank_max \in Int /\ base[u].bank_type \in BankTypes
         /\ base[u].bank_max = FirstBankMax
         /\ ~unchecked => /\ base[u].bal >= 0
                          /\ base[u].bank \in 0..base[u].bank_max
<1>1. base[u] \in Account
  BY DEF IInv, TypeOK
<1>2. ~unchecked => Solvent(u)
  BY DEF IInv, SolventUnlessUnchecked
<1> QED BY <1>1, <1>2 DEF Account, Solvent, IInv, OneBankMax

\* A request that leaves the bank alone and is not checked.
LEMMA EarnStep ==
  ASSUME IInv, NEW t \in Tasks, NEW u \in Users, NEW cmd \in {"beg", "mine"},
         NEW n \in Int, SendAfterRead(t, cmd, u, "patch", Increment(u, n, 0))
  PROVE  IInv'
<1>1. Increment(u, n, 0) \in PatchRequest
  BY IncrementType
<1>2. /\ Increment(u, n, 0).key = u /\ Increment(u, n, 0).bal = n
      /\ Increment(u, n, 0).bank = 0
  BY DEF Increment
<1>3. cmd \in AllCommands \ {"gib"}
  BY DEF AllCommands
<1> QED BY <1>1, <1>2, <1>3, Copy, PatchSent

LEMMA BegStep ==
  ASSUME IInv, NEW t \in Tasks, NEW u \in Users, Beg(t, u)
  PROVE  IInv'
BY EarnStep, CoinsAssumption DEF Beg

LEMMA MineStep ==
  ASSUME IInv, NEW t \in Tasks, NEW u \in Users, Mine(t, u)
  PROVE  IInv'
<1>1. CASE \E n \in MineAmounts :
             SendAfterRead(t, "mine", u, "patch", Increment(u, n, 0))
  BY <1>1, EarnStep, CoinsAssumption
<1>2. CASE SendAfterRead(t, "mine", u, "patch", Wipe(u))
  <2>1. Wipe(u) \in PatchRequest /\ Wipe(u).key = u /\ Wipe(u).bal = 0
        /\ Wipe(u).bank = 0
    BY WipeType, Zenon DEF Wipe
  <2>2. "mine" \in AllCommands \ {"gib"}
    BY DEF AllCommands
  <2> QED BY <1>2, <2>1, <2>2, Copy, PatchSent
<1> QED BY <1>1, <1>2 DEF Mine

LEMMA BankBuyStep ==
  ASSUME IInv, NEW t \in Tasks, NEW u \in Users, BankBuy(t, u)
  PROVE  IInv'
<1>1. PICK price \in Nat, type \in BankTypes :
        /\ price = 0 \/ base[u].bal >= price
        /\ SendAfterRead(t, "bank", u, "patch", BuyType(u, price, type))
  <2>1. CASE SendAfterRead(t, "bank", u, "patch", BuyType(u, 0, 0))
    BY <2>1 DEF BankTypes
  <2>2. CASE SendAfterRead(t, "bank", u, "patch", BuyType(u, 0, 4))
    BY <2>2 DEF BankTypes
  <2>3. CASE \E type \in 1..3 :
               /\ base[u].bal >= Price[type]
               /\ SendAfterRead(t, "bank", u, "patch",
                                BuyType(u, Price[type], type))
    BY <2>3, CoinsAssumption DEF BankTypes
  <2> QED BY <2>1, <2>2, <2>3 DEF BankBuy
<1>2. BuyType(u, price, type) \in PatchRequest
  BY BuyType_Type
<1>3. /\ BuyType(u, price, type).key = u /\ BuyType(u, price, type).bal = -price
      /\ BuyType(u, price, type).bank = 0
  BY DEF BuyType
<1>4. "bank" \in AllCommands \ {"gib"}
  BY DEF AllCommands
<1> QED BY <1>1, <1>2, <1>3, <1>4, Copy, PatchSent

\* deposit: no case takes more than the wallet or overfills the bank.
LEMMA DepositStep ==
  ASSUME IInv, NEW t \in Tasks, NEW u \in Users, Deposit(t, u)
  PROVE  IInv'
<1> DEFINE a == base[u]
           d(n) == Asked(n, IF a.bal > Room(a) THEN Room(a) ELSE a.bal)
           kept(n) == IF a.bank_type = 4 THEN Quotient(d(n), 2) ELSE d(n)
<1>0. PICK n \in Amounts :
        /\ n > 0 \/ n = -1
        /\ a.bal >= d(n) /\ Room(a) >= d(n)
        /\ \E m \in {0, kept(n)} :
             SendAfterRead(t, "deposit", u, "patch", Increment(u, -d(n), m))
  BY DEF Deposit
<1>1. PICK k \in {0, kept(n)} :
        SendAfterRead(t, "deposit", u, "patch", Increment(u, -d(n), k))
  BY <1>0
<1>2. n \in Int /\ d(n) \in Int /\ (n # -1 => d(n) = n)
  BY Copy, CoinsAssumption DEF Asked, Room
<1>3. kept(n) \in Int /\ k \in Int
  BY <1>2, HalfInt
<1>4. ~unchecked => d(n) \in Nat
  BY <1>0, <1>2, Copy DEF Asked, Room
<1>5. ~unchecked => k \in 0..d(n)
  BY <1>4, HalfBounds
<1> HIDE DEF d, kept
<1>6. Increment(u, -d(n), k) \in PatchRequest
  BY <1>2, <1>3, IncrementType
<1>7. /\ Increment(u, -d(n), k).key = u /\ Increment(u, -d(n), k).bal = -d(n)
      /\ Increment(u, -d(n), k).bank = k
  BY DEF Increment
<1>8. ~unchecked => /\ a.bal + -d(n) >= 0
                   /\ a.bank + k \in 0..a.bank_max
  BY <1>0, <1>2, <1>3, <1>4, <1>5, Copy DEF Room
<1>9. "deposit" \in AllCommands \ {"gib"}
  BY DEF AllCommands
<1> QED BY <1>1, <1>6, <1>7, <1>8, <1>9, PatchSent

LEMMA WithdrawStep ==
  ASSUME IInv, NEW t \in Tasks, NEW u \in Users, Withdraw(t, u)
  PROVE  IInv'
<1> DEFINE a == base[u]
           w(n) == Asked(n, a.bank)
<1>1. PICK n \in Amounts :
        /\ n > 0 \/ n = -1
        /\ a.bank >= w(n)
        /\ SendAfterRead(t, "withdraw", u, "patch", Increment(u, w(n), -w(n)))
  BY DEF Withdraw
<1>2. w(n) \in Int /\ (~unchecked => w(n) \in 0..a.bank)
  BY <1>1, Copy, CoinsAssumption DEF Asked
<1> HIDE DEF w
<1>3. Increment(u, w(n), -w(n)) \in PatchRequest
  BY <1>2, IncrementType
<1>4. /\ Increment(u, w(n), -w(n)).key = u /\ Increment(u, w(n), -w(n)).bal = w(n)
      /\ Increment(u, w(n), -w(n)).bank = -w(n)
  BY DEF Increment
<1>5. ~unchecked => /\ a.bal + w(n) >= 0
                   /\ a.bank + -w(n) \in 0..a.bank_max
  BY <1>2, Copy
<1>6. "withdraw" \in AllCommands \ {"gib"}
  BY DEF AllCommands
<1> QED BY <1>1, <1>3, <1>4, <1>5, <1>6, PatchSent

\* share: what reaches the receiver is no more than the sender was seen with.
LEMMA ShareStep ==
  ASSUME IInv, NEW t \in Tasks, NEW u \in Users, Share(t, u)
  PROVE  IInv'
<1> DEFINE a == base[u]
           n1(n) == Asked(n, a.bal)
           n2(n) == IF u \in Pog THEN n1(n) ELSE Taxed(n1(n))
<1>1. PICK v \in Users, n \in Amounts :
        /\ n > 0 \/ n = -1
        /\ IF n = -1 THEN a.bal # 0 ELSE a.bal >= n
        /\ SendAfterRead(t, "share", u, "credit", Increment(v, n2(n), 0))
  BY DEF Share
<1>2. n1(n) \in Int /\ (~unchecked => n1(n) \in 0..a.bal)
  BY <1>1, Copy, CoinsAssumption DEF Asked
<1>3. n2(n) \in Int
  BY <1>2, TaxedInt
<1>4. ~unchecked => n2(n) \in 0..a.bal
  <2> SUFFICES ASSUME ~unchecked PROVE n2(n) \in 0..a.bal
    OBVIOUS
  <2>1. n1(n) \in Nat /\ n1(n) <= a.bal
    BY <1>2, Copy
  <2>2. Taxed(n1(n)) \in 0..n1(n)
    BY <2>1, TaxedBounds
  <2> QED BY <2>1, <2>2, Copy
<1> HIDE DEF n1, n2
<1>5. Increment(v, n2(n), 0) \in PatchRequest
  BY <1>3, IncrementType
<1>6. ~unchecked =>
        Backed(FrameOf("share", u, "credit", Increment(v, n2(n), 0), a))
  BY <1>4, Copy DEF Backed, FrameOf, Increment
<1>7. "share" \in AllCommands /\ a \in Account
  BY DEF AllCommands, IInv, TypeOK
<1> QED BY <1>1, <1>5, <1>6, <1>7, SendStep DEF SendAfterRead

---------------------------------------------------------------------------
(* Executing a request preserves the invariant. *)

\* The request of a frame that is backed leaves its item solvent, provided
\* it finds what its handler saw.
LEMMA CoveredPatch ==
  ASSUME IInv, NEW t \in Tasks, ~unchecked,
         task[t].pc \in {"patch", "credit", "debit"},
         Covered(task[t])
  PROVE  LET r == task[t].req
             b == Patched(base[r.key], r)
         IN  b.bal >= 0 /\ b.bank \in 0..b.bank_max
<1> DEFINE f == task[t]
           r == f.req
           a == base[r.key]
<1>1. f \in Frame /\ Backed(f)
  BY DEF IInv, TypeOK, RequestsBacked
<1>2. r \in PatchRequest /\ f.seen \in Account /\ r.key \in Users
  BY <1>1 DEF Frame, PatchRequest
<1>3. a \in Account
  BY <1>2 DEF IInv, TypeOK
<1>4. /\ r.bal \in Int /\ r.bank \in Int
      /\ f.seen.bal \in Int /\ f.seen.bank \in Int
  BY <1>2 DEF PatchRequest, Account
<1>5. /\ a.bal \in Int /\ a.bank \in Int /\ a.bank_max = FirstBankMax
      /\ a.bal >= 0 /\ a.bank \in 0..FirstBankMax
  BY <1>2, Copy
<1>6. /\ Patched(a, r).bal = IF r.wipe THEN 0 ELSE a.bal + r.bal
      /\ Patched(a, r).bank = a.bank + r.bank
      /\ Patched(a, r).bank_max = a.bank_max
  BY <1>2, <1>3, PatchedType, Zenon
<1>7. a.bal + r.bal >= 0
  <2>1. CASE r.bal >= 0
    BY <2>1, <1>4, <1>5
  <2>2. CASE r.bal < 0
    <3>1. /\ f.cmd \notin {"gib", "beg", "mine"}
          /\ r.key = f.user => a.bal >= f.seen.bal
      BY <2>2 DEF Covered
    <3>2. f.pc # "credit"
      BY <1>1, <1>4, <2>2 DEF Backed
    <3>3. r.key = f.user /\ f.seen.bal + r.bal >= 0
      BY <1>1, <3>1, <3>2 DEF Backed
    <3> QED BY <1>4, <1>5, <3>1, <3>3
  <2> QED BY <2>1, <2>2, <1>4
<1>8. a.bank + r.bank \in 0..FirstBankMax
  <2>1. /\ r.bank < 0 => a.bank >= f.seen.bank
        /\ r.bank > 0 => a.bank <= f.seen.bank
    BY DEF Covered
  <2>2. r.bank # 0 => f.seen.bank + r.bank \in 0..FirstBankMax
    BY <1>1 DEF Backed
  <2> QED BY <2>1, <2>2, <1>4, <1>5, DetaAssumption
<1> HIDE DEF r, a
<1>9. Patched(a, r).bal >= 0
  <2>1. 0 >= 0
    OBVIOUS
  <2> QED BY <1>6, <1>7, <2>1, Zenon
<1> QED BY <1>5, <1>6, <1>8, <1>9 DEF r, a

\* A slot gets a new frame, payable under the same proviso.
LEMMA FramesInv ==
  ASSUME IInv, NEW t \in Tasks, NEW f \in Frame,
         task' = [task EXCEPT ![t] = f],
         unchecked' \in BOOLEAN, ~unchecked' => ~unchecked /\ Backed(f)
  PROVE  task' \in [Tasks -> Frame] /\ RequestsBacked'
<1>1. task \in [Tasks -> Frame]
  BY DEF IInv, TypeOK
<1>2. \A s \in Tasks : task'[s] = IF s = t THEN f ELSE task[s]
  BY <1>1
<1>3. task' \in [Tasks -> Frame]
  BY <1>1
<1>4. ASSUME ~unchecked', NEW s \in Tasks PROVE Backed(task'[s])
  <2>1. CASE s = t
    BY <2>1, <1>2, <1>4
  <2>2. CASE s # t
    BY <2>2, <1>2, <1>4 DEF IInv, RequestsBacked
  <2> QED BY <2>1, <2>2
<1> QED BY <1>3, <1>4 DEF RequestsBacked, Backed

LEMMA PatchInv ==
  ASSUME IInv, NEW t \in Tasks, task[t].pc \in {"patch", "credit", "debit"},
         NEW status, Patch(task[t].req, status), Observe(task[t]),
         issued' \in Int, NEW f \in Frame,
         task' = [task EXCEPT ![t] = f], ~unchecked => Backed(f)
  PROVE  IInv'
<1> DEFINE r == task[t].req
           b == Patched(base[r.key], r)
<1>1. r \in PatchRequest /\ r.key \in Users
  BY DEF IInv, TypeOK, Frame, PatchRequest
<1>2. /\ keys' = keys
      /\ base' = base \/ (r.key \in keys /\ base' = [base EXCEPT ![r.key] = b])
      /\ base' \in [Users -> Account]
  BY <1>1, PatchEffect DEF IInv
<1>3. \A u \in Users : base'[u] = base[u] \/ (u = r.key /\ u \in keys /\ base'[u] = b)
  BY <1>2 DEF IInv, TypeOK
<1>4. unchecked' \in BOOLEAN
  BY DEF Observe
<1>5. /\ unchecked => unchecked'
      /\ ~unchecked' => base' = base \/ Covered(task[t])
  BY DEF Observe
<1>6. RequestsBacked' /\ task' \in [Tasks -> Frame]
  BY <1>4, <1>5, FramesInv
<1>7. TypeOK'
  BY <1>2, <1>4, <1>6 DEF IInv, TypeOK
<1>8. Placeholders'
  BY <1>2, <1>3 DEF IInv, Placeholders
<1>9. OneBankMax'
  <2>1. b.bank_max = base[r.key].bank_max
    BY <1>1, PatchedType, Zenon DEF IInv, TypeOK
  <2> QED BY <1>1, <1>3, <2>1 DEF IInv, OneBankMax
<1>10. SolventUnlessUnchecked'
  <2> SUFFICES ASSUME ~unchecked', NEW u \in Users PROVE Solvent(u)'
    BY DEF SolventUnlessUnchecked
  <2>1. CASE base'[u] = base[u]
    BY <2>1, <1>5 DEF IInv, SolventUnlessUnchecked, Solvent
  <2>2. CASE base'[u] # base[u]
    <3>1. u = r.key /\ base'[u] = b /\ base' # base
      BY <2>2, <1>3
    <3>2. b.bal >= 0 /\ b.bank \in 0..b.bank_max
      BY <1>5, <3>1, CoveredPatch
    <3> HIDE DEF b
    <3>3. base'[u] \in Account
      BY <1>2
    <3> QED BY <3>1, <3>2, <3>3 DEF Solvent, Account
  <2> QED BY <2>1, <2>2
<1> QED BY <1>6, <1>7, <1>8, <1>9, <1>10 DEF IInv

\* A coroutine that has returned has nothing to pay.
LEMMA DoneBacked ==
  ASSUME NEW said
  PROVE  Backed(Done(said))
BY DEF Backed, Done, NoRequest, Increment, Fresh

LEMMA PatchReplyStep ==
  ASSUME IInv, NEW t \in Tasks, PatchReply(t)
  PROVE  IInv'
<1> DEFINE r == task[t].req
<1>1. PICK status \in {200, 404, NoAnswer} :
        /\ Patch(r, status)
        /\ Return(t, IF status = 200 THEN "ok" ELSE "error")
  BY DEF PatchReply
<1>2. r \in PatchRequest /\ r.key \in Users
  BY DEF IInv, TypeOK, Frame, PatchRequest
<1>3. base' \in [Users -> Account] /\ base \in [Users -> Account]
  BY <1>1, <1>2, PatchEffect DEF IInv, TypeOK
<1>4. issued' \in Int
  <2>1. /\ base'[r.key].bal \in Int /\ base'[r.key].bank \in Int
        /\ base[r.key].bal \in Int /\ base[r.key].bank \in Int
        /\ issued \in Int
    BY <1>2, <1>3 DEF Account, IInv, TypeOK
  <2>2. issued' = issued + (base'[r.key].bal - base[r.key].bal)
                        + (base'[r.key].bank - base[r.key].bank)
    BY DEF PatchReply
  <2> QED BY <2>1, <2>2
<1>5. PICK said \in {"ok", "error"} : task' = [task EXCEPT ![t] = Done(said)]
  BY <1>1 DEF Return
<1>6. Done(said) \in Frame /\ Backed(Done(said))
  BY DoneType, DoneBacked
<1>7. task[t].pc = "patch" /\ Observe(task[t])
  BY DEF PatchReply
<1> QED BY <1>1, <1>4, <1>5, <1>6, <1>7, PatchInv

LEMMA DebitReplyStep ==
  ASSUME IInv, NEW t \in Tasks, DebitReply(t)
  PROVE  IInv'
<1>1. PICK status : Patch(task[t].req, status)
  BY DEF DebitReply
<1>2. /\ task' = [task EXCEPT ![t] = Done("ok")]
      /\ Done("ok") \in Frame /\ Backed(Done("ok"))
  BY DoneType, DoneBacked DEF DebitReply, Return
<1>3. task[t].pc = "debit" /\ Observe(task[t]) /\ issued' \in Int
  BY DEF DebitReply, IInv, TypeOK
<1> QED BY <1>1, <1>2, <1>3, PatchInv

\* The debit that follows a credit takes from the sender what the receiver
\* got, which the sender was seen with.
LEMMA CreditReplyStep ==
  ASSUME IInv, NEW t \in Tasks, CreditReply(t)
  PROVE  IInv'
<1> DEFINE f == task[t]
           owed == Increment(f.user, -f.req.bal, 0)
           g == [f EXCEPT !.pc = "debit", !.req = owed]
<1>1. f \in Frame /\ f.pc = "credit" /\ Observe(f) /\ issued' \in Int
  BY DEF CreditReply, IInv, TypeOK
<1>2. f.req \in PatchRequest /\ f.user \in Users /\ f.req.bal \in Int
  BY <1>1 DEF Frame, PatchRequest
<1>3. PICK status : /\ Patch(f.req, status)
                    /\ \/ task' = [task EXCEPT ![t].pc = "debit", ![t].req = owed]
                       \/ Return(t, "error")
  BY DEF CreditReply
<1>4. CASE Return(t, "error")
  <2>1. /\ task' = [task EXCEPT ![t] = Done("error")]
        /\ Done("error") \in Frame /\ Backed(Done("error"))
    BY <1>4, DoneType, DoneBacked DEF Return
  <2> QED BY <1>1, <1>3, <2>1, PatchInv
<1>5. CASE task' = [task EXCEPT ![t].pc = "debit", ![t].req = owed]
  <2>1. owed \in PatchRequest
    BY <1>2, IncrementType
  <2>2. /\ owed.key = f.user /\ owed.bal = -f.req.bal /\ owed.bank = 0
    BY DEF Increment
  <2> HIDE DEF owed
  <2>3. task' = [task EXCEPT ![t] = g]
    BY <1>5 DEF IInv, TypeOK
  <2>4. g \in Frame
    BY <1>1, <2>1 DEF Frame
  <2>5. ~unchecked => Backed(g)
    <3> SUFFICES ASSUME ~unchecked PROVE Backed(g)
      OBVIOUS
    <3>1. Backed(f)
      BY DEF IInv, RequestsBacked
    <3>2. /\ g.pc = "debit" /\ g.req = owed /\ g.seen = f.seen
          /\ g.cmd = f.cmd /\ g.user = f.user
      BY <1>1 DEF Frame
    <3>3. f.seen.bal \in Int /\ f.req.bal \in 0..f.seen.bal
          /\ f.seen.bank_max = FirstBankMax
      BY <1>1, <3>1 DEF Backed, Frame, Account
    <3>4. f.cmd = "share"
      BY <1>1, <3>1 DEF Backed
    <3> QED BY <1>2, <2>2, <3>1, <3>2, <3>3, <3>4 DEF Backed
  <2> QED BY <1>1, <1>3, <2>3, <2>4, <2>5, PatchInv
<1> QED BY <1>3, <1>4, <1>5

LEMMA RegisterReplyStep ==
  ASSUME IInv, NEW t \in Tasks, RegisterReply(t)
  PROVE  IInv'
<1> DEFINE k == task[t].user
<1>1. PICK status \in {201, 409, NoAnswer} :
        /\ Post(k, status)
        /\ Return(t, IF status = 409 THEN "error" ELSE "ok")
  BY DEF RegisterReply
<1>2. k \in Users
  BY DEF IInv, TypeOK, Frame
<1>3. /\ keys \subseteq keys' /\ keys' \subseteq Users
      /\ base' = base \/ (k \in keys' /\ base' = [base EXCEPT ![k] = Fresh])
      /\ base' \in [Users -> Account]
  BY <1>1, <1>2, PostEffect DEF IInv
<1>4. \A u \in Users : base'[u] = base[u] \/ (u \in keys' /\ base'[u] = Fresh)
  BY <1>2, <1>3 DEF IInv, TypeOK
<1>5. unchecked' = unchecked /\ issued' = issued
  BY DEF RegisterReply
<1>6. PICK said \in {"ok", "error"} : task' = [task EXCEPT ![t] = Done(said)]
  BY <1>1 DEF Return
<1>7. Done(said) \in Frame /\ Backed(Done(said)) /\ unchecked \in BOOLEAN
  BY DoneType, DoneBacked DEF IInv, TypeOK
<1>8. RequestsBacked' /\ task' \in [Tasks -> Frame]
  BY <1>5, <1>6, <1>7, FramesInv
<1>9. TypeOK'
  BY <1>3, <1>5, <1>8 DEF IInv, TypeOK
<1>10. Placeholders'
  BY <1>3, <1>4 DEF IInv, Placeholders
<1>11. OneBankMax'
  <2>1. Fresh.bank_max = FirstBankMax
    BY DEF Fresh
  <2> QED BY <1>4, <2>1 DEF IInv, OneBankMax
<1>12. SolventUnlessUnchecked'
  <2> SUFFICES ASSUME ~unchecked', NEW u \in Users PROVE Solvent(u)'
    BY DEF SolventUnlessUnchecked
  <2>1. CASE base'[u] = base[u]
    BY <2>1, <1>5 DEF IInv, SolventUnlessUnchecked, Solvent
  <2>2. CASE base'[u] = Fresh
    BY <2>2, DetaAssumption DEF Solvent, Fresh
  <2> QED BY <1>4, <2>1, <2>2
<1> QED BY <1>8, <1>9, <1>10, <1>11, <1>12 DEF IInv

LEMMA UnregisterReplyStep ==
  ASSUME IInv, NEW t \in Tasks, UnregisterReply(t)
  PROVE  IInv'
<1>1. PICK status : Del(task[t].user, status)
  BY DEF UnregisterReply
<1>2. keys' = keys /\ base' = base
  BY <1>1, DelEffect DEF IInv, TypeOK, Frame
<1>3. /\ task' = [task EXCEPT ![t] = Done("ok")]
      /\ Done("ok") \in Frame /\ Backed(Done("ok"))
  BY DoneType, DoneBacked DEF UnregisterReply, Return
<1> QED BY <1>2, <1>3, NewFrame DEF UnregisterReply

LEMMA RestartStep ==
  ASSUME IInv, Restart
  PROVE  IInv'
<1>1. \A t \in Tasks : task'[t] = Done("nothing") /\ task'[t] \in Frame
  BY DoneType DEF Restart
<1>2. task' \in [Tasks -> Frame]
  BY <1>1, DoneType DEF Restart
<1>3. RequestsBacked'
  BY <1>1, DoneBacked DEF RequestsBacked, Backed
<1>4. /\ keys' = keys /\ base' = base /\ unchecked' = unchecked
      /\ issued' = issued
  BY DEF Restart
<1>5. TypeOK'
  BY <1>2, <1>4 DEF IInv, TypeOK
<1> QED BY <1>3, <1>4, <1>5
        DEF IInv, Placeholders, OneBankMax, SolventUnlessUnchecked, Solvent

LEMMA StutterStep ==
  ASSUME IInv, UNCHANGED vars
  PROVE  IInv'
BY DEF vars, IInv, TypeOK, Placeholders, OneBankMax, SolventUnlessUnchecked,
       Solvent, RequestsBacked, Backed

---------------------------------------------------------------------------
(* The theorems. *)

LEMMA NextInv == IInv /\ [Next]_vars => IInv'
<1> SUFFICES ASSUME IInv, [Next]_vars PROVE IInv'
  OBVIOUS
<1>1. ASSUME NEW t \in Tasks, NEW u \in Users,
             \/ Register(t, u) \/ Unregister(t, u) \/ GiveMoney(t, u)
             \/ Beg(t, u) \/ Mine(t, u) \/ BankBuy(t, u)
             \/ Deposit(t, u) \/ Withdraw(t, u) \/ Share(t, u)
      PROVE  IInv'
  BY <1>1, RegisterStep, UnregisterStep, GiveMoneyStep, BegStep, MineStep,
     BankBuyStep, DepositStep, WithdrawStep, ShareStep
<1>2. ASSUME NEW t \in Tasks, Reply(t) PROVE IInv'
  BY <1>2, RegisterReplyStep, UnregisterReplyStep, PatchReplyStep,
     CreditReplyStep, DebitReplyStep DEF Reply
<1>3. CASE Restart
  BY <1>3, RestartStep
<1>4. CASE UNCHANGED vars
  BY <1>4, StutterStep
<1> QED BY <1>1, <1>2, <1>3, <1>4 DEF Next, Command

\* The strengthening is an invariant of the commands.
THEOREM Invariance == Spec => []IInv
<1>1. Init => IInv
  BY InitInv
<1>2. IInv /\ [Next]_vars => IInv'
  BY NextInv
<1> QED BY <1>1, <1>2, PTL DEF Spec

\* Items, frames and history keep their types through every command.
THEOREM TypeCorrect == Spec => []TypeOK
<1>1. IInv => TypeOK
  BY DEF IInv
<1> QED BY <1>1, Invariance, PTL

\* deposit, withdraw, bank buy, share and mine leave every wallet at zero or
\* more and every bank within its limit, for any amounts, prices and number
\* of coroutines, until a request meets an item that changed under it.
THEOREM Solvency == Spec => []SolventUnlessUnchecked
<1>1. IInv => SolventUnlessUnchecked
  BY DEF IInv
<1> QED BY <1>1, Invariance, PTL

\* Every request a handler sends is payable from the item it saw.
THEOREM Backing == Spec => []RequestsBacked
<1>1. IInv => RequestsBacked
  BY DEF IInv
<1> QED BY <1>1, Invariance, PTL

---------------------------------------------------------------------------
(* What the frames of single commands look like.  This invariant carries   *)
(* the action properties: it ties a request to the command that sent it,   *)
(* and holds whether or not the copy the command read was stale.           *)

\* Which command sends which request, and about whose item.
Shaped(f) ==
  LET r == f.req IN
  /\ f.pc = "idle" => f.cmd = "none"
  /\ f.pc = "patch" => f.cmd \in {"beg", "mine", "gib", "bank", "deposit", "withdraw"}
  /\ f.pc \in {"credit", "debit"} => f.cmd = "share" /\ r.bank = 0 /\ ~r.wipe
  /\ f.pc \in {"patch", "debit"} /\ f.cmd # "gib" => r.key = f.user
  /\ f.cmd \in {"gib", "beg"} => r.bank = 0 /\ ~r.wipe
  /\ f.cmd = "deposit" => f.pc = "patch"

\* Withdrawals and purchases are no gain, nor are deposits, but of a debt,
\* and what a bank gets its type accepts.
Frugal(f) ==
  LET r == f.req IN
  /\ f.cmd \in {"bank", "withdraw"} => ~r.wipe /\ r.bal + r.bank <= 0
  /\ f.cmd = "deposit" =>
       /\ ~r.wipe
       /\ r.bank # 0 => BankAccepts(f.seen.bank_type, r.bank)
       /\ r.bal + r.bank > 0 => DepositsDebt(f) /\ f.seen.bank_type \in {3, 4}

\* No request overdraws what its handler saw, but for "all" of a debt.
Affordable(f) ==
  LET r == f.req IN
  /\ f.cmd \in {"bank", "deposit"} /\ r.bal < 0 => f.seen.bal + r.bal >= 0
  /\ f.cmd = "withdraw" /\ r.bal < 0 => f.seen.bank < 0
  /\ f.pc = "credit" => /\ r.bal < 0 => f.seen.bal < 0
                        /\ r.bal > 0 => r.bal <= f.seen.bal
  /\ f.pc = "debit" /\ r.bal < 0 => f.seen.bal + r.bal >= 0

\* A debit is no gift.
Thrifty(f) == f.pc = "debit" => f.req.bal <= 0

FramesShaped == \A t \in Tasks : /\ Shaped(task[t])
                                 /\ Frugal(task[t])
                                 /\ Affordable(task[t])
                                 /\ ~unchecked => Thrifty(task[t])

\* A new frame in one slot.
LEMMA ShapedStep ==
  ASSUME TypeOK, FramesShaped, NEW t \in Tasks, NEW f,
         task' = [task EXCEPT ![t] = f],
         Shaped(f), Frugal(f), Affordable(f),
         ~unchecked => Thrifty(f), unchecked => unchecked'
  PROVE  FramesShaped'
<1>1. \A s \in Tasks : task'[s] = IF s = t THEN f ELSE task[s]
  BY DEF TypeOK
<1> SUFFICES ASSUME NEW s \in Tasks
             PROVE  /\ Shaped(task'[s]) /\ Frugal(task'[s]) /\ Affordable(task'[s])
                    /\ ~unchecked' => Thrifty(task'[s])
  BY DEF FramesShaped, Shaped, Frugal, DepositsDebt, Affordable, Thrifty
<1>2. CASE s = t
  BY <1>1, <1>2
<1>3. CASE s # t
  BY <1>1, <1>3 DEF FramesShaped
<1> QED BY <1>2, <1>3

LEMMA DoneShaped ==
  ASSUME NEW said
  PROVE  /\ Shaped(Done(said)) /\ Frugal(Done(said)) /\ Affordable(Done(said))
         /\ Thrifty(Done(said))
BY DEF Shaped, Frugal, Affordable, Thrifty, Done

LEMMA ReturnShaped ==
  ASSUME TypeOK, FramesShaped, NEW t \in Tasks, NEW said, Return(t, said),
         unchecked => unchecked'
  PROVE  FramesShaped'
BY DoneShaped, ShapedStep DEF Return

LEMMA SentShaped ==
  ASSUME TypeOK, FramesShaped, NEW t \in Tasks, NEW cmd, NEW u,
         NEW pc \in {"post", "delete", "patch", "credit"},
         NEW req, NEW seen, Send(t, cmd, u, pc, req, seen),
         Shaped(FrameOf(cmd, u, pc, req, seen)),
         Frugal(FrameOf(cmd, u, pc, req, seen)),
         Affordable(FrameOf(cmd, u, pc, req, seen))
  PROVE  FramesShaped'
<1>1. /\ task' = [task EXCEPT ![t] = FrameOf(cmd, u, pc, req, seen)]
      /\ unchecked' = unchecked
  BY DEF Send, FrameOf
<1>2. Thrifty(FrameOf(cmd, u, pc, req, seen))
  BY DEF Thrifty, FrameOf
<1> QED BY <1>1, <1>2, ShapedStep

\* The commands that neither touch a bank nor debit anybody.
LEMMA PlainShaped ==
  ASSUME TypeOK, FramesShaped, NEW t \in Tasks, NEW u,
         NEW cmd \in {"register", "unregister", "gib", "beg", "mine"},
         NEW pc \in {"post", "delete", "patch"},
         pc = "patch" => cmd \in {"gib", "beg", "mine"},
         NEW req, NEW seen,
         cmd \in {"beg", "mine"} => req.key = u,
         cmd \in {"gib", "beg"} => req.bank = 0 /\ ~req.wipe,
         Send(t, cmd, u, pc, req, seen)
  PROVE  FramesShaped'
<1>1. /\ Shaped(FrameOf(cmd, u, pc, req, seen))
      /\ Frugal(FrameOf(cmd, u, pc, req, seen))
      /\ Affordable(FrameOf(cmd, u, pc, req, seen))
  BY DEF Shaped, Frugal, Affordable, FrameOf
<1> QED BY <1>1, SentShaped

LEMMA BankBuyShaped ==
  ASSUME IInv, FramesShaped, NEW t \in Tasks, NEW u \in Users, BankBuy(t, u)
  PROVE  FramesShaped'
<1>1. PICK price \in Nat, type \in BankTypes :
        /\ price = 0 \/ base[u].bal >= price
        /\ SendAfterRead(t, "bank", u, "patch", BuyType(u, price, type))
  <2>1. CASE SendAfterRead(t, "bank", u, "patch", BuyType(u, 0, 0))
    BY <2>1 DEF BankTypes
  <2>2. CASE SendAfterRead(t, "bank", u, "patch", BuyType(u, 0, 4))
    BY <2>2 DEF BankTypes
  <2>3. CASE \E type \in 1..3 :
               /\ base[u].bal >= Price[type]
               /\ SendAfterRead(t, "bank", u, "patch", BuyType(u, Price[type], type))
    BY <2>3, CoinsAssumption DEF BankTypes
  <2> QED BY <2>1, <2>2, <2>3 DEF BankBuy
<1> DEFINE f == FrameOf("bank", u, "patch", BuyType(u, price, type), base[u])
<1>2. Shaped(f) /\ Frugal(f) /\ Affordable(f)
  BY <1>1, Copy DEF Shaped, Frugal, Affordable, FrameOf, BuyType
<1> QED BY <1>1, <1>2, SentShaped DEF SendAfterRead, IInv

\* deposit: the bank types are obeyed, and what is kept is no more than what
\* is taken, unless that is less than nothing.
LEMMA DepositShaped ==
  ASSUME IInv, FramesShaped, NEW t \in Tasks, NEW u \in Users, Deposit(t, u)
  PROVE  FramesShaped'
<1> DEFINE a == base[u]
           d(n) == Asked(n, IF a.bal > Room(a) THEN Room(a) ELSE a.bal)
           kept(n) == IF a.bank_type = 4 THEN Quotient(d(n), 2) ELSE d(n)
<1>0. PICK n \in Amounts :
        /\ n > 0 \/ n = -1
        /\ a.bal >= d(n)
        /\ BankAccepts(a.bank_type, d(n))
        /\ \E m \in Int : /\ m = kept(n) \/ (m = 0 /\ a.bank_type = 3)
                          /\ SendAfterRead(t, "deposit", u, "patch", Increment(u, -d(n), m))
  <2>1. PICK n \in Amounts :
          /\ n > 0 \/ n = -1
          /\ a.bal >= d(n)
          /\ BankAccepts(a.bank_type, d(n))
          /\ \/ SendAfterRead(t, "deposit", u, "patch", Increment(u, -d(n), kept(n)))
             \/ /\ a.bank_type = 3
                /\ SendAfterRead(t, "deposit", u, "patch", Increment(u, -d(n), 0))
    BY DEF Deposit
  <2>2. d(n) \in Int
    BY Copy, CoinsAssumption DEF Asked, Room
  <2>3. kept(n) \in Int
    BY <2>2, HalfInt
  <2> HIDE DEF d, kept
  <2> QED BY <2>1, <2>3
<1>1. PICK k \in Int :
        /\ k = kept(n) \/ (k = 0 /\ a.bank_type = 3)
        /\ SendAfterRead(t, "deposit", u, "patch", Increment(u, -d(n), k))
  BY <1>0
<1>2. d(n) \in Int /\ a.bal \in Int /\ a.bank \in Int /\ a.bank_max \in Int
  BY Copy, CoinsAssumption DEF Asked, Room
<1>3. d(n) < 0 => a.bal < 0 \/ a.bank > a.bank_max
  BY <1>0, <1>2, Copy, CoinsAssumption DEF Asked, Room
<1>4. /\ k - d(n) > 0 => d(n) < 0 /\ a.bank_type \in {3, 4}
      /\ k # 0 => BankAccepts(a.bank_type, k)
  <2>1. CASE a.bank_type = 4
    <3>1. d(n) >= 0 => k <= d(n)
      BY <1>1, <1>2, <2>1, HalfBounds
    <3>2. BankAccepts(a.bank_type, k)
      BY <2>1 DEF BankAccepts
    <3> HIDE DEF d, kept
    <3> QED BY <1>2, <2>1, <3>1, <3>2
  <2>2. CASE a.bank_type # 4
    <3>1. k = d(n) \/ (k = 0 /\ a.bank_type = 3)
      BY <1>1, <2>2
    <3> HIDE DEF d, kept
    <3> QED BY <1>0, <1>2, <3>1
  <2> QED BY <2>1, <2>2
<1> HIDE DEF a, d, kept
<1> DEFINE f == FrameOf("deposit", u, "patch", Increment(u, -d(n), k), a)
<1>6. /\ f.pc = "patch" /\ f.cmd = "deposit" /\ f.user = u /\ f.seen = a
      /\ f.req.key = u /\ f.req.bal = -d(n) /\ f.req.bank = k /\ ~f.req.wipe
  BY DEF FrameOf, Increment
<1> HIDE DEF f
<1>7. Shaped(f) /\ Affordable(f)
  BY <1>0, <1>2, <1>6 DEF Shaped, Affordable
<1>8. Frugal(f)
  BY <1>2, <1>3, <1>4, <1>6 DEF Frugal, DepositsDebt
<1> QED BY <1>1, <1>7, <1>8, SentShaped DEF SendAfterRead, IInv, f, a

LEMMA WithdrawShaped ==
  ASSUME IInv, FramesShaped, NEW t \in Tasks, NEW u \in Users, Withdraw(t, u)
  PROVE  FramesShaped'
<1>1. PICK n \in Amounts :
        /\ n > 0 \/ n = -1
        /\ SendAfterRead(t, "withdraw", u, "patch",
                      Increment(u, Asked(n, base[u].bank), -Asked(n, base[u].bank)))
  BY DEF Withdraw
<1> DEFINE w == Asked(n, base[u].bank)
<1>2. w \in Int /\ (w < 0 => base[u].bank < 0)
  BY <1>1, Copy, CoinsAssumption DEF Asked
<1> HIDE DEF w
<1> DEFINE f == FrameOf("withdraw", u, "patch", Increment(u, w, -w), base[u])
<1>3. Shaped(f) /\ Frugal(f) /\ Affordable(f)
  BY <1>2 DEF Shaped, Frugal, Affordable, FrameOf, Increment
<1> QED BY <1>1, <1>3, SentShaped DEF SendAfterRead, IInv, w

LEMMA ShareShaped ==
  ASSUME IInv, FramesShaped, NEW t \in Tasks, NEW u \in Users, Share(t, u)
  PROVE  FramesShaped'
<1> DEFINE a == base[u]
           n1(n) == Asked(n, a.bal)
           n2(n) == IF u \in Pog THEN n1(n) ELSE Taxed(n1(n))
<1>1. PICK v \in Users, n \in Amounts :
        /\ n > 0 \/ n = -1
        /\ IF n = -1 THEN a.bal # 0 ELSE a.bal >= n
        /\ SendAfterRead(t, "share", u, "credit", Increment(v, n2(n), 0))
  BY DEF Share
<1>2. /\ n1(n) \in Int /\ a.bal \in Int /\ n1(n) <= a.bal
      /\ n1(n) < 0 => a.bal < 0
  BY <1>1, Copy, CoinsAssumption DEF Asked
<1>3. n2(n) \in Int
  BY <1>2, TaxedInt
<1>4. n1(n) >= 0 => n2(n) \in 0..n1(n)
  BY <1>2, TaxedBounds
<1>5. n1(n) < 0 => n2(n) <= 0
  BY <1>2 DEF Taxed, Quotient
<1> HIDE DEF n1, n2, a
<1> DEFINE f == FrameOf("share", u, "credit", Increment(v, n2(n), 0), a)
<1>6. Shaped(f) /\ Frugal(f) /\ Affordable(f)
  BY <1>2, <1>3, <1>4, <1>5 DEF Shaped, Frugal, Affordable, FrameOf, Increment
<1> QED BY <1>1, <1>6, SentShaped DEF SendAfterRead, IInv, a

LEMMA CommandShaped ==
  ASSUME IInv, FramesShaped, NEW t \in Tasks, Command(t)
  PROVE  FramesShaped'
<1> PICK u \in Users :
      \/ Register(t, u) \/ Unregister(t, u) \/ GiveMoney(t, u)
      \/ Beg(t, u) \/ Mine(t, u) \/ BankBuy(t, u)
      \/ Deposit(t, u) \/ Withdraw(t, u) \/ Share(t, u)
  BY DEF Command
<1>1. CASE Register(t, u) \/ Unregister(t, u)
  BY <1>1, PlainShaped DEF Register, Unregister, SendUnread, IInv
<1>2. CASE GiveMoney(t, u)
  BY <1>2, PlainShaped DEF GiveMoney, SendUnread, IInv, Increment
<1>3. CASE Beg(t, u) \/ Mine(t, u)
  BY <1>3, PlainShaped DEF Beg, Mine, SendAfterRead, IInv, Increment, Wipe
<1> QED BY <1>1, <1>2, <1>3, BankBuyShaped, DepositShaped, WithdrawShaped, ShareShaped

LEMMA CreditShaped ==
  ASSUME IInv, FramesShaped, NEW t \in Tasks, CreditReply(t)
  PROVE  FramesShaped'
<1> DEFINE f == task[t]
           owed == Increment(f.user, -f.req.bal, 0)
           g == [f EXCEPT !.pc = "debit", !.req = owed]
<1>1. /\ f \in Frame /\ f.pc = "credit" /\ Observe(f)
      /\ Shaped(f) /\ Frugal(f) /\ Affordable(f)
  BY DEF CreditReply, IInv, TypeOK, FramesShaped
<1>2. /\ f.req.bal \in Int /\ f.seen.bal \in Int
      /\ ~unchecked => f.req.bal >= 0
  BY <1>1 DEF Frame, PatchRequest, IInv, RequestsBacked, Backed, Account
<1>3. CASE Return(t, "error")
  BY <1>1, <1>3, ReturnShaped DEF IInv, Observe
<1>4. CASE task' = [task EXCEPT ![t].pc = "debit", ![t].req = owed]
  <2>1. task' = [task EXCEPT ![t] = g]
    BY <1>4 DEF IInv, TypeOK
  <2>2. /\ g.pc = "debit" /\ g.cmd = "share" /\ g.req.bank = 0 /\ ~g.req.wipe
        /\ g.req.bal = -f.req.bal /\ g.req.key = g.user /\ g.seen = f.seen
    BY <1>1 DEF Frame, Shaped, Increment
  <2> HIDE DEF g
  <2>3. f.req.bal > 0 => f.req.bal <= f.seen.bal
    BY <1>1 DEF Affordable
  <2> HIDE DEF f
  <2>4. /\ Shaped(g) /\ Frugal(g) /\ Affordable(g)
        /\ ~unchecked => Thrifty(g)
    BY <1>2, <2>2, <2>3 DEF Shaped, Frugal, Affordable, Thrifty
  <2> QED BY <1>1, <2>1, <2>4, ShapedStep DEF IInv, Observe, f
<1> QED BY <1>3, <1>4 DEF CreditReply

LEMMA FramesShapedStep == IInv /\ FramesShaped /\ [Next]_vars => FramesShaped'
<1> SUFFICES ASSUME IInv, FramesShaped, [Next]_vars PROVE FramesShaped'
  OBVIOUS
<1>1. ASSUME NEW t \in Tasks,
             RegisterReply(t) \/ UnregisterReply(t) \/ PatchReply(t) \/ DebitReply(t)
      PROVE  FramesShaped'
  <2>1. \E said : Return(t, said)
    BY <1>1 DEF RegisterReply, UnregisterReply, PatchReply, DebitReply
  <2>2. unchecked => unchecked'
    BY <1>1 DEF RegisterReply, UnregisterReply, PatchReply, DebitReply, Observe
  <2> QED BY <2>1, <2>2, ReturnShaped DEF IInv
<1>2. CASE Restart
  BY <1>2, DoneShaped DEF Restart, FramesShaped, Shaped, Frugal, Affordable, Thrifty
<1>3. CASE UNCHANGED vars
  BY <1>3 DEF vars, FramesShaped, Shaped, Frugal, Affordable, Thrifty
<1> QED BY <1>1, <1>2, <1>3, CommandShaped, CreditShaped DEF Next, Reply

LEMMA FramesShapedInit == Init => FramesShaped
BY DoneShaped DEF Init, FramesShaped

LEMMA ShapedInvariance == Spec => []FramesShaped
BY Invariance, FramesShapedInit, FramesShapedStep, PTL DEF Spec

---------------------------------------------------------------------------
(* A reply to a patch, seen from the wallet it names. *)

\* What a patch adds to the coins of its item.
Gain(r) == base'[r.key].bal + base'[r.key].bank - (base[r.key].bal + base[r.key].bank)

LEMMA GainOf ==
  ASSUME TypeOK, NEW r \in PatchRequest, NEW status, Patch(r, status)
  PROVE  /\ r.key \in Users /\ r.bal \in Int /\ r.bank \in Int
         /\ base' \in [Users -> Account]
         /\ \A u \in Users : u # r.key => base'[u] = base[u]
         /\ base' = base \/ /\ ~r.wipe => Gain(r) = r.bal + r.bank
                            /\ base'[r.key].bank = base[r.key].bank + r.bank
         /\ ~r.wipe => Gain(r) \in {0, r.bal + r.bank}
<1> DEFINE k == r.key
           a == base[k]
           b == Patched(a, r)
<1>1. k \in Users /\ r.bal \in Int /\ r.bank \in Int /\ r.wipe \in BOOLEAN
  BY DEF PatchRequest
<1>2. a \in Account /\ a.bal \in Int /\ a.bank \in Int
  BY <1>1 DEF TypeOK, Account
<1>3. /\ base' = base \/ base' = [base EXCEPT ![k] = b]
      /\ base' \in [Users -> Account]
  BY PatchEffect
<1>4. /\ b.bal = IF r.wipe THEN 0 ELSE a.bal + r.bal
      /\ b.bank = a.bank + r.bank
  BY <1>2, PatchedType, Zenon
<1>5. \A u \in Users : u # k => base'[u] = base[u]
  BY <1>3 DEF TypeOK
<1> HIDE DEF b
<1>6. CASE base' = base
  BY <1>1, <1>2, <1>3, <1>5, <1>6 DEF Gain
<1>7. CASE base' = [base EXCEPT ![k] = b]
  <2>1. base'[k] = b
    BY <1>1, <1>7 DEF TypeOK
  <2>2. ~r.wipe => b.bal = a.bal + r.bal
    BY <1>4
  <2>3. ~r.wipe => Gain(r) = r.bal + r.bank
    BY <1>1, <1>2, <1>4, <2>1, <2>2 DEF Gain
  <2> QED BY <1>1, <1>3, <1>4, <1>5, <2>1, <2>3
<1> QED BY <1>3, <1>6, <1>7

\* Which steps touch an item at all.
LEMMA BaseSteps ==
  ASSUME IInv, Next, base' # base
  PROVE  \E t \in Tasks : PatchReply(t) \/ CreditReply(t) \/ DebitReply(t)
<1>1. ASSUME NEW t \in Tasks, Command(t) PROVE base' = base
  BY <1>1 DEF Command, Register, Unregister, GiveMoney, Beg, Mine,
     BankBuy, Deposit, Withdraw, Share, SendUnread, SendAfterRead, Send
<1>2. CASE Restart
  BY <1>2 DEF Restart
<1>3. ASSUME NEW t \in Tasks, RegisterReply(t) PROVE base' = base
  <2> DEFINE k == task[t].user
  <2>1. k \in Users
    BY DEF IInv, TypeOK, Frame
  <2>2. base' = base \/ (k \notin keys /\ base' = [base EXCEPT ![k] = Fresh])
    BY <1>3, <2>1, PostEffect DEF RegisterReply, IInv
  <2> HIDE DEF k
  <2> QED BY <2>1, <2>2 DEF IInv, TypeOK, Placeholders
<1>4. ASSUME NEW t \in Tasks, UnregisterReply(t) PROVE base' = base
  BY <1>4, DelEffect DEF UnregisterReply, IInv, TypeOK, Frame
<1> QED BY <1>1, <1>2, <1>3, <1>4 DEF Next, Reply

\* A coroutine that is neither idle nor waits for this reply stays.
LEMMA OnlyOneResumes ==
  ASSUME IInv, NEW s \in Tasks, Reply(s), NEW t \in Tasks, task'[t] # task[t]
  PROVE  t = s
<1>1. ASSUME NEW said, Return(s, said) PROVE t = s
  BY <1>1 DEF Return, IInv, TypeOK
<1>2. CASE CreditReply(s)
  <2>1. ASSUME NEW r, task' = [task EXCEPT ![s].pc = "debit", ![s].req = r]
        PROVE  t = s
    BY <2>1 DEF IInv, TypeOK
  <2> QED BY <1>1, <1>2, <2>1 DEF CreditReply
<1>3. CASE ~CreditReply(s)
  BY <1>1, <1>3 DEF Reply, RegisterReply, UnregisterReply, PatchReply, DebitReply
<1> QED BY <1>2, <1>3

\* Whoever changes an item resumes: what a step does to an item is what the
\* request of one frame says, and that frame is replaced.
LEMMA ItemStep ==
  ASSUME IInv, FramesShaped, Next, NEW u \in Users, base'[u] # base[u]
  PROVE  \E t \in Tasks :
           LET f == task[t]
               r == f.req IN
           /\ Resumes(t, u) /\ f.pc \in {"patch", "credit", "debit"}
           /\ f \in Frame /\ Shaped(f) /\ Frugal(f) /\ Affordable(f)
           /\ base'[u].bal = IF r.wipe THEN 0 ELSE base[u].bal + r.bal
           /\ base'[u].bank = base[u].bank + r.bank
<1>1. PICK t \in Tasks : PatchReply(t) \/ CreditReply(t) \/ DebitReply(t)
  BY BaseSteps
<1> DEFINE f == task[t]
           r == f.req
<1>2. /\ f \in Frame /\ Shaped(f) /\ Frugal(f) /\ Affordable(f)
      /\ f.pc \in {"patch", "credit", "debit"}
  BY <1>1 DEF PatchReply, CreditReply, DebitReply, IInv, TypeOK, FramesShaped
<1>3. r \in PatchRequest /\ r.key \in Users
  BY <1>2 DEF Frame, PatchRequest
<1>4. PICK status : Patch(r, status)
  BY <1>1 DEF PatchReply, CreditReply, DebitReply
<1>5. base' = [base EXCEPT ![r.key] = Patched(@, r)] /\ base \in [Users -> Account]
  BY <1>3, <1>4, PatchEffect DEF IInv, TypeOK
<1>6. u = r.key /\ base'[u] = Patched(base[u], r) /\ base[u] \in Account
  BY <1>3, <1>5
<1>7. /\ base'[u].bal = IF r.wipe THEN 0 ELSE base[u].bal + r.bal
      /\ base'[u].bank = base[u].bank + r.bank
  <2> HIDE DEF r
  <2>1. /\ Patched(base[u], r).bal = IF r.wipe THEN 0 ELSE base[u].bal + r.bal
        /\ Patched(base[u], r).bank = base[u].bank + r.bank
    BY <1>3, <1>6, PatchedType, Zenon
  <2> QED BY <1>6, <2>1, Zenon
<1>8. task'[t] # task[t]
  <2>1. ASSUME NEW said, Return(t, said) PROVE task'[t].pc = "idle"
    BY <2>1 DEF Return, IInv, TypeOK, Done
  <2>2. CASE CreditReply(t)
    <3>1. ASSUME NEW q, task' = [task EXCEPT ![t].pc = "debit", ![t].req = q]
          PROVE  task'[t].pc = "debit"
      BY <3>1, <1>2 DEF IInv, TypeOK, Frame
    <3>2. task'[t].pc \in {"idle", "debit"}
      BY <2>1, <2>2, <3>1 DEF CreditReply
    <3> QED BY <2>2, <3>2 DEF CreditReply
  <2>3. CASE PatchReply(t) \/ DebitReply(t)
    BY <1>2, <2>1, <2>3 DEF PatchReply, DebitReply
  <2> QED BY <1>1, <2>2, <2>3
<1> HIDE DEF r
<1>9. Resumes(t, u)
  BY <1>2, <1>6, <1>8 DEF Resumes, r
<1> QED BY <1>2, <1>7, <1>9 DEF r

\* The limits of the bank types hold for every deposit of every coroutine,
\* also when the bank becomes another one while the deposit is on its way:
\* then they are those of the type the handler saw.
THEOREM Limits == Spec => LimitsAsSeen
<1>1. ASSUME IInv, FramesShaped, Next, NEW t \in Tasks,
             task[t].cmd = "deposit", task'[t] # task[t],
             base'[task[t].user].bank - base[task[t].user].bank # 0
      PROVE  BankAccepts(task[t].seen.bank_type,
               base'[task[t].user].bank - base[task[t].user].bank)
  <2> DEFINE u == task[t].user
  <2>1. /\ u \in Users /\ task[t] \in Frame /\ Shaped(task[t]) /\ Frugal(task[t])
        /\ base[u].bank \in Int
    BY <1>1, Copy DEF IInv, TypeOK, Frame, FramesShaped
  <2>2. base'[u] # base[u]
    BY <1>1, <2>1
  <2>3. PICK s \in Tasks :
          /\ Resumes(s, u) /\ task[s].pc \in {"patch", "credit", "debit"}
          /\ base'[u].bank = base[u].bank + task[s].req.bank
    BY <1>1, <2>1, <2>2, ItemStep
  <2>4. s = t
    <3>1. base' # base
      BY <2>2
    <3>2. PICK x \in Tasks : PatchReply(x) \/ CreditReply(x) \/ DebitReply(x)
      BY <1>1, <3>1, BaseSteps
    <3> QED BY <1>1, <2>3, <3>2, OnlyOneResumes DEF Reply, Resumes
  <2>5. task[t].req.bank \in Int
    BY <2>1 DEF Frame, PatchRequest
  <2>6. base'[u].bank - base[u].bank = task[t].req.bank
    BY <2>1, <2>3, <2>4, <2>5
  <2>7. task[t].req.bank # 0
    BY <1>1, <2>6
  <2> QED BY <1>1, <2>1, <2>6, <2>7 DEF Frugal
<1>2. IInv /\ FramesShaped /\ [Next]_vars =>
        [\A t \in Tasks :
           LET f == task[t]
               gain == base'[f.user].bank - base[f.user].bank IN
           f.cmd = "deposit" /\ task'[t] # f /\ gain # 0
             => BankAccepts(f.seen.bank_type, gain)]_vars
  BY <1>1, Zenon
<1> QED BY <1>2, Invariance, ShapedInvariance, PTL DEF Spec, LimitsAsSeen

\* What a step adds to the coins issued is what the request of a frame other
\* than a share says.
LEMMA IssuingStep ==
  ASSUME IInv, FramesShaped, Next, issued' # issued
  PROVE  \E t \in Tasks :
           LET f == task[t]
               r == f.req IN
           /\ f.pc = "patch" /\ f \in Frame /\ task'[t] # f
           /\ Shaped(f) /\ Frugal(f)
           /\ ~r.wipe => issued' \in {issued, issued + (r.bal + r.bank)}
<1>1. PICK t \in Tasks : PatchReply(t)
  <2>1. ASSUME NEW t \in Tasks, Command(t) PROVE issued' = issued
    BY <2>1 DEF Command, Register, Unregister, GiveMoney, Beg, Mine, BankBuy,
       Deposit, Withdraw, Share, SendUnread, SendAfterRead, Send
  <2>2. ASSUME NEW t \in Tasks, \/ RegisterReply(t) \/ UnregisterReply(t)
                                \/ CreditReply(t) \/ DebitReply(t)
        PROVE  issued' = issued
    BY <2>2 DEF RegisterReply, UnregisterReply, CreditReply, DebitReply
  <2>3. CASE Restart
    BY <2>3 DEF Restart
  <2> QED BY <2>1, <2>2, <2>3 DEF Next, Reply
<1> DEFINE f == task[t]
           r == f.req
<1>2. /\ f \in Frame /\ r \in PatchRequest /\ f.pc = "patch"
      /\ Shaped(f) /\ Frugal(f) /\ issued \in Int
  BY <1>1 DEF IInv, TypeOK, Frame, FramesShaped, PatchReply
<1>3. PICK status : Patch(r, status)
  BY <1>1 DEF PatchReply
<1>4. /\ r.key \in Users /\ base' \in [Users -> Account]
      /\ ~r.wipe => Gain(r) \in {0, r.bal + r.bank}
  BY <1>2, <1>3, GainOf DEF IInv
<1>5. issued' = issued + Gain(r)
  <2>1. /\ base'[r.key].bal \in Int /\ base'[r.key].bank \in Int
        /\ base[r.key].bal \in Int /\ base[r.key].bank \in Int
    BY <1>4, Copy DEF Account
  <2>2. issued' = issued + (base'[r.key].bal - base[r.key].bal)
                         + (base'[r.key].bank - base[r.key].bank)
    BY <1>1 DEF PatchReply
  <2> QED BY <1>2, <2>1, <2>2 DEF Gain
<1>6. task'[t] # task[t]
  <2>1. PICK said : task' = [task EXCEPT ![t] = Done(said)]
    BY <1>1 DEF PatchReply, Return
  <2>2. task'[t].pc = "idle"
    BY <2>1 DEF IInv, TypeOK, Done
  <2> QED BY <1>2, <2>2
<1> HIDE DEF r
<1>7. ~r.wipe => issued' \in {issued, issued + (r.bal + r.bank)}
  BY <1>2, <1>4, <1>5
<1> QED BY <1>2, <1>6, <1>7 DEF r

\* Coins are created by beg, mine and gib, and by a deposit of a debt into a
\* USSR or a meme bank; by nothing else, in whatever order commands overlap.
THEOREM Faucets == Spec => OnlyFaucetsMint
<1>1. ASSUME IInv, FramesShaped, Next, issued' > issued
      PROVE  \E t \in Tasks :
               LET f == task[t] IN
               /\ task'[t] # f
               /\ \/ f.cmd \in {"beg", "mine", "gib"}
                  \/ DepositsDebt(f) /\ f.seen.bank_type \in {3, 4}
  <2>1. issued \in Int
    BY <1>1 DEF IInv, TypeOK
  <2>2. PICK t \in Tasks :
          /\ task[t].pc = "patch" /\ task[t] \in Frame /\ task'[t] # task[t]
          /\ Shaped(task[t]) /\ Frugal(task[t])
          /\ ~task[t].req.wipe =>
               issued' \in {issued, issued + (task[t].req.bal + task[t].req.bank)}
    BY <1>1, <2>1, IssuingStep
  <2> DEFINE f == task[t]
             r == f.req
  <2>3. r.bal \in Int /\ r.bank \in Int
    BY <2>2 DEF Frame, PatchRequest
  <2>4. CASE f.cmd \in {"bank", "deposit", "withdraw"}
    <3>1. ~r.wipe
      BY <2>2, <2>4 DEF Frugal
    <3>2. r.bal + r.bank > 0
      BY <1>1, <2>1, <2>2, <2>3, <3>1
    <3>3. f.cmd = "deposit"
      BY <2>2, <2>3, <2>4, <3>2 DEF Frugal
    <3>4. DepositsDebt(f) /\ f.seen.bank_type \in {3, 4}
      BY <2>2, <3>2, <3>3 DEF Frugal
    <3> QED BY <2>2, <3>4
  <2>5. CASE f.cmd \in {"beg", "mine", "gib"}
    BY <2>2, <2>5
  <2> QED BY <2>2, <2>4, <2>5 DEF Shaped
<1>2. IInv /\ FramesShaped /\ [Next]_vars =>
        [issued' > issued =>
           \E t \in Tasks :
             LET f == task[t] IN
             /\ task'[t] # f
             /\ \/ f.cmd \in {"beg", "mine", "gib"}
                \/ DepositsDebt(f) /\ f.seen.bank_type \in {3, 4}]_vars
  BY <1>1
<1> QED BY <1>2, Invariance, ShapedInvariance, PTL DEF Spec, OnlyFaucetsMint

---------------------------------------------------------------------------
(* Whose request a user's loss, and a user's debt, comes from. *)

Held(u) == base[u].bal + base[u].bank

\* Commands of others lower what a user holds by a negative gib and by a
\* share of "all" of a debt only, whatever runs in between.
THEOREM OwnSpending == Spec => OnlyOwnCommandsSpend
<1>1. ASSUME IInv, FramesShaped, Next, NEW u \in Users,
             base'[u].bal + base'[u].bank < base[u].bal + base[u].bank
      PROVE  \E t \in Tasks :
               LET f == task[t] IN
               /\ Resumes(t, u)
               /\ \/ f.user = u
                  \/ f.cmd = "gib" /\ f.req.bal < 0
                  \/ f.cmd = "share" /\ f.seen.bal < 0
  <2>1. base[u].bal \in Int /\ base[u].bank \in Int
    BY <1>1, Copy
  <2>2. base'[u] # base[u]
    BY <1>1, <2>1
  <2>3. PICK t \in Tasks :
          LET f == task[t]
              r == f.req IN
          /\ Resumes(t, u) /\ f.pc \in {"patch", "credit", "debit"}
          /\ f \in Frame /\ Shaped(f) /\ Frugal(f) /\ Affordable(f)
          /\ base'[u].bal = IF r.wipe THEN 0 ELSE base[u].bal + r.bal
          /\ base'[u].bank = base[u].bank + r.bank
    BY <1>1, <2>2, ItemStep
  <2> DEFINE f == task[t]
             r == f.req
  <2>4. r.bal \in Int /\ r.bank \in Int /\ r.key = u
    BY <2>3 DEF Frame, PatchRequest, Resumes
  <2>5. ASSUME ~r.wipe, r.bank = 0 PROVE r.bal < 0
    BY <1>1, <2>1, <2>3, <2>4, <2>5
  <2>6. CASE f.cmd = "gib"
    BY <2>3, <2>5, <2>6 DEF Shaped
  <2>7. CASE f.pc = "credit"
    BY <2>3, <2>5, <2>7 DEF Shaped, Affordable
  <2>8. CASE f.cmd # "gib" /\ f.pc \in {"patch", "debit"}
    BY <2>3, <2>4, <2>8 DEF Shaped
  <2> QED BY <2>3, <2>6, <2>7, <2>8
<1>2. IInv /\ FramesShaped /\ [Next]_vars =>
        [\A u \in Users :
           base'[u].bal + base'[u].bank < base[u].bal + base[u].bank =>
             \E t \in Tasks :
               LET f == task[t] IN
               /\ Resumes(t, u)
               /\ \/ f.user = u
                  \/ f.cmd = "gib" /\ f.req.bal < 0
                  \/ f.cmd = "share" /\ f.seen.bal < 0]_vars
  BY <1>1
<1> QED BY <1>2, Invariance, ShapedInvariance, PTL DEF Spec, OnlyOwnCommandsSpend

\* A wallet gets into debt, or deeper into it, only by a command that had seen
\* more than is left, by a draw or a gift of less than nothing, or by "all" of
\* another debt.
THEOREM DebtsExplained == Spec => DebtsHaveCauses
<1>1. ASSUME IInv, FramesShaped, Next, NEW u \in Users,
             base'[u].bal < 0, base'[u].bal < base[u].bal
      PROVE  \E t \in Tasks :
               LET f == task[t] IN
               /\ Resumes(t, u)
               /\ \/ f.user = u /\ f.seen.bal > base[u].bal
                  \/ f.cmd \in {"gib", "beg", "mine"} /\ f.req.bal < 0
                  \/ f.pc = "credit" /\ f.seen.bal < 0
                  \/ f.cmd = "withdraw" /\ f.seen.bank < 0
  <2>1. base[u].bal \in Int
    BY <1>1, Copy
  <2>2. base'[u] # base[u]
    BY <1>1, <2>1
  <2>3. PICK t \in Tasks :
          LET f == task[t]
              r == f.req IN
          /\ Resumes(t, u) /\ f.pc \in {"patch", "credit", "debit"}
          /\ f \in Frame /\ Shaped(f) /\ Frugal(f) /\ Affordable(f)
          /\ base'[u].bal = IF r.wipe THEN 0 ELSE base[u].bal + r.bal
    BY <1>1, <2>2, ItemStep
  <2> DEFINE f == task[t]
             r == f.req
  <2>4. r.bal \in Int /\ r.key = u /\ f.seen.bal \in Int
    BY <2>3 DEF Frame, PatchRequest, Account, Resumes
  <2>5. ~r.wipe
    BY <1>1, <2>3
  <2>6. base'[u].bal = base[u].bal + r.bal
    BY <2>3, <2>5
  <2>7. r.bal < 0
    BY <1>1, <2>1, <2>4, <2>6
  <2>8. f.seen.bal + r.bal >= 0 => f.seen.bal > base[u].bal
    BY <1>1, <2>1, <2>4, <2>6
  <2>9. CASE f.cmd \in {"gib", "beg", "mine"}
    BY <2>3, <2>7, <2>9
  <2>10. CASE f.pc = "credit"
    BY <2>3, <2>7, <2>10 DEF Affordable
  <2>11. CASE f.pc = "debit"
    BY <2>3, <2>4, <2>7, <2>8, <2>11 DEF Affordable, Shaped
  <2>12. CASE f.pc = "patch" /\ f.cmd \in {"bank", "deposit"}
    BY <2>3, <2>4, <2>7, <2>8, <2>12 DEF Affordable, Shaped
  <2>13. CASE f.cmd = "withdraw"
    BY <2>3, <2>7, <2>13 DEF Affordable
  <2> QED BY <2>3, <2>9, <2>10, <2>11, <2>12, <2>13 DEF Shaped
<1>2. IInv /\ FramesShaped /\ [Next]_vars =>
        [\A u \in Users :
           base'[u].bal < 0 /\ base'[u].bal < base[u].bal =>
             \E t \in Tasks :
               LET f == task[t] IN
               /\ Resumes(t, u)
               /\ \/ f.user = u /\ f.seen.bal > base[u].bal
                  \/ f.cmd \in {"gib", "beg", "mine"} /\ f.req.bal < 0
                  \/ f.pc = "credit" /\ f.seen.bal < 0
                  \/ f.cmd = "withdraw" /\ f.seen.bank < 0]_vars
  BY <1>1
<1> QED BY <1>2, Invariance, ShapedInvariance, PTL DEF Spec, DebtsHaveCauses

---------------------------------------------------------------------------
(* Coins in all accounts, and what shares have still to debit.             *)

\* The part of a frame in Undebited.
Owed(f) == IF f.pc = "debit" THEN -f.req.bal ELSE 0

LEMMA OwedType ==
  ASSUME NEW f \in Frame
  PROVE  Owed(f) \in Int
BY DEF Frame, PatchRequest, Owed

LEMMA CoinsIs ==
  Coins = SumFunctionOnSet([u \in Users |-> Held(u)], Users)
BY DEF Coins, Held, SumFunction

LEMMA UndebitedIs ==
  Undebited = SumFunctionOnSet([t \in Tasks |-> Owed(task[t])], Tasks)
BY DEF Undebited, Owed, SumFunction

LEMMA CoinsType ==
  ASSUME TypeOK
  PROVE  Coins \in Int /\ \A u \in Users : Held(u) \in Int
<1> DEFINE F == [u \in Users |-> Held(u)]
<1>1. \A u \in Users : Held(u) \in Int
  BY DEF TypeOK, Account, Held
<1>2. Numbers(F, Users)
  BY <1>1 DEF Numbers
<1> HIDE DEF F
<1>3. SumFunctionOnSet(F, Users) \in Int
  BY <1>2, SumType, CoinsAssumption
<1> QED BY <1>1, <1>3, CoinsIs DEF F

LEMMA UndebitedType ==
  ASSUME TypeOK
  PROVE  Undebited \in Int
<1> DEFINE F == [t \in Tasks |-> Owed(task[t])]
<1>1. Numbers(F, Tasks)
  BY OwedType DEF Numbers, TypeOK
<1> HIDE DEF F
<1>2. SumFunctionOnSet(F, Tasks) \in Int
  BY <1>1, SumType, CoinsAssumption
<1> QED BY <1>2, UndebitedIs DEF F

\* A step that changes one account.
LEMMA CoinsChange ==
  ASSUME TypeOK, base' \in [Users -> Account], NEW k \in Users,
         \A u \in Users : u # k => base'[u] = base[u]
  PROVE  Coins' = Coins - Held(k) + Held(k)' /\ Held(k)' \in Int
<1> DEFINE F == [u \in Users |-> Held(u)]
           H == [u \in Users |-> Held(u)']
<1>1. \A u \in Users : Held(u) \in Int /\ Held(u)' \in Int
  BY DEF TypeOK, Account, Held
<1>2. Numbers(F, Users) /\ Numbers(H, Users)
  BY <1>1 DEF Numbers
<1>3. \A u \in Users : u # k => F[u] = H[u]
  BY DEF Held
<1>4. F[k] = Held(k) /\ H[k] = Held(k)'
  OBVIOUS
<1>5. Coins' = SumFunctionOnSet(H, Users)
  BY DEF Coins, Held, SumFunction
<1>6. Coins = SumFunctionOnSet(F, Users)
  BY CoinsIs
<1> HIDE DEF F, H
<1>7. SumFunctionOnSet(H, Users) = SumFunctionOnSet(F, Users) - F[k] + H[k]
  BY <1>2, <1>3, SumOneChanged, CoinsAssumption
<1> QED BY <1>1, <1>4, <1>5, <1>6, <1>7

\* A step that changes one frame.
LEMMA UndebitedChange ==
  ASSUME TypeOK, NEW t \in Tasks, NEW f \in Frame, task' = [task EXCEPT ![t] = f]
  PROVE  Undebited' = Undebited - Owed(task[t]) + Owed(f)
<1> DEFINE F == [s \in Tasks |-> Owed(task[s])]
           H == [s \in Tasks |-> Owed(task'[s])]
<1>1. /\ \A s \in Tasks : task[s] \in Frame /\ task'[s] \in Frame
      /\ task'[t] = f /\ \A s \in Tasks : s # t => task'[s] = task[s]
  BY DEF TypeOK
<1>2. Numbers(F, Tasks) /\ Numbers(H, Tasks)
  BY <1>1, OwedType DEF Numbers
<1>3. \A s \in Tasks : s # t => F[s] = H[s]
  BY <1>1
<1>4. F[t] = Owed(task[t]) /\ H[t] = Owed(f)
  BY <1>1
<1>5. Undebited' = SumFunctionOnSet(H, Tasks)
  BY DEF Undebited, Owed, SumFunction
<1>6. Undebited = SumFunctionOnSet(F, Tasks)
  BY UndebitedIs
<1> HIDE DEF F, H
<1>7. SumFunctionOnSet(H, Tasks) = SumFunctionOnSet(F, Tasks) - F[t] + H[t]
  BY <1>2, <1>3, SumOneChanged, CoinsAssumption
<1> QED BY <1>4, <1>5, <1>6, <1>7

\* Coins move by what a patch gains, the debts by what the frame owes.
LEMMA DriftChange ==
  ASSUME TypeOK, NEW t \in Tasks, NEW f \in Frame, task' = [task EXCEPT ![t] = f],
         NEW r \in PatchRequest, NEW status, Patch(r, status), issued' \in Int
  PROVE  /\ Drift \in Int /\ Gain(r) \in Int
         /\ Drift' = Drift + Gain(r) - (issued' - issued) + Owed(task[t]) - Owed(f)
<1>1. /\ r.key \in Users /\ base' \in [Users -> Account]
      /\ \A u \in Users : u # r.key => base'[u] = base[u]
  BY GainOf
<1>2. /\ Coins' = Coins - Held(r.key) + Held(r.key)'
      /\ Held(r.key)' \in Int /\ Held(r.key) \in Int /\ Coins \in Int
  BY <1>1, CoinsChange, CoinsType
<1>3. Gain(r) = Held(r.key)' - Held(r.key)
  <2>1. /\ base'[r.key].bal \in Int /\ base'[r.key].bank \in Int
        /\ base[r.key].bal \in Int /\ base[r.key].bank \in Int
    BY <1>1 DEF TypeOK, Account
  <2> QED BY <2>1 DEF Gain, Held
<1>4. /\ Undebited' = Undebited - Owed(task[t]) + Owed(f) /\ Undebited \in Int
      /\ Owed(task[t]) \in Int /\ Owed(f) \in Int /\ issued \in Int
  BY UndebitedChange, UndebitedType, OwedType DEF TypeOK
<1>5. Drift = Coins - issued - Undebited /\ Drift' = Coins' - issued' - Undebited'
  BY DEF Drift
<1> QED BY <1>2, <1>3, <1>4, <1>5

\* Commands, registrations and the removal of an idle frame change nothing.
LEMMA DriftSame ==
  ASSUME TypeOK, NEW t \in Tasks, NEW f \in Frame, task' = [task EXCEPT ![t] = f],
         base' = base, issued' = issued, Owed(f) = 0, Owed(task[t]) = 0
  PROVE  Drift' = Drift
<1>1. Undebited' = Undebited - Owed(task[t]) + Owed(f)
  BY UndebitedChange
<1>2. Coins' = Coins
  BY DEF Coins
<1>3. Undebited' = Undebited
  BY <1>1, UndebitedType
<1> QED BY <1>2, <1>3 DEF Drift

LEMMA DoneOwes ==
  ASSUME NEW said \in {"nothing", "ok", "error"}
  PROVE  Done(said) \in Frame /\ Owed(Done(said)) = 0
BY DoneType DEF Owed, Done

\* The coins a command creates or destroys are issued.
LEMMA PatchDrift ==
  ASSUME IInv, FramesShaped, NEW t \in Tasks, PatchReply(t)
  PROVE  Drift' = Drift
<1> DEFINE f == task[t]
           r == f.req
<1>1. /\ f \in Frame /\ r \in PatchRequest /\ f.pc = "patch" /\ issued \in Int
  BY DEF IInv, TypeOK, Frame, PatchReply
<1>2. PICK said \in {"ok", "error"} : task' = [task EXCEPT ![t] = Done(said)]
  <2>1. PICK status : Return(t, IF status = 200 THEN "ok" ELSE "error")
    BY DEF PatchReply
  <2>2. CASE status = 200
    BY <2>1, <2>2 DEF Return
  <2>3. CASE status # 200
    BY <2>1, <2>3 DEF Return
  <2> QED BY <2>2, <2>3
<1>7. PICK status : Patch(r, status)
  BY DEF PatchReply
<1>3. /\ r.key \in Users /\ base' \in [Users -> Account]
  BY <1>1, <1>7, GainOf DEF IInv
<1>4. issued' = issued + Gain(r) /\ Gain(r) \in Int
  <2>1. /\ base'[r.key].bal \in Int /\ base'[r.key].bank \in Int
        /\ base[r.key].bal \in Int /\ base[r.key].bank \in Int
    BY <1>3, Copy DEF Account
  <2>2. issued' = issued + (base'[r.key].bal - base[r.key].bal)
                         + (base'[r.key].bank - base[r.key].bank)
    BY DEF PatchReply
  <2> QED BY <1>1, <2>1, <2>2 DEF Gain
<1>5. Owed(f) = 0 /\ Owed(Done(said)) = 0 /\ Done(said) \in Frame
  BY <1>1, DoneOwes DEF Owed
<1> HIDE DEF r
<1>6. Drift \in Int
      /\ Drift' = Drift + Gain(r) - (issued' - issued) + Owed(f) - Owed(Done(said))
  <2>1. issued' \in Int
    BY <1>1, <1>4
  <2> QED BY <1>1, <1>2, <1>7, <1>5, <2>1, DriftChange DEF IInv
<1> QED BY <1>1, <1>4, <1>5, <1>6

\* A credit that is answered with 200 is owed in full; one that is not may
\* have been executed, and then leaves coins behind.
LEMMA CreditDrift ==
  ASSUME IInv, FramesShaped, NEW t \in Tasks, CreditReply(t)
  PROVE  \/ Drift' = Drift
         \/ /\ task'[t].pc = "idle" /\ task'[t].said = "error"
            /\ Drift' \in {Drift, Drift + task[t].req.bal}
<1> DEFINE f == task[t]
           r == f.req
           owed == Increment(f.user, -f.req.bal, 0)
           g == [f EXCEPT !.pc = "debit", !.req = owed]
<1>1. /\ f \in Frame /\ r \in PatchRequest /\ f.pc = "credit" /\ Shaped(f)
      /\ f.user \in Users /\ r.bal \in Int /\ issued' = issued /\ issued \in Int
  BY DEF IInv, TypeOK, Frame, FramesShaped, PatchRequest, CreditReply
<1>2. PICK status \in {200, 404, NoAnswer} :
        /\ Patch(r, status)
        /\ IF status = 200
           THEN task' = [task EXCEPT ![t].pc = "debit", ![t].req = owed]
           ELSE Return(t, "error")
  BY DEF CreditReply
<1>3. ~r.wipe /\ r.bank = 0 /\ Owed(f) = 0
  BY <1>1 DEF Shaped, Owed
<1>4. Gain(r) \in {0, r.bal}
  BY <1>1, <1>2, <1>3, GainOf DEF IInv
<1>5. CASE status = 200
  <2>1. task' = [task EXCEPT ![t] = g]
    BY <1>2, <1>5 DEF IInv, TypeOK
  <2>2. g \in Frame /\ Owed(g) = r.bal
    <3>1. owed \in PatchRequest /\ owed.bal = -r.bal
      BY <1>1, IncrementType DEF Increment
    <3> HIDE DEF owed
    <3>2. g \in Frame /\ g.pc = "debit" /\ g.req = owed
      BY <1>1, <3>1 DEF Frame
    <3> QED BY <1>1, <3>1, <3>2 DEF Owed
  <2>3. Gain(r) = r.bal
    <3>1. base' = [base EXCEPT ![r.key] = Patched(@, r)]
      BY <1>2, <1>5 DEF Patch
    <3>2. r.key \in Users /\ base[r.key] \in Account /\ base'[r.key] = Patched(base[r.key], r)
      BY <1>1, <3>1 DEF IInv, TypeOK, PatchRequest
    <3>3. base'[r.key].bal = base[r.key].bal + r.bal
          /\ base'[r.key].bank = base[r.key].bank + 0
      BY <1>1, <1>3, <3>2, PatchedType
    <3>4. base[r.key].bal \in Int /\ base[r.key].bank \in Int
      BY <3>2 DEF Account
    <3> HIDE DEF r
    <3> QED BY <1>1, <3>3, <3>4 DEF Gain
  <2> HIDE DEF g, r
  <2>4. Drift \in Int /\ Drift' = Drift + Gain(r) - (issued' - issued) + Owed(f) - Owed(g)
    BY <1>1, <1>2, <2>1, <2>2, DriftChange DEF IInv
  <2> QED BY <1>1, <1>3, <2>2, <2>3, <2>4 DEF r
<1>6. CASE status # 200
  <2>1. /\ task' = [task EXCEPT ![t] = Done("error")]
        /\ Done("error") \in Frame /\ Owed(Done("error")) = 0
    BY <1>2, <1>6, DoneOwes DEF Return
  <2>2. task'[t].pc = "idle" /\ task'[t].said = "error"
    BY <2>1 DEF Done, IInv, TypeOK
  <2> HIDE DEF r
  <2>3. Drift \in Int
        /\ Drift' = Drift + Gain(r) - (issued' - issued) + Owed(f) - Owed(Done("error"))
    BY <1>1, <1>2, <2>1, DriftChange DEF IInv
  <2>4. Drift' = Drift + Gain(r)
    BY <1>1, <1>3, <1>4, <2>1, <2>3
  <2>5. Drift' \in {Drift, Drift + r.bal}
    BY <1>4, <2>3, <2>4
  <2> QED BY <2>2, <2>5 DEF r
<1> QED BY <1>5, <1>6

\* A debit takes what is owed, unless it is not executed: then the coins stay.
LEMMA DebitDrift ==
  ASSUME IInv, FramesShaped, NEW t \in Tasks, DebitReply(t)
  PROVE  \/ Drift' = Drift
         \/ task'[t].pc = "idle" /\ base' = base /\ Drift' = Drift - task[t].req.bal
<1> DEFINE f == task[t]
           r == f.req
<1>1. /\ f \in Frame /\ r \in PatchRequest /\ f.pc = "debit" /\ Shaped(f)
      /\ r.bal \in Int /\ issued' = issued /\ issued \in Int
  BY DEF IInv, TypeOK, Frame, FramesShaped, PatchRequest, DebitReply
<1>2. PICK status : Patch(r, status)
  BY DEF DebitReply
<1>3. /\ task' = [task EXCEPT ![t] = Done("ok")]
      /\ Done("ok") \in Frame /\ Owed(Done("ok")) = 0
  BY DoneOwes DEF DebitReply, Return
<1>4. ~r.wipe /\ r.bank = 0 /\ Owed(f) = -r.bal
  BY <1>1 DEF Shaped, Owed
<1>5. /\ base' = base \/ Gain(r) = r.bal
      /\ base' = base => Gain(r) = 0
  <2>1. base' = base \/ Gain(r) = r.bal + r.bank
    BY <1>1, <1>2, <1>4, GainOf DEF IInv
  <2>2. base[r.key].bal \in Int /\ base[r.key].bank \in Int
    BY <1>1, Copy DEF PatchRequest
  <2> QED BY <1>1, <1>4, <2>1, <2>2 DEF Gain
<1> HIDE DEF r
<1>6. Drift \in Int /\ Drift' = Drift + Gain(r) - (issued' - issued) + Owed(f) - Owed(Done("ok"))
  BY <1>1, <1>2, <1>3, DriftChange DEF IInv
<1>7. CASE Gain(r) = r.bal
  BY <1>1, <1>3, <1>4, <1>6, <1>7
<1>8. CASE base' = base
  <2>1. task'[t].pc = "idle"
    BY <1>3 DEF Done, IInv, TypeOK
  <2>2. Gain(r) = 0
    BY <1>5, <1>8
  <2>3. Drift' = Drift - r.bal
    BY <1>1, <1>3, <1>4, <1>6, <2>2
  <2> QED BY <1>8, <2>1, <2>3 DEF r
<1> QED BY <1>5, <1>7, <1>8

\* What every command has in common.
LEMMA CommandSends ==
  ASSUME NEW t \in Tasks, Command(t)
  PROVE  \E cmd, u, req, seen : \E pc \in {"post", "delete", "patch", "credit"} :
           Send(t, cmd, u, pc, req, seen) /\ task[t].pc = "idle"
<1> PICK u \in Users :
      \/ Register(t, u) \/ Unregister(t, u) \/ GiveMoney(t, u)
      \/ Beg(t, u) \/ Mine(t, u) \/ BankBuy(t, u)
      \/ Deposit(t, u) \/ Withdraw(t, u) \/ Share(t, u)
  BY DEF Command
<1>1. ASSUME NEW cmd, NEW v, NEW req, NEW pc \in {"post", "delete", "patch", "credit"},
             SendAfterRead(t, cmd, v, pc, req) \/ SendUnread(t, cmd, v, pc, req)
      PROVE  \E seen : Send(t, cmd, v, pc, req, seen) /\ task[t].pc = "idle"
  BY <1>1 DEF SendAfterRead, SendUnread, Start
<1>2. ASSUME NEW cmd, NEW v, NEW req, NEW pc \in {"post", "delete", "patch", "credit"},
             SendAfterRead(t, cmd, v, pc, req) \/ SendUnread(t, cmd, v, pc, req)
      PROVE  \E c, w, r, seen : \E p \in {"post", "delete", "patch", "credit"} :
               Send(t, c, w, p, r, seen) /\ task[t].pc = "idle"
  BY <1>1, <1>2
<1>3. CASE Register(t, u) \/ Unregister(t, u)
  BY <1>2, <1>3 DEF Register, Unregister
<1>4. CASE GiveMoney(t, u)
  BY <1>2, <1>4 DEF GiveMoney
<1>5. CASE Beg(t, u) \/ Mine(t, u)
  BY <1>2, <1>5 DEF Beg, Mine
<1>6. CASE BankBuy(t, u)
  BY <1>2, <1>6 DEF BankBuy
<1>7. CASE Deposit(t, u)
  BY <1>2, <1>7 DEF Deposit
<1>8. CASE Withdraw(t, u)
  BY <1>2, <1>8 DEF Withdraw
<1>9. CASE Share(t, u)
  BY <1>2, <1>9 DEF Share
<1> QED BY <1>3, <1>4, <1>5, <1>6, <1>7, <1>8, <1>9

\* The commands themselves, and registrations.
LEMMA OtherDrift ==
  ASSUME IInv, NEW t \in Tasks, Command(t) \/ RegisterReply(t) \/ UnregisterReply(t)
  PROVE  Drift' = Drift
<1>1. base' = base
  <2>1. \A s \in Tasks : ~(PatchReply(s) \/ CreditReply(s) \/ DebitReply(s)) \/ base' = base
    <3> SUFFICES ASSUME NEW s \in Tasks, PatchReply(s) \/ CreditReply(s) \/ DebitReply(s)
                 PROVE  base' = base
      OBVIOUS
    <3>1. CASE Command(t)
      BY <3>1 DEF Command, Register, Unregister, GiveMoney, Beg, Mine,
         BankBuy, Deposit, Withdraw, Share, SendUnread, SendAfterRead, Send
    <3>2. CASE RegisterReply(t) \/ UnregisterReply(t)
      <4>1. task'[t] # task[t]
        <5>1. PICK said : Return(t, said)
          BY <3>2 DEF RegisterReply, UnregisterReply
        <5> QED BY <3>2, <5>1 DEF Return, Done, IInv, TypeOK, RegisterReply, UnregisterReply
      <4>2. s = t
        BY <4>1, OnlyOneResumes DEF Reply
      <4> QED BY <3>2, <4>2 DEF RegisterReply, UnregisterReply, PatchReply,
                                CreditReply, DebitReply
    <3> QED BY <3>1, <3>2
  <2>2. Next
    BY DEF Next, Reply
  <2> QED BY <2>1, <2>2, BaseSteps
<1>2. issued' = issued
  BY DEF Command, Register, Unregister, GiveMoney, Beg, Mine,
     BankBuy, Deposit, Withdraw, Share, SendUnread, SendAfterRead, Send,
     RegisterReply, UnregisterReply
<1>3. CASE RegisterReply(t) \/ UnregisterReply(t)
  <2>1. PICK said \in {"ok", "error"} : Return(t, said)
    BY <1>3 DEF RegisterReply, UnregisterReply
  <2>2. Owed(task[t]) = 0
    BY <1>3 DEF RegisterReply, UnregisterReply, Owed
  <2> QED BY <1>1, <1>2, <2>1, <2>2, DoneOwes, DriftSame DEF Return, IInv
<1>4. CASE Command(t)
  <2>1. PICK f : /\ task' = [task EXCEPT ![t] = f] /\ f.pc # "debit"
                 /\ task[t].pc = "idle"
    <3>1. PICK cmd, u, req, seen :
            \E pc \in {"post", "delete", "patch", "credit"} :
              Send(t, cmd, u, pc, req, seen) /\ task[t].pc = "idle"
      BY <1>4, CommandSends
    <3> PICK pc \in {"post", "delete", "patch", "credit"} :
          Send(t, cmd, u, pc, req, seen) /\ task[t].pc = "idle"
      BY <3>1
    <3>2. task' = [task EXCEPT ![t] = FrameOf(cmd, u, pc, req, seen)]
          /\ FrameOf(cmd, u, pc, req, seen).pc = pc
      BY DEF Send, FrameOf
    <3> QED BY <3>1, <3>2
  <2>2. Owed(f) = 0 /\ Owed(task[t]) = 0
    BY <2>1 DEF Owed
  <2>3. f \in Frame
    <3>1. TypeOK'
      BY <1>4, NextInv DEF Next, IInv
    <3>2. task'[t] = f
      BY <2>1 DEF IInv, TypeOK
    <3> QED BY <3>1, <3>2 DEF TypeOK
  <2> QED BY <1>1, <1>2, <2>1, <2>2, <2>3, DriftSame DEF IInv
<1> QED BY <1>3, <1>4

\* A restart forgets the debits in flight, and nothing else.
LEMMA RestartDrift ==
  ASSUME IInv, FramesShaped, Restart
  PROVE  /\ Drift' # Drift => \E t \in Tasks : task[t].pc = "debit"
         /\ base' = base /\ \A t \in Tasks : task'[t].pc = "idle"
         /\ Drift' = Drift + Undebited /\ Drift \in Int /\ Undebited \in Int
<1> DEFINE F == [t \in Tasks |-> Owed(task[t])]
           H == [t \in Tasks |-> Owed(task'[t])]
<1>1. base' = base /\ issued' = issued /\ task' = [t \in Tasks |-> Done("nothing")]
  BY DEF Restart
<1>2. Coins' = Coins /\ Coins \in Int /\ issued \in Int /\ Undebited \in Int
  BY <1>1, CoinsType, UndebitedType DEF Coins, IInv, TypeOK
<1>3. \A t \in Tasks : task'[t].pc = "idle" /\ H[t] = 0
  BY <1>1, DoneOwes DEF Done
<1>4. Undebited' = SumFunctionOnSet(H, Tasks)
  BY DEF Undebited, Owed, SumFunction
<1>5. Undebited' = 0
  <2> HIDE DEF H
  <2> QED BY <1>3, <1>4, SumZero, CoinsAssumption
<1>6. (\A t \in Tasks : task[t].pc # "debit") => Undebited = 0
  <2> SUFFICES ASSUME \A t \in Tasks : task[t].pc # "debit" PROVE Undebited = 0
    OBVIOUS
  <2>1. \A t \in Tasks : F[t] = 0
    BY DEF Owed
  <2>2. Undebited = SumFunctionOnSet(F, Tasks)
    BY UndebitedIs
  <2> HIDE DEF F
  <2> QED BY <2>1, <2>2, SumZero, CoinsAssumption
<1>7. Drift = Coins - issued - Undebited /\ Drift' = Coins' - issued' - Undebited'
  BY DEF Drift
<1> QED BY <1>1, <1>2, <1>3, <1>5, <1>6, <1>7

\* share creates and destroys no coins, whatever runs between its requests.
THEOREM SharesConserved == Spec => SharesConserve
<1>1. ASSUME IInv, FramesShaped, [Next]_vars, Drift' # Drift
      PROVE  \E t \in Tasks :
               /\ task'[t].pc = "idle"
               /\ \/ task[t].pc = "credit" /\ task'[t].said = "error"
                  \/ task[t].pc = "debit" /\ base' = base
  <2>1. ASSUME NEW t \in Tasks, Command(t) PROVE FALSE
    BY <1>1, <2>1, OtherDrift
  <2>2. ASSUME NEW t \in Tasks, RegisterReply(t) \/ UnregisterReply(t) PROVE FALSE
    BY <1>1, <2>2, OtherDrift
  <2>3. ASSUME NEW t \in Tasks, PatchReply(t) PROVE FALSE
    BY <1>1, <2>3, PatchDrift
  <2>4. ASSUME NEW t \in Tasks, CreditReply(t)
        PROVE  task'[t].pc = "idle" /\ task[t].pc = "credit" /\ task'[t].said = "error"
    BY <1>1, <2>4, CreditDrift DEF CreditReply
  <2>5. ASSUME NEW t \in Tasks, DebitReply(t)
        PROVE  task'[t].pc = "idle" /\ task[t].pc = "debit" /\ base' = base
    BY <1>1, <2>5, DebitDrift DEF DebitReply
  <2>6. CASE Restart
    BY <1>1, <2>6, RestartDrift
  <2>7. CASE UNCHANGED vars
    BY <1>1, <2>7 DEF vars, Drift, Coins, Undebited
  <2> QED BY <1>1, <2>1, <2>2, <2>3, <2>4, <2>5, <2>6, <2>7 DEF Next, Reply
<1> QED BY <1>1, Invariance, ShapedInvariance, PTL DEF Spec, SharesConserve

\* A credit is no debt and a debit no gift, so what is lost on the way stays
\* with the users.
LEMMA GainStep ==
  ASSUME IInv, FramesShaped, SharesNeverLose, [Next]_vars
  PROVE  SharesNeverLose'
<1> SUFFICES ASSUME ~unchecked' PROVE Drift' >= 0
  BY DEF SharesNeverLose
<1>0. Drift \in Int
  BY CoinsType, UndebitedType DEF Drift, IInv, TypeOK
<1>1. ~unchecked
  <2>1. ASSUME NEW t \in Tasks, Command(t) PROVE unchecked' = unchecked
    BY <2>1, CommandSends DEF Send
  <2>2. ASSUME NEW t \in Tasks, Reply(t) PROVE unchecked => unchecked'
    BY <2>2 DEF Reply, RegisterReply, UnregisterReply, PatchReply,
       CreditReply, DebitReply, Observe
  <2>3. Restart \/ UNCHANGED vars => unchecked' = unchecked
    BY DEF Restart, vars
  <2> QED BY <2>1, <2>2, <2>3 DEF Next
<1>2. Drift >= 0
  BY <1>1 DEF SharesNeverLose
<1>3. ASSUME NEW t \in Tasks, Command(t) \/ RegisterReply(t) \/ UnregisterReply(t)
      PROVE  Drift' = Drift
  BY <1>3, OtherDrift
<1>4. ASSUME NEW t \in Tasks, PatchReply(t) PROVE Drift' = Drift
  BY <1>4, PatchDrift
<1>5. ASSUME NEW t \in Tasks, CreditReply(t) PROVE Drift' >= 0
  <2>1. task[t].pc = "credit" /\ task[t] \in Frame /\ Backed(task[t])
    BY <1>1, <1>5 DEF CreditReply, IInv, TypeOK, RequestsBacked
  <2>2. task[t].req.bal \in Int /\ task[t].req.bal >= 0
    BY <2>1 DEF Backed, Frame, PatchRequest, Account
  <2>3. Drift' \in {Drift, Drift + task[t].req.bal}
    BY <1>5, CreditDrift
  <2> QED BY <1>0, <1>2, <2>2, <2>3
<1>6. ASSUME NEW t \in Tasks, DebitReply(t) PROVE Drift' >= 0
  <2>1. task[t].pc = "debit" /\ task[t] \in Frame /\ Thrifty(task[t])
    BY <1>1, <1>6 DEF DebitReply, IInv, TypeOK, FramesShaped
  <2>2. task[t].req.bal \in Int /\ task[t].req.bal <= 0
    BY <2>1 DEF Thrifty, Frame, PatchRequest
  <2>3. Drift' \in {Drift, Drift - task[t].req.bal}
    BY <1>6, DebitDrift
  <2> QED BY <1>0, <1>2, <2>2, <2>3
<1>7. CASE Restart
  <2>1. Drift' = Drift + Undebited
    BY <1>7, RestartDrift
  <2>2. Undebited \in Nat
    <3> DEFINE F == [t \in Tasks |-> Owed(task[t])]
    <3>1. \A t \in Tasks : F[t] \in Nat
      <4> SUFFICES ASSUME NEW t \in Tasks PROVE Owed(task[t]) \in Nat
        OBVIOUS
      <4>1. task[t] \in Frame /\ Thrifty(task[t])
        BY <1>1 DEF IInv, TypeOK, FramesShaped
      <4> QED BY <4>1 DEF Thrifty, Frame, PatchRequest, Owed
    <3> HIDE DEF F
    <3>2. SumFunctionOnSet(F, Tasks) \in Nat
      BY <3>1, SumNat, CoinsAssumption
    <3> QED BY <3>2, UndebitedIs DEF F
  <2> QED BY <1>0, <1>2, <2>1, <2>2
<1>8. CASE UNCHANGED vars
  BY <1>2, <1>8 DEF vars, Drift, Coins, Undebited
<1> QED BY <1>2, <1>3, <1>4, <1>5, <1>6, <1>7, <1>8 DEF Next, Reply

LEMMA GainInit == Init => SharesNeverLose
<1> SUFFICES ASSUME Init PROVE Drift >= 0
  BY DEF SharesNeverLose
<1> DEFINE F == [u \in Users |-> Held(u)]
           H == [t \in Tasks |-> Owed(task[t])]
<1>1. \A u \in Users : F[u] = 0
  <2> SUFFICES ASSUME NEW u \in Users PROVE base[u].bal + base[u].bank = 0
    BY DEF Held
  <2>1. base[u].bal = 0 /\ base[u].bank = 0
    BY DEF Init, Fresh
  <2> QED BY <2>1
<1>2. \A t \in Tasks : H[t] = 0
  BY DEF Init, Owed, Done
<1>3. issued = 0
  BY DEF Init
<1> HIDE DEF F, H
<1>4. SumFunctionOnSet(F, Users) = 0 /\ SumFunctionOnSet(H, Tasks) = 0
  BY <1>1, <1>2, SumZero, CoinsAssumption
<1>5. Coins = 0 /\ Undebited = 0
  BY <1>4, CoinsIs, UndebitedIs DEF F, H
<1> QED BY <1>3, <1>5 DEF Drift

\* Lost requests and restarts between the two requests of a share leave
\* users with more coins, never with fewer, until a request meets an item
\* that changed under it.
THEOREM SharesGain == Spec => []SharesNeverLose
BY Invariance, ShapedInvariance, GainInit, GainStep, PTL DEF Spec

=============================================================================
