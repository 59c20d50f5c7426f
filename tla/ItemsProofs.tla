---------------------------- MODULE ItemsProofs ----------------------------
(***************************************************************************)
(* Theorems about Items, for any users, items, prices, inventories, sizes  *)
(* of a page and widths of the integers.  Solvency is inductive together   *)
(* with what each coroutine has checked: until some request has met what   *)
(* its handler had not seen (unchecked), every frame is Backed by the copy *)
(* it was decided on.  That trade makes nobody rich and that others take   *)
(* nothing, with the exceptions their statements list, holds whatever was  *)
(* met: it rests on AllTrading, about the keys, the signs and the prices   *)
(* of the requests in flight, and on the sums of Arithmetic.               *)
(***************************************************************************)
EXTENDS Items, PagesProofs, FiniteSetTheorems

SeenSolvent(a) == /\ a.bal >= 0
                  /\ \A k \in Kinds : a.inv.n[k] >= 0

\* The request of a frame takes no more than its handler saw there, if no
\* number was cut off.
Paid(f) ==
  /\ Exact(f) => /\ f.req.bank_max >= 0
                 /\ f.req.bal < 0 => -f.req.bal <= f.seen.bal
  /\ f.req.n < 0 => \/ f.cmd = "gibitem"
                    \/ /\ f.req.key = f.user
                       /\ -f.req.n <= f.seen.inv.n[f.req.item]

\* The inventories of a frame differ from what was seen in other kinds only.
Kept(f) ==
  \A v \in f.sets :
    /\ \A i \in Items : v.n[i] = f.seen.inv.n[i]
    /\ \A k \in Kinds : v.n[k] = f.seen.inv.n[k] \/ v.n[k] = 0

Backed(f) ==
  /\ SeenSolvent(f.seen)
  /\ Kept(f)
  /\ f.pc \in {"patch", "credit", "debit"} => Paid(f)
  /\ f.pc = "credit" => /\ f.req.n > 0 /\ f.req.bal = 0
                        /\ f.req.n <= f.seen.inv.n[f.req.item]
  /\ f.pc = "debit" => f.req.key = f.user

AllBacked == ~unchecked => \A t \in Tasks : Backed(task[t])

IInv == TypeOK /\ AllBacked /\ SolventUnlessUnchecked

---------------------------------------------------------------------------
(* Types of what the definitions yield. *)

LEMMA ItemsAreKinds == Items \subseteq Kinds
BY DEF Kinds

LEMMA IncrementType ==
  ASSUME NEW u \in Users, NEW i \in Items, NEW n \in Int, NEW bal \in Int
  PROVE  /\ Increment(u, i, n, bal) \in Request
         /\ Increment(u, i, n, bal).key = u /\ Increment(u, i, n, bal).item = i
         /\ Increment(u, i, n, bal).n = n /\ Increment(u, i, n, bal).bal = bal
         /\ Increment(u, i, n, bal).bank_max = 0
BY DEF Increment, Request

LEMMA NoRequestType ==
  NoRequest \in Request
BY ItemsAssumption DEF NoRequest, Request, Insurances

LEMMA FreshType == Fresh \in Account /\ SeenSolvent(Fresh)
<1>1. [k \in Kinds |-> 0] \in [Kinds -> Int] /\ {} \in SUBSET Kinds
  OBVIOUS
<1>2. [has |-> {}, n |-> [k \in Kinds |-> 0]] \in Inventory
  BY <1>1 DEF Inventory
<1>3. Fresh \in Account
  BY <1>2, ItemsAssumption DEF Fresh, Account
<1>4. Fresh.bal >= 0 /\ \A k \in Kinds : Fresh.inv.n[k] = 0
  BY ItemsAssumption DEF Fresh
<1> QED BY <1>3, <1>4 DEF SeenSolvent

LEMMA DoneType ==
  /\ Done \in Frame /\ Done.pc = "idle" /\ Done.seen = Fresh /\ Done.sets = {}
<1>1. Owner \in Users /\ {} \in SUBSET Inventory
  BY ItemsAssumption
<1> QED BY <1>1, NoRequestType, FreshType DEF Done, Frame

LEMMA DoneBacked == Done \in Frame /\ Backed(Done)
BY DoneType, FreshType DEF Backed, Kept

LEMMA IncrementedType ==
  ASSUME NEW a \in Account, NEW r \in Request
  PROVE  /\ Incremented(a, r) \in Account
         /\ Incremented(a, r).bal = a.bal + r.bal
         /\ Incremented(a, r).bank_max = a.bank_max + r.bank_max
         /\ \A k \in Kinds :
              Incremented(a, r).inv.n[k] =
                IF k = r.item THEN a.inv.n[k] + r.n ELSE a.inv.n[k]
<1>1. a.inv \in Inventory /\ r.item \in Items /\ r.item \in Kinds
  BY ItemsAreKinds DEF Account, Request
<1>2. a.inv.n \in [Kinds -> Int] /\ a.inv.has \subseteq Kinds /\ r.n \in Int
  BY <1>1 DEF Inventory, Request
<1> DEFINE has == IF r.n = 0 THEN a.inv.has ELSE a.inv.has \cup {r.item}
           n == [a.inv.n EXCEPT ![r.item] = @ + r.n]
<1>3. has \in SUBSET Kinds /\ n \in [Kinds -> Int]
  BY <1>1, <1>2
<1>4. \A k \in Kinds : n[k] = IF k = r.item THEN a.inv.n[k] + r.n ELSE a.inv.n[k]
  BY <1>1, <1>2
<1>5. Incremented(a, r) = [bal |-> a.bal + r.bal,
                           bank_max |-> a.bank_max + r.bank_max,
                           inv |-> [has |-> has, n |-> n]]
  BY DEF Incremented
<1> HIDE DEF has, n
<1>6. [has |-> has, n |-> n] \in Inventory
  BY <1>3 DEF Inventory
<1>7. a.bal + r.bal \in Int /\ a.bank_max + r.bank_max \in Int
  BY DEF Account, Request
<1> QED BY <1>4, <1>5, <1>6, <1>7 DEF Account

LEMMA ErasedType ==
  ASSUME NEW v \in Inventory, NEW gone
  PROVE  /\ Erased(v, gone) \in Inventory
         /\ \A k \in Kinds : Erased(v, gone).n[k] = IF k \in gone THEN 0 ELSE v.n[k]
BY DEF Erased, Inventory

LEMMA CompleteType ==
  ASSUME NEW v \in Inventory
  PROVE  Complete(v) \in Inventory /\ Complete(v).n = v.n
BY ItemsAreKinds DEF Complete, Inventory

\* What chkinv sends keeps all counts.
LEMMA chkinvKeeps ==
  ASSUME NEW v \in Inventory
  PROVE  \A w \in chkinv(v) : w \in Inventory /\ w.n = v.n
BY CompleteType DEF chkinv

---------------------------------------------------------------------------
(* The initial states. *)

LEMMA InitInv == Init => IInv
<1> SUFFICES ASSUME Init PROVE IInv
  OBVIOUS
<1>1. ASSUME NEW v \in FirstInventories
      PROVE  /\ [Fresh EXCEPT !.inv = v] \in Account
             /\ [Fresh EXCEPT !.inv = v].bal = FirstBal
             /\ [Fresh EXCEPT !.inv = v].bank_max = FirstBankMax
             /\ [Fresh EXCEPT !.inv = v].inv = v
             /\ \A k \in Kinds : v.n[k] >= 0
  <2>1. v \in Inventory /\ \A k \in Kinds : v.n[k] >= 0
    BY ItemsAssumption
  <2>2. Fresh.bal = FirstBal /\ Fresh.bank_max = FirstBankMax
    BY DEF Fresh
  <2> QED BY <2>1, <2>2, FreshType DEF Account
<1>2. \A u \in Users : /\ base[u] \in Account
                       /\ base[u].bal = FirstBal /\ base[u].bank_max = FirstBankMax
                       /\ \A k \in Kinds : base[u].inv.n[k] >= 0
  <2> SUFFICES ASSUME NEW u \in Users
               PROVE  /\ base[u] \in Account
                      /\ base[u].bal = FirstBal /\ base[u].bank_max = FirstBankMax
                      /\ \A k \in Kinds : base[u].inv.n[k] >= 0
    OBVIOUS
  <2>1. PICK v \in FirstInventories : base[u] = [Fresh EXCEPT !.inv = v]
    BY DEF Init
  <2> QED BY <1>1, <2>1
<1>3. TypeOK
  <2>1. base \in [Users -> Account]
    BY <1>2 DEF Init
  <2>2. task \in [Tasks -> Frame]
    BY DoneBacked DEF Init
  <2>3. unchecked \in BOOLEAN
    BY DEF Init
  <2> QED BY <2>1, <2>2, <2>3 DEF TypeOK
<1>4. AllBacked
  <2>1. \A t \in Tasks : task[t] = Done
    BY DEF Init
  <2> QED BY <2>1, DoneBacked DEF AllBacked
<1>5. SolventUnlessUnchecked
  <2>1. ASSUME NEW u \in Users
        PROVE  /\ base[u].bal >= 0 /\ base[u].bank_max >= FirstBankMax
               /\ \A k \in Kinds : base[u].inv.n[k] >= 0
    BY <1>2, ItemsAssumption
  <2> QED BY <2>1 DEF SolventUnlessUnchecked
<1> QED BY <1>3, <1>4, <1>5 DEF IInv

---------------------------------------------------------------------------
(* A command sends its request. *)

LEMMA SendStep ==
  ASSUME IInv, NEW t \in Tasks, NEW u \in Users,
         NEW cmd \in AllCommands \cup {"none"},
         NEW pc \in {"patch", "wipe", "credit", "detached"},
         NEW req \in Request, NEW sets \in SUBSET Inventory,
         Send(t, cmd, pc, u, req, sets),
         NEW f, f = [pc |-> pc, cmd |-> cmd, user |-> u, req |-> req,
                     seen |-> base[u], sets |-> sets],
         SeenSolvent(base[u]) => Backed(f)
  PROVE  IInv'
<1>1. base[u] \in Account
  BY DEF IInv, TypeOK
<1>2. f \in Frame
  BY <1>1 DEF Frame
<1>3. task' = [task EXCEPT ![t] = f] /\ UNCHANGED <<base, unchecked>>
  BY DEF Send
<1>4. TypeOK'
  <2>1. task' \in [Tasks -> Frame]
    BY <1>2, <1>3 DEF IInv, TypeOK
  <2> QED BY <1>3, <2>1 DEF IInv, TypeOK
<1>5. ~unchecked => SeenSolvent(base[u])
  BY DEF IInv, SolventUnlessUnchecked, SeenSolvent
<1>6. ASSUME ~unchecked PROVE \A d \in Tasks : Backed(task'[d])
  BY <1>3, <1>5, <1>6 DEF IInv, TypeOK, AllBacked
<1>7. AllBacked'
  BY <1>3, <1>6 DEF AllBacked, Backed, SeenSolvent, Kept, Paid
<1>8. SolventUnlessUnchecked'
  BY <1>3 DEF IInv, SolventUnlessUnchecked
<1> QED BY <1>4, <1>7, <1>8 DEF IInv

\* A command whose only request increments.
LEMMA PatchSent ==
  ASSUME IInv, NEW t \in Tasks, NEW u \in Users, NEW cmd \in AllCommands,
         NEW req \in Request, Send(t, cmd, "patch", u, req, {}),
         SeenSolvent(base[u]) =>
           /\ /\ cmd = "use" => Most(req.item, -req.n) \in Int32
              /\ cmd = "buy" => Fits(req.n * Price[req.item])
              /\ cmd = "sell" => Fits((-req.n) * HalfPrice(req.item))
              => req.bank_max >= 0 /\ (req.bal < 0 => -req.bal <= base[u].bal)
           /\ req.n < 0 => \/ cmd = "gibitem"
                           \/ req.key = u /\ -req.n <= base[u].inv.n[req.item]
  PROVE  IInv'
<1> DEFINE f == [pc |-> "patch", cmd |-> cmd, user |-> u, req |-> req,
                 seen |-> base[u], sets |-> {}]
<1>1. SeenSolvent(base[u]) => Backed(f)
  BY DEF Backed, Kept, Paid, Exact
<1>2. {} \in SUBSET Inventory
  OBVIOUS
<1> QED BY <1>1, <1>2, SendStep

\* A command that leaves requests to "set" behind.
LEMMA SetsSent ==
  ASSUME IInv, NEW t \in Tasks, NEW u \in Users, NEW cmd \in AllCommands,
         NEW sets, Send(t, cmd, "detached", u, NoRequest, sets),
         \A v \in sets :
           /\ v \in Inventory
           /\ \A i \in Items : v.n[i] = base[u].inv.n[i]
           /\ \A k \in Kinds : v.n[k] = base[u].inv.n[k] \/ v.n[k] = 0
  PROVE  IInv'
<1> DEFINE f == [pc |-> "detached", cmd |-> cmd, user |-> u, req |-> NoRequest,
                 seen |-> base[u], sets |-> sets]
<1>1. SeenSolvent(base[u]) => Backed(f)
  BY DEF Backed, Kept
<1>2. sets \in SUBSET Inventory
  OBVIOUS
<1> QED BY <1>1, <1>2, NoRequestType, SendStep

LEMMA RefuseStep ==
  ASSUME IInv, NEW t \in Tasks, NEW u \in Users, NEW cmd \in AllCommands,
         RefuseIncomplete(t, cmd, u)
  PROVE  IInv'
<1>1. base[u].inv \in Inventory
  BY DEF IInv, TypeOK, Account
<1>2. Send(t, cmd, "detached", u, NoRequest, chkinv(base[u].inv))
  BY DEF RefuseIncomplete
<1>3. \A v \in chkinv(base[u].inv) :
        /\ v \in Inventory
        /\ \A i \in Items : v.n[i] = base[u].inv.n[i]
        /\ \A k \in Kinds : v.n[k] = base[u].inv.n[k] \/ v.n[k] = 0
  BY <1>1, chkinvKeeps
<1> QED BY <1>2, <1>3, SetsSent

---------------------------------------------------------------------------
(* The commands. *)

\* "all" of a count that is not negative, or as many as there are at most.
LEMMA PartedBounds ==
  ASSUME NEW a \in Account, NEW i \in Items, NEW amount \in Parted(a, i)
  PROVE  /\ amount \in Int
         /\ a.inv.n[i] >= 0 => amount > 0 /\ amount <= a.inv.n[i]
<1>1. a.inv.n[i] \in Int
  BY ItemsAreKinds DEF Account, Inventory
<1> QED BY <1>1, ItemsAssumption DEF Parted

\* What is drawn for n items is no loss if an int can hold the bounds.
LEMMA DrawBounds ==
  ASSUME NEW n \in Int, NEW lo \in Nat, NEW hi \in Nat, lo <= hi,
         NEW amt \in Draw(n, lo, hi)
  PROVE  amt \in Int /\ (n >= 0 /\ hi * n \in Int32 => amt >= 0)
<1>1. /\ lo * n \in Int /\ hi * n \in Int
      /\ ToInt(lo * n) \in Int /\ ToInt(hi * n) \in Int
  BY ToIntType
<1>2. amt \in Int
  BY <1>1, ItemsAssumption DEF Draw
<1>3. ASSUME n >= 0, hi * n \in Int32 PROVE amt >= 0
  <2>1. 0 <= lo * n /\ lo * n <= hi * n
    BY <1>3, TimesNat, TimesMonotone
  <2>2. lo * n \in Int32
    BY <1>1, <1>3, <2>1, IntAssumption DEF Int32
  <2>3. ToInt(lo * n) = lo * n /\ ToInt(hi * n) = hi * n
    BY <1>3, <2>2, ToIntKeeps
  <2>4. amt \in (lo * n)..(hi * n)
    BY <2>1, <2>3 DEF Draw
  <2> QED BY <1>1, <2>1, <2>4
<1> QED BY <1>2, <1>3

LEMMA LongType ==
  ASSUME NEW n \in Int
  PROVE  Long(n) \in Int
BY ItemsAssumption DEF Long, Wrapped

\* All that bal pays for costs no more than bal.
LEMMA AffordBounds ==
  ASSUME NEW bal \in Int, NEW price \in Nat \ {0}
  PROVE  /\ Quotient(bal, price) \in Int
         /\ bal >= 0 => /\ Quotient(bal, price) >= 0
                        /\ Quotient(bal, price) * price <= bal
<1>1. Quotient(bal, price) \in Int
  BY QuotientBounds DEF Quotient
<1>2. ASSUME bal >= 0
      PROVE  Quotient(bal, price) >= 0 /\ Quotient(bal, price) * price <= bal
  <2>1. Quotient(bal, price) = bal \div price
    BY <1>2 DEF Quotient
  <2>2. bal \div price \in Int /\ price * (bal \div price) <= bal
    BY QuotientBounds
  <2>3. 0 <= bal \div price
    BY <1>2, QuotientAtLeast
  <2>4. price * (bal \div price) = (bal \div price) * price
    BY <2>2
  <2> QED BY <2>1, <2>2, <2>3, <2>4
<1> QED BY <1>1, <1>2

LEMMA BuyStep ==
  ASSUME IInv, NEW t \in Tasks, NEW u \in Users, Buy(t, u)
  PROVE  IInv'
<1>1. PICK i \in Purchasable, n \in Amounts :
        LET bal == base[u].bal
            amount == IF n = -1 THEN Quotient(bal, Price[i]) ELSE n
            cost == Long(amount * Price[i]) IN
        /\ IF n = -1 THEN amount # 0 ELSE n > 0 /\ bal >= cost
        /\ Send(t, "buy", "patch", u, Increment(u, i, amount, -cost), {})
  BY DEF Buy
<1> DEFINE bal == base[u].bal
           amount == IF n = -1 THEN Quotient(bal, Price[i]) ELSE n
           cost == Long(amount * Price[i])
           req == Increment(u, i, amount, -cost)
<1>2. bal \in Int /\ i \in Items /\ Price[i] \in Nat \ {0} /\ n \in Int
  BY ItemsAssumption DEF IInv, TypeOK, Account
<1>3. /\ amount \in Int
      /\ n = -1 /\ bal >= 0 => amount >= 0 /\ amount * Price[i] <= bal
  BY <1>2, AffordBounds
<1>4. IF n = -1 THEN amount # 0 ELSE n > 0 /\ amount = n /\ bal >= cost
  BY <1>1
<1>5. Send(t, "buy", "patch", u, req, {})
  BY <1>1
<1> HIDE DEF bal, amount
<1>6. cost \in Int /\ (Fits(amount * Price[i]) => cost = amount * Price[i])
  BY <1>2, <1>3, LongType DEF Fits
<1> HIDE DEF cost
<1>7. /\ req \in Request /\ req.key = u /\ req.item = i /\ req.n = amount
      /\ req.bal = -cost /\ req.bank_max = 0
  BY <1>2, <1>3, <1>6, IncrementType
<1> HIDE DEF req
<1>8. ASSUME bal >= 0
      PROVE  /\ Fits(req.n * Price[req.item]) => -req.bal <= bal
             /\ req.n >= 0
  <2>1. amount * Price[i] \in Int
    BY <1>2, <1>3
  <2>2. CASE n = -1
    BY <1>2, <1>3, <1>6, <1>7, <1>8, <2>1, <2>2
  <2>3. CASE n # -1
    BY <1>2, <1>4, <1>6, <1>7, <2>3
  <2> QED BY <2>2, <2>3
<1>9. SeenSolvent(base[u]) => bal >= 0
  BY DEF SeenSolvent, bal
<1>10. "buy" \in AllCommands
  BY DEF AllCommands
<1>11. req.n \in Int /\ ~(req.n >= 0 /\ req.n < 0)
  BY <1>3, <1>7
<1>12. SeenSolvent(base[u]) =>
         /\ req.bank_max >= 0
         /\ Fits(req.n * Price[req.item]) => -req.bal <= base[u].bal
         /\ ~(req.n < 0)
  BY <1>7, <1>8, <1>9, <1>11 DEF bal
<1> QED BY <1>5, <1>7, <1>10, <1>12, PatchSent

\* A sale of amount for what an int64_t keeps of its price.
LEMMA SellSends ==
  ASSUME IInv, NEW t \in Tasks, NEW u \in Users, Sell(t, u)
  PROVE  \E i \in Sellable :
           \/ RefuseIncomplete(t, "sell", u)
           \/ \E amount \in Parted(base[u], i), req \in Request :
                /\ Send(t, "sell", "patch", u, req, {})
                /\ i \in Items /\ base[u] \in Account /\ amount \in Int
                /\ req.key = u /\ req.item = i /\ req.n = -amount /\ -req.n = amount
                /\ req.bal = Long(amount * HalfPrice(i)) /\ req.bank_max = 0
                /\ amount * HalfPrice(i) \in Int /\ HalfPrice(i) \in Nat
<1>1. PICK i \in Sellable :
        \/ RefuseIncomplete(t, "sell", u)
        \/ \E amount \in Parted(base[u], i) :
             Send(t, "sell", "patch", u,
                  Increment(u, i, -amount, Long(amount * HalfPrice(i))), {})
  BY DEF Sell
<1>2. i \in Items /\ HalfPrice(i) \in Nat /\ base[u] \in Account
  BY ItemsAssumption DEF IInv, TypeOK, HalfPrice
<1>3. ASSUME NEW amount \in Parted(base[u], i),
             Send(t, "sell", "patch", u,
                  Increment(u, i, -amount, Long(amount * HalfPrice(i))), {})
      PROVE  \E req \in Request :
                /\ Send(t, "sell", "patch", u, req, {})
                /\ i \in Items /\ base[u] \in Account /\ amount \in Int
                /\ req.key = u /\ req.item = i /\ req.n = -amount /\ -req.n = amount
                /\ req.bal = Long(amount * HalfPrice(i)) /\ req.bank_max = 0
                /\ amount * HalfPrice(i) \in Int /\ HalfPrice(i) \in Nat
  <2> DEFINE gain == Long(amount * HalfPrice(i))
             req == Increment(u, i, -amount, gain)
  <2>1. amount \in Int /\ -amount \in Int /\ amount * HalfPrice(i) \in Int
    BY <1>2, PartedBounds
  <2>2. gain \in Int
    BY <2>1, LongType
  <2>3. Send(t, "sell", "patch", u, req, {})
    BY <1>3
  <2> HIDE DEF gain
  <2>4. /\ req \in Request /\ req.key = u /\ req.item = i /\ req.n = -amount
        /\ req.bal = gain /\ req.bank_max = 0
    BY <1>2, <2>1, <2>2, IncrementType
  <2> HIDE DEF req
  <2>5. -req.n = amount
    BY <2>1, <2>4
  <2> QED BY <1>2, <2>1, <2>3, <2>4, <2>5 DEF gain
<1> QED BY <1>1, <1>3

LEMMA SellStep ==
  ASSUME IInv, NEW t \in Tasks, NEW u \in Users, Sell(t, u)
  PROVE  IInv'
<1>1. "sell" \in AllCommands
  BY DEF AllCommands
<1>2. ASSUME NEW i \in Sellable, NEW amount \in Parted(base[u], i), NEW req \in Request,
             Send(t, "sell", "patch", u, req, {}),
             i \in Items, base[u] \in Account, amount \in Int,
             req.key = u, req.item = i, req.n = -amount, -req.n = amount,
             req.bal = Long(amount * HalfPrice(i)), req.bank_max = 0,
             amount * HalfPrice(i) \in Int, HalfPrice(i) \in Nat
      PROVE  IInv'
  <2>1. base[u].inv.n[i] >= 0 => amount > 0 /\ amount <= base[u].inv.n[i]
    BY <1>2, PartedBounds
  <2>2. amount > 0 => amount * HalfPrice(i) >= 0
    BY <1>2, TimesNat
  <2>3. amount > 0 /\ Fits((-req.n) * HalfPrice(req.item)) => ~(req.bal < 0)
    BY <1>2, <2>2 DEF Fits
  <2>4. SeenSolvent(base[u]) => base[u].inv.n[i] >= 0
    BY <1>2, ItemsAreKinds DEF SeenSolvent
  <2>5. SeenSolvent(base[u]) =>
          /\ req.bank_max >= 0
          /\ Fits((-req.n) * HalfPrice(req.item)) => ~(req.bal < 0)
          /\ -req.n <= base[u].inv.n[req.item]
    BY <1>2, <2>1, <2>3, <2>4
  <2> QED BY <1>1, <1>2, <2>5, PatchSent
<1> QED BY <1>1, <1>2, SellSends, RefuseStep

LEMMA UseStep ==
  ASSUME IInv, NEW t \in Tasks, NEW u \in Users, Use(t, u)
  PROVE  IInv'
<1>1. PICK i \in Items :
        \/ RefuseIncomplete(t, "use", u)
        \/ \E amount \in Parted(base[u], i) :
             \/ /\ i = "bank_space"
                /\ \E amt \in Draw(amount, SpaceMin, SpaceMax) :
                     Send(t, "use", "patch", u,
                          [Increment(u, i, -amount, 0) EXCEPT !.bank_max = amt], {})
             \/ /\ i = "coin_bag"
                /\ \E amt \in Draw(amount, BagMin, BagMax) :
                     Send(t, "use", "patch", u, Increment(u, i, -amount, amt), {})
  BY DEF Use
<1>2. /\ "use" \in AllCommands /\ i \in Kinds /\ base[u] \in Account
      /\ SeenSolvent(base[u]) => base[u].inv.n[i] >= 0
  BY ItemsAreKinds DEF AllCommands, IInv, TypeOK, SeenSolvent
<1>3. ASSUME NEW amount \in Parted(base[u], i)
      PROVE  /\ amount \in Int /\ -amount \in Int
             /\ base[u].inv.n[i] >= 0 => amount > 0 /\ amount <= base[u].inv.n[i]
  BY <1>2, PartedBounds
<1>4. ASSUME i = "bank_space",
             NEW amount \in Parted(base[u], i), NEW amt \in Draw(amount, SpaceMin, SpaceMax),
             Send(t, "use", "patch", u,
                  [Increment(u, i, -amount, 0) EXCEPT !.bank_max = amt], {})
      PROVE  IInv'
  <2>1. PICK req : req = [Increment(u, i, -amount, 0) EXCEPT !.bank_max = amt]
    OBVIOUS
  <2>2. amt \in Int /\ (amount >= 0 /\ Most(i, amount) \in Int32 => amt >= 0)
    BY <1>3, <1>4, DrawBounds, ItemsAssumption DEF Most
  <2>3. /\ req \in Request /\ req.key = u /\ req.item = i /\ req.n = -amount
        /\ req.bal = 0 /\ req.bank_max = amt
    BY <1>3, <2>1, <2>2 DEF Increment, Request
  <2>4. -req.n = amount
    BY <1>3, <2>3
  <2>5. SeenSolvent(base[u]) =>
          /\ Most(req.item, -req.n) \in Int32 => req.bank_max >= 0 /\ ~(req.bal < 0)
          /\ -req.n <= base[u].inv.n[req.item]
    BY <1>2, <1>3, <2>2, <2>3, <2>4
  <2>6. Send(t, "use", "patch", u, req, {})
    BY <1>4, <2>1
  <2> QED BY <1>2, <2>3, <2>5, <2>6, PatchSent
<1>5. ASSUME i = "coin_bag",
             NEW amount \in Parted(base[u], i), NEW amt \in Draw(amount, BagMin, BagMax),
             Send(t, "use", "patch", u, Increment(u, i, -amount, amt), {})
      PROVE  IInv'
  <2> DEFINE req == Increment(u, i, -amount, amt)
  <2>1. Send(t, "use", "patch", u, req, {})
    BY <1>5
  <2>2. amt \in Int /\ (amount >= 0 /\ Most(i, amount) \in Int32 => amt >= 0)
    BY <1>3, <1>5, DrawBounds, ItemsAssumption DEF Most
  <2>3. /\ req \in Request /\ req.key = u /\ req.item = i /\ req.n = -amount
        /\ req.bal = amt /\ req.bank_max = 0
    BY <1>3, <2>2, IncrementType
  <2> HIDE DEF req
  <2>4. -req.n = amount
    BY <1>3, <2>3
  <2>5. SeenSolvent(base[u]) =>
          /\ Most(req.item, -req.n) \in Int32 => req.bank_max >= 0 /\ ~(req.bal < 0)
          /\ -req.n <= base[u].inv.n[req.item]
    BY <1>2, <1>3, <2>2, <2>3, <2>4
  <2> QED BY <1>2, <2>1, <2>3, <2>5, PatchSent
<1> QED BY <1>1, <1>2, <1>4, <1>5, RefuseStep

LEMMA ShareItemStep ==
  ASSUME IInv, NEW t \in Tasks, NEW u \in Users, ShareItem(t, u)
  PROVE  IInv'
<1>1. PICK i \in Items :
        \/ RefuseIncomplete(t, "shareitem", u)
        \/ \E v \in Users \ {u}, amount \in Parted(base[u], i) :
             Send(t, "shareitem", "credit", u, Increment(v, i, amount, 0), {})
  BY DEF ShareItem
<1>2. /\ "shareitem" \in AllCommands /\ i \in Kinds /\ base[u] \in Account
      /\ SeenSolvent(base[u]) => base[u].inv.n[i] >= 0
  BY ItemsAreKinds DEF AllCommands, IInv, TypeOK, SeenSolvent
<1>3. ASSUME NEW v \in Users \ {u}, NEW amount \in Parted(base[u], i),
             Send(t, "shareitem", "credit", u, Increment(v, i, amount, 0), {})
      PROVE  IInv'
  <2> DEFINE req == Increment(v, i, amount, 0)
             f == [pc |-> "credit", cmd |-> "shareitem", user |-> u, req |-> req,
                   seen |-> base[u], sets |-> {}]
  <2>1. /\ amount \in Int
        /\ base[u].inv.n[i] >= 0 => amount > 0 /\ amount <= base[u].inv.n[i]
    BY <1>2, PartedBounds
  <2>2. /\ req \in Request /\ req.item = i /\ req.n = amount
        /\ req.bal = 0 /\ req.bank_max = 0
    BY <2>1, IncrementType
  <2>3. Send(t, "shareitem", "credit", u, req, {}) /\ {} \in SUBSET Inventory
    BY <1>3
  <2> HIDE DEF req
  <2>4. SeenSolvent(base[u]) =>
          /\ req.n > 0 /\ ~(req.n < 0) /\ ~(req.bal < 0) /\ req.bal = 0
          /\ req.bank_max >= 0 /\ req.n <= base[u].inv.n[req.item]
    BY <1>2, <2>1, <2>2
  <2>5. SeenSolvent(base[u]) => Backed(f)
    BY <2>4 DEF Backed, Kept, Paid
  <2> QED BY <1>2, <2>2, <2>3, <2>5, SendStep
<1> QED BY <1>1, <1>2, <1>3, RefuseStep

LEMMA GibItemStep ==
  ASSUME IInv, NEW t \in Tasks, NEW u \in Users, GibItem(t, u)
  PROVE  IInv'
<1>1. PICK gift \in Gifts :
        Send(t, "gibitem", "patch", Owner, Increment(u, gift[1], gift[2], 0), {})
  BY DEF GibItem
<1>2. gift[1] \in Items /\ gift[2] \in Int /\ Owner \in Users /\ "gibitem" \in AllCommands
  BY ItemsAssumption DEF AllCommands
<1> DEFINE req == Increment(u, gift[1], gift[2], 0)
<1>3. req \in Request /\ req.bal = 0 /\ req.bank_max = 0
  BY <1>2, IncrementType
<1>4. Send(t, "gibitem", "patch", Owner, req, {})
  BY <1>1
<1> HIDE DEF req
<1>5. req.bank_max >= 0 /\ ~(req.bal < 0)
  BY <1>3
<1> QED BY <1>2, <1>3, <1>4, <1>5, PatchSent

LEMMA MineStep ==
  ASSUME IInv, NEW t \in Tasks, NEW u \in Users, Mine(t, u)
  PROVE  IInv'
<1>1. /\ "mine" \in AllCommands /\ Insurances \subseteq Items
      /\ "puppy_pass" \in Items /\ "capitalism_blessing" \in Items
      /\ "horrorse_celery" \in Items
  BY ItemsAssumption DEF AllCommands, Insurances
<1>2. ASSUME NEW n \in MineAmounts, n < 0 => base[u].inv.n["horrorse_celery"] < -1,
             Send(t, "mine", "patch", u, Increment(u, "puppy_pass", 0, n), {})
      PROVE  IInv'
  <2> DEFINE req == Increment(u, "puppy_pass", 0, n)
  <2>1. n \in Int /\ Send(t, "mine", "patch", u, req, {})
    BY <1>2, ItemsAssumption
  <2>2. req \in Request /\ req.n = 0 /\ req.bal = n /\ req.bank_max = 0
    BY <1>1, <2>1, IncrementType
  <2> HIDE DEF req
  <2>3. SeenSolvent(base[u]) => base[u].inv.n["horrorse_celery"] >= 0
    BY <1>1, ItemsAreKinds DEF SeenSolvent
  <2>4. base[u].inv.n["horrorse_celery"] \in Int
    BY <1>1, ItemsAreKinds DEF IInv, TypeOK, Account, Inventory
  <2>5. SeenSolvent(base[u]) => req.bank_max >= 0 /\ ~(req.bal < 0) /\ ~(req.n < 0)
    BY <1>2, <2>1, <2>2, <2>3, <2>4
  <2> QED BY <1>1, <2>1, <2>2, <2>5, PatchSent
<1>3. ASSUME base[u].inv.n["capitalism_blessing"] > 0,
             Send(t, "mine", "patch", u, Increment(u, "capitalism_blessing", -1, 0), {})
      PROVE  IInv'
  <2> DEFINE req == Increment(u, "capitalism_blessing", -1, 0)
  <2>1. Send(t, "mine", "patch", u, req, {})
    BY <1>3
  <2>2. /\ req \in Request /\ req.key = u /\ req.item = "capitalism_blessing"
        /\ req.n = -1 /\ req.bal = 0 /\ req.bank_max = 0
    BY <1>1, IncrementType
  <2>3. base[u].inv.n["capitalism_blessing"] \in Int
    BY <1>1, ItemsAreKinds DEF IInv, TypeOK, Account, Inventory
  <2> HIDE DEF req
  <2>4. req.bank_max >= 0 /\ ~(req.bal < 0) /\ -req.n <= base[u].inv.n[req.item]
    BY <1>3, <2>2, <2>3
  <2> QED BY <1>1, <2>1, <2>2, <2>4, PatchSent
<1>4. ASSUME Send(t, "mine", "wipe", u, NoRequest, {})
      PROVE  IInv'
  <2> DEFINE f == [pc |-> "wipe", cmd |-> "mine", user |-> u, req |-> NoRequest,
                   seen |-> base[u], sets |-> {}]
  <2>1. SeenSolvent(base[u]) => Backed(f)
    BY DEF Backed, Kept
  <2>2. {} \in SUBSET Inventory
    OBVIOUS
  <2> QED BY <1>1, <1>4, <2>1, <2>2, NoRequestType, SendStep
<1> QED BY <1>2, <1>3, <1>4 DEF Mine

LEMMA ViewStep ==
  ASSUME IInv, NEW t \in Tasks, NEW u \in Users, ViewInventory(t, u)
  PROVE  IInv'
<1>1. PICK typed \in TypedPages :
        LET gone == Unknown(base[u].inv, ToInt(typed))
            v == Erased(base[u].inv, gone)
            sets == (IF gone = {} THEN {} ELSE {v}) \cup chkinv(v) IN
        Send(t, "inventory", "detached", u, NoRequest, sets)
  BY DEF ViewInventory
<1> DEFINE inv == base[u].inv
           gone == Unknown(inv, ToInt(typed))
           v == Erased(inv, gone)
           sets == (IF gone = {} THEN {} ELSE {v}) \cup chkinv(v)
<1>2. inv \in Inventory /\ "inventory" \in AllCommands
  BY DEF IInv, TypeOK, Account, AllCommands
<1>3. gone \cap Items = {}
  BY DEF Unknown
<1>4. /\ v \in Inventory
      /\ \A k \in Kinds : v.n[k] = IF k \in gone THEN 0 ELSE inv.n[k]
  BY <1>2, ErasedType
<1>5. \A w \in sets : w \in Inventory /\ w.n = v.n
  BY <1>4, chkinvKeeps
<1>6. Send(t, "inventory", "detached", u, NoRequest, sets)
  BY <1>1
<1> HIDE DEF v, gone, sets
<1>7. \A w \in sets :
        /\ w \in Inventory
        /\ \A i \in Items : w.n[i] = inv.n[i]
        /\ \A k \in Kinds : w.n[k] = inv.n[k] \/ w.n[k] = 0
  BY <1>3, <1>4, <1>5, ItemsAreKinds
<1> QED BY <1>2, <1>6, <1>7, SetsSent

LEMMA CommandStep ==
  ASSUME IInv, NEW t \in Tasks, Command(t)
  PROVE  IInv'
BY BuyStep, SellStep, UseStep, ShareItemStep, GibItemStep, MineStep, ViewStep
   DEF Command

---------------------------------------------------------------------------
(* A request is executed. *)

\* The item of key becomes a, or nothing changes.
LEMMA PatchChanges ==
  ASSUME NEW key, NEW a, \E status \in {200, 404, NoAnswer} : Patch(key, a, status)
  PROVE  base' = base \/ base' = [base EXCEPT ![key] = a]
BY DEF Patch

\* The frame of a share whose credit was answered.
DebitFrame(t) ==
  LET f == task[t] IN
  [f EXCEPT !.pc = "debit", !.req = Increment(f.user, f.req.item, -f.req.n, 0)]

LEMMA CreditChanges ==
  ASSUME NEW t, CreditReply(t)
  PROVE  /\ \/ task' = [task EXCEPT ![t] = DebitFrame(t)]
            \/ task' = [task EXCEPT ![t] = Done]
         /\ LET r == task[t].req IN
            \/ base' = base
            \/ base' = [base EXCEPT ![r.key] = Incremented(base[r.key], r)]
         /\ Observe(Covered(task[t]))
<1> DEFINE f == task[t]
           r == f.req
           a == Incremented(base[r.key], r)
           req == Increment(f.user, f.req.item, -f.req.n, 0)
           g == [f EXCEPT !.pc = "debit", !.req = req]
<1>1. PICK status \in {200, 404, NoAnswer} :
        /\ Patch(r.key, a, status)
        /\ task' = [task EXCEPT ![t] = IF status = 200 THEN g ELSE Done]
  BY DEF CreditReply
<1>2. DebitFrame(t) = g
  BY DEF DebitFrame
<1>3. Observe(Covered(f))
  BY DEF CreditReply
<1> HIDE DEF g
<1>4. \/ task' = [task EXCEPT ![t] = DebitFrame(t)]
      \/ task' = [task EXCEPT ![t] = Done]
  BY <1>1, <1>2
<1>5. base' = base \/ base' = [base EXCEPT ![r.key] = a]
  BY <1>1, PatchChanges
<1> QED BY <1>3, <1>4, <1>5

LEMMA DebitFrameIs ==
  ASSUME NEW t, task[t] \in Frame
  PROVE  LET f == task[t]
             g == DebitFrame(t) IN
         /\ g \in Frame /\ g.pc = "debit" /\ g.user = f.user
         /\ g.req = Increment(f.user, f.req.item, -f.req.n, 0)
         /\ g.seen = f.seen /\ g.sets = f.sets
<1> DEFINE f == task[t]
           req == Increment(f.user, f.req.item, -f.req.n, 0)
<1>1. req \in Request
  BY IncrementType DEF Frame, Request
<1> HIDE DEF f, req
<1>2. [f EXCEPT !.pc = "debit", !.req = req] \in Frame
  BY <1>1 DEF Frame, f
<1> QED BY <1>1, <1>2 DEF DebitFrame, Frame, f, req

LEMMA SetChanges ==
  ASSUME NEW t, SetReply(t)
  PROVE  LET f == task[t] IN
         \E v \in f.sets :
           /\ \/ base' = base
              \/ base' = [base EXCEPT ![f.user] = [base[f.user] EXCEPT !.inv = v]]
           /\ \/ task' = [task EXCEPT ![t] = Done]
              \/ task' = [task EXCEPT ![t] = [f EXCEPT !.sets = @ \ {v}]]
           /\ Observe(AsSeen(f))
BY PatchChanges DEF SetReply

\* A reply that leaves a Backed frame, and for one user an item that is
\* solvent if the request was covered, preserves the invariant.
LEMMA ReplyStep ==
  ASSUME IInv, NEW t \in Tasks, NEW f \in Frame, task' = [task EXCEPT ![t] = f],
         ~unchecked => Backed(f),
         NEW key \in Users, NEW a \in Account,
         base' = base \/ base' = [base EXCEPT ![key] = a],
         unchecked' \in BOOLEAN, unchecked => unchecked',
         ~unchecked' /\ base' # base /\ SeenSolvent(base[key])
                     /\ base[key].bank_max >= FirstBankMax =>
           SeenSolvent(a) /\ a.bank_max >= FirstBankMax
  PROVE  IInv'
<1>1. TypeOK'
  <2>1. base' \in [Users -> Account]
    BY DEF IInv, TypeOK
  <2>2. task' \in [Tasks -> Frame]
    BY DEF IInv, TypeOK
  <2> QED BY <2>1, <2>2 DEF TypeOK
<1>2. AllBacked'
  <2>1. ASSUME ~unchecked' PROVE \A d \in Tasks : Backed(task'[d])
    BY <2>1 DEF IInv, TypeOK, AllBacked
  <2> QED BY <2>1 DEF AllBacked, Backed, SeenSolvent, Kept, Paid
<1>3. ASSUME ~unchecked', NEW u \in Users
      PROVE  SeenSolvent(base'[u]) /\ base'[u].bank_max >= FirstBankMax
  <2>1. \A v \in Users : SeenSolvent(base[v]) /\ base[v].bank_max >= FirstBankMax
    BY <1>3 DEF IInv, SolventUnlessUnchecked, SeenSolvent
  <2>2. base'[u] = base[u] \/ (base'[u] = a /\ base' # base)
    BY DEF IInv, TypeOK
  <2> QED BY <1>3, <2>1, <2>2
<1>4. SolventUnlessUnchecked'
  BY <1>3 DEF SolventUnlessUnchecked, SeenSolvent
<1> QED BY <1>1, <1>2, <1>4 DEF IInv

LEMMA ObserveFacts ==
  ASSUME unchecked \in BOOLEAN, NEW ok, Observe(ok)
  PROVE  /\ unchecked' \in BOOLEAN /\ (unchecked => unchecked')
         /\ ~unchecked' => ~unchecked /\ (base' = base \/ ok)
BY DEF Observe

\* What a covered increment leaves is solvent.
LEMMA CoveredSolvent ==
  ASSUME NEW f \in Frame, f.req.key \in Users,
         f.pc \in {"patch", "credit", "debit"},
         Backed(f), Covered(f), base[f.req.key] \in Account,
         SeenSolvent(base[f.req.key]), base[f.req.key].bank_max >= FirstBankMax
  PROVE  LET a == Incremented(base[f.req.key], f.req) IN
         SeenSolvent(a) /\ a.bank_max >= FirstBankMax
<1> DEFINE r == f.req
           b == base[f.req.key]
           a == Incremented(b, r)
<1>1. /\ r \in Request /\ r.item \in Kinds /\ r.n \in Int /\ r.bal \in Int
      /\ r.bank_max \in Int /\ f.seen \in Account
      /\ f.seen.bal \in Int /\ f.seen.inv.n[r.item] \in Int
      /\ b.bal \in Int /\ b.bank_max \in Int /\ FirstBankMax \in Int
      /\ \A k \in Kinds : b.inv.n[k] \in Int
  BY ItemsAssumption, ItemsAreKinds DEF Frame, Request, Account, Inventory
<1>2. /\ a.bal = b.bal + r.bal /\ a.bank_max = b.bank_max + r.bank_max
      /\ \A k \in Kinds :
           a.inv.n[k] = IF k = r.item THEN b.inv.n[k] + r.n ELSE b.inv.n[k]
  BY <1>1, IncrementedType
<1>3. Paid(f)
  BY DEF Backed
<1>4. a.bal >= 0
  <2>1. r.bal < 0 => -r.bal <= f.seen.bal /\ b.bal >= f.seen.bal
    BY <1>3 DEF Paid, Covered
  <2>2. b.bal >= 0
    BY DEF SeenSolvent
  <2> HIDE DEF a, b, r
  <2> QED BY <1>1, <1>2, <2>1, <2>2
<1>5. a.bank_max >= FirstBankMax
  <2>1. r.bank_max >= 0 /\ b.bank_max >= FirstBankMax
    BY <1>3 DEF Paid, Covered
  <2> HIDE DEF a, b, r
  <2> QED BY <1>1, <1>2, <2>1
<1>6. ASSUME NEW k \in Kinds PROVE a.inv.n[k] >= 0
  <2>1. r.n < 0 => -r.n <= f.seen.inv.n[r.item] /\ b.inv.n[r.item] >= f.seen.inv.n[r.item]
    BY <1>3 DEF Paid, Covered
  <2>2. b.inv.n[k] >= 0
    BY DEF SeenSolvent
  <2> HIDE DEF a, b, r
  <2> QED BY <1>1, <1>2, <2>1, <2>2
<1> QED BY <1>4, <1>5, <1>6 DEF SeenSolvent

LEMMA PatchStep ==
  ASSUME IInv, NEW t \in Tasks, PatchReply(t)
  PROVE  IInv'
<1> DEFINE f == task[t]
           key == f.req.key
           a == Incremented(base[key], f.req)
<1>1. /\ f \in Frame /\ f.pc = "patch" /\ key \in Users /\ unchecked \in BOOLEAN
      /\ f.req \in Request /\ base[key] \in Account
  BY DEF IInv, TypeOK, PatchReply, Frame, Request
<1>2. a \in Account
  BY <1>1, IncrementedType
<1>3. /\ base' = base \/ base' = [base EXCEPT ![key] = a]
      /\ task' = [task EXCEPT ![t] = Done]
      /\ Observe(Covered(f))
  BY PatchChanges DEF PatchReply
<1>4. /\ unchecked' \in BOOLEAN /\ (unchecked => unchecked')
      /\ ~unchecked' => ~unchecked /\ (base' = base \/ Covered(f))
  BY <1>1, <1>3, ObserveFacts
<1>5. ~unchecked => Backed(f)
  BY DEF IInv, AllBacked
<1>6. ASSUME ~unchecked', base' # base, SeenSolvent(base[key]),
             base[key].bank_max >= FirstBankMax
      PROVE  SeenSolvent(a) /\ a.bank_max >= FirstBankMax
  BY <1>1, <1>4, <1>5, <1>6, CoveredSolvent
<1> HIDE DEF a, key
<1> QED BY <1>1, <1>2, <1>3, <1>4, <1>6, DoneBacked, ReplyStep

LEMMA WipeStep ==
  ASSUME IInv, NEW t \in Tasks, WipeReply(t)
  PROVE  IInv'
<1> DEFINE u == task[t].user
           a == [base[u] EXCEPT !.bal = 0]
<1>1. u \in Users /\ unchecked \in BOOLEAN /\ base[u] \in Account
  BY DEF IInv, TypeOK, Frame
<1>2. a \in Account /\ a.bal = 0 /\ a.bank_max = base[u].bank_max /\ a.inv = base[u].inv
  BY <1>1 DEF Account
<1>3. /\ base' = base \/ base' = [base EXCEPT ![u] = a]
      /\ task' = [task EXCEPT ![t] = Done] /\ unchecked' = unchecked
  BY PatchChanges DEF WipeReply
<1> HIDE DEF a, u
<1>4. SeenSolvent(base[u]) => SeenSolvent(a)
  BY <1>2 DEF SeenSolvent
<1> QED BY <1>1, <1>2, <1>3, <1>4, DoneBacked, ReplyStep

LEMMA CreditStep ==
  ASSUME IInv, NEW t \in Tasks, CreditReply(t)
  PROVE  IInv'
<1> DEFINE f == task[t]
           key == f.req.key
           a == Incremented(base[key], f.req)
           req == Increment(f.user, f.req.item, -f.req.n, 0)
           g == DebitFrame(t)
<1>1. /\ f \in Frame /\ f.pc = "credit" /\ key \in Users /\ unchecked \in BOOLEAN
      /\ f.req \in Request /\ base[key] \in Account
      /\ f.user \in Users /\ f.req.item \in Items /\ -f.req.n \in Int /\ f.req.n \in Int
  BY DEF IInv, TypeOK, CreditReply, Frame, Request
<1>2. a \in Account
  BY <1>1, IncrementedType
<1>3. /\ base' = base \/ base' = [base EXCEPT ![key] = a]
      /\ task' = [task EXCEPT ![t] = g] \/ task' = [task EXCEPT ![t] = Done]
      /\ Observe(Covered(f))
  BY CreditChanges
<1>4. /\ unchecked' \in BOOLEAN /\ (unchecked => unchecked')
      /\ ~unchecked' => ~unchecked /\ (base' = base \/ Covered(f))
  BY <1>1, <1>3, ObserveFacts
<1>5. ~unchecked => Backed(f)
  BY DEF IInv, AllBacked
<1>6. ASSUME ~unchecked', base' # base, SeenSolvent(base[key]),
             base[key].bank_max >= FirstBankMax
      PROVE  SeenSolvent(a) /\ a.bank_max >= FirstBankMax
  BY <1>1, <1>4, <1>5, <1>6, CoveredSolvent
<1>7. /\ req \in Request /\ req.key = f.user /\ req.item = f.req.item
      /\ req.n = -f.req.n /\ req.bal = 0 /\ req.bank_max = 0
  BY <1>1, IncrementType
<1>8. /\ g \in Frame /\ g.pc = "debit" /\ g.user = f.user /\ g.req = req
      /\ g.seen = f.seen /\ g.sets = f.sets
  BY <1>1, DebitFrameIs
<1> HIDE DEF req, g
<1>9. ~unchecked => Backed(g)
  <2>1. /\ ~(req.bal < 0) /\ req.bank_max >= 0
        /\ f.req.n <= f.seen.inv.n[f.req.item] => -req.n <= f.seen.inv.n[req.item]
    BY <1>1, <1>7
  <2> QED BY <1>1, <1>5, <1>7, <1>8, <2>1 DEF Backed, Kept, Paid
<1> HIDE DEF a, key, f
<1> QED BY <1>1, <1>2, <1>3, <1>4, <1>6, <1>8, <1>9, DoneBacked, ReplyStep

\* A debit is filed under the user of its frame, as is its request.
LEMMA DebitStep ==
  ASSUME IInv, NEW t \in Tasks, DebitReply(t)
  PROVE  IInv'
<1> DEFINE f == task[t]
           a == Incremented(base[f.user], f.req)
<1>1. /\ f \in Frame /\ f.pc = "debit" /\ f.user \in Users /\ unchecked \in BOOLEAN
      /\ f.req \in Request /\ base[f.user] \in Account
  BY DEF IInv, TypeOK, DebitReply, Frame, Request
<1>2. a \in Account
  BY <1>1, IncrementedType
<1>3. /\ base' = base \/ base' = [base EXCEPT ![f.user] = a]
      /\ task' = [task EXCEPT ![t] = Done]
      /\ Observe(Covered(f))
  BY PatchChanges DEF DebitReply
<1>4. /\ unchecked' \in BOOLEAN /\ (unchecked => unchecked')
      /\ ~unchecked' => ~unchecked /\ (base' = base \/ Covered(f))
  BY <1>1, <1>3, ObserveFacts
<1>5. ~unchecked => Backed(f) /\ f.req.key = f.user
  BY <1>1 DEF IInv, AllBacked, Backed
<1>6. ASSUME ~unchecked', base' # base, SeenSolvent(base[f.user]),
             base[f.user].bank_max >= FirstBankMax
      PROVE  SeenSolvent(a) /\ a.bank_max >= FirstBankMax
  BY <1>1, <1>4, <1>5, <1>6, CoveredSolvent
<1> HIDE DEF a, f
<1> QED BY <1>1, <1>2, <1>3, <1>4, <1>6, DoneBacked, ReplyStep

LEMMA SetStep ==
  ASSUME IInv, NEW t \in Tasks, SetReply(t)
  PROVE  IInv'
<1> DEFINE f == task[t]
           ok == AsSeen(f)
<1>1. /\ f \in Frame /\ f.pc = "detached" /\ f.user \in Users /\ unchecked \in BOOLEAN
      /\ base[f.user] \in Account
  BY DEF IInv, TypeOK, SetReply, Frame
<1>2. PICK v \in f.sets :
        /\ base' = base \/ base' = [base EXCEPT ![f.user] = [base[f.user] EXCEPT !.inv = v]]
        /\ \/ task' = [task EXCEPT ![t] = Done]
           \/ task' = [task EXCEPT ![t] = [f EXCEPT !.sets = @ \ {v}]]
        /\ Observe(ok)
  BY SetChanges
<1> DEFINE a == [base[f.user] EXCEPT !.inv = v]
           g == [f EXCEPT !.sets = @ \ {v}]
<1> HIDE DEF f
<1>3. v \in Inventory /\ f.sets \subseteq Inventory
  BY <1>1, <1>2 DEF Frame
<1>4. a \in Account /\ a.inv = v /\ a.bal = base[f.user].bal
      /\ a.bank_max = base[f.user].bank_max
  BY <1>1, <1>3 DEF Account
<1>5. /\ g \in Frame /\ g.pc = "detached" /\ g.seen = f.seen /\ g.sets = f.sets \ {v}
  BY <1>1, <1>3 DEF Frame
<1>6. /\ unchecked' \in BOOLEAN /\ (unchecked => unchecked')
      /\ ~unchecked' => ~unchecked
  BY <1>1, <1>2, ObserveFacts
<1>7. ~unchecked => Backed(f)
  BY DEF IInv, AllBacked, f
<1> HIDE DEF g
<1>8. ~unchecked => Backed(g)
  BY <1>5, <1>7 DEF Backed, Kept
<1>9. ASSUME ~unchecked', SeenSolvent(base[f.user])
      PROVE  SeenSolvent(a)
  <2>1. \A k \in Kinds : v.n[k] = f.seen.inv.n[k] \/ v.n[k] = 0
    BY <1>2, <1>6, <1>7, <1>9 DEF Backed, Kept
  <2>2. SeenSolvent(f.seen)
    BY <1>6, <1>7, <1>9 DEF Backed
  <2> HIDE DEF a
  <2>3. a.bal >= 0
    BY <1>4, <1>9 DEF SeenSolvent
  <2>4. \A k \in Kinds : a.inv.n[k] >= 0
    BY <1>4, <2>1, <2>2 DEF SeenSolvent
  <2> QED BY <2>3, <2>4 DEF SeenSolvent
<1>10. /\ base' = base \/ base' = [base EXCEPT ![f.user] = a]
       /\ \/ task' = [task EXCEPT ![t] = Done]
          \/ task' = [task EXCEPT ![t] = g]
  BY <1>2 DEF g
<1> HIDE DEF a, ok
<1> QED BY <1>1, <1>4, <1>5, <1>6, <1>8, <1>9, <1>10, DoneBacked, ReplyStep

---------------------------------------------------------------------------
(* All steps. *)

LEMMA DropStep ==
  ASSUME IInv, task' = [t \in Tasks |-> Done], UNCHANGED <<base, unchecked>>
  PROVE  IInv'
<1>1. TypeOK'
  BY DoneBacked DEF IInv, TypeOK
<1>2. \A t \in Tasks : Backed(task'[t])
  BY DoneBacked
<1>3. AllBacked'
  BY <1>2 DEF AllBacked, Backed, SeenSolvent, Kept, Paid
<1>4. SolventUnlessUnchecked'
  BY DEF IInv, SolventUnlessUnchecked
<1> QED BY <1>1, <1>3, <1>4 DEF IInv

LEMMA StepInv == IInv /\ [Next]_vars => IInv'
<1> SUFFICES ASSUME IInv, [Next]_vars PROVE IInv'
  OBVIOUS
<1>1. ASSUME NEW t \in Tasks, Reply(t) PROVE IInv'
  BY <1>1, PatchStep, WipeStep, CreditStep, DebitStep, SetStep DEF Reply
<1>2. CASE Restart
  BY <1>2, DropStep DEF Restart
<1>3. CASE Trap
  BY <1>3, DropStep DEF Trap
<1>4. CASE UNCHANGED vars
  BY <1>4 DEF vars, IInv, TypeOK, AllBacked, Backed, SeenSolvent, Kept, Paid,
              SolventUnlessUnchecked
<1> QED BY <1>1, <1>2, <1>3, <1>4, CommandStep DEF Next

\* Every reachable state satisfies IInv: as long as nothing unseen was met,
\* every request in flight is backed by the copy its handler decided on.
THEOREM Invariance == Spec => []IInv
BY InitInv, StepInv, PTL DEF Spec

\* Items, inventories and frames never leave their types.
THEOREM TypeCorrect == Spec => []TypeOK
<1>1. IInv => TypeOK
  BY DEF IInv
<1> QED BY <1>1, Invariance, PTL

\* For every price, inventory and width of the integers: nobody owes coins
\* or items unless a request met what its handler had not seen.
THEOREM Solvency == Spec => []SolventUnlessUnchecked
<1>1. IInv => SolventUnlessUnchecked
  BY DEF IInv
<1> QED BY <1>1, Invariance, PTL

---------------------------------------------------------------------------
(* What the requests in flight are like, whatever was met. *)

\* Which commands send which requests.  A sale or a purchase is charged at
\* what an int64_t keeps of its price; a count is negative only where the
\* handler saw a negative one; what is "set" has the counts that were seen.
Trading(f) ==
  /\ f.pc = "wipe" => f.cmd = "mine"
  /\ f.pc = "patch" =>
       /\ f.cmd \in {"buy", "sell", "use", "mine", "gibitem"}
       /\ f.cmd # "gibitem" => f.req.key = f.user
       /\ f.cmd = "buy" => f.req.bal = -Long(f.req.n * Price[f.req.item])
       /\ f.cmd = "sell" =>
            /\ f.req.bal = Long((-f.req.n) * HalfPrice(f.req.item))
            /\ f.req.n > 0 => f.seen.inv.n[f.req.item] < 0
  /\ f.pc \in {"credit", "debit"} => f.req.bal = 0
  /\ f.pc = "credit" /\ f.req.n < 0 => f.seen.inv.n[f.req.item] < 0
  /\ \A v \in f.sets, i \in Items : v.n[i] = f.seen.inv.n[i]

AllTrading == \A t \in Tasks : Trading(task[t])

LEMMA DoneTrading == Trading(Done)
BY DEF Done, Trading

\* A new frame in one slot.
LEMMA TradingStep ==
  ASSUME TypeOK, AllTrading, NEW t \in Tasks, NEW f,
         task' = [task EXCEPT ![t] = f], Trading(f)
  PROVE  AllTrading'
<1>1. \A s \in Tasks : task'[s] = IF s = t THEN f ELSE task[s]
  BY DEF TypeOK
<1> SUFFICES ASSUME NEW s \in Tasks PROVE Trading(task'[s])
  BY DEF AllTrading, Trading
<1>2. CASE s = t
  BY <1>1, <1>2
<1>3. CASE s # t
  BY <1>1, <1>3 DEF AllTrading
<1> QED BY <1>2, <1>3

\* What every command does: it fills an idle slot, and owes nothing yet.
Opened(t) ==
  \E f : /\ task[t].pc = "idle" /\ f.pc # "debit"
         /\ task' = [task EXCEPT ![t] = f]
         /\ UNCHANGED <<base, unchecked>>
         /\ Trading(f)

LEMMA PatchOpens ==
  ASSUME NEW t \in Tasks, task[t].pc = "idle", NEW u, NEW req,
         NEW cmd \in {"buy", "sell", "use", "mine", "gibitem"},
         \E user : /\ Send(t, cmd, "patch", user, req, {})
                   /\ user = u
                   /\ cmd # "gibitem" => req.key = user,
         cmd = "buy" => req.bal = -Long(req.n * Price[req.item]),
         cmd = "sell" =>
            /\ req.bal = Long((-req.n) * HalfPrice(req.item))
            /\ req.n > 0 => base[u].inv.n[req.item] < 0
  PROVE  Opened(t)
<1> DEFINE f == [pc |-> "patch", cmd |-> cmd, user |-> u, req |-> req,
                 seen |-> base[u], sets |-> {}]
<1>1. task' = [task EXCEPT ![t] = f] /\ UNCHANGED <<base, unchecked>>
  BY DEF Send
<1>2. /\ f.pc = "patch" /\ f.cmd = cmd /\ f.req = req /\ f.user = u
      /\ f.seen = base[u] /\ f.sets = {}
  OBVIOUS
<1> HIDE DEF f
<1>3. Trading(f)
  BY <1>2 DEF Trading
<1> QED BY <1>1, <1>2, <1>3 DEF Opened

\* A command that leaves requests to "set" behind.
LEMMA SetsOpen ==
  ASSUME NEW t \in Tasks, task[t].pc = "idle", NEW cmd, NEW u, NEW sets,
         Send(t, cmd, "detached", u, NoRequest, sets),
         \A v \in sets, i \in Items : v.n[i] = base[u].inv.n[i]
  PROVE  Opened(t)
<1> DEFINE f == [pc |-> "detached", cmd |-> cmd, user |-> u, req |-> NoRequest,
                 seen |-> base[u], sets |-> sets]
<1>1. task' = [task EXCEPT ![t] = f] /\ UNCHANGED <<base, unchecked>>
  BY DEF Send
<1>2. f.pc = "detached" /\ f.seen = base[u] /\ f.sets = sets
  OBVIOUS
<1> HIDE DEF f
<1>3. Trading(f)
  BY <1>2 DEF Trading
<1> QED BY <1>1, <1>2, <1>3 DEF Opened

LEMMA RefuseOpens ==
  ASSUME IInv, NEW t \in Tasks, NEW cmd, NEW u \in Users, RefuseIncomplete(t, cmd, u)
  PROVE  Opened(t)
<1>1. task[t].pc = "idle" /\ Send(t, cmd, "detached", u, NoRequest, chkinv(base[u].inv))
  BY DEF RefuseIncomplete, Start
<1>2. base[u].inv \in Inventory
  BY DEF IInv, TypeOK, Account
<1>3. \A v \in chkinv(base[u].inv), i \in Items : v.n[i] = base[u].inv.n[i]
  BY <1>2, chkinvKeeps
<1> QED BY <1>1, <1>3, SetsOpen

LEMMA BuyOpens ==
  ASSUME IInv, NEW t \in Tasks, NEW u \in Users, Buy(t, u)
  PROVE  Opened(t)
<1>1. PICK i \in Purchasable, n \in Amounts :
        LET bal == base[u].bal
            amount == IF n = -1 THEN Quotient(bal, Price[i]) ELSE n
            cost == Long(amount * Price[i]) IN
        Send(t, "buy", "patch", u, Increment(u, i, amount, -cost), {})
  BY DEF Buy
<1> DEFINE bal == base[u].bal
           amount == IF n = -1 THEN Quotient(bal, Price[i]) ELSE n
           req == Increment(u, i, amount, -Long(amount * Price[i]))
<1>2. Send(t, "buy", "patch", u, req, {}) /\ task[t].pc = "idle"
  BY <1>1 DEF Buy, Start
<1> HIDE DEF amount
<1>3. req.key = u /\ req.bal = -Long(req.n * Price[req.item])
  BY DEF Increment
<1> HIDE DEF req
<1> QED BY <1>2, <1>3, PatchOpens

LEMMA SellOpens ==
  ASSUME IInv, NEW t \in Tasks, NEW u \in Users, Sell(t, u)
  PROVE  Opened(t)
<1>1. task[t].pc = "idle"
  BY DEF Sell, Start
<1>2. ASSUME NEW i \in Sellable, NEW amount \in Parted(base[u], i), NEW req \in Request,
             Send(t, "sell", "patch", u, req, {}),
             i \in Items, base[u] \in Account, amount \in Int,
             req.key = u, req.item = i, req.n = -amount, -req.n = amount,
             req.bal = Long(amount * HalfPrice(i))
      PROVE  Opened(t)
  <2>1. base[u].inv.n[i] >= 0 => amount > 0
    BY <1>2, PartedBounds
  <2>2. base[u].inv.n[i] \in Int
    BY <1>2, ItemsAreKinds DEF Account, Inventory
  <2>3. req.n > 0 => base[u].inv.n[req.item] < 0
    BY <1>2, <2>1, <2>2
  <2> QED BY <1>1, <1>2, <2>3, PatchOpens
<1> QED BY <1>1, <1>2, SellSends, RefuseOpens

LEMMA UseOpens ==
  ASSUME IInv, NEW t \in Tasks, NEW u \in Users, Use(t, u)
  PROVE  Opened(t)
<1>1. task[t].pc = "idle"
  BY DEF Use, Start
<1>2. ASSUME NEW i, NEW amount, NEW amt,
             Send(t, "use", "patch", u,
                  [Increment(u, i, -amount, 0) EXCEPT !.bank_max = amt], {})
      PROVE  Opened(t)
  <2>1. [Increment(u, i, -amount, 0) EXCEPT !.bank_max = amt].key = u
    BY DEF Increment
  <2> QED BY <1>1, <1>2, <2>1, PatchOpens
<1>3. ASSUME NEW i, NEW amount, NEW amt,
             Send(t, "use", "patch", u, Increment(u, i, -amount, amt), {})
      PROVE  Opened(t)
  <2>1. Increment(u, i, -amount, amt).key = u
    BY DEF Increment
  <2> QED BY <1>1, <1>3, <2>1, PatchOpens
<1> QED BY <1>2, <1>3, RefuseOpens DEF Use

LEMMA ShareItemOpens ==
  ASSUME IInv, NEW t \in Tasks, NEW u \in Users, ShareItem(t, u)
  PROVE  Opened(t)
<1>1. task[t].pc = "idle"
  BY DEF ShareItem, Start
<1>2. ASSUME NEW i \in Items, NEW v, NEW amount \in Parted(base[u], i),
             Send(t, "shareitem", "credit", u, Increment(v, i, amount, 0), {})
      PROVE  Opened(t)
  <2> DEFINE req == Increment(v, i, amount, 0)
             f == [pc |-> "credit", cmd |-> "shareitem", user |-> u, req |-> req,
                   seen |-> base[u], sets |-> {}]
  <2>1. base[u] \in Account /\ base[u].inv.n[i] \in Int
    BY ItemsAreKinds DEF IInv, TypeOK, Account, Inventory
  <2>2. amount \in Int /\ (base[u].inv.n[i] >= 0 => amount > 0)
    BY <2>1, PartedBounds
  <2>3. req.bal = 0 /\ req.n = amount /\ req.item = i
    BY DEF Increment
  <2>4. task' = [task EXCEPT ![t] = f] /\ UNCHANGED <<base, unchecked>>
    BY <1>2 DEF Send
  <2> HIDE DEF req
  <2>5. f.pc = "credit" /\ f.req = req /\ f.seen = base[u] /\ f.sets = {}
    OBVIOUS
  <2> HIDE DEF f
  <2>6. req.n < 0 => base[u].inv.n[req.item] < 0
    BY <2>1, <2>2, <2>3
  <2>7. Trading(f)
    BY <2>3, <2>5, <2>6 DEF Trading
  <2> QED BY <1>1, <2>4, <2>5, <2>7 DEF Opened
<1> QED BY <1>2, RefuseOpens DEF ShareItem

LEMMA MineOpens ==
  ASSUME IInv, NEW t \in Tasks, NEW u \in Users, Mine(t, u)
  PROVE  Opened(t)
<1>1. task[t].pc = "idle"
  BY DEF Mine, Start
<1>2. CASE Send(t, "mine", "wipe", u, NoRequest, {})
  <2> DEFINE f == [pc |-> "wipe", cmd |-> "mine", user |-> u, req |-> NoRequest,
                   seen |-> base[u], sets |-> {}]
  <2>1. task' = [task EXCEPT ![t] = f] /\ UNCHANGED <<base, unchecked>>
    BY <1>2 DEF Send
  <2>2. Trading(f) /\ f.pc # "debit"
    BY DEF Trading
  <2> QED BY <1>1, <2>1, <2>2 DEF Opened
<1>3. ASSUME NEW i, NEW n, NEW bal, Send(t, "mine", "patch", u, Increment(u, i, n, bal), {})
      PROVE  Opened(t)
  <2>1. Increment(u, i, n, bal).key = u
    BY DEF Increment
  <2> QED BY <1>1, <1>3, <2>1, PatchOpens
<1> QED BY <1>2, <1>3 DEF Mine

LEMMA ViewOpens ==
  ASSUME IInv, NEW t \in Tasks, NEW u \in Users, ViewInventory(t, u)
  PROVE  Opened(t)
<1>1. PICK typed \in TypedPages :
        LET gone == Unknown(base[u].inv, ToInt(typed))
            v == Erased(base[u].inv, gone)
            sets == (IF gone = {} THEN {} ELSE {v}) \cup chkinv(v) IN
        Send(t, "inventory", "detached", u, NoRequest, sets)
  BY DEF ViewInventory
<1> DEFINE inv == base[u].inv
           gone == Unknown(inv, ToInt(typed))
           v == Erased(inv, gone)
           sets == (IF gone = {} THEN {} ELSE {v}) \cup chkinv(v)
<1>2. inv \in Inventory /\ task[t].pc = "idle"
  BY DEF IInv, TypeOK, Account, ViewInventory, Start
<1>3. gone \cap Items = {}
  BY DEF Unknown
<1>4. /\ v \in Inventory
      /\ \A k \in Kinds : v.n[k] = IF k \in gone THEN 0 ELSE inv.n[k]
  BY <1>2, ErasedType
<1>5. \A w \in sets : w.n = v.n
  BY <1>4, chkinvKeeps
<1>6. Send(t, "inventory", "detached", u, NoRequest, sets)
  BY <1>1
<1> HIDE DEF v, gone, sets
<1>7. \A w \in sets, i \in Items : w.n[i] = inv.n[i]
  BY <1>3, <1>4, <1>5, ItemsAreKinds
<1> QED BY <1>2, <1>6, <1>7, SetsOpen

LEMMA CommandOpens ==
  ASSUME IInv, NEW t \in Tasks, Command(t)
  PROVE  Opened(t)
<1> PICK u \in Users :
      \/ Buy(t, u) \/ Sell(t, u) \/ Use(t, u) \/ ShareItem(t, u)
      \/ GibItem(t, u) \/ Mine(t, u) \/ ViewInventory(t, u)
  BY DEF Command
<1>1. CASE GibItem(t, u)
  BY <1>1, PatchOpens DEF GibItem, Start
<1> QED BY <1>1, BuyOpens, SellOpens, UseOpens, ShareItemOpens, MineOpens, ViewOpens

LEMMA TradingInit == Init => AllTrading
BY DoneTrading DEF Init, AllTrading

LEMMA AllTradingStep == IInv /\ AllTrading /\ [Next]_vars => AllTrading'
<1> SUFFICES ASSUME IInv, AllTrading, [Next]_vars PROVE AllTrading'
  OBVIOUS
<1>1. ASSUME NEW t \in Tasks, Command(t) PROVE AllTrading'
  <2>1. PICK f : task' = [task EXCEPT ![t] = f] /\ Trading(f)
    BY <1>1, CommandOpens DEF Opened
  <2> QED BY <2>1, TradingStep DEF IInv
<1>2. ASSUME NEW t \in Tasks, PatchReply(t) \/ WipeReply(t) \/ DebitReply(t)
      PROVE  AllTrading'
  <2>1. task' = [task EXCEPT ![t] = Done]
    BY <1>2 DEF PatchReply, WipeReply, DebitReply
  <2> QED BY <2>1, DoneTrading, TradingStep DEF IInv
<1>3. ASSUME NEW t \in Tasks, CreditReply(t) PROVE AllTrading'
  <2>1. \/ task' = [task EXCEPT ![t] = DebitFrame(t)]
        \/ task' = [task EXCEPT ![t] = Done]
    BY <1>3, CreditChanges
  <2>2. task[t] \in Frame /\ Trading(task[t])
    BY DEF IInv, TypeOK, AllTrading
  <2>3. /\ DebitFrame(t).pc = "debit" /\ DebitFrame(t).req.bal = 0
        /\ DebitFrame(t).sets = task[t].sets /\ DebitFrame(t).seen = task[t].seen
    <3>1. \A u, i, n : Increment(u, i, n, 0).bal = 0
      BY DEF Increment
    <3> QED BY <2>2, <3>1, DebitFrameIs
  <2>4. Trading(DebitFrame(t))
    BY <2>2, <2>3 DEF Trading
  <2> QED BY <2>1, <2>4, DoneTrading, TradingStep DEF IInv
<1>4. ASSUME NEW t \in Tasks, SetReply(t) PROVE AllTrading'
  <2> DEFINE f == task[t]
  <2>1. PICK v \in f.sets :
          \/ task' = [task EXCEPT ![t] = Done]
          \/ task' = [task EXCEPT ![t] = [f EXCEPT !.sets = @ \ {v}]]
    BY <1>4, SetChanges
  <2> DEFINE g == [f EXCEPT !.sets = @ \ {v}]
  <2>2. f \in Frame /\ f.pc = "detached" /\ Trading(f)
    BY <1>4 DEF IInv, TypeOK, SetReply, AllTrading
  <2>3. g.pc = "detached" /\ g.sets = f.sets \ {v} /\ g.seen = f.seen
    BY <2>2 DEF Frame
  <2>4. \/ task' = [task EXCEPT ![t] = Done]
        \/ task' = [task EXCEPT ![t] = g]
    BY <2>1
  <2> HIDE DEF g
  <2>5. Trading(g)
    BY <2>2, <2>3 DEF Trading
  <2> QED BY <2>4, <2>5, DoneTrading, TradingStep DEF IInv
<1>5. CASE Restart \/ Trap
  BY <1>5, DoneTrading DEF Restart, Trap, AllTrading, Trading
<1>6. CASE UNCHANGED vars
  BY <1>6 DEF vars, AllTrading, Trading
<1> QED BY <1>1, <1>2, <1>3, <1>4, <1>5, <1>6 DEF Next, Reply

LEMMA TradingInvariance == Spec => []AllTrading
BY Invariance, TradingInit, AllTradingStep, PTL DEF Spec

---------------------------------------------------------------------------
(* What a step may do to the counts of shop items. *)

\* Which replies change counts: increments, and sets that do not find all
\* counts of shop items as they were seen.
LEMMA CountsChange ==
  ASSUME IInv, AllTrading, [Next]_vars,
         NEW u \in Users, NEW i \in Items, base'[u].inv.n[i] # base[u].inv.n[i]
  PROVE  \E t \in Tasks :
           LET f == task[t] IN
           /\ task'[t] # f
           /\ \/ /\ f.pc \in {"patch", "credit", "debit"}
                 /\ f.pc = "debit" => f.user = u
                 /\ f.pc # "debit" => f.req.key = u
                 /\ f.req.item = i
                 /\ base'[u].inv.n[i] = base[u].inv.n[i] + f.req.n
              \/ f.pc = "detached" /\ f.user = u /\ ~AsSeen(f)
<1>1. base' # base /\ i \in Kinds
  BY ItemsAreKinds DEF IInv, TypeOK
<1>2. PICK t \in Tasks : PatchReply(t) \/ WipeReply(t) \/ CreditReply(t)
                           \/ DebitReply(t) \/ SetReply(t)
  BY <1>1 DEF Next, Command, Reply, Buy, Sell, Use, ShareItem, GibItem, Mine,
     ViewInventory, RefuseIncomplete, Send, Restart, Trap, vars
<1> DEFINE f == task[t]
<1>3. /\ f \in Frame /\ f.req \in Request /\ f.req.key \in Users /\ f.user \in Users
      /\ base[u] \in Account /\ f.req.item \in Items
  BY DEF IInv, TypeOK, Frame, Request
<1>4. ASSUME NEW key \in Users, base' = base \/ base' = [base EXCEPT ![key] = Incremented(base[key], f.req)]
      PROVE  /\ key = u /\ f.req.item = i
             /\ base'[u].inv.n[i] = base[u].inv.n[i] + f.req.n
  <2>1. key = u /\ base'[u] = Incremented(base[u], f.req)
    BY <1>1, <1>4 DEF IInv, TypeOK
  <2> HIDE DEF f
  <2>2. base'[u].inv.n[i] = IF i = f.req.item THEN base[u].inv.n[i] + f.req.n
                                              ELSE base[u].inv.n[i]
    BY <1>1, <1>3, <2>1, IncrementedType
  <2> QED BY <2>1, <2>2
<1>5. CASE PatchReply(t) \/ CreditReply(t) \/ DebitReply(t)
  <2> DEFINE key == IF DebitReply(t) THEN f.user ELSE f.req.key
  <2>1. /\ f.pc \in {"patch", "credit", "debit"}
        /\ DebitReply(t) <=> f.pc = "debit"
    BY <1>5 DEF PatchReply, CreditReply, DebitReply
  <2>2. base' = base \/ base' = [base EXCEPT ![key] = Incremented(base[key], f.req)]
    <3>1. CASE f.pc = "debit"
      BY <2>1, <3>1, PatchChanges DEF DebitReply
    <3>2. CASE f.pc # "debit"
      BY <1>5, <2>1, <3>2, PatchChanges DEF PatchReply, CreditReply
    <3> QED BY <3>1, <3>2
  <2>3. key \in Users
    BY <1>3
  <2>4. task'[t] # f
    <3>1. CASE f.pc = "credit"
      <4>1. CreditReply(t)
        BY <1>5, <3>1 DEF PatchReply, DebitReply
      <4>2. task'[t] = DebitFrame(t) \/ task'[t] = Done
        BY <4>1, CreditChanges DEF IInv, TypeOK
      <4> QED BY <1>3, <3>1, <4>2, DebitFrameIs, DoneType
    <3>2. CASE f.pc # "credit"
      <4>1. task' = [task EXCEPT ![t] = Done]
        BY <1>5, <3>2 DEF PatchReply, CreditReply, DebitReply
      <4> QED BY <2>1, <4>1, DoneType DEF IInv, TypeOK
    <3> QED BY <3>1, <3>2
  <2> HIDE DEF f
  <2>5. key = u /\ f.req.item = i /\ base'[u].inv.n[i] = base[u].inv.n[i] + f.req.n
    BY <1>4, <2>2, <2>3 DEF f
  <2>6. (f.pc = "debit" => f.user = u) /\ (f.pc # "debit" => f.req.key = u)
    BY <2>1, <2>5
  <2> QED BY <2>1, <2>4, <2>5, <2>6 DEF f
<1>6. CASE WipeReply(t)
  <2>1. base' = [base EXCEPT ![f.user] = [base[f.user] EXCEPT !.bal = 0]]
    BY <1>1, <1>6, PatchChanges DEF WipeReply
  <2>2. [base[f.user] EXCEPT !.bal = 0].inv = base[f.user].inv
    BY <1>3 DEF IInv, TypeOK, Account
  <2>3. base'[u].inv = base[u].inv
    BY <1>3, <2>1, <2>2 DEF IInv, TypeOK
  <2> QED BY <2>3
<1>7. CASE SetReply(t)
  <2>1. PICK v \in f.sets :
          /\ base' = base \/ base' = [base EXCEPT ![f.user] = [base[f.user] EXCEPT !.inv = v]]
          /\ \/ task' = [task EXCEPT ![t] = Done]
             \/ task' = [task EXCEPT ![t] = [f EXCEPT !.sets = @ \ {v}]]
    BY <1>7, SetChanges
  <2>2. f.pc = "detached" /\ \A j \in Items : v.n[j] = f.seen.inv.n[j]
    BY <1>7, <2>1 DEF AllTrading, Trading, SetReply
  <2>3. [base[f.user] EXCEPT !.inv = v].inv = v
    BY <1>3 DEF IInv, TypeOK, Account
  <2>4. f.user = u /\ base'[u].inv = v
    BY <1>1, <1>3, <2>1, <2>3 DEF IInv, TypeOK
  <2>5. ~AsSeen(f)
    BY <2>2, <2>4 DEF AsSeen
  <2>6. task'[t] # f
    BY <1>3, <2>1, <2>2, DoneType DEF IInv, TypeOK, Frame
  <2> QED BY <2>2, <2>4, <2>5, <2>6
<1> QED BY <1>2, <1>5, <1>6, <1>7

\* A shop item leaves a user's inventory by a request of a command of that
\* user, and otherwise only by a negative gift, by a share of somebody who
\* owes items, or by a "set" of a whole inventory that was changed since it
\* was read: whatever the interleaving, nothing else takes.
THEOREM OthersTakeNothing == Spec => OnlyOwnCommandsTake
<1> DEFINE Taking(t, u, i) ==
             LET f == task[t] IN
             /\ task'[t] # f
             /\ \/ f.user = u /\ f.pc = "debit"
                \/ f.user = u /\ f.pc = "patch" /\ f.cmd # "gibitem"
                \/ f.cmd = "gibitem" /\ f.req.key = u /\ f.req.n < 0
                \/ f.pc = "credit" /\ f.req.key = u /\ f.seen.inv.n[i] < 0
                \/ f.user = u /\ f.pc = "detached" /\ ~AsSeen(f)
           A == \A u \in Users, i \in Items :
                  base'[u].inv.n[i] < base[u].inv.n[i] => \E t \in Tasks : Taking(t, u, i)
<1>1. ASSUME IInv, AllTrading, [Next]_vars, NEW u \in Users, NEW i \in Items,
             base'[u].inv.n[i] < base[u].inv.n[i]
      PROVE  \E t \in Tasks : Taking(t, u, i)
  <2>1. base[u].inv.n[i] \in Int
    BY <1>1, ItemsAreKinds DEF IInv, TypeOK, Account, Inventory
  <2>2. base'[u].inv.n[i] # base[u].inv.n[i]
    BY <1>1, <2>1
  <2>3. PICK t \in Tasks :
           LET f == task[t] IN
           /\ task'[t] # f
           /\ \/ /\ f.pc \in {"patch", "credit", "debit"}
                 /\ f.pc = "debit" => f.user = u
                 /\ f.pc # "debit" => f.req.key = u
                 /\ f.req.item = i
                 /\ base'[u].inv.n[i] = base[u].inv.n[i] + f.req.n
              \/ f.pc = "detached" /\ f.user = u /\ ~AsSeen(f)
    BY <1>1, <2>2, CountsChange
  <2> DEFINE f == task[t]
  <2>4. f.req.n \in Int /\ Trading(f)
    BY <1>1 DEF IInv, TypeOK, Frame, Request, AllTrading
  <2>5. CASE f.pc = "detached"
    BY <2>3, <2>5
  <2>6. CASE f.pc # "detached"
    <3> HIDE DEF f
    <3>1. f.req.n < 0
      BY <1>1, <2>1, <2>3, <2>4, <2>6 DEF f
    <3>2. CASE f.pc = "debit"
      BY <2>3, <3>2 DEF f
    <3>3. CASE f.pc = "credit"
      BY <2>3, <2>4, <3>1, <3>3 DEF Trading, f
    <3>4. CASE f.pc = "patch"
      BY <2>3, <2>4, <3>1, <3>4 DEF Trading, f
    <3> QED BY <2>3, <2>6, <3>2, <3>3, <3>4 DEF f
  <2> QED BY <2>5, <2>6
<1> HIDE DEF Taking
<1>2. IInv /\ AllTrading /\ [Next]_vars => [A]_vars
  BY <1>1
<1> QED BY <1>2, Invariance, TradingInvariance, PTL DEF Spec, OnlyOwnCommandsTake, Taking

---------------------------------------------------------------------------
(* Sums: the worth of an item, of all items, and of what is lent. *)

LEMMA WorthIs ==
  ASSUME NEW a \in Account
  PROVE  /\ Worth(a) = a.bal +
              SumFunctionOnSet([i \in Items |-> Price[i] * a.inv.n[i]], Items)
         /\ Numbers([i \in Items |-> Price[i] * a.inv.n[i]], Items)
         /\ a.bal \in Int /\ Worth(a) \in Int
<1> DEFINE F == [i \in Items |-> Price[i] * a.inv.n[i]]
<1>1. \A i \in Items : Price[i] \in Int /\ a.inv.n[i] \in Int
  BY ItemsAssumption, ItemsAreKinds DEF Account, Inventory
<1>2. Numbers(F, Items)
  BY <1>1 DEF Numbers
<1>3. Worth(a) = a.bal + SumFunctionOnSet(F, Items) /\ a.bal \in Int
  BY DEF Worth, SumFunction, Account
<1> HIDE DEF F
<1>4. SumFunctionOnSet(F, Items) \in Int
  BY <1>2, SumType, ItemsAssumption
<1> QED BY <1>2, <1>3, <1>4 DEF F

\* The same counts of shop items are worth the same.
LEMMA WorthSame ==
  ASSUME NEW a \in Account, NEW b \in Account,
         \A i \in Items : b.inv.n[i] = a.inv.n[i]
  PROVE  Worth(b) = Worth(a) - a.bal + b.bal
<1> DEFINE F == [i \in Items |-> Price[i] * a.inv.n[i]]
           H == [i \in Items |-> Price[i] * b.inv.n[i]]
<1>1. F = H
  OBVIOUS
<1>2. /\ Worth(a) = a.bal + SumFunctionOnSet(F, Items)
      /\ Worth(b) = b.bal + SumFunctionOnSet(H, Items)
      /\ Numbers(F, Items) /\ a.bal \in Int /\ b.bal \in Int
  BY WorthIs
<1> HIDE DEF F, H
<1>3. SumFunctionOnSet(F, Items) \in Int
  BY <1>2, SumType, ItemsAssumption
<1> QED BY <1>1, <1>2, <1>3

LEMMA WorthChange ==
  ASSUME NEW a \in Account, NEW r \in Request
  PROVE  /\ Worth(Incremented(a, r)) = Worth(a) + (r.bal + Price[r.item] * r.n)
         /\ r.bal \in Int /\ Price[r.item] * r.n \in Int
         /\ Worth(Incremented(a, r)) \in Int
<1> DEFINE b == Incremented(a, r)
           F == [i \in Items |-> Price[i] * a.inv.n[i]]
           H == [i \in Items |-> Price[i] * b.inv.n[i]]
           k == r.item
<1>1. /\ b \in Account /\ b.bal = a.bal + r.bal
      /\ \A i \in Kinds : b.inv.n[i] = IF i = k THEN a.inv.n[i] + r.n ELSE a.inv.n[i]
  BY IncrementedType
<1>2. /\ k \in Items /\ k \in Kinds /\ r.n \in Int /\ r.bal \in Int
      /\ Price[k] \in Int /\ a.inv.n[k] \in Int
  BY ItemsAssumption, ItemsAreKinds DEF Account, Inventory, Request
<1>3. /\ Worth(a) = a.bal + SumFunctionOnSet(F, Items) /\ Numbers(F, Items)
      /\ a.bal \in Int /\ Worth(a) \in Int
  BY WorthIs
<1>4. /\ Worth(b) = b.bal + SumFunctionOnSet(H, Items) /\ Numbers(H, Items)
      /\ Worth(b) \in Int
  BY <1>1, WorthIs
<1> HIDE DEF b
<1>5. F[k] = Price[k] * a.inv.n[k] /\ H[k] = Price[k] * b.inv.n[k]
  BY <1>2
<1>6. \A i \in Items : i # k => F[i] = H[i]
  BY <1>1, ItemsAreKinds
<1>7. H[k] = F[k] + Price[k] * r.n
  <2>1. b.inv.n[k] = a.inv.n[k] + r.n
    BY <1>1, <1>2
  <2> DEFINE p == Price[k]
             n == a.inv.n[k]
             m == r.n
  <2>2. p \in Int /\ n \in Int /\ m \in Int
    BY <1>2
  <2>3. F[k] = p * n /\ H[k] = p * (n + m)
    BY <1>5, <2>1
  <2> HIDE DEF F, H, p, n, m
  <2>4. p * (n + m) = p * n + p * m
    BY <2>2
  <2> QED BY <2>3, <2>4 DEF p, m
<1>8. F[k] \in Int /\ Price[k] * r.n \in Int
  BY <1>2, <1>5
<1> HIDE DEF F, H, k
<1>9. SumFunctionOnSet(H, Items) = SumFunctionOnSet(F, Items) - F[k] + H[k]
      /\ SumFunctionOnSet(F, Items) \in Int
  BY <1>2, <1>3, <1>4, <1>6, SumOneChanged, SumType, ItemsAssumption
<1>10. Worth(b) = Worth(a) + (r.bal + Price[k] * r.n)
  BY <1>1, <1>2, <1>3, <1>4, <1>7, <1>8, <1>9
<1> QED BY <1>2, <1>4, <1>8, <1>10 DEF b, k

\* The part of a frame in Lent.
LentBy(f) == IF f.pc = "debit" THEN -f.req.n * Price[f.req.item] ELSE 0

LEMMA LentByType ==
  ASSUME NEW f \in Frame
  PROVE  LentBy(f) \in Int
<1>1. f.req.n \in Int /\ Price[f.req.item] \in Int
  BY ItemsAssumption DEF Frame, Request
<1> QED BY <1>1 DEF LentBy

LEMMA LentIs ==
  Lent = SumFunctionOnSet([t \in Tasks |-> LentBy(task[t])], Tasks)
BY DEF Lent, LentBy, SumFunction

LEMMA LentType ==
  ASSUME TypeOK
  PROVE  Lent \in Int
<1> DEFINE F == [t \in Tasks |-> LentBy(task[t])]
<1>1. Numbers(F, Tasks)
  BY LentByType DEF Numbers, TypeOK
<1> HIDE DEF F
<1>2. SumFunctionOnSet(F, Tasks) \in Int
  BY <1>1, SumType, ItemsAssumption
<1> QED BY <1>2, LentIs DEF F

LEMMA LentChange ==
  ASSUME TypeOK, NEW t \in Tasks, NEW f \in Frame, task' = [task EXCEPT ![t] = f]
  PROVE  Lent' = Lent - LentBy(task[t]) + LentBy(f)
<1> DEFINE F == [s \in Tasks |-> LentBy(task[s])]
           H == [s \in Tasks |-> LentBy(task'[s])]
<1>1. /\ \A s \in Tasks : task[s] \in Frame /\ task'[s] \in Frame
      /\ task'[t] = f /\ \A s \in Tasks : s # t => task'[s] = task[s]
  BY DEF TypeOK
<1>2. Numbers(F, Tasks) /\ Numbers(H, Tasks)
  BY <1>1, LentByType DEF Numbers
<1>3. \A s \in Tasks : s # t => F[s] = H[s]
  BY <1>1
<1>4. F[t] = LentBy(task[t]) /\ H[t] = LentBy(f)
  BY <1>1
<1>5. Lent' = SumFunctionOnSet(H, Tasks)
  BY DEF Lent, LentBy, SumFunction
<1>6. Lent = SumFunctionOnSet(F, Tasks)
  BY LentIs
<1> HIDE DEF F, H
<1>7. SumFunctionOnSet(H, Tasks) = SumFunctionOnSet(F, Tasks) - F[t] + H[t]
  BY <1>2, <1>3, SumOneChanged, ItemsAssumption
<1> QED BY <1>4, <1>5, <1>6, <1>7

\* What all users have, lent or not.
Holdings == SumFunctionOnSet([u \in Users |-> Worth(base[u])], Users)

LEMMA WealthIs ==
  ASSUME TypeOK
  PROVE  Wealth = Holdings - Lent /\ Holdings \in Int /\ Lent \in Int
<1> DEFINE F == [u \in Users |-> Worth(base[u])]
<1>1. \A u \in Users : Worth(base[u]) \in Int
  BY WorthIs DEF TypeOK
<1>2. Numbers(F, Users)
  BY <1>1 DEF Numbers
<1>3. Wealth = Holdings - Lent
  BY DEF Wealth, Holdings, SumFunction
<1> HIDE DEF F
<1>4. SumFunctionOnSet(F, Users) \in Int
  BY <1>2, SumType, ItemsAssumption
<1> QED BY <1>3, <1>4, LentType DEF Holdings, F

LEMMA WealthIsNext ==
  TypeOK' => (Wealth = Holdings - Lent /\ Holdings \in Int /\ Lent \in Int)'
<1>1. TypeOK => (Wealth = Holdings - Lent /\ Holdings \in Int /\ Lent \in Int)
  BY WealthIs
<1> QED BY <1>1, PTL

\* A step that changes one item and one frame.
LEMMA WealthChange ==
  ASSUME TypeOK, NEW t \in Tasks, NEW f \in Frame, task' = [task EXCEPT ![t] = f],
         NEW key \in Users, NEW a \in Account, base' = [base EXCEPT ![key] = a]
  PROVE  /\ Wealth' = Wealth + (Worth(a) - Worth(base[key]))
                             + (LentBy(task[t]) - LentBy(f))
         /\ Wealth \in Int /\ Worth(a) \in Int /\ Worth(base[key]) \in Int
         /\ LentBy(task[t]) \in Int /\ LentBy(f) \in Int
<1> DEFINE F == [u \in Users |-> Worth(base[u])]
           H == [u \in Users |-> Worth(base'[u])]
<1>1. \A u \in Users : /\ base[u] \in Account /\ base'[u] \in Account
                       /\ u # key => base'[u] = base[u]
  BY DEF TypeOK
<1>2. Numbers(F, Users) /\ Numbers(H, Users)
  BY <1>1, WorthIs DEF Numbers
<1>3. \A u \in Users : u # key => F[u] = H[u]
  BY <1>1
<1>4. F[key] = Worth(base[key]) /\ H[key] = Worth(a)
  BY DEF TypeOK
<1>5. F[key] \in Int /\ H[key] \in Int
  BY <1>2 DEF Numbers
<1>6. Holdings = SumFunctionOnSet(F, Users) /\ Holdings' = SumFunctionOnSet(H, Users)
  BY DEF Holdings
<1>7. Lent' = Lent - LentBy(task[t]) + LentBy(f)
      /\ LentBy(task[t]) \in Int /\ LentBy(f) \in Int
  BY LentChange, LentByType DEF TypeOK
<1>8. Wealth = Holdings - Lent /\ Holdings \in Int /\ Lent \in Int
  BY WealthIs
<1>9. Wealth' = Holdings' - Lent'
  BY DEF Wealth, Holdings, SumFunction
<1> HIDE DEF F, H
<1>10. Holdings' = Holdings - F[key] + H[key]
  BY <1>2, <1>3, <1>6, SumOneChanged, ItemsAssumption
<1> QED BY <1>4, <1>5, <1>7, <1>8, <1>9, <1>10

\* A step that changes one frame.
LEMMA WealthFrame ==
  ASSUME TypeOK, NEW t \in Tasks, NEW f \in Frame, task' = [task EXCEPT ![t] = f],
         base' = base
  PROVE  /\ Wealth' = Wealth + (LentBy(task[t]) - LentBy(f))
         /\ Wealth \in Int /\ LentBy(task[t]) \in Int /\ LentBy(f) \in Int
<1>1. Lent' = Lent - LentBy(task[t]) + LentBy(f)
      /\ LentBy(task[t]) \in Int /\ LentBy(f) \in Int
  BY LentChange, LentByType DEF TypeOK
<1>2. Wealth = Holdings - Lent /\ Holdings \in Int /\ Lent \in Int
  BY WealthIs
<1>3. Wealth' = Holdings' - Lent' /\ Holdings' = Holdings
  BY DEF Wealth, Holdings, SumFunction
<1> QED BY <1>1, <1>2, <1>3

LEMMA SetWealth ==
  ASSUME IInv, AllTrading, NEW t \in Tasks, SetReply(t), AsSeen(task[t])
  PROVE  Wealth' = Wealth
<1> DEFINE f == task[t]
<1>1. /\ f \in Frame /\ f.pc = "detached" /\ f.user \in Users /\ AsSeen(f)
      /\ base[f.user] \in Account
  BY DEF IInv, TypeOK, SetReply, Frame
<1>2. PICK v \in f.sets :
        /\ base' = base \/ base' = [base EXCEPT ![f.user] = [base[f.user] EXCEPT !.inv = v]]
        /\ \/ task' = [task EXCEPT ![t] = Done]
           \/ task' = [task EXCEPT ![t] = [f EXCEPT !.sets = @ \ {v}]]
  BY SetChanges
<1> DEFINE a == [base[f.user] EXCEPT !.inv = v]
           g == [f EXCEPT !.sets = @ \ {v}]
<1>3. g \in Frame /\ g.pc = "detached" /\ v \in Inventory
  BY <1>1, <1>2 DEF Frame
<1>4. /\ \/ task' = [task EXCEPT ![t] = Done]
         \/ task' = [task EXCEPT ![t] = g]
      /\ base' = base \/ base' = [base EXCEPT ![f.user] = a]
  BY <1>2
<1>5. a \in Account /\ a.inv = v /\ a.bal = base[f.user].bal /\ a.bal \in Int
  BY <1>1, <1>3 DEF Account
<1>7. \A i \in Items : v.n[i] = f.seen.inv.n[i]
  BY <1>2 DEF AllTrading, Trading
<1>8. LentBy(f) = 0 /\ LentBy(g) = 0 /\ LentBy(Done) = 0
  BY <1>1, <1>3, DoneType DEF LentBy
<1> HIDE DEF g, a
<1>9. PICK h \in Frame : task' = [task EXCEPT ![t] = h] /\ LentBy(h) = 0
  BY <1>3, <1>4, <1>8, DoneType
<1>10. CASE base' = base
  <2>1. Wealth' = Wealth + (LentBy(f) - LentBy(h)) /\ Wealth \in Int
    BY <1>9, <1>10, WealthFrame DEF IInv
  <2> QED BY <1>8, <1>9, <2>1
<1>11. CASE base' # base
  <2>1. base' = [base EXCEPT ![f.user] = a]
    BY <1>4, <1>11
  <2>2. \A i \in Items : a.inv.n[i] = base[f.user].inv.n[i]
    BY <1>1, <1>5, <1>7 DEF AsSeen
  <2>3. Worth(a) = Worth(base[f.user]) - base[f.user].bal + a.bal
    BY <1>1, <1>5, <2>2, WorthSame
  <2> HIDE DEF f
  <2>4. /\ Wealth' = Wealth + (Worth(a) - Worth(base[f.user])) + (LentBy(task[t]) - LentBy(h))
        /\ Wealth \in Int /\ Worth(a) \in Int /\ Worth(base[f.user]) \in Int
    BY <1>1, <1>5, <1>9, <2>1, WealthChange DEF IInv
  <2> QED BY <1>5, <1>8, <1>9, <2>3, <2>4 DEF f
<1> QED BY <1>10, <1>11

\* A request of an increment that is executed changes the wealth by what it
\* adds at the price of its item.
LEMMA IncrementWealth ==
  ASSUME IInv, NEW t \in Tasks, NEW g \in Frame, task' = [task EXCEPT ![t] = g],
         NEW key \in Users,
         base' = [base EXCEPT ![key] = Incremented(base[key], task[t].req)]
  PROVE  LET r == task[t].req IN
         /\ Wealth' = Wealth + (r.bal + Price[r.item] * r.n)
                             + (LentBy(task[t]) - LentBy(g))
         /\ Wealth \in Int /\ r.bal \in Int /\ Price[r.item] * r.n \in Int
         /\ LentBy(task[t]) \in Int /\ LentBy(g) \in Int
<1> DEFINE r == task[t].req
           a == Incremented(base[key], r)
<1>1. r \in Request /\ base[key] \in Account
  BY DEF IInv, TypeOK, Frame
<1> HIDE DEF r
<1>2. a \in Account
  BY <1>1, IncrementedType
<1>3. /\ Worth(a) = Worth(base[key]) + (r.bal + Price[r.item] * r.n)
      /\ r.bal \in Int /\ Price[r.item] * r.n \in Int
  BY <1>1, WorthChange
<1>4. base' = [base EXCEPT ![key] = a]
  BY DEF r
<1> HIDE DEF a
<1>5. /\ Wealth' = Wealth + (Worth(a) - Worth(base[key])) + (LentBy(task[t]) - LentBy(g))
      /\ Wealth \in Int /\ Worth(a) \in Int /\ Worth(base[key]) \in Int
      /\ LentBy(task[t]) \in Int /\ LentBy(g) \in Int
  BY <1>2, <1>4, WealthChange DEF IInv
<1> DEFINE d == r.bal + Price[r.item] * r.n
<1>6. d \in Int
  BY <1>3
<1>7. Worth(a) = Worth(base[key]) + d
  BY <1>3
<1> HIDE DEF d
<1>8. Wealth' = Wealth + d + (LentBy(task[t]) - LentBy(g))
  BY <1>5, <1>6, <1>7
<1> QED BY <1>3, <1>5, <1>8 DEF d, r

\* A purchase pays the price; a sale earns half of it.
LEMMA PatchWealth ==
  ASSUME IInv, AllTrading, NEW t \in Tasks, PatchReply(t),
         task[t].cmd \notin {"use", "mine", "gibitem"}, Exact(task[t]),
         ~(task[t].cmd = "sell" /\ task[t].seen.inv.n[task[t].req.item] < 0)
  PROVE  Wealth' <= Wealth
<1> DEFINE f == task[t]
           r == f.req
<1>1. /\ f \in Frame /\ f.pc = "patch" /\ r \in Request /\ r.key \in Users
      /\ task' = [task EXCEPT ![t] = Done] /\ Exact(f) /\ Trading(f)
  BY DEF IInv, TypeOK, PatchReply, Frame, Request, AllTrading
<1>2. base' = base \/ base' = [base EXCEPT ![r.key] = Incremented(base[r.key], r)]
  BY PatchChanges DEF PatchReply
<1>3. Done \in Frame /\ LentBy(Done) = 0 /\ LentBy(f) = 0
  BY <1>1, DoneType DEF LentBy
<1>5. CASE base' = base
  <2>1. Wealth' = Wealth + (LentBy(f) - LentBy(Done)) /\ Wealth \in Int
    BY <1>1, <1>3, <1>5, WealthFrame DEF IInv
  <2> QED BY <1>3, <2>1
<1>6. CASE base' # base
  <2>1. /\ Wealth' = Wealth + (r.bal + Price[r.item] * r.n) + (LentBy(f) - LentBy(Done))
        /\ Wealth \in Int /\ r.bal \in Int /\ Price[r.item] * r.n \in Int
    BY <1>1, <1>2, <1>3, <1>6, IncrementWealth
  <2> DEFINE p == Price[r.item]
             n == r.n
  <2>2. p \in Nat /\ n \in Int
    BY <1>1, ItemsAssumption DEF Request
  <2>3. f.cmd \in {"buy", "sell"}
    BY <1>1 DEF Trading
  <2>4. r.bal + p * n <= 0
    <3>1. CASE f.cmd = "buy"
      <4>1. r.bal = -(n * p)
        BY <1>1, <3>1 DEF Exact, Trading, Fits
      <4> HIDE DEF r, p, n
      <4>2. p * n = n * p /\ n * p \in Int
        BY <2>2
      <4> QED BY <4>1, <4>2
    <3>2. CASE f.cmd = "sell"
      <4>1. ~(n > 0) /\ r.bal = (-n) * (p \div 2)
        BY <1>1, <3>2 DEF Exact, Trading, Fits, HalfPrice
      <4> HIDE DEF r, p, n
      <4>2. p \div 2 \in Nat /\ p \div 2 <= p /\ -n \in Nat
        BY <2>2, <4>1
      <4>3. (p \div 2) * (-n) <= p * (-n)
        BY <4>2, <2>2, TimesMonotone
      <4>4. p * (-n) = -(p * n) /\ (-n) * (p \div 2) = (p \div 2) * (-n)
            /\ p * n \in Int /\ (p \div 2) * (-n) \in Int
        BY <2>2, <4>2
      <4> QED BY <4>1, <4>3, <4>4
    <3> QED BY <2>3, <3>1, <3>2
  <2>5. p * n \in Int
    BY <2>2
  <2>6. Wealth' = Wealth + (r.bal + p * n) + (LentBy(f) - LentBy(Done))
    BY <2>1
  <2> HIDE DEF r, p, n
  <2> QED BY <1>3, <2>1, <2>4, <2>5, <2>6
<1> QED BY <1>5, <1>6

\* What is credited is lent, if the credit was answered with 200.
LEMMA CreditWealth ==
  ASSUME IInv, AllTrading, NEW t \in Tasks, CreditReply(t)
  PROVE  Wealth' = Wealth \/ (task[t].pc = "credit" /\ task'[t].pc = "idle")
<1> DEFINE f == task[t]
           r == f.req
           g == DebitFrame(t)
<1>1. /\ f \in Frame /\ f.pc = "credit" /\ r \in Request /\ r.key \in Users
      /\ r.bal = 0
  BY DEF IInv, TypeOK, CreditReply, Frame, Request, AllTrading, Trading
<1>2. PICK status \in {200, 404, NoAnswer} :
        /\ Patch(r.key, Incremented(base[r.key], r), status)
        /\ task' = [task EXCEPT ![t] = IF status = 200 THEN g ELSE Done]
  BY DEF CreditReply, DebitFrame
<1>3. CASE status # 200
  BY <1>1, <1>2, <1>3, DoneType DEF IInv, TypeOK
<1>4. CASE status = 200
  <2>1. base' = [base EXCEPT ![r.key] = Incremented(base[r.key], r)]
    BY <1>2, <1>4 DEF Patch, NoAnswer
  <2>2. task' = [task EXCEPT ![t] = g]
    BY <1>2, <1>4
  <2>3. /\ g \in Frame /\ g.pc = "debit"
        /\ g.req = Increment(f.user, r.item, -r.n, 0)
    BY <1>1, DebitFrameIs
  <2>4. g.req.n = -r.n /\ g.req.item = r.item
    BY <2>3 DEF Increment
  <2> HIDE DEF g
  <2>5. /\ Wealth' = Wealth + (r.bal + Price[r.item] * r.n) + (LentBy(f) - LentBy(g))
        /\ Wealth \in Int
    BY <1>1, <2>1, <2>2, <2>3, IncrementWealth
  <2> DEFINE p == Price[r.item]
             n == r.n
  <2>6. p \in Int /\ n \in Int
    BY <1>1, ItemsAssumption DEF Request
  <2>7. LentBy(f) = 0 /\ LentBy(g) = -(-n) * p
    BY <1>1, <2>3, <2>4 DEF LentBy
  <2>8. Wealth' = Wealth + (0 + p * n) + (LentBy(f) - LentBy(g))
    BY <1>1, <2>5
  <2> HIDE DEF f, r, p, n
  <2>9. -(-n) * p = p * n /\ p * n \in Int
    BY <2>6
  <2> QED BY <2>5, <2>7, <2>8, <2>9
<1> QED BY <1>3, <1>4

\* A debit takes what was lent.
LEMMA DebitWealth ==
  ASSUME IInv, AllTrading, NEW t \in Tasks, DebitReply(t), base' # base
  PROVE  Wealth' = Wealth
<1> DEFINE f == task[t]
           r == f.req
<1>1. /\ f \in Frame /\ f.pc = "debit" /\ r \in Request /\ f.user \in Users
      /\ r.bal = 0 /\ task' = [task EXCEPT ![t] = Done]
  BY DEF IInv, TypeOK, DebitReply, Frame, AllTrading, Trading
<1>2. base' = [base EXCEPT ![f.user] = Incremented(base[f.user], r)]
  BY PatchChanges DEF DebitReply
<1>3. Done \in Frame /\ LentBy(Done) = 0
  BY DoneType DEF LentBy
<1>4. /\ Wealth' = Wealth + (r.bal + Price[r.item] * r.n) + (LentBy(f) - LentBy(Done))
      /\ Wealth \in Int
  BY <1>1, <1>2, <1>3, IncrementWealth
<1> DEFINE p == Price[r.item]
           n == r.n
<1>5. p \in Int /\ n \in Int
  BY <1>1, ItemsAssumption DEF Request
<1>6. LentBy(f) = -n * p
  BY <1>1 DEF LentBy
<1>7. Wealth' = Wealth + (0 + p * n) + (LentBy(f) - LentBy(Done))
  BY <1>1, <1>4
<1> HIDE DEF f, r, p, n
<1>8. -n * p = -(p * n) /\ p * n \in Int
  BY <1>5
<1> QED BY <1>3, <1>4, <1>6, <1>7, <1>8

\* A restart, or a trap, forgets what was lent: debits in flight.
LEMMA DropWealth ==
  ASSUME IInv, task' = [t \in Tasks |-> Done], base' = base, Wealth' # Wealth
  PROVE  \E t \in Tasks : task'[t] # task[t] /\ task[t].pc = "debit"
<1> SUFFICES ASSUME \A t \in Tasks : ~(task'[t] # task[t] /\ task[t].pc = "debit")
             PROVE  FALSE
  OBVIOUS
<1> DEFINE F == [t \in Tasks |-> LentBy(task[t])]
           H == [t \in Tasks |-> LentBy(task'[t])]
<1>1. \A t \in Tasks : task'[t] = Done /\ Done.pc = "idle"
  BY DoneType
<1>2. \A t \in Tasks : F[t] = 0 /\ H[t] = 0
  BY <1>1 DEF LentBy
<1>3. Lent = SumFunctionOnSet(F, Tasks) /\ Lent' = SumFunctionOnSet(H, Tasks)
  BY LentIs DEF Lent, LentBy, SumFunction
<1> HIDE DEF F, H
<1>4. Lent = 0 /\ Lent' = 0
  BY <1>2, <1>3, SumZero, ItemsAssumption
<1> QED BY <1>4 DEF Wealth

\* Whatever the interleaving and the prices, what all users have together is
\* worth more only after coin bags, mining, a gift, a share with a lost
\* request, a product cut off, the sale of a debt, or a "set" of an inventory
\* that was changed since it was read: trade and views alone enrich nobody.
THEOREM NobodyEnriched == Spec => OnlyFaucetsEnrich
<1> DEFINE Faucet(t) ==
             LET f == task[t] IN
             /\ task'[t] # f
             /\ \/ f.pc \in {"patch", "wipe"} /\ f.cmd \in {"use", "mine", "gibitem"}
                \/ f.pc = "credit" /\ task'[t].pc = "idle"
                \/ f.pc = "debit" /\ base' = base
                \/ f.pc = "patch" /\ ~Exact(f)
                \/ f.pc = "patch" /\ f.cmd = "sell" /\ f.seen.inv.n[f.req.item] < 0
                \/ f.pc = "detached" /\ ~AsSeen(f)
<1>1. ASSUME IInv, AllTrading, [Next]_vars, Wealth' > Wealth
      PROVE  \E t \in Tasks : Faucet(t)
  <2>0. Wealth \in Int /\ ~(Wealth' = Wealth) /\ ~(Wealth' <= Wealth)
    <3>1. Wealth \in Int
      BY <1>1, WealthIs DEF IInv
    <3>2. TypeOK'
      BY <1>1, StepInv DEF IInv
    <3>3. Wealth' = Holdings' - Lent' /\ Holdings' \in Int /\ Lent' \in Int
      BY <3>2, WealthIsNext
    <3>4. Wealth' \in Int
      BY <3>3
    <3> QED BY <1>1, <3>1, <3>4
  <2>1. ASSUME NEW t \in Tasks, Command(t) PROVE FALSE
    <3>1. PICK f : /\ task[t].pc = "idle" /\ f.pc # "debit" /\ base' = base
                   /\ task' = [task EXCEPT ![t] = f]
      BY <1>1, <2>1, CommandOpens DEF Opened
    <3>2. f \in Frame
      <4>1. TypeOK'
        BY <1>1, StepInv DEF IInv
      <4>2. task'[t] = f
        BY <1>1, <3>1 DEF IInv, TypeOK
      <4> QED BY <4>1, <4>2 DEF TypeOK
    <3>3. LentBy(task[t]) = 0 /\ LentBy(f) = 0
      BY <3>1 DEF LentBy
    <3>4. Wealth' = Wealth + (LentBy(task[t]) - LentBy(f))
      BY <1>1, <3>1, <3>2, WealthFrame DEF IInv
    <3> QED BY <2>0, <3>3, <3>4
  <2>2. ASSUME NEW t \in Tasks, PatchReply(t) PROVE Faucet(t)
    <3>1. task'[t] # task[t] /\ task[t].pc = "patch"
      BY <1>1, <2>2, DoneType DEF PatchReply, IInv, TypeOK
    <3>2. \/ task[t].cmd \in {"use", "mine", "gibitem"}
          \/ ~Exact(task[t])
          \/ task[t].cmd = "sell" /\ task[t].seen.inv.n[task[t].req.item] < 0
      BY <1>1, <2>0, <2>2, PatchWealth
    <3> QED BY <3>1, <3>2
  <2>3. ASSUME NEW t \in Tasks, WipeReply(t) PROVE Faucet(t)
    <3>1. task'[t] # task[t] /\ task[t].pc = "wipe"
      BY <1>1, <2>3, DoneType DEF WipeReply, IInv, TypeOK
    <3>2. task[t].cmd = "mine"
      BY <1>1, <2>3 DEF WipeReply, AllTrading, Trading
    <3> QED BY <3>1, <3>2
  <2>4. ASSUME NEW t \in Tasks, CreditReply(t) PROVE Faucet(t)
    <3>1. task[t].pc = "credit" /\ task'[t].pc = "idle"
      BY <1>1, <2>0, <2>4, CreditWealth
    <3> QED BY <3>1
  <2>5. ASSUME NEW t \in Tasks, DebitReply(t) PROVE Faucet(t)
    <3>1. task'[t] # task[t] /\ task[t].pc = "debit"
      BY <1>1, <2>5, DoneType DEF DebitReply, IInv, TypeOK
    <3>2. base' = base
      BY <1>1, <2>0, <2>5, DebitWealth
    <3> QED BY <3>1, <3>2
  <2>6. ASSUME NEW t \in Tasks, SetReply(t) PROVE Faucet(t)
    <3>1. ~AsSeen(task[t])
      BY <1>1, <2>0, <2>6, SetWealth
    <3>2. task[t] \in Frame /\ task[t].pc = "detached"
      BY <1>1, <2>6 DEF SetReply, IInv, TypeOK
    <3>3. PICK v \in task[t].sets :
            \/ task' = [task EXCEPT ![t] = Done]
            \/ task' = [task EXCEPT ![t] = [task[t] EXCEPT !.sets = @ \ {v}]]
      BY <2>6, SetChanges
    <3>4. task'[t] # task[t]
      BY <1>1, <3>2, <3>3, DoneType DEF IInv, TypeOK, Frame
    <3> QED BY <3>1, <3>2, <3>4
  <2>7. CASE Restart \/ Trap
    <3>1. task' = [t \in Tasks |-> Done] /\ base' = base
      BY <2>7 DEF Restart, Trap
    <3> QED BY <1>1, <2>0, <3>1, DropWealth
  <2>8. CASE UNCHANGED vars
    BY <2>0, <2>8 DEF vars, Wealth, Lent
  <2> QED BY <1>1, <2>1, <2>2, <2>3, <2>4, <2>5, <2>6, <2>7, <2>8 DEF Next, Reply
<1> HIDE DEF Faucet
<1>2. IInv /\ AllTrading /\ [Next]_vars =>
        [Wealth' > Wealth => \E t \in Tasks : Faucet(t)]_vars
  BY <1>1
<1> QED BY <1>2, Invariance, TradingInvariance, PTL DEF Spec, OnlyFaucetsEnrich, Faucet

---------------------------------------------------------------------------
(* The pages of an inventory. *)

LEMMA PositionBounds ==
  ASSUME NEW v \in Inventory, NEW k \in Listed(v)
  PROVE  /\ Cardinality(Listed(v)) \in Nat
         /\ Position(v, k) \in 0..Cardinality(Listed(v)) - 1
<1> DEFINE before == {j \in Listed(v) : Rank[j] < Rank[k]}
<1>1. IsFiniteSet(Kinds) /\ Listed(v) \subseteq Kinds
  BY ItemsAssumption, FS_Union DEF Kinds, Listed, Inventory
<1>2. IsFiniteSet(Listed(v))
  BY <1>1, FS_Subset
<1>3. Cardinality(Listed(v)) \in Nat
  BY <1>2, FS_CardinalityType
<1>4. /\ IsFiniteSet(Listed(v) \ {k})
      /\ Cardinality(Listed(v) \ {k}) = Cardinality(Listed(v)) - 1
  BY <1>2, FS_RemoveElement
<1>5. Rank[k] \in Nat
  BY <1>1, ItemsAssumption
<1>6. before \subseteq Listed(v) \ {k}
  BY <1>5
<1>7. IsFiniteSet(before) /\ Cardinality(before) <= Cardinality(Listed(v) \ {k})
  BY <1>4, <1>6, FS_Subset
<1>8. Cardinality(before) \in Nat
  BY <1>7, FS_CardinalityType
<1>9. Position(v, k) = Cardinality(before)
  BY DEF Position
<1> QED BY <1>3, <1>4, <1>7, <1>8, <1>9

\* The pages of every inventory show each kind it lists on exactly one page,
\* whatever the size of a page and the number of kinds.
THEOREM PagesShowAll == Spec => []PagesCover
<1>1. TypeOK => PagesCover
  <2> SUFFICES ASSUME TypeOK, NEW u \in Users, NEW k \in Listed(base[u].inv)
               PROVE  LET v == base[u].inv
                          pages == 1..page_total(Cardinality(Listed(v))) IN
                      Cardinality({page \in pages : k \in OnPage(v, page)}) = 1
    BY DEF PagesCover
  <2> DEFINE v == base[u].inv
             n == Cardinality(Listed(v))
             on == {page \in 1..page_total(n) : k \in OnPage(v, page)}
  <2>1. v \in Inventory
    BY DEF TypeOK, Account
  <2> HIDE DEF v
  <2>2. n \in Nat /\ Position(v, k) \in 0..n-1
    BY <2>1, PositionBounds DEF v
  <2>3. \E one \in 1..page_total(n) :
          {page \in 1..page_total(n) : Position(v, k) \in Shown(n, page)} = {one}
    BY <2>2, OnePage
  <2>4. on = {page \in 1..page_total(n) : Position(v, k) \in Shown(n, page)}
    BY DEF OnPage, v
  <2>5. \E one : on = {one}
    BY <2>3, <2>4
  <2>6. Cardinality(on) = 1
    BY <2>5, FS_Singleton
  <2> QED BY <2>6 DEF v
<1> QED BY <1>1, TypeCorrect, PTL

=============================================================================
