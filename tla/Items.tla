------------------------------- MODULE Items -------------------------------
(***************************************************************************)
(* The item commands of src/commands/currency.cpp: buy, sell, use of bank  *)
(* space and coin bags, shareitem, gibitem, mine as far as its insurances  *)
(* go, inventory and shop, with getinv, getshop and chkinv of utils.hpp.   *)
(*                                                                         *)
(* As in Coins, a task is a coroutine that decides on a copy of an item of *)
(* the base and then sends a PATCH.  Most requests increment single        *)
(* counts.  The exceptions are those of getinv's callers and of chkinv:    *)
(* they "set" the whole inventory to the copy, with the missing counts     *)
(* filled in or the unknown ones erased, and nobody waits for them.  A     *)
(* command refused without such a request changes nothing and is no step.  *)
(***************************************************************************)
EXTENDS Pages, FiniteSetsExt

CONSTANTS
  Users, Registered,  \* users, and those with an item in "currency"
  Upgraded,           \* users whose bank is not the default one
  Owner,              \* the user give_items obeys
  Items,              \* shop_items
  Legacy,             \* kinds of earlier versions, not in shop_items
  Purchasable, Sellable, Price,   \* columns of shop_items
  Rank,               \* order of the keys: the inventory is a sorted map
  FirstInventories,   \* inventories that accounts may start with
  FirstBal,           \* coins they start with
  FirstBankMax,
  Commands,           \* the commands the users of an instance issue
  Amounts,            \* integers the users type, -1 for "all"
  Gifts,              \* what the owner gives: pairs of an item and a count
  TypedPages,         \* page numbers the users type
  LongSpan,           \* how many values an int64_t has: 2^64
  MineAmounts,        \* what the random draw of mine yields, boosted
  BagMin, BagMax,     \* coins in a bag: 100..150
  SpaceMin, SpaceMax, \* room in a bank space: 25..50
  WildDraws,          \* what a draw from an interval upside down yields
  Tasks,              \* coroutines that may be in flight at once
  Faulty,             \* may a request or its answer be lost?
  MaxCoins, MaxCount, \* bounds: no command starts when a user has more of
                      \* coins, or of an item,
  MaxDebt             \* bound: ... or when anybody owes more

AllCommands == {"buy", "sell", "use", "shareitem", "gibitem", "mine", "inventory",
                "shop"}

Kinds == Items \cup Legacy

\* n is total; it is 0 for a kind the inventory has not.
Inventory == [has: SUBSET Kinds, n: [Kinds -> Int]]

Insurances == {"puppy_pass", "capitalism_blessing"}

ASSUME ItemsAssumption ==
  /\ IsFiniteSet(Items) /\ IsFiniteSet(Legacy)
  /\ IsFiniteSet(Users) /\ IsFiniteSet(Tasks)
  /\ Registered \subseteq Users /\ Owner \in Users /\ Upgraded \subseteq Users
  /\ Purchasable \subseteq Items /\ Sellable \subseteq Items
  /\ Insurances \cup {"horrorse_celery"} \subseteq Items
  /\ Price \in [Items -> Nat]
  /\ \A i \in Purchasable : Price[i] > 0
  /\ Rank \in [Kinds -> Nat]
  /\ \A k, j \in Kinds : Rank[k] = Rank[j] => k = j
  /\ \A v \in FirstInventories :
       /\ v \in Inventory
       /\ \A k \in Kinds : v.n[k] >= 0 /\ (k \notin v.has => v.n[k] = 0)
  /\ FirstBal \in Nat /\ FirstBankMax \in Nat
  /\ Commands \subseteq AllCommands
  /\ Amounts \subseteq Int /\ Gifts \subseteq Items \X Int
  /\ TypedPages \subseteq Int
  /\ LongSpan \in Nat \ {0, 1} /\ LongSpan % 2 = 0
  /\ MineAmounts \subseteq Int /\ WildDraws \subseteq Int
  /\ BagMin \in Nat /\ BagMax \in Nat /\ BagMin <= BagMax
  /\ SpaceMin \in Nat /\ SpaceMax \in Nat /\ SpaceMin <= SpaceMax
  /\ Faulty \in BOOLEAN /\ MaxCoins \in Nat /\ MaxCount \in Nat /\ MaxDebt \in Nat

VARIABLES
  base,       \* base[u]: the item of u, a placeholder outside Registered
  task,       \* task[t]: the coroutine in slot t, or what it left behind
  unchecked   \* history: a request met what its handler had not seen

vars == <<base, task, unchecked>>

Account == [bal: Int, bank_max: Int, inv: Inventory]

\* An "increment" of one count, and of bal and bank_max.
Request == [key: Users, item: Items, n: Int, bal: Int, bank_max: Int]

\* detached: the coroutine has returned, sets are the inventories it "set"
\* without waiting.
Frame == [pc: {"idle", "patch", "wipe", "credit", "debit", "detached"},
          cmd: AllCommands \cup {"none"}, user: Users,
          req: Request, seen: Account, sets: SUBSET Inventory]

Fresh == [bal |-> FirstBal, bank_max |-> FirstBankMax,
          inv |-> [has |-> {}, n |-> [k \in Kinds |-> 0]]]

NoRequest == [key |-> Owner, item |-> "puppy_pass",
              n |-> 0, bal |-> 0, bank_max |-> 0]

Done == [pc |-> "idle", cmd |-> "none", user |-> Owner,
         req |-> NoRequest, seen |-> Fresh, sets |-> {}]

TypeOK == /\ base \in [Users -> Account]
          /\ task \in [Tasks -> Frame]
          /\ unchecked \in BOOLEAN

Init == /\ base \in [Users -> {[Fresh EXCEPT !.inv = v] : v \in FirstInventories}]
        /\ task = [t \in Tasks |-> Done]
        /\ unchecked = FALSE

---------------------------------------------------------------------------
(* Helpers of the handlers. *)

DrawSwapped(n, lo, hi) ==   \* mutant: the bounds are the wrong way round
  IF ToInt(hi * n) <= ToInt(lo * n) THEN ToInt(hi * n)..ToInt(lo * n) ELSE WildDraws

\* uniform_int_distribution(lo*n, hi*n) takes its bounds as ints; if they are
\* upside down, which they must not be, libstdc++ draws from all of int.
Draw(n, lo, hi) == IF ToInt(lo * n) <= ToInt(hi * n)
                   THEN ToInt(lo * n)..ToInt(hi * n) ELSE WildDraws

CompleteAnew(v) ==   \* mutant: the counts that are there are set to 0 too
  [has |-> v.has \cup Items,
   n |-> [k \in Kinds |-> IF k \in Items THEN 0 ELSE v.n[k]]]

Complete(v) == [v EXCEPT !.has = @ \cup Items]

\* chkinv: the inventory it sends for the copy v, if any.
chkinv(v) == IF Items \subseteq v.has THEN {} ELSE {Complete(v)}

\* getinv lists the kinds there is something of, on pages.
Listed(v) == {k \in v.has : v.n[k] > 0}
Position(v, k) == Cardinality({j \in Listed(v) : Rank[j] < Rank[k]})
OnPage(v, page) ==
  {k \in Listed(v) : Position(v, k) \in Shown(Cardinality(Listed(v)), page)}

\* ... and erases from its copy those of a page that the shop does not know.
Unknown(v, page) == OnPage(v, page) \ Items
Erased(v, gone) == [has |-> v.has \ gone,
                    n |-> [k \in Kinds |-> IF k \in gone THEN 0 ELSE v.n[k]]]

---------------------------------------------------------------------------
(* A command runs up to the request it sends after its read.               *)

Within(most) == -MaxDebt..most

Start(t, cmd) == /\ cmd \in Commands
                 /\ task[t].pc = "idle"
                 /\ \A u \in Users :
                      /\ base[u].bal \in Within(MaxCoins)
                      /\ base[u].bank_max - FirstBankMax \in Within(MaxCount)
                      /\ \A k \in Kinds : base[u].inv.n[k] \in Within(MaxCount)

Send(t, cmd, pc, u, req, sets) ==
  /\ task' = [task EXCEPT ![t] =
                [pc |-> pc, cmd |-> cmd, user |-> u, req |-> req,
                 seen |-> base[u], sets |-> sets]]
  /\ UNCHANGED <<base, unchecked>>

Increment(u, i, n, bal) ==
  [key |-> u, item |-> i, n |-> n, bal |-> bal, bank_max |-> 0]

\* A command finds no count of its item: it is refused, but chkinv was called.
RefuseIncomplete(t, cmd, u) ==
  /\ Start(t, cmd)
  /\ chkinv(base[u].inv) # {}
  /\ Send(t, cmd, "detached", u, NoRequest, chkinv(base[u].inv))

PartedUnchecked(a, i) ==   \* mutant: "all" is not checked, nor is the sign
  {IF n = -1 THEN a.inv.n[i] ELSE n :
     n \in {m \in Amounts : m = -1 \/ a.inv.n[i] >= m}}

\* How many of i the user asks to part with, when the checks allow it.
Parted(a, i) ==
  {IF n = -1 THEN a.inv.n[i] ELSE n :
     n \in {m \in Amounts : IF m = -1 THEN a.inv.n[i] # 0
                                      ELSE m > 0 /\ a.inv.n[i] >= m}}

\* What an int64_t keeps of a product, and whether that is all of it.
Long(n) == Wrapped(n, LongSpan)
Fits(n) == Long(n) = n

\* buy: all, "automatic floor", or as many as typed, if the product of the
\* price and the amount, an int64_t, allows it.
Buy(t, u) ==
  \E i \in Purchasable, n \in Amounts :
    LET bal == base[u].bal
        amount == IF n = -1 THEN Quotient(bal, Price[i]) ELSE n
        cost == Long(amount * Price[i]) IN
    /\ Start(t, "buy") /\ u \in Registered
    /\ IF n = -1 THEN amount # 0 ELSE n > 0 /\ bal >= cost
    /\ Send(t, "buy", "patch", u, Increment(u, i, amount, -cost), {})

\* sell: at half the price, rounded down.
HalfPrice(i) == Price[i] \div 2

Sell(t, u) ==
  /\ Start(t, "sell") /\ u \in Registered
  /\ \E i \in Sellable :
       \/ /\ i \notin base[u].inv.has
          /\ RefuseIncomplete(t, "sell", u)
       \/ /\ i \in base[u].inv.has
          /\ \E amount \in Parted(base[u], i) :
               Send(t, "sell", "patch", u,
                    Increment(u, i, -amount, Long(amount * HalfPrice(i))), {})

Use(t, u) ==
  /\ Start(t, "use") /\ u \in Registered
  /\ \E i \in Items \cap {"bank_space", "coin_bag"} :
       \/ /\ i \notin base[u].inv.has
          /\ RefuseIncomplete(t, "use", u)
       \/ /\ i \in base[u].inv.has
          /\ \E amount \in Parted(base[u], i) :
               \/ /\ i = "bank_space" /\ u \in Upgraded
                  /\ \E amt \in Draw(amount, SpaceMin, SpaceMax) :
                       Send(t, "use", "patch", u,
                            [Increment(u, i, -amount, 0) EXCEPT !.bank_max = amt], {})
               \/ /\ i = "coin_bag"
                  /\ \E amt \in Draw(amount, BagMin, BagMax) :
                       Send(t, "use", "patch", u, Increment(u, i, -amount, amt), {})

\* share_item: the receiver gets the items first.
ShareItem(t, u) ==
  /\ Start(t, "shareitem") /\ u \in Registered
  /\ \E i \in Items :
       \/ /\ i \notin base[u].inv.has
          /\ RefuseIncomplete(t, "shareitem", u)
       \/ /\ i \in base[u].inv.has
          /\ \E v \in Users \ {u}, amount \in Parted(base[u], i) :
               Send(t, "shareitem", "credit", u, Increment(v, i, amount, 0), {})

\* give_items: the owner adds any count to anybody's; nothing is read first.
\* If Discord does not know the user, the handler throws, which is no step.
GibItem(t, u) ==
  /\ Start(t, "gibitem")
  /\ \E gift \in Gifts :
       Send(t, "gibitem", "patch", Owner, Increment(u, gift[1], gift[2], 0), {})

MineAlwaysSaved(t, u) ==  \* mutant: a blessing is taken without a look
  /\ Start(t, "mine") /\ u \in Registered
  /\ Send(t, "mine", "patch", u, Increment(u, "capitalism_blessing", -1, 0), {})

\* mine: one accident in five, unless insured.  A count that mine reads and
\* does not find throws, and nothing happens.  Two celeries owed outweigh
\* every other boost: only then may what is mined be negative.
Mine(t, u) ==
  LET a == base[u] IN
  /\ Start(t, "mine") /\ u \in Registered
  /\ \/ /\ "horrorse_celery" \in a.inv.has
        /\ \E n \in MineAmounts :
             /\ n < 0 => a.inv.n["horrorse_celery"] < -1
             /\ Send(t, "mine", "patch", u, Increment(u, "puppy_pass", 0, n), {})
     \/ /\ Insurances \subseteq a.inv.has
        /\ a.inv.n["puppy_pass"] <= 0
        /\ IF a.inv.n["capitalism_blessing"] > 0
           THEN Send(t, "mine", "patch", u, Increment(u, "capitalism_blessing", -1, 0), {})
           ELSE Send(t, "mine", "wipe", u, NoRequest, {})

\* inventory, of oneself or of another, on a typed page.
ViewInventory(t, u) ==
  /\ Start(t, "inventory") /\ u \in Registered
  /\ \E typed \in {n \in TypedPages : n >= 1} :
       LET gone == Unknown(base[u].inv, ToInt(typed))
           v == Erased(base[u].inv, gone)
           sets == (IF gone = {} THEN {} ELSE {v}) \cup chkinv(v) IN
       /\ sets # {}
       /\ Send(t, "inventory", "detached", u, NoRequest, sets)

---------------------------------------------------------------------------
(* A request is executed, and its coroutine, if any, resumes.              *)

NoAnswer == 0

IncrementedKey(a, r) ==   \* mutant: the count is filed under the user
  [bal |-> a.bal + r.bal,
   bank_max |-> a.bank_max + r.bank_max,
   inv |-> [has |-> a.inv.has \cup {r.key}, n |-> a.inv.n]]

Incremented(a, r) ==
  [bal |-> a.bal + r.bal,
   bank_max |-> a.bank_max + r.bank_max,
   inv |-> [has |-> IF r.n = 0 THEN a.inv.has ELSE a.inv.has \cup {r.item},
            n |-> [a.inv.n EXCEPT ![r.item] = @ + r.n]]]

\* Db::patch with its three outcomes; a is the item it leaves for key.
Patch(key, a, status) ==
  \/ /\ status = 200 \/ (status = NoAnswer /\ Faulty)
     /\ key \in Registered
     /\ base' = [base EXCEPT ![key] = a]
  \/ /\ status = 404
     /\ key \notin Registered
     /\ base' = base
  \/ /\ status = NoAnswer /\ Faulty
     /\ base' = base

\* What there may be at most in n items that are used.
Most(i, n) == (IF i = "coin_bag" THEN BagMax ELSE SpaceMax) * n

\* Is what is bought or sold worth a number that an int64_t can hold, and
\* what may be in a bag one that an int can?
Exact(f) ==
  LET r == f.req IN
  /\ f.cmd = "use" => Most(r.item, -r.n) \in Int32
  /\ f.cmd = "buy" => Fits(r.n * Price[r.item])
  /\ f.cmd = "sell" => Fits((-r.n) * HalfPrice(r.item))

\* History: is what a request takes away still there as the handler saw it,
\* and was no number cut off?
Covered(f) ==
  LET r == f.req
      a == base[r.key] IN
  /\ Exact(f)
  /\ r.bal < 0 => a.bal >= f.seen.bal
  /\ r.n < 0 => f.cmd # "gibitem" /\ a.inv.n[r.item] >= f.seen.inv.n[r.item]

Observe(ok) == unchecked' = (unchecked \/ (base' # base /\ ~ok))

PatchReply(t) ==
  LET f == task[t] IN
  /\ f.pc = "patch"
  /\ \E status \in {200, 404, NoAnswer} :
       Patch(f.req.key, Incremented(base[f.req.key], f.req), status)
  /\ task' = [task EXCEPT ![t] = Done]
  /\ Observe(Covered(f))

WipeReply(t) ==
  LET u == task[t].user IN
  /\ task[t].pc = "wipe"
  /\ \E status \in {200, 404, NoAnswer} :
       Patch(u, [base[u] EXCEPT !.bal = 0], status)
  /\ task' = [task EXCEPT ![t] = Done]
  /\ UNCHANGED unchecked

CreditReply(t) ==
  LET f == task[t] IN
  /\ f.pc = "credit"
  /\ \E status \in {200, 404, NoAnswer} :
       /\ Patch(f.req.key, Incremented(base[f.req.key], f.req), status)
       /\ task' = [task EXCEPT ![t] =
                     IF status = 200
                     THEN [f EXCEPT !.pc = "debit",
                                    !.req = Increment(f.user, f.req.item, -f.req.n, 0)]
                     ELSE Done]
  /\ Observe(Covered(f))

DebitReply(t) ==
  LET f == task[t] IN
  /\ f.pc = "debit"
  /\ \E status \in {200, 404, NoAnswer} :
       Patch(f.user, Incremented(base[f.user], f.req), status)
  /\ task' = [task EXCEPT ![t] = Done]
  /\ Observe(Covered(f))

SetReplyNever(t) ==       \* mutant: a request nobody awaits is not sent
  LET f == task[t] IN
  /\ f.pc = "detached"
  /\ task' = [task EXCEPT ![t] = Done]
  /\ UNCHANGED <<base, unchecked>>

\* Has nobody changed the counts of shop items since they were read?
AsSeen(f) == \A i \in Items : base[f.user].inv.n[i] = f.seen.inv.n[i]

\* One of the detached "set" requests.
SetReply(t) ==
  LET f == task[t] IN
  /\ f.pc = "detached"
  /\ \E v \in f.sets :
       /\ \E status \in {200, 404, NoAnswer} :
            Patch(f.user, [base[f.user] EXCEPT !.inv = v], status)
       /\ task' = [task EXCEPT ![t] = IF f.sets = {v} THEN Done
                                      ELSE [f EXCEPT !.sets = @ \ {v}]]
  /\ Observe(AsSeen(f))

---------------------------------------------------------------------------
Command(t) == \E u \in Users :
  \/ Buy(t, u) \/ Sell(t, u) \/ Use(t, u) \/ ShareItem(t, u)
  \/ GibItem(t, u) \/ Mine(t, u) \/ ViewInventory(t, u)

Reply(t) == \/ PatchReply(t) \/ WipeReply(t) \/ CreditReply(t)
            \/ DebitReply(t) \/ SetReply(t)

\* The process restarts: coroutines, and requests not yet sent, are gone.
Restart == /\ Faulty
           /\ task' = [t \in Tasks |-> Done]
           /\ UNCHANGED <<base, unchecked>>

\* Page 0: getinv and getshop divide by it, and the process dies.  shop
\* takes it as typed; inventory refuses it but for one that is 0 as an int.
Trap == /\ \E typed \in {n \in TypedPages : ToInt(n) = 0} :
             \/ "shop" \in Commands
             \/ /\ "inventory" \in Commands /\ typed >= 1
                /\ \E u \in Registered : Listed(base[u].inv) # {}
        /\ task' = [t \in Tasks |-> Done]
        /\ UNCHANGED <<base, unchecked>>

Next == (\E t \in Tasks : Command(t) \/ Reply(t)) \/ Restart \/ Trap

Spec == Init /\ [][Next]_vars

\* dpp's HTTP client always calls back, so a sent request is executed or
\* given up.
FairSpec == Spec /\ \A t \in Tasks : WF_vars(Reply(t))

---------------------------------------------------------------------------
(* Properties. *)

\* Neither coins nor counts fall below zero and no bank shrinks, as long as
\* each request meets what its handler saw: the checks of the handlers and
\* their "-1" cases are complete, and debt only comes from a copy that was
\* stale, from a negative gift, or from a number that was cut off.
SolventUnlessUnchecked ==
  ~unchecked => \A u \in Users : /\ base[u].bal >= 0
                                 /\ base[u].bank_max >= FirstBankMax
                                 /\ \A k \in Kinds : base[u].inv.n[k] >= 0

Worth(a) == a.bal + SumFunction([i \in Items |-> Price[i] * a.inv.n[i]])
Lent == SumFunction([t \in Tasks |->
          IF task[t].pc = "debit" THEN -task[t].req.n * Price[task[t].req.item]
                                  ELSE 0])
Wealth == SumFunction([u \in Users |-> Worth(base[u])]) - Lent

\* Trade makes nobody rich: the commands of all users, overlapping in any
\* way, never raise what all coins and items are worth together, but for
\* these.  Coin bags, mining and the owner add.  A credit of a share that is
\* executed but not answered with 200 is never debited, nor is one whose
\* debit is lost.  A product that an int64_t cannot hold gives items or coins
\* away.  Who sells "all" of a debt pays half its price to be rid of it.  And
\* a "set" of getinv or chkinv brings back what has been taken since its copy
\* was read.
OnlyFaucetsEnrich ==
  [][Wealth' > Wealth =>
       \E t \in Tasks :
         LET f == task[t] IN
         /\ task'[t] # f
         /\ \/ f.pc \in {"patch", "wipe"} /\ f.cmd \in {"use", "mine", "gibitem"}
            \/ f.pc = "credit" /\ task'[t].pc = "idle"
            \/ f.pc = "debit" /\ base' = base
            \/ f.pc = "patch" /\ ~Exact(f)
            \/ f.pc = "patch" /\ f.cmd = "sell" /\ f.seen.inv.n[f.req.item] < 0
            \/ f.pc = "detached" /\ ~AsSeen(f)]_vars

\* Only increments of a user's own commands take shop items away from the
\* user, but for three ways in which others do, or nobody: the owner gives a
\* negative count; somebody who owes items shares "all" of them; a "set" of
\* the user's inventory overwrites what was added since its copy was read.
OnlyOwnCommandsTake ==
  [][\A u \in Users, i \in Items :
       base'[u].inv.n[i] < base[u].inv.n[i] =>
         \E t \in Tasks :
           LET f == task[t] IN
           /\ task'[t] # f
           /\ \/ f.user = u /\ f.pc = "debit"
              \/ f.user = u /\ f.pc = "patch" /\ f.cmd # "gibitem"
              \/ f.cmd = "gibitem" /\ f.req.key = u /\ f.req.n < 0
              \/ f.pc = "credit" /\ f.req.key = u /\ f.seen.inv.n[i] < 0
              \/ f.user = u /\ f.pc = "detached" /\ ~AsSeen(f)]_vars

\* The pages 1 to page_total show every kind that is listed, and none twice.
PagesCover ==
  \A u \in Users :
    LET v == base[u].inv
        pages == 1..page_total(Cardinality(Listed(v))) IN
    \A k \in Listed(v) :
      Cardinality({page \in pages : k \in OnPage(v, page)}) = 1

\* Once a command has noticed that an inventory lacks a shop item, the
\* inventory gets all of them.
GetsComplete ==
  \A u \in Registered :
    (\E t \in Tasks : /\ task[t].pc = "detached" /\ task[t].user = u
                      /\ \E v \in task[t].sets : Items \subseteq v.has)
      ~> Items \subseteq base[u].inv.has

---------------------------------------------------------------------------
(* What texts of the program promise, and the code does not keep.          *)

\* config.h:108: inventory "views your current inventory".
ViewsOnly ==
  [][\A t \in Tasks :
       /\ task[t].cmd = "inventory" /\ task[t].pc = "detached"
       /\ task'[t] # task[t]
       => \A u \in Users, i \in Items :
            base'[u].inv.n[i] = base[u].inv.n[i]]_vars

\* currency.cpp:787: "Share at least 1 item bro".
SharesGive ==
  \A t \in Tasks : task[t].pc = "credit" => task[t].req.n >= 1

\* currency.cpp:865: "You don't have enough." is the answer to a user who
\* would use more than there is.
NoItemOverdraft == \A u \in Users, i \in Items : base[u].inv.n[i] >= 0
=============================================================================
