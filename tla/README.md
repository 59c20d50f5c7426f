# capbot: specifications and proofs

capbot is a Discord economy bot: slash commands move coins, items and
multipliers in a key-value database (Deta, over HTTP), a cooldown manager
limits how often a command runs, and a small web server answers health checks.
It is written with C++ coroutines over the DPP library. This directory holds
TLA+ models of it, TLC configurations that check them on small instances,
and TLAPS proofs.

Line numbers are of the files under `src/` and `include/` of the repository.

## 1. The system

### Inventory

| component | code | state | operations |
|---|---|---|---|
| Deta client | `db/crud.cpp` | none of its own; the bases `currency` and `bot_users` at the service | get, post (insert), patch (increment, set), del, put, query |
| coin commands | `commands/currency.cpp` 8-500, 592-627, 737-778 | `bal`, `bank`, `bank_max`, `bank_type` of a user's item | register, unregister, beg, mine, bank buy, deposit, withdraw, share, gib |
| item commands | `currency.cpp` 502-590, 780-1088; getinv, chkinv in `utils.hpp` | `inv` of the item | buy, sell, use, shareitem, gibitem, inventory |
| multiplier | `currency.cpp` 86-102, 910-963; `main.cpp` 189-233 | `multi` of the item, the menus in the chat, process timers | beef, cursed beef, the select menu, reset of a negative multi |
| dispatch | `main.cpp` 131-153, `cooldown.cpp` | `cache_map` under a shared mutex; `cmds` in `bot_users`, `exp` in `currency` | seconds_to_wait, trigger, reset_trigger, usage and experience counts, the call of the handler |
| bitcoin | `currency.cpp` 629-735, `main.cpp` 72-92 | `bal`, `btc` of the item, `exchange_rate`, `minute_left` | timer, btc buy, sell, reset, view, rate |
| gambling | `currency.cpp` 1140-1381 | `bal` | roll, roulette |
| pages | `utils.hpp` 9-99, shop and interest in `currency.cpp` | none | getinv, getshop |
| web server | `webserver/server.cpp` | a socket and a 60 s timer per connection, `request_count` | accept, read, answer, deadline |
| process | `main.cpp` 36-70, `general.cpp` | threads | start, environment check, shutdown |
| tables and text | `config.h`, `items.h`, `essentials.cpp` | constants | none that changes state |

### How they interact

A slash command arrives on an event thread of DPP. The handler in `main.cpp`
asks the cooldown manager how long the user has to wait, stamps the run, and
from the first `co_await` on is a coroutine that holds no thread: it counts the
command in `bot_users`, adds an experience point in `currency`, and calls the
command's own coroutine, which runs on by itself. That one reads the user's item, decides on the copy,
and sends a PATCH. Several coroutines, of one user or of many, are alive at
once and know nothing of each other; what they share is the item in the base
and the cache of stamps. The service executes each request atomically, but
nothing ties a read to the write that follows it.

Two more things run beside the commands. A timer of the cluster draws a new
exchange rate every 30 minutes, into a plain `int` that the coroutines of btc
read. And the web server has a thread and an `io_context` of its own, on which
all its handlers run one after the other; it shares nothing with the bot but
the process.

### What is hard in it

* A decision is made on a copy that may be stale when its request is executed:
  wallets, banks, bank types and item counts are read before an await and
  charged after it, unconditionally.
* Commands on two items (share, shareitem, a curse) send two requests, and the
  second may be lost, refused, or never sent because the process died.
* `chkinv` and `getinv` overwrite a whole inventory with a copy, and do not wait.
* What beef and curses change is changed back by a coroutine that sleeps on a
  timer of the process; other commands set the same field to 0 meanwhile.
* seconds_to_wait and trigger are two critical sections; error paths erase
  stamps, also those of other commands and of later runs.
* "-1" stands for "all", also when all is less than nothing.
* an order for bitcoins reads the rate three times, for its check, its request
  and its message, and the timer or a reset may change it in between.
* numbers typed are 64 bits wide: roll, roulette and the page loops copy them to
  an `int` between one check and the next, and a price times an amount wraps.
* the page loops divide by the page, which shop does not check.
* a deadline may expire while the handler of a finished read or write is queued,
  and a connection lives as long as one of its handlers is to come.

### What makes each component correct

* coins: balances stay within their limits unless a copy was stale, and every debt
  has a known cause; coins come from beg, mine and gib, and sharing neither creates
  nor destroys them; only a user's own commands take from the user;
* items: counts stay non-negative unless a copy was stale, trade makes nobody rich,
  and others cannot take items;
* market: no wallet owes coins or bitcoins unless a copy was stale, orders at one
  rate gain nothing, and a bet stakes what it may and pays by its stake;
* pages: a page shows its slice, and all of them show everything once;
* web server: each connection is one exchange and ends, and no two clients are
  told the same count;
* multiplier: at all times exactly what is still to be taken back, and 0 once
  all has worn off;
* dispatch: runs of a command are a cooldown apart; who waits as long as told
  is served; commands are counted; every accepted command gets to its handler.

The code falls short of several of these; the properties of section 3 then say
exactly how far, and section 4 lists the texts of the program that promise more.

`PROJECT.json` lists the hazards line by line with the properties that watch
them.

## 2. Modules

| module | models | extends |
|---|---|---|
| `CppInt` | conversion to `int`, division towards zero | |
| `Deta` | the base `currency`: post, patch, del with their statuses | |
| `Coins` | the coin commands | `Deta` |
| `RateLimiter` | what a cooldown promises (abstract) | |
| `Dispatch` | on_slashcommand and CooldownManager | uses `RateLimiter` |
| `Pages` | the page loop of getinv and getshop | `CppInt` |
| `Items` | the item commands | `Pages` |
| `Multiplier` | beef, cursed beef, menu, timers | |
| `Wallet` | what btc, roll and roulette share: two fields, one PATCH | |
| `Bitcoin` | btc and the timer of the rate | `Wallet` |
| `Gamble` | roll and roulette | `Wallet`, `CppInt` |
| `Market` | orders, bets and the timer together | `Bitcoin`, `Gamble` |
| `Exchange` | what the web server promises (abstract) | |
| `WebServer` | connections, their handlers, kernel and clients | uses `Exchange` |
| `Arithmetic` | lemmas about products, quotients, remainders, conversions, and sums over finite sets | `FiniteSetsExt`, `TLAPS` |
| `CoinsProofs`, `DispatchProofs`, `MultiplierProofs`, `PagesProofs`, `ItemsProofs`, `MarketProofs`, `WebServerProofs` | theorems | their modules, `TLAPS` |
| `MCCoins`, `MCDispatch`, `MCItems`, `MCMultiplier`, `MCMarket`, `MCWebServer` | small instances | their modules |

### State and actions

In all of them a *task* is one coroutine. An action named after a command
(`Deposit`, `Sell`, `UseBeef`) is the handler from its start to the request it
sends after its read: reading and deciding is one step, because the copy a
handler sees is the item at the moment the read is executed. An action named
`...Reply` is the execution of the request by the service together with the
resumption of the coroutine with its status. Between the two any other task may
take steps. Merging execution and resumption loses nothing the properties can
tell apart: until it is resumed a coroutine has no effect, and its next request
is a step of its own.

`Deta!Patch` has three outcomes: 200 and done, 404 when there is no item, and
no answer (status 0 in DPP), in which case the request may or may not have been
executed; that last one only when the constant `Faulty` is TRUE. `Deta!Del` names
the key `{}` followed by the id, as `Db::del` concatenates its URL without
formatting it. A refused command changes nothing and is not a step, with the
exception of those that have already called `chkinv` (`RefuseIncomplete`).

`Coins` keeps of an item its four coin fields; `task[t].seen` is the copy the
handler decided on. Random draws are `\E` over sets of amounts; the tax and
the USSR bank round as the C++ code does. `Items` keeps an inventory as the set
of kinds it has and a count for each, because a count of 0 and an absent count
differ: an absent one makes `chkinv` send its overwrite, and a handler that
reads it throws. An overwrite nobody awaits is a task in `detached`. `Multiplier`
keeps `multi` and the two counts of beef; `wait` is the sleep on the timer,
`menus` who has a menu in the chat, which can be used as often as one likes.

`Dispatch` splits trigger in two, as the code reads the clock before it takes
the lock (`Stamp`, `Trigger`). A thread is busy while one of its tasks has not
reached its first `co_await` (`Free`). `Resets` is the table of the cooldowns
that the error paths of each handler erase, wrong names included.

`Pages` is the loop as a set: which entries, numbered in the order of their keys,
pass the test that skips and come no later than the first that passes the test
that ends. `Items` numbers the kinds an inventory lists by `Rank`, so that what
`getinv` erases is what is on the page that was asked for. `Trap` is the division
by a page that is 0: the process dies as in `Restart`. An amount to buy wraps as
an `int64_t` does (`LongSpan` values), as do the prices' products. `Draw` turns the
bounds of what is in used items into `int`s, as `uniform_int_distribution<>` does, and
yields any of `WildDraws` where that puts them upside down: libstdc++ then draws from
all of `int`.

In `Bitcoin`, `BuyBtc` reads the item and the rate and passes the checks, `PlaceBuy`
reads the rate again and makes the request, `PatchReply` executes it: between
each two the rate may change. In the C++ code the first two are one run of the
coroutine on one thread, but the timer has another thread, and the rate is a plain
`int`. A sale reads the rate once. In `Gamble`, `Stake` is the checks with their
two conversions to `int`; a win is any outcome of the draw times any bonus, cut
down to an integer, one lower where the factor is not a binary fraction; a draw
whose bounds are upside down, which a negative stake makes, yields any of
`WildDraws`, as in `Items`. Nobody owes celery
there, so a bonus is not negative.

`WebServer` has an action per handler, since one thread runs them one after the
other. What the kernel and the clock do in between is `Receive`, `Send`, `Expire`
and so on: they finish an operation, whose handler then is queued. The difference
between an operation that is going on and one that has finished is what matters:
closing the socket or cancelling the timer makes the first fail and comes too
late for the second. `Released` destroys a connection when no handler is left that
holds its `shared_ptr`. `Sockets` is how many descriptors the process has.

DPP sends requests for one URL in order. No model relies on that: requests in
flight are executed in any order, so that what is shown also holds for a client
that uses several connections. None of the disagreements of section 4 depends
on such a reordering.

### History variables

`unchecked` (Coins, Items, Wallet) becomes TRUE when a request takes something that
is not there any more as its handler saw it; when the owner gives, or beg or mine
draws, less than nothing; when a product of price and amount did not fit; when an
order is charged at a higher rate than it was checked at; when a bet was of a number
that an `int` cannot hold; or when there may be more in used items than an `int` can
hold. `disturbed` (Multiplier) does when `multi` is set to 0, or a request or a timer
is lost. Properties that have them as a proviso say that nothing else goes wrong: all
rounding, "-1" and multi-request cases are inside. They say nothing of what happens
when a copy was stale, and the action properties of Coins, Items and Market that have
no such proviso do: `DebtsHaveCauses`, `LimitsAsSeen`, `OnlyFaucetsMint`,
`OnlyOwnCommandsSpend`, `SharesConserve`, `OnlyFaucetsEnrich`, `OnlyOwnCommandsTake`
and `OnlyTheRateEnriches` name, step by step, every way in which a debt, a gain or a
loss comes about, and each of those ways occurs in the runs (beg has the formula of
mine, and only mine pays less than nothing there).

`issued` counts coins created, `passed` and `told` remember acceptances and refusals,
`quote`, `price`, `stake` and `fits` of a frame in Wallet what an order or a bet was
checked at. No action reads them, except that `passed` bounds the instance.

## 3. Runs

All bounds are constants: `MaxCoins`, `MaxCount`, `MaxMulti` and `MaxDebt` stop
new commands once an account is beyond them, in `Coins` a bank once it is two coins
beyond its limit (requests already in flight may carry it further), `MaxTime` stops the clock, `MaxIssued` bounds the commands a
user gets through. Prices, bank limits and cooldowns are scaled down so that
each comparison is met from both sides, at equality, and after rounding.
Typed amounts include -1 ("all"), another negative one, the largest that fits
and one that does not. Two tasks suffice for every race between a read and a
write; `dispatch_count` has three, so that a command meets the race of two others,
and `multiplier_effects` has a third user, who is cursed and has no item.
An `int` and an `int64_t` have 16 values in the instances, -8 to 7, and numbers
are typed that turn negative, into -1, and into a small one. A wallet of `Market` has
enough for the greatest bet of roulette, of which a quarter is a coin. In `Items_sets` an `int`
has 8, so that what may be in two bags, 4, turns into -4. Pages have two
entries; an instance with four kinds has two pages and typed pages beyond them.
The rate takes two values and is drawn every second tick, so that it changes
between any two steps of an order. One descriptor for three clients makes two of
them wait whatever the third does. Slots of tasks are interchangeable, so
runs without liveness use symmetry. Deadlock is not checked because a bounded
instance comes to rest.

| run | question | properties |
|---|---|---|
| `coins_bank` | two overlapping commands of one user on wallet and bank, every bank type, with gifts and winnings of less than nothing: where do debts come from, does a deposit obey the limits of the bank it saw whatever became of it, which bank operations create coins? | `TypeOK`, `SolventUnlessUnchecked`, `RequestsBacked`, `OnlyFaucetsMint`, `LimitsAsSeen`, `DebtsHaveCauses` |
| `coins_share` | two users register, unregister, get coins from the owner and share them, with lost requests, lost answers and restarts: is it exactly known where shares create or destroy coins, who can take from whom, and where debts come from? | `RequestsBacked`, `SharesNeverLose`, `SharesConserve`, `OnlyOwnCommandsSpend`, `DebtsHaveCauses` |
| `dispatch_limit` | two commands, resets, restarts, lost requests, one event thread: does the cache implement `RateLimiter`, and is patience rewarded? | `TypeOK`, `RateLimited`, `PatienceRewarded` |
| `dispatch_count` | two threads and a tester, no request lost: how far off can the counts be when first commands race, and is every handler reached? | `UsageCounted`, `ExperienceEarned`, `HandlerCalled` |
| `items_trade` | two users who buy, sell, share, mine and get items and gifts, negative ones too, with lost requests, restarts, page 0 and products that do not fit; a sale at half the price earns: who gains, and who loses items to whom? | `TypeOK`, `SolventUnlessUnchecked`, `OnlyFaucetsEnrich`, `OnlyOwnCommandsTake` |
| `items_sets` | an inventory of an earlier version and a user without an item; the inventory is viewed page by page, completed and cleaned by detached overwrites while it is traded, shared and used, two bags at a time for as many coins as leave an `int`: what do overwrites bring back or lose, and is the inventory completed? | `PagesCover`, `SolventUnlessUnchecked`, `OnlyFaucetsEnrich`, `OnlyOwnCommandsTake`, `GetsComplete` |
| `multiplier_effects` | boosts, mutual curses, a cursed stranger, resets, lost requests, restarts: is a multiplier what is still to be taken back, and does it wear off? | `MultiAccounted`, `WearsOff` |
| `market` | orders and bets of one user on one wallet, with a rate that is drawn and reset, lost requests, restarts, and bets that an `int` cuts off: debts, the cap, what a bet stakes and pays, gains by trade | `TypeOK`, `SolventUnlessUnchecked`, `BetsBounded`, `OnlyTheRateEnriches` |
| `webserver` | requests, failures, leaving clients and deadlines in every order, with fewer descriptors than clients: does the server implement `Exchange`, and does every connection end? | `TypeOK`, `NumbersDistinct`, `OnlyDeadlineDrops`, `OneExchange`, `AllEnd` |
| `dispatch_wrong_name` | violation of `NoEarlyRun` | see section 4 |
| `items_views` | violation of `ViewsOnly` | see section 4 |
| `multiplier_glitch` | violation of `NothingLasts` | see section 4 |

Every property of a passing run is shown to depend on the code by a mutant: an
operator defined next to the one it replaces and marked `mutant`, which makes a
plausible mistake (an unread status, a missing check, a rounding, a reset
too many) and breaks the property.

### Fairness

`FairSpec` asks weak fairness of the replies, timers and thread steps of each
task, never of commands. DPP's HTTP client calls back for every request, with
status 0 when it gets no answer, and that resumes the coroutine; its timers are
fired by the cluster's timer loop; an event thread is not preempted for ever. No
fairness is asked of the outcome: a request may be lost every time. `GetsComplete`
is checked without losses, since a lost overwrite is not repeated.

The fairness of `WebServer` is of the handlers one by one, because an `io_context`
runs every handler that is queued; of a response that is being sent, which the
kernel takes or fails, since it is smaller than its buffer; and of the deadline,
which expires. `Accept` needs weak fairness only: a free descriptor stays free
until the next client is accepted, and with several clients waiting, those that
are accepted do not come back. Nothing is asked of clients: they may stay silent
forever, and `AllEnd` holds all the same.

## 4. Promises the code does not keep

Texts of the program make promises; each is a property, quoted with its line in
the last section of its module. Three have standing runs:

* **A failed mine gives back other cooldowns** (`NoEarlyRun`, run
  `dispatch_wrong_name`). Its error paths reset "beg" (`currency.cpp:196`) and
  "bank" (`:200`), so a user who was told to wait for beg need not.
* **Looking at an inventory changes it** (`ViewsOnly`, run `items_views`).
  `chkinv` sets the whole inventory to the copy that was read (`utils.hpp:110`);
  what was sold in between is back, although it was paid for.
* **A curse ends in a permanent bonus** (`NothingLasts`, run `multiplier_glitch`).
  beg, mine, roll and roulette set a negative `multi` to 0 (`currency.cpp:96`),
  and the +5 that ends the curse still comes.

The others are seen with TLC by taking the configuration named here, with the
change given, and this property alone:

| property | configuration | what happens |
|---|---|---|
| `NoOverdraft` | `Coins_bank` | two commands spend the same coins (`currency.cpp:447`) |
| `PremiumCap` | `Coins_bank` | a deposit checked under one bank type lands in another (`:425`) |
| `DepositsAsAdvertised` | `Coins_bank`, `Tasks = {t1}` | premium deposits "must be lower than 200" (`:253`), royal ones "higher than 2500" (`:262`), and exactly 200 and 2500 pass (`:425`, `:428`) |
| `UssrIsForever` | `Coins_bank` | the bank there is no going back from is left (`:311`) |
| `ShareIsTaxed` | `Coins_share` | the sender pays 85 % as well: no tax is taken (`:768`) |
| `ShareMovesCoins` | `Coins_share` | 85 % of one coin is none (`:761`) |
| `RegisteredIsStored` | `Coins_share` | an insert that was lost is answered "Registered." (`:25`) |
| `UnregisteredIsGone` | `Coins_share` | the DELETE names a key nobody has (`crud.cpp:29`) |
| `FailureIsFree` | `Coins_share`, `bank` for `share` | executed, answer lost, "you are not charged" (`:323`) |
| `NoItemOverdraft` | `Items_trade` without `gibitem` | one item is sold twice (`:1070`) |
| `SharesGive` | `Items_trade` | "all" of a negative count is taken from the receiver (`:803`) |
| `ChargedAsTold` | `Market` | the message of a purchase names another sum than was charged: the rate has changed (`:656`) |
| `StakesAtLeastMin` | `Market`, `RollMin = 2`, `RollMax = 3`, `Bets = {3, 17}` | 17, as an `int` of 16 values, is a bet of 1 (`:1151`) |
| `RouletteAsCommented` | `Market` | comments bound a win by a half and the whole of the stake (`:1291`, `:1333`); the number 0 wins up to twice of it (`:1289`), the same parity an eighth to a quarter (`:1331`) |
| `CountsRequests` | `WebServer` | "requests so far" counts those for /count only (`server.cpp:62`) |
| `NothingLasts` | `Multiplier_effects`, `beef` only | a restart forgets to end the boost (`:921`) |
| `CursesArePaid` | `Multiplier_effects` | the menu works without cursed beef left (`main.cpp:194`) |
| `BackfireEndsUse` | `Multiplier_effects` | after a backfire the menu comes up all the same (`:953`) |
| `NoEarlyRun` | `Dispatch_limit`, `share` only, `Faulty` and `Crashes` FALSE | a slow run that fails erases the stamp of a later one (`:771`, `cooldown.cpp:25`) |

## 5. Proofs

TLC checks the instances above; the theorems below hold for every value of the
constants that satisfies the named assumptions, each in the module that declares
the constants, and each evaluated by TLC in a run: `DetaAssumption`,
`CoinsAssumption`, `DispatchAssumption`, `IntAssumption`, `PageAssumption`,
`ItemsAssumption`, `WalletAssumption`, `BitcoinAssumption`, `GambleAssumption`,
`WebServerAssumption`. They say that prices, limits and cooldowns are not
negative, that minima are not above maxima, that an item that can be bought costs
something, that an integer type has an even number of values, and, where sums are
proved about, that users, items and coroutine slots are finitely many.

**`CoinsProofs`**: `TypeCorrect`, `Solvency`, `Backing`, `OwnSpending`, `Limits`,
`Faucets`, `DebtsExplained`, `SharesConserved`, `SharesGain`. That no balance is
negative is not inductive: a request in flight could take more than there is. `IInv`
therefore says of every frame that its request is `Backed`, taking no more than the copy
its handler saw had, as long as nothing unseen was met; `CoveredPatch` then shows that a
request that finds at least what was seen leaves nobody in debt. One lemma per command,
one per reply.

The others need a second invariant, `FramesShaped`, which holds whether or not a copy
was stale: which command is at which of its requests (`Shaped`), that deposits,
withdrawals and purchases ask for no coins in all, but for a deposit of a debt, and a
deposit for what its bank accepts (`Frugal`), and that no request overdraws what its
handler saw, but for "all" of a debt (`Affordable`). Only that a debit is no gift
(`Thrifty`) has the proviso. `GainOf` says what a request adds to an item. From there
`SharesConserved` is bookkeeping over all users and coroutines: one item and one frame
change in a step, so the sums move by what these two do (`DriftChange`), and the lemmas
`PatchDrift`, `CreditDrift`, `DebitDrift`, `OtherDrift` and `RestartDrift` say for every
step which of the three terms of `Drift` cancel. `SharesGain` is an invariant by
itself, given the other two: what a lost debit leaves behind is not negative, because
a credit is `Backed` and a debit `Thrifty`.

**`DispatchProofs`**: `TypeCorrect`, and `Implements`, that the cache, with the
check and the stamp in separate steps, is a `RateLimiter` when there is one event thread
(`OneThread`). The invariant `DInv` says that at most one task is between its
check and its stamp, and that what it was told is still true. With two threads
this is violated, which is why it is an assumption and not a lemma. `Patience`
has the same assumption and the same invariant: the stamp that a user was told
to wait for is still there, or has gone, when the wait is over. `Counting` and `Earning`
hold for any number of threads, and assume `~Faulty /\ ~Crashes`: a lost request or a
dead process loses a count, and the code does not promise otherwise. Their invariant
`Accounted` counts the tasks of a user at each stage; that the item in `bot_users`
is inserted once and found ever after bounds the commands that are missed by those
that race to insert it.

**`MultiplierProofs`**: `TypeCorrect`, `Accounting`. `MultiAccounted` is not inductive
alone, because a coroutine that takes back what it gave must find the item again:
`Targeted` says that it gave to a registered user.

**`PagesProofs`**: `ShownIsSlice`, that the loop with its two tests shows
exactly the entries from `(page-1)*PageSize` to the one before `page*PageSize`,
and `OnePage`, that therefore every entry is on one page. The end of the loop
compares a quotient, `(i+1)/page`, so that the proof is about where a quotient
by an unknown divisor reaches `PageSize` (`GoesOn`, `Stops`).

**`ItemsProofs`**: `TypeCorrect`, `Solvency`, `OthersTakeNothing`, `NobodyEnriched`,
`PagesShowAll`. `IInv` has three parts: the types, `AllBacked`, and the solvency itself.
A frame is backed when the copy it was decided on was solvent (`SeenSolvent`), its
request takes no more than was there and is no loss where no integer overflowed
(`Paid`), and the inventories it sets have the counts that were seen (`Kept`).
`CountsChange` says which replies change a count at all; `OthersTakeNothing` follows from
it. `NobodyEnriched`, that trade creates no wealth but in the ways it names, adds
`AllTrading`, which holds whether or not a copy was stale: what a purchase and a sale in
flight pay, wrapped as the code does, that a share pays nothing, and that a copy to be
set has the counts that were seen. Wealth is a sum over users of sums over items, less
what is lent; `IncrementWealth` says by how much a request moves it, and then purchases
and shares come out even, whatever the prices.

**`MarketProofs`**: `TypeCorrect`, `Solvency`, `BetsAreBounded`,
`TradeGainsNothing`. A frame records the rate its order was checked at and the
price it was charged; being backed ties the two amounts of the request to them.
`Exchanged` is the lemma that what comes in is worth what goes out, at the
price of that order. A bet is backed when it is `Staked` and `Paid` as its command
has it: `StakeBounds` follows the stake through both conversions, `LossPaid` and
`WinPaid` bound what is lost and won by it, through a draw, a bonus and a truncation.

**`WebServerProofs`**: `TypeCorrect`, `NumbersNeverRepeat`,
`DroppedByDeadline`, `Implements`. `Good` is what holds of one connection: which
handlers are pending or queued at each of its stages, and that it was
counted at most once; `Numbered` relates connections: what has been told is
below the counter, and differs. `StepMaps` shows for each handler that it is a
step of `Exchange` or stutters, from the invariant alone.

`Arithmetic` has the facts about products, quotients, remainders and conversions
that these use, and those about sums. `SumFunctionOnSet` of the community modules adds
up a function over a set by taking out one chosen element after the other; `SumChosen`
shows that the recursion behind it has a solution for every finite set, by induction on
the size of the subset, and that it is the only one. `SumRemove` then takes out any
element, not only the chosen one, and `SumOneChanged`, which the proofs above rest
on, says that a sum moves by what one of its terms does. The inductions are instances
of the well-foundedness of strict inclusion between the subsets of a finite set, which
the library proves as a plain fact, so they need no theorem with an operator for a
parameter (`SubsetsInduction`).

### Only model-checked

* Liveness (`HandlerCalled`, `GetsComplete`, `WearsOff`, `AllEnd`):
  the prover has no rules for fairness.
* The runs that expect a violation.

## 6. Not modelled

* **Start and shutdown of the process**: one path, run once. Environment
  variables are read and commands registered before any handler can run. (When one is
  missing, the `return` at `main.cpp:57` leaves a thread that can be joined, and the
  process is terminated.) What a restart does to coroutines in flight is modelled.
* **Commands that change nothing**: help, ping, uptime, think, and the views (balance, rate,
  interest); the replies of all commands but for sums that a property is about.
* **Unused code**: `Db::put`, `Db::query`, `CooldownManager::can_trigger`.
* **Tables and texts** (`config.h`, `items.h`, `essentials.cpp`): their columns are
  constants of the models, their texts matter in section 4 only. Three of them
  are wrong of things no state holds, so no run can show it: the reset of the rate is
  announced as 50,000 (`config.h:158`) and sets 10000 (`currency.cpp:732`); a roll is "25 -
  500" (`config.h:229`) and takes 15 (`currency.cpp:1144`); the rate counts minutes
  and says "seconds" (`currency.cpp:728`).
* **`tests.cpp`**: a manual test of the Deta client.
* **The width of stored fields**: the service's integers are unbounded in the models;
  products and typed numbers wrap, sums in the base do not.
* **A celery that is owed**: the bonus of a bet is then negative; `Gamble` has none. (The
  draws of beg and mine may be negative in `Coins` and `Items`.)
* **Nobody removes items from the base by hand**, and no other program writes there.
* The models divide one item of the base between them: coin fields in `Coins`,
  inventory and `bal` in `Items`, `multi` in `Multiplier`, `bal` and `btc` in `Market`.
  Every command of a model overlaps every other of the same model; a command of one
  overlapping one of another is seen only as far as the field they share is changed
  by some command of both.

## 7. Plan

Done, in this order: `Deta`, `Coins`, `RateLimiter` and `Dispatch`, `Items`,
`Multiplier`, `Pages`, `Bitcoin`, `Gamble` and `Market`, `Exchange` and `WebServer`,
with the proofs of section 5. Every invariant and every action property of the
passing runs is a theorem now.

Left:

1. `Economy`: `Dispatch` composed with a command, so that a handler that
   throws (`currency.cpp:103`) is seen to leave its cooldown standing.
2. Lemmas that bring the liveness properties closer to a proof: that the steps
   that answer a command are few, and that none of them is undone (the measure
   behind `HandlerCalled`, `WearsOff` and `AllEnd`).
