------------------------------ MODULE Dispatch ------------------------------
(***************************************************************************)
(* on_slashcommand (src/main.cpp) and the CooldownManager it shares with   *)
(* the handlers (src/cooldown.cpp).                                        *)
(*                                                                         *)
(* An interaction is handled on an event thread up to its first co_await:  *)
(* seconds_to_wait and trigger are two critical sections of the same lock, *)
(* and trigger reads the clock before it takes the lock.  From the first   *)
(* co_await on the coroutine waits for HTTP answers and holds no thread:   *)
(* the command is counted in the base "bot_users", an experience point is  *)
(* added in "currency", and the handler runs, which on its error paths     *)
(* resets a cooldown.  A task is one such coroutine.                       *)
(***************************************************************************)
EXTENDS Integers, FiniteSets

CONSTANTS
  Users, Testers,  \* testers are exempt from cooldowns
  Registered,      \* users with an item in "currency"
  Commands,        \* the commands of an instance
  Cooldown,        \* their cooldowns, in seconds
  Threads,         \* threads that deliver events
  Tasks,           \* coroutines that may be alive at once
  Faulty,          \* may requests or answers be lost?
  Crashes,         \* may the process restart?
  MaxTime,         \* bound: the clock stops here
  MaxIssued        \* bound: commands a user gets through

\* The cooldowns the error paths of a command's handler reset.
Resets ==
  [ping |-> {}, uptime |-> {}, think |-> {}, fail |-> {},
   register |-> {}, unregister |-> {}, shop |-> {}, shutdown |-> {},
   balance |-> {"balance"}, bank |-> {"bank"}, beg |-> {"beg", "bank"},
   mine |-> {"mine", "beg", "bank"}, deposit |-> {"deposit"},
   withdraw |-> {"withdraw"}, inventory |-> {"inventory"},
   gibitem |-> {"inventory"}, gib |-> {"inventory"}, btc |-> {"btc"},
   share |-> {"share"}, shareitem |-> {"shareitem"}, use |-> {"use"},
   buy |-> {"buy"}, sell |-> {"sell"}, roll |-> {"roll"},
   roulette |-> {"roulette"}]

ASSUME DispatchAssumption ==
  /\ Users # {} /\ Commands # {} /\ Threads # {}
  /\ IsFiniteSet(Tasks) /\ Tasks # {}
  /\ Testers \subseteq Users /\ Registered \subseteq Users
  /\ Commands \subseteq DOMAIN Resets
  /\ Cooldown \in [Commands -> Nat]
  /\ Faulty \in BOOLEAN /\ Crashes \in BOOLEAN
  /\ MaxTime \in Nat /\ MaxIssued \in Nat

VARIABLES
  now,    \* time(NULL)
  cache,  \* cache[u][c]: CooldownManager::cache_map, Never where absent
  task,   \* task[t]: the coroutine in slot t
  usage,  \* usage[u]: "cmds" of the item in "bot_users", NoItem without one
  exp,    \* exp[u]: "exp" of the item in "currency"
  passed, \* history: commands of u that got past the cooldown
  told    \* history: told[u][c], the last refusal of c since it last passed

vars == <<now, cache, task, usage, exp, passed, told>>

Never == -1
NoItem == -1

\* A task on its event thread is between seconds_to_wait and its first
\* co_await; tm is the clock reading of trigger.
OnThread == {"clear", "stamped"}
Frame == [pc: OnThread \cup {"idle", "count", "post", "exp", "handler"},
          user: Users, cmd: Commands, thread: Threads, tm: {Never} \cup Nat]

Gone == [pc |-> "idle", user |-> CHOOSE u \in Users : TRUE,
         cmd |-> CHOOSE c \in Commands : TRUE,
         thread |-> CHOOSE h \in Threads : TRUE, tm |-> Never]

\* wait = 0: nothing was told.
Promise == [at: Nat, wait: Nat]
NoPromise == [at |-> 0, wait |-> 0]

TypeOK == /\ now \in Nat
          /\ cache \in [Users -> [Commands -> {Never} \cup Nat]]
          /\ task \in [Tasks -> Frame]
          /\ usage \in [Users -> {NoItem} \cup Nat]
          /\ exp \in [Users -> Nat]
          /\ passed \in [Users -> Nat]
          /\ told \in [Users -> [Commands -> Promise]]

Init == /\ now = 0
        /\ cache = [u \in Users |-> [c \in Commands |-> Never]]
        /\ task = [t \in Tasks |-> Gone]
        /\ usage = [u \in Users |-> NoItem]
        /\ exp = [u \in Users |-> 0]
        /\ passed = [u \in Users |-> 0]
        /\ told = [u \in Users |-> [c \in Commands |-> NoPromise]]

---------------------------------------------------------------------------
(* CooldownManager. *)

WaitOneLess(stamp, c) ==   \* mutant: one second short
  IF stamp = Never THEN 0 ELSE Cooldown[c] - (now - stamp) - 1

Wait(stamp, c) == IF stamp = Never THEN 0 ELSE Cooldown[c] - (now - stamp)

seconds_to_wait(u, c) == Wait(cache[u][c], c)

triggerBackdated(u, c, tm) ==   \* mutant: stores the start of the window
  cache' = [cache EXCEPT ![u][c] = tm - Cooldown[c]]

trigger(u, c, tm) == cache' = [cache EXCEPT ![u][c] = tm]

reset_trigger(u, c) == cache' = [cache EXCEPT ![u][c] = Never]

---------------------------------------------------------------------------
(* An interaction arrives on event thread h. *)

Free(h) == \A t \in Tasks : task[t].pc \in OnThread => task[t].thread # h

Accept(t, h, u, c) ==
  /\ Free(h) /\ task[t].pc = "idle" /\ passed[u] < MaxIssued
  /\ seconds_to_wait(u, c) <= 0
  /\ task' = [task EXCEPT ![t] =
                [pc |-> IF u \in Testers THEN "count" ELSE "clear",
                 user |-> u, cmd |-> c, thread |-> h, tm |-> Never]]
  /\ passed' = [passed EXCEPT ![u] = @ + 1]
  /\ told' = [told EXCEPT ![u][c] = NoPromise]
  /\ UNCHANGED <<now, cache, usage, exp>>

RefuseAndTrigger(h, u, c) ==    \* mutant: a refusal starts the cooldown over
  /\ Free(h)
  /\ seconds_to_wait(u, c) > 0
  /\ told' = [told EXCEPT ![u][c] = [at |-> now, wait |-> seconds_to_wait(u, c)]]
  /\ trigger(u, c, now)
  /\ UNCHANGED <<now, task, usage, exp, passed>>

\* "Woah, slow down! Next execution is in ..."
Refuse(h, u, c) ==
  /\ Free(h)
  /\ seconds_to_wait(u, c) > 0
  /\ told' = [told EXCEPT ![u][c] = [at |-> now, wait |-> seconds_to_wait(u, c)]]
  /\ UNCHANGED <<now, cache, task, usage, exp, passed>>

\* trigger: time(NULL), then the lock.
Stamp(t) ==
  /\ task[t].pc = "clear"
  /\ task' = [task EXCEPT ![t].pc = "stamped", ![t].tm = now]
  /\ UNCHANGED <<now, cache, usage, exp, passed, told>>

Trigger(t) ==
  /\ task[t].pc = "stamped"
  /\ trigger(task[t].user, task[t].cmd, task[t].tm)
  /\ task' = [task EXCEPT ![t].pc = "count"]
  /\ UNCHANGED <<now, usage, exp, passed, told>>

---------------------------------------------------------------------------
(* The coroutine resumes. *)

Goto(t, pc) == task' = [task EXCEPT ![t].pc = pc]

\* usersdb.patch: only 404 makes the coroutine insert the item.
CountReply(t) ==
  LET u == task[t].user IN
  /\ task[t].pc = "count"
  /\ \/ /\ usage[u] # NoItem
        /\ usage' = [usage EXCEPT ![u] = @ + 1]
        /\ Goto(t, "exp")
     \/ /\ usage[u] = NoItem
        /\ usage' = usage
        /\ Goto(t, "post")
     \/ /\ Faulty
        /\ usage' = usage
        /\ Goto(t, "exp")
  /\ UNCHANGED <<now, cache, exp, passed, told>>

PostReplyTo(t, pc) ==     \* mutants below: the wrong step after the insert
  LET u == task[t].user IN
  /\ task[t].pc = "post"
  /\ usage' = [usage EXCEPT ![u] = IF @ = NoItem THEN 1 ELSE @]
  /\ Goto(t, pc)
  /\ UNCHANGED <<now, cache, exp, passed, told>>
PostReplyRetries(t) == PostReplyTo(t, "count")
PostReplySkips(t) == PostReplyTo(t, "handler")

\* usersdb.post inserts, and is refused when there is an item by now; its
\* status is not looked at.
PostReply(t) ==
  LET u == task[t].user IN
  /\ task[t].pc = "post"
  /\ \/ /\ usage[u] = NoItem
        /\ usage' = [usage EXCEPT ![u] = 1]
     \/ /\ usage[u] # NoItem \/ Faulty
        /\ usage' = usage
  /\ Goto(t, "exp")
  /\ UNCHANGED <<now, cache, exp, passed, told>>

ExpReplyReturns(t) ==     \* mutant: without an item there is no handler
  LET u == task[t].user IN
  /\ task[t].pc = "exp"
  /\ \/ /\ u \in Registered
        /\ exp' = [exp EXCEPT ![u] = @ + 1]
        /\ Goto(t, "handler")
     \/ /\ u \notin Registered
        /\ exp' = exp
        /\ task' = [task EXCEPT ![t] = Gone]
  /\ UNCHANGED <<now, cache, usage, passed, told>>

\* maindb.patch: without an item there is no experience to add.
ExpReply(t) ==
  LET u == task[t].user IN
  /\ task[t].pc = "exp"
  /\ \/ /\ u \in Registered
        /\ exp' = [exp EXCEPT ![u] = @ + 1]
     \/ /\ u \notin Registered \/ Faulty
        /\ exp' = exp
  /\ Goto(t, "handler")
  /\ UNCHANGED <<now, cache, usage, passed, told>>

Succeed(t) ==
  /\ task[t].pc = "handler"
  /\ task' = [task EXCEPT ![t] = Gone]
  /\ UNCHANGED <<now, cache, usage, exp, passed, told>>

\* A handler on an error path.  The promise of a refusal is off when the
\* very run it was about has failed.
Fail(t) ==
  LET u == task[t].user
      c == task[t].cmd IN
  /\ task[t].pc = "handler"
  /\ \E name \in Resets[c] \cap Commands :
       /\ reset_trigger(u, name)
       /\ told' = [told EXCEPT ![u][name] =
                     IF /\ name = c
                        /\ @.at + @.wait = task[t].tm + Cooldown[c]
                     THEN NoPromise ELSE @]
  /\ task' = [task EXCEPT ![t] = Gone]
  /\ UNCHANGED <<now, usage, exp, passed>>

---------------------------------------------------------------------------
Tick == /\ now < MaxTime
        /\ now' = now + 1
        /\ UNCHANGED <<cache, task, usage, exp, passed, told>>

\* The process restarts: the cache and the coroutines are gone.
Restart == /\ Crashes
           /\ cache' = [u \in Users |-> [c \in Commands |-> Never]]
           /\ task' = [t \in Tasks |-> Gone]
           /\ told' = [u \in Users |-> [c \in Commands |-> NoPromise]]
           /\ UNCHANGED <<now, usage, exp, passed>>

Interaction == \E h \in Threads, u \in Users, c \in Commands :
                 Refuse(h, u, c) \/ \E t \in Tasks : Accept(t, h, u, c)

Progress(t) == \/ Stamp(t) \/ Trigger(t) \/ CountReply(t) \/ PostReply(t)
               \/ ExpReply(t) \/ Succeed(t) \/ Fail(t)

Next == Interaction \/ (\E t \in Tasks : Progress(t)) \/ Tick \/ Restart

Spec == Init /\ [][Next]_vars

\* An event thread runs on, and every HTTP request is answered or given up.
FairSpec == Spec /\ \A t \in Tasks : WF_vars(Progress(t))

---------------------------------------------------------------------------
(* Properties. *)

\* The stamps in the cache behave as a rate limiter: two accepted runs of a
\* command are at least its cooldown apart, however coroutines, resets and
\* restarts interleave, as long as one thread delivers the events.
Limiter == INSTANCE RateLimiter WITH last <- cache
RateLimited == Limiter!Spec

\* A user who was refused and waits as long as told is not refused again.
PatienceRewarded ==
  [][\A u \in Users, c \in Commands :
       /\ told[u][c] # NoPromise
       /\ told'[u][c] \notin {told[u][c], NoPromise}
       => now < told[u][c].at + told[u][c].wait]_vars

\* The commands of u that are not counted yet.
Uncounted(u) == Cardinality({t \in Tasks : /\ task[t].user = u
                                           /\ task[t].pc \in OnThread \cup
                                                {"count", "post"}})

\* The count of a user's commands is never too high, and too low by less
\* than the commands that can run at once: only commands that all found no
\* item, and race to insert it, are lost.
UsageCounted ==
  \A u \in Users :
    LET counted == IF usage[u] = NoItem THEN 0 ELSE usage[u] IN
    passed[u] - counted - Uncounted(u) \in 0..(Cardinality(Tasks) - 1)

\* A registered user earns one point for every command whose handler starts,
\* whichever way the command is counted, as long as no request is lost.
ExperienceEarned ==
  \A u \in Registered :
    exp[u] = passed[u] - Cardinality(
               {t \in Tasks : /\ task[t].user = u
                              /\ task[t].pc \notin {"idle", "handler"}})

\* The handler of every accepted command is called, also when the bases have
\* no item to count it in, or another command has just inserted one.
HandlerCalled ==
  \A t \in Tasks : task[t].pc # "idle" ~> task[t].pc = "handler"

\* main.cpp:150: "Next execution is in {}", so a refused command does not
\* run earlier, unless the run it is waiting for has failed.
NoEarlyRun ==
  [][\A u \in Users, c \in Commands :
       passed'[u] > passed[u] /\ told[u][c] # NoPromise /\ told'[u][c] = NoPromise
         => now >= told[u][c].at + told[u][c].wait]_vars
=============================================================================
