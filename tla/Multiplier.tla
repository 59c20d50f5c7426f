----------------------------- MODULE Multiplier -----------------------------
(***************************************************************************)
(* The multiplier "multi" of a user's item, and what moves it: beef (use   *)
(* in src/commands/currency.cpp) raises it for a minute; cursed beef shows *)
(* a menu, and a choice in the menu (on_select_click in src/main.cpp)      *)
(* lowers that of another user for half an hour; beg, mine, roll and       *)
(* roulette set it to 0 when they read a negative one.                     *)
(*                                                                         *)
(* What was raised or lowered is taken back by the same coroutine, which   *)
(* waits on a timer of the process in between: a restart forgets it.       *)
(***************************************************************************)
EXTENDS Integers, FiniteSetsExt

CONSTANTS
  Users, Registered,
  FirstBeef, FirstCursed,   \* items a user starts with
  Curse,                    \* what a curse takes: 5
  Amounts,                  \* integers the users type, -1 for "all"
  Commands,
  Tasks,                    \* coroutines that may be alive at once
  Faulty,                   \* may a request or its answer be lost?
  Crashes,                  \* may the process restart?
  MaxMulti,                 \* bound: no command starts beyond it,
  MaxDebt                   \* bound: ... or when anybody owes more items

AllCommands == {"beef", "cursed_beef", "click", "beg"}

ASSUME MultiplierAssumption ==
  /\ Registered \subseteq Users /\ Users # {}
  /\ IsFiniteSet(Tasks)
  /\ FirstBeef \in Nat /\ FirstCursed \in Nat /\ Curse \in Nat
  /\ Amounts \subseteq Int
  /\ Commands \subseteq AllCommands
  /\ Faulty \in BOOLEAN /\ Crashes \in BOOLEAN
  /\ MaxMulti \in Nat /\ MaxDebt \in Nat

VARIABLES
  base,       \* base[u]: multi, and the counts of beef and cursed beef
  menus,      \* users with a menu "Who would you like to curse?"
  task,       \* task[t]: the coroutine in slot t
  disturbed   \* history: multi was set to 0, or a request or timer was lost

vars == <<base, menus, task, disturbed>>

Account == [multi: Int, beef: Int, cursed: Int]

\* A task adds n to the multiplier of on, or has done so and waits, or
\* takes it back; user is the one who is charged.
Frame == [pc: {"idle", "feed", "backfire", "charge", "curse", "wait", "revert", "clear"},
          user: Users, on: Users, n: Int]

Gone == [pc |-> "idle", user |-> CHOOSE u \in Users : TRUE,
         on |-> CHOOSE u \in Users : TRUE, n |-> 0]

TypeOK == /\ base \in [Users -> Account]
          /\ menus \subseteq Users
          /\ task \in [Tasks -> Frame]
          /\ disturbed \in BOOLEAN

Init == /\ base = [u \in Users |-> [multi |-> 0, beef |-> FirstBeef,
                                    cursed |-> FirstCursed]]
        /\ menus = {}
        /\ task = [t \in Tasks |-> Gone]
        /\ disturbed = FALSE

---------------------------------------------------------------------------
(* Commands, up to the request that follows the read.                      *)

Start(t, cmd) == /\ cmd \in Commands
                 /\ task[t].pc = "idle"
                 /\ \A u \in Users : /\ base[u].multi \in -MaxMulti..MaxMulti
                                     /\ base[u].beef >= -MaxDebt
                                     /\ base[u].cursed >= -MaxDebt

Send(t, pc, u, v, n) ==
  /\ task' = [task EXCEPT ![t] = [pc |-> pc, user |-> u, on |-> v, n |-> n]]
  /\ UNCHANGED <<base, disturbed>>

\* use asks for at least one, or for all of a count that is not zero.
Usable(n, count) == IF n = -1 THEN count # 0 ELSE n > 0 /\ count >= n

UseBeef(t, u) ==
  /\ Start(t, "beef") /\ u \in Registered
  /\ \E n \in Amounts : /\ Usable(n, base[u].beef)
                        /\ Send(t, "feed", u, u, IF n = -1 THEN base[u].beef ELSE n)
  /\ UNCHANGED menus

\* The amount is checked and then ignored.  Three times in ten the beef is
\* dropped first.
UseCursedBeef(t, u) ==
  /\ Start(t, "cursed_beef") /\ u \in Registered
  /\ \E n \in Amounts : Usable(n, base[u].cursed)
  /\ \/ /\ Send(t, "backfire", u, u, 0)
        /\ UNCHANGED menus
     \/ /\ menus' = menus \cup {u}
        /\ UNCHANGED <<base, task, disturbed>>

\* A menu can be used as often as the user likes, long after the command.
SelectClick(t, u) ==
  /\ Start(t, "click") /\ u \in menus
  /\ \E v \in Users : Send(t, "charge", u, v, -Curse)
  /\ UNCHANGED menus

\* beg, mine, roll and roulette: "negative multiplier glitch bec of cursed
\* beef".  Nobody waits for the request.
ClearNegative(t, u) ==
  /\ Start(t, "beg") /\ u \in Registered
  /\ base[u].multi < 0
  /\ Send(t, "clear", u, u, 0)
  /\ UNCHANGED menus

---------------------------------------------------------------------------
(* A request is executed and the coroutine resumes.                        *)

NoAnswer == 0

Patch(key, a, status) ==
  \/ /\ status = 200 \/ (status = NoAnswer /\ Faulty)
     /\ key \in Registered
     /\ base' = [base EXCEPT ![key] = a]
  \/ /\ status = 404
     /\ key \notin Registered
     /\ base' = base
  \/ /\ status = NoAnswer /\ Faulty
     /\ base' = base

Statuses == {200, 404, NoAnswer}

Observe(lost) == disturbed' = (disturbed \/ lost)

Goto(t, pc) == task' = [task EXCEPT ![t].pc = pc]
Return(t) == task' = [task EXCEPT ![t] = Gone]

FeedReply(t) ==
  LET f == task[t]
      a == base[f.user] IN
  /\ f.pc = "feed"
  /\ \E status \in Statuses :
       /\ Patch(f.user, [a EXCEPT !.beef = @ - f.n, !.multi = @ + f.n], status)
       /\ IF status = 200 THEN Goto(t, "wait") ELSE Return(t)
       /\ Observe(status = NoAnswer)
  /\ UNCHANGED menus

\* Dropped or not, the menu comes up.
BackfireReply(t) ==
  LET u == task[t].user IN
  /\ task[t].pc = "backfire"
  /\ \E status \in Statuses : Patch(u, [base[u] EXCEPT !.cursed = @ - 1], status)
  /\ menus' = menus \cup {u}
  /\ Return(t)
  /\ UNCHANGED disturbed

ChargeReply(t) ==
  LET u == task[t].user IN
  /\ task[t].pc = "charge"
  /\ \E status \in Statuses :
       /\ Patch(u, [base[u] EXCEPT !.cursed = @ - 1], status)
       /\ IF status = 200 THEN Goto(t, "curse") ELSE Return(t)
  /\ UNCHANGED <<menus, disturbed>>

CurseReplyUnread(t) ==    \* mutant: waits, whether or not there was a curse
  LET f == task[t] IN
  /\ f.pc = "curse"
  /\ \E status \in Statuses :
       /\ Patch(f.on, [base[f.on] EXCEPT !.multi = @ + f.n], status)
       /\ Observe(status = NoAnswer)
  /\ Goto(t, "wait")
  /\ UNCHANGED menus

CurseReply(t) ==
  LET f == task[t] IN
  /\ f.pc = "curse"
  /\ \E status \in Statuses :
       /\ Patch(f.on, [base[f.on] EXCEPT !.multi = @ + f.n], status)
       /\ IF status = 200 THEN Goto(t, "wait") ELSE Return(t)
       /\ Observe(status = NoAnswer)
  /\ UNCHANGED menus

TimerOnce(t) ==           \* mutant: the coroutine is not resumed for a curse
  /\ task[t].pc = "wait" /\ task[t].n >= 0
  /\ Goto(t, "revert")
  /\ UNCHANGED <<base, menus, disturbed>>

\* co_timer: a minute for beef, thirty for a curse.
Timer(t) ==
  /\ task[t].pc = "wait"
  /\ Goto(t, "revert")
  /\ UNCHANGED <<base, menus, disturbed>>

\* "lucky bastard if this request failed"
RevertReply(t) ==
  LET f == task[t] IN
  /\ f.pc = "revert"
  /\ \E status \in Statuses :
       /\ Patch(f.on, [base[f.on] EXCEPT !.multi = @ - f.n], status)
       /\ Observe(status = NoAnswer)
  /\ Return(t)
  /\ UNCHANGED menus

ClearReply(t) ==
  LET u == task[t].user IN
  /\ task[t].pc = "clear"
  /\ \E status \in Statuses : Patch(u, [base[u] EXCEPT !.multi = 0], status)
  /\ Observe(base' # base)
  /\ Return(t)
  /\ UNCHANGED menus

Restart == /\ Crashes
           /\ task' = [t \in Tasks |-> Gone]
           /\ Observe(\E t \in Tasks : task[t].pc \in {"wait", "revert"})
           /\ UNCHANGED <<base, menus>>

---------------------------------------------------------------------------
Command(t) == \E u \in Users : \/ UseBeef(t, u) \/ UseCursedBeef(t, u)
                               \/ SelectClick(t, u) \/ ClearNegative(t, u)

Progress(t) == \/ FeedReply(t) \/ BackfireReply(t) \/ ChargeReply(t)
               \/ CurseReply(t) \/ Timer(t) \/ RevertReply(t) \/ ClearReply(t)

Next == (\E t \in Tasks : Command(t) \/ Progress(t)) \/ Restart

Spec == Init /\ [][Next]_vars

\* Requests are answered or given up, and timers go off.
FairSpec == Spec /\ \A t \in Tasks : WF_vars(Progress(t))

---------------------------------------------------------------------------
(* Properties. *)

\* What is to be taken back from u.
Pending(u) == SumFunction([t \in Tasks |->
                IF task[t].pc \in {"wait", "revert"} /\ task[t].on = u
                THEN task[t].n ELSE 0])

\* Any mix of beef and curses by several users on several users leaves a
\* multiplier that is exactly what is still to be taken back, and so 0 when
\* all has worn off, unless a "set" to 0 or a lost request or timer spoils it.
MultiAccounted == ~disturbed => \A u \in Users : base[u].multi = Pending(u)

\* Boosts and curses wear off: from the last one on, everybody comes back to
\* 0 for good, unless a "set" to 0 or a lost request or timer spoils it.
WearsOff ==
  /\ <>[](\A t \in Tasks : task[t].pc \notin {"feed", "charge", "curse"})
  /\ []~disturbed
  => <>[](\A u \in Users : base[u].multi = 0)

---------------------------------------------------------------------------
(* What texts of the program promise, and the code does not keep.          *)

\* items.h:99: beef "Grants you 1 percent multiplier for 1 minute!", and
\* items.h:110: cursed beef "Lasts 30 minutes!"
NothingLasts ==
  (\A t \in Tasks : task[t].pc = "idle") => \A u \in Users : base[u].multi = 0

\* main.cpp:229: "Sorry buddy but we failed to charge you!" is the answer to
\* a user who has no cursed beef to pay with.
CursesArePaid == \A u \in Users : base[u].cursed >= 0

\* currency.cpp:948: "... you dropped your beef! Good luck next time."
BackfireEndsUse ==
  [][\A t \in Tasks : task[t].pc = "backfire" => menus' = menus]_vars
=============================================================================
