--------------------------- MODULE DispatchProofs ---------------------------
(***************************************************************************)
(* Dispatch implements RateLimiter when one thread delivers the events,    *)
(* for any users, commands, cooldowns and number of coroutines.  The stamp *)
(* a task is about to store was checked against the cache in an earlier    *)
(* critical section; the invariant says that the check still holds,        *)
(* because only the task on the event thread stores stamps, and time and   *)
(* resets can only make the distance larger.                               *)
(*                                                                         *)
(* The counts are another matter: with any number of threads, Accounted    *)
(* relates them to the commands that have yet to be counted.               *)
(***************************************************************************)
EXTENDS Dispatch, FiniteSetTheorems, TLAPS

OneThread == \A g, h \in Threads : g = h

\* The run of t would be far enough from the one in the cache at time tm.
Clear(t, tm) ==
  LET last == cache[task[t].user][task[t].cmd] IN
  last # Never => tm - last >= Cooldown[task[t].cmd]

OneOnThread ==
  \A s, t \in Tasks : /\ task[s].pc \in OnThread
                      /\ task[t].pc \in OnThread
                      => s = t

StillClear ==
  \A t \in Tasks :
    /\ task[t].pc = "clear" => Clear(t, now)
    /\ task[t].pc = "stamped" => task[t].tm \in 0..now /\ Clear(t, task[t].tm)

PastStamps == \A u \in Users, c \in Commands : cache[u][c] \in {Never} \cup 0..now

DInv == TypeOK /\ OneOnThread /\ StillClear /\ PastStamps

---------------------------------------------------------------------------
LEMMA GoneFrame == Gone \in Frame
<1>1. /\ (CHOOSE u \in Users : TRUE) \in Users
      /\ (CHOOSE c \in Commands : TRUE) \in Commands
      /\ (CHOOSE h \in Threads : TRUE) \in Threads
  BY DispatchAssumption
<1> QED BY <1>1 DEF Gone, Frame, Never

LEMMA DInit == Init => DInv
<1> SUFFICES ASSUME Init PROVE DInv
  OBVIOUS
<1>1. \A t \in Tasks : task[t] = Gone /\ task[t].pc = "idle"
  BY DEF Init, Gone
<1>2. TypeOK
  BY GoneFrame DEF Init, TypeOK, Promise, NoPromise
<1>3. OneOnThread /\ StillClear
  BY <1>1 DEF OneOnThread, StillClear, OnThread
<1>4. PastStamps
  BY DEF Init, PastStamps
<1> QED BY <1>2, <1>3, <1>4 DEF DInv

---------------------------------------------------------------------------
(* Types. *)

LEMMA WaitNat ==
  ASSUME TypeOK, NEW u \in Users, NEW c \in Commands, seconds_to_wait(u, c) > 0
  PROVE  seconds_to_wait(u, c) \in Nat
BY DispatchAssumption DEF TypeOK, seconds_to_wait, Wait, Never

Pcs == OnThread \cup {"idle", "count", "post", "exp", "handler"}

LEMMA UserOf ==
  ASSUME TypeOK, NEW t \in Tasks
  PROVE  task[t].user \in Users /\ task[t].cmd \in Commands
BY DEF TypeOK, Frame

LEMMA GotoFrame ==
  ASSUME TypeOK, NEW t \in Tasks, NEW pc \in Pcs, Goto(t, pc)
  PROVE  task' \in [Tasks -> Frame]
<1>1. [task[t] EXCEPT !.pc = pc] \in Frame
  BY DEF TypeOK, Frame, Pcs
<1>2. task' = [task EXCEPT ![t] = [task[t] EXCEPT !.pc = pc]]
  BY DEF Goto
<1> QED BY <1>1, <1>2 DEF TypeOK

\* A failing handler forgets one stamp of its user.
LEMMA FailChanges ==
  ASSUME TypeOK, NEW t \in Tasks, Fail(t)
  PROVE  \E name \in Commands, p \in Promise :
           /\ cache' = [cache EXCEPT ![task[t].user][name] = Never]
           /\ told' = [told EXCEPT ![task[t].user][name] = p]
<1> DEFINE u == task[t].user
           c == task[t].cmd
<1>1. PICK name \in Commands :
        /\ reset_trigger(u, name)
        /\ told' = [told EXCEPT ![u][name] =
                      IF /\ name = c
                         /\ @.at + @.wait = task[t].tm + Cooldown[c]
                      THEN NoPromise ELSE @]
  BY Zenon DEF Fail
<1>2. told[u][name] \in Promise /\ NoPromise \in Promise
  BY UserOf DEF TypeOK, Promise, NoPromise
<1>3. CASE name = c /\ told[u][name].at + told[u][name].wait = task[t].tm + Cooldown[c]
  <2>1. told' = [told EXCEPT ![u][name] = NoPromise]
    BY <1>1, <1>3
  <2> QED BY <1>1, <1>2, <2>1 DEF reset_trigger
<1>4. CASE ~(name = c /\ told[u][name].at + told[u][name].wait = task[t].tm + Cooldown[c])
  <2>1. told' = [told EXCEPT ![u][name] = told[u][name]]
    BY <1>1, <1>4
  <2> QED BY <1>1, <1>2, <2>1 DEF reset_trigger
<1> QED BY <1>3, <1>4

LEMMA TypeStep == TypeOK /\ [Next]_vars => TypeOK'
<1> SUFFICES ASSUME TypeOK, [Next]_vars PROVE TypeOK'
  OBVIOUS
<1> USE DEF TypeOK
<1>1. ASSUME NEW t \in Tasks, NEW h \in Threads, NEW u \in Users,
             NEW c \in Commands, Accept(t, h, u, c)
      PROVE  TypeOK'
  <2> DEFINE f == [pc |-> IF u \in Testers THEN "count" ELSE "clear",
                   user |-> u, cmd |-> c, thread |-> h, tm |-> Never]
  <2>1. f \in Frame
    BY DEF Frame, OnThread, Never
  <2>2. task' = [task EXCEPT ![t] = f]
    BY <1>1 DEF Accept
  <2> HIDE DEF f
  <2>3. task' \in [Tasks -> Frame]
    BY <2>1, <2>2
  <2>4. passed' \in [Users -> Nat] /\ told' \in [Users -> [Commands -> Promise]]
    BY <1>1 DEF Accept, NoPromise, Promise
  <2> QED BY <1>1, <2>3, <2>4 DEF Accept
<1>2. ASSUME NEW h \in Threads, NEW u \in Users, NEW c \in Commands,
             Refuse(h, u, c)
      PROVE  TypeOK'
  <2>1. [at |-> now, wait |-> seconds_to_wait(u, c)] \in Promise
    BY <1>2, WaitNat DEF Refuse, Promise
  <2> QED BY <1>2, <2>1 DEF Refuse
<1>3. ASSUME NEW t \in Tasks, Stamp(t) PROVE TypeOK'
  <2>1. [task[t] EXCEPT !.pc = "stamped", !.tm = now] \in Frame
    BY DEF Frame, OnThread
  <2>2. task' = [task EXCEPT ![t] = [task[t] EXCEPT !.pc = "stamped", !.tm = now]]
    BY <1>3 DEF Stamp
  <2>3. task' \in [Tasks -> Frame]
    BY <2>1, <2>2
  <2> QED BY <1>3, <2>3 DEF Stamp
<1>4. ASSUME NEW t \in Tasks, Trigger(t) PROVE TypeOK'
  <2>1. task[t].tm \in {Never} \cup Nat
    BY DEF Frame
  <2>2. cache' \in [Users -> [Commands -> {Never} \cup Nat]]
    BY <1>4, <2>1 DEF Trigger, trigger
  <2>3. task' \in [Tasks -> Frame]
    BY <1>4, GotoFrame DEF Trigger, Goto, Pcs
  <2> QED BY <1>4, <2>2, <2>3 DEF Trigger
<1>5. ASSUME NEW t \in Tasks, CountReply(t) PROVE TypeOK'
  <2>1. Goto(t, "exp") \/ Goto(t, "post")
    BY <1>5, Zenon DEF CountReply
  <2>2. task' \in [Tasks -> Frame]
    BY <2>1, GotoFrame DEF Pcs
  <2>3. usage' = usage \/ \E u \in Users : usage' = [usage EXCEPT ![u] = @ + 1] /\ usage[u] # NoItem
    BY <1>5, UserOf, Zenon DEF CountReply
  <2>4. usage' \in [Users -> {NoItem} \cup Nat]
    BY <2>3 DEF NoItem
  <2> QED BY <1>5, <2>2, <2>4 DEF CountReply
<1>6. ASSUME NEW t \in Tasks, PostReply(t) PROVE TypeOK'
  <2>1. task' \in [Tasks -> Frame]
    BY <1>6, GotoFrame DEF PostReply, Pcs
  <2>2. usage' = usage \/ \E u \in Users : usage' = [usage EXCEPT ![u] = 1]
    BY <1>6, UserOf, Zenon DEF PostReply
  <2>3. usage' \in [Users -> {NoItem} \cup Nat]
    BY <2>2
  <2> QED BY <1>6, <2>1, <2>3 DEF PostReply
<1>7. ASSUME NEW t \in Tasks, ExpReply(t) PROVE TypeOK'
  <2>1. task' \in [Tasks -> Frame]
    BY <1>7, GotoFrame DEF ExpReply, Pcs
  <2>2. exp' = exp \/ \E u \in Users : exp' = [exp EXCEPT ![u] = @ + 1]
    BY <1>7, UserOf, Zenon DEF ExpReply
  <2>3. exp' \in [Users -> Nat]
    BY <2>2
  <2> QED BY <1>7, <2>1, <2>3 DEF ExpReply
<1>8. ASSUME NEW t \in Tasks, Succeed(t) PROVE TypeOK'
  BY <1>8, GoneFrame DEF Succeed
<1>9. ASSUME NEW t \in Tasks, Fail(t) PROVE TypeOK'
  <2>1. task' \in [Tasks -> Frame]
    BY <1>9, GoneFrame DEF Fail
  <2>2. PICK u \in Users, name \in Commands, p \in Promise :
          /\ cache' = [cache EXCEPT ![u][name] = Never]
          /\ told' = [told EXCEPT ![u][name] = p]
    BY <1>9, UserOf, FailChanges
  <2>3. cache' \in [Users -> [Commands -> {Never} \cup Nat]]
    BY <2>2
  <2>4. told' \in [Users -> [Commands -> Promise]]
    BY <2>2
  <2> QED BY <1>9, <2>1, <2>3, <2>4 DEF Fail
<1>10. CASE Tick
  BY <1>10 DEF Tick
<1>11. CASE Restart
  BY <1>11, GoneFrame DEF Restart, NoPromise, Promise
<1>12. CASE UNCHANGED vars
  BY <1>12 DEF vars
<1> QED BY <1>1, <1>2, <1>3, <1>4, <1>5, <1>6, <1>7, <1>8, <1>9, <1>10, <1>11, <1>12
        DEF Next, Interaction, Progress
---------------------------------------------------------------------------
(* The invariant. *)

\* A step in which no task enters or moves on an event thread, and no stamp
\* is stored.
Quiet == /\ \A s \in Tasks : task'[s] = task[s] \/ task'[s].pc \notin OnThread
         /\ \A u \in Users, c \in Commands : cache'[u][c] \in {Never, cache[u][c]}
         /\ now' \in {now, now + 1}

LEMMA QuietSteps ==
  ASSUME TypeOK, [Next]_vars,
         ~ \E t \in Tasks, h \in Threads, u \in Users, c \in Commands : Accept(t, h, u, c),
         ~ \E t \in Tasks : Stamp(t) \/ Trigger(t)
  PROVE  Quiet
<1>1. \A t \in Tasks, pc \in {"count", "post", "exp", "handler"} :
        Goto(t, pc) => \A s \in Tasks : task'[s] = task[s] \/ task'[s].pc \notin OnThread
  BY DEF TypeOK, Frame, Goto, OnThread
<1>2. \A t \in Tasks : task' = [task EXCEPT ![t] = Gone]
        => \A s \in Tasks : task'[s] = task[s] \/ task'[s].pc \notin OnThread
  BY DEF TypeOK, Gone, OnThread
<1>3. ASSUME NEW t \in Tasks, CountReply(t) PROVE Quiet
  <2>1. Goto(t, "exp") \/ Goto(t, "post")
    BY <1>3, Zenon DEF CountReply
  <2> QED BY <1>3, <1>1, <2>1 DEF CountReply, Quiet
<1>4. ASSUME NEW t \in Tasks, PostReply(t) PROVE Quiet
  BY <1>4, <1>1 DEF PostReply, Quiet
<1>5. ASSUME NEW t \in Tasks, ExpReply(t) PROVE Quiet
  BY <1>5, <1>1 DEF ExpReply, Quiet
<1>6. ASSUME NEW t \in Tasks, Succeed(t) PROVE Quiet
  BY <1>6, <1>2 DEF Succeed, Quiet
<1>7. ASSUME NEW t \in Tasks, Fail(t) PROVE Quiet
  <2>1. PICK name \in Commands : cache' = [cache EXCEPT ![task[t].user][name] = Never]
    BY <1>7, FailChanges
  <2>2. \A u \in Users, c \in Commands : cache'[u][c] \in {Never, cache[u][c]}
    BY <2>1, UserOf DEF TypeOK
  <2> QED BY <1>7, <1>2, <2>2 DEF Fail, Quiet
<1>8. ASSUME NEW h \in Threads, NEW u \in Users, NEW c \in Commands, Refuse(h, u, c)
      PROVE  Quiet
  BY <1>8 DEF Refuse, Quiet
<1>9. CASE Tick
  BY <1>9 DEF Tick, Quiet
<1>10. CASE Restart
  BY <1>10 DEF Restart, Quiet, Gone, OnThread
<1>11. CASE UNCHANGED vars
  BY <1>11 DEF vars, Quiet
<1> QED BY <1>3, <1>4, <1>5, <1>6, <1>7, <1>8, <1>9, <1>10, <1>11
        DEF Next, Interaction, Progress

\* Time and resets only move stamps further away.
LEMMA QuietKeeps ==
  ASSUME DInv, TypeOK', Quiet
  PROVE  OneOnThread' /\ StillClear' /\ PastStamps'
<1> USE DEF DInv, TypeOK, Quiet
<1>1. now' \in Nat /\ now' >= now
  OBVIOUS
<1>2. OneOnThread'
  BY DEF OneOnThread
<1>3. ASSUME NEW t \in Tasks, task'[t].pc \in OnThread,
             NEW tm \in Nat, Clear(t, tm)
      PROVE  LET last == cache'[task'[t].user][task'[t].cmd] IN
             last # Never => /\ last = cache[task[t].user][task[t].cmd]
                             /\ last \in Nat
                             /\ tm - last >= Cooldown[task[t].cmd]
                             /\ Cooldown[task[t].cmd] \in Nat
  <2> DEFINE u == task[t].user
             c == task[t].cmd
  <2>1. task'[t] = task[t]
    BY <1>3
  <2>2. cache'[u][c] \in {Never, cache[u][c]} /\ cache[u][c] \in {Never} \cup Nat
    BY UserOf
  <2>3. Cooldown[c] \in Nat
    BY UserOf, DispatchAssumption
  <2> QED BY <1>3, <2>1, <2>2, <2>3 DEF Clear
<1>4. StillClear'
  <2> SUFFICES ASSUME NEW t \in Tasks
               PROVE  /\ task'[t].pc = "clear" => Clear(t, now)'
                      /\ task'[t].pc = "stamped"
                           => task'[t].tm \in 0..now' /\ Clear(t, task[t].tm)'
    BY DEF StillClear
  <2>1. CASE task'[t].pc = "clear"
    <3>1. task'[t] = task[t] /\ Clear(t, now)
      BY <2>1 DEF StillClear, OnThread
    <3> DEFINE last == cache'[task[t].user][task[t].cmd]
    <3>2. now \in Nat /\ task'[t].pc \in OnThread
      BY <2>1 DEF OnThread
    <3>3. last # Never => /\ last \in Nat
                          /\ now - last >= Cooldown[task[t].cmd]
                          /\ Cooldown[task[t].cmd] \in Nat
      BY <1>3, <3>1, <3>2
    <3>4. last # Never => now' - last >= Cooldown[task[t].cmd]
      BY <1>1, <3>2, <3>3
    <3> QED BY <2>1, <3>1, <3>4 DEF Clear
  <2>2. CASE task'[t].pc = "stamped"
    <3>1. task'[t] = task[t] /\ task[t].tm \in 0..now /\ Clear(t, task[t].tm)
      BY <2>2 DEF StillClear, OnThread
    <3> DEFINE last == cache'[task[t].user][task[t].cmd]
    <3>2. task[t].tm \in Nat /\ task[t].tm \in 0..now' /\ task'[t].pc \in OnThread
      BY <1>1, <2>2, <3>1 DEF OnThread
    <3>3. last # Never => task[t].tm - last >= Cooldown[task[t].cmd]
      BY <1>3, <3>1, <3>2
    <3>4. Clear(t, task[t].tm)'
      BY <3>1, <3>3 DEF Clear
    <3> QED BY <2>2, <3>1, <3>2, <3>4
  <2> QED BY <2>1, <2>2
<1>5. PastStamps'
  BY <1>1 DEF PastStamps
<1> QED BY <1>2, <1>4, <1>5
LEMMA AcceptKeeps ==
  ASSUME DInv, OneThread, TypeOK',
         NEW t \in Tasks, NEW h \in Threads, NEW u \in Users, NEW c \in Commands,
         Accept(t, h, u, c)
  PROVE  OneOnThread' /\ StillClear' /\ PastStamps'
<1> USE DEF DInv, TypeOK
<1>1. \A s \in Tasks : task[s].pc \notin OnThread
  <2>1. \A s \in Tasks : task[s].thread = h
    BY DEF OneThread, Frame
  <2> QED BY <2>1 DEF Accept, Free
<1>2. \A s \in Tasks : s # t => task'[s].pc \notin OnThread
  BY <1>1 DEF Accept
<1>3. OneOnThread'
  BY <1>2 DEF OneOnThread
<1>4. /\ task'[t].user = u /\ task'[t].cmd = c
      /\ task'[t].pc \in {"count", "clear"}
      /\ cache' = cache /\ now' = now
  BY DEF Accept
<1>5. cache[u][c] # Never => now - cache[u][c] >= Cooldown[c]
  <2>1. cache[u][c] \in {Never} \cup Nat /\ Cooldown[c] \in Nat
    BY DispatchAssumption
  <2>2. seconds_to_wait(u, c) <= 0
    BY DEF Accept
  <2> QED BY <2>1, <2>2 DEF seconds_to_wait, Wait
<1>6. Clear(t, now)'
  BY <1>4, <1>5 DEF Clear
<1>7. StillClear'
  BY <1>2, <1>4, <1>6 DEF StillClear, OnThread
<1>8. PastStamps'
  BY <1>4 DEF PastStamps
<1> QED BY <1>3, <1>7, <1>8

LEMMA StampKeeps ==
  ASSUME DInv, NEW t \in Tasks, Stamp(t)
  PROVE  OneOnThread' /\ StillClear' /\ PastStamps'
<1> USE DEF DInv, TypeOK
<1>1. /\ task[t].pc = "clear" /\ task[t] \in Frame
      /\ task'[t] = [task[t] EXCEPT !.pc = "stamped", !.tm = now]
      /\ \A s \in Tasks : s # t => task'[s] = task[s]
      /\ cache' = cache /\ now' = now
  BY DEF Stamp
<1>2. /\ task'[t].pc = "stamped" /\ task'[t].tm = now
      /\ task'[t].user = task[t].user /\ task'[t].cmd = task[t].cmd
  BY <1>1 DEF Frame
<1>3. \A s \in Tasks : s # t => task'[s].pc \notin OnThread
  BY <1>1 DEF OneOnThread, OnThread
<1>4. OneOnThread'
  BY <1>3 DEF OneOnThread
<1>5. Clear(t, now)
  BY <1>1 DEF StillClear
<1>6. Clear(t, task[t].tm)'
  BY <1>1, <1>2, <1>5 DEF Clear
<1>7. StillClear'
  <2>1. now' \in 0..now'
    BY <1>1
  <2> QED BY <1>1, <1>2, <1>3, <1>6, <2>1 DEF StillClear, OnThread
<1>8. PastStamps'
  BY <1>1 DEF PastStamps
<1> QED BY <1>4, <1>7, <1>8

LEMMA TriggerKeeps ==
  ASSUME DInv, NEW t \in Tasks, Trigger(t)
  PROVE  OneOnThread' /\ StillClear' /\ PastStamps'
<1> USE DEF DInv, TypeOK
<1>1. /\ task[t].pc = "stamped" /\ now' = now
      /\ task'[t].pc = "count"
      /\ \A s \in Tasks : s # t => task'[s] = task[s]
  BY DEF Trigger
<1>2. \A s \in Tasks : task'[s].pc \notin OnThread
  BY <1>1 DEF OneOnThread, OnThread
<1>3. OneOnThread' /\ StillClear'
  BY <1>2 DEF OneOnThread, StillClear, OnThread
<1>4. task[t].tm \in 0..now
  BY <1>1 DEF StillClear
<1>5. PastStamps'
  BY <1>1, <1>4, UserOf DEF Trigger, trigger, PastStamps
<1> QED BY <1>3, <1>5

LEMMA DStep == DInv /\ OneThread /\ [Next]_vars => DInv'
<1> SUFFICES ASSUME DInv, OneThread, [Next]_vars PROVE DInv'
  OBVIOUS
<1>1. TypeOK'
  BY TypeStep DEF DInv
<1>2. ASSUME NEW t \in Tasks, NEW h \in Threads, NEW u \in Users,
             NEW c \in Commands, Accept(t, h, u, c)
      PROVE  DInv'
  BY <1>1, <1>2, AcceptKeeps DEF DInv
<1>3. ASSUME NEW t \in Tasks, Stamp(t) PROVE DInv'
  BY <1>1, <1>3, StampKeeps DEF DInv
<1>4. ASSUME NEW t \in Tasks, Trigger(t) PROVE DInv'
  BY <1>1, <1>4, TriggerKeeps DEF DInv
<1>5. CASE /\ ~ \E t \in Tasks, h \in Threads, u \in Users, c \in Commands : Accept(t, h, u, c)
           /\ ~ \E t \in Tasks : Stamp(t) \/ Trigger(t)
  <2>1. Quiet
    BY <1>5, QuietSteps DEF DInv
  <2> QED BY <1>1, <2>1, QuietKeeps DEF DInv
<1> QED BY <1>2, <1>3, <1>4, <1>5

---------------------------------------------------------------------------
(* The mapping: Trigger is a run of the rate limiter at the task's stamp,  *)
(* Fail and Restart forget runs, Tick is Tick, and the rest stutters.      *)

LEMMA InitMaps == Init => Limiter!Init
BY DEF Init, Limiter!Init, Never, Limiter!Never

LEMMA TriggerMaps ==
  ASSUME DInv, NEW t \in Tasks, Trigger(t)
  PROVE  Limiter!Run(task[t].user, task[t].cmd)
<1>1. task[t].tm \in 0..now /\ Clear(t, task[t].tm)
  BY DEF DInv, StillClear, Trigger
<1> QED BY <1>1 DEF Limiter!Run, Clear, Trigger, trigger, Never, Limiter!Never

LEMMA StepMaps ==
  DInv /\ DInv' /\ [Next]_vars => [Limiter!Next]_<<now, cache>>
<1> SUFFICES ASSUME DInv, DInv', [Next]_vars
             PROVE  [Limiter!Next]_<<now, cache>>
  OBVIOUS
<1>1. ASSUME NEW t \in Tasks, Trigger(t) PROVE Limiter!Next
  BY <1>1, TriggerMaps, UserOf DEF Limiter!Next, DInv
<1>2. CASE Tick
  BY <1>2 DEF Tick, Limiter!Next, Limiter!Tick
<1>3. ASSUME Quiet, now' = now PROVE Limiter!Forget
  <2>1. cache' \in [Users -> [Commands -> {Never} \cup 0..now]]
    BY <1>3 DEF DInv, TypeOK, PastStamps
  <2> QED BY <1>3, <2>1 DEF Quiet, Limiter!Forget, Never, Limiter!Never
<1>4. ASSUME NEW t \in Tasks, NEW h \in Threads, NEW u \in Users,
             NEW c \in Commands, Accept(t, h, u, c)
      PROVE  UNCHANGED <<now, cache>>
  BY <1>4 DEF Accept
<1>5. ASSUME NEW t \in Tasks, Stamp(t) PROVE UNCHANGED <<now, cache>>
  BY <1>5 DEF Stamp
<1>6. CASE /\ ~ \E t \in Tasks, h \in Threads, u \in Users, c \in Commands : Accept(t, h, u, c)
           /\ ~ \E t \in Tasks : Stamp(t) \/ Trigger(t)
           /\ ~ Tick
  <2>1. Quiet
    BY <1>6, QuietSteps DEF DInv
  <2>2. now' = now
    BY <1>6 DEF Next, vars, Interaction, Progress, Refuse, CountReply, PostReply,
                ExpReply, Succeed, Fail, Restart
  <2> QED BY <1>3, <2>1, <2>2 DEF Limiter!Next
<1> QED BY <1>1, <1>2, <1>4, <1>5, <1>6

---------------------------------------------------------------------------
(* What a refusal promises.  With one thread, a refusal finds no task      *)
(* between its check and its stamp, so what it promised holds until the    *)
(* command passes.                                                         *)

\* The cache asks nobody to wait longer than the last refusal told, and no
\* task is about to store a stamp the refusal did not know of.
Kept(u, c) ==
  told[u][c] # NoPromise =>
    /\ cache[u][c] = Never
         \/ cache[u][c] + Cooldown[c] <= told[u][c].at + told[u][c].wait
    /\ \A t \in Tasks : task[t].pc \in OnThread => <<task[t].user, task[t].cmd>> # <<u, c>>

PromisesKept == \A u \in Users, c \in Commands : Kept(u, c)

\* Forgetting stamps, or promises, and leaving the event thread keeps it.
LEMMA LooserKept ==
  ASSUME PromisesKept,
         \A s \in Tasks : task'[s] = task[s] \/ task'[s].pc \notin OnThread,
         \A u \in Users, c \in Commands :
           /\ cache'[u][c] \in {Never, cache[u][c]}
           /\ told'[u][c] \in {NoPromise, told[u][c]}
  PROVE  PromisesKept'
<1> SUFFICES ASSUME NEW u \in Users, NEW c \in Commands, told'[u][c] # NoPromise
             PROVE  /\ cache'[u][c] = Never
                         \/ cache'[u][c] + Cooldown[c] <= told'[u][c].at + told'[u][c].wait
                    /\ \A t \in Tasks : task'[t].pc \in OnThread
                         => <<task'[t].user, task'[t].cmd>> # <<u, c>>
  BY DEF PromisesKept, Kept
<1>1. Kept(u, c) /\ told'[u][c] = told[u][c] /\ cache'[u][c] \in {Never, cache[u][c]}
  BY DEF PromisesKept
<1>2. cache'[u][c] = Never
        \/ cache'[u][c] + Cooldown[c] <= told'[u][c].at + told'[u][c].wait
  BY <1>1 DEF Kept
<1>3. ASSUME NEW t \in Tasks, task'[t].pc \in OnThread
      PROVE  <<task'[t].user, task'[t].cmd>> # <<u, c>>
  <2>1. task'[t] = task[t]
    BY <1>3
  <2> QED BY <1>1, <1>3, <2>1 DEF Kept
<1> QED BY <1>2, <1>3

LEMMA RefuseKept ==
  ASSUME DInv, OneThread, PromisesKept,
         NEW h \in Threads, NEW u \in Users, NEW c \in Commands, Refuse(h, u, c)
  PROVE  PromisesKept'
<1> DEFINE p == [at |-> now, wait |-> seconds_to_wait(u, c)]
<1>1. told' = [told EXCEPT ![u][c] = p] /\ cache' = cache /\ task' = task
  BY DEF Refuse
<1>2. \A s \in Tasks : task[s].pc \notin OnThread
  <2>1. \A s \in Tasks : task[s].thread = h
    BY DEF OneThread, Frame, DInv, TypeOK
  <2> QED BY <2>1 DEF Refuse, Free
<1>3. \/ cache[u][c] = Never
      \/ cache[u][c] + Cooldown[c] <= p.at + p.wait
  <2>1. cache[u][c] \in {Never} \cup Nat /\ Cooldown[c] \in Nat /\ now \in Nat
    BY DispatchAssumption DEF DInv, TypeOK
  <2> QED BY <2>1 DEF seconds_to_wait, Wait
<1> SUFFICES ASSUME NEW v \in Users, NEW d \in Commands, told'[v][d] # NoPromise
             PROVE  cache'[v][d] = Never
                      \/ cache'[v][d] + Cooldown[d] <= told'[v][d].at + told'[v][d].wait
  BY <1>1, <1>2 DEF PromisesKept, Kept
<1> HIDE DEF p
<1>4. CASE v = u /\ d = c
  <2>1. told'[v][d] = p
    BY <1>1, <1>4 DEF DInv, TypeOK
  <2> QED BY <1>1, <1>3, <1>4, <2>1
<1>5. CASE ~(v = u /\ d = c)
  <2>1. told'[v][d] = told[v][d]
    BY <1>1, <1>5 DEF DInv, TypeOK
  <2> QED BY <1>1, <2>1 DEF PromisesKept, Kept
<1> QED BY <1>4, <1>5

LEMMA AcceptKept ==
  ASSUME DInv, PromisesKept, NEW t \in Tasks, NEW h \in Threads,
         NEW u \in Users, NEW c \in Commands, Accept(t, h, u, c)
  PROVE  PromisesKept'
<1>1. /\ told' = [told EXCEPT ![u][c] = NoPromise] /\ cache' = cache
      /\ \A s \in Tasks : s # t => task'[s] = task[s]
      /\ task'[t].user = u /\ task'[t].cmd = c
  BY DEF Accept, DInv, TypeOK
<1> SUFFICES ASSUME NEW v \in Users, NEW d \in Commands, told'[v][d] # NoPromise
             PROVE  Kept(v, d)'
  BY DEF PromisesKept, Kept
<1>2. <<u, c>> # <<v, d>> /\ told'[v][d] = told[v][d]
  BY <1>1 DEF DInv, TypeOK
<1> QED BY <1>1, <1>2 DEF PromisesKept, Kept

LEMMA StampKept ==
  ASSUME DInv, PromisesKept, NEW t \in Tasks, Stamp(t)
  PROVE  PromisesKept'
<1>1. /\ told' = told /\ cache' = cache
      /\ \A s \in Tasks : s # t => task'[s] = task[s]
      /\ task'[t].user = task[t].user /\ task'[t].cmd = task[t].cmd
      /\ task[t].pc \in OnThread
  BY DEF Stamp, DInv, TypeOK, Frame, OnThread
<1> QED BY <1>1 DEF PromisesKept, Kept

LEMMA TriggerKept ==
  ASSUME DInv, PromisesKept, NEW t \in Tasks, Trigger(t)
  PROVE  PromisesKept'
<1> DEFINE u == task[t].user
           c == task[t].cmd
<1>1. /\ told' = told /\ cache' = [cache EXCEPT ![u][c] = task[t].tm]
      /\ \A s \in Tasks : task'[s] = task[s] \/ task'[s].pc \notin OnThread
      /\ u \in Users /\ c \in Commands /\ task[t].pc \in OnThread
  BY UserOf DEF Trigger, trigger, DInv, TypeOK, OnThread
<1>2. told[u][c] = NoPromise
  BY <1>1 DEF PromisesKept, Kept
<1> SUFFICES ASSUME NEW v \in Users, NEW d \in Commands, told'[v][d] # NoPromise
             PROVE  Kept(v, d)'
  BY DEF PromisesKept, Kept
<1>3. <<u, c>> # <<v, d>> /\ cache'[v][d] = cache[v][d]
  BY <1>1, <1>2 DEF DInv, TypeOK
<1> QED BY <1>1, <1>3 DEF PromisesKept, Kept

\* What the other steps do to what was told.
LEMMA QuietTold ==
  ASSUME TypeOK, [Next]_vars,
         ~ \E h \in Threads, u \in Users, c \in Commands : Refuse(h, u, c)
  PROVE  \A u \in Users, c \in Commands : told'[u][c] \in {NoPromise, told[u][c]}
<1>1. ASSUME NEW t \in Tasks, Fail(t)
      PROVE  \A u \in Users, c \in Commands : told'[u][c] \in {NoPromise, told[u][c]}
  <2> DEFINE v == task[t].user
             d == task[t].cmd
  <2>1. PICK name \in Commands :
          told' = [told EXCEPT ![v][name] =
                     IF /\ name = d
                        /\ @.at + @.wait = task[t].tm + Cooldown[d]
                     THEN NoPromise ELSE @]
    BY <1>1, Zenon DEF Fail
  <2>2. \/ told' = [told EXCEPT ![v][name] = NoPromise]
        \/ told' = [told EXCEPT ![v][name] = told[v][name]]
    <3>1. CASE name = d /\ told[v][name].at + told[v][name].wait = task[t].tm + Cooldown[d]
      BY <2>1, <3>1
    <3>2. CASE ~(name = d /\ told[v][name].at + told[v][name].wait = task[t].tm + Cooldown[d])
      BY <2>1, <3>2
    <3> QED BY <3>1, <3>2
  <2> HIDE DEF v, d
  <2> QED BY <2>2 DEF TypeOK
<1>2. ASSUME NEW t \in Tasks, NEW h \in Threads, NEW v \in Users,
             NEW d \in Commands, Accept(t, h, v, d)
      PROVE  \A u \in Users, c \in Commands : told'[u][c] \in {NoPromise, told[u][c]}
  BY <1>2 DEF Accept, TypeOK
<1>3. CASE Restart
  BY <1>3 DEF Restart
<1>4. CASE told' = told
  BY <1>4
<1> QED BY <1>1, <1>2, <1>3, <1>4
        DEF Next, Interaction, Progress, Tick, Stamp, Trigger, CountReply,
            PostReply, ExpReply, Succeed, vars

LEMMA KeptStep ==
  ASSUME DInv, OneThread, PromisesKept, [Next]_vars
  PROVE  PromisesKept'
<1>1. CASE \E h \in Threads, u \in Users, c \in Commands : Refuse(h, u, c)
  BY <1>1, RefuseKept
<1>2. CASE \E t \in Tasks, h \in Threads, u \in Users, c \in Commands : Accept(t, h, u, c)
  BY <1>2, AcceptKept
<1>3. CASE \E t \in Tasks : Stamp(t)
  BY <1>3, StampKept
<1>4. CASE \E t \in Tasks : Trigger(t)
  BY <1>4, TriggerKept
<1>5. CASE /\ ~ \E h \in Threads, u \in Users, c \in Commands : Refuse(h, u, c)
           /\ ~ \E t \in Tasks, h \in Threads, u \in Users, c \in Commands : Accept(t, h, u, c)
           /\ ~ \E t \in Tasks : Stamp(t) \/ Trigger(t)
  <2>1. Quiet
    BY <1>5, QuietSteps DEF DInv
  <2>2. \A u \in Users, c \in Commands : told'[u][c] \in {NoPromise, told[u][c]}
    BY <1>5, QuietTold DEF DInv
  <2> QED BY <2>1, <2>2, LooserKept DEF Quiet
<1> QED BY <1>1, <1>2, <1>3, <1>4, <1>5

\* A second refusal comes while the first one's time is not up.
LEMMA RefusedAgain ==
  ASSUME DInv, PromisesKept, [Next]_vars, NEW u \in Users, NEW c \in Commands,
         told[u][c] # NoPromise, told'[u][c] \notin {told[u][c], NoPromise}
  PROVE  now < told[u][c].at + told[u][c].wait
<1>1. PICK h \in Threads, v \in Users, d \in Commands : Refuse(h, v, d)
  BY QuietTold DEF DInv
<1>2. v = u /\ d = c
  BY <1>1 DEF Refuse, DInv, TypeOK
<1>3. seconds_to_wait(u, c) > 0
  BY <1>1, <1>2 DEF Refuse
<1>4. /\ cache[u][c] \in {Never} \cup Nat /\ Cooldown[c] \in Nat /\ now \in Nat
      /\ told[u][c].at + told[u][c].wait \in Int
  BY DispatchAssumption DEF DInv, TypeOK, Promise
<1>5. cache[u][c] # Never /\ now < cache[u][c] + Cooldown[c]
  BY <1>3, <1>4 DEF seconds_to_wait, Wait
<1>6. cache[u][c] + Cooldown[c] <= told[u][c].at + told[u][c].wait
  BY <1>5 DEF PromisesKept, Kept
<1> QED BY <1>4, <1>5, <1>6

---------------------------------------------------------------------------
(* Counting the tasks that are at some point of their way.                 *)

Those(W) == {t \in Tasks : task[t] \in W}

LEMMA ThoseType ==
  ASSUME NEW W
  PROVE  IsFiniteSet(Those(W)) /\ Cardinality(Those(W)) \in Nat
BY FS_Subset, FS_CardinalityType, DispatchAssumption DEF Those

\* One task moves from one frame to another.
LEMMA ThoseStep ==
  ASSUME TypeOK, NEW t \in Tasks, NEW f, task' = [task EXCEPT ![t] = f], NEW W
  PROVE  Cardinality(Those(W))' =
           Cardinality(Those(W)) - (IF task[t] \in W THEN 1 ELSE 0)
                                 + (IF f \in W THEN 1 ELSE 0)
<1> DEFINE R == Those(W) \ {t}
<1>1. \A s \in Tasks : task'[s] = IF s = t THEN f ELSE task[s]
  BY DEF TypeOK
<1>2. /\ Those(W) = IF task[t] \in W THEN R \cup {t} ELSE R
      /\ Those(W)' = IF f \in W THEN R \cup {t} ELSE R
      /\ t \notin R
  BY <1>1 DEF Those
<1>3. IsFiniteSet(R) /\ Cardinality(R) \in Nat
  BY ThoseType, FS_Subset, FS_CardinalityType
<1>4. Cardinality(R \cup {t}) = Cardinality(R) + 1
  BY <1>2, <1>3, FS_AddElement
<1> HIDE DEF R
<1> QED BY <1>2, <1>3, <1>4

LEMMA ThoseNone ==
  ASSUME NEW W, \A t \in Tasks : task[t] \notin W
  PROVE  Cardinality(Those(W)) = 0
<1>1. Those(W) = {}
  BY DEF Those
<1> QED BY <1>1, FS_EmptySet

WaitingPcs == OnThread \cup {"count", "post"}
EarningPcs == WaitingPcs \cup {"exp"}

\* The frames of u that are not counted, that are about to insert the item,
\* and that have not earned their point.
Frames(u, pcs) == {f \in Frame : f.user = u /\ f.pc \in pcs}
Number(u, pcs) == Cardinality(Those(Frames(u, pcs)))

\* The part of a frame in the number.
Part(f, u, pcs) == IF f.user = u /\ f.pc \in pcs THEN 1 ELSE 0

LEMMA NumberStep ==
  ASSUME TypeOK, NEW t \in Tasks, NEW f \in Frame,
         task' = [task EXCEPT ![t] = f], NEW u, NEW pcs
  PROVE  /\ Number(u, pcs) \in Nat /\ Number(u, pcs) <= Cardinality(Tasks)
         /\ Number(u, pcs)' =
              Number(u, pcs) - Part(task[t], u, pcs) + Part(f, u, pcs)
<1> DEFINE W == Frames(u, pcs)
<1>1. task[t] \in W <=> task[t].user = u /\ task[t].pc \in pcs
  BY DEF Frames, TypeOK
<1>2. f \in W <=> f.user = u /\ f.pc \in pcs
  BY DEF Frames
<1> HIDE DEF W
<1>3. Cardinality(Those(W))' =
        Cardinality(Those(W)) - (IF task[t] \in W THEN 1 ELSE 0)
                              + (IF f \in W THEN 1 ELSE 0)
  BY ThoseStep
<1>4. Cardinality(Those(W)) \in Nat /\ Cardinality(Those(W)) <= Cardinality(Tasks)
  BY ThoseType, FS_Subset, DispatchAssumption DEF Those
<1>5. Number(u, pcs) = Cardinality(Those(W)) /\ Number(u, pcs)' = Cardinality(Those(W))'
  BY DEF Number, W
<1>6. /\ Part(task[t], u, pcs) = IF task[t] \in W THEN 1 ELSE 0
      /\ Part(f, u, pcs) = IF f \in W THEN 1 ELSE 0
  BY <1>1, <1>2 DEF Part
<1> QED BY <1>3, <1>4, <1>5, <1>6

LEMMA SomeTasks == Cardinality(Tasks) \in Nat \ {0}
BY FS_CardinalityType, FS_EmptySet, DispatchAssumption

\* A command is lost when its insert finds the item of another: there are at
\* most as many to come as tasks that are about to insert.
Counted(u) ==
  IF usage[u] = NoItem
  THEN passed[u] = Number(u, WaitingPcs)
  ELSE LET lost == passed[u] - usage[u] - Number(u, WaitingPcs) IN
       lost >= 0 /\ lost + Number(u, {"post"}) <= Cardinality(Tasks) - 1

Earned(u) == u \in Registered => exp[u] = passed[u] - Number(u, EarningPcs)

Accounted == \A u \in Users : Counted(u) /\ Earned(u)

\* What the two properties say.
LEMMA AccountedIs ==
  ASSUME TypeOK
  PROVE  /\ Accounted => UsageCounted
         /\ Accounted => ExperienceEarned
<1>1. ASSUME NEW u \in Users
      PROVE  /\ Uncounted(u) = Number(u, WaitingPcs)
             /\ Cardinality({t \in Tasks : /\ task[t].user = u
                                           /\ task[t].pc \notin {"idle", "handler"}})
                  = Number(u, EarningPcs)
             /\ Number(u, WaitingPcs) \in Nat /\ Number(u, {"post"}) \in Nat
  <2>1. {t \in Tasks : /\ task[t].user = u
                       /\ task[t].pc \in OnThread \cup {"count", "post"}}
          = Those(Frames(u, WaitingPcs))
    BY DEF Those, Frames, WaitingPcs, TypeOK
  <2>2. {t \in Tasks : /\ task[t].user = u
                       /\ task[t].pc \notin {"idle", "handler"}}
          = Those(Frames(u, EarningPcs))
    BY DEF Those, Frames, EarningPcs, WaitingPcs, TypeOK, Frame, OnThread
  <2> QED BY <2>1, <2>2, ThoseType DEF Uncounted, Number
<1>2. ASSUME Accounted, NEW u \in Users
      PROVE  LET counted == IF usage[u] = NoItem THEN 0 ELSE usage[u] IN
             passed[u] - counted - Uncounted(u) \in 0..(Cardinality(Tasks) - 1)
  <2>1. /\ passed[u] \in Nat /\ usage[u] \in {NoItem} \cup Nat
        /\ Counted(u)
    BY <1>2 DEF TypeOK, Accounted
  <2> DEFINE w == Number(u, WaitingPcs)
             p == Number(u, {"post"})
             c == Cardinality(Tasks)
  <2>0. w \in Nat /\ p \in Nat /\ c \in Nat \ {0} /\ Uncounted(u) = w
    BY <1>1, SomeTasks
  <2>4. IF usage[u] = NoItem THEN passed[u] = w
        ELSE /\ passed[u] - usage[u] - w >= 0
             /\ passed[u] - usage[u] - w + p <= c - 1
    BY <2>1 DEF Counted
  <2> HIDE DEF w, p, c
  <2>2. CASE usage[u] = NoItem
    <3>1. passed[u] - 0 - w = 0 /\ 0 \in 0..(c - 1)
      BY <2>0, <2>1, <2>2, <2>4
    <3> QED BY <2>0, <2>2, <3>1 DEF c
  <2>3. CASE usage[u] # NoItem
    <3>1. passed[u] - usage[u] - w \in 0..(c - 1)
      BY <2>0, <2>1, <2>3, <2>4
    <3> QED BY <2>0, <2>3, <3>1 DEF c
  <2> QED BY <2>2, <2>3
<1>3. Accounted => UsageCounted
  BY <1>2 DEF UsageCounted
<1>4. Accounted => ExperienceEarned
  BY <1>1, DispatchAssumption DEF Accounted, Earned, ExperienceEarned
<1> QED BY <1>3, <1>4

\* What a step of one task does to the numbers of u.
Shifted(u, g, f) ==
  /\ Number(u, WaitingPcs) \in Nat /\ Number(u, {"post"}) \in Nat
  /\ Number(u, EarningPcs) \in Nat
  /\ Number(u, {"post"}) <= Cardinality(Tasks)
  /\ Number(u, WaitingPcs)' = Number(u, WaitingPcs)
                                 - Part(g, u, WaitingPcs) + Part(f, u, WaitingPcs)
  /\ Number(u, {"post"})' = Number(u, {"post"})
                                 - Part(g, u, {"post"}) + Part(f, u, {"post"})
  /\ Number(u, EarningPcs)' = Number(u, EarningPcs)
                                 - Part(g, u, EarningPcs) + Part(f, u, EarningPcs)

LEMMA AllShifted ==
  ASSUME TypeOK, NEW t \in Tasks, NEW f \in Frame,
         task' = [task EXCEPT ![t] = f]
  PROVE  \A u \in Users : Shifted(u, task[t], f)
<1> SUFFICES ASSUME NEW u \in Users PROVE Shifted(u, task[t], f)
  OBVIOUS
<1>1. \A pcs : /\ Number(u, pcs) \in Nat /\ Number(u, pcs) <= Cardinality(Tasks)
               /\ Number(u, pcs)' =
                    Number(u, pcs) - Part(task[t], u, pcs) + Part(f, u, pcs)
  BY NumberStep
<1> QED BY <1>1, Zenon DEF Shifted

\* The steps before and after the counting.
LEMMA UncountedStep ==
  ASSUME TypeOK, Accounted, NEW t \in Tasks, NEW f \in Frame,
         task' = [task EXCEPT ![t] = f], UNCHANGED <<usage, exp, passed>>,
         \A u \in Users, pcs \in {WaitingPcs, {"post"}, EarningPcs} :
           Part(task[t], u, pcs) = Part(f, u, pcs)
  PROVE  Accounted'
<1> SUFFICES ASSUME NEW u \in Users
             PROVE  Counted(u)' /\ Earned(u)'
  BY DEF Accounted
<1>1. Shifted(u, task[t], f)
  BY AllShifted
<1>2. /\ Number(u, WaitingPcs)' = Number(u, WaitingPcs)
      /\ Number(u, {"post"})' = Number(u, {"post"})
      /\ Number(u, EarningPcs)' = Number(u, EarningPcs)
  <2>1. \A pcs \in {WaitingPcs, {"post"}, EarningPcs} :
          Part(task[t], u, pcs) = Part(f, u, pcs) /\ Part(f, u, pcs) \in Nat
    BY DEF Part
  <2> QED BY <1>1, <2>1 DEF Shifted
<1> QED BY <1>2 DEF Accounted, Counted, Earned

LEMMA AcceptCounted ==
  ASSUME TypeOK, Accounted, NEW t \in Tasks, NEW h \in Threads, NEW v \in Users,
         NEW c \in Commands, Accept(t, h, v, c)
  PROVE  Accounted'
<1> DEFINE f == [pc |-> IF v \in Testers THEN "count" ELSE "clear",
                 user |-> v, cmd |-> c, thread |-> h, tm |-> Never]
<1>1. /\ f \in Frame /\ f.user = v /\ f.pc \in {"count", "clear"}
      /\ task' = [task EXCEPT ![t] = f] /\ task[t].pc = "idle"
      /\ usage' = usage /\ exp' = exp /\ passed' = [passed EXCEPT ![v] = @ + 1]
  BY DEF Accept, Frame, OnThread, Never
<1> HIDE DEF f
<1>2. /\ f.pc \in WaitingPcs /\ f.pc \in EarningPcs /\ f.pc # "post"
      /\ task[t].pc \notin WaitingPcs /\ task[t].pc \notin EarningPcs
      /\ task[t].pc # "post"
  BY <1>1 DEF WaitingPcs, EarningPcs, OnThread
<1> SUFFICES ASSUME NEW u \in Users
             PROVE  Counted(u)' /\ Earned(u)'
  BY DEF Accounted
<1>3. /\ Number(u, WaitingPcs)' = Number(u, WaitingPcs) + (IF v = u THEN 1 ELSE 0)
      /\ Number(u, {"post"})' = Number(u, {"post"})
      /\ Number(u, EarningPcs)' = Number(u, EarningPcs) + (IF v = u THEN 1 ELSE 0)
      /\ Number(u, WaitingPcs) \in Nat /\ Number(u, {"post"}) \in Nat
      /\ Number(u, EarningPcs) \in Nat
  <2>1. /\ Part(task[t], u, WaitingPcs) = 0
        /\ Part(task[t], u, {"post"}) = 0
        /\ Part(task[t], u, EarningPcs) = 0
        /\ Part(f, u, WaitingPcs) = IF v = u THEN 1 ELSE 0
        /\ Part(f, u, {"post"}) = 0
        /\ Part(f, u, EarningPcs) = IF v = u THEN 1 ELSE 0
    BY <1>1, <1>2 DEF Part
  <2>2. Shifted(u, task[t], f)
    BY <1>1, <1>2, AllShifted
  <2> QED BY <2>1, <2>2 DEF Shifted
<1>4. passed'[u] = passed[u] + (IF v = u THEN 1 ELSE 0) /\ passed[u] \in Nat
  BY <1>1 DEF TypeOK
<1>5. usage'[u] = usage[u] /\ exp'[u] = exp[u]
      /\ usage[u] \in {NoItem} \cup Nat /\ exp[u] \in Nat
  BY <1>1 DEF TypeOK
<1> QED BY <1>3, <1>4, <1>5, SomeTasks DEF Accounted, Counted, Earned

\* usersdb.patch counts the command, or finds no item.
LEMMA CountCounted ==
  ASSUME TypeOK, Accounted, ~Faulty, NEW t \in Tasks, CountReply(t)
  PROVE  Accounted'
<1> DEFINE v == task[t].user
<1>1. PICK pc \in {"exp", "post"} :
        /\ Goto(t, pc)
        /\ IF pc = "exp" THEN usage[v] # NoItem /\ usage' = [usage EXCEPT ![v] = @ + 1]
                         ELSE usage[v] = NoItem /\ usage' = usage
  BY DEF CountReply
<1> DEFINE f == [task[t] EXCEPT !.pc = pc]
<1>2. /\ v \in Users /\ f \in Frame /\ f.user = v /\ f.pc = pc
      /\ task' = [task EXCEPT ![t] = f] /\ task[t].pc = "count"
      /\ exp' = exp /\ passed' = passed
  BY <1>1 DEF CountReply, Goto, TypeOK, Frame
<1> HIDE DEF f
<1>3. /\ task[t].pc \in WaitingPcs /\ task[t].pc \in EarningPcs
      /\ task[t].pc # "post" /\ f.pc \in EarningPcs
      /\ f.pc \in WaitingPcs <=> pc = "post"
      /\ f.pc = "post" <=> pc = "post"
  BY <1>2 DEF WaitingPcs, EarningPcs, OnThread
<1> SUFFICES ASSUME NEW u \in Users
             PROVE  Counted(u)' /\ Earned(u)'
  BY DEF Accounted
<1>4. /\ Number(u, WaitingPcs)' = Number(u, WaitingPcs)
                                    - (IF v = u /\ pc = "exp" THEN 1 ELSE 0)
      /\ Number(u, {"post"})' = Number(u, {"post"})
                                    + (IF v = u /\ pc = "post" THEN 1 ELSE 0)
      /\ Number(u, EarningPcs)' = Number(u, EarningPcs)
      /\ Number(u, WaitingPcs) \in Nat /\ Number(u, {"post"}) \in Nat
  <2>1. /\ Part(task[t], u, WaitingPcs) = IF v = u THEN 1 ELSE 0
        /\ Part(task[t], u, {"post"}) = 0
        /\ Part(task[t], u, EarningPcs) = IF v = u THEN 1 ELSE 0
        /\ Part(f, u, WaitingPcs) = IF v = u /\ pc = "post" THEN 1 ELSE 0
        /\ Part(f, u, {"post"}) = IF v = u /\ pc = "post" THEN 1 ELSE 0
        /\ Part(f, u, EarningPcs) = IF v = u THEN 1 ELSE 0
    BY <1>1, <1>2, <1>3 DEF Part
  <2>2. Shifted(u, task[t], f)
    BY <1>1, <1>2, AllShifted
  <2> QED BY <2>1, <2>2 DEF Shifted
<1>5. /\ passed'[u] = passed[u] /\ exp'[u] = exp[u] /\ passed[u] \in Nat
      /\ usage[u] \in {NoItem} \cup Nat
      /\ usage'[u] = usage[u] + (IF v = u /\ pc = "exp" THEN 1 ELSE 0)
      /\ v = u /\ pc = "exp" => usage[u] # NoItem
      /\ v = u /\ pc = "post" => usage[u] = NoItem
  BY <1>1, <1>2 DEF TypeOK, NoItem
<1>6. Counted(u) /\ Earned(u)
  BY DEF Accounted
<1> HIDE DEF v
<1>7. Counted(u)'
  BY <1>4, <1>5, <1>6, SomeTasks DEF Counted, NoItem
<1> QED BY <1>4, <1>5, <1>6, <1>7 DEF Earned

\* usersdb.post: of the tasks that found no item, the first inserts it with
\* its own command, the others are lost.
LEMMA PostCounted ==
  ASSUME TypeOK, Accounted, ~Faulty, NEW t \in Tasks, PostReply(t)
  PROVE  Accounted'
<1> DEFINE v == task[t].user
           f == [task[t] EXCEPT !.pc = "exp"]
<1>1. /\ v \in Users /\ f \in Frame /\ f.user = v /\ f.pc = "exp"
      /\ task' = [task EXCEPT ![t] = f] /\ task[t].pc = "post"
      /\ exp' = exp /\ passed' = passed
  BY DEF PostReply, Goto, TypeOK, Frame
<1>2. \/ usage[v] = NoItem /\ usage' = [usage EXCEPT ![v] = 1]
      \/ usage[v] # NoItem /\ usage' = usage
  BY DEF PostReply
<1> HIDE DEF f
<1>3. /\ task[t].pc \in WaitingPcs /\ task[t].pc \in EarningPcs
      /\ f.pc \in EarningPcs /\ f.pc \notin WaitingPcs /\ f.pc # "post"
  BY <1>1 DEF WaitingPcs, EarningPcs, OnThread
<1> SUFFICES ASSUME NEW u \in Users
             PROVE  Counted(u)' /\ Earned(u)'
  BY DEF Accounted
<1>4. /\ Number(u, WaitingPcs)' = Number(u, WaitingPcs) - (IF v = u THEN 1 ELSE 0)
      /\ Number(u, {"post"})' = Number(u, {"post"}) - (IF v = u THEN 1 ELSE 0)
      /\ Number(u, EarningPcs)' = Number(u, EarningPcs)
      /\ Number(u, WaitingPcs) \in Nat /\ Number(u, {"post"}) \in Nat
      /\ Number(u, {"post"}) <= Cardinality(Tasks)
  <2>1. /\ Part(task[t], u, WaitingPcs) = IF v = u THEN 1 ELSE 0
        /\ Part(task[t], u, {"post"}) = IF v = u THEN 1 ELSE 0
        /\ Part(task[t], u, EarningPcs) = IF v = u THEN 1 ELSE 0
        /\ Part(f, u, WaitingPcs) = 0
        /\ Part(f, u, {"post"}) = 0
        /\ Part(f, u, EarningPcs) = IF v = u THEN 1 ELSE 0
    BY <1>1, <1>3 DEF Part
  <2>2. Shifted(u, task[t], f)
    BY <1>1, <1>2, AllShifted
  <2> QED BY <2>1, <2>2 DEF Shifted
<1>5. /\ passed'[u] = passed[u] /\ exp'[u] = exp[u] /\ passed[u] \in Nat
      /\ usage[u] \in {NoItem} \cup Nat
      /\ usage'[u] = IF v = u /\ usage[u] = NoItem THEN 1 ELSE usage[u]
  BY <1>1, <1>2 DEF TypeOK
<1>6. Counted(u) /\ Earned(u)
  BY DEF Accounted
<1> HIDE DEF v
<1>7. Counted(u)'
  BY <1>4, <1>5, <1>6, SomeTasks DEF Counted, NoItem
<1> QED BY <1>4, <1>5, <1>6, <1>7 DEF Earned

\* maindb.patch adds the point of a registered user.
LEMMA ExpCounted ==
  ASSUME TypeOK, Accounted, ~Faulty, NEW t \in Tasks, ExpReply(t)
  PROVE  Accounted'
<1> DEFINE v == task[t].user
           f == [task[t] EXCEPT !.pc = "handler"]
<1>1. /\ v \in Users /\ f \in Frame /\ f.user = v /\ f.pc = "handler"
      /\ task' = [task EXCEPT ![t] = f] /\ task[t].pc = "exp"
      /\ usage' = usage /\ passed' = passed
      /\ \/ v \in Registered /\ exp' = [exp EXCEPT ![v] = @ + 1]
         \/ v \notin Registered /\ exp' = exp
  BY DEF ExpReply, Goto, TypeOK, Frame
<1> HIDE DEF f
<1>2. /\ task[t].pc \notin WaitingPcs /\ task[t].pc \in EarningPcs
      /\ task[t].pc # "post" /\ f.pc \notin EarningPcs
      /\ f.pc \notin WaitingPcs /\ f.pc # "post"
  BY <1>1 DEF WaitingPcs, EarningPcs, OnThread
<1> SUFFICES ASSUME NEW u \in Users
             PROVE  Counted(u)' /\ Earned(u)'
  BY DEF Accounted
<1>3. /\ Number(u, WaitingPcs)' = Number(u, WaitingPcs)
      /\ Number(u, {"post"})' = Number(u, {"post"})
      /\ Number(u, EarningPcs)' = Number(u, EarningPcs) - (IF v = u THEN 1 ELSE 0)
      /\ Number(u, EarningPcs) \in Nat
  <2>1. /\ Part(task[t], u, WaitingPcs) = 0
        /\ Part(task[t], u, {"post"}) = 0
        /\ Part(task[t], u, EarningPcs) = IF v = u THEN 1 ELSE 0
        /\ Part(f, u, WaitingPcs) = 0
        /\ Part(f, u, {"post"}) = 0
        /\ Part(f, u, EarningPcs) = 0
    BY <1>1, <1>2 DEF Part
  <2>2. Shifted(u, task[t], f)
    BY <1>1, <1>2, AllShifted
  <2> QED BY <2>1, <2>2 DEF Shifted
<1>4. /\ passed'[u] = passed[u] /\ usage'[u] = usage[u] /\ passed[u] \in Nat
      /\ exp[u] \in Nat
      /\ u \in Registered => exp'[u] = exp[u] + (IF v = u THEN 1 ELSE 0)
  BY <1>1 DEF TypeOK
<1>5. Counted(u) /\ Earned(u)
  BY DEF Accounted
<1> HIDE DEF v
<1>6. Counted(u)'
  BY <1>3, <1>4, <1>5 DEF Counted
<1> QED BY <1>3, <1>4, <1>5, <1>6 DEF Earned

\* Without lost requests and restarts, the accounts stay.
LEMMA CountedStep ==
  ASSUME TypeOK, Accounted, ~Faulty, ~Crashes, [Next]_vars
  PROVE  Accounted'
<1>1. ASSUME NEW t \in Tasks, Stamp(t) \/ Trigger(t) PROVE Accounted'
  <2>1. PICK f \in Frame :
          /\ task' = [task EXCEPT ![t] = f] /\ f.user = task[t].user
          /\ task[t].pc \in OnThread /\ f.pc \in {"stamped", "count"}
    <3>1. CASE Stamp(t)
      <4> DEFINE f == [task[t] EXCEPT !.pc = "stamped", !.tm = now]
      <4>1. f \in Frame /\ f.user = task[t].user /\ f.pc = "stamped"
        BY DEF TypeOK, Frame, OnThread
      <4>2. task' = [task EXCEPT ![t] = f] /\ task[t].pc \in OnThread
        BY <3>1 DEF Stamp, OnThread
      <4> QED BY <4>1, <4>2
    <3>2. CASE Trigger(t)
      <4> DEFINE f == [task[t] EXCEPT !.pc = "count"]
      <4>1. f \in Frame /\ f.user = task[t].user /\ f.pc = "count"
        BY DEF TypeOK, Frame, OnThread
      <4>2. task' = [task EXCEPT ![t] = f] /\ task[t].pc \in OnThread
        BY <3>2 DEF Trigger, OnThread
      <4> QED BY <4>1, <4>2
    <3> QED BY <1>1, <3>1, <3>2
  <2>2. /\ task[t].pc \in WaitingPcs /\ task[t].pc \in EarningPcs
        /\ task[t].pc # "post" /\ f.pc # "post"
        /\ f.pc \in WaitingPcs /\ f.pc \in EarningPcs
    BY <2>1 DEF WaitingPcs, EarningPcs, OnThread
  <2>3. UNCHANGED <<usage, exp, passed>>
    BY <1>1 DEF Stamp, Trigger
  <2>4. \A u \in Users, pcs \in {WaitingPcs, {"post"}, EarningPcs} :
          Part(task[t], u, pcs) = Part(f, u, pcs)
    BY <2>1, <2>2 DEF Part
  <2> QED BY <2>1, <2>3, <2>4, UncountedStep
<1>2. ASSUME NEW t \in Tasks, Succeed(t) \/ Fail(t) PROVE Accounted'
  <2>1. /\ task' = [task EXCEPT ![t] = Gone] /\ UNCHANGED <<usage, exp, passed>>
        /\ task[t].pc = "handler"
    BY <1>2 DEF Succeed, Fail
  <2>2. /\ task[t].pc \notin WaitingPcs /\ task[t].pc \notin EarningPcs
        /\ task[t].pc # "post" /\ Gone.pc # "post"
        /\ Gone.pc \notin WaitingPcs /\ Gone.pc \notin EarningPcs
    BY <2>1 DEF WaitingPcs, EarningPcs, OnThread, Gone
  <2>3. \A u \in Users, pcs \in {WaitingPcs, {"post"}, EarningPcs} :
          Part(task[t], u, pcs) = Part(Gone, u, pcs)
    BY <2>1, <2>2 DEF Part
  <2> QED BY <2>1, <2>3, GoneFrame, UncountedStep
<1>3. CASE UNCHANGED <<task, usage, exp, passed>>
  BY <1>3 DEF Accounted, Counted, Earned, Number, Those
<1>4. ASSUME NEW t \in Tasks, CountReply(t) \/ PostReply(t) \/ ExpReply(t)
      PROVE  Accounted'
  BY <1>4, CountCounted, PostCounted, ExpCounted
<1>5. ASSUME NEW t \in Tasks, NEW h \in Threads, NEW u \in Users,
             NEW c \in Commands, Accept(t, h, u, c)
      PROVE  Accounted'
  BY <1>5, AcceptCounted
<1> QED BY <1>1, <1>2, <1>3, <1>4, <1>5
        DEF Next, Interaction, Progress, Refuse, Tick, Restart, vars

LEMMA CountedInit == Init => Accounted
<1> SUFFICES ASSUME Init PROVE Accounted
  OBVIOUS
<1>1. "idle" \notin WaitingPcs /\ "idle" \notin EarningPcs
  BY DEF WaitingPcs, EarningPcs, OnThread
<1>2. \A t \in Tasks : task[t].pc = "idle"
  BY DEF Init, Gone
<1>3. \A u \in Users : Number(u, WaitingPcs) = 0 /\ Number(u, EarningPcs) = 0
  BY <1>1, <1>2, ThoseNone DEF Number, Frames
<1> QED BY <1>3 DEF Init, Accounted, Counted, Earned

---------------------------------------------------------------------------
\* The variables keep their types, however many threads deliver events.
THEOREM TypeCorrect == Spec => []TypeOK
<1>1. Init => TypeOK
  BY DInit DEF DInv
<1> QED BY <1>1, TypeStep, PTL DEF Spec

\* With one thread, the check a task made still holds when it stores its
\* stamp.
LEMMA Invariance == OneThread => (Spec => []DInv)
<1> SUFFICES ASSUME OneThread PROVE Spec => []DInv
  OBVIOUS
<1>1. DInv /\ [Next]_vars => DInv'
  BY DStep
<1> QED BY <1>1, DInit, PTL DEF Spec

\* With one thread that delivers events, the cooldowns of on_slashcommand
\* limit the rate of every command of every user.
THEOREM Implements == OneThread => (Spec => RateLimited)
<1> SUFFICES ASSUME OneThread PROVE Spec => RateLimited
  OBVIOUS
<1>1. Spec => []DInv
  BY Invariance
<1> QED BY <1>1, InitMaps, StepMaps, PTL DEF Spec, RateLimited, Limiter!Spec

\* With one thread, a user who was refused and waits as long as told is not
\* refused again: what was told stays true until the command passes, whatever
\* other commands, failures and restarts come in between.
THEOREM Patience == OneThread => (Spec => PatienceRewarded)
<1> SUFFICES ASSUME OneThread PROVE Spec => PatienceRewarded
  OBVIOUS
<1>1. Spec => []DInv
  BY Invariance
<1>2. Init => PromisesKept
  BY DEF Init, PromisesKept, Kept
<1>3. DInv /\ PromisesKept /\ [Next]_vars => PromisesKept'
  BY KeptStep
<1>4. DInv /\ PromisesKept /\ [Next]_vars =>
        [\A u \in Users, c \in Commands :
           /\ told[u][c] # NoPromise
           /\ told'[u][c] \notin {told[u][c], NoPromise}
           => now < told[u][c].at + told[u][c].wait]_vars
  BY RefusedAgain
<1> QED BY <1>1, <1>2, <1>3, <1>4, PTL DEF Spec, PatienceRewarded

\* Without lost requests and restarts, the count of a user's commands is
\* never too high, and it misses fewer commands than can run at once.
THEOREM Counting == ~Faulty /\ ~Crashes => (Spec => []UsageCounted)
<1> SUFFICES ASSUME ~Faulty, ~Crashes PROVE Spec => []UsageCounted
  OBVIOUS
<1>1. TypeOK /\ Accounted /\ [Next]_vars => Accounted'
  BY CountedStep
<1>2. TypeOK /\ Accounted => UsageCounted
  BY AccountedIs
<1> QED BY <1>1, <1>2, CountedInit, TypeCorrect, PTL DEF Spec

\* Under the same conditions, a registered user earns one point for every
\* command whose handler starts.
THEOREM Earning == ~Faulty /\ ~Crashes => (Spec => []ExperienceEarned)
<1> SUFFICES ASSUME ~Faulty, ~Crashes PROVE Spec => []ExperienceEarned
  OBVIOUS
<1>1. TypeOK /\ Accounted /\ [Next]_vars => Accounted'
  BY CountedStep
<1>2. TypeOK /\ Accounted => ExperienceEarned
  BY AccountedIs
<1> QED BY <1>1, <1>2, CountedInit, TypeCorrect, PTL DEF Spec
=============================================================================
