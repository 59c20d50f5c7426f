-------------------------- MODULE MultiplierProofs --------------------------
(***************************************************************************)
(* Theorems about Multiplier, for any users, amounts and number of         *)
(* coroutines: a multiplier is, at any time, the sum of what the           *)
(* coroutines have yet to take back.  The accounting alone is not          *)
(* inductive: a coroutine must also be sure to find the item it takes      *)
(* something back from (Targeted), or its request would be refused.        *)
(***************************************************************************)
EXTENDS Multiplier, Arithmetic

USE DEF NoAnswer

\* A coroutine that has moved a multiplier moved that of a registered user.
Targeted(f) == /\ f.pc = "feed" => f.on = f.user /\ f.user \in Registered
               /\ f.pc \in {"wait", "revert"} => f.on \in Registered

IInv == /\ TypeOK
        /\ MultiAccounted
        /\ \A t \in Tasks : Targeted(task[t])

---------------------------------------------------------------------------
(* What is to be taken back. *)

\* The part of a coroutine in Pending(u).
Owing(f, u) == IF f.pc \in {"wait", "revert"} /\ f.on = u THEN f.n ELSE 0

LEMMA OwingType ==
  ASSUME NEW f \in Frame, NEW u
  PROVE  Owing(f, u) \in Int
BY DEF Frame, Owing

LEMMA PendingIs ==
  ASSUME NEW u
  PROVE  Pending(u) = SumFunctionOnSet([t \in Tasks |-> Owing(task[t], u)], Tasks)
BY DEF Pending, Owing, SumFunction

LEMMA PendingNone ==
  ASSUME NEW u, \A t \in Tasks : Owing(task[t], u) = 0
  PROVE  Pending(u) = 0
BY PendingIs, SumZero, MultiplierAssumption

\* A new frame in one slot changes what is pending by what the frame owes.
LEMMA PendingChange ==
  ASSUME TypeOK, NEW t \in Tasks, NEW f \in Frame,
         task' = [task EXCEPT ![t] = f], NEW u \in Users
  PROVE  /\ Pending(u) \in Int
         /\ Pending(u)' = Pending(u) - Owing(task[t], u) + Owing(f, u)
<1> DEFINE F == [s \in Tasks |-> Owing(task[s], u)]
           H == [s \in Tasks |-> Owing(task'[s], u)]
<1>1. /\ \A s \in Tasks : task[s] \in Frame /\ task'[s] \in Frame
      /\ task'[t] = f /\ \A s \in Tasks : s # t => task'[s] = task[s]
  BY DEF TypeOK
<1>2. Numbers(F, Tasks) /\ Numbers(H, Tasks)
  BY <1>1, OwingType DEF Numbers
<1>3. \A s \in Tasks : s # t => F[s] = H[s]
  BY <1>1
<1>4. F[t] = Owing(task[t], u) /\ H[t] = Owing(f, u)
  BY <1>1
<1>5. Pending(u) = SumFunctionOnSet(F, Tasks)
  BY PendingIs
<1>6. Pending(u)' = SumFunctionOnSet(H, Tasks)
  BY DEF Pending, Owing, SumFunction
<1> HIDE DEF F, H
<1>7. SumFunctionOnSet(H, Tasks) = SumFunctionOnSet(F, Tasks) - F[t] + H[t]
  BY <1>2, <1>3, SumOneChanged, MultiplierAssumption
<1>8. SumFunctionOnSet(F, Tasks) \in Int
  BY <1>2, SumType, MultiplierAssumption
<1> QED BY <1>4, <1>5, <1>6, <1>7, <1>8

---------------------------------------------------------------------------
(* One step of one coroutine. *)

\* The accounts agree after a step that changes them by the same amounts.
LEMMA StepInv ==
  ASSUME IInv, NEW t \in Tasks, NEW f \in Frame, Targeted(f),
         task' = [task EXCEPT ![t] = f],
         base' \in [Users -> Account], menus' \subseteq Users,
         disturbed' \in BOOLEAN,
         ~disturbed' => /\ ~disturbed
                        /\ \A u \in Users : base'[u].multi - base[u].multi
                                              = Owing(f, u) - Owing(task[t], u)
  PROVE  IInv'
<1> USE DEF IInv
<1>1. TypeOK'
  BY DEF TypeOK
<1>2. \A s \in Tasks : Targeted(task[s])'
  BY DEF TypeOK, Targeted
<1>3. ASSUME ~disturbed', NEW u \in Users
      PROVE  base'[u].multi = Pending(u)'
  <2>1. base[u].multi = Pending(u)
    BY <1>3 DEF MultiAccounted
  <2>2. base[u].multi \in Int /\ base'[u].multi \in Int
    BY DEF TypeOK, Account
  <2>3. Owing(f, u) \in Int /\ Owing(task[t], u) \in Int
    BY OwingType DEF TypeOK
  <2>4. Pending(u)' = Pending(u) - Owing(task[t], u) + Owing(f, u)
    BY PendingChange
  <2>5. base'[u].multi - base[u].multi = Owing(f, u) - Owing(task[t], u)
    BY <1>3
  <2> QED BY <2>1, <2>2, <2>3, <2>4, <2>5
<1>4. MultiAccounted'
  BY <1>3 DEF MultiAccounted
<1> QED BY <1>1, <1>2, <1>4

LEMMA GoneFacts ==
  /\ Gone \in Frame /\ Targeted(Gone)
  /\ \A u : Owing(Gone, u) = 0
BY MultiplierAssumption DEF Gone, Frame, Targeted, Owing

LEMMA PatchEffect ==
  ASSUME TypeOK, NEW key \in Users, NEW a \in Account, NEW status \in Statuses,
         Patch(key, a, status)
  PROVE  /\ base' \in [Users -> Account]
         /\ base' = base \/ base' = [base EXCEPT ![key] = a]
         /\ status = 200 => key \in Registered /\ base' = [base EXCEPT ![key] = a]
         /\ status = 404 => key \notin Registered /\ base' = base
BY DEF Patch, TypeOK, Statuses

---------------------------------------------------------------------------
(* The commands: what they send owes nothing yet. *)

LEMMA SendStep ==
  ASSUME IInv, NEW t \in Tasks, task[t].pc = "idle",
         NEW pc \in {"feed", "backfire", "charge", "clear"},
         NEW u \in Users, NEW v \in Users, NEW n \in Int,
         pc = "feed" => u = v /\ u \in Registered,
         Send(t, pc, u, v, n), menus' \subseteq Users
  PROVE  IInv'
<1> DEFINE f == [pc |-> pc, user |-> u, on |-> v, n |-> n]
<1>1. f \in Frame /\ Targeted(f)
  BY DEF Frame, Targeted
<1>2. \A w : Owing(f, w) = 0 /\ Owing(task[t], w) = 0
  BY DEF Owing
<1>3. task' = [task EXCEPT ![t] = f] /\ base' = base /\ disturbed' = disturbed
  BY DEF Send
<1>4. \A w \in Users : base'[w].multi - base[w].multi = 0
  BY <1>3 DEF IInv, TypeOK, Account
<1> HIDE DEF f
<1>5. \A w \in Users : base'[w].multi - base[w].multi = Owing(f, w) - Owing(task[t], w)
  BY <1>2, <1>4
<1>6. base' \in [Users -> Account] /\ disturbed' \in BOOLEAN
  BY <1>3 DEF IInv, TypeOK
<1> QED BY <1>1, <1>3, <1>5, <1>6, StepInv

LEMMA CommandStep ==
  ASSUME IInv, NEW t \in Tasks, Command(t)
  PROVE  IInv'
<1> PICK u \in Users : \/ UseBeef(t, u) \/ UseCursedBeef(t, u)
                       \/ SelectClick(t, u) \/ ClearNegative(t, u)
  BY DEF Command
<1>1. task[t].pc = "idle" /\ menus \subseteq Users
  BY DEF UseBeef, UseCursedBeef, SelectClick, ClearNegative, Start, IInv, TypeOK
<1>2. CASE UseBeef(t, u)
  <2>1. base[u].beef \in Int /\ Amounts \subseteq Int
    BY MultiplierAssumption DEF IInv, TypeOK, Account
  <2>2. PICK n \in Amounts : Send(t, "feed", u, u, IF n = -1 THEN base[u].beef ELSE n)
    BY <1>2 DEF UseBeef
  <2>3. PICK m \in Int : Send(t, "feed", u, u, m)
    BY <2>1, <2>2
  <2> QED BY <1>1, <1>2, <2>3, SendStep DEF UseBeef
<1>3. CASE UseCursedBeef(t, u)
  <2>1. CASE Send(t, "backfire", u, u, 0) /\ UNCHANGED menus
    BY <1>1, <2>1, SendStep
  <2>2. CASE menus' = menus \cup {u} /\ UNCHANGED <<base, task, disturbed>>
    BY <1>1, <2>2, StepInv, OwingType
    DEF IInv, TypeOK, MultiAccounted, Pending, Targeted
  <2> QED BY <1>3, <2>1, <2>2 DEF UseCursedBeef
<1>4. CASE SelectClick(t, u)
  <2>1. PICK v \in Users : Send(t, "charge", u, v, -Curse)
    BY <1>4 DEF SelectClick
  <2>2. -Curse \in Int /\ menus' \subseteq Users
    BY <1>1, <1>4, MultiplierAssumption DEF SelectClick
  <2> QED BY <1>1, <2>1, <2>2, SendStep
<1>5. CASE ClearNegative(t, u)
  BY <1>1, <1>5, SendStep DEF ClearNegative
<1> QED BY <1>2, <1>3, <1>4, <1>5

---------------------------------------------------------------------------
(* The replies. *)

\* A request moves the multiplier of its target by m, or is refused, or the
\* history says so.
LEMMA Moved ==
  ASSUME TypeOK, NEW key \in Users, NEW a \in Account, NEW m \in Int,
         a.multi = base[key].multi + m,
         base' = [base EXCEPT ![key] = a], NEW u \in Users
  PROVE  base'[u].multi - base[u].multi = IF u = key THEN m ELSE 0
<1>1. base[u].multi \in Int /\ base'[u] = IF u = key THEN a ELSE base[u]
  BY DEF TypeOK, Account
<1> QED BY <1>1

LEMMA Unmoved ==
  ASSUME TypeOK, base' = base, NEW u \in Users
  PROVE  base'[u].multi - base[u].multi = 0
BY DEF TypeOK, Account

LEMMA FeedStep ==
  ASSUME IInv, NEW t \in Tasks, FeedReply(t)
  PROVE  IInv'
<1> DEFINE f == task[t]
           b == base[f.user]
           a == [b EXCEPT !.beef = b.beef - f.n, !.multi = b.multi + f.n]
           g == [f EXCEPT !.pc = "wait"]
<1>1. /\ f \in Frame /\ f.pc = "feed" /\ f.user \in Registered /\ f.on = f.user
      /\ f.user \in Users /\ f.n \in Int /\ b \in Account
  BY DEF FeedReply, IInv, TypeOK, Targeted, Frame
<1>2. PICK status \in Statuses :
        /\ Patch(f.user, a, status)
        /\ IF status = 200 THEN Goto(t, "wait") ELSE Return(t)
        /\ Observe(status = NoAnswer)
  BY DEF FeedReply
<1>3. a \in Account /\ a.multi = b.multi + f.n
  <2>1. b.beef - f.n \in Int /\ b.multi + f.n \in Int
    BY <1>1 DEF Account
  <2> QED BY <1>1, <2>1 DEF Account
<1> HIDE DEF a
<1>4. /\ base' \in [Users -> Account]
      /\ status = 200 => base' = [base EXCEPT ![f.user] = a]
      /\ status # 404
  BY <1>1, <1>2, <1>3, PatchEffect DEF IInv
<1>5. /\ disturbed' \in BOOLEAN /\ (~disturbed' => ~disturbed /\ status = 200)
      /\ menus' \subseteq Users
  BY <1>2, <1>4 DEF Observe, Statuses, IInv, TypeOK, FeedReply
<1>6. \A u : Owing(f, u) = 0
  BY <1>1 DEF Owing
<1>7. /\ base' \in [Users -> Account] /\ menus' \subseteq Users
      /\ disturbed' \in BOOLEAN /\ (~disturbed' => ~disturbed)
  BY <1>4, <1>5
<1>8. CASE status = 200
  <2>1. task' = [task EXCEPT ![t] = g] /\ g \in Frame /\ Targeted(g)
    BY <1>1, <1>2, <1>8 DEF Goto, IInv, TypeOK, Frame, Targeted
  <2>2. \A u : Owing(g, u) = IF u = f.user THEN f.n ELSE 0
    BY <1>1 DEF Owing, Frame
  <2>3. \A u \in Users : base'[u].multi - base[u].multi
                           = IF u = f.user THEN f.n ELSE 0
    BY <1>1, <1>3, <1>4, <1>8, Moved DEF IInv
  <2> HIDE DEF g
  <2>4. \A u \in Users : base'[u].multi - base[u].multi = Owing(g, u) - Owing(f, u)
    BY <1>1, <1>6, <2>2, <2>3
  <2>5. f = task[t]
    OBVIOUS
  <2> HIDE DEF f
  <2> QED BY <1>7, <2>1, <2>4, <2>5, StepInv
<1>9. CASE status # 200
  <2>1. task' = [task EXCEPT ![t] = Gone] /\ disturbed'
    BY <1>2, <1>5, <1>9 DEF Return
  <2> QED BY <1>7, <2>1, GoneFacts, StepInv
<1> QED BY <1>8, <1>9

LEMMA CurseStep ==
  ASSUME IInv, NEW t \in Tasks, CurseReply(t)
  PROVE  IInv'
<1> DEFINE f == task[t]
           b == base[f.on]
           a == [b EXCEPT !.multi = b.multi + f.n]
           g == [f EXCEPT !.pc = "wait"]
<1>1. /\ f \in Frame /\ f.pc = "curse" /\ f.on \in Users /\ f.n \in Int
      /\ b \in Account
  BY DEF CurseReply, IInv, TypeOK, Frame
<1>2. PICK status \in Statuses :
        /\ Patch(f.on, a, status)
        /\ IF status = 200 THEN Goto(t, "wait") ELSE Return(t)
        /\ Observe(status = NoAnswer)
  BY DEF CurseReply
<1>3. a \in Account /\ a.multi = b.multi + f.n
  <2>1. b.multi + f.n \in Int
    BY <1>1 DEF Account
  <2> QED BY <1>1, <2>1 DEF Account
<1> HIDE DEF a
<1>4. /\ base' \in [Users -> Account]
      /\ status = 200 => f.on \in Registered /\ base' = [base EXCEPT ![f.on] = a]
      /\ status = 404 => base' = base
  BY <1>1, <1>2, <1>3, PatchEffect DEF IInv
<1>5. /\ disturbed' \in BOOLEAN /\ (~disturbed' => ~disturbed /\ status # NoAnswer)
      /\ menus' \subseteq Users
  BY <1>2 DEF Observe, IInv, TypeOK, CurseReply
<1>6. \A u : Owing(f, u) = 0
  BY <1>1 DEF Owing
<1>7. CASE status = 200
  <2>1. task' = [task EXCEPT ![t] = g] /\ g \in Frame /\ Targeted(g)
    BY <1>1, <1>2, <1>4, <1>7 DEF Goto, IInv, TypeOK, Frame, Targeted
  <2>2. \A u : Owing(g, u) = IF u = f.on THEN f.n ELSE 0
    BY <1>1 DEF Owing, Frame
  <2>3. \A u \in Users : base'[u].multi - base[u].multi
                           = IF u = f.on THEN f.n ELSE 0
    BY <1>1, <1>3, <1>4, <1>7, Moved DEF IInv
  <2> HIDE DEF g
  <2>4. \A u \in Users : base'[u].multi - base[u].multi = Owing(g, u) - Owing(f, u)
    BY <1>1, <1>6, <2>2, <2>3
  <2>5. f = task[t]
    OBVIOUS
  <2> HIDE DEF f
  <2> QED BY <1>4, <1>5, <2>1, <2>4, <2>5, StepInv
<1>8. CASE status # 200
  <2>1. ~disturbed' => \A u \in Users : base'[u].multi - base[u].multi = 0
    BY <1>4, <1>5, <1>8, Unmoved DEF Statuses, IInv
  <2>2. task' = [task EXCEPT ![t] = Gone]
    BY <1>2, <1>8 DEF Return
  <2>3. ~disturbed' => \A u \in Users : base'[u].multi - base[u].multi
                                           = Owing(Gone, u) - Owing(task[t], u)
    BY <1>6, <2>1, GoneFacts
  <2> QED BY <1>4, <1>5, <2>2, <2>3, GoneFacts, StepInv
<1> QED BY <1>7, <1>8

\* What a coroutine takes back is what it owes, and it finds it there.
LEMMA RevertStep ==
  ASSUME IInv, NEW t \in Tasks, RevertReply(t)
  PROVE  IInv'
<1> DEFINE f == task[t]
           b == base[f.on]
           a == [b EXCEPT !.multi = b.multi - f.n]
<1>1. /\ f \in Frame /\ f.pc = "revert" /\ f.on \in Registered
      /\ f.on \in Users /\ f.n \in Int /\ b \in Account
  BY DEF RevertReply, IInv, TypeOK, Targeted, Frame
<1>2. PICK status \in Statuses :
        Patch(f.on, a, status) /\ Observe(status = NoAnswer)
  BY DEF RevertReply
<1>3. a \in Account /\ a.multi = b.multi + -f.n /\ -f.n \in Int
  <2>1. b.multi - f.n \in Int /\ b.multi - f.n = b.multi + -f.n
    BY <1>1 DEF Account
  <2> QED BY <1>1, <2>1 DEF Account
<1> HIDE DEF a
<1>4. /\ base' \in [Users -> Account]
      /\ status = 200 => base' = [base EXCEPT ![f.on] = a]
      /\ status # 404
  BY <1>1, <1>2, <1>3, PatchEffect DEF IInv
<1>5. /\ disturbed' \in BOOLEAN /\ (~disturbed' => ~disturbed /\ status = 200)
      /\ menus' \subseteq Users /\ task' = [task EXCEPT ![t] = Gone]
  BY <1>2, <1>4 DEF Observe, Statuses, IInv, TypeOK, RevertReply, Return
<1>6. \A u : Owing(f, u) = IF u = f.on THEN f.n ELSE 0
  BY <1>1 DEF Owing
<1>7. ASSUME ~disturbed', NEW u \in Users
      PROVE  base'[u].multi - base[u].multi = Owing(Gone, u) - Owing(f, u)
  <2>1. base'[u].multi - base[u].multi = IF u = f.on THEN -f.n ELSE 0
    BY <1>1, <1>3, <1>4, <1>5, <1>7, Moved DEF IInv
  <2> QED BY <1>1, <1>6, <2>1, GoneFacts
<1>8. ~disturbed' => \A u \in Users : base'[u].multi - base[u].multi
                                         = Owing(Gone, u) - Owing(task[t], u)
  BY <1>7
<1>9. /\ base' \in [Users -> Account] /\ menus' \subseteq Users
      /\ disturbed' \in BOOLEAN /\ (~disturbed' => ~disturbed)
  BY <1>4, <1>5
<1>10. task' = [task EXCEPT ![t] = Gone]
  BY <1>5
<1> QED BY <1>8, <1>9, <1>10, GoneFacts, StepInv

\* Requests about cursed beef move no multiplier.
LEMMA Uncursed ==
  ASSUME IInv, NEW t \in Tasks, task[t].pc \in {"backfire", "charge"},
         NEW status \in Statuses, NEW u \in Users, u = task[t].user,
         Patch(u, [base[u] EXCEPT !.cursed = @ - 1], status)
  PROVE  /\ base' \in [Users -> Account]
         /\ \A w \in Users : base'[w].multi - base[w].multi = 0
         /\ \A w : Owing(task[t], w) = 0
<1> DEFINE a == [base[u] EXCEPT !.cursed = base[u].cursed - 1]
<1>1. a \in Account /\ a.multi = base[u].multi + 0
  <2>1. base[u] \in Account /\ base[u].cursed - 1 \in Int /\ base[u].multi \in Int
    BY DEF IInv, TypeOK, Account
  <2> QED BY <2>1 DEF Account
<1>2. Patch(u, a, status)
  OBVIOUS
<1> HIDE DEF a
<1>3. /\ base' \in [Users -> Account]
      /\ base' = base \/ base' = [base EXCEPT ![u] = a]
  BY <1>1, <1>2, PatchEffect DEF IInv
<1>4. \A w \in Users : base'[w].multi - base[w].multi = 0
  BY <1>1, <1>3, Moved, Unmoved DEF IInv
<1> QED BY <1>3, <1>4 DEF Owing

LEMMA BackfireStep ==
  ASSUME IInv, NEW t \in Tasks, BackfireReply(t)
  PROVE  IInv'
<1> DEFINE u == task[t].user
<1>1. u \in Users
  BY DEF IInv, TypeOK, Frame
<1>2. PICK status \in Statuses :
        Patch(u, [base[u] EXCEPT !.cursed = @ - 1], status)
  BY DEF BackfireReply
<1>3. /\ base' \in [Users -> Account]
      /\ \A w \in Users : base'[w].multi - base[w].multi = 0
      /\ \A w : Owing(task[t], w) = 0
  BY <1>1, <1>2, Uncursed DEF BackfireReply
<1>4. /\ menus' \subseteq Users /\ disturbed' = disturbed
      /\ task' = [task EXCEPT ![t] = Gone]
  BY <1>1 DEF BackfireReply, Return, IInv, TypeOK
<1>5. \A w \in Users : base'[w].multi - base[w].multi
                          = Owing(Gone, w) - Owing(task[t], w)
  BY <1>3, GoneFacts
<1>6. disturbed' \in BOOLEAN /\ (~disturbed' => ~disturbed)
  BY <1>4 DEF IInv, TypeOK
<1> QED BY <1>3, <1>4, <1>5, <1>6, GoneFacts, StepInv

LEMMA ChargeStep ==
  ASSUME IInv, NEW t \in Tasks, ChargeReply(t)
  PROVE  IInv'
<1> DEFINE u == task[t].user
           g == [task[t] EXCEPT !.pc = "curse"]
<1>1. u \in Users /\ task[t] \in Frame
  BY DEF IInv, TypeOK, Frame
<1>2. PICK status \in Statuses :
        /\ Patch(u, [base[u] EXCEPT !.cursed = @ - 1], status)
        /\ IF status = 200 THEN Goto(t, "curse") ELSE Return(t)
  BY DEF ChargeReply
<1>3. /\ base' \in [Users -> Account]
      /\ \A w \in Users : base'[w].multi - base[w].multi = 0
      /\ \A w : Owing(task[t], w) = 0
  BY <1>1, <1>2, Uncursed DEF ChargeReply
<1>4. menus' \subseteq Users /\ disturbed' = disturbed
  BY DEF ChargeReply, IInv, TypeOK
<1>5. g \in Frame /\ Targeted(g) /\ \A w : Owing(g, w) = 0
  BY <1>1 DEF Frame, Targeted, Owing
<1>6. \/ task' = [task EXCEPT ![t] = g]
      \/ task' = [task EXCEPT ![t] = Gone]
  BY <1>2 DEF Goto, Return, IInv, TypeOK
<1> HIDE DEF g
<1> QED BY <1>3, <1>4, <1>5, <1>6, GoneFacts, StepInv DEF IInv, TypeOK

LEMMA TimerStep ==
  ASSUME IInv, NEW t \in Tasks, Timer(t)
  PROVE  IInv'
<1> DEFINE f == task[t]
           g == [f EXCEPT !.pc = "revert"]
<1>1. f \in Frame /\ f.pc = "wait" /\ Targeted(f)
  BY DEF Timer, IInv, TypeOK
<1>2. g \in Frame /\ Targeted(g) /\ task' = [task EXCEPT ![t] = g]
  BY <1>1 DEF Timer, Goto, Frame, Targeted, IInv, TypeOK
<1>3. \A u : Owing(g, u) = Owing(f, u) /\ Owing(f, u) \in Int
  BY <1>1, OwingType DEF Owing, Frame
<1>4. base' = base /\ menus' = menus /\ disturbed' = disturbed
  BY DEF Timer
<1>5. \A u \in Users : base'[u].multi - base[u].multi = Owing(g, u) - Owing(f, u)
  BY <1>3, <1>4, Unmoved DEF IInv
<1> HIDE DEF g
<1> QED BY <1>2, <1>4, <1>5, StepInv DEF IInv, TypeOK

\* beg, mine, roll and roulette: a multiplier that moves is in the history.
LEMMA ClearStep ==
  ASSUME IInv, NEW t \in Tasks, ClearReply(t)
  PROVE  IInv'
<1> DEFINE u == task[t].user
           a == [base[u] EXCEPT !.multi = 0]
<1>1. u \in Users /\ a \in Account
  <2>1. u \in Users /\ base[u] \in Account
    BY DEF IInv, TypeOK, Frame
  <2> QED BY <2>1 DEF Account
<1>2. PICK status \in Statuses : Patch(u, a, status)
  BY DEF ClearReply
<1>3. base' \in [Users -> Account]
  BY <1>1, <1>2, PatchEffect DEF IInv
<1>4. /\ menus' \subseteq Users /\ disturbed' = (disturbed \/ base' # base)
      /\ disturbed \in BOOLEAN /\ task' = [task EXCEPT ![t] = Gone]
  BY DEF ClearReply, Observe, Return, IInv, TypeOK
<1>5. disturbed' \in BOOLEAN /\ (~disturbed' => ~disturbed /\ base' = base)
  BY <1>4
<1>6. \A w : Owing(task[t], w) = 0
  BY DEF Owing, ClearReply
<1>7. ~disturbed' => \A w \in Users : base'[w].multi - base[w].multi = 0
  BY <1>5, Unmoved DEF IInv
<1>8. ~disturbed' => \A w \in Users : base'[w].multi - base[w].multi
                                         = Owing(Gone, w) - Owing(task[t], w)
  BY <1>6, <1>7, GoneFacts
<1> QED BY <1>3, <1>4, <1>5, <1>8, GoneFacts, StepInv

\* A restart without a timer under way forgets nothing.
LEMMA RestartStep ==
  ASSUME IInv, Restart
  PROVE  IInv'
<1>1. /\ task' = [t \in Tasks |-> Gone] /\ base' = base /\ menus' = menus
      /\ disturbed' = (disturbed \/ \E t \in Tasks : task[t].pc \in {"wait", "revert"})
  BY DEF Restart, Observe
<1>2. TypeOK'
  BY <1>1, GoneFacts DEF IInv, TypeOK
<1>3. \A t \in Tasks : Targeted(task[t])'
  BY <1>1, GoneFacts DEF Targeted
<1>4. ASSUME ~disturbed', NEW u \in Users
      PROVE  base'[u].multi = Pending(u)'
  <2>1. \A t \in Tasks : Owing(task[t], u) = 0
    BY <1>1, <1>4 DEF Owing
  <2>2. base[u].multi = 0
    BY <1>1, <1>4, <2>1, PendingNone DEF IInv, MultiAccounted
  <2>3. \A t \in Tasks : Owing(task'[t], u) = 0
    BY <1>1, GoneFacts
  <2>4. Pending(u)' = SumFunctionOnSet([t \in Tasks |-> Owing(task'[t], u)], Tasks)
    BY DEF Pending, Owing, SumFunction
  <2>5. Pending(u)' = 0
    BY <2>3, <2>4, SumZero, MultiplierAssumption
  <2> QED BY <1>1, <2>2, <2>5
<1> QED BY <1>2, <1>3, <1>4 DEF IInv, MultiAccounted

---------------------------------------------------------------------------
(* The theorems. *)

LEMMA InitInv == Init => IInv
<1> SUFFICES ASSUME Init PROVE IInv
  OBVIOUS
<1>1. \A t \in Tasks : task[t] = Gone
  BY DEF Init
<1>2. TypeOK
  <2>1. base \in [Users -> Account] /\ task \in [Tasks -> Frame]
    BY GoneFacts, MultiplierAssumption DEF Init, Account
  <2>2. menus \subseteq Users /\ disturbed \in BOOLEAN
    BY Zenon DEF Init
  <2> QED BY <2>1, <2>2 DEF TypeOK
<1>3. \A u \in Users : base[u].multi = 0 /\ Pending(u) = 0
  BY <1>1, GoneFacts, PendingNone DEF Init
<1> QED BY <1>1, <1>2, <1>3, GoneFacts DEF IInv, MultiAccounted

LEMMA NextInv == IInv /\ [Next]_vars => IInv'
<1> SUFFICES ASSUME IInv, [Next]_vars PROVE IInv'
  OBVIOUS
<1>1. ASSUME NEW t \in Tasks, Command(t) PROVE IInv'
  BY <1>1, CommandStep
<1>2. ASSUME NEW t \in Tasks, Progress(t) PROVE IInv'
  BY <1>2, FeedStep, BackfireStep, ChargeStep, CurseStep, TimerStep,
     RevertStep, ClearStep DEF Progress
<1>3. CASE Restart
  BY <1>3, RestartStep
<1>4. CASE UNCHANGED vars
  BY <1>4 DEF vars, IInv, TypeOK, MultiAccounted, Pending, Targeted
<1> QED BY <1>1, <1>2, <1>3, <1>4 DEF Next

\* The strengthening is an invariant of the commands, the menu and the timers.
THEOREM Invariance == Spec => []IInv
<1>1. Init => IInv
  BY InitInv
<1>2. IInv /\ [Next]_vars => IInv'
  BY NextInv
<1> QED BY <1>1, <1>2, PTL DEF Spec

\* Items, menus and frames keep their types through every command.
THEOREM TypeCorrect == Spec => []TypeOK
<1>1. IInv => TypeOK
  BY DEF IInv
<1> QED BY <1>1, Invariance, PTL

\* Beef and curses of any number of users, on each other, add up: what a
\* multiplier is, is what the coroutines have still to take back from it,
\* until a "set" to 0 or a lost request or timer spoils it.
THEOREM Accounting == Spec => []MultiAccounted
<1>1. IInv => MultiAccounted
  BY DEF IInv
<1> QED BY <1>1, Invariance, PTL
=============================================================================
