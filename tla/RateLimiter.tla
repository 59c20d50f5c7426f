---------------------------- MODULE RateLimiter ----------------------------
(***************************************************************************)
(* What a cooldown promises, without saying how: the stamps of successive  *)
(* runs of a command by a user are at least its cooldown apart, unless the *)
(* last run was forgotten in between (a failed command gives its cooldown  *)
(* back, a restart loses them all).  Dispatch implements this.             *)
(***************************************************************************)
EXTENDS Integers

CONSTANTS Users, Commands,
          Cooldown     \* seconds between two runs of a command

VARIABLES now,         \* the clock, in seconds
          last         \* last[u][c]: the stamp of the last run, or Never

Never == -1

Init == /\ now = 0
        /\ last = [u \in Users |-> [c \in Commands |-> Never]]

Tick == /\ now' = now + 1
        /\ last' = last

\* The stamp of a run is no later than the clock, but may be a bit earlier.
Run(u, c) ==
  \E s \in 0..now :
    /\ last[u][c] # Never => s - last[u][c] >= Cooldown[c]
    /\ last' = [last EXCEPT ![u][c] = s]
    /\ now' = now

Forget ==
  /\ last' \in [Users -> [Commands -> {Never} \cup 0..now]]
  /\ \A u \in Users, c \in Commands : last'[u][c] \in {Never, last[u][c]}
  /\ now' = now

Next == Tick \/ Forget \/ \E u \in Users, c \in Commands : Run(u, c)

Spec == Init /\ [][Next]_<<now, last>>
=============================================================================
