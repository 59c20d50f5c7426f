------------------------------ MODULE Exchange ------------------------------
(***************************************************************************)
(* What the web server promises, without saying how: a client is admitted  *)
(* once, answered at most once and then cut off; and the requests for      *)
(* /count draw numbers 1, 2, 3, ..., each of which is told to nobody but   *)
(* the client that drew it.  A client that was cut off may still draw a    *)
(* number, which nobody is ever told.  WebServer implements this.          *)
(***************************************************************************)
EXTENDS Integers

CONSTANT Clients

VARIABLES
  phase,  \* phase[c]: how far the exchange with c has got
  drawn,  \* drawn[c]: the number c drew, 0 if none
  told,   \* told[c]: the number in the answer to c, 0 if none
  hits    \* numbers drawn

Init == /\ phase = [c \in Clients |-> "out"]
        /\ drawn = [c \in Clients |-> 0]
        /\ told = [c \in Clients |-> 0]
        /\ hits = 0

Move(c, from, to) == phase[c] \in from /\ phase' = [phase EXCEPT ![c] = to]

Admit(c) == Move(c, {"out"}, "open") /\ UNCHANGED <<drawn, told, hits>>

Draw(c) ==
  /\ phase[c] \in {"open", "cut"} /\ drawn[c] = 0
  /\ hits' = hits + 1
  /\ drawn' = [drawn EXCEPT ![c] = hits + 1]
  /\ UNCHANGED <<phase, told>>

Answer(c) ==
  /\ Move(c, {"open"}, "answered")
  /\ told' = [told EXCEPT ![c] = drawn[c]]
  /\ UNCHANGED <<drawn, hits>>

Cut(c) == Move(c, {"open", "answered"}, "cut") /\ UNCHANGED <<drawn, told, hits>>

Next == \E c \in Clients : Admit(c) \/ Draw(c) \/ Answer(c) \/ Cut(c)

Spec == Init /\ [][Next]_<<phase, drawn, told, hits>>
=============================================================================
