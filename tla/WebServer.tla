----------------------------- MODULE WebServer -----------------------------
(***************************************************************************)
(* The web server of src/webserver/server.cpp.  One thread runs all        *)
(* handlers, one at a time: each is an action.  Between them the kernel    *)
(* and the timers finish the operations the handlers started, whose        *)
(* completions then wait in the queue of the io_context: an operation that *)
(* has finished can no longer be cancelled.                                *)
(*                                                                         *)
(* An http_connection lives while one of its handlers is to come: that of  *)
(* its only read or write, or that of its deadline.                        *)
(***************************************************************************)
EXTENDS Integers, FiniteSets

CONSTANTS
  Clients,   \* each connects once
  Requests,  \* what they ask for
  Sockets    \* connections the process has descriptors for

\* "post" stands for every method but GET, "elsewhere" for every target but
\* the three there are.
AllRequests == {"count", "time", "home", "elsewhere", "post"}

ASSUME WebServerAssumption ==
  Requests \subseteq AllRequests /\ Sockets \in Nat \ {0}

VARIABLES
  peer,    \* peer[c]: the client, at its end of the connection
  conn,    \* conn[c]: the http_connection of c
  answer,  \* answer[c]: the response that was sent to c
  count    \* request_count

vars == <<peer, conn, answer, count>>

Reply == [status: {200, 400, 404}, number: Nat]
NoReply == [status |-> 0, number |-> 0]

\* What is outstanding: "reading" and "writing" until the kernel has done
\* it, "read" and so on when its handler is to run.
Op == {"nothing", "reading", "read", "readfailed", "writing", "written", "writefailed"}

\* "expired" and "cancelled" while the handler is to run, "fired" and
\* "dismissed" when it has run.
Timer == {"armed", "expired", "cancelled", "fired", "dismissed"}

Connection == [sock: {"open", "shut", "closed"}, op: Op, timer: Timer,
               request: {"none"} \cup Requests, reply: {NoReply} \cup Reply]

Unborn == [sock |-> "none", op |-> "nothing", timer |-> "none",
           request |-> "none", reply |-> NoReply]

TypeOK == /\ peer \in [Clients -> {"away", "there", "gone"}]
          /\ conn \in [Clients -> {Unborn} \cup Connection]
          /\ answer \in [Clients -> {NoReply} \cup Reply]
          /\ count \in Nat

Init == /\ peer = [c \in Clients |-> "away"]
        /\ conn = [c \in Clients |-> Unborn]
        /\ answer = [c \in Clients |-> NoReply]
        /\ count = 0

---------------------------------------------------------------------------
(* Clients come and go. *)

Connect(c) == /\ peer[c] = "away"
              /\ peer' = [peer EXCEPT ![c] = "there"]
              /\ UNCHANGED <<conn, answer, count>>

\* A client leaves: while nothing is read or written it makes no difference.
Leave(c) == /\ peer[c] = "there" /\ conn[c].op \in {"reading", "writing"}
            /\ peer' = [peer EXCEPT ![c] = "gone"]
            /\ UNCHANGED <<conn, answer, count>>

---------------------------------------------------------------------------
(* The kernel and the timer finish what was started. *)

Finish(c, op) == /\ conn' = [conn EXCEPT ![c].op = op]
                 /\ UNCHANGED <<peer, count>>

\* A whole request has come in.
Receive(c) == /\ conn[c].op = "reading" /\ peer[c] = "there"
              /\ \E r \in Requests :
                   conn' = [conn EXCEPT ![c].op = "read", ![c].request = r]
              /\ UNCHANGED <<peer, answer, count>>

\* The client sent what is no request, too much of it, or left.
ReceiveFails(c) == /\ conn[c].op = "reading"
                   /\ Finish(c, "readfailed")
                   /\ UNCHANGED answer

\* A response is small: the kernel takes all of it.
Send(c) == /\ conn[c].op = "writing"
           /\ answer' = [answer EXCEPT ![c] = conn[c].reply]
           /\ Finish(c, "written")

SendFails(c) == /\ conn[c].op = "writing" /\ peer[c] = "gone"
                /\ Finish(c, "writefailed")
                /\ UNCHANGED answer

Expire(c) == /\ conn[c].timer = "armed"
             /\ conn' = [conn EXCEPT ![c].timer = "expired"]
             /\ UNCHANGED <<peer, answer, count>>

---------------------------------------------------------------------------
(* The handlers. *)

\* No handler is to come: the connection is destroyed, and its socket closed.
Released(k) == IF k.op = "nothing" /\ k.timer \in {"fired", "dismissed"}
               THEN [k EXCEPT !.sock = "closed"] ELSE k

\* A handler leaves the connection in state k.
Return(c, k) == /\ conn' = [conn EXCEPT ![c] = Released(k)]
                /\ UNCHANGED <<peer, answer>>

AcceptNoDeadline(c) ==  \* mutant: start() does not call check_deadline()
  /\ conn[c] = Unborn /\ peer[c] # "away"
  /\ Cardinality({d \in Clients : conn[d].sock \in {"open", "shut"}}) < Sockets
  /\ Return(c, [Unborn EXCEPT !.sock = "open", !.op = "reading"])
  /\ UNCHANGED count

\* The handler of async_accept and start().  Without a descriptor accept
\* fails; either way the next accept is started.
Accept(c) ==
  /\ conn[c] = Unborn /\ peer[c] # "away"
  /\ Cardinality({d \in Clients : conn[d].sock \in {"open", "shut"}}) < Sockets
  /\ Return(c, [Unborn EXCEPT !.sock = "open", !.op = "reading", !.timer = "armed"])
  /\ UNCHANGED count

Status(r) == CASE r = "post" -> 400 [] r = "elsewhere" -> 404 [] OTHER -> 200

\* create_response, and the response to other methods than GET.
Response(r) ==
  [status |-> Status(r),
   number |-> IF r = "count" THEN count + 1 ELSE 0]

WriteUnchecked(k) ==    \* mutant: the write of a closed socket does not fail
  [k EXCEPT !.op = "writing"]

WriteShut(k) ==         \* mutant: write_response shuts the socket at once
  [k EXCEPT !.op = "writefailed", !.sock = "shut"]

\* async_write of a socket that its deadline has closed fails at once.
Write(k) == [k EXCEPT !.op = IF k.sock = "open" THEN "writing" ELSE "writefailed"]

HandleReadCountsLate(c) == \* mutant: the number told is not yet counted
  /\ conn[c].op = "read"
  /\ Return(c, Write([conn[c] EXCEPT !.reply = Response(conn[c].request)]))
  /\ UNCHANGED count

\* The handler of async_read and process_request.
HandleRead(c) ==
  /\ conn[c].op = "read"
  /\ Return(c, Write([conn[c] EXCEPT !.reply = Response(conn[c].request)]))
  /\ count' = IF conn[c].request = "count" THEN count + 1 ELSE count

\* A read that failed: the connection is left to its deadline.
HandleReadFailed(c) ==
  /\ conn[c].op = "readfailed"
  /\ Return(c, [conn[c] EXCEPT !.op = "nothing"])
  /\ UNCHANGED count

\* The handler of async_write: shutdown does nothing to a closed socket, nor
\* cancel to a deadline that has expired.
HandleWrite(c) ==
  /\ conn[c].op \in {"written", "writefailed"}
  /\ LET k == conn[c] IN
     Return(c, [k EXCEPT !.op = "nothing",
                         !.sock = IF k.sock = "open" THEN "shut" ELSE k.sock,
                         !.timer = IF k.timer = "armed" THEN "cancelled" ELSE k.timer])
  /\ UNCHANGED count

\* The handler of the deadline.  close() makes an operation in progress
\* fail, but not one that has finished.
HandleDeadline(c) ==
  /\ conn[c].timer = "expired"
  /\ LET k == conn[c] IN
     Return(c, [k EXCEPT !.timer = "fired", !.sock = "closed",
                         !.op = CASE k.op = "reading" -> "readfailed"
                                  [] k.op = "writing" -> "writefailed"
                                  [] OTHER -> k.op])
  /\ UNCHANGED count

HandleCancelled(c) ==
  /\ conn[c].timer = "cancelled"
  /\ Return(c, [conn[c] EXCEPT !.timer = "dismissed"])
  /\ UNCHANGED count

---------------------------------------------------------------------------
Kernel(c) == Send(c) \/ SendFails(c) \/ Expire(c)

Handler(c) ==
  \/ Accept(c)
  \/ HandleRead(c)
  \/ HandleReadFailed(c)
  \/ HandleWrite(c)
  \/ HandleDeadline(c)
  \/ HandleCancelled(c)

Next == \E c \in Clients :
          \/ Connect(c) \/ Leave(c)
          \/ Receive(c) \/ ReceiveFails(c)
          \/ Kernel(c) \/ Handler(c)

Spec == Init /\ [][Next]_vars

\* The io_context runs every handler that is queued, a response is taken and
\* a deadline expires.  Clients need not do anything.
Fairness == \A c \in Clients :
  /\ WF_vars(Accept(c))
  /\ WF_vars(HandleRead(c))
  /\ WF_vars(HandleReadFailed(c))
  /\ WF_vars(HandleWrite(c))
  /\ WF_vars(HandleDeadline(c))
  /\ WF_vars(HandleCancelled(c))
  /\ WF_vars(Send(c) \/ SendFails(c))
  /\ WF_vars(Expire(c))

FairSpec == Spec /\ Fairness

---------------------------------------------------------------------------
(* Properties. *)

\* The numbers told by /count are between 1 and the count, and never told
\* twice, in whatever order requests are read, answered and cut off.
NumbersDistinct ==
  \A c \in Clients :
    answer[c].number > 0 =>
      /\ answer[c].number <= count
      /\ \A d \in Clients \ {c} : answer[d].number # answer[c].number

\* Only its deadline, or its own leaving, keeps a client without an answer;
\* and who is answered gets the response to its request.
OnlyDeadlineDrops ==
  \A c \in Clients :
    /\ conn[c].sock \in {"shut", "closed"} /\ answer[c] = NoReply
         => peer[c] = "gone" \/ conn[c].timer = "fired"
    /\ answer[c] # NoReply => answer[c].status = Status(conn[c].request)

\* Each connection is one exchange: whatever the deadline overtakes, nobody
\* is answered twice, after being cut off, or with another's number.
Phase(c) ==
  CASE conn[c].sock = "none" -> "out"
    [] conn[c].sock = "closed" -> "cut"
    [] OTHER -> IF answer[c] = NoReply THEN "open" ELSE "answered"

Promised == INSTANCE Exchange WITH
  phase <- [c \in Clients |-> Phase(c)],
  drawn <- [c \in Clients |-> conn[c].reply.number],
  told <- [c \in Clients |-> answer[c].number],
  hits <- count

OneExchange == Promised!Spec

\* Whoever connects is served or dropped in the end, also when descriptors
\* run out and clients neither send nor leave: no connection stays forever.
AllEnd == \A c \in Clients :
  peer[c] # "away" ~>
    conn[c].sock = "closed" /\ conn[c].op = "nothing"

---------------------------------------------------------------------------
(* What a message of the program promises, and the code does not keep.     *)

\* server.cpp:62: "There have been {} requests so far."
CountsRequests ==
  count = Cardinality({c \in Clients : conn[c].reply # NoReply})
=============================================================================
