-------------------------- MODULE WebServerProofs --------------------------
(***************************************************************************)
(* Theorems about WebServer, for every set of clients, of requests, and    *)
(* number of descriptors.                                                  *)
(*                                                                         *)
(* All that is known of one connection is gathered in Good, a formula      *)
(* about its record, its answer and its client.  A step changes one        *)
(* connection, so it is enough that the step leaves that one Good.  How    *)
(* connections relate to each other is in Numbered.                        *)
(***************************************************************************)
EXTENDS WebServer, TLAPS

\* k: the connection, a: the answer of its client, p: the client.
Good(k, a, p) ==
  /\ k \in {Unborn} \cup Connection
  /\ a \in {NoReply} \cup Reply
  /\ p \in {"away", "there", "gone"}
  /\ k = Unborn => a = NoReply
  /\ k.op \in {"reading", "writing"} => k.sock = "open"
  /\ k.op \in {"reading", "read", "readfailed"} => k.reply = NoReply
  /\ k.op \in {"reading", "read", "readfailed", "writing", "writefailed"}
       => a = NoReply
  /\ k.op \in {"writing", "written", "writefailed"} => k.reply \in Reply
  /\ k.op = "read" => k.request \in Requests
  /\ k.op = "written" => a # NoReply
  /\ a # NoReply => a = k.reply
  /\ k.reply \in Reply => k.reply.status = Status(k.request)
  /\ k.op = "writefailed" => p = "gone" \/ k.sock = "closed"
  /\ k.sock = "shut" => k.op = "nothing" /\ (a # NoReply \/ p = "gone")
  /\ k.timer = "fired" => k.sock = "closed"
  /\ k.sock = "closed" => k.timer \in {"fired", "dismissed"}
  /\ k.timer \in {"cancelled", "dismissed"}
       => k.op = "nothing" /\ (a # NoReply \/ p = "gone")

AllGood == \A c \in Clients : Good(conn[c], answer[c], peer[c])

\* The numbers drawn so far are at most the count, and no two are the same.
Numbered ==
  /\ count \in Nat
  /\ \A c \in Clients : conn[c].reply.number \in 0..count
  /\ \A c, d \in Clients :
       c # d /\ conn[c].reply.number > 0
         => conn[c].reply.number # conn[d].reply.number

Functions == /\ conn = [c \in Clients |-> conn[c]]
             /\ answer = [c \in Clients |-> answer[c]]
             /\ peer = [c \in Clients |-> peer[c]]

IInv == Functions /\ AllGood /\ Numbered

---------------------------------------------------------------------------
(* A step of c leaves the connection of c Good.                            *)

LEMMA UnbornGood == Good(Unborn, NoReply, "away")
BY DEF Good, Unborn, NoReply, Connection, Reply

---------------------------------------------------------------------------
(* What a step makes of one connection k stays Good.                       *)

LEMMA GoodRead ==
  ASSUME NEW k, NEW a, NEW p, Good(k, a, p),
         NEW r \in Requests, k.op = "reading"
  PROVE  Good([k EXCEPT !.op = "read", !.request = r], a, p)
<1> DEFINE n == [k EXCEPT !.op = "read", !.request = r]
<1>1. k \in Connection
  BY DEF Good, Unborn
<1>2. /\ n \in Connection
      /\ n.op = "read" /\ n.sock = k.sock /\ n.timer = k.timer
      /\ n.request = r /\ n.reply = k.reply
  BY <1>1 DEF Connection, Op, Timer
<1>3. n # Unborn
  BY <1>2 DEF Connection, Unborn
<1> HIDE DEF n
<1>4. Good(n, a, p)
  BY <1>1, <1>2, <1>3 DEF Good, Reply, NoReply
<1> QED BY <1>4 DEF n

LEMMA GoodReadFailed ==
  ASSUME NEW k, NEW a, NEW p, Good(k, a, p),
         k.op = "reading"
  PROVE  Good([k EXCEPT !.op = "readfailed"], a, p)
<1> DEFINE n == [k EXCEPT !.op = "readfailed"]
<1>1. k \in Connection
  BY DEF Good, Unborn
<1>2. /\ n \in Connection
      /\ n.op = "readfailed" /\ n.sock = k.sock /\ n.timer = k.timer
      /\ n.request = k.request /\ n.reply = k.reply
  BY <1>1 DEF Connection, Op, Timer
<1>3. n # Unborn
  BY <1>2 DEF Connection, Unborn
<1> HIDE DEF n
<1>4. Good(n, a, p)
  BY <1>1, <1>2, <1>3 DEF Good
<1> QED BY <1>4 DEF n

LEMMA GoodWritten ==
  ASSUME NEW k, NEW a, NEW p, Good(k, a, p),
         k.op = "writing"
  PROVE  Good([k EXCEPT !.op = "written"], k.reply, p)
<1> DEFINE n == [k EXCEPT !.op = "written"]
<1>1. k \in Connection
  BY DEF Good, Unborn
<1>2. /\ n \in Connection
      /\ n.op = "written" /\ n.sock = k.sock /\ n.timer = k.timer
      /\ n.request = k.request /\ n.reply = k.reply
  BY <1>1 DEF Connection, Op, Timer
<1>3. n # Unborn
  BY <1>2 DEF Connection, Unborn
<1> HIDE DEF n
<1>4. Good(n, k.reply, p)
  BY <1>1, <1>2, <1>3 DEF Good, Reply, NoReply
<1> QED BY <1>4 DEF n

LEMMA GoodWriteFailed ==
  ASSUME NEW k, NEW a, NEW p, Good(k, a, p),
         k.op = "writing", p = "gone"
  PROVE  Good([k EXCEPT !.op = "writefailed"], a, p)
<1> DEFINE n == [k EXCEPT !.op = "writefailed"]
<1>1. k \in Connection
  BY DEF Good, Unborn
<1>2. /\ n \in Connection
      /\ n.op = "writefailed" /\ n.sock = k.sock /\ n.timer = k.timer
      /\ n.request = k.request /\ n.reply = k.reply
  BY <1>1 DEF Connection, Op, Timer
<1>3. n # Unborn
  BY <1>2 DEF Connection, Unborn
<1> HIDE DEF n
<1>4. Good(n, a, p)
  BY <1>1, <1>2, <1>3 DEF Good
<1> QED BY <1>4 DEF n

LEMMA GoodExpired ==
  ASSUME NEW k, NEW a, NEW p, Good(k, a, p),
         k.timer = "armed"
  PROVE  Good([k EXCEPT !.timer = "expired"], a, p)
<1> DEFINE n == [k EXCEPT !.timer = "expired"]
<1>1. k \in Connection
  BY DEF Good, Unborn
<1>2. /\ n \in Connection
      /\ n.op = k.op /\ n.sock = k.sock /\ n.timer = "expired"
      /\ n.request = k.request /\ n.reply = k.reply
  BY <1>1 DEF Connection, Op, Timer
<1>3. n # Unborn
  BY <1>2 DEF Connection, Unborn
<1> HIDE DEF n
<1>4. Good(n, a, p)
  BY <1>1, <1>2, <1>3 DEF Good
<1> QED BY <1>4 DEF n

LEMMA GoodReply ==
  ASSUME NEW k, NEW a, NEW p, Good(k, a, p),
         NEW r \in Reply, r.status = Status(k.request), k.op = "read"
  PROVE  Good([k EXCEPT !.reply = r, !.op = IF k.sock = "open" THEN "writing" ELSE "writefailed"], a, p)
<1> DEFINE n == [k EXCEPT !.reply = r, !.op = IF k.sock = "open" THEN "writing" ELSE "writefailed"]
<1>1. k \in Connection
  BY DEF Good, Unborn
<1>2. /\ n \in Connection
      /\ n.op = (IF k.sock = "open" THEN "writing" ELSE "writefailed") /\ n.sock = k.sock /\ n.timer = k.timer
      /\ n.request = k.request /\ n.reply = r
  BY <1>1 DEF Connection, Op, Timer
<1>3. n # Unborn
  BY <1>2 DEF Connection, Unborn
<1> HIDE DEF n
<1>4. Good(n, a, p)
  BY <1>1, <1>2, <1>3 DEF Good, Connection
<1> QED BY <1>4 DEF n

LEMMA GoodIdle ==
  ASSUME NEW k, NEW a, NEW p, Good(k, a, p),
         k.op = "readfailed"
  PROVE  Good([k EXCEPT !.op = "nothing"], a, p)
<1> DEFINE n == [k EXCEPT !.op = "nothing"]
<1>1. k \in Connection
  BY DEF Good, Unborn
<1>2. /\ n \in Connection
      /\ n.op = "nothing" /\ n.sock = k.sock /\ n.timer = k.timer
      /\ n.request = k.request /\ n.reply = k.reply
  BY <1>1 DEF Connection, Op, Timer
<1>3. n # Unborn
  BY <1>2 DEF Connection, Unborn
<1> HIDE DEF n
<1>4. Good(n, a, p)
  BY <1>1, <1>2, <1>3 DEF Good
<1> QED BY <1>4 DEF n

LEMMA GoodShut ==
  ASSUME NEW k, NEW a, NEW p, Good(k, a, p),
         k.op \in {"written", "writefailed"}
  PROVE  Good([k EXCEPT !.op = "nothing",
                     !.sock = IF k.sock = "open" THEN "shut" ELSE k.sock,
                     !.timer = IF k.timer = "armed" THEN "cancelled" ELSE k.timer], a, p)
<1> DEFINE n == [k EXCEPT !.op = "nothing",
                     !.sock = IF k.sock = "open" THEN "shut" ELSE k.sock,
                     !.timer = IF k.timer = "armed" THEN "cancelled" ELSE k.timer]
<1>1. k \in Connection
  BY DEF Good, Unborn
<1>2. /\ n \in Connection
      /\ n.op = "nothing" /\ n.sock = (IF k.sock = "open" THEN "shut" ELSE k.sock) /\ n.timer = (IF k.timer = "armed" THEN "cancelled" ELSE k.timer)
      /\ n.request = k.request /\ n.reply = k.reply
  BY <1>1 DEF Connection, Op, Timer
<1>3. n # Unborn
  BY <1>2 DEF Connection, Unborn
<1> HIDE DEF n
<1>4. Good(n, a, p)
  BY <1>1, <1>2, <1>3 DEF Good, Connection
<1> QED BY <1>4 DEF n

LEMMA GoodClosed ==
  ASSUME NEW k, NEW a, NEW p, Good(k, a, p),
         k.timer = "expired"
  PROVE  Good([k EXCEPT !.timer = "fired", !.sock = "closed",
                     !.op = CASE k.op = "reading" -> "readfailed"
                              [] k.op = "writing" -> "writefailed"
                              [] OTHER -> k.op], a, p)
<1> DEFINE n == [k EXCEPT !.timer = "fired", !.sock = "closed",
                     !.op = CASE k.op = "reading" -> "readfailed"
                              [] k.op = "writing" -> "writefailed"
                              [] OTHER -> k.op]
<1>1. k \in Connection
  BY DEF Good, Unborn
<1>2. /\ n \in Connection
      /\ n.op = (CASE k.op = "reading" -> "readfailed"
                  [] k.op = "writing" -> "writefailed"
                  [] OTHER -> k.op) /\ n.sock = "closed" /\ n.timer = "fired"
      /\ n.request = k.request /\ n.reply = k.reply
  BY <1>1 DEF Connection, Op, Timer
<1>3. n # Unborn
  BY <1>2 DEF Connection, Unborn
<1> HIDE DEF n
<1>4. Good(n, a, p)
  BY <1>1, <1>2, <1>3 DEF Good
<1> QED BY <1>4 DEF n

LEMMA GoodDismissed ==
  ASSUME NEW k, NEW a, NEW p, Good(k, a, p),
         k.timer = "cancelled"
  PROVE  Good([k EXCEPT !.timer = "dismissed", !.sock = "closed"], a, p)
<1> DEFINE n == [k EXCEPT !.timer = "dismissed", !.sock = "closed"]
<1>1. k \in Connection
  BY DEF Good, Unborn
<1>2. /\ n \in Connection
      /\ n.op = k.op /\ n.sock = "closed" /\ n.timer = "dismissed"
      /\ n.request = k.request /\ n.reply = k.reply
  BY <1>1 DEF Connection, Op, Timer
<1>3. n # Unborn
  BY <1>2 DEF Connection, Unborn
<1> HIDE DEF n
<1>4. Good(n, a, p)
  BY <1>1, <1>2, <1>3 DEF Good
<1> QED BY <1>4 DEF n

\* The connection of start().
Started == [Unborn EXCEPT !.sock = "open", !.op = "reading", !.timer = "armed"]

LEMMA GoodStarted ==
  ASSUME NEW a, NEW p, Good(Unborn, a, p)
  PROVE  Good(Started, a, p)
<1> DEFINE n == Started
<1>1. /\ n \in Connection
      /\ n.op = "reading" /\ n.sock = "open" /\ n.timer = "armed"
      /\ n.request = "none" /\ n.reply = NoReply
  BY DEF Started, Unborn, Connection, Op, Timer
<1>2. n # Unborn
  BY <1>1 DEF Connection, Unborn
<1>3. a = NoReply /\ p \in {"away", "there", "gone"} /\ NoReply \notin Reply
  BY DEF Good, NoReply, Reply
<1> HIDE DEF n
<1>4. Good(n, a, p)
  BY <1>1, <1>2, <1>3 DEF Good
<1> QED BY <1>4 DEF n

\* A handler that returns leaves the connection Good, released or not.
LEMMA GoodReleased ==
  ASSUME NEW k, NEW a, NEW p, Good(k, a, p), k.timer # "dismissed"
  PROVE  Released(k) = k
<1>1. CASE k.op = "nothing" /\ k.timer = "fired"
  <2>1. k \in Connection /\ k.sock = "closed"
    BY <1>1 DEF Good, Unborn
  <2>2. [k EXCEPT !.sock = "closed"] = k
    BY <2>1 DEF Connection
  <2> QED BY <1>1, <2>2 DEF Released
<1>2. CASE ~(k.op = "nothing" /\ k.timer = "fired")
  BY <1>2 DEF Released
<1> QED BY <1>1, <1>2

---------------------------------------------------------------------------
(* The steps.                                                              *)

\* What c's connection, answer and client become in a step of c.
LEMMA ReturnChanges ==
  ASSUME Functions, NEW c \in Clients, NEW k, Return(c, k)
  PROVE  /\ conn'[c] = Released(k)
         /\ answer'[c] = answer[c] /\ peer'[c] = peer[c]
BY DEF Return, Functions

\* What a step may do to the exchange with c: nothing, let it begin, draw a
\* number, send an answer, or end it.
Same(c) == answer'[c] = answer[c] /\ count' = count

Effect(c) ==
  LET s == conn[c].sock
      t == conn'[c].sock
      d == conn[c].reply.number
      e == conn'[c].reply.number IN
  \/ /\ t = s \/ (s = "open" /\ t = "shut")
     /\ e = d /\ Same(c)
  \/ s = "none" /\ t = "open" /\ e = d /\ Same(c) /\ answer[c] = NoReply
  \/ /\ t = s /\ s \in {"open", "closed"} /\ answer[c] = NoReply
     /\ d = 0 /\ e = count + 1
     /\ answer'[c] = answer[c] /\ count' = count + 1
  \/ /\ t = s /\ s = "open" /\ e = d
     /\ answer[c] = NoReply /\ answer'[c] = conn[c].reply
     /\ answer'[c] # NoReply /\ count' = count
  \/ s \in {"open", "shut"} /\ t = "closed" /\ e = d /\ Same(c)

Step(c) == \/ Connect(c) \/ Leave(c)
           \/ Receive(c) \/ ReceiveFails(c)
           \/ Kernel(c) \/ Handler(c)

\* A step of c changes nothing of another client.
LEMMA OthersSame ==
  ASSUME Functions, NEW c \in Clients, Step(c), NEW d \in Clients \ {c}
  PROVE  conn'[d] = conn[d] /\ answer'[d] = answer[d] /\ peer'[d] = peer[d]
BY DEF Functions, Step, Connect, Leave, Receive, ReceiveFails, Kernel, Send,
   SendFails, Expire, Finish, Handler, Accept, HandleRead, HandleReadFailed,
   HandleWrite, HandleDeadline, HandleCancelled, Return

LEMMA StillFunctions ==
  ASSUME Functions, NEW c \in Clients, Step(c)
  PROVE  Functions'
BY DEF Functions, Step, Connect, Leave, Receive, ReceiveFails, Kernel, Send,
   SendFails, Expire, Finish, Handler, Accept, HandleRead, HandleReadFailed,
   HandleWrite, HandleDeadline, HandleCancelled, Return

LEMMA StatusKnown == \A r : Status(r) \in {200, 400, 404}
BY DEF Status

LEMMA ResponseKnown ==
  ASSUME count \in Nat, NEW r
  PROVE  /\ Response(r) \in Reply /\ Response(r).status = Status(r)
         /\ Response(r).number = IF r = "count" THEN count + 1 ELSE 0
BY StatusKnown DEF Response, Reply

LEMMA HandlerGood ==
  ASSUME IInv, NEW c \in Clients, Handler(c)
  PROVE  /\ Good(conn'[c], answer'[c], peer'[c])
         /\ Effect(c)
<1>1. /\ Good(conn[c], answer[c], peer[c])
      /\ conn[c] # Unborn => conn[c] \in Connection
      /\ Functions /\ count \in Nat
  BY DEF IInv, AllGood, Numbered, Good
<1>2. CASE Accept(c)
  <2>1. conn[c] = Unborn /\ Return(c, Started)
    BY <1>2 DEF Accept, Started
  <2>2. Good(Started, answer[c], peer[c])
    BY <1>1, <2>1, GoodStarted
  <2>3. /\ Started.timer = "armed" /\ Started.sock = "open" /\ Started.reply = NoReply
        /\ Unborn.sock = "none" /\ Unborn.reply = NoReply
    BY DEF Started, Unborn
  <2>4. /\ conn'[c] = Started /\ answer'[c] = answer[c] /\ peer'[c] = peer[c]
        /\ count' = count
    BY <1>1, <1>2, <2>1, <2>2, <2>3, GoodReleased, ReturnChanges DEF Accept
  <2>5. answer[c] = NoReply
    BY <1>1, <2>1 DEF Good
  <2> QED BY <2>1, <2>2, <2>3, <2>4, <2>5 DEF Effect, Same
<1>3. CASE HandleRead(c)
  <2> DEFINE k == conn[c]
             r == Response(k.request)
             n == [k EXCEPT !.reply = r,
                            !.op = IF k.sock = "open" THEN "writing" ELSE "writefailed"]
  <2>1. k.op = "read" /\ k # Unborn /\ Return(c, Write([k EXCEPT !.reply = r]))
    BY <1>3 DEF HandleRead, Unborn
  <2>2. Write([k EXCEPT !.reply = r]) = n
    BY <1>1, <2>1 DEF Write, Connection
  <2>3. Good(n, answer[c], peer[c])
    BY <1>1, <2>1, GoodReply, ResponseKnown
  <2>4. n.timer = k.timer /\ k.timer # "dismissed"
    BY <1>1, <2>1 DEF Good, Connection
  <2>5. n.sock = k.sock /\ n.reply = r
    BY <1>1, <2>1 DEF Connection
  <2> HIDE DEF n
  <2>6. conn'[c] = n /\ answer'[c] = answer[c] /\ peer'[c] = peer[c]
    BY <1>1, <2>1, <2>2, <2>3, <2>4, GoodReleased, ReturnChanges
  <2>7. /\ k.sock \in {"open", "closed"} /\ answer[c] = NoReply
        /\ k.reply = NoReply /\ NoReply.number = 0
    BY <1>1, <2>1 DEF Good, Connection, NoReply
  <2>8. /\ r.number = IF k.request = "count" THEN count + 1 ELSE 0
        /\ count' = IF k.request = "count" THEN count + 1 ELSE count
    BY <1>1, <1>3, ResponseKnown DEF HandleRead
  <2>9. Effect(c)
    BY <2>5, <2>6, <2>7, <2>8 DEF Effect, Same
  <2> QED BY <2>3, <2>6, <2>9
<1>4. CASE HandleReadFailed(c)
  <2> DEFINE n == [conn[c] EXCEPT !.op = "nothing"]
  <2>1. conn[c].op = "readfailed" /\ conn[c] # Unborn /\ Return(c, n)
    BY <1>4 DEF HandleReadFailed, Unborn
  <2>2. /\ n.timer # "dismissed"
        /\ n.sock = conn[c].sock /\ n.reply = conn[c].reply
    BY <1>1, <2>1 DEF Good, Connection
  <2>3. Good(n, answer[c], peer[c])
    BY <1>1, <2>1, GoodIdle
  <2> HIDE DEF n
  <2>4. /\ conn'[c] = n /\ answer'[c] = answer[c] /\ peer'[c] = peer[c]
        /\ count' = count
    BY <1>1, <1>4, <2>1, <2>2, <2>3, GoodReleased, ReturnChanges DEF HandleReadFailed
  <2> QED BY <2>2, <2>3, <2>4 DEF Effect, Same
<1>5. CASE HandleWrite(c)
  <2> DEFINE k == conn[c]
             n == [k EXCEPT !.op = "nothing",
                            !.sock = IF k.sock = "open" THEN "shut" ELSE k.sock,
                            !.timer = IF k.timer = "armed" THEN "cancelled" ELSE k.timer]
  <2>1. k.op \in {"written", "writefailed"} /\ k # Unborn /\ Return(c, n)
    BY <1>5 DEF HandleWrite, Unborn
  <2>2. /\ n.timer # "dismissed"
        /\ n.sock = (IF k.sock = "open" THEN "shut" ELSE k.sock) /\ n.reply = k.reply
    BY <1>1, <2>1 DEF Good, Connection
  <2>3. Good(n, answer[c], peer[c])
    BY <1>1, <2>1, GoodShut
  <2> HIDE DEF n
  <2>4. /\ conn'[c] = n /\ answer'[c] = answer[c] /\ peer'[c] = peer[c]
        /\ count' = count
    BY <1>1, <1>5, <2>1, <2>2, <2>3, GoodReleased, ReturnChanges DEF HandleWrite
  <2> QED BY <2>2, <2>3, <2>4 DEF Effect, Same
<1>6. CASE HandleDeadline(c)
  <2> DEFINE k == conn[c]
             n == [k EXCEPT !.timer = "fired", !.sock = "closed",
                            !.op = CASE k.op = "reading" -> "readfailed"
                                     [] k.op = "writing" -> "writefailed"
                                     [] OTHER -> k.op]
  <2>1. k.timer = "expired" /\ k # Unborn /\ Return(c, n)
    BY <1>6 DEF HandleDeadline, Unborn
  <2>2. n.timer = "fired" /\ n.sock = "closed" /\ n.reply = k.reply
    BY <1>1, <2>1 DEF Connection
  <2>3. Good(n, answer[c], peer[c])
    BY <1>1, <2>1, GoodClosed
  <2>4. k.sock \in {"open", "shut"}
    BY <1>1, <2>1 DEF Good, Connection
  <2> HIDE DEF n
  <2>5. /\ conn'[c] = n /\ answer'[c] = answer[c] /\ peer'[c] = peer[c]
        /\ count' = count
    BY <1>1, <1>6, <2>1, <2>2, <2>3, GoodReleased, ReturnChanges DEF HandleDeadline
  <2> QED BY <2>2, <2>3, <2>4, <2>5 DEF Effect, Same
<1>7. CASE HandleCancelled(c)
  <2> DEFINE k == conn[c]
  <2>1. /\ k.timer = "cancelled" /\ k # Unborn
        /\ Return(c, [k EXCEPT !.timer = "dismissed"])
    BY <1>7 DEF HandleCancelled, Unborn
  <2>2. k \in Connection /\ k.op = "nothing"
    BY <1>1, <2>1 DEF Good
  <2>3. Released([k EXCEPT !.timer = "dismissed"])
          = [k EXCEPT !.timer = "dismissed", !.sock = "closed"]
    BY <2>2 DEF Released, Connection
  <2>4. Good([k EXCEPT !.timer = "dismissed", !.sock = "closed"], answer[c], peer[c])
    BY <1>1, <2>1, GoodDismissed
  <2> DEFINE n == [k EXCEPT !.timer = "dismissed", !.sock = "closed"]
  <2>5. n.sock = "closed" /\ n.reply = k.reply /\ k.sock \in {"open", "shut"}
    BY <1>1, <2>1, <2>2 DEF Good, Connection
  <2> HIDE DEF n
  <2>6. /\ conn'[c] = n /\ answer'[c] = answer[c] /\ peer'[c] = peer[c]
        /\ count' = count
    BY <1>1, <1>7, <2>1, <2>3, ReturnChanges DEF HandleCancelled, n
  <2>7. Good(n, answer[c], peer[c])
    BY <2>4 DEF n
  <2> QED BY <2>5, <2>6, <2>7 DEF Effect, Same
<1> QED BY <1>2, <1>3, <1>4, <1>5, <1>6, <1>7 DEF Handler

\* A step of c leaves the connection of c Good.
LEMMA StepGood ==
  ASSUME IInv, NEW c \in Clients, Step(c)
  PROVE  Good(conn'[c], answer'[c], peer'[c])
<1>1. Good(conn[c], answer[c], peer[c]) /\ Functions /\ count \in Nat
  BY DEF IInv, AllGood, Numbered
<1>2. CASE Connect(c) \/ Leave(c)
  <2>1. /\ conn'[c] = conn[c] /\ answer'[c] = answer[c]
        /\ peer'[c] \in {"there", "gone"} /\ peer[c] # "gone"
    BY <1>1, <1>2 DEF Connect, Leave, Functions
  <2> QED BY <1>1, <2>1 DEF Good
<1>3. CASE Receive(c)
  <2>1. PICK r \in Requests : conn'[c] = [conn[c] EXCEPT !.op = "read", !.request = r]
    BY <1>1, <1>3 DEF Receive, Functions
  <2>2. conn[c].op = "reading" /\ answer'[c] = answer[c] /\ peer'[c] = peer[c]
    BY <1>3 DEF Receive
  <2>3. Good([conn[c] EXCEPT !.op = "read", !.request = r], answer[c], peer[c])
    BY <1>1, <2>2, GoodRead
  <2> QED BY <2>1, <2>2, <2>3
<1>4. CASE ReceiveFails(c)
  <2>1. /\ conn'[c] = [conn[c] EXCEPT !.op = "readfailed"]
        /\ conn[c].op = "reading" /\ answer'[c] = answer[c] /\ peer'[c] = peer[c]
    BY <1>1, <1>4 DEF ReceiveFails, Finish, Functions
  <2> QED BY <1>1, <2>1, GoodReadFailed
<1>5. CASE Send(c)
  <2>1. /\ conn'[c] = [conn[c] EXCEPT !.op = "written"]
        /\ conn[c].op = "writing" /\ answer'[c] = conn[c].reply /\ peer'[c] = peer[c]
    BY <1>1, <1>5 DEF Send, Finish, Functions
  <2> QED BY <1>1, <2>1, GoodWritten
<1>6. CASE SendFails(c)
  <2>1. /\ conn'[c] = [conn[c] EXCEPT !.op = "writefailed"]
        /\ conn[c].op = "writing" /\ peer[c] = "gone"
        /\ answer'[c] = answer[c] /\ peer'[c] = peer[c]
    BY <1>1, <1>6 DEF SendFails, Finish, Functions
  <2> QED BY <1>1, <2>1, GoodWriteFailed
<1>7. CASE Expire(c)
  <2>1. /\ conn'[c] = [conn[c] EXCEPT !.timer = "expired"]
        /\ conn[c].timer = "armed" /\ answer'[c] = answer[c] /\ peer'[c] = peer[c]
    BY <1>1, <1>7 DEF Expire, Functions
  <2> QED BY <1>1, <2>1, GoodExpired
<1> QED BY <1>2, <1>3, <1>4, <1>5, <1>6, <1>7, HandlerGood DEF Step, Kernel

LEMMA StepEffect ==
  ASSUME IInv, NEW c \in Clients, Step(c)
  PROVE  Effect(c)
<1>1. /\ Good(conn[c], answer[c], peer[c]) /\ Functions
      /\ conn[c] # Unborn => conn[c] \in Connection
      /\ Unborn.op = "nothing" /\ Unborn.timer = "none"
  BY DEF IInv, AllGood, Good, Unborn
<1>2. CASE Connect(c) \/ Leave(c)
  BY <1>2 DEF Connect, Leave, Effect, Same
<1>3. CASE Receive(c) \/ ReceiveFails(c) \/ SendFails(c) \/ Expire(c)
  <2>1. conn[c] \in Connection
    BY <1>1, <1>3 DEF Receive, ReceiveFails, SendFails, Expire
  <2> DEFINE k == conn[c]
  <2>2. /\ \/ \E r \in Requests : conn'[c] = [k EXCEPT !.op = "read", !.request = r]
           \/ conn'[c] = [k EXCEPT !.op = "readfailed"]
           \/ conn'[c] = [k EXCEPT !.op = "writefailed"]
           \/ conn'[c] = [k EXCEPT !.timer = "expired"]
        /\ answer' = answer /\ count' = count
    BY <1>1, <1>3 DEF Receive, ReceiveFails, SendFails, Expire, Finish, Functions
  <2>3. conn'[c].sock = k.sock /\ conn'[c].reply = k.reply
    BY <2>1, <2>2 DEF Connection
  <2> HIDE DEF k
  <2>4. answer'[c] = answer[c] /\ count' = count
    BY <2>2
  <2> QED BY <2>3, <2>4 DEF Effect, Same, k
<1>4. CASE Send(c)
  <2>1. conn[c] \in Connection /\ conn[c].op = "writing"
    BY <1>1, <1>4 DEF Send
  <2>2. /\ conn[c].sock = "open" /\ conn[c].reply \in Reply /\ NoReply \notin Reply
        /\ answer[c] = NoReply
    BY <1>1, <2>1 DEF Good, Reply, NoReply
  <2>3. /\ conn'[c].sock = conn[c].sock /\ conn'[c].reply = conn[c].reply
        /\ answer'[c] = conn[c].reply /\ count' = count
    BY <1>1, <1>4, <2>1 DEF Send, Finish, Functions, Connection
  <2> QED BY <2>2, <2>3 DEF Effect
<1> QED BY <1>2, <1>3, <1>4, HandlerGood DEF Step, Kernel

---------------------------------------------------------------------------
(* The invariant.                                                          *)

LEMMA InitInv == Init => IInv
<1> SUFFICES ASSUME Init PROVE IInv
  OBVIOUS
<1>1. \A c \in Clients : conn[c] = Unborn /\ answer[c] = NoReply /\ peer[c] = "away"
  BY DEF Init
<1>2. Functions
  BY DEF Init, Functions
<1>3. AllGood
  BY <1>1, UnbornGood DEF AllGood
<1>4. Numbered
  BY <1>1 DEF Init, Numbered, Unborn, NoReply
<1> QED BY <1>2, <1>3, <1>4 DEF IInv

\* Only a draw changes a number, and the number drawn is a new one.
LEMMA StepNumbered ==
  ASSUME IInv, NEW c \in Clients, Step(c)
  PROVE  Numbered'
<1>1. Numbered /\ Functions
  BY DEF IInv
<1>2. \A d \in Clients \ {c} : conn'[d] = conn[d]
  BY <1>1, OthersSame
<1>3. \/ conn'[c].reply.number = conn[c].reply.number /\ count' = count
      \/ conn'[c].reply.number = count + 1 /\ count' = count + 1
  BY StepEffect DEF Effect, Same
<1> QED BY <1>1, <1>2, <1>3 DEF Numbered

LEMMA StepInv == IInv /\ [Next]_vars => IInv'
<1> SUFFICES ASSUME IInv, [Next]_vars PROVE IInv'
  OBVIOUS
<1>1. ASSUME NEW c \in Clients, Step(c) PROVE IInv'
  <2>1. \A d \in Clients : Good(conn'[d], answer'[d], peer'[d])
    BY <1>1, StepGood, OthersSame DEF IInv, AllGood
  <2>2. AllGood'
    BY <2>1 DEF AllGood, Good
  <2> QED BY <1>1, <2>2, StepNumbered, StillFunctions DEF IInv
<1>2. CASE UNCHANGED vars
  BY <1>2 DEF vars, IInv, Functions, AllGood, Good, Numbered
<1> QED BY <1>1, <1>2 DEF Next, Step

\* Every reachable state satisfies IInv: each connection is Good and the
\* numbers drawn are different and at most request_count.
THEOREM Invariance == Spec => []IInv
BY InitInv, StepInv, PTL DEF Spec

\* A connection, an answer and the count of requests never leave their types.
THEOREM TypeCorrect == Spec => []TypeOK
<1>1. IInv => TypeOK
  BY DEF IInv, Functions, AllGood, Good, Numbered, TypeOK
<1> QED BY <1>1, Invariance, PTL

\* No two answers tell the same number, and none more than request_count,
\* in whatever order process_request, the writes and the deadlines run.
THEOREM NumbersNeverRepeat == Spec => []NumbersDistinct
<1>1. IInv => NumbersDistinct
  <2> SUFFICES ASSUME IInv, NEW c \in Clients, answer[c].number > 0
               PROVE  /\ answer[c].number <= count
                      /\ \A d \in Clients \ {c} : answer[d].number # answer[c].number
    BY DEF NumbersDistinct
  <2>1. \A d \in Clients : /\ answer[d] = conn[d].reply \/ answer[d] = NoReply
                           /\ conn[d].reply.number \in 0..count
    BY DEF IInv, AllGood, Good, Numbered
  <2>2. NoReply.number = 0 /\ count \in Nat
    BY DEF NoReply, IInv, Numbered
  <2>3. answer[c] = conn[c].reply
    BY <2>1, <2>2
  <2> QED BY <2>1, <2>2, <2>3 DEF IInv, Numbered
<1> QED BY <1>1, Invariance, PTL

\* A connection that ends without an answer was ended by check_deadline, or
\* by its client; and an answer is the one to the request that was read.
THEOREM DroppedByDeadline == Spec => []OnlyDeadlineDrops
<1>1. IInv => OnlyDeadlineDrops
  BY DEF IInv, AllGood, Good, OnlyDeadlineDrops
<1> QED BY <1>1, Invariance, PTL

---------------------------------------------------------------------------
(* The refinement.                                                         *)

LEMMA InitMaps == Init => Promised!Init
BY DEF Init, Promised!Init, Phase, Unborn, NoReply

LEMMA PhaseIs ==
  ASSUME NEW c
  PROVE  /\ conn[c].sock = "none" => Phase(c) = "out"
         /\ conn[c].sock = "closed" => Phase(c) = "cut"
         /\ conn[c].sock \in {"open", "shut"} /\ answer[c] = NoReply
              => Phase(c) = "open"
         /\ conn[c].sock \in {"open", "shut"} /\ answer[c] # NoReply
              => Phase(c) = "answered"
BY DEF Phase

LEMMA PhaseWillBe ==
  ASSUME NEW c
  PROVE  /\ conn'[c].sock = "none" => Phase(c)' = "out"
         /\ conn'[c].sock = "closed" => Phase(c)' = "cut"
         /\ conn'[c].sock \in {"open", "shut"} /\ answer'[c] = NoReply
              => Phase(c)' = "open"
         /\ conn'[c].sock \in {"open", "shut"} /\ answer'[c] # NoReply
              => Phase(c)' = "answered"
BY DEF Phase

\* The variables of Exchange that WebServer implements.
phase == [c \in Clients |-> Phase(c)]
drawn == [c \in Clients |-> conn[c].reply.number]
told == [c \in Clients |-> answer[c].number]

\* A step of a connection admits, draws, answers, cuts off, or does nothing
\* that the abstract exchange can see.
LEMMA StepMaps ==
  ASSUME IInv, NEW c \in Clients, Step(c)
  PROVE  \/ Promised!Admit(c) \/ Promised!Draw(c) \/ Promised!Answer(c)
         \/ Promised!Cut(c)
         \/ UNCHANGED <<phase, drawn, told, count>>
<1> DEFINE s == conn[c].sock
           t == conn'[c].sock
<1>1. \A d \in Clients \ {c} :
        /\ Phase(d)' = Phase(d)
        /\ conn'[d].reply.number = conn[d].reply.number
        /\ answer'[d].number = answer[d].number
  BY OthersSame DEF IInv, Phase
<1>2. s \in {"none", "open", "shut", "closed"} /\ NoReply.number = 0
  BY DEF IInv, AllGood, Good, Unborn, Connection, NoReply
<1>3. Effect(c)
  BY StepEffect
<1>4. CASE /\ t = s \/ (s = "open" /\ t = "shut")
           /\ conn'[c].reply.number = conn[c].reply.number /\ Same(c)
  <2>1. Phase(c)' = Phase(c)
    BY <1>2, <1>4, PhaseIs, PhaseWillBe DEF Same
  <2> QED BY <1>1, <1>4, <2>1 DEF Same, phase, drawn, told
<1>5. CASE /\ s = "none" /\ t = "open" /\ Same(c) /\ answer[c] = NoReply
           /\ conn'[c].reply.number = conn[c].reply.number
  <2>1. Phase(c) = "out" /\ Phase(c)' = "open"
    BY <1>5, PhaseIs, PhaseWillBe DEF Same
  <2> QED BY <1>1, <1>5, <2>1 DEF Same, Promised!Admit, Promised!Move
<1>6. CASE /\ t = s /\ s \in {"open", "closed"} /\ answer[c] = NoReply
           /\ conn[c].reply.number = 0 /\ conn'[c].reply.number = count + 1
           /\ answer'[c] = answer[c] /\ count' = count + 1
  <2>1. Phase(c)' = Phase(c) /\ Phase(c) \in {"open", "cut"}
    BY <1>6, PhaseIs, PhaseWillBe
  <2> QED BY <1>1, <1>6, <2>1 DEF Promised!Draw
<1>7. CASE /\ t = s /\ s = "open" /\ conn'[c].reply.number = conn[c].reply.number
           /\ answer[c] = NoReply /\ answer'[c] = conn[c].reply
           /\ answer'[c] # NoReply /\ count' = count
  <2>1. Phase(c) = "open" /\ Phase(c)' = "answered"
    BY <1>7, PhaseIs, PhaseWillBe
  <2> QED BY <1>1, <1>7, <2>1 DEF Promised!Answer, Promised!Move
<1>8. CASE /\ s \in {"open", "shut"} /\ t = "closed" /\ Same(c)
           /\ conn'[c].reply.number = conn[c].reply.number
  <2>1. Phase(c) \in {"open", "answered"} /\ Phase(c)' = "cut"
    BY <1>8, PhaseIs, PhaseWillBe
  <2> QED BY <1>1, <1>8, <2>1 DEF Same, Promised!Cut, Promised!Move
<1> QED BY <1>3, <1>4, <1>5, <1>6, <1>7, <1>8 DEF Effect

\* WebServer implements Exchange: whatever the deadlines, the clients and
\* the completions of reads and writes do, each connection is one exchange.
THEOREM Implements == Spec => OneExchange
<1>1. Init => Promised!Init
  BY InitMaps
<1>2. IInv /\ [Next]_vars => [Promised!Next]_<<phase, drawn, told, count>>
  <2> SUFFICES ASSUME IInv, [Next]_vars
               PROVE  [Promised!Next]_<<phase, drawn, told, count>>
    OBVIOUS
  <2>1. ASSUME NEW c \in Clients, Step(c)
        PROVE  [Promised!Next]_<<phase, drawn, told, count>>
    BY <2>1, StepMaps DEF Promised!Next
  <2>2. CASE UNCHANGED vars
    BY <2>2 DEF vars, phase, drawn, told, Phase
  <2> QED BY <2>1, <2>2 DEF Next, Step
<1> QED BY <1>1, <1>2, Invariance, PTL DEF Spec, OneExchange, Promised!Spec, phase, drawn, told
=============================================================================
