------------------------------- MODULE TcpServer -------------------------------
(***************************************************************************)
(* TarsServer with its tcpHandler: the accept loop, one goroutine per      *)
(* connection that reads and splits the stream and hands over packages,    *)
(* the handlers, and Shutdown, which tells the clients to go elsewhere and *)
(* looks at the connections one by one until all are idle.  With           *)
(* MaxInvoke > 0 the handlers are jobs of a goroutine pool, used here by   *)
(* what it promises (WorkerPool).                                          *)
(*                                                                         *)
(* The stream of a connection is counted in halves of packages, so that a  *)
(* read may end inside one.  Time is abstract: a read may time out if it   *)
(* has a deadline, and CloseIdles may find idleTime 2 s past wherever the   *)
(* loop of the connection is.                                              *)
(***************************************************************************)
EXTENDS Naturals, Sequences, FiniteSets

CONSTANTS
  Conns,        \* connections that clients make
  Pkgs,         \* packages that they send
  Stream,       \* the packages of each connection, in order
  OneWay,       \* packages that get no response
  Garbage,      \* connections whose data ParsePackage may refuse
  MaxInvoke,    \* conf.MaxInvoke: size of the pool, 0 for none
  QueueCap,     \* conf.QueueCap
  ReadTimeout   \* conf.ReadTimeout > 0

ASSUME StreamAssumption ==
  /\ Stream \in [Conns -> Seq(Pkgs)]
  /\ \A p \in Pkgs : \E c \in Conns : \E i \in DOMAIN Stream[c] : Stream[c][i] = p
  /\ \A c, d \in Conns : \A i \in DOMAIN Stream[c], j \in DOMAIN Stream[d] :
        Stream[c][i] = Stream[d][j] => c = d /\ i = j
ASSUME ServerAssumption ==
  /\ OneWay \subseteq Pkgs /\ Garbage \subseteq Conns
  /\ MaxInvoke \in Nat /\ QueueCap \in Nat /\ ReadTimeout \in BOOLEAN

VARIABLES
  isClosed,     \* TarsServer.isClosed
  isListenClosed, \* tcpHandler.isListenClosed: 1 the accept loop has ended, 2 clients told
  acc,          \* where Handle is
  shut,         \* where Shutdown is
  pc,           \* where the goroutine of each connection is
  conns,        \* tcpHandler.conns
  deadline,     \* read deadline of each connection
  sent, got,    \* halves of packages that the client sent and that recv read
  parsed,       \* packages that recv took out of currBuffer
  numInvoke,    \* connInfo.numInvoke
  eof,          \* connections that the client closed
  todo,         \* connections that CloseIdles has still to look at
  seen,         \* history: packages parsed when CloseIdles looked at a connection
  written,      \* packages whose handler is past the response
  dropped,      \* responses written to a connection that the server had closed
  pending, running, finished, released   \* the handlers, as jobs

scan == <<shut, todo, seen>>
server == <<isClosed, isListenClosed, acc, scan>>
reader == <<deadline, got, parsed>>
client == <<sent, eof>>
jobs == <<pending, running, finished, released>>
vars == <<server, pc, conns, reader, client, numInvoke, written, dropped, jobs>>

\* The pool, used through its abstract specification.
Pool == INSTANCE WorkerPool WITH Jobs <- Pkgs, NumWorkers <- MaxInvoke

ConnOf(p) == CHOOSE c \in Conns : \E i \in DOMAIN Stream[c] : Stream[c][i] = p
\* currBuffer, in halves of packages; it is nil exactly if it is empty.
Buffered(c) == got[c] - 2 * parsed[c]

Init ==
  /\ isClosed = FALSE /\ isListenClosed = 0 /\ acc = "check" /\ shut = "off"
  /\ pc = [c \in Conns |-> "none"]
  /\ conns = {} /\ eof = {} /\ written = {} /\ dropped = {}
  /\ todo = {} /\ seen = [c \in Conns |-> 0]
  /\ deadline = [c \in Conns |-> "none"]
  /\ sent = [c \in Conns |-> 0] /\ got = [c \in Conns |-> 0] /\ parsed = [c \in Conns |-> 0]
  /\ numInvoke = [c \in Conns |-> 0]
  /\ Pool!Init

Goto(c, label) == pc' = [pc EXCEPT ![c] = label]

-------------------------------------------------------------------------------
(* Clients. *)

\* A client connects: the connection waits to be accepted.
Connect(c) ==
  /\ pc[c] = "none"
  /\ Goto(c, "backlog")
  /\ UNCHANGED <<server, conns, reader, client, numInvoke, written, dropped, jobs>>

\* It sends half a package...
ClientWrite(c) ==
  /\ pc[c] \notin {"none", "closed", "gone"} /\ c \notin eof
  /\ sent[c] < 2 * Len(Stream[c])
  /\ sent' = [sent EXCEPT ![c] = @ + 1]
  /\ UNCHANGED <<server, pc, conns, reader, eof, numInvoke, written, dropped, jobs>>

\* ...or closes the connection.
ClientClose(c) ==
  /\ pc[c] \notin {"none", "closed", "gone"} /\ c \notin eof
  /\ eof' = eof \cup {c}
  /\ UNCHANGED <<server, pc, conns, reader, sent, numInvoke, written, dropped, jobs>>

-------------------------------------------------------------------------------
(* Handle: the accept loop. *)

AcceptCheck ==
  /\ acc = "check"
  /\ \/ isClosed /\ isListenClosed' = 1 /\ acc' = "release"
     \/ ~isClosed /\ acc' = "accept" /\ UNCHANGED isListenClosed
  /\ UNCHANGED <<isClosed, scan, pc, conns, reader, client, numInvoke, written, dropped, jobs>>

\* Accept returns a connection, and its goroutine starts.
Accept(c) ==
  /\ acc = "accept" /\ pc[c] = "backlog"
  /\ Goto(c, "store") /\ acc' = "check"
  /\ UNCHANGED <<isClosed, isListenClosed, scan, conns, reader, client, numInvoke, written,
                 dropped, jobs>>

\* Accept fails: its deadline is over (OnShutdown moves it to now, and the
\* connection that CloseIdles makes wakes it too), or another error.
AcceptError ==
  /\ acc = "accept" /\ acc' = "check"
  /\ UNCHANGED <<isClosed, isListenClosed, scan, pc, conns, reader, client, numInvoke, written,
                 dropped, jobs>>

\* After the loop the pool is released; Handle waits for that.
Release ==
  /\ acc = "release" /\ acc' = "done"
  /\ IF MaxInvoke > 0 THEN Pool!Release ELSE UNCHANGED jobs
  /\ UNCHANGED <<isClosed, isListenClosed, scan, pc, conns, reader, client, numInvoke, written,
                 dropped>>

AcceptLoop == AcceptCheck \/ AcceptError \/ Release \/ \E c \in Conns : Accept(c)

-------------------------------------------------------------------------------
(* recv: the goroutine of a connection. *)

\* The connection is entered in conns and recv begins.
Store(c) ==
  /\ pc[c] = "store"
  /\ conns' = conns \cup {c} /\ Goto(c, "top")
  /\ UNCHANGED <<server, reader, client, numInvoke, written, dropped, jobs>>

\* The head of the loop reads isClosed.
Top(c) ==
  /\ pc[c] = "top"
  /\ Goto(c, IF isClosed THEN "armshort" ELSE "arm")
  /\ UNCHANGED <<server, conns, reader, client, numInvoke, written, dropped, jobs>>

\* It sets the deadline of the next read, which may replace the one that
\* sendCloseMsg has set meanwhile.
Arm(c) ==
  /\ \/ pc[c] = "armshort" /\ deadline' = [deadline EXCEPT ![c] = "short"]
     \/ pc[c] = "arm" /\ deadline' = [deadline EXCEPT ![c] = IF ReadTimeout THEN "long" ELSE @]
  /\ Goto(c, "read")
  /\ UNCHANGED <<server, conns, got, parsed, client, numInvoke, written, dropped, jobs>>

\* Read returns some of the data that has arrived.
Read(c) ==
  /\ pc[c] = "read" /\ deadline[c] # "now"
  /\ \E n \in got[c] + 1 .. sent[c] : got' = [got EXCEPT ![c] = n]
  /\ Goto(c, "parse")
  /\ UNCHANGED <<server, conns, deadline, parsed, client, numInvoke, written, dropped, jobs>>

\* Bug: a timeout never ends the loop.
BugReadTimesOut(c) ==
  /\ pc[c] = "read"
  /\ \/ deadline[c] = "now"
     \/ deadline[c] \in {"short", "long"} /\ got[c] = sent[c]
  /\ Goto(c, "top")
  /\ UNCHANGED <<server, conns, reader, client, numInvoke, written, dropped, jobs>>

\* Read times out.  Line 243: a connection without requests whose IdleTimeout
\* is over is closed.
ReadTimesOut(c) ==
  /\ pc[c] = "read"
  /\ \/ deadline[c] = "now"
     \/ deadline[c] \in {"short", "long"} /\ got[c] = sent[c]
  /\ \/ isClosed /\ Buffered(c) = 0 /\ Goto(c, "drain")
     \/ Buffered(c) = 0 /\ numInvoke[c] = 0 /\ Goto(c, "drain")
     \/ ~(isClosed /\ Buffered(c) = 0) /\ Goto(c, "top")
  /\ UNCHANGED <<server, conns, reader, client, numInvoke, written, dropped, jobs>>

\* The client has closed the connection and all its data is read.
ReadEof(c) ==
  /\ pc[c] = "read" /\ deadline[c] # "now"
  /\ c \in eof /\ got[c] = sent[c]
  /\ Goto(c, "drain")
  /\ UNCHANGED <<server, conns, reader, client, numInvoke, written, dropped, jobs>>

\* A full package is counted and taken out of the buffer.
Parse(c) ==
  /\ pc[c] = "parse" /\ Buffered(c) >= 2
  /\ numInvoke' = [numInvoke EXCEPT ![c] = @ + 1]
  /\ parsed' = [parsed EXCEPT ![c] = @ + 1]
  /\ Goto(c, "hand")
  /\ UNCHANGED <<server, conns, deadline, got, client, written, dropped, jobs>>

ParseLess(c) ==
  /\ pc[c] = "parse" /\ Buffered(c) < 2
  /\ Goto(c, "top")
  /\ UNCHANGED <<server, conns, reader, client, numInvoke, written, dropped, jobs>>

ParseError(c) ==
  /\ pc[c] = "parse" /\ c \in Garbage
  /\ Goto(c, "drain")
  /\ UNCHANGED <<server, conns, reader, client, numInvoke, written, dropped, jobs>>

\* handleConn: the handler becomes a job, if the queue has room (the dispatcher
\* holds one more), or a goroutine.
HandleConn(c) ==
  /\ pc[c] = "hand"
  /\ LET p == Stream[c][parsed[c]] IN
     \/ /\ MaxInvoke > 0
        /\ Cardinality(pending) < QueueCap + (IF released THEN 0 ELSE 1)
        /\ Pool!Accept(p)
     \/ /\ MaxInvoke = 0
        /\ running' = running \cup {p}
        /\ UNCHANGED <<pending, finished, released>>
  /\ Goto(c, "parse")
  /\ UNCHANGED <<server, conns, reader, client, numInvoke, written, dropped>>

\* Bug: the connection is closed without waiting.
BugClose(c) ==
  /\ pc[c] = "drain"
  /\ Goto(c, "closed")
  /\ UNCHANGED <<server, conns, reader, client, numInvoke, written, dropped, jobs>>

\* The deferred function waits for the handlers, then closes the connection;
\* idleTime becomes 0.
Close(c) ==
  /\ pc[c] = "drain" /\ numInvoke[c] = 0
  /\ Goto(c, "closed")
  /\ UNCHANGED <<server, conns, reader, client, numInvoke, written, dropped, jobs>>

Delete(c) ==
  /\ pc[c] = "closed"
  /\ conns' = conns \ {c} /\ Goto(c, "gone")
  /\ UNCHANGED <<server, reader, client, numInvoke, written, dropped, jobs>>

RecvStep(c) == \/ Store(c) \/ Top(c) \/ Arm(c) \/ Read(c) \/ ReadTimesOut(c) \/ ReadEof(c) \/ Parse(c)
               \/ ParseLess(c) \/ ParseError(c) \/ HandleConn(c) \/ Close(c) \/ Delete(c)

-------------------------------------------------------------------------------
(* Handlers. *)

\* A worker of the pool takes the job.
Begin(p) ==
  /\ MaxInvoke > 0 /\ Pool!Begin(p)
  /\ UNCHANGED <<server, pc, conns, reader, client, numInvoke, written, dropped>>

\* Bug: the handler of a request gives up if Shutdown has begun.
BugRespond(p) ==
  /\ p \in running \ written /\ ~isClosed
  /\ written' = written \cup {p}
  /\ dropped' = IF p \notin OneWay /\ pc[ConnOf(p)] \in {"closed", "gone"}
                THEN dropped \cup {p} ELSE dropped
  /\ UNCHANGED <<server, pc, conns, reader, client, numInvoke, jobs>>

\* invoke returns, with the response or after HandleTimeout with the timeout
\* response, and unless the request is one-way that is written.
Respond(p) ==
  /\ p \in running \ written
  /\ written' = written \cup {p}
  /\ dropped' = IF p \notin OneWay /\ pc[ConnOf(p)] \in {"closed", "gone"}
                THEN dropped \cup {p} ELSE dropped
  /\ UNCHANGED <<server, pc, conns, reader, client, numInvoke, jobs>>

\* Bug: the handler of a one-way request returns before it is counted off.
BugHandlerEnds(p) ==
  /\ p \in written /\ Pool!Finish(p)
  /\ numInvoke' = [numInvoke EXCEPT ![ConnOf(p)] = IF p \in OneWay THEN @ ELSE @ - 1]
  /\ UNCHANGED <<server, pc, conns, reader, client, written, dropped>>

\* The handler ends and is counted off.
HandlerEnds(p) ==
  /\ p \in written /\ Pool!Finish(p)
  /\ numInvoke' = [numInvoke EXCEPT ![ConnOf(p)] = @ - 1]
  /\ UNCHANGED <<server, pc, conns, reader, client, written, dropped>>

HandlerStep(p) == Respond(p) \/ HandlerEnds(p)

-------------------------------------------------------------------------------
(* Shutdown. *)

\* isClosed is set.
Shutdown ==
  /\ shut = "off"
  /\ isClosed' = TRUE /\ shut' = "begin"
  /\ UNCHANGED <<isListenClosed, acc, todo, seen, pc, conns, reader, client, numInvoke,
                 written, dropped, jobs>>

\* sendCloseMsg once the accept loop has ended: every connection of conns gets
\* the close message and a read deadline of now.
CloseMsg ==
  \/ /\ isListenClosed = 1
     /\ isListenClosed' = 2
     /\ deadline' = [c \in Conns |-> IF c \in conns THEN "now" ELSE deadline[c]]
  \/ isListenClosed # 1 /\ UNCHANGED <<isListenClosed, deadline>>

OnShutdown ==
  /\ shut = "begin" /\ shut' = "wait"
  /\ CloseMsg
  /\ UNCHANGED <<isClosed, acc, todo, seen, pc, conns, got, parsed, client, numInvoke,
                 written, dropped, jobs>>

\* A tick calls CloseIdles.
Tick ==
  /\ shut = "wait" /\ shut' = "range"
  /\ CloseMsg
  /\ UNCHANGED <<isClosed, acc, todo, seen, pc, conns, got, parsed, client, numInvoke,
                 written, dropped, jobs>>

\* It ranges over the connections; without any, Shutdown returns.
RangeConns ==
  /\ shut = "range" /\ shut' = IF conns = {} THEN "returned" ELSE "scan"
  /\ todo' = conns
  /\ seen' = [c \in Conns |-> IF c \in conns THEN 0 ELSE parsed[c]]
  /\ UNCHANGED <<isClosed, isListenClosed, acc, pc, conns, reader, client, numInvoke,
                 written, dropped, jobs>>

\* Line 195: c is idle, and if it is the last one Shutdown returns.
Idle(c) ==
  /\ todo' = todo \ {c} /\ seen' = [seen EXCEPT ![c] = parsed[c]]
  /\ shut' = IF todo = {c} THEN "returned" ELSE "scan"

\* c is not idle, and Shutdown waits for the next tick.
NotIdle == shut' = "wait" /\ todo' = {} /\ seen' = [c \in Conns |-> 0]

\* Bug: idleTime alone tells whether a connection is idle.
BugLook(c) ==
  /\ shut = "scan" /\ c \in todo
  /\ Idle(c) \/ NotIdle
  /\ UNCHANGED <<isClosed, isListenClosed, acc, pc, conns, reader, client, numInvoke, written,
                 dropped, jobs>>

\* CloseIdles looks at a connection.  It is idle if numInvoke is 0 and idleTime is
\* 2 s past, or 0: that is set before the read (line 236), so the loop may be
\* anywhere by now, and after the close (line 220).
Look(c) ==
  /\ shut = "scan" /\ c \in todo
  /\ \/ numInvoke[c] = 0 /\ Idle(c)
     \/ pc[c] \notin {"closed", "gone"} /\ NotIdle
  /\ UNCHANGED <<isClosed, isListenClosed, acc, pc, conns, reader, client, numInvoke, written,
                 dropped, jobs>>

\* The context of Shutdown ends.
CtxDone ==
  /\ shut = "wait" /\ shut' = "ctx"
  /\ UNCHANGED <<isClosed, isListenClosed, acc, todo, seen, pc, conns, reader, client,
                 numInvoke, written, dropped, jobs>>

ShutdownStep == OnShutdown \/ Tick \/ RangeConns \/ \E c \in Conns : Look(c)

-------------------------------------------------------------------------------
Next == \/ \E c \in Conns : Connect(c) \/ ClientWrite(c) \/ ClientClose(c) \/ RecvStep(c)
        \/ \E p \in Pkgs : Begin(p) \/ HandlerStep(p)
        \/ AcceptLoop \/ Shutdown \/ ShutdownStep \/ CtxDone

Spec == Init /\ [][Next]_vars

\* Every goroutine of the server goes on; clients, and the call of Shutdown, do
\* as they like.
Fairness ==
  /\ WF_vars(AcceptLoop) /\ WF_vars(ShutdownStep)
  /\ \A c \in Conns : WF_vars(RecvStep(c))
  /\ \A p \in Pkgs : WF_vars(Begin(p)) /\ WF_vars(HandlerStep(p))
FairSpec == Spec /\ Fairness

-------------------------------------------------------------------------------
\* The types of the state; no counter goes below zero.
TypeOK ==
  /\ isClosed \in BOOLEAN /\ isListenClosed \in 0..2
  /\ acc \in {"check", "accept", "release", "done"}
  /\ shut \in {"off", "begin", "wait", "range", "scan", "returned", "ctx"}
  /\ todo \subseteq Conns /\ seen \in [Conns -> Nat]
  /\ pc \in [Conns -> {"none", "backlog", "store", "top", "arm", "armshort", "read", "parse",
                       "hand", "drain", "closed", "gone"}]
  /\ conns \subseteq Conns /\ eof \subseteq Conns
  /\ deadline \in [Conns -> {"none", "short", "long", "now"}]
  /\ sent \in [Conns -> Nat] /\ got \in [Conns -> Nat] /\ parsed \in [Conns -> Nat]
  /\ numInvoke \in [Conns -> Nat]
  /\ written \subseteq Pkgs /\ dropped \subseteq Pkgs
  /\ pending \subseteq Pkgs /\ running \subseteq Pkgs /\ finished \subseteq Pkgs
  /\ released \in BOOLEAN

\* numInvoke of a connection counts exactly its requests that are being handed
\* over, queued or handled (lines 79 and 263), on every path: the idle check,
\* the wait before the close and Shutdown rely on it.
NumInvokeCounts ==
  \A c \in Conns : numInvoke[c] = Cardinality({p \in pending \cup running : ConnOf(p) = c})
                                  + IF pc[c] = "hand" THEN 1 ELSE 0

\* The server never closes a connection before it has written the response to
\* each request it took from it (the deferred wait of lines 205-215).
NoResponseDropped == dropped = {}

\* When Shutdown returns because all connections are idle, every request that was
\* taken from a connection before CloseIdles looked at it has been handled to its
\* end: numInvoke is raised before a package becomes a job and lowered after the
\* last write (lines 79 and 263), so the look of line 195 misses none.
GracefulReturn ==
  shut = "returned" => \A c \in Conns : \A i \in 1..seen[c] : Stream[c][i] \in finished

\* A connection whose client has sent only a part of a package.
Partial(c) == Buffered(c) % 2 = 1 /\ pc[c] \in {"top", "arm", "armshort", "read", "parse", "hand"}

\* Shutdown returns without the help of its context, unless a client leaves a
\* part of a package (line 240 waits for the rest of it).
ShutdownReturns ==
  shut = "begin" ~> shut \in {"returned", "ctx"} \/ \E c \in Conns : Partial(c)

\* A request that the server took is handled to its end, unless Shutdown, which
\* waits for it, has returned: "Shutdown try to shutdown server gracefully."
\* (tarsserver.go:84)
RequestsAnswered ==
  \A p \in Pkgs : p \in pending \cup running ~> p \in finished \/ shut \in {"returned", "ctx"}
===============================================================================
