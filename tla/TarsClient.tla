------------------------------ MODULE TarsClient ------------------------------
(***************************************************************************)
(* tars/transport/tarsclient.go: one TarsClient and its connection object. *)
(*                                                                         *)
(* The object outlives the network connections that it dials one after     *)
(* another; each of those has its own send and recv goroutine, and all of  *)
(* them share isClosed, invokeNum and the two queues.  ReConnect and close *)
(* hold connLock for their whole body and are atomic; Close and the send   *)
(* loop's reads take no lock and are cut at every access.  A caller of     *)
(* Send is identified with its message.  Replies, pushes, resets, failed   *)
(* dials and failed writes come from the network.                          *)
(***************************************************************************)
EXTENDS Integers, Sequences, FiniteSets

CONSTANTS
  Msgs,        \* requests, one caller of Send each
  OneWay,      \* those the server never answers
  QueueLen,    \* conf.QueueLen
  MaxConns,    \* bound: connections dialled
  MaxFaults,   \* bound: resets, failed dials, failed writes, bad packages
  MaxPush,     \* bound: packages that answer no request
  MaxCloses,   \* bound: calls of Close or GraceClose, at most 1
  NoMsg

ASSUME MsgsAssumption == IsFiniteSet(Msgs) /\ OneWay \subseteq Msgs /\ NoMsg \notin Msgs
ASSUME QueueLenAssumption == QueueLen \in Nat \ {0}
ASSUME BoundsAssumption == MaxConns \in Nat /\ MaxFaults \in Nat /\ MaxPush \in Nat
                           /\ MaxCloses \in 0..1

Conns == 1..MaxConns

VARIABLES
  isClosed,    \* connection.isClosed
  cur,         \* connection.conn; 0 is nil
  dialled,     \* number of connections dialled so far
  conns,       \* state of each net.Conn
  sendQueue, sendFailQueue,
  invokeNum,   \* connection.invokeNum
  sender,      \* where send(conn, connDone) is, for each connection
  inHand,      \* its local variable m
  recver,      \* where recv(conn, connDone) is
  connDone,    \* the number of values in the channel connDone, of capacity 1
  caller,      \* where Send is, for each message
  closer,      \* where the caller of Close or GraceClose is
  found,       \* the connection its check saw
  writes,      \* history: how often a message was written
  sentOn,      \* history: the live connection that carried it; 0 for none
  replied,     \* history: messages whose reply was read
  pushed,      \* history: pushes read
  faults       \* history: network faults

vars == <<isClosed, cur, dialled, conns, sendQueue, sendFailQueue, invokeNum, sender,
          inHand, recver, connDone, caller, closer, found, writes, sentOn, replied,
          pushed, faults>>

connVars == <<cur, dialled>>
queueVars == <<sendQueue, sendFailQueue>>
history == <<writes, sentOn, replied, pushed, faults>>
closeVars == <<closer, found>>

\* send: the check of connDone, the two selects, lines 155 and 160, the failure.
SenderPC == {"off", "top", "fetch", "inner", "count", "write", "fail", "close", "done"}
RecverPC == {"off", "read", "close", "signal", "done"}
CallerPC == {"start", "enqueue", "ok", "err"}
CloserPC == {"idle", "grace", "check", "mark", "shut", "done", "panic"}

-------------------------------------------------------------------------------
\* NewTarsClient
Init ==
  /\ isClosed = TRUE /\ cur = 0 /\ dialled = 0
  /\ conns = [c \in Conns |-> "unused"]
  /\ sendQueue = <<>> /\ sendFailQueue = <<>> /\ invokeNum = 0
  /\ sender = [c \in Conns |-> "off"] /\ inHand = [c \in Conns |-> NoMsg]
  /\ recver = [c \in Conns |-> "off"] /\ connDone = [c \in Conns |-> 0]
  /\ caller = [m \in Msgs |-> "start"]
  /\ closer = "idle" /\ found = 0
  /\ writes = [m \in Msgs |-> 0] /\ sentOn = [m \in Msgs |-> 0]
  /\ replied = {} /\ pushed = 0 /\ faults = 0

Fault == faults < MaxFaults /\ faults' = faults + 1

-------------------------------------------------------------------------------
(* Send *)

\* ReConnect finds the connection in use.
ReConnectNop(m) ==
  /\ caller[m] = "start" /\ ~isClosed
  /\ caller' = [caller EXCEPT ![m] = "enqueue"]
  /\ UNCHANGED <<isClosed, connVars, conns, queueVars, invokeNum, sender, inHand,
                 recver, connDone, closeVars, history>>

\* ReConnect dials a connection and starts its two goroutines.
ReConnectDial(m) ==
  /\ caller[m] = "start" /\ isClosed /\ dialled < MaxConns
  /\ dialled' = dialled + 1 /\ cur' = dialled'
  /\ isClosed' = FALSE
  /\ conns' = [conns EXCEPT ![dialled'] = "open"]
  /\ sender' = [sender EXCEPT ![dialled'] = "top"]
  /\ recver' = [recver EXCEPT ![dialled'] = "read"]
  /\ caller' = [caller EXCEPT ![m] = "enqueue"]
  /\ UNCHANGED <<queueVars, invokeNum, inHand, connDone, closeVars, history>>

\* The dial fails: c.conn is nil now and Send returns the error.
ReConnectFails(m) ==
  /\ caller[m] = "start" /\ isClosed /\ Fault
  /\ cur' = 0
  /\ caller' = [caller EXCEPT ![m] = "err"]
  /\ UNCHANGED <<isClosed, dialled, conns, queueVars, invokeNum, sender, inHand, recver,
                 connDone, closeVars, writes, sentOn, replied, pushed>>

\* case tc.sendQueue <- sendMsg{req: req}
Enqueue(m) ==
  /\ caller[m] = "enqueue" /\ Len(sendQueue) < QueueLen
  /\ sendQueue' = Append(sendQueue, m)
  /\ caller' = [caller EXCEPT ![m] = "ok"]
  /\ UNCHANGED <<isClosed, connVars, conns, sendFailQueue, invokeNum, sender, inHand,
                 recver, connDone, closeVars, history>>

\* case <-timerC
EnqueueTimeout(m) ==
  /\ caller[m] = "enqueue"
  /\ caller' = [caller EXCEPT ![m] = "err"]
  /\ UNCHANGED <<isClosed, connVars, conns, queueVars, invokeNum, sender, inHand,
                 recver, connDone, closeVars, history>>

-------------------------------------------------------------------------------
(* connection.send *)

\* The top of the loop: a non-blocking look at connDone.
SenderTop(c) ==
  /\ sender[c] = "top"
  /\ sender' = [sender EXCEPT ![c] = IF connDone[c] = 1 THEN "done" ELSE "fetch"]
  /\ connDone' = [connDone EXCEPT ![c] = 0]
  /\ UNCHANGED <<isClosed, connVars, conns, queueVars, invokeNum, inHand, recver,
                 caller, closeVars, history>>

\* case m = <-c.tc.sendFailQueue, or default
SenderFetch(c) ==
  /\ sender[c] = "fetch"
  /\ IF sendFailQueue # <<>>
     THEN /\ inHand' = [inHand EXCEPT ![c] = Head(sendFailQueue)]
          /\ sendFailQueue' = Tail(sendFailQueue)
          /\ sender' = [sender EXCEPT ![c] = "count"]
     ELSE /\ sender' = [sender EXCEPT ![c] = "inner"]
          /\ UNCHANGED <<inHand, sendFailQueue>>
  /\ UNCHANGED <<isClosed, connVars, conns, sendQueue, invokeNum, recver, connDone,
                 caller, closeVars, history>>

\* case m = <-c.tc.sendQueue
SenderTake(c) ==
  /\ sender[c] = "inner" /\ sendQueue # <<>>
  /\ inHand' = [inHand EXCEPT ![c] = Head(sendQueue)]
  /\ sendQueue' = Tail(sendQueue)
  /\ sender' = [sender EXCEPT ![c] = "count"]
  /\ UNCHANGED <<isClosed, connVars, conns, sendFailQueue, invokeNum, recver, connDone,
                 caller, closeVars, history>>

\* Bug: the idle check does not look at invokeNum.
BugTick(c) ==
  /\ sender[c] = "inner"
  /\ \E pc \in IF isClosed THEN {"done"} ELSE {"close", "top"} :
       sender' = [sender EXCEPT ![c] = pc]
  /\ UNCHANGED <<isClosed, connVars, conns, queueVars, invokeNum, inHand, recver,
                 connDone, caller, closeVars, history>>

\* case <-t.C; IdleTimeout has passed or not.
SenderTick(c) ==
  /\ sender[c] = "inner"
  /\ \E pc \in IF isClosed THEN {"done"}
               ELSE IF invokeNum = 0 THEN {"close", "top"} ELSE {"top"} :
       sender' = [sender EXCEPT ![c] = pc]
  /\ UNCHANGED <<isClosed, connVars, conns, queueVars, invokeNum, inHand, recver,
                 connDone, caller, closeVars, history>>

\* Bug: the request is not counted.
BugCount(c) ==
  /\ sender[c] = "count"
  /\ sender' = [sender EXCEPT ![c] = "write"]
  /\ UNCHANGED <<isClosed, connVars, conns, queueVars, invokeNum, inHand, recver,
                 connDone, caller, closeVars, history>>

\* atomic.AddInt32(&c.invokeNum, 1)
SenderCount(c) ==
  /\ sender[c] = "count"
  /\ invokeNum' = invokeNum + 1
  /\ sender' = [sender EXCEPT ![c] = "write"]
  /\ UNCHANGED <<isClosed, connVars, conns, queueVars, inHand, recver, connDone, caller,
                 closeVars, history>>

\* conn.Write succeeds; what is written to a reset connection may be lost.
SenderWrite(c) ==
  /\ sender[c] = "write" /\ conns[c] \in {"open", "broken"}
  /\ writes' = [writes EXCEPT ![inHand[c]] = @ + 1]
  /\ sentOn' = [sentOn EXCEPT ![inHand[c]] = IF conns[c] = "open" THEN c ELSE 0]
  /\ inHand' = [inHand EXCEPT ![c] = NoMsg]
  /\ sender' = [sender EXCEPT ![c] = "top"]
  /\ UNCHANGED <<isClosed, connVars, conns, queueVars, invokeNum, recver, connDone,
                 caller, closeVars, replied, pushed, faults>>

\* Bug: a message that cannot be written is dropped.
BugWriteFails(c) ==
  /\ sender[c] = "write"
  /\ IF conns[c] = "open" THEN Fault ELSE UNCHANGED faults
  /\ sender' = [sender EXCEPT ![c] = "close"]
  /\ inHand' = [inHand EXCEPT ![c] = NoMsg]
  /\ UNCHANGED <<isClosed, connVars, conns, queueVars, invokeNum, recver, connDone,
                 caller, closeVars, writes, sentOn, replied, pushed>>

\* conn.Write fails: always on a closed connection, else by a fault.
SenderWriteFails(c) ==
  /\ sender[c] = "write"
  /\ IF conns[c] = "open" THEN Fault ELSE UNCHANGED faults
  /\ sender' = [sender EXCEPT ![c] = "fail"]
  /\ UNCHANGED <<isClosed, connVars, conns, queueVars, invokeNum, inHand, recver,
                 connDone, caller, closeVars, writes, sentOn, replied, pushed>>

\* c.tc.sendFailQueue <- m, a channel of capacity 1
SenderRequeue(c) ==
  /\ sender[c] = "fail" /\ Len(sendFailQueue) < 1
  /\ sendFailQueue' = Append(sendFailQueue, inHand[c])
  /\ inHand' = [inHand EXCEPT ![c] = NoMsg]
  /\ sender' = [sender EXCEPT ![c] = "close"]
  /\ UNCHANGED <<isClosed, connVars, conns, sendQueue, invokeNum, recver, connDone,
                 caller, closeVars, history>>

\* connection.close(conn), which does not look whether conn is the current one.
CloseConn(c) ==
  /\ isClosed' = TRUE
  /\ conns' = [conns EXCEPT ![c] = "closed"]

SenderClose(c) ==
  /\ sender[c] = "close"
  /\ CloseConn(c)
  /\ sender' = [sender EXCEPT ![c] = "done"]
  /\ UNCHANGED <<connVars, queueVars, invokeNum, inHand, recver, connDone, caller,
                 closeVars, history>>

SenderStep(c) ==
  \/ SenderTop(c) \/ SenderFetch(c) \/ SenderTake(c) \/ SenderTick(c) \/ SenderCount(c)
  \/ SenderWrite(c) \/ SenderWriteFails(c) \/ SenderRequeue(c) \/ SenderClose(c)

-------------------------------------------------------------------------------
(* connection.recv *)

\* A full package, the reply to m, is read and handed to cp.Recv.
RecvReply(c, m) ==
  /\ recver[c] = "read" /\ conns[c] # "closed"
  /\ sentOn[m] = c /\ m \notin replied \cup OneWay
  /\ invokeNum' = invokeNum - 1
  /\ replied' = replied \cup {m}
  /\ UNCHANGED <<isClosed, connVars, conns, queueVars, sender, inHand, recver, connDone,
                 caller, closeVars, writes, sentOn, pushed, faults>>

\* A full package that answers no request: a push or the server's close message.
RecvPush(c) ==
  /\ recver[c] = "read" /\ conns[c] = "open" /\ pushed < MaxPush
  /\ invokeNum' = invokeNum - 1
  /\ pushed' = pushed + 1
  /\ UNCHANGED <<isClosed, connVars, conns, queueVars, sender, inHand, recver, connDone,
                 caller, closeVars, writes, sentOn, replied, faults>>

\* Bug: every read error is taken for a read timeout.
BugRecvError(c) == recver[c] = "read" /\ UNCHANGED vars

\* conn.Read fails on a dead connection, or a package cannot be parsed.
RecvError(c) ==
  /\ recver[c] = "read"
  /\ IF conns[c] = "open" THEN Fault ELSE UNCHANGED faults
  /\ recver' = [recver EXCEPT ![c] = "close"]
  /\ UNCHANGED <<isClosed, connVars, conns, queueVars, invokeNum, sender, inHand,
                 connDone, caller, closeVars, writes, sentOn, replied, pushed>>

\* Bug: the receive loop closes the connection and does not mark it closed.
BugRecvClose(c) ==
  /\ recver[c] = "close"
  /\ conns' = [conns EXCEPT ![c] = "closed"]
  /\ recver' = [recver EXCEPT ![c] = "signal"]
  /\ UNCHANGED <<isClosed, connVars, queueVars, invokeNum, sender, inHand, connDone,
                 caller, closeVars, history>>

RecvClose(c) ==
  /\ recver[c] = "close"
  /\ CloseConn(c)
  /\ recver' = [recver EXCEPT ![c] = "signal"]
  /\ UNCHANGED <<connVars, queueVars, invokeNum, sender, inHand, connDone, caller,
                 closeVars, history>>

\* The deferred connDone <- true.
RecvSignal(c) ==
  /\ recver[c] = "signal" /\ connDone[c] < 1
  /\ connDone' = [connDone EXCEPT ![c] = 1]
  /\ recver' = [recver EXCEPT ![c] = "done"]
  /\ UNCHANGED <<isClosed, connVars, conns, queueVars, invokeNum, sender, inHand, caller,
                 closeVars, history>>

RecverStep(c) == RecvError(c) \/ RecvClose(c) \/ RecvSignal(c)

\* The server or the network resets the connection.
Reset(c) ==
  /\ conns[c] = "open" /\ Fault
  /\ conns' = [conns EXCEPT ![c] = "broken"]
  /\ UNCHANGED <<isClosed, connVars, queueVars, invokeNum, sender, inHand, recver,
                 connDone, caller, closeVars, writes, sentOn, replied, pushed>>

-------------------------------------------------------------------------------
(* Close and GraceClose *)

closerUnchanged == UNCHANGED <<connVars, queueVars, invokeNum, sender, inHand, recver,
                               connDone, caller, history>>

\* AdapterProxy.Close, when the endpoint has left the registry.
CallClose ==
  /\ closer = "idle" /\ MaxCloses > 0 /\ closer' = "check"
  /\ UNCHANGED <<isClosed, conns, found>> /\ closerUnchanged

\* AdapterProxy.onPush calls GraceClose on the server's close message.
CallGraceClose ==
  /\ closer = "idle" /\ MaxCloses > 0 /\ pushed > 0 /\ closer' = "grace"
  /\ UNCHANGED <<isClosed, conns, found>> /\ closerUnchanged

\* case <-tk.C: invokeNum is not positive and Close is called.
GraceTick ==
  /\ closer = "grace" /\ invokeNum <= 0 /\ closer' = "check"
  /\ UNCHANGED <<isClosed, conns, found>> /\ closerUnchanged

\* case <-ctx.Done()
GraceTimeout ==
  /\ closer = "grace" /\ closer' = "done"
  /\ UNCHANGED <<isClosed, conns, found>> /\ closerUnchanged

\* if !w.isClosed && w.conn != nil
CloseCheck ==
  /\ closer = "check"
  /\ closer' = IF ~isClosed /\ cur # 0 THEN "mark" ELSE "done"
  /\ found' = IF ~isClosed THEN cur ELSE 0
  /\ UNCHANGED <<isClosed, conns>> /\ closerUnchanged

\* w.isClosed = true
CloseMark ==
  /\ closer = "mark" /\ closer' = "shut"
  /\ isClosed' = TRUE
  /\ UNCHANGED <<conns, found>> /\ closerUnchanged

\* w.conn.Close(): w.conn is read again, and may be nil by now.
CloseShut ==
  /\ closer = "shut"
  /\ closer' = IF cur = 0 THEN "panic" ELSE "done"
  /\ conns' = [c \in Conns |-> IF c = cur THEN "closed" ELSE conns[c]]
  /\ UNCHANGED <<isClosed, found>> /\ closerUnchanged

CloserStep == GraceTimeout \/ CloseCheck \/ CloseMark \/ CloseShut

Next ==
  \/ \E m \in Msgs : \/ ReConnectNop(m) \/ ReConnectDial(m) \/ ReConnectFails(m)
                     \/ Enqueue(m) \/ EnqueueTimeout(m)
  \/ \E c \in Conns : \/ SenderStep(c) \/ RecverStep(c) \/ RecvPush(c) \/ Reset(c)
                      \/ \E m \in Msgs : RecvReply(c, m)
  \/ CallClose \/ CallGraceClose \/ GraceTick \/ CloserStep

Spec == Init /\ [][Next]_vars

(***************************************************************************)
(* Every goroutine that can take a step takes one: Go's scheduler does not *)
(* starve, tickers fire, and the select of lines 141-153 does not prefer   *)
(* the ticker for ever to a message that is there (SF).  Faults, pushes,   *)
(* replies and calls of Send, Close and GraceClose need not happen.        *)
(***************************************************************************)
Fairness ==
  /\ \A c \in Conns : /\ WF_vars(SenderStep(c)) /\ SF_vars(SenderTake(c))
                      /\ WF_vars(RecverStep(c) /\ faults' = faults)
  /\ \A m \in Msgs : WF_vars(Enqueue(m))
  /\ WF_vars(CloserStep)

FairSpec == Spec /\ Fairness
-------------------------------------------------------------------------------
TypeOK ==
  /\ isClosed \in BOOLEAN /\ cur \in 0..MaxConns /\ dialled \in 0..MaxConns
  /\ conns \in [Conns -> {"unused", "open", "broken", "closed"}]
  /\ sendQueue \in Seq(Msgs) /\ Len(sendQueue) <= QueueLen
  /\ sendFailQueue \in Seq(Msgs) /\ Len(sendFailQueue) <= 1
  /\ invokeNum \in Int
  /\ sender \in [Conns -> SenderPC] /\ inHand \in [Conns -> Msgs \cup {NoMsg}]
  /\ recver \in [Conns -> RecverPC] /\ connDone \in [Conns -> 0..1]
  /\ caller \in [Msgs -> CallerPC]
  /\ closer \in CloserPC /\ found \in 0..MaxConns
  /\ writes \in [Msgs -> Nat] /\ sentOn \in [Msgs -> 0..MaxConns]
  /\ replied \subseteq Msgs /\ pushed \in 0..MaxPush /\ faults \in 0..MaxFaults

\* While isClosed is false, Send may rely on the connection it finds: both
\* goroutines of the current connection are still there, so a message put in
\* sendQueue has a reader and an error of the connection will be noticed.
LiveLoops ==
  ~isClosed => /\ cur # 0
               /\ sender[cur] \notin {"off", "done"}
               /\ recver[cur] \in {"read", "close"}

\* Where an accepted message is while it waits to be written.
Places(m) ==
  {<<"queue", i>> : i \in {k \in DOMAIN sendQueue : sendQueue[k] = m}} \cup
  {<<"fail", i>> : i \in {k \in DOMAIN sendFailQueue : sendFailQueue[k] = m}} \cup
  {<<"sender", c>> : c \in {k \in Conns : inHand[k] = m}}

\* A message that Send accepted is held in exactly one place until it is
\* written, through any number of failed writes, and is written only once;
\* one that Send refused is never written.
MessageConserved ==
  \A m \in Msgs :
    Cardinality(Places(m)) + writes[m] = IF caller[m] = "ok" THEN 1 ELSE 0

\* Requests that the server has received and the client has no reply to.
Awaiting == {m \in Msgs \ (OneWay \cup replied) : sentOn[m] # 0}

\* invokeNum never misses a request without a reply by more than the pushes
\* that were counted as replies (lines 155 and 209): this is what the idle
\* check of line 148 and GraceClose rely on.
InvokeNumCovers == Cardinality(Awaiting) <= invokeNum + pushed

\* The idle check (line 148) does not close a connection on which a reply is
\* awaited, unless pushes have been counted as replies.
IdleCloseIsIdle ==
  [][\A c \in Conns :
       sender[c] = "inner" /\ sender'[c] = "close" /\ pushed = 0
       => \A m \in Awaiting : sentOn[m] # c]_vars

\* A dead connection does not stay in use: the receive loop marks it closed,
\* so that the next Send dials again.
DeadConnectionNoticed ==
  \A c \in Conns :
    (cur = c /\ conns[c] \in {"broken", "closed"}) ~> (isClosed \/ cur # c)

\* The goroutines of a closed connection end, except for a sender that finds
\* sendFailQueue full.
GoroutinesEnd ==
  \A c \in Conns :
    conns[c] = "closed" ~> recver[c] = "done" /\ sender[c] \in {"done", "fail"}

-------------------------------------------------------------------------------
(* What comments of the code say and the code does not do. *)

\* "GraceClose close client gracefully": it closes the connection only when
\* no reply is awaited on it.
GraceCloseWaits ==
  [][closer = "grace" /\ closer' = "check"
       => ~\E m \in Awaiting : conns[sentOn[m]] = "open"]_vars
===============================================================================
