-------------------------------- MODULE Invoke --------------------------------
(***************************************************************************)
(* The client side of a remote call: ServantProxy.genRequestID, TarsInvoke *)
(* and doInvoke, the keep-alive ping, and AdapterProxy.Recv, which gives   *)
(* the reply to the caller that waits for it.                              *)
(*                                                                         *)
(* Callers run concurrently and share msgID, queueLen and the adapter's    *)
(* resp map, all of them atomic.  Each reply is handled by a goroutine of  *)
(* its own.  The network loses, delays and reorders replies (a UDP         *)
(* client's also repeats them), and the server may push packages that      *)
(* carry request id 0.                                                     *)
(*                                                                         *)
(* What an adapter counts of its calls decides nothing here: the *)
(* and the goroutine that the reply to a probe starts to reset them        *)
(* (servant.go:263-269), are in EndpointManager.                           *)
(***************************************************************************)
EXTENDS Integers, FiniteSets

CONSTANTS
  Calls,        \* remote calls, one goroutine each
  OneWay,       \* calls with CPacketType TARSONEWAY
  Pings,        \* calls made by doKeepAlive: one-way, to a given adapter
  MaxInt,       \* maxInt32; msgID is an integer of -MaxInt-1..MaxInt
  FirstIds,     \* values that msgID may have when the calls begin
  ObjQueueMax,  \* Client.ObjQueueMax
  MaxCopies,    \* bound: how often the network delivers a reply
  None

ASSUME CallsAssumption == /\ IsFiniteSet(Calls) /\ None \notin Calls
                          /\ Pings \subseteq OneWay /\ OneWay \subseteq Calls
ASSUME NumbersAssumption == MaxInt \in Nat \ {0} /\ ObjQueueMax \in Nat /\ MaxCopies \in Nat
ASSUME FirstIdsAssumption == FirstIds \subseteq -MaxInt - 1 .. MaxInt

Ids == -MaxInt - 1 .. MaxInt
\* A package that reaches Recv: the n-th copy of the reply to a call, or a push.
Packets == Calls \X (1..MaxCopies)
Push == <<None, 0>>

VARIABLES
  msgID,        \* the package variable msgID
  pc,           \* where each call is
  id,           \* Req.IRequestId of each call
  resp,         \* AdapterProxy.resp: request id -> the call whose channel it holds
  queueLen,     \* ServantProxy.queueLen
  invokeNum,    \* endpointManager.invokeNum
  got,          \* the reply that a call received: the call it answers
  result,       \* what the call returned
  recv,         \* where the goroutine of each package is
  readCh        \* the channel it has loaded: the call that made it

vars == <<msgID, pc, id, resp, queueLen, invokeNum, got, result, recv, readCh>>

recvVars == <<recv, readCh>>

CallPC == {"cas", "add", "select", "check", "enter", "send", "wait", "leave", "delete",
           "post", "done"}
\* The steps between queueLen + 1 and queueLen - 1.
Inside == {"send", "wait", "leave"}
RecvPC == {"idle", "load", "deliver", "done"}
Results == {"none", "ok", "error", "timeout"}

-------------------------------------------------------------------------------
\* The process may have made any number of calls before.
Init ==
  /\ msgID \in FirstIds
  /\ pc = [c \in Calls |-> IF c \in Pings THEN "check" ELSE "cas"]
  /\ id = [c \in Calls |-> 0]
  /\ resp = [i \in Ids |-> None]
  /\ queueLen = 0 /\ invokeNum = 0
  /\ got = [c \in Calls |-> None]
  /\ result = [c \in Calls |-> "none"]
  /\ recv = [p \in Packets \cup {Push} |-> "idle"]
  /\ readCh = [p \in Packets \cup {Push} |-> None]

Goto(c, label) == pc' = [pc EXCEPT ![c] = label]

\* Addition of 1 in an int32.
Inc32(i) == IF i = MaxInt THEN -MaxInt - 1 ELSE i + 1

\* atomic.CompareAndSwapInt32(&msgID, maxInt32, 1)
GenCas(c) ==
  /\ pc[c] = "cas"
  /\ msgID' = IF msgID = MaxInt THEN 1 ELSE msgID
  /\ Goto(c, "add")
  /\ UNCHANGED <<id, resp, queueLen, invokeNum, got, result, recvVars>>

\* Bug: 0 is handed out as a request id.
BugGenZero(c) ==
  /\ pc[c] = "add"
  /\ msgID' = Inc32(msgID)
  /\ id' = [id EXCEPT ![c] = msgID'] /\ Goto(c, IF c \in Pings THEN "enter" ELSE "select")
  /\ UNCHANGED <<resp, queueLen, invokeNum, got, result, recvVars>>

\* Bug: msgID++ is not atomic, an update may be lost.
BugGenRace(c) ==
  /\ pc[c] = "add" /\ Inc32(msgID) # 0
  /\ msgID' \in {msgID, Inc32(msgID)}
  /\ id' = [id EXCEPT ![c] = Inc32(msgID)]
  /\ Goto(c, IF c \in Pings THEN "enter" ELSE "select")
  /\ UNCHANGED <<resp, queueLen, invokeNum, got, result, recvVars>>

\* One turn of the loop: atomic.AddInt32(&msgID, 1), again if the result is 0.
GenAdd(c) ==
  /\ pc[c] = "add"
  /\ msgID' = Inc32(msgID)
  /\ IF msgID' = 0
     THEN UNCHANGED <<id, pc>>
     ELSE /\ id' = [id EXCEPT ![c] = msgID']
          /\ Goto(c, IF c \in Pings THEN "enter" ELSE "select")
  /\ UNCHANGED <<resp, queueLen, invokeNum, got, result, recvVars>>

\* s.manager.preInvoke(); SelectAdapterProxy returns the adapter, or nil and
\* doInvoke an error.
Select(c) ==
  /\ pc[c] = "select"
  /\ invokeNum' = invokeNum + 1
  /\ \/ Goto(c, "check") /\ UNCHANGED result
     \/ Goto(c, "post") /\ result' = [result EXCEPT ![c] = "error"]
  /\ UNCHANGED <<msgID, id, resp, queueLen, got, recvVars>>

\* if s.queueLen > ObjQueueMax: a call fails, a ping is left out.
CheckQueue(c) ==
  /\ pc[c] = "check"
  /\ IF queueLen > ObjQueueMax
     THEN /\ Goto(c, IF c \in Pings THEN "done" ELSE "post")
          /\ result' = [result EXCEPT ![c] = "error"]
     ELSE /\ Goto(c, IF c \in Pings THEN "cas" ELSE "enter")
          /\ UNCHANGED result
  /\ UNCHANGED <<msgID, id, resp, queueLen, invokeNum, got, recvVars>>

\* atomic.AddInt32(&s.queueLen, 1); a call also stores its channel in resp.
Enter(c) ==
  /\ pc[c] = "enter" /\ Goto(c, "send")
  /\ queueLen' = queueLen + 1
  /\ resp' = IF c \in Pings THEN resp ELSE [resp EXCEPT ![id[c]] = c]
  /\ UNCHANGED <<msgID, id, invokeNum, got, result, recvVars>>

\* Bug: the error return comes before the deferred clean-up is set up.
BugSendReturns(c) ==
  /\ pc[c] = "send"
  /\ result' = [result EXCEPT ![c] = "error"] /\ Goto(c, "post")
  /\ UNCHANGED <<msgID, id, resp, queueLen, invokeNum, got, recvVars>>

\* adp.Send fails, or a one-way call succeeds, or a call waits for its reply.
Send(c) ==
  /\ pc[c] = "send"
  /\ \/ result' = [result EXCEPT ![c] = "error"] /\ Goto(c, "leave")
     \/ c \in OneWay /\ result' = [result EXCEPT ![c] = "ok"] /\ Goto(c, "leave")
     \/ c \notin OneWay /\ Goto(c, "wait") /\ UNCHANGED result
  /\ UNCHANGED <<msgID, id, resp, queueLen, invokeNum, got, recvVars>>

\* Bug: the select has no timeout case.
BugTimeoutNever(c) == pc[c] = "wait" /\ UNCHANGED vars

\* case <-rtimer.After(timeout)
Timeout(c) ==
  /\ pc[c] = "wait" /\ Goto(c, "leave")
  /\ result' = [result EXCEPT ![c] = "timeout"]
  /\ UNCHANGED <<msgID, id, resp, queueLen, invokeNum, got, recvVars>>

\* case msg.Resp = <-readCh meets ch <- packet; the answer may be an error.
Deliver(p) ==
  /\ recv[p] = "deliver"
  /\ LET c == readCh[p] IN
       /\ pc[c] = "wait" /\ Goto(c, "leave")
       /\ got' = [got EXCEPT ![c] = p[1]]
       /\ \E r \in {"ok", "error"} : result' = [result EXCEPT ![c] = r]
  /\ recv' = [recv EXCEPT ![p] = "done"]
  /\ UNCHANGED <<msgID, id, resp, queueLen, invokeNum, readCh>>

\* The deferred function, in its two steps.
Leave(c) ==
  /\ pc[c] = "leave" /\ Goto(c, IF c \in Pings THEN "done" ELSE "delete")
  /\ queueLen' = queueLen - 1
  /\ UNCHANGED <<msgID, id, resp, invokeNum, got, result, recvVars>>

Delete(c) ==
  /\ pc[c] = "delete" /\ Goto(c, "post")
  /\ resp' = [resp EXCEPT ![id[c]] = None]
  /\ UNCHANGED <<msgID, id, queueLen, invokeNum, got, result, recvVars>>

\* s.manager.postInvoke()
PostInvoke(c) ==
  /\ pc[c] = "post" /\ Goto(c, "done")
  /\ invokeNum' = invokeNum - 1
  /\ UNCHANGED <<msgID, id, resp, queueLen, got, result, recvVars>>

-------------------------------------------------------------------------------
\* The transport hands a package to `go cp.Recv(pkg)`: a reply to a request
\* that was sent, whatever has become of its call, or a push.
Arrive(p) ==
  /\ recv[p] = "idle"
  /\ \/ p = Push
     \/ p[1] # None /\ pc[p[1]] \in {"wait", "leave", "delete", "post", "done"}
                    /\ id[p[1]] # 0
  /\ recv' = [recv EXCEPT ![p] = "load"]
  /\ UNCHANGED <<msgID, pc, id, resp, queueLen, invokeNum, got, result, readCh>>

\* Recv: id 0 is a push, a one-way reply is dropped, else the channel is looked up.
RecvLoad(p) ==
  /\ recv[p] = "load"
  /\ IF p = Push \/ p[1] \in OneWay
     THEN recv' = [recv EXCEPT ![p] = "done"] /\ UNCHANGED readCh
     ELSE LET ch == resp[id[p[1]]] IN
            /\ readCh' = [readCh EXCEPT ![p] = ch]
            /\ recv' = [recv EXCEPT ![p] = IF ch = None THEN "done" ELSE "deliver"]
  /\ UNCHANGED <<msgID, pc, id, resp, queueLen, invokeNum, got, result>>

\* case <-rtimer.After(c.conf.ReadTimeout)
RecvTimeout(p) ==
  /\ recv[p] = "deliver"
  /\ recv' = [recv EXCEPT ![p] = "done"]
  /\ UNCHANGED <<msgID, pc, id, resp, queueLen, invokeNum, got, result, readCh>>

CallStep(c) ==
  \/ GenCas(c) \/ GenAdd(c) \/ Select(c) \/ CheckQueue(c) \/ Enter(c) \/ Send(c)
  \/ Timeout(c) \/ Leave(c) \/ Delete(c) \/ PostInvoke(c)
RecvStep(p) == RecvLoad(p) \/ RecvTimeout(p) \/ Deliver(p)

Next ==
  \/ \E c \in Calls : CallStep(c)
  \/ \E p \in Packets \cup {Push} : Arrive(p) \/ RecvStep(p)

Spec == Init /\ [][Next]_vars

\* Goroutines run and timers fire; the network need not deliver anything.
Fairness == /\ \A c \in Calls : WF_vars(CallStep(c))
            /\ \A p \in Packets \cup {Push} : WF_vars(RecvStep(p))

FairSpec == Spec /\ Fairness

-------------------------------------------------------------------------------
TypeOK ==
  /\ msgID \in Ids /\ pc \in [Calls -> CallPC] /\ id \in [Calls -> Ids]
  /\ resp \in [Ids -> Calls \cup {None}]
  /\ queueLen \in Int /\ invokeNum \in Int
  /\ got \in [Calls -> Calls \cup {None}] /\ result \in [Calls -> Results]
  /\ recv \in [Packets \cup {Push} -> RecvPC]
  /\ readCh \in [Packets \cup {Push} -> Calls \cup {None}]

\* A call gets the reply to its own request or none, whatever replies are late or out
\* of order, and across the overflow of msgID; and it succeeds only with that reply.
ReplyMatches ==
  \A c \in Calls :
    /\ got[c] \in {None, c}
    /\ result[c] = "ok" => got[c] = c \/ c \in OneWay

\* Calls under way have different request ids, and none has the id 0 that
\* marks a push (genRequestID, also when msgID overflows concurrently).
RequestIdsDistinct ==
  \A c \in Calls : pc[c] \in {"select", "enter", "delete"} \cup Inside =>
    /\ id[c] # 0
    /\ \A d \in Calls \ {c} : pc[d] \in Inside => id[c] # id[d]

\* queueLen and invokeNum count the calls that are inside, and the resp map holds the
\* calls that can still get a reply, each under its own id: nothing leaks, on any path out.
NothingLeaks ==
  /\ TypeOK
  /\ queueLen = Cardinality({c \in Calls : pc[c] \in Inside})
  /\ invokeNum = Cardinality({c \in Calls \ Pings :
                                pc[c] \notin {"cas", "add", "select", "done"}})
  /\ \A i \in Ids : resp[i] # None =>
       id[resp[i]] = i /\ pc[resp[i]] \in {"send", "wait", "leave", "delete"}

\* Every call returns, though no reply need ever arrive.
CallsReturn == \A c \in Calls : pc[c] = "cas" ~> pc[c] = "done"

\* The goroutine of every package ends, also of a reply nobody waits for.
RecvEnds == \A p \in Packets \cup {Push} : recv[p] # "idle" ~> recv[p] = "done"
===============================================================================
