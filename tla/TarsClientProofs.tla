--------------------------- MODULE TarsClientProofs ---------------------------
(***************************************************************************)
(* Proofs about TarsClient for any set of requests, any queue length and   *)
(* any bound on connections, faults and pushes.                            *)
(***************************************************************************)
EXTENDS TarsClient, FiniteSetTheorems, TLAPS

\* A sender holds a message exactly between taking it and getting rid of it.
HandsFull ==
  \A c \in Conns : inHand[c] # NoMsg <=> sender[c] \in {"count", "write", "fail"}

\* Goroutines exist for the dialled connections; the current connection, if
\* there is one, is the one dialled last; and a connection whose goroutines
\* have begun to end has been marked closed.
ConnLife ==
  /\ cur \in {0, dialled}
  /\ \A c \in Conns : c > dialled => /\ sender[c] = "off" /\ recver[c] = "off"
                                     /\ connDone[c] = 0
  /\ \A c \in Conns : c <= dialled => sender[c] # "off" /\ recver[c] # "off"
  /\ ~isClosed => /\ cur = dialled /\ dialled # 0
                  /\ sender[dialled] # "done"
                  /\ recver[dialled] \in {"read", "close"}
                  /\ connDone[dialled] = 0

IInv == TypeOK /\ HandsFull /\ ConnLife

LEMMA InitIInv == Init => IInv
BY BoundsAssumption, QueueLenAssumption
DEF Init, IInv, TypeOK, HandsFull, ConnLife, Conns, SenderPC, RecverPC, CallerPC, CloserPC

LEMMA NextIInv == IInv /\ [Next]_vars => IInv'
<1> SUFFICES ASSUME IInv, [Next]_vars PROVE IInv'
  OBVIOUS
<1> USE BoundsAssumption, QueueLenAssumption, MsgsAssumption
    DEF IInv, TypeOK, HandsFull, ConnLife, Conns, SenderPC, RecverPC, CallerPC, CloserPC,
        Fault, CloseConn, connVars, queueVars, history, closeVars, closerUnchanged
<1>1. ASSUME NEW m \in Msgs, ReConnectNop(m) PROVE IInv'
  BY <1>1 DEF ReConnectNop
<1>2. ASSUME NEW m \in Msgs, ReConnectDial(m) PROVE IInv'
  <2> DEFINE d == dialled + 1
  <2>1. /\ d \in Conns /\ d \in 0..MaxConns
        /\ dialled' = d /\ cur' = d /\ isClosed' = FALSE
        /\ conns' = [conns EXCEPT ![d] = "open"]
        /\ sender' = [sender EXCEPT ![d] = "top"]
        /\ recver' = [recver EXCEPT ![d] = "read"]
        /\ caller' = [caller EXCEPT ![m] = "enqueue"]
        /\ UNCHANGED <<queueVars, invokeNum, inHand, connDone, closeVars, history>>
    BY <1>2 DEF ReConnectDial
  <2> HIDE DEF d
  <2>2. TypeOK'
    BY <2>1
  <2>3. HandsFull'
    BY <1>2 DEF ReConnectDial
  <2>4. ConnLife'
    BY <1>2 DEF ReConnectDial
  <2> QED BY <2>2, <2>3, <2>4
<1>3. ASSUME NEW m \in Msgs, ReConnectFails(m) PROVE IInv'
  BY <1>3 DEF ReConnectFails
<1>4. ASSUME NEW m \in Msgs, Enqueue(m) PROVE IInv'
  <2>1. sendQueue' \in Seq(Msgs) /\ Len(sendQueue') <= QueueLen
    BY <1>4 DEF Enqueue
  <2>2. TypeOK'
    BY <1>4, <2>1 DEF Enqueue
  <2>3. HandsFull'
    BY <1>4, <2>1 DEF Enqueue
  <2>4. ConnLife'
    BY <1>4 DEF Enqueue
  <2> QED BY <2>2, <2>3, <2>4
<1>5. ASSUME NEW m \in Msgs, EnqueueTimeout(m) PROVE IInv'
  BY <1>5 DEF EnqueueTimeout
<1>6. ASSUME NEW c \in Conns, SenderTop(c) PROVE IInv'
  <2>2. TypeOK'
    BY <1>6 DEF SenderTop
  <2>3. HandsFull'
    BY <1>6 DEF SenderTop
  <2>4. ConnLife'
    BY <1>6 DEF SenderTop
  <2> QED BY <2>2, <2>3, <2>4
<1>7. ASSUME NEW c \in Conns, SenderFetch(c) PROVE IInv'
  <2>1. CASE sendFailQueue = <<>>
    <3>1. /\ sender[c] = "fetch" /\ sender' = [sender EXCEPT ![c] = "inner"]
          /\ UNCHANGED <<isClosed, connVars, conns, queueVars, invokeNum, inHand, recver,
                         connDone, caller, closeVars, history>>
      BY <1>7, <2>1 DEF SenderFetch
    <3>2. TypeOK'
      BY <3>1
    <3>3. HandsFull'
      BY <3>1
    <3>4. /\ sender[c] = "fetch" /\ sender' = [sender EXCEPT ![c] = "inner"]
          /\ UNCHANGED <<isClosed, connVars, recver, connDone>>
      BY <3>1
    <3>5. ConnLife'
      BY <3>4
    <3> QED BY <3>2, <3>3, <3>5
  <2>2. CASE sendFailQueue # <<>>
    <3>1. /\ Head(sendFailQueue) \in Msgs
          /\ Tail(sendFailQueue) \in Seq(Msgs) /\ Len(Tail(sendFailQueue)) <= 1
      BY <2>2
    <3>2. /\ sendFailQueue' = Tail(sendFailQueue)
          /\ inHand' = [inHand EXCEPT ![c] = Head(sendFailQueue)]
          /\ sender[c] = "fetch" /\ sender' = [sender EXCEPT ![c] = "count"]
          /\ UNCHANGED <<isClosed, connVars, conns, sendQueue, invokeNum, recver,
                         connDone, caller, closeVars, history>>
      BY <1>7, <2>2 DEF SenderFetch
    <3>3. TypeOK'
      BY <3>1, <3>2
    <3>4. HandsFull'
      BY <3>1, <3>2
    <3>5. /\ sender[c] = "fetch" /\ sender' = [sender EXCEPT ![c] = "count"]
          /\ UNCHANGED <<isClosed, connVars, recver, connDone>>
      BY <3>2
    <3>6. ConnLife'
      BY <3>5
    <3> QED BY <3>3, <3>4, <3>6
  <2> QED BY <2>1, <2>2
<1>8. ASSUME NEW c \in Conns, SenderTake(c) PROVE IInv'
  <2>1. sendQueue' \in Seq(Msgs) /\ Len(sendQueue') <= QueueLen /\ Head(sendQueue) \in Msgs
    BY <1>8 DEF SenderTake
  <2>2. TypeOK'
    BY <1>8, <2>1 DEF SenderTake
  <2>3. HandsFull'
    BY <1>8, <2>1 DEF SenderTake
  <2>4. ConnLife'
    BY <1>8 DEF SenderTake
  <2> QED BY <2>2, <2>3, <2>4
<1>9. ASSUME NEW c \in Conns, SenderTick(c) PROVE IInv'
  BY <1>9 DEF SenderTick
<1>10. ASSUME NEW c \in Conns, SenderCount(c) PROVE IInv'
  BY <1>10 DEF SenderCount
<1>11. ASSUME NEW c \in Conns, SenderWrite(c) PROVE IInv'
  BY <1>11 DEF SenderWrite
<1>12. ASSUME NEW c \in Conns, SenderWriteFails(c) PROVE IInv'
  BY <1>12 DEF SenderWriteFails
<1>13. ASSUME NEW c \in Conns, SenderRequeue(c) PROVE IInv'
  <2>1. sendFailQueue' \in Seq(Msgs) /\ Len(sendFailQueue') <= 1
    BY <1>13 DEF SenderRequeue
  <2>2. TypeOK'
    BY <1>13, <2>1 DEF SenderRequeue
  <2>3. HandsFull'
    BY <1>13, <2>1 DEF SenderRequeue
  <2>4. /\ sender[c] = "fail" /\ sender' = [sender EXCEPT ![c] = "close"]
        /\ UNCHANGED <<isClosed, connVars, recver, connDone>>
    BY <1>13 DEF SenderRequeue
  <2>5. ConnLife'
    BY <2>4
  <2> QED BY <2>2, <2>3, <2>5
<1>14. ASSUME NEW c \in Conns, SenderClose(c) PROVE IInv'
  BY <1>14 DEF SenderClose
<1>15. ASSUME NEW c \in Conns, NEW m \in Msgs, RecvReply(c, m) PROVE IInv'
  BY <1>15 DEF RecvReply
<1>16. ASSUME NEW c \in Conns, RecvPush(c) PROVE IInv'
  BY <1>16 DEF RecvPush
<1>17. ASSUME NEW c \in Conns, RecvError(c) PROVE IInv'
  BY <1>17 DEF RecvError
<1>18. ASSUME NEW c \in Conns, RecvClose(c) PROVE IInv'
  BY <1>18 DEF RecvClose
<1>19. ASSUME NEW c \in Conns, RecvSignal(c) PROVE IInv'
  BY <1>19 DEF RecvSignal
<1>20. ASSUME NEW c \in Conns, Reset(c) PROVE IInv'
  BY <1>20 DEF Reset
<1>21. CASE CallClose \/ CallGraceClose \/ GraceTick \/ GraceTimeout
  <2>2. TypeOK'
    BY <1>21 DEF CallClose, CallGraceClose, GraceTick, GraceTimeout
  <2>3. HandsFull'
    BY <1>21 DEF CallClose, CallGraceClose, GraceTick, GraceTimeout
  <2>4. ConnLife'
    BY <1>21 DEF CallClose, CallGraceClose, GraceTick, GraceTimeout
  <2> QED BY <2>2, <2>3, <2>4
<1>22. CASE CloseCheck \/ CloseMark
  <2>1. CASE CloseCheck
    BY <2>1 DEF CloseCheck
  <2>2. CASE CloseMark
    BY <2>2 DEF CloseMark
  <2> QED BY <1>22, <2>1, <2>2
<1>23. CASE CloseShut
  BY <1>23 DEF CloseShut
<1>24. CASE UNCHANGED vars
  BY <1>24 DEF vars
<1> QED
  BY <1>1, <1>2, <1>3, <1>4, <1>5, <1>6, <1>7, <1>8, <1>9, <1>10, <1>11, <1>12, <1>13,
     <1>14, <1>15, <1>16, <1>17, <1>18, <1>19, <1>20, <1>21, <1>22, <1>23, <1>24
  DEF Next, SenderStep, RecverStep, CloserStep

\* The inductive invariant: hands and the life of the connections.
THEOREM Invariance == Spec => []IInv
<1> QED
  BY InitIInv, NextIInv, PTL DEF Spec

\* The client's variables keep their types and the queues their capacities.
THEOREM TypeCorrect == Spec => []TypeOK
<1>1. IInv => TypeOK
  BY DEF IInv
<1> QED
  BY Invariance, <1>1, PTL

\* An open client has both goroutines of its current connection (ReConnect,
\* close, Close, send, recv), through any number of reconnections.
THEOREM OpenClientHasLoops == Spec => []LiveLoops
<1>1. IInv => LiveLoops
  <2> SUFFICES ASSUME IInv, ~isClosed
               PROVE  /\ cur # 0
                      /\ sender[cur] \notin {"off", "done"}
                      /\ recver[cur] \in {"read", "close"}
    BY DEF LiveLoops
  <2>1. cur \in Conns /\ cur = dialled
    BY BoundsAssumption DEF IInv, ConnLife, TypeOK, Conns
  <2> QED
    BY <2>1 DEF IInv, ConnLife, Conns
<1> QED
  BY Invariance, <1>1, PTL

-------------------------------------------------------------------------------
\* Senders that have counted their message and not yet written it.
Writing == {c \in Conns : sender[c] = "write"}

\* The strengthening of InvokeNumCovers: line 155 counts before line 160 writes.
Covered == Cardinality(Awaiting) + Cardinality(Writing) <= invokeNum + pushed

LEMMA FiniteParts ==
  /\ IsFiniteSet(Awaiting) /\ IsFiniteSet(Writing)
  /\ Cardinality(Awaiting) \in Nat /\ Cardinality(Writing) \in Nat
<1>1. Awaiting \subseteq Msgs /\ Writing \subseteq Conns
  BY DEF Awaiting, Writing
<1>2. IsFiniteSet(Conns) /\ IsFiniteSet(Msgs)
  BY FS_Interval, BoundsAssumption, MsgsAssumption DEF Conns
<1>3. IsFiniteSet(Awaiting) /\ IsFiniteSet(Writing)
  BY <1>1, <1>2, FS_Subset
<1> QED
  BY <1>3, FS_CardinalityType

\* A step that leaves both sets and both counters alone.
LEMMA CoveredFrame ==
  ASSUME Covered, Awaiting' = Awaiting, Writing' = Writing,
         invokeNum' = invokeNum, pushed' = pushed
  PROVE  Covered'
BY DEF Covered

LEMMA NextCovered == IInv /\ Covered /\ [Next]_vars => Covered'
<1> SUFFICES ASSUME IInv, Covered, [Next]_vars PROVE Covered'
  OBVIOUS
<1> USE DEF IInv, TypeOK
<1>a. /\ IsFiniteSet(Awaiting) /\ IsFiniteSet(Writing)
      /\ Cardinality(Awaiting) \in Nat /\ Cardinality(Writing) \in Nat
  BY FiniteParts
<1>1. ASSUME NEW c \in Conns, SenderCount(c) PROVE Covered'
  <2>1. Writing' = Writing \cup {c} /\ c \notin Writing
    BY <1>1 DEF SenderCount, Writing
  <2>2. Awaiting' = Awaiting
    BY <1>1 DEF SenderCount, Awaiting, history
  <2>3. Cardinality(Writing') = Cardinality(Writing) + 1
    BY <2>1, <1>a, FS_AddElement
  <2>4. invokeNum' = invokeNum + 1 /\ pushed' = pushed
    BY <1>1 DEF SenderCount, history
  <2> QED BY <2>2, <2>3, <2>4, <1>a DEF Covered
<1>2. ASSUME NEW c \in Conns, SenderWrite(c) PROVE Covered'
  <2> DEFINE m == inHand[c]
  <2>1. Writing' = Writing \ {c} /\ c \in Writing
    BY <1>2 DEF SenderWrite, Writing
  <2>2. Cardinality(Writing') = Cardinality(Writing) - 1
    BY <2>1, <1>a, FS_RemoveElement
  <2>3. Awaiting' \subseteq Awaiting \cup {m}
    <3>1. /\ replied' = replied
          /\ \A x \in Msgs : x # m => sentOn'[x] = sentOn[x]
      BY <1>2 DEF SenderWrite
    <3> QED BY <3>1 DEF Awaiting
  <2>4. /\ IsFiniteSet(Awaiting \cup {m})
        /\ Cardinality(Awaiting \cup {m}) <= Cardinality(Awaiting) + 1
    <3> HIDE DEF m
    <3>1. /\ IsFiniteSet(Awaiting \cup {m})
          /\ Cardinality(Awaiting \cup {m}) =
               IF m \in Awaiting THEN Cardinality(Awaiting) ELSE Cardinality(Awaiting) + 1
      BY <1>a, FS_AddElement
    <3> QED BY <3>1, <1>a
  <2>5. /\ Cardinality(Awaiting') \in Nat
        /\ Cardinality(Awaiting') <= Cardinality(Awaiting) + 1
    <3>1. IsFiniteSet(Awaiting') /\ Cardinality(Awaiting') <= Cardinality(Awaiting \cup {m})
      BY <2>3, <2>4, FS_Subset
    <3>2. Cardinality(Awaiting') \in Nat /\ Cardinality(Awaiting \cup {m}) \in Nat
      BY <3>1, <2>4, FS_CardinalityType
    <3> QED BY <3>1, <3>2, <2>4, <1>a
  <2>6. invokeNum' = invokeNum /\ pushed' = pushed
    BY <1>2 DEF SenderWrite
  <2> QED BY <2>2, <2>5, <2>6, <1>a DEF Covered
<1>3. ASSUME NEW c \in Conns, SenderWriteFails(c) PROVE Covered'
  <2>1. Writing' = Writing \ {c} /\ c \in Writing
    BY <1>3 DEF SenderWriteFails, Writing
  <2>2. Cardinality(Writing') = Cardinality(Writing) - 1
    BY <2>1, <1>a, FS_RemoveElement
  <2>3. Awaiting' = Awaiting /\ invokeNum' = invokeNum /\ pushed' = pushed
    BY <1>3 DEF SenderWriteFails, Awaiting
  <2> QED BY <2>2, <2>3, <1>a DEF Covered
<1>4. ASSUME NEW c \in Conns, NEW m \in Msgs, RecvReply(c, m) PROVE Covered'
  <2>1. Awaiting' = Awaiting \ {m} /\ m \in Awaiting
    BY <1>4 DEF RecvReply, Awaiting, Conns
  <2>2. Cardinality(Awaiting') = Cardinality(Awaiting) - 1
    BY <2>1, <1>a, FS_RemoveElement
  <2>3. Writing' = Writing
    BY <1>4 DEF RecvReply, Writing
  <2>4. invokeNum' = invokeNum - 1 /\ pushed' = pushed
    BY <1>4 DEF RecvReply
  <2> QED BY <2>2, <2>3, <2>4, <1>a DEF Covered
<1>5. ASSUME NEW c \in Conns, RecvPush(c) PROVE Covered'
  <2>1. Awaiting' = Awaiting /\ Writing' = Writing
    BY <1>5 DEF RecvPush, Awaiting, Writing
  <2>2. invokeNum' = invokeNum - 1 /\ pushed' = pushed + 1
    BY <1>5 DEF RecvPush
  <2> QED BY <2>1, <2>2, <1>a DEF Covered
<1>6. ASSUME NEW m \in Msgs,
             \/ ReConnectNop(m) \/ ReConnectDial(m) \/ ReConnectFails(m)
             \/ Enqueue(m) \/ EnqueueTimeout(m)
      PROVE  Covered'
  <2>1. Awaiting' = Awaiting /\ invokeNum' = invokeNum /\ pushed' = pushed
    BY <1>6 DEF ReConnectNop, ReConnectDial, ReConnectFails, Enqueue, EnqueueTimeout,
                Awaiting, history
  <2>2. CASE ReConnectDial(m)
    <3>1. dialled + 1 \in Conns /\ sender' = [sender EXCEPT ![dialled + 1] = "top"]
      BY <2>2, BoundsAssumption DEF ReConnectDial, Conns
    <3>2. sender[dialled + 1] = "off"
      BY <3>1 DEF ConnLife
    <3>3. Writing' = Writing
      BY <3>1, <3>2 DEF Writing
    <3> QED BY <2>1, <3>3, CoveredFrame
  <2>3. CASE ~ReConnectDial(m)
    <3>1. Writing' = Writing
      BY <1>6, <2>3 DEF ReConnectNop, ReConnectFails, Enqueue, EnqueueTimeout, Writing
    <3> QED BY <2>1, <3>1, CoveredFrame
  <2> QED BY <2>2, <2>3
<1>7. ASSUME NEW c \in Conns,
             SenderTop(c) \/ SenderFetch(c) \/ SenderTake(c) \/ SenderTick(c)
             \/ SenderRequeue(c) \/ SenderClose(c)
      PROVE  Covered'
  <2>1. Awaiting' = Awaiting /\ invokeNum' = invokeNum /\ pushed' = pushed
    BY <1>7 DEF SenderTop, SenderFetch, SenderTake, SenderTick, SenderRequeue,
                SenderClose, Awaiting, history
  <2>2. \E pc \in SenderPC \ {"write"} :
          sender[c] # "write" /\ sender' = [sender EXCEPT ![c] = pc]
    BY <1>7 DEF SenderTop, SenderFetch, SenderTake, SenderTick, SenderRequeue,
                SenderClose, SenderPC
  <2>3. Writing' = Writing
    BY <2>2 DEF Writing
  <2> QED BY <2>1, <2>3, CoveredFrame
<1>8. ASSUME NEW c \in Conns, RecverStep(c) \/ Reset(c) PROVE Covered'
  <2>1. /\ Awaiting' = Awaiting /\ Writing' = Writing
        /\ invokeNum' = invokeNum /\ pushed' = pushed
    BY <1>8 DEF RecverStep, RecvError, RecvClose, RecvSignal, Reset, Awaiting, Writing,
                history
  <2> QED BY <2>1, CoveredFrame
<1>9. CASE CallClose \/ CallGraceClose \/ GraceTick \/ CloserStep
  <2>1. /\ Awaiting' = Awaiting /\ Writing' = Writing
        /\ invokeNum' = invokeNum /\ pushed' = pushed
    BY <1>9 DEF CallClose, CallGraceClose, GraceTick, CloserStep, GraceTimeout,
                CloseCheck, CloseMark, CloseShut, closerUnchanged, Awaiting, Writing,
                history
  <2> QED BY <2>1, CoveredFrame
<1>10. CASE UNCHANGED vars
  <2>1. /\ Awaiting' = Awaiting /\ Writing' = Writing
        /\ invokeNum' = invokeNum /\ pushed' = pushed
    BY <1>10 DEF vars, Awaiting, Writing
  <2> QED BY <2>1, CoveredFrame
<1> QED
  BY <1>1, <1>2, <1>3, <1>4, <1>5, <1>6, <1>7, <1>8, <1>9, <1>10 DEF Next, SenderStep

LEMMA InitCovered == Init => Covered
<1> SUFFICES ASSUME Init PROVE Covered
  OBVIOUS
<1>1. Awaiting = {} /\ Writing = {}
  BY DEF Init, Awaiting, Writing
<1> QED
  BY <1>1, FS_EmptySet DEF Init, Covered

\* invokeNum accounts for every reply that is awaited, up to the pushes read
\* (send line 155, recv line 209), on all connections together.
THEOREM InvokeNumAccounts == Spec => []InvokeNumCovers
<1>1. IInv /\ Covered => InvokeNumCovers
  BY FiniteParts DEF Covered, InvokeNumCovers, IInv, TypeOK
<1> QED
  BY Invariance, NextCovered, InitCovered, <1>1, PTL DEF Spec

-------------------------------------------------------------------------------
In(q, x) == \E i \in DOMAIN q : q[i] = x
OneEach(q) == \A i, k \in DOMAIN q : q[i] = q[k] => i = k

LEMMA AppendMembers ==
  ASSUME NEW S, NEW q \in Seq(S), NEW x \in S
  PROVE  /\ \A y : In(Append(q, x), y) <=> In(q, y) \/ y = x
         /\ OneEach(q) /\ ~In(q, x) => OneEach(Append(q, x))
<1> DEFINE n == Len(q)
           r == Append(q, x)
<1>1. /\ n \in Nat /\ DOMAIN q = 1..n /\ DOMAIN r = 1..n + 1 /\ r[n + 1] = x
      /\ \A i \in 1..n : r[i] = q[i]
  OBVIOUS
<1>2. \A i \in 1..n + 1 : i = n + 1 \/ i \in 1..n
  BY <1>1
<1>3. n + 1 \in 1..n + 1 /\ \A i \in 1..n : i \in 1..n + 1
  BY <1>1
<1> HIDE DEF n, r
<1>4. \A y : In(r, y) <=> In(q, y) \/ y = x
  BY <1>1, <1>2, <1>3 DEF In
<1>5. ASSUME OneEach(q), ~In(q, x) PROVE OneEach(r)
  BY <1>1, <1>2, <1>5 DEF In, OneEach
<1> QED
  BY <1>4, <1>5 DEF r

LEMMA TailMembers ==
  ASSUME NEW S, NEW q \in Seq(S), q # <<>>, OneEach(q)
  PROVE  /\ Head(q) \in S /\ In(q, Head(q)) /\ OneEach(Tail(q))
         /\ \A y : In(Tail(q), y) <=> In(q, y) /\ y # Head(q)
<1> DEFINE n == Len(q)
           h == Head(q)
           t == Tail(q)
<1>1. /\ n \in Nat \ {0} /\ DOMAIN q = 1..n /\ DOMAIN t = 1..n - 1 /\ h = q[1] /\ h \in S
      /\ \A i \in 1..n - 1 : t[i] = q[i + 1]
  OBVIOUS
<1>2. /\ 1 \in 1..n /\ \A i \in 1..n - 1 : i + 1 \in 1..n /\ i + 1 # 1
      /\ \A i \in 1..n : i # 1 => i - 1 \in 1..n - 1 /\ (i - 1) + 1 = i
      /\ \A i, k \in 1..n - 1 : i + 1 = k + 1 => i = k
  BY <1>1
<1> HIDE DEF n, h, t
<1>3. In(q, h)
  BY <1>1, <1>2 DEF In
<1>4. OneEach(t)
  <2>1. ASSUME NEW i \in 1..n - 1, NEW k \in 1..n - 1, t[i] = t[k] PROVE i = k
    <3>1. q[i + 1] = q[k + 1] /\ i + 1 \in DOMAIN q /\ k + 1 \in DOMAIN q
      BY <1>1, <1>2, <2>1
    <3>2. i + 1 = k + 1
      BY <3>1 DEF OneEach
    <3> QED BY <1>2, <3>2
  <2> QED BY <1>1, <2>1 DEF OneEach
<1>5. ASSUME NEW y PROVE In(t, y) <=> In(q, y) /\ y # h
  <2>1. ASSUME NEW i \in 1..n - 1, t[i] = y PROVE In(q, y) /\ y # h
    BY <1>1, <1>2, <2>1 DEF In, OneEach
  <2>2. ASSUME NEW i \in 1..n, q[i] = y, y # h PROVE In(t, y)
    <3>1. i - 1 \in 1..n - 1 /\ t[i - 1] = y
      BY <1>1, <1>2, <2>2
    <3> QED BY <1>1, <3>1 DEF In
  <2> QED BY <1>1, <2>1, <2>2 DEF In
<1> QED
  BY <1>1, <1>3, <1>4, <1>5 DEF h, t

-------------------------------------------------------------------------------
Held(m) == \E c \in Conns : inHand[c] = m
Waits(m) == In(sendQueue, m) \/ In(sendFailQueue, m) \/ Held(m)

\* MessageConserved without counting: the two queues and the senders hold
\* different messages, all of them accepted by Send and not written yet.
MessagesApart ==
  /\ OneEach(sendQueue) /\ OneEach(sendFailQueue)
  /\ \A c, d \in Conns : inHand[c] = inHand[d] /\ inHand[c] # NoMsg => c = d
  /\ \A m \in Msgs :
       /\ ~(In(sendQueue, m) /\ In(sendFailQueue, m))
       /\ ~(In(sendQueue, m) /\ Held(m)) /\ ~(In(sendFailQueue, m) /\ Held(m))
       /\ Waits(m) => caller[m] = "ok" /\ writes[m] = 0
       /\ caller[m] = "ok" => Waits(m) \/ writes[m] = 1
       /\ caller[m] # "ok" => writes[m] = 0

LEMMA NextApart == IInv /\ MessagesApart /\ [Next]_vars => MessagesApart'
<1> SUFFICES ASSUME IInv, MessagesApart, [Next]_vars PROVE MessagesApart'
  OBVIOUS
<1>t. /\ sendQueue \in Seq(Msgs) /\ sendFailQueue \in Seq(Msgs)
      /\ inHand \in [Conns -> Msgs \cup {NoMsg}] /\ NoMsg \notin Msgs
      /\ writes \in [Msgs -> Nat] /\ caller \in [Msgs -> CallerPC]
  BY MsgsAssumption DEF IInv, TypeOK
<1>a. MessagesApart
  OBVIOUS
<1>1. ASSUME NEW m \in Msgs, Enqueue(m) PROVE MessagesApart'
  <2>1. /\ sendQueue' = Append(sendQueue, m) /\ caller[m] = "enqueue"
        /\ caller' = [caller EXCEPT ![m] = "ok"]
        /\ UNCHANGED <<sendFailQueue, inHand, writes>>
    BY <1>1 DEF Enqueue, history
  <2>2. ~Waits(m) /\ writes[m] = 0
    BY <1>a, <2>1 DEF MessagesApart
  <2>3. /\ \A y \in Msgs : In(sendQueue, y)' <=> In(sendQueue, y) \/ y = m
        /\ OneEach(sendQueue)'
    BY <1>t, <1>a, <2>1, <2>2, AppendMembers DEF MessagesApart, Waits
  <2>4. \A y \in Msgs : /\ Held(y)' <=> Held(y)
                        /\ In(sendFailQueue, y)' <=> In(sendFailQueue, y)
    BY <2>1 DEF Held, In
  <2>5. OneEach(sendFailQueue)'
    BY <1>a, <2>1 DEF MessagesApart, OneEach
  <2> QED BY <1>t, <1>a, <2>1, <2>2, <2>3, <2>4, <2>5 DEF MessagesApart, Waits
<1>2. ASSUME NEW c \in Conns, SenderTake(c) PROVE MessagesApart'
  <2> DEFINE h == Head(sendQueue)
  <2>1. /\ sendQueue # <<>> /\ sendQueue' = Tail(sendQueue) /\ sender[c] = "inner"
        /\ inHand' = [inHand EXCEPT ![c] = h]
        /\ UNCHANGED <<sendFailQueue, caller, writes>>
    BY <1>2 DEF SenderTake, history
  <2>2. inHand[c] = NoMsg
    BY <2>1 DEF IInv, HandsFull
  <2>3. /\ h \in Msgs /\ In(sendQueue, h) /\ OneEach(sendQueue)'
        /\ \A y : In(sendQueue, y)' <=> In(sendQueue, y) /\ y # h
    BY <1>t, <1>a, <2>1, TailMembers DEF MessagesApart
  <2> HIDE DEF h
  <2>4. \A y \in Msgs : /\ Held(y)' <=> Held(y) \/ y = h
                        /\ In(sendFailQueue, y)' <=> In(sendFailQueue, y)
    BY <1>t, <2>1, <2>2 DEF Held, In
  <2>5. OneEach(sendFailQueue)'
    BY <1>a, <2>1 DEF MessagesApart, OneEach
  <2>6. \A d \in Conns : inHand[d] # h
    BY <1>a, <2>3 DEF MessagesApart, Held
  <2>7. (\A b, d \in Conns : inHand[b] = inHand[d] /\ inHand[b] # NoMsg => b = d)'
    BY <1>t, <1>a, <2>1, <2>6 DEF MessagesApart
  <2> QED BY <1>t, <1>a, <2>1, <2>3, <2>4, <2>5, <2>7 DEF MessagesApart, Waits
<1>3. ASSUME NEW c \in Conns, SenderFetch(c), sendFailQueue # <<>> PROVE MessagesApart'
  <2> DEFINE h == Head(sendFailQueue)
  <2>1. /\ sendFailQueue' = Tail(sendFailQueue) /\ sender[c] = "fetch"
        /\ inHand' = [inHand EXCEPT ![c] = h]
        /\ UNCHANGED <<sendQueue, caller, writes>>
    BY <1>3 DEF SenderFetch, history
  <2>2. inHand[c] = NoMsg
    BY <2>1 DEF IInv, HandsFull
  <2>3. /\ h \in Msgs /\ In(sendFailQueue, h) /\ OneEach(sendFailQueue)'
        /\ \A y : In(sendFailQueue, y)' <=> In(sendFailQueue, y) /\ y # h
    BY <1>t, <1>a, <1>3, <2>1, TailMembers DEF MessagesApart
  <2> HIDE DEF h
  <2>4. \A y \in Msgs : /\ Held(y)' <=> Held(y) \/ y = h
                        /\ In(sendQueue, y)' <=> In(sendQueue, y)
    BY <1>t, <2>1, <2>2 DEF Held, In
  <2>5. OneEach(sendQueue)'
    BY <1>a, <2>1 DEF MessagesApart, OneEach
  <2>6. \A d \in Conns : inHand[d] # h
    BY <1>a, <2>3 DEF MessagesApart, Held
  <2>7. (\A b, d \in Conns : inHand[b] = inHand[d] /\ inHand[b] # NoMsg => b = d)'
    BY <1>t, <1>a, <2>1, <2>6 DEF MessagesApart
  <2> QED BY <1>t, <1>a, <2>1, <2>3, <2>4, <2>5, <2>7 DEF MessagesApart, Waits
<1>4. ASSUME NEW c \in Conns, SenderWrite(c) PROVE MessagesApart'
  <2> PICK m \in Msgs : m = inHand[c]
    BY <1>t, <1>4 DEF SenderWrite, IInv, HandsFull
  <2>1. Held(m)
    BY DEF Held
  <2>2. writes[m] = 0
    BY <1>a, <2>1 DEF MessagesApart, Waits
  <2>3. /\ writes' = [writes EXCEPT ![m] = 1]
        /\ inHand' = [inHand EXCEPT ![c] = NoMsg]
        /\ UNCHANGED <<sendQueue, sendFailQueue, caller>>
    BY <1>t, <1>4, <2>2 DEF SenderWrite, queueVars
  <2>4. \A y \in Msgs : /\ Held(y)' <=> Held(y) /\ y # m
                        /\ In(sendQueue, y)' <=> In(sendQueue, y)
                        /\ In(sendFailQueue, y)' <=> In(sendFailQueue, y)
    BY <1>t, <1>a, <2>3 DEF Held, In, MessagesApart
  <2>5. OneEach(sendQueue)' /\ OneEach(sendFailQueue)'
    BY <1>a, <2>3 DEF MessagesApart, OneEach
  <2>6. (\A b, d \in Conns : inHand[b] = inHand[d] /\ inHand[b] # NoMsg => b = d)'
    BY <1>t, <1>a, <2>3 DEF MessagesApart
  <2> QED BY <1>t, <1>a, <2>1, <2>3, <2>4, <2>5, <2>6 DEF MessagesApart, Waits
<1>5. ASSUME NEW c \in Conns, SenderRequeue(c) PROVE MessagesApart'
  <2> PICK m \in Msgs : m = inHand[c]
    BY <1>t, <1>5 DEF SenderRequeue, IInv, HandsFull
  <2>1. Held(m)
    BY DEF Held
  <2>2. /\ sendFailQueue' = Append(sendFailQueue, m)
        /\ inHand' = [inHand EXCEPT ![c] = NoMsg]
        /\ UNCHANGED <<sendQueue, caller, writes>>
    BY <1>5 DEF SenderRequeue, history
  <2>3. /\ \A y \in Msgs : In(sendFailQueue, y)' <=> In(sendFailQueue, y) \/ y = m
        /\ OneEach(sendFailQueue)'
    BY <1>t, <1>a, <2>1, <2>2, AppendMembers DEF MessagesApart
  <2>4. \A y \in Msgs : /\ Held(y)' <=> Held(y) /\ y # m
                        /\ In(sendQueue, y)' <=> In(sendQueue, y)
    BY <1>t, <1>a, <2>2 DEF Held, In, MessagesApart
  <2>5. OneEach(sendQueue)'
    BY <1>a, <2>2 DEF MessagesApart, OneEach
  <2>6. (\A b, d \in Conns : inHand[b] = inHand[d] /\ inHand[b] # NoMsg => b = d)'
    BY <1>t, <1>a, <2>2 DEF MessagesApart
  <2> QED BY <1>t, <1>a, <2>1, <2>2, <2>3, <2>4, <2>5, <2>6 DEF MessagesApart, Waits
<1>6. CASE /\ UNCHANGED <<sendQueue, sendFailQueue, inHand, writes>>
           /\ \A m \in Msgs : caller'[m] = "ok" <=> caller[m] = "ok"
  BY <1>a, <1>6 DEF MessagesApart, Waits, In, Held, OneEach
<1>7. ASSUME NEW m \in Msgs, \/ ReConnectNop(m) \/ ReConnectDial(m) \/ ReConnectFails(m)
                             \/ EnqueueTimeout(m)
      PROVE  /\ UNCHANGED <<sendQueue, sendFailQueue, inHand, writes>>
             /\ \A x \in Msgs : caller'[x] = "ok" <=> caller[x] = "ok"
  BY <1>t, <1>7 DEF ReConnectNop, ReConnectDial, ReConnectFails, EnqueueTimeout, queueVars,
                    history
<1>8. ASSUME NEW c \in Conns,
             \/ SenderTop(c) \/ (SenderFetch(c) /\ sendFailQueue = <<>>) \/ SenderTick(c)
             \/ SenderCount(c) \/ SenderWriteFails(c) \/ SenderClose(c)
             \/ RecverStep(c) \/ RecvPush(c) \/ Reset(c)
             \/ \E m \in Msgs : RecvReply(c, m)
      PROVE  UNCHANGED <<sendQueue, sendFailQueue, inHand, writes, caller>>
  BY <1>8 DEF SenderTop, SenderFetch, SenderTick, SenderCount, SenderWriteFails, SenderClose,
              RecverStep, RecvError, RecvClose, RecvSignal, RecvPush, Reset, RecvReply,
              queueVars, history
<1>9. ASSUME CallClose \/ CallGraceClose \/ GraceTick \/ CloserStep \/ UNCHANGED vars
      PROVE  UNCHANGED <<sendQueue, sendFailQueue, inHand, writes, caller>>
  BY <1>9 DEF CallClose, CallGraceClose, GraceTick, CloserStep, GraceTimeout, CloseCheck,
              CloseMark, CloseShut, closerUnchanged, queueVars, history, vars
<1>10. UNCHANGED <<sendQueue, sendFailQueue, inHand, writes, caller>> => MessagesApart'
  BY <1>6
<1>11. CASE \E m \in Msgs : \/ ReConnectNop(m) \/ ReConnectDial(m) \/ ReConnectFails(m)
                            \/ Enqueue(m) \/ EnqueueTimeout(m)
  BY <1>1, <1>6, <1>7, <1>11
<1>12. CASE \E c \in Conns : \/ SenderStep(c) \/ RecverStep(c) \/ RecvPush(c) \/ Reset(c)
                             \/ \E m \in Msgs : RecvReply(c, m)
  <2> PICK c \in Conns : \/ SenderStep(c) \/ RecverStep(c) \/ RecvPush(c) \/ Reset(c)
                        \/ \E m \in Msgs : RecvReply(c, m)
    BY <1>12
  <2>1. CASE SenderTake(c)
    BY <1>2, <2>1
  <2>2. CASE SenderFetch(c) /\ sendFailQueue # <<>>
    BY <1>3, <2>2
  <2>3. CASE SenderWrite(c)
    BY <1>4, <2>3
  <2>4. CASE SenderRequeue(c)
    BY <1>5, <2>4
  <2>5. CASE \/ SenderTop(c) \/ (SenderFetch(c) /\ sendFailQueue = <<>>) \/ SenderTick(c)
             \/ SenderCount(c) \/ SenderWriteFails(c) \/ SenderClose(c)
             \/ RecverStep(c) \/ RecvPush(c) \/ Reset(c)
             \/ \E m \in Msgs : RecvReply(c, m)
    BY <1>8, <1>10, <2>5
  <2> QED BY <2>1, <2>2, <2>3, <2>4, <2>5 DEF SenderStep
<1> QED
  BY <1>9, <1>10, <1>11, <1>12 DEF Next

AInv == IInv /\ MessagesApart

\* A message that Send accepted waits in one place, through failed writes and
\* reconnections, until it is written, once (Send, connection.send).
THEOREM MessagesAreConserved == Spec => []MessageConserved
<1>1. Init => AInv
  <2>1. Init => MessagesApart
    BY MsgsAssumption DEF Init, MessagesApart, Waits, In, Held, OneEach
  <2> QED BY <2>1, InitIInv DEF AInv
<1>2. AInv /\ [Next]_vars => AInv'
  BY NextIInv, NextApart DEF AInv
<1>3. AInv => MessageConserved
  <2> SUFFICES ASSUME AInv, NEW m \in Msgs
               PROVE  Cardinality(Places(m)) + writes[m] = IF caller[m] = "ok" THEN 1 ELSE 0
    BY DEF MessageConserved
  <2>1. MessagesApart /\ writes[m] \in Nat /\ m # NoMsg
    BY MsgsAssumption DEF AInv, IInv, TypeOK
  <2>2. CASE ~Waits(m)
    <3>1. Places(m) = {}
      BY <2>2 DEF Places, Waits, In, Held
    <3> QED BY <2>1, <2>2, <3>1, FS_EmptySet DEF MessagesApart
  <2>3. ASSUME NEW x, Places(m) = {x}, Waits(m)
        PROVE  Cardinality(Places(m)) + writes[m] = IF caller[m] = "ok" THEN 1 ELSE 0
    <3>1. Cardinality(Places(m)) = 1
      BY <2>3, FS_Singleton
    <3>2. caller[m] = "ok" /\ writes[m] = 0
      BY <2>1, <2>3 DEF MessagesApart
    <3> QED BY <3>1, <3>2
  <2>4. ASSUME NEW i \in DOMAIN sendQueue, sendQueue[i] = m
        PROVE  Places(m) = {<<"queue", i>>}
    BY <2>1, <2>4 DEF Places, MessagesApart, In, Held, OneEach
  <2>5. ASSUME NEW i \in DOMAIN sendFailQueue, sendFailQueue[i] = m
        PROVE  Places(m) = {<<"fail", i>>}
    BY <2>1, <2>5 DEF Places, MessagesApart, In, Held, OneEach
  <2>6. ASSUME NEW c \in Conns, inHand[c] = m
        PROVE  Places(m) = {<<"sender", c>>}
    BY <2>1, <2>6 DEF Places, MessagesApart, In, Held
  <2> QED BY <2>2, <2>3, <2>4, <2>5, <2>6 DEF Waits, In, Held
<1> QED
  BY <1>1, <1>2, <1>3, PTL DEF Spec

-------------------------------------------------------------------------------
\* The idle check of the send loop closes no connection on which a reply is awaited
\* (send lines 148 and 155, recv line 209), unless pushes were counted as replies.
THEOREM IdleClosesIdle == Spec => IdleCloseIsIdle
<1> DEFINE Idle == \A c \in Conns :
                     sender[c] = "inner" /\ sender'[c] = "close" /\ pushed = 0
                       => \A m \in Awaiting : sentOn[m] # c
<1>1. IInv /\ Covered /\ [Next]_vars => [Idle]_vars
  <2> SUFFICES ASSUME IInv, Covered, [Next]_vars, pushed = 0,
                      NEW c \in Conns, sender[c] = "inner", sender'[c] = "close"
               PROVE  Awaiting = {}
    OBVIOUS
  <2>1. DOMAIN sender = Conns
    BY DEF IInv, TypeOK
  <2>2. SenderTick(c)
    <3>1. ASSUME NEW m \in Msgs, ReConnectDial(m) PROVE FALSE
      <4>1. sender' = [sender EXCEPT ![dialled + 1] = "top"]
        BY <3>1 DEF ReConnectDial
      <4> QED BY <2>1, <4>1
    <3>2. ASSUME NEW d \in Conns, SenderStep(d) PROVE SenderTick(c)
      <4>1. d = c
        BY <2>1, <3>2 DEF SenderStep, SenderTop, SenderFetch, SenderTake, SenderTick,
             SenderCount, SenderWrite, SenderWriteFails, SenderRequeue, SenderClose
      <4> QED
        BY <2>1, <3>2, <4>1 DEF SenderStep, SenderTop, SenderFetch, SenderTake, SenderTick,
             SenderCount, SenderWrite, SenderWriteFails, SenderRequeue, SenderClose
    <3>3. sender' # sender
      OBVIOUS
    <3> QED
      BY <3>1, <3>2, <3>3 DEF Next, ReConnectNop, ReConnectFails, Enqueue, EnqueueTimeout,
           RecverStep, RecvError, RecvClose, RecvSignal, RecvPush, Reset, RecvReply, CallClose,
           CallGraceClose, GraceTick, CloserStep, GraceTimeout, CloseCheck, CloseMark,
           CloseShut, closerUnchanged, vars
  <2>3. invokeNum = 0
    BY <2>1, <2>2 DEF SenderTick
  <2>4. Cardinality(Awaiting) = 0
    BY <2>3, FiniteParts DEF Covered
  <2> QED BY <2>4, FiniteParts, FS_EmptySet
<1> QED
  BY Invariance, NextCovered, InitCovered, <1>1, PTL DEF Spec, IdleCloseIsIdle
===============================================================================
