----------------------------- MODULE InvokeProofs -----------------------------
(***************************************************************************)
(* Proofs about Invoke for any calls, any width of msgID, any bound of the *)
(* queue and any number of copies of a reply: nothing leaks on any path    *)
(* out of a call, request ids do not repeat among fewer than MaxInt calls, *)
(* and so a call gets the reply to its own request or none.                *)
(***************************************************************************)
EXTENDS Invoke, FiniteSetTheorems, TLAPS

\* The calls of B that are at one of the labels L.
At(B, L) == {c \in B : pc[c] \in L}
Invoking == CallPC \ {"cas", "add", "select", "done"}
NumInside == Cardinality(At(Calls, Inside))
NumInvoking == Cardinality(At(Calls \ Pings, Invoking))

\* A request id is there from genRequestID on, and a ping never looks for an
\* adapter, waits or owns an entry of resp.
IdPhases ==
  /\ \A c \in Calls :
       /\ pc[c] \in {"cas", "add"} => id[c] = 0
       /\ pc[c] \in {"select", "enter", "delete"} \cup Inside => id[c] # 0
       /\ pc[c] = "check" => (id[c] = 0 <=> c \in Pings)
  /\ \A c \in Pings : pc[c] \notin {"select", "wait", "delete", "post"}

\* An entry of resp belongs to a call that will delete it.
RespOwned ==
  \A i \in Ids : resp[i] # None =>
    /\ resp[i] \notin Pings /\ id[resp[i]] = i
    /\ pc[resp[i]] \in {"send", "wait", "leave", "delete"}

\* What the counters count.
Counted ==
  /\ queueLen = NumInside
  /\ invokeNum = NumInvoking

\* A loaded channel is that of a call with the request id of the reply.
ChannelsMatch ==
  \A p \in Packets \cup {Push} :
    /\ recv[p] \in {"load", "deliver"} /\ p # Push => id[p[1]] # 0
    /\ recv[p] = "deliver" => p # Push /\ readCh[p] \in Calls /\ id[readCh[p]] = id[p[1]]

IInv == TypeOK /\ IdPhases /\ RespOwned /\ Counted /\ ChannelsMatch

-------------------------------------------------------------------------------
\* When a call goes from one label to another, the number of calls at the labels
\* L changes by what it leaves and enters.
LEMMA MoveCounted ==
  ASSUME NEW B \in SUBSET Calls, NEW L, NEW c \in Calls, NEW l,
         pc \in [Calls -> CallPC], pc' = [pc EXCEPT ![c] = l]
  PROVE  /\ Cardinality(At(B, L)) \in Nat
         /\ Cardinality(At(B, L))' =
              IF c \notin B \/ (l \in L <=> pc[c] \in L) THEN Cardinality(At(B, L))
              ELSE IF l \in L THEN Cardinality(At(B, L)) + 1
              ELSE Cardinality(At(B, L)) - 1
<1>1. IsFiniteSet(At(B, L)) /\ Cardinality(At(B, L)) \in Nat
  <2>1. At(B, L) \subseteq Calls
    BY DEF At
  <2> QED BY <2>1, CallsAssumption, FS_Subset, FS_CardinalityType
<1>2. CASE c \notin B \/ (l \in L <=> pc[c] \in L)
  <2>1. At(B, L)' = At(B, L)
    BY <1>2 DEF At
  <2> QED BY <1>1, <1>2, <2>1
<1>3. CASE c \in B /\ l \in L /\ pc[c] \notin L
  <2>1. At(B, L)' = At(B, L) \cup {c} /\ c \notin At(B, L)
    BY <1>3 DEF At
  <2> QED BY <1>1, <1>3, <2>1, FS_AddElement
<1>4. CASE c \in B /\ l \notin L /\ pc[c] \in L
  <2>1. At(B, L)' = At(B, L) \ {c} /\ c \in At(B, L)
    BY <1>4 DEF At
  <2> QED BY <1>1, <1>4, <2>1, FS_RemoveElement
<1> QED
  BY <1>2, <1>3, <1>4

\* How the two counts change when call c goes to label l.
Moved(c, l) ==
  /\ NumInside \in Nat /\ NumInvoking \in Nat
  /\ NumInside' = NumInside + (IF l \in Inside THEN 1 ELSE 0)
                            - (IF pc[c] \in Inside THEN 1 ELSE 0)
  /\ NumInvoking' = NumInvoking
       + (IF c \notin Pings /\ l \in Invoking THEN 1 ELSE 0)
       - (IF c \notin Pings /\ pc[c] \in Invoking THEN 1 ELSE 0)

LEMMA CountsMove ==
  ASSUME TypeOK, NEW c \in Calls, NEW l \in CallPC, pc' = [pc EXCEPT ![c] = l]
  PROVE  Moved(c, l)
<1>1. pc \in [Calls -> CallPC]
  BY DEF TypeOK
<1>2. ASSUME NEW B \in SUBSET Calls, NEW L
      PROVE  /\ Cardinality(At(B, L)) \in Nat
             /\ Cardinality(At(B, L))' = Cardinality(At(B, L))
                  + (IF c \in B /\ l \in L THEN 1 ELSE 0)
                  - (IF c \in B /\ pc[c] \in L THEN 1 ELSE 0)
  <2>1. /\ Cardinality(At(B, L)) \in Nat
        /\ Cardinality(At(B, L))' =
              IF c \notin B \/ (l \in L <=> pc[c] \in L) THEN Cardinality(At(B, L))
              ELSE IF l \in L THEN Cardinality(At(B, L)) + 1
              ELSE Cardinality(At(B, L)) - 1
    BY <1>1, MoveCounted
  <2> QED BY <2>1
<1>3. /\ NumInside \in Nat
      /\ NumInside' = NumInside
           + (IF l \in Inside THEN 1 ELSE 0) - (IF pc[c] \in Inside THEN 1 ELSE 0)
  BY <1>2 DEF NumInside
<1>5. /\ NumInvoking \in Nat
      /\ NumInvoking' = NumInvoking
           + (IF c \in Calls \ Pings /\ l \in Invoking THEN 1 ELSE 0)
           - (IF c \in Calls \ Pings /\ pc[c] \in Invoking THEN 1 ELSE 0)
  BY <1>2 DEF NumInvoking
<1> QED
  BY <1>3, <1>5 DEF Moved

LEMMA InitIInv == Init => IInv
<1> SUFFICES ASSUME Init PROVE IInv
  OBVIOUS
<1>1. TypeOK
  BY FirstIdsAssumption, NumbersAssumption
     DEF Init, TypeOK, Ids, CallPC, Results, RecvPC
<1>2. IdPhases /\ RespOwned /\ ChannelsMatch
  BY CallsAssumption DEF Init, IdPhases, RespOwned, ChannelsMatch, Inside
<1>3. At(Calls, Inside) = {} /\ At(Calls \ Pings, Invoking) = {}
  BY DEF Init, At, Inside, Invoking
<1>4. Counted
  <2>1. NumInside = 0 /\ NumInvoking = 0
    BY <1>3, FS_EmptySet DEF NumInside, NumInvoking
  <2> QED BY <2>1 DEF Init, Counted
<1> QED
  BY <1>1, <1>2, <1>4 DEF IInv

LEMMA IncIds == ASSUME NEW i \in Ids PROVE Inc32(i) \in Ids
BY NumbersAssumption DEF Ids, Inc32

LEMMA NextTypeOK == TypeOK /\ IdPhases /\ ChannelsMatch /\ [Next]_vars => TypeOK'
<1> SUFFICES ASSUME TypeOK, IdPhases, ChannelsMatch, [Next]_vars PROVE TypeOK'
  OBVIOUS
<1> USE DEF TypeOK, CallPC, RecvPC, Results, Goto, recvVars
<1>1. ASSUME NEW c \in Calls, GenCas(c) PROVE TypeOK'
  BY <1>1, NumbersAssumption DEF GenCas, Ids
<1>2. ASSUME NEW c \in Calls, GenAdd(c) PROVE TypeOK'
  BY <1>2, IncIds DEF GenAdd
<1>3. ASSUME NEW c \in Calls, Select(c) \/ CheckQueue(c) \/ PostInvoke(c) \/ Leave(c)
      PROVE  TypeOK'
  BY <1>3 DEF Select, CheckQueue, PostInvoke, Leave
<1>4. ASSUME NEW c \in Calls, Enter(c) \/ Delete(c) PROVE TypeOK'
  BY <1>4 DEF Enter, Delete
<1>5. ASSUME NEW c \in Calls, Send(c) PROVE TypeOK'
  BY <1>5 DEF Send
<1>6. ASSUME NEW c \in Calls, Timeout(c) PROVE TypeOK'
  BY <1>6 DEF Timeout
<1>7. ASSUME NEW p \in Packets \cup {Push}, Arrive(p) \/ RecvTimeout(p) PROVE TypeOK'
  BY <1>7 DEF Arrive, RecvTimeout
<1>8. ASSUME NEW p \in Packets \cup {Push}, RecvLoad(p) PROVE TypeOK'
  <2>1. p # Push => p[1] \in Calls
    BY DEF Packets
  <2> QED BY <1>8, <2>1 DEF RecvLoad
<1>9. ASSUME NEW p \in Packets \cup {Push}, Deliver(p) PROVE TypeOK'
  <2>1. p[1] \in Calls /\ readCh[p] \in Calls
    BY <1>9 DEF Deliver, ChannelsMatch, Packets
  <2> QED BY <1>9, <2>1 DEF Deliver
<1>10. CASE UNCHANGED vars
  BY <1>10 DEF vars
<1> QED
  BY <1>1, <1>2, <1>3, <1>4, <1>5, <1>6, <1>7, <1>8, <1>9, <1>10
  DEF Next, CallStep, RecvStep

LEMMA NextPhases == TypeOK /\ IdPhases /\ ChannelsMatch /\ [Next]_vars => IdPhases'
<1> SUFFICES ASSUME TypeOK, IdPhases, ChannelsMatch, [Next]_vars PROVE IdPhases'
  OBVIOUS
<1> USE CallsAssumption DEF TypeOK, IdPhases, Inside, Goto
<1>1. ASSUME NEW c \in Calls, GenCas(c) \/ GenAdd(c) PROVE IdPhases'
  BY <1>1 DEF GenCas, GenAdd
<1>2. ASSUME NEW c \in Calls, Select(c) \/ CheckQueue(c) \/ Enter(c) PROVE IdPhases'
  BY <1>2 DEF Select, CheckQueue, Enter
<1>3. ASSUME NEW c \in Calls, Send(c) \/ Timeout(c) PROVE IdPhases'
  BY <1>3 DEF Send, Timeout
<1>4. ASSUME NEW c \in Calls, Leave(c) \/ Delete(c) \/ PostInvoke(c) PROVE IdPhases'
  BY <1>4 DEF Leave, Delete, PostInvoke
<1>5. ASSUME NEW p \in Packets \cup {Push}, Arrive(p) \/ RecvLoad(p) \/ RecvTimeout(p)
      PROVE  IdPhases'
  BY <1>5 DEF Arrive, RecvLoad, RecvTimeout
<1>6. ASSUME NEW p \in Packets \cup {Push}, Deliver(p) PROVE IdPhases'
  <2>1. readCh[p] \in Calls
    BY <1>6 DEF Deliver, ChannelsMatch
  <2> QED BY <1>6, <2>1 DEF Deliver
<1>7. CASE UNCHANGED vars
  BY <1>7 DEF vars
<1> QED
  BY <1>1, <1>2, <1>3, <1>4, <1>5, <1>6, <1>7 DEF Next, CallStep, RecvStep

LEMMA NextResp == IInv /\ [Next]_vars => RespOwned'
<1> SUFFICES ASSUME IInv, [Next]_vars PROVE RespOwned'
  OBVIOUS
<1> USE CallsAssumption DEF IInv, TypeOK, IdPhases, RespOwned, Goto
<1>1. ASSUME NEW c \in Calls, GenCas(c) \/ GenAdd(c) PROVE RespOwned'
  BY <1>1 DEF GenCas, GenAdd
<1>2. ASSUME NEW c \in Calls, Select(c) \/ CheckQueue(c) PROVE RespOwned'
  BY <1>2 DEF Select, CheckQueue
<1>3. ASSUME NEW c \in Calls, Enter(c) PROVE RespOwned'
  BY <1>3 DEF Enter
<1>4. ASSUME NEW c \in Calls, Send(c) \/ Timeout(c) \/ PostInvoke(c) PROVE RespOwned'
  BY <1>4 DEF Send, Timeout, PostInvoke
<1>5. ASSUME NEW c \in Calls, Leave(c) PROVE RespOwned'
  BY <1>5 DEF Leave
<1>6. ASSUME NEW c \in Calls, Delete(c) PROVE RespOwned'
  BY <1>6 DEF Delete
<1>7. ASSUME NEW p \in Packets \cup {Push}, Arrive(p) \/ RecvLoad(p) \/ RecvTimeout(p)
      PROVE  RespOwned'
  BY <1>7 DEF Arrive, RecvLoad, RecvTimeout
<1>8. ASSUME NEW p \in Packets \cup {Push}, Deliver(p) PROVE RespOwned'
  BY <1>8 DEF Deliver, ChannelsMatch
<1>9. CASE UNCHANGED vars
  BY <1>9 DEF vars
<1> QED
  BY <1>1, <1>2, <1>3, <1>4, <1>5, <1>6, <1>7, <1>8, <1>9 DEF Next, CallStep, RecvStep

LEMMA NextCounted == IInv /\ [Next]_vars => Counted'
<1> SUFFICES ASSUME TypeOK, IdPhases, Counted, ChannelsMatch, [Next]_vars PROVE Counted'
  BY DEF IInv
<1> USE DEF Counted
<1>0. queueLen \in Int /\ invokeNum \in Int /\ pc \in [Calls -> CallPC]
  BY DEF TypeOK
<1>1. ASSUME NEW c \in Calls, GenCas(c) PROVE Counted'
  <2>1. pc' = [pc EXCEPT ![c] = "add"] /\ pc[c] = "cas"
    BY <1>1 DEF GenCas, Goto
  <2>3. Moved(c, "add")
    BY <2>1, CountsMove DEF CallPC
  <2> QED BY <1>0, <1>1, <2>1, <2>3
       DEF GenCas, Moved, Inside, Invoking, CallPC
<1>2. ASSUME NEW c \in Calls, GenAdd(c) PROVE Counted'
  <2>1. PICK l \in {"add", "enter", "select"} : pc' = [pc EXCEPT ![c] = l]
    BY <1>0, <1>2 DEF GenAdd, Goto
  <2>2. pc[c] = "add" /\ (c \notin Pings => l # "enter")
    BY <1>0, <1>2, <2>1 DEF GenAdd, Goto
  <2>3. Moved(c, l)
    BY <2>1, <2>2, CountsMove DEF CallPC
  <2> QED BY <1>0, <1>2, <2>1, <2>2, <2>3
       DEF GenAdd, Moved, Inside, Invoking, CallPC
<1>3. ASSUME NEW c \in Calls, Select(c) PROVE Counted'
  <2>1. PICK l \in {"check", "post"} : pc' = [pc EXCEPT ![c] = l]
    BY <1>3 DEF Select, Goto
  <2>2. pc[c] = "select" /\ c \notin Pings
    BY <1>3 DEF Select, IdPhases
  <2>3. Moved(c, l)
    BY <2>1, <2>2, CountsMove DEF CallPC
  <2> QED BY <1>0, <1>3, <2>1, <2>2, <2>3
       DEF Select, Moved, Inside, Invoking, CallPC
<1>4. ASSUME NEW c \in Calls, CheckQueue(c) PROVE Counted'
  <2>1. PICK l \in {"done", "post", "cas", "enter"} :
          pc' = [pc EXCEPT ![c] = l] /\ (c \in Pings <=> l \in {"done", "cas"})
    BY <1>4 DEF CheckQueue, Goto
  <2>2. pc[c] = "check"
    BY <1>4 DEF CheckQueue
  <2>3. Moved(c, l)
    BY <2>1, <2>2, CountsMove DEF CallPC
  <2> QED BY <1>0, <1>4, <2>1, <2>2, <2>3
       DEF CheckQueue, Moved, Inside, Invoking, CallPC
<1>5. ASSUME NEW c \in Calls, Enter(c) PROVE Counted'
  <2>1. pc' = [pc EXCEPT ![c] = "send"] /\ pc[c] = "enter"
    BY <1>5 DEF Enter, Goto
  <2>3. Moved(c, "send")
    BY <2>1, CountsMove DEF CallPC
  <2> QED BY <1>0, <1>5, <2>1, <2>3
       DEF Enter, Moved, Inside, Invoking, CallPC
<1>6. ASSUME NEW c \in Calls, Send(c) PROVE Counted'
  <2>1. PICK l \in {"leave", "wait"} : pc' = [pc EXCEPT ![c] = l]
    BY <1>6 DEF Send, Goto
  <2>2. pc[c] = "send" /\ UNCHANGED <<queueLen, invokeNum>>
    BY <1>6 DEF Send
  <2>3. Moved(c, l)
    BY <2>1, <2>2, CountsMove DEF CallPC
  <2> QED BY <1>0, <2>1, <2>2, <2>3
       DEF Moved, Inside, Invoking, CallPC
<1>7. ASSUME NEW c \in Calls, Timeout(c) PROVE Counted'
  <2>1. pc' = [pc EXCEPT ![c] = "leave"] /\ pc[c] = "wait"
    BY <1>7 DEF Timeout, Goto
  <2>3. Moved(c, "leave")
    BY <2>1, CountsMove DEF CallPC
  <2> QED BY <1>0, <1>7, <2>1, <2>3
       DEF Timeout, Moved, Inside, Invoking, CallPC
<1>8. ASSUME NEW c \in Calls, Leave(c) PROVE Counted'
  <2>1. PICK l \in {"done", "delete"} :
          pc' = [pc EXCEPT ![c] = l] /\ (c \in Pings <=> l = "done")
    BY <1>8 DEF Leave, Goto
  <2>2. pc[c] = "leave"
    BY <1>8 DEF Leave
  <2>3. Moved(c, l)
    BY <2>1, <2>2, CountsMove DEF CallPC
  <2> QED BY <1>0, <1>8, <2>1, <2>2, <2>3
       DEF Leave, Moved, Inside, Invoking, CallPC
<1>9. ASSUME NEW c \in Calls, Delete(c) PROVE Counted'
  <2>1. pc' = [pc EXCEPT ![c] = "post"] /\ pc[c] = "delete"
    BY <1>9 DEF Delete, Goto
  <2>3. Moved(c, "post")
    BY <2>1, CountsMove DEF CallPC
  <2> QED BY <1>0, <1>9, <2>1, <2>3
       DEF Delete, Moved, Inside, Invoking, CallPC
<1>10. ASSUME NEW c \in Calls, PostInvoke(c) PROVE Counted'
  <2>1. pc' = [pc EXCEPT ![c] = "done"] /\ pc[c] = "post" /\ c \notin Pings
    BY <1>10 DEF PostInvoke, Goto, IdPhases
  <2>3. Moved(c, "done")
    BY <2>1, CountsMove DEF CallPC
  <2> QED BY <1>0, <1>10, <2>1, <2>3
       DEF PostInvoke, Moved, Inside, Invoking, CallPC
<1>11. ASSUME NEW p \in Packets \cup {Push}, Deliver(p) PROVE Counted'
  <2>1. PICK c \in Calls : c = readCh[p]
    BY <1>11 DEF Deliver, ChannelsMatch
  <2>2. pc' = [pc EXCEPT ![c] = "leave"] /\ pc[c] = "wait"
    BY <1>11, <2>1 DEF Deliver, Goto
  <2>3. Moved(c, "leave")
    BY <2>1, <2>2, CountsMove DEF CallPC
  <2> QED BY <1>0, <1>11, <2>2, <2>3
       DEF Deliver, Moved, Inside, Invoking, CallPC
<1>12. CASE \/ \E p \in Packets \cup {Push} : Arrive(p) \/ RecvLoad(p) \/ RecvTimeout(p)
            \/ UNCHANGED vars
  <2>1. UNCHANGED <<pc, queueLen, invokeNum>>
    BY <1>12 DEF Arrive, RecvLoad, RecvTimeout, vars
  <2>2. UNCHANGED <<NumInside, NumInvoking>>
    BY <2>1 DEF NumInside, NumInvoking, At
  <2> QED BY <2>1, <2>2
<1> QED
  BY <1>1, <1>2, <1>3, <1>4, <1>5, <1>6, <1>7, <1>8, <1>9, <1>10, <1>11, <1>12
  DEF Next, CallStep, RecvStep

LEMMA NextChannels == IInv /\ [Next]_vars => ChannelsMatch'
<1> SUFFICES ASSUME TypeOK, IdPhases, RespOwned, ChannelsMatch, [Next]_vars
             PROVE  ChannelsMatch'
  BY DEF IInv
<1> USE CallsAssumption DEF TypeOK, ChannelsMatch, recvVars
<1>0. \A p \in Packets \cup {Push} : p # Push => p[1] \in Calls
  BY DEF Packets
<1>1. ASSUME NEW c \in Calls, GenAdd(c) PROVE ChannelsMatch'
  <2>1. recv' = recv /\ readCh' = readCh /\ id[c] = 0
    BY <1>1 DEF GenAdd, IdPhases
  <2>2. \A d \in Calls : id[d] # 0 => id'[d] = id[d]
    BY <1>1, <2>1 DEF GenAdd
  <2> QED BY <1>0, <2>1, <2>2
<1>2. CASE \/ \E c \in Calls : \/ GenCas(c) \/ Select(c) \/ CheckQueue(c) \/ Enter(c)
                               \/ Send(c) \/ Timeout(c) \/ Leave(c) \/ Delete(c)
                               \/ PostInvoke(c)
           \/ UNCHANGED vars
  BY <1>2 DEF GenCas, Select, CheckQueue, Enter, Send, Timeout, Leave, Delete, PostInvoke,
              vars
<1>3. ASSUME NEW p \in Packets \cup {Push}, Arrive(p) PROVE ChannelsMatch'
  BY <1>0, <1>3 DEF Arrive
<1>4. ASSUME NEW p \in Packets \cup {Push}, RecvLoad(p) PROVE ChannelsMatch'
  BY <1>0, <1>4 DEF RecvLoad, RespOwned
<1>5. ASSUME NEW p \in Packets \cup {Push}, RecvTimeout(p) \/ Deliver(p)
      PROVE  ChannelsMatch'
  BY <1>0, <1>5 DEF RecvTimeout, Deliver
<1> QED
  BY <1>1, <1>2, <1>3, <1>4, <1>5 DEF Next, CallStep, RecvStep

\* The inductive invariant.
THEOREM Invariance == Spec => []IInv
<1>1. IInv /\ [Next]_vars => IInv'
  BY NextTypeOK, NextPhases, NextResp, NextCounted, NextChannels DEF IInv
<1> QED
  BY InitIInv, <1>1, PTL DEF Spec

\* On every path out of a call - no adapter, full queue, failed send, timeout, reply -
\* queueLen and invokeNum are counted back and the entry of resp is deleted, and while
\* the call is inside the entry is its own (doInvoke, its deferred function, Recv).
THEOREM CallsLeaveNothing == Spec => []NothingLeaks
<1>1. IInv => NothingLeaks
  <2> SUFFICES ASSUME IInv PROVE NothingLeaks
    OBVIOUS
  <2>1. At(Calls, Inside) = {c \in Calls : pc[c] \in Inside}
    BY DEF At
  <2>2. At(Calls \ Pings, Invoking) =
          {c \in Calls \ Pings : pc[c] \notin {"cas", "add", "select", "done"}}
    BY DEF At, Invoking, IInv, TypeOK
  <2> QED BY <2>1, <2>2 DEF NothingLeaks, IInv, Counted, RespOwned, NumInside, NumInvoking
<1> QED
  BY Invariance, <1>1, PTL

-------------------------------------------------------------------------------
(***************************************************************************)
(* Request ids.  msgID climbs from its first value s; from MaxInt it goes  *)
(* on at 2, if a caller's compare-and-swap comes first, or overflows to    *)
(* -MaxInt - 1, if another caller's addition does.  In each case the ids   *)
(* that were given lie behind msgID and their number bounds how far it has *)
(* come, so that fewer than MaxInt calls cannot carry it round to s.       *)
(***************************************************************************)
WithId == {c \in Calls : id[c] # 0}
NumIds == Cardinality(WithId)

\* No addition has left MaxInt yet.
Climbing(s) ==
  /\ s <= msgID /\ \A c \in WithId : id[c] \in s + 1 .. msgID
  /\ NumIds >= msgID - s - (IF s < 0 /\ msgID >= 0 THEN 1 ELSE 0)
\* msgID went from MaxInt to 1 by the compare-and-swap.
Swapped(s) ==
  /\ s >= 0 /\ msgID \in 1..s
  /\ \A c \in WithId : id[c] \in (s + 1 .. MaxInt) \cup (2..msgID)
  /\ NumIds >= MaxInt - s + msgID - 1
\* msgID went from MaxInt to -MaxInt - 1 by an addition.
Overflowed(s) ==
  /\ s >= 1 /\ msgID < 0
  /\ \A c \in WithId : id[c] \in (s + 1 .. MaxInt) \cup (-MaxInt - 1 .. msgID)
  /\ NumIds >= MaxInt - s + msgID + MaxInt + 2

IdsBehind == \E s \in Ids : Climbing(s) \/ Swapped(s) \/ Overflowed(s)
IdsDiffer == \A c, d \in WithId : id[c] = id[d] => c = d

LEMMA IdsCounted ==
  ASSUME NEW c \in Calls, id[c] = 0
  PROVE  NumIds \in Nat /\ NumIds < Cardinality(Calls)
<1>1. WithId \subseteq Calls \ {c}
  BY DEF WithId
<1>2. IsFiniteSet(Calls \ {c}) /\ Cardinality(Calls \ {c}) = Cardinality(Calls) - 1
  BY CallsAssumption, FS_RemoveElement
<1>3. Cardinality(Calls) \in Nat
  BY CallsAssumption, FS_CardinalityType
<1>4. IsFiniteSet(WithId) /\ Cardinality(WithId) <= Cardinality(Calls \ {c})
  BY <1>1, <1>2, FS_Subset
<1>5. Cardinality(WithId) \in Nat
  BY <1>4, FS_CardinalityType
<1> QED
  BY <1>2, <1>3, <1>4, <1>5 DEF NumIds

\* A new id is counted.
LEMMA IdAdded ==
  ASSUME TypeOK, NEW c \in Calls, id[c] = 0, NEW i \in Ids, i # 0, id' = [id EXCEPT ![c] = i]
  PROVE  WithId' = WithId \cup {c} /\ NumIds' = NumIds + 1
<1>1. WithId' = WithId \cup {c} /\ c \notin WithId
  BY DEF WithId, TypeOK
<1>2. IsFiniteSet(WithId)
  BY CallsAssumption, FS_Subset DEF WithId
<1> QED
  BY <1>1, <1>2, FS_AddElement DEF NumIds

LEMMA InitIds == Init => IdsBehind /\ IdsDiffer
<1> SUFFICES ASSUME Init PROVE IdsBehind /\ IdsDiffer
  OBVIOUS
<1>1. WithId = {}
  BY DEF Init, WithId
<1>2. NumIds = 0
  BY <1>1, FS_EmptySet DEF NumIds
<1>3. msgID \in Ids
  BY FirstIdsAssumption DEF Init, Ids
<1>4. Climbing(msgID)
  BY <1>1, <1>2, <1>3, NumbersAssumption DEF Climbing, Ids
<1> QED
  BY <1>1, <1>3, <1>4 DEF IdsBehind, IdsDiffer

LEMMA NextIds ==
  ASSUME Cardinality(Calls) < MaxInt
  PROVE  TypeOK /\ IdPhases /\ IdsBehind /\ IdsDiffer /\ [Next]_vars => IdsBehind' /\ IdsDiffer'
<1> SUFFICES ASSUME TypeOK, IdPhases, IdsBehind, IdsDiffer, [Next]_vars
             PROVE  IdsBehind' /\ IdsDiffer'
  OBVIOUS
<1>0. MaxInt \in Nat \ {0} /\ msgID \in Ids /\ Cardinality(Calls) \in Nat
  BY NumbersAssumption, CallsAssumption, FS_CardinalityType DEF TypeOK
<1>s. PICK s \in Ids : Climbing(s) \/ Swapped(s) \/ Overflowed(s)
  BY DEF IdsBehind
<1>i. \A c \in WithId : id[c] \in Ids
  BY DEF TypeOK, WithId
<1>1. ASSUME NEW c \in Calls, GenCas(c) PROVE IdsBehind' /\ IdsDiffer'
  <2>1. id[c] = 0 /\ id' = id
    BY <1>1 DEF GenCas, IdPhases
  <2>2. NumIds \in Nat /\ NumIds <= MaxInt - 2
    BY <1>0, <2>1, IdsCounted
  <2>3. WithId' = WithId /\ NumIds' = NumIds
    BY <2>1 DEF WithId, NumIds
  <2>4. CASE msgID # MaxInt
    <3>1. msgID' = msgID
      BY <1>1, <2>4 DEF GenCas
    <3> QED BY <1>s, <2>1, <2>3, <3>1
            DEF IdsBehind, IdsDiffer, Climbing, Swapped, Overflowed
  <2>5. CASE msgID = MaxInt
    <3>1. msgID' = 1
      BY <1>1, <2>5 DEF GenCas
    <3>2. Climbing(s)
      BY <1>0, <1>s, <2>2, <2>5 DEF Swapped, Overflowed, Ids
    <3>3. s >= 2
      BY <1>0, <2>2, <2>5, <3>2 DEF Climbing, Ids
    <3>4. Swapped(s)'
      BY <1>0, <2>1, <2>3, <2>5, <3>1, <3>2, <3>3 DEF Climbing, Swapped, Ids
    <3> QED BY <2>1, <2>3, <3>4 DEF IdsBehind, IdsDiffer
  <2> QED BY <2>4, <2>5
<1>2. ASSUME NEW c \in Calls, GenAdd(c) PROVE IdsBehind' /\ IdsDiffer'
  <2>1. id[c] = 0 /\ msgID' = Inc32(msgID) /\ msgID' \in Ids
    BY <1>0, <1>2, IncIds DEF GenAdd, IdPhases
  <2>2. NumIds \in Nat /\ NumIds <= MaxInt - 2
    BY <1>0, <2>1, IdsCounted
  <2>3. CASE msgID' = 0
    <3>1. id' = id /\ msgID = -1
      BY <1>0, <1>2, <2>1, <2>3 DEF GenAdd, Inc32, Ids
    <3>2. WithId' = WithId /\ NumIds' = NumIds
      BY <3>1 DEF WithId, NumIds
    <3>3. Climbing(s)
      BY <1>0, <1>s, <2>2, <3>1 DEF Swapped, Overflowed, Ids
    <3>4. Climbing(s)'
      BY <1>0, <2>2, <2>3, <3>1, <3>2, <3>3 DEF Climbing, Ids
    <3> QED BY <3>1, <3>2, <3>4 DEF IdsBehind, IdsDiffer
  <2>4. CASE msgID' # 0
    <3> PICK i \in Ids : i = msgID'
      BY <2>1
    <3>1. id' = [id EXCEPT ![c] = i] /\ i # 0
      BY <1>2, <2>4 DEF GenAdd
    <3>2. WithId' = WithId \cup {c} /\ NumIds' = NumIds + 1 /\ c \notin WithId
      BY <2>1, <3>1, IdAdded DEF WithId
    <3>3. id'[c] = i /\ \A d \in WithId : id'[d] = id[d]
      BY <3>1, <3>2 DEF TypeOK, WithId
    <3>4. CASE Climbing(s) /\ msgID < MaxInt
      <4>1. i = msgID + 1
        BY <1>0, <2>1, <3>4 DEF Inc32
      <4>2. Climbing(s)'
        BY <1>0, <2>2, <3>1, <3>2, <3>3, <3>4, <4>1 DEF Climbing, Ids
      <4>3. \A d \in WithId : id[d] # i
        BY <1>0, <3>4, <4>1 DEF Climbing, Ids
      <4> QED BY <3>2, <3>3, <4>2, <4>3 DEF IdsBehind, IdsDiffer
    <3>5. CASE Climbing(s) /\ msgID = MaxInt
      <4>1. i = -MaxInt - 1
        BY <1>0, <2>1, <3>5 DEF Inc32
      <4>2. s >= 2
        BY <1>0, <2>2, <3>5 DEF Climbing, Ids
      <4>3. Overflowed(s)'
        BY <1>0, <2>2, <3>2, <3>3, <3>5, <4>1, <4>2 DEF Climbing, Overflowed, Ids
      <4>4. \A d \in WithId : id[d] # i
        BY <1>0, <3>5, <4>1, <4>2 DEF Climbing, Ids
      <4> QED BY <3>2, <3>3, <4>3, <4>4 DEF IdsBehind, IdsDiffer
    <3>6. CASE Swapped(s)
      <4>1. msgID <= s - 1
        BY <1>0, <2>2, <3>6 DEF Swapped, Ids
      <4>2. i = msgID + 1
        BY <1>0, <2>1, <4>1 DEF Inc32, Ids
      <4>3. Swapped(s)'
        BY <1>0, <2>2, <3>2, <3>3, <3>6, <4>1, <4>2 DEF Swapped, Ids
      <4>4. \A d \in WithId : id[d] # i
        BY <1>0, <3>6, <4>1, <4>2 DEF Swapped, Ids
      <4> QED BY <3>2, <3>3, <4>3, <4>4 DEF IdsBehind, IdsDiffer
    <3>7. CASE Overflowed(s)
      <4>1. msgID < -3
        BY <1>0, <2>2, <3>7 DEF Overflowed, Ids
      <4>2. i = msgID + 1
        BY <1>0, <2>1, <4>1 DEF Inc32, Ids
      <4>3. Overflowed(s)'
        BY <1>0, <2>2, <3>2, <3>3, <3>7, <4>1, <4>2 DEF Overflowed, Ids
      <4>4. \A d \in WithId : id[d] # i
        BY <1>0, <3>7, <4>1, <4>2 DEF Overflowed, Ids
      <4> QED BY <3>2, <3>3, <4>3, <4>4 DEF IdsBehind, IdsDiffer
    <3>8. msgID < MaxInt \/ msgID = MaxInt
      BY <1>0 DEF Ids
    <3> QED BY <1>s, <3>4, <3>5, <3>6, <3>7, <3>8
  <2> QED BY <2>3, <2>4
<1>3. CASE UNCHANGED <<id, msgID>>
  BY <1>s, <1>3 DEF IdsBehind, IdsDiffer, Climbing, Swapped, Overflowed, NumIds, WithId
<1>4. [Next]_vars => \/ \E c \in Calls : GenCas(c) \/ GenAdd(c)
                     \/ UNCHANGED <<id, msgID>>
  BY DEF Next, CallStep, RecvStep, Select, CheckQueue, Enter, Send, Timeout, Leave, Delete,
         PostInvoke, Arrive, RecvLoad, RecvTimeout, Deliver, vars
<1> QED
  BY <1>1, <1>2, <1>3, <1>4

DInv == IInv /\ IdsBehind /\ IdsDiffer

LEMMA IdInvariance ==
  ASSUME Cardinality(Calls) < MaxInt
  PROVE  Spec => []DInv
<1>1. Init => DInv
  BY InitIInv, InitIds DEF DInv
<1>2. DInv /\ [Next]_vars => DInv'
  BY NextTypeOK, NextPhases, NextResp, NextCounted, NextChannels, NextIds DEF DInv, IInv
<1> QED
  BY <1>1, <1>2, PTL DEF Spec

\* genRequestID: of fewer than MaxInt calls, whatever msgID was before them and
\* however they race over its end, no two under way have the same request id and
\* none has the id 0 of a push.  (MaxInt calls can come round to the first id.)
THEOREM IdsAreDistinct ==
  ASSUME Cardinality(Calls) < MaxInt
  PROVE  Spec => []RequestIdsDistinct
<1>1. DInv => RequestIdsDistinct
  BY DEF DInv, IInv, IdPhases, IdsDiffer, WithId, RequestIdsDistinct, Inside
<1> QED
  BY IdInvariance, <1>1, PTL

-------------------------------------------------------------------------------
\* AdapterProxy.Recv: of fewer than MaxInt calls, each gets the reply to its own
\* request or none, however replies are delayed, reordered and repeated, and a
\* two-way call succeeds only with that reply.
THEOREM RepliesMatch ==
  ASSUME Cardinality(Calls) < MaxInt
  PROVE  Spec => []ReplyMatches
<1>1. Init => ReplyMatches
  BY DEF Init, ReplyMatches
<1>2. DInv /\ ReplyMatches /\ [Next]_vars => ReplyMatches'
  <2> SUFFICES ASSUME DInv, ReplyMatches, [Next]_vars PROVE ReplyMatches'
    OBVIOUS
  <2> USE DEF ReplyMatches, DInv, IInv, TypeOK
  <2>1. ASSUME NEW p \in Packets \cup {Push}, Deliver(p) PROVE ReplyMatches'
    <3>1. p[1] \in Calls /\ readCh[p] \in Calls /\ id[readCh[p]] = id[p[1]] /\ id[p[1]] # 0
      BY <2>1 DEF Deliver, ChannelsMatch, Packets
    <3>2. readCh[p] = p[1]
      BY <3>1 DEF IdsDiffer, WithId
    <3> QED BY <2>1, <3>1, <3>2 DEF Deliver
  <2>2. ASSUME NEW c \in Calls, Send(c) PROVE ReplyMatches'
    BY <2>2 DEF Send
  <2>3. ASSUME NEW c \in Calls,
               Select(c) \/ CheckQueue(c) \/ Timeout(c)
        PROVE  ReplyMatches'
    BY <2>3 DEF Select, CheckQueue, Timeout
  <2>4. CASE UNCHANGED <<got, result>>
    BY <2>4
  <2>5. \/ \E p \in Packets \cup {Push} : Deliver(p)
        \/ \E c \in Calls : Send(c) \/ Select(c) \/ CheckQueue(c) \/ Timeout(c)
        \/ UNCHANGED <<got, result>>
    BY DEF Next, CallStep, RecvStep, GenCas, GenAdd, Enter, Leave, Delete, PostInvoke, Arrive,
           RecvLoad, RecvTimeout, vars
  <2> QED BY <2>1, <2>2, <2>3, <2>4, <2>5
<1> QED
  BY <1>1, <1>2, IdInvariance, PTL DEF Spec
===============================================================================
