---------------------------- MODULE TcpServerProofs ----------------------------
(***************************************************************************)
(* Proofs about TcpServer for any connections, streams, pool and queue,    *)
(* with or without a read timeout: numInvoke counts what is under way, no  *)
(* response is written to a closed connection, and when Shutdown returns by *)
(* itself all that was taken before CloseIdles looked is handled.          *)
(***************************************************************************)
EXTENDS TcpServer, FiniteSetTheorems, TLAPS

\* The requests of a connection that are queued or handled.
Unfinished(c) == {p \in pending \cup running : ConnOf(p) = c}

\* What was read and parsed is a prefix of the stream.
InStream ==
  \A c \in Conns : /\ 2 * parsed[c] <= got[c] /\ got[c] <= sent[c]
                   /\ sent[c] <= 2 * Len(Stream[c])
                   /\ pc[c] = "hand" => parsed[c] >= 1

\* The jobs are the packages that were parsed, but for those being handed over.
JobsParsed ==
  /\ pending \cap running = {}
  /\ \A c \in Conns : \A i \in DOMAIN Stream[c] :
       Stream[c][i] \in pending \cup running \cup finished
         <=> i <= parsed[c] /\ (pc[c] = "hand" => i # parsed[c])

\* A connection is in conns from Store to Delete, and without requests before and
\* after.
ConnLife ==
  /\ conns = {c \in Conns : pc[c] \in {"top", "arm", "armshort", "read", "parse", "hand",
                                  "drain", "closed"}}
  /\ \A c \in Conns : pc[c] \in {"none", "backlog", "store", "closed", "gone"}
                        => numInvoke[c] = 0

\* What CloseIdles saw of a connection that it took for idle is handled.
SeenDone == \A c \in Conns : /\ seen[c] <= parsed[c]
                             /\ \A i \in 1..seen[c] : Stream[c][i] \in finished

IInv == /\ TypeOK /\ InStream /\ JobsParsed /\ NumInvokeCounts /\ ConnLife
        /\ SeenDone /\ NoResponseDropped

-------------------------------------------------------------------------------
LEMMA ConnOfStream ==
  ASSUME NEW c \in Conns, NEW i \in DOMAIN Stream[c]
  PROVE  Stream[c][i] \in Pkgs /\ ConnOf(Stream[c][i]) = c
<1>1. Stream[c][i] \in Pkgs
  BY StreamAssumption
<1>2. \A d \in Conns : (\E j \in DOMAIN Stream[d] : Stream[d][j] = Stream[c][i]) => d = c
  BY StreamAssumption
<1>3. \E d \in Conns : \E j \in DOMAIN Stream[d] : Stream[d][j] = Stream[c][i]
  OBVIOUS
<1> QED
  BY <1>1, <1>2, <1>3 DEF ConnOf

LEMMA PkgHasConn ==
  ASSUME NEW p \in Pkgs
  PROVE  ConnOf(p) \in Conns /\ \E i \in DOMAIN Stream[ConnOf(p)] : Stream[ConnOf(p)][i] = p
<1>1. \E c \in Conns : \E i \in DOMAIN Stream[c] : Stream[c][i] = p
  BY StreamAssumption
<1> QED
  BY <1>1 DEF ConnOf

\* The packages of a connection are finitely many.
LEMMA UnfinishedFinite ==
  ASSUME TypeOK, NEW c \in Conns
  PROVE  IsFiniteSet(Unfinished(c)) /\ Cardinality(Unfinished(c)) \in Nat
<1> DEFINE n == Len(Stream[c])
           Sent == {Stream[c][i] : i \in 1..n}
           f == [i \in 1..n |-> Stream[c][i]]
<1>1. n \in Nat /\ DOMAIN Stream[c] = 1..n
  BY StreamAssumption
<1>2. IsFiniteSet(1..n)
  BY <1>1, FS_Interval
<1>3. f \in Surjection(1..n, Sent)
  BY DEF Surjection
<1>4. IsFiniteSet(Sent)
  BY <1>2, <1>3, FS_Surjection
<1>5. Unfinished(c) \subseteq Sent
  BY <1>1, PkgHasConn DEF Unfinished, TypeOK
<1>6. IsFiniteSet(Unfinished(c))
  BY <1>4, <1>5, FS_Subset
<1> QED
  BY <1>6, FS_CardinalityType

\* A connection with a request under way has numInvoke above 0.
LEMMA BusyIsCounted ==
  ASSUME TypeOK, NumInvokeCounts, NEW p \in pending \cup running
  PROVE  ConnOf(p) \in Conns /\ numInvoke[ConnOf(p)] > 0
<1>1. p \in Pkgs /\ ConnOf(p) \in Conns
  BY PkgHasConn DEF TypeOK
<1>2. p \in Unfinished(ConnOf(p))
  BY DEF Unfinished
<1>3. Cardinality(Unfinished(ConnOf(p))) \in Nat \ {0}
  BY <1>1, <1>2, UnfinishedFinite, FS_EmptySet
<1> QED
  BY <1>1, <1>3 DEF NumInvokeCounts, Unfinished

\* The package that a connection hands over is the last one parsed, and new.
LEMMA HandedPackage ==
  ASSUME TypeOK, InStream, JobsParsed, NEW c \in Conns, pc[c] = "hand"
  PROVE  /\ parsed[c] \in DOMAIN Stream[c]
         /\ Stream[c][parsed[c]] \in Pkgs /\ ConnOf(Stream[c][parsed[c]]) = c
         /\ Stream[c][parsed[c]] \notin pending \cup running \cup finished
<1>1. Len(Stream[c]) \in Nat /\ DOMAIN Stream[c] = 1..Len(Stream[c])
  BY StreamAssumption
<1>2. parsed[c] \in DOMAIN Stream[c]
  BY <1>1 DEF InStream, TypeOK
<1> QED
  BY <1>2, ConnOfStream DEF JobsParsed

\* What was taken from a connection whose numInvoke is 0 is handled.
LEMMA IdleIsDone ==
  ASSUME TypeOK, InStream, JobsParsed, NumInvokeCounts, NEW c \in Conns, numInvoke[c] = 0,
         NEW i \in 1..parsed[c]
  PROVE  Stream[c][i] \in finished
<1>1. i \in DOMAIN Stream[c]
  <2>1. Len(Stream[c]) \in Nat /\ DOMAIN Stream[c] = 1..Len(Stream[c])
    BY StreamAssumption
  <2> QED BY <2>1 DEF InStream, TypeOK
<1>2. Cardinality(Unfinished(c)) = 0 /\ pc[c] # "hand"
  <2>1. Cardinality(Unfinished(c)) \in Nat
    BY UnfinishedFinite
  <2>2. 0 = Cardinality(Unfinished(c)) + IF pc[c] = "hand" THEN 1 ELSE 0
    BY DEF NumInvokeCounts, Unfinished
  <2> QED BY <2>1, <2>2
<1>3. Unfinished(c) = {}
  BY <1>2, UnfinishedFinite, FS_EmptySet
<1>4. Stream[c][i] \in pending \cup running \cup finished
  BY <1>1, <1>2 DEF JobsParsed, TypeOK
<1> QED
  BY <1>1, <1>3, <1>4, ConnOfStream DEF Unfinished

LEMMA InitIInv == Init => IInv
<1> SUFFICES ASSUME Init PROVE IInv
  OBVIOUS
<1> USE DEF Init, Pool!Init
<1>1. TypeOK
  <2>1. isClosed \in BOOLEAN /\ released \in BOOLEAN
    OBVIOUS
  <2> QED BY <2>1 DEF TypeOK
<1>2. InStream
  <2>1. \A c \in Conns : Len(Stream[c]) \in Nat
    BY StreamAssumption
  <2> QED BY <2>1 DEF InStream
<1>3. JobsParsed
  <2>1. \A c \in Conns : \A i \in DOMAIN Stream[c] : i \in Nat \ {0}
    BY StreamAssumption
  <2> QED BY <2>1 DEF JobsParsed
<1>5. ConnLife /\ SeenDone /\ NoResponseDropped
  BY DEF ConnLife, SeenDone, NoResponseDropped
<1>4. NumInvokeCounts
  <2>1. \A c \in Conns : {p \in pending \cup running : ConnOf(p) = c} = {}
    OBVIOUS
  <2> QED BY <2>1, FS_EmptySet DEF NumInvokeCounts
<1> QED
  BY <1>1, <1>2, <1>3, <1>4, <1>5 DEF IInv

LEMMA NextTypeOK == IInv /\ [Next]_vars => TypeOK'
<1> SUFFICES ASSUME IInv, [Next]_vars PROVE TypeOK'
  OBVIOUS
<1> USE DEF IInv, TypeOK, server, scan, reader, client, jobs, Goto
<1>1. ASSUME NEW c \in Conns, Connect(c) \/ ClientWrite(c) \/ ClientClose(c) PROVE TypeOK'
  <2>1. CASE Connect(c)
    BY <2>1 DEF Connect
  <2>2. CASE ClientWrite(c)
    BY <2>2 DEF ClientWrite
  <2>3. CASE ClientClose(c)
    BY <2>3 DEF ClientClose
  <2> QED BY <1>1, <2>1, <2>2, <2>3
<1>2. ASSUME NEW c \in Conns, Store(c) \/ Top(c) \/ Arm(c) \/ ReadTimesOut(c) \/ ReadEof(c)
      PROVE  TypeOK'
  <2>1. ASSUME Arm(c) PROVE TypeOK'
    <3>1. PICK d \in {"none", "short", "long", "now"} : deadline' = [deadline EXCEPT ![c] = d]
      BY <2>1 DEF Arm
    <3> QED BY <2>1, <3>1 DEF Arm
  <2> QED BY <1>2, <2>1 DEF Store, Top, Arm, ReadTimesOut, ReadEof
<1>3. ASSUME NEW c \in Conns, Read(c) PROVE TypeOK'
  BY <1>3 DEF Read
<1>4. ASSUME NEW c \in Conns,
             Parse(c) \/ ParseLess(c) \/ ParseError(c) \/ Close(c) \/ Delete(c)
      PROVE  TypeOK'
  BY <1>4 DEF Parse, ParseLess, ParseError, Close, Delete
<1>5. ASSUME NEW c \in Conns, HandleConn(c) PROVE TypeOK'
  BY <1>5, HandedPackage DEF HandleConn, Pool!Accept
<1>6. ASSUME NEW p \in Pkgs, Begin(p) \/ Respond(p) PROVE TypeOK'
  BY <1>6 DEF Begin, Respond, Pool!Begin
<1>7. ASSUME NEW p \in Pkgs, HandlerEnds(p) PROVE TypeOK'
  <2>1. p \in running /\ ConnOf(p) \in Conns /\ numInvoke[ConnOf(p)] > 0
    BY <1>7, BusyIsCounted DEF HandlerEnds, Pool!Finish
  <2> QED BY <1>7, <2>1 DEF HandlerEnds, Pool!Finish
<1>8. CASE AcceptLoop
  <2>1. /\ isClosed' \in BOOLEAN /\ released' \in BOOLEAN
        /\ UNCHANGED <<pending, running, finished>>
    BY <1>8 DEF AcceptLoop, AcceptCheck, AcceptError, Release, Accept, Pool!Release
  <2>2. UNCHANGED <<shut, todo, seen, conns, eof, deadline, sent, got, parsed, numInvoke, written,
                  dropped>>
    BY <1>8 DEF AcceptLoop, AcceptCheck, AcceptError, Release, Accept
  <2>3. isListenClosed' \in 0..2 /\ acc' \in {"check", "accept", "release", "done"}
    BY <1>8 DEF AcceptLoop, AcceptCheck, AcceptError, Release, Accept
  <2>4. pc' = pc \/ \E c \in Conns : pc' = [pc EXCEPT ![c] = "store"]
    BY <1>8 DEF AcceptLoop, AcceptCheck, AcceptError, Release, Accept
  <2> QED BY <2>1, <2>2, <2>3, <2>4
<1>9. CASE Shutdown \/ ShutdownStep \/ CtxDone
  <2>1. isClosed' \in BOOLEAN /\ UNCHANGED jobs
    BY <1>9 DEF Shutdown, ShutdownStep, OnShutdown, Tick, RangeConns, Look, CtxDone
  <2>2. UNCHANGED <<acc, pc, conns, eof, sent, got, parsed, numInvoke, written, dropped>>
    BY <1>9 DEF Shutdown, ShutdownStep, OnShutdown, Tick, RangeConns, Look, CtxDone
  <2>3. /\ isListenClosed' \in 0..2
        /\ deadline' \in [Conns -> {"none", "short", "long", "now"}]
    BY <1>9 DEF Shutdown, ShutdownStep, OnShutdown, Tick, RangeConns, Look, CloseMsg, CtxDone
  <2>4. /\ shut' \in {"off", "begin", "wait", "range", "scan", "returned", "ctx"}
        /\ todo' \subseteq Conns /\ seen' \in [Conns -> Nat]
    BY <1>9 DEF Shutdown, ShutdownStep, OnShutdown, Tick, RangeConns, Look, Idle, NotIdle, CtxDone
  <2> QED BY <2>1, <2>2, <2>3, <2>4
<1>10. CASE UNCHANGED vars
  BY <1>10 DEF vars
<1> QED
  BY <1>1, <1>2, <1>3, <1>4, <1>5, <1>6, <1>7, <1>8, <1>9, <1>10
  DEF Next, RecvStep, HandlerStep

LEMMA NextInStream == IInv /\ [Next]_vars => InStream'
<1> SUFFICES ASSUME IInv, [Next]_vars PROVE InStream'
  OBVIOUS
<1> USE DEF IInv, TypeOK, InStream, reader, client, Goto
<1>0. \A c \in Conns : Len(Stream[c]) \in Nat
  BY StreamAssumption
<1>1. ASSUME NEW c \in Conns, ClientWrite(c) PROVE InStream'
  <2>1. /\ sent[c] < 2 * Len(Stream[c]) /\ sent' = [sent EXCEPT ![c] = sent[c] + 1]
        /\ UNCHANGED <<pc, got, parsed>>
    BY <1>1 DEF ClientWrite
  <2>2. ASSUME NEW d \in Conns
        PROVE  got[d] <= sent'[d] /\ sent'[d] <= 2 * Len(Stream[d])
    <3>1. Len(Stream[d]) \in Nat /\ sent[d] \in Nat /\ got[d] \in Nat
      BY <1>0
    <3>2. got[d] <= sent[d] /\ sent[d] <= 2 * Len(Stream[d])
      OBVIOUS
    <3>3. d # c => sent'[d] = sent[d]
      BY <2>1
    <3>4. d = c => sent'[d] = sent[d] + 1 /\ sent[d] < 2 * Len(Stream[d])
      BY <2>1
    <3> QED BY <3>1, <3>2, <3>3, <3>4
  <2> QED BY <2>1, <2>2
<1>2. ASSUME NEW c \in Conns, Read(c) PROVE InStream'
  BY <1>0, <1>2 DEF Read
<1>3. ASSUME NEW c \in Conns, Parse(c) PROVE InStream'
  BY <1>0, <1>3 DEF Parse, Buffered
<1>4. ASSUME NEW c \in Conns,
             \/ Connect(c) \/ ClientClose(c) \/ Store(c) \/ Top(c) \/ Arm(c) \/ ReadTimesOut(c)
             \/ ReadEof(c) \/ ParseLess(c) \/ ParseError(c) \/ HandleConn(c) \/ Close(c)
             \/ Delete(c) \/ Accept(c)
      PROVE  InStream'
  BY <1>4 DEF Connect, ClientClose, Store, Top, Arm, ReadTimesOut, ReadEof, ParseLess, ParseError,
              HandleConn, Close, Delete, Accept
<1>5. CASE UNCHANGED <<pc, got, parsed, sent>>
  BY <1>5
<1>6. \/ \E c \in Conns : \/ ClientWrite(c) \/ Read(c) \/ Parse(c)
                          \/ Connect(c) \/ ClientClose(c) \/ Store(c) \/ Top(c) \/ Arm(c)
                          \/ ReadTimesOut(c) \/ ReadEof(c) \/ ParseLess(c) \/ ParseError(c)
                          \/ HandleConn(c) \/ Close(c) \/ Delete(c) \/ Accept(c)
      \/ UNCHANGED <<pc, got, parsed, sent>>
  BY DEF Next, RecvStep, HandlerStep, Begin, Respond, HandlerEnds, AcceptLoop, AcceptCheck,
         AcceptError, Release, Shutdown, ShutdownStep, OnShutdown, Tick, RangeConns, Look, CtxDone,
         vars
<1> QED
  BY <1>1, <1>2, <1>3, <1>4, <1>5, <1>6

LEMMA NextJobsParsed == IInv /\ [Next]_vars => JobsParsed'
<1> SUFFICES ASSUME IInv, [Next]_vars PROVE JobsParsed'
  OBVIOUS
<1> USE DEF IInv, TypeOK, JobsParsed, reader, jobs, Goto
<1>0. ASSUME NEW c \in Conns, NEW i \in DOMAIN Stream[c] PROVE i \in Nat
  <2>1. Stream[c] \in Seq(Pkgs)
    BY StreamAssumption
  <2>2. DOMAIN Stream[c] = 1..Len(Stream[c])
    BY <2>1
  <2> QED BY <2>2
<1>1. ASSUME NEW c \in Conns, Parse(c) PROVE JobsParsed'
  <2>1. /\ pc' = [pc EXCEPT ![c] = "hand"] /\ pc[c] = "parse"
        /\ parsed' = [parsed EXCEPT ![c] = parsed[c] + 1]
        /\ UNCHANGED <<pending, running, finished>>
    BY <1>1 DEF Parse
  <2>2. ASSUME NEW d \in Conns, NEW i \in DOMAIN Stream[d]
        PROVE  Stream[d][i] \in pending \cup running \cup finished
                 <=> i <= parsed'[d] /\ (pc'[d] = "hand" => i # parsed'[d])
    <3>1. i \in Nat /\ parsed[d] \in Nat
      BY <1>0
    <3> QED BY <2>1, <3>1
  <2> QED BY <2>1, <2>2
<1>2. ASSUME NEW c \in Conns, HandleConn(c) PROVE JobsParsed'
  <2>1. PICK p \in Pkgs : p = Stream[c][parsed[c]]
    BY <1>2, HandedPackage DEF HandleConn
  <2>2. /\ parsed[c] \in DOMAIN Stream[c] /\ ConnOf(p) = c
        /\ p \notin pending \cup running \cup finished
    BY <1>2, <2>1, HandedPackage DEF HandleConn
  <2>3. /\ pc' = [pc EXCEPT ![c] = "parse"] /\ parsed' = parsed /\ pc[c] = "hand"
        /\ \/ pending' = pending \cup {p} /\ running' = running
           \/ pending' = pending /\ running' = running \cup {p}
        /\ finished' = finished
    BY <1>2, <2>1 DEF HandleConn, Pool!Accept
  <2>4. (pending \cap running = {})'
    BY <2>2, <2>3
  <2>5. ASSUME NEW d \in Conns, NEW i \in DOMAIN Stream[d]
        PROVE  Stream[d][i] \in pending' \cup running' \cup finished'
                 <=> i <= parsed[d] /\ (pc'[d] = "hand" => i # parsed[d])
    <3>1. Stream[d][i] = p <=> d = c /\ i = parsed[c]
      <4>1. Stream[d][i] = Stream[c][parsed[c]] => d = c /\ i = parsed[c]
        BY <2>2, StreamAssumption
      <4> QED BY <2>1, <4>1
    <3>2. i \in Nat /\ parsed[c] \in Nat
      BY <1>0
    <3> QED BY <2>3, <3>1, <3>2
  <2> QED BY <2>3, <2>4, <2>5
<1>3. ASSUME NEW p \in Pkgs, Begin(p) \/ HandlerEnds(p) PROVE JobsParsed'
  BY <1>3 DEF Begin, HandlerEnds, Pool!Begin, Pool!Finish
<1>4. ASSUME NEW c \in Conns,
             \/ Connect(c) \/ ClientWrite(c) \/ ClientClose(c) \/ Store(c) \/ Top(c) \/ Arm(c)
             \/ Read(c) \/ ReadTimesOut(c) \/ ReadEof(c) \/ ParseLess(c) \/ ParseError(c)
             \/ Close(c) \/ Delete(c) \/ Accept(c)
      PROVE  JobsParsed'
  BY <1>4 DEF Connect, ClientWrite, ClientClose, Store, Top, Arm, Read, ReadTimesOut, ReadEof,
              ParseLess, ParseError, Close, Delete, Accept
<1>5. CASE UNCHANGED <<pc, parsed, pending, running, finished>>
  BY <1>5
<1>6. \/ \E c \in Conns : \/ Parse(c) \/ HandleConn(c)
                          \/ Connect(c) \/ ClientWrite(c) \/ ClientClose(c) \/ Store(c)
                          \/ Top(c) \/ Arm(c) \/ Read(c) \/ ReadTimesOut(c) \/ ReadEof(c)
                          \/ ParseLess(c) \/ ParseError(c) \/ Close(c) \/ Delete(c)
                          \/ Accept(c)
      \/ \E p \in Pkgs : Begin(p) \/ HandlerEnds(p)
      \/ UNCHANGED <<pc, parsed, pending, running, finished>>
  BY DEF Next, RecvStep, HandlerStep, Respond, AcceptLoop, AcceptCheck,
         AcceptError, Release, Pool!Release, Shutdown, ShutdownStep, OnShutdown, Tick,
         RangeConns, Look, CtxDone, vars
<1> QED
  BY <1>1, <1>2, <1>3, <1>4, <1>5, <1>6

LEMMA NextCounts == IInv /\ [Next]_vars => NumInvokeCounts'
<1> SUFFICES ASSUME IInv, [Next]_vars PROVE NumInvokeCounts'
  OBVIOUS
<1> USE DEF IInv, Goto
<1>t. DOMAIN pc = Conns /\ numInvoke \in [Conns -> Nat]
  BY DEF TypeOK
<1>n. \A c \in Conns : numInvoke[c] = Cardinality(Unfinished(c))
                                      + IF pc[c] = "hand" THEN 1 ELSE 0
  BY DEF NumInvokeCounts, Unfinished
<1>c. \A c \in Conns : IsFiniteSet(Unfinished(c)) /\ Cardinality(Unfinished(c)) \in Nat
  BY UnfinishedFinite
<1>q. SUFFICES ASSUME NEW c \in Conns
               PROVE  (numInvoke[c] = Cardinality(Unfinished(c))
                                      + IF pc[c] = "hand" THEN 1 ELSE 0)'
  BY DEF NumInvokeCounts, Unfinished
<1>1. ASSUME NEW d \in Conns, Parse(d)
      PROVE  (numInvoke[c] = Cardinality(Unfinished(c)) + IF pc[c] = "hand" THEN 1 ELSE 0)'
  <2>1. /\ pc' = [pc EXCEPT ![d] = "hand"] /\ pc[d] = "parse"
        /\ numInvoke' = [numInvoke EXCEPT ![d] = numInvoke[d] + 1]
        /\ UNCHANGED <<pending, running>>
    BY <1>1 DEF Parse, jobs
  <2>2. Unfinished(c)' = Unfinished(c)
    BY <2>1 DEF Unfinished
  <2> QED BY <1>t, <1>n, <1>c, <2>1, <2>2
<1>2. ASSUME NEW d \in Conns, HandleConn(d)
      PROVE  (numInvoke[c] = Cardinality(Unfinished(c)) + IF pc[c] = "hand" THEN 1 ELSE 0)'
  <2>1. PICK p \in Pkgs : p = Stream[d][parsed[d]]
    BY <1>2, HandedPackage DEF HandleConn
  <2>2. ConnOf(p) = d /\ p \notin pending \cup running
    BY <1>2, <2>1, HandedPackage DEF HandleConn
  <2>3. /\ pc' = [pc EXCEPT ![d] = "parse"] /\ pc[d] = "hand" /\ numInvoke' = numInvoke
        /\ pending' \cup running' = (pending \cup running) \cup {p}
    BY <1>2, <2>1 DEF HandleConn, Pool!Accept
  <2>4. CASE c = d
    <3>1. Unfinished(c)' = Unfinished(c) \cup {p} /\ p \notin Unfinished(c)
      BY <2>2, <2>3, <2>4 DEF Unfinished
    <3>2. Cardinality(Unfinished(c))' = Cardinality(Unfinished(c)) + 1
      BY <1>c, <3>1, FS_AddElement
    <3> QED BY <1>t, <1>n, <1>c, <2>3, <2>4, <3>2
  <2>5. CASE c # d
    <3>1. Unfinished(c)' = Unfinished(c)
      BY <2>2, <2>3, <2>5 DEF Unfinished
    <3> QED BY <1>t, <1>n, <1>c, <2>3, <2>5, <3>1
  <2> QED BY <2>4, <2>5
<1>3. ASSUME NEW p \in Pkgs, HandlerEnds(p)
      PROVE  (numInvoke[c] = Cardinality(Unfinished(c)) + IF pc[c] = "hand" THEN 1 ELSE 0)'
  <2> DEFINE d == ConnOf(p)
  <2>1. /\ p \in running /\ p \notin pending
        /\ running' = running \ {p} /\ pending' = pending /\ pc' = pc
        /\ numInvoke' = [numInvoke EXCEPT ![d] = numInvoke[d] - 1]
    BY <1>3 DEF HandlerEnds, Pool!Finish, JobsParsed
  <2>2. d \in Conns
    BY PkgHasConn
  <2>3. CASE c = d
    <3>1. Unfinished(c)' = Unfinished(c) \ {p} /\ p \in Unfinished(c)
      BY <2>1, <2>3 DEF Unfinished
    <3>2. Cardinality(Unfinished(c))' = Cardinality(Unfinished(c)) - 1
      BY <1>c, <3>1, FS_RemoveElement
    <3> QED BY <1>t, <1>n, <1>c, <2>1, <2>2, <2>3, <3>2
  <2>4. CASE c # d
    <3>1. Unfinished(c)' = Unfinished(c)
      BY <2>1, <2>4 DEF Unfinished
    <3> QED BY <1>t, <1>n, <1>c, <2>1, <2>2, <2>4, <3>1
  <2> QED BY <2>3, <2>4
<1>4. CASE /\ UNCHANGED <<numInvoke, pending \cup running>>
           /\ \A d \in Conns : pc'[d] = "hand" <=> pc[d] = "hand"
  <2>1. Unfinished(c)' = Unfinished(c)
    BY <1>4 DEF Unfinished
  <2> QED BY <1>4, <1>n, <2>1
<1>5. ASSUME NEW d \in Conns,
             \/ Connect(d) \/ ClientWrite(d) \/ ClientClose(d) \/ Store(d) \/ Top(d) \/ Arm(d)
             \/ Read(d) \/ ReadTimesOut(d) \/ ReadEof(d) \/ ParseLess(d) \/ ParseError(d)
             \/ Close(d) \/ Delete(d) \/ Accept(d)
      PROVE  /\ UNCHANGED <<numInvoke, pending \cup running>>
             /\ \A e \in Conns : pc'[e] = "hand" <=> pc[e] = "hand"
  <2>1. UNCHANGED <<numInvoke, pending, running>>
    BY <1>5 DEF Connect, ClientWrite, ClientClose, Store, Top, Arm, Read, ReadTimesOut, ReadEof,
                ParseLess, ParseError, Close, Delete, Accept, jobs
  <2>2. \/ pc' = pc
        \/ /\ pc[d] # "hand"
           /\ \E l \in {"backlog", "store", "top", "arm", "armshort", "read", "parse", "drain", "closed",
                    "gone"} :
                pc' = [pc EXCEPT ![d] = l]
    BY <1>5 DEF Connect, ClientWrite, ClientClose, Store, Top, Arm, Read, ReadTimesOut, ReadEof,
                ParseLess, ParseError, Close, Delete, Accept
  <2> QED BY <1>t, <2>1, <2>2
<1>6. ASSUME \/ \E p \in Pkgs : Begin(p) \/ Respond(p)
             \/ AcceptCheck \/ AcceptError \/ Release \/ Shutdown \/ ShutdownStep
             \/ CtxDone \/ UNCHANGED vars
      PROVE  /\ UNCHANGED <<numInvoke, pending \cup running>>
             /\ \A d \in Conns : pc'[d] = "hand" <=> pc[d] = "hand"
  <2>1. CASE \E p \in Pkgs : Begin(p)
    BY <2>1 DEF Begin, Pool!Begin
  <2>2. CASE \/ \E p \in Pkgs : Respond(p)
             \/ AcceptCheck \/ AcceptError \/ Release \/ Shutdown \/ ShutdownStep
             \/ CtxDone \/ UNCHANGED vars
    <3>1. UNCHANGED <<numInvoke, pending, running, pc>>
      BY <2>2 DEF Respond, AcceptCheck, AcceptError, Release, Pool!Release, Shutdown,
                  ShutdownStep, OnShutdown, Tick, RangeConns, Look, CtxDone, vars, jobs
    <3> QED BY <3>1
  <2> QED BY <1>6, <2>1, <2>2
<1> QED
  BY <1>1, <1>2, <1>3, <1>4, <1>5, <1>6 DEF Next, RecvStep, HandlerStep, AcceptLoop

LEMMA NextConnLife == IInv /\ [Next]_vars => ConnLife'
<1> SUFFICES ASSUME IInv, [Next]_vars PROVE ConnLife'
  OBVIOUS
<1> USE DEF ConnLife, Goto
<1>t. DOMAIN pc = Conns /\ numInvoke \in [Conns -> Nat]
  BY DEF IInv, TypeOK
<1>l. ConnLife
  BY DEF IInv
<1>1. ASSUME NEW c \in Conns, Connect(c) \/ Accept(c) PROVE ConnLife'
  <2>1. UNCHANGED <<conns, numInvoke>>
    BY <1>1 DEF Connect, Accept
  <2>2. /\ pc[c] \in {"none", "backlog"}
        /\ pc' = [pc EXCEPT ![c] = "backlog"] \/ pc' = [pc EXCEPT ![c] = "store"]
    BY <1>1 DEF Connect, Accept
  <2> QED BY <1>t, <1>l, <2>1, <2>2
<1>2. ASSUME NEW c \in Conns, Store(c) \/ Delete(c) PROVE ConnLife'
  BY <1>t, <1>l, <1>2 DEF Store, Delete
<1>3. ASSUME NEW c \in Conns, \/ Top(c) \/ Arm(c) \/ Read(c) \/ ReadTimesOut(c) \/ ReadEof(c)
                              \/ ParseLess(c) \/ ParseError(c) \/ HandleConn(c)
      PROVE  ConnLife'
  <2>1. UNCHANGED <<conns, numInvoke>>
    BY <1>3 DEF Top, Arm, Read, ReadTimesOut, ReadEof, ParseLess, ParseError, HandleConn
  <2>2. /\ pc[c] \in {"top", "arm", "armshort", "read", "parse", "hand"}
        /\ \E l \in {"top", "arm", "armshort", "read", "parse", "drain"} : pc' = [pc EXCEPT ![c] = l]
    BY <1>3 DEF Top, Arm, Read, ReadTimesOut, ReadEof, ParseLess, ParseError, HandleConn
  <2> QED BY <1>t, <1>l, <2>1, <2>2
<1>4. ASSUME NEW c \in Conns, Parse(c) \/ Close(c) PROVE ConnLife'
  BY <1>t, <1>l, <1>4 DEF Parse, Close
<1>5. ASSUME NEW p \in Pkgs, HandlerEnds(p) PROVE ConnLife'
  <2>1. p \in running /\ ConnOf(p) \in Conns /\ numInvoke[ConnOf(p)] > 0
    BY <1>5, BusyIsCounted DEF HandlerEnds, Pool!Finish, IInv
  <2>2. /\ UNCHANGED <<pc, conns>>
        /\ numInvoke' = [numInvoke EXCEPT ![ConnOf(p)] = numInvoke[ConnOf(p)] - 1]
    BY <1>5 DEF HandlerEnds
  <2> QED BY <1>t, <1>l, <2>1, <2>2
<1>6. CASE UNCHANGED <<pc, conns, numInvoke>>
  BY <1>l, <1>6
<1>7. \/ \E c \in Conns : \/ Connect(c) \/ Accept(c) \/ Store(c) \/ Delete(c) \/ Top(c) \/ Arm(c)
                          \/ Read(c) \/ ReadTimesOut(c) \/ ReadEof(c) \/ ParseLess(c)
                          \/ ParseError(c) \/ HandleConn(c) \/ Parse(c) \/ Close(c)
      \/ \E p \in Pkgs : HandlerEnds(p)
      \/ UNCHANGED <<pc, conns, numInvoke>>
  BY DEF Next, RecvStep, HandlerStep, ClientWrite, ClientClose, Begin, Respond, AcceptLoop,
         AcceptCheck, AcceptError, Release, Shutdown, ShutdownStep, OnShutdown, Tick,
         RangeConns, Look, CtxDone, vars
<1> QED
  BY <1>1, <1>2, <1>3, <1>4, <1>5, <1>6, <1>7

LEMMA NextSeen == IInv /\ [Next]_vars => SeenDone'
<1> SUFFICES ASSUME IInv, [Next]_vars PROVE SeenDone'
  OBVIOUS
<1> USE DEF SeenDone
<1>t. /\ seen \in [Conns -> Nat] /\ parsed \in [Conns -> Nat] /\ SeenDone
  BY DEF IInv, TypeOK
<1>1. CASE RangeConns
  <2>1. /\ seen' = [c \in Conns |-> IF c \in conns THEN 0 ELSE parsed[c]]
        /\ UNCHANGED <<parsed, finished>>
    BY <1>1 DEF RangeConns, reader, jobs
  <2>2. ASSUME NEW c \in Conns, c \notin conns, NEW i \in 1..parsed[c]
        PROVE  Stream[c][i] \in finished
    <3>1. numInvoke[c] = 0
      BY <2>2 DEF IInv, TypeOK, ConnLife
    <3> QED BY <3>1, IdleIsDone DEF IInv
  <2> QED BY <1>t, <2>1, <2>2
<1>2. ASSUME NEW c \in Conns, Look(c) PROVE SeenDone'
  <2>1. UNCHANGED <<parsed, finished>>
    BY <1>2 DEF Look, reader, jobs
  <2>2. CASE numInvoke[c] = 0 /\ Idle(c)
    <3>1. \A i \in 1..parsed[c] : Stream[c][i] \in finished
      BY <2>2, IdleIsDone DEF IInv
    <3> QED BY <1>t, <2>1, <2>2, <3>1 DEF Idle
  <2>3. CASE NotIdle
    BY <1>t, <2>1, <2>3 DEF NotIdle
  <2> QED BY <1>2, <2>2, <2>3 DEF Look
<1>3. ASSUME NEW c \in Conns, Parse(c) PROVE SeenDone'
  <2>1. parsed' = [parsed EXCEPT ![c] = parsed[c] + 1] /\ UNCHANGED <<seen, finished>>
    BY <1>3 DEF Parse, server, scan, jobs
  <2> QED BY <1>t, <2>1
<1>4. ASSUME NEW p \in Pkgs, HandlerEnds(p) PROVE SeenDone'
  <2>1. UNCHANGED <<seen, parsed>> /\ finished \subseteq finished'
    BY <1>4 DEF HandlerEnds, Pool!Finish, server, scan, reader
  <2> QED BY <1>t, <2>1
<1>5. CASE UNCHANGED <<seen, parsed, finished>>
  BY <1>t, <1>5
<1>6. \/ RangeConns \/ \E c \in Conns : Look(c) \/ Parse(c)
      \/ \E p \in Pkgs : HandlerEnds(p)
      \/ UNCHANGED <<seen, parsed, finished>>
  BY DEF Next, RecvStep, HandlerStep, Connect, ClientWrite, ClientClose, Store, Top, Arm, Read,
         ReadTimesOut, ReadEof, ParseLess, ParseError, HandleConn, Pool!Accept, Close, Delete,
         Begin, Pool!Begin, Respond, AcceptLoop, Accept, AcceptCheck, AcceptError, Release,
         Pool!Release, Shutdown, ShutdownStep, OnShutdown, Tick, CtxDone, vars, server, scan,
         reader, jobs
<1> QED
  BY <1>1, <1>2, <1>3, <1>4, <1>5, <1>6

LEMMA NextDropped == IInv /\ [Next]_vars => NoResponseDropped'
<1> SUFFICES ASSUME IInv, [Next]_vars PROVE NoResponseDropped'
  OBVIOUS
<1>1. ASSUME NEW p \in Pkgs, Respond(p) PROVE NoResponseDropped'
  <2>1. p \in running /\ ConnOf(p) \in Conns /\ numInvoke[ConnOf(p)] > 0
    BY <1>1, BusyIsCounted DEF Respond, IInv
  <2>2. pc[ConnOf(p)] \notin {"closed", "gone"}
    BY <2>1 DEF IInv, ConnLife
  <2> QED BY <1>1, <2>2 DEF Respond, NoResponseDropped, IInv
<1>2. CASE UNCHANGED dropped
  BY <1>2 DEF NoResponseDropped, IInv
<1>3. (\E p \in Pkgs : Respond(p)) \/ UNCHANGED dropped
  BY DEF Next, RecvStep, HandlerStep, Connect, ClientWrite, ClientClose, Store, Top, Arm, Read,
         ReadTimesOut, ReadEof, Parse, ParseLess, ParseError, HandleConn, Close, Delete, Begin,
         HandlerEnds, AcceptLoop, Accept, AcceptCheck, AcceptError, Release, Shutdown,
         ShutdownStep, OnShutdown, Tick, RangeConns, Look, CtxDone, vars
<1> QED
  BY <1>1, <1>2, <1>3

-------------------------------------------------------------------------------
\* The inductive invariant.
THEOREM Invariance == Spec => []IInv
<1>1. IInv /\ [Next]_vars => IInv'
  BY NextTypeOK, NextInStream, NextJobsParsed, NextCounts, NextConnLife, NextSeen, NextDropped
  DEF IInv
<1> QED
  BY InitIInv, <1>1, PTL DEF Spec

\* numInvoke of a connection is exact on every path of recv and of the handlers.
THEOREM InvokesAreCounted == Spec => []NumInvokeCounts
<1>1. IInv => NumInvokeCounts
  BY DEF IInv
<1> QED
  BY Invariance, <1>1, PTL

\* recv closes a connection only when each request it took from it is answered.
THEOREM ResponsesAreWritten == Spec => []NoResponseDropped
<1>1. IInv => NoResponseDropped
  BY DEF IInv
<1> QED
  BY Invariance, <1>1, PTL

\* When Shutdown returns by itself, what was taken from a connection before
\* CloseIdles looked at it has been handled to its end.
THEOREM ShutdownIsGraceful == Spec => []GracefulReturn
<1>1. IInv => GracefulReturn
  BY DEF IInv, SeenDone, GracefulReturn
<1> QED
  BY Invariance, <1>1, PTL
===============================================================================
