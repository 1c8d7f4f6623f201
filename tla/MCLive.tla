-------------------------------- MODULE MCLive --------------------------------
(***************************************************************************)
(* The pool, and what must happen in the end for the client transport and  *)
(* the remote call: one state space with three parts, in each of which the *)
(* other two components are at rest, with no goroutine that could take a   *)
(* step by itself.  The fairness is that of the components.                *)
(***************************************************************************)
EXTENDS Gpool, Integers

CONSTANTS w1, w2, m1, m2, d1, d2, None

VARIABLES
  part,     \* the component at work
  cClosed, cCur, cDialled, cConns, cQueue, cFailQueue, cInvokeNum, cSender, cInHand,
  cRecver, cConnDone, cCaller, cCloser, cFound, cWrites, cSentOn, cReplied, cPushed,
  cFaults,
  iMsgID, iPc, iId, iResp, iQueueLen, iInvokeNum, iGot, iResult, iRecv, iReadCh

cVars == << cClosed, cCur, cDialled, cConns, cQueue, cFailQueue, cInvokeNum, cSender,
            cInHand, cRecver, cConnDone, cCaller, cCloser, cFound, cWrites, cSentOn,
            cReplied, cPushed, cFaults >>
iVars == << iMsgID, iPc, iId, iResp, iQueueLen, iInvokeNum, iGot, iResult, iRecv, iReadCh >>

\* Two requests, one of them one-way, two connections, one network fault.
C == INSTANCE TarsClient WITH
  Msgs <- {m1, m2}, OneWay <- {m2}, QueueLen <- 1, MaxConns <- 2, MaxFaults <- 1,
  MaxPush <- 0, MaxCloses <- 0, NoMsg <- None,
  isClosed <- cClosed, cur <- cCur, dialled <- cDialled, conns <- cConns,
  sendQueue <- cQueue, sendFailQueue <- cFailQueue, invokeNum <- cInvokeNum,
  sender <- cSender, inHand <- cInHand, recver <- cRecver, connDone <- cConnDone,
  caller <- cCaller, closer <- cCloser, found <- cFound, writes <- cWrites,
  sentOn <- cSentOn, replied <- cReplied, pushed <- cPushed, faults <- cFaults

\* Two calls, one of them one-way, around the overflow of msgID.
I == INSTANCE Invoke WITH
  Calls <- {d1, d2}, OneWay <- {d2}, Pings <- {}, MaxInt <- 4, FirstIds <- {3},
  ObjQueueMax <- 0, MaxCopies <- 1,
  msgID <- iMsgID, pc <- iPc, id <- iId, resp <- iResp, queueLen <- iQueueLen,
  invokeNum <- iInvokeNum, got <- iGot, result <- iResult, recv <- iRecv, readCh <- iReadCh

\* The components at rest: the client has dialled no connection and has no
\* goroutine; both calls have returned; all workers wait for a job.
CallsAtRest ==
  /\ iMsgID = 3 /\ iPc = [c \in {d1, d2} |-> "done"] /\ iId = [c \in {d1, d2} |-> 0]
  /\ iResp = [n \in I!Ids |-> None] /\ iQueueLen = 0 /\ iInvokeNum = 0
  /\ iGot = [c \in {d1, d2} |-> None] /\ iResult = [c \in {d1, d2} |-> "none"]
  /\ iRecv = [p \in I!Packets \cup {I!Push} |-> "idle"]
  /\ iReadCh = [p \in I!Packets \cup {I!Push} |-> None]

PoolAtRest ==
  /\ jobQueue = << >> /\ workerQueue = << w1, w2 >>
  /\ worker = [w \in Workers |-> "wait"] /\ hand = [w \in Workers |-> NoJob]
  /\ dispatcher = "select" /\ dJob = NoJob /\ dWorker = NoWorker /\ stopped = 0
  /\ releaser = "idle" /\ submitted = {} /\ ran = [j \in Jobs |-> 0]

LiveInit ==
  /\ part \in {"client", "calls", "pool"}
  /\ C!Init
  /\ IF part = "calls" THEN I!Init ELSE CallsAtRest
  /\ IF part = "pool" THEN Init ELSE PoolAtRest

LiveNext ==
  \/ part = "client" /\ C!Next /\ UNCHANGED << part, iVars, vars >>
  \/ part = "calls" /\ I!Next /\ UNCHANGED << part, cVars, vars >>
  \/ part = "pool" /\ Next /\ UNCHANGED << part, cVars, iVars >>

LiveSpec ==
  /\ LiveInit /\ [][LiveNext]_<< part, cVars, iVars, vars >>
  /\ C!Fairness /\ I!Fairness /\ Fairness
-------------------------------------------------------------------------------
\* TarsClient: a dead connection does not stay in use, and the goroutines of a
\* closed connection end.
ConnectionsEnd == C!DeadConnectionNoticed /\ C!GoroutinesEnd

\* Invoke: every call returns, though no reply need ever arrive, and the
\* goroutine of every package ends, also of a reply nobody waits for.
CallsEnd == I!CallsReturn /\ I!RecvEnds

===============================================================================
