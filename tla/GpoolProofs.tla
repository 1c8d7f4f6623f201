----------------------------- MODULE GpoolProofs ------------------------------
(***************************************************************************)
(* Proofs about Gpool for any number of workers and jobs and any queue     *)
(* length.                                                                 *)
(***************************************************************************)
EXTENDS Gpool, FiniteSetTheorems, TLAPS

Serving == {"select", "getWorker", "handJob"}
Stopping == {"stopGet", "stopSend", "stopAck", "reply"}
Done == {w \in Workers : worker[w] = "done"}

\* What the dispatcher holds, and the worker it is talking to.
DispatcherHolds ==
  /\ dWorker # NoWorker <=> dispatcher \in {"handJob", "stopSend", "stopAck"}
  /\ dJob # NoJob <=> dispatcher \in {"getWorker", "handJob"}
  /\ dispatcher \in {"handJob", "stopSend"} => worker[dWorker] = "wait"
  /\ dispatcher = "stopAck" => worker[dWorker] = "ack"
  /\ \A w \in Workers : worker[w] = "ack" => dispatcher = "stopAck" /\ dWorker = w
  /\ \A w \in Workers : hand[w] # NoJob <=> worker[w] = "run"

\* The releaser and the dispatcher are in matching phases.
Phases ==
  /\ releaser \in {"idle", "send"} => dispatcher \in Serving
  /\ releaser = "wait" => dispatcher \in Stopping
  /\ releaser = "done" => dispatcher = "done"

\* i counts the workers that have returned; the loop ends with all of them.
StopCount ==
  /\ dispatcher \in Serving => stopped = 0
  /\ stopped = Cardinality(Done)
  /\ dispatcher \in {"reply", "done"} => stopped = NumWorkers

IInv == TypeOK /\ OfferedWorkersWait /\ DispatcherHolds /\ Phases /\ StopCount

LEMMA DoneCounted ==
  ASSUME TypeOK, NEW w \in Workers, worker[w] # "done",
         Done' = Done \cup {w}
  PROVE  Cardinality(Done)' = Cardinality(Done) + 1
<1>1. IsFiniteSet(Done)
  BY FS_Subset, WorkersAssumption DEF Done
<1>2. w \notin Done
  BY DEF Done
<1> QED
  BY <1>1, <1>2, FS_AddElement

\* When the loop has counted every worker, every worker has returned.
LEMMA AllCounted ==
  ASSUME Cardinality(Done) = NumWorkers
  PROVE  \A w \in Workers : worker[w] = "done"
<1>1. Done \subseteq Workers
  BY DEF Done
<1>2. Done = Workers
  BY <1>1, FS_Subset, WorkersAssumption DEF NumWorkers
<1> QED
  BY <1>2 DEF Done

LEMMA InitIInv == Init => IInv
<1> SUFFICES ASSUME Init PROVE IInv
  OBVIOUS
<1>1. TypeOK
  BY QueueAssumption DEF Init, TypeOK, WorkerPC, DispatchPC, ReleasePC
<1>2. OfferedWorkersWait
  BY DEF Init, OfferedWorkersWait, Queued
<1>3. DispatcherHolds /\ Phases
  BY DEF Init, DispatcherHolds, Phases, Serving, Stopping
<1>4. Done = {}
  BY DEF Init, Done
<1>5. StopCount
  BY <1>4, FS_EmptySet DEF Init, StopCount, Serving
<1> QED
  BY <1>1, <1>2, <1>3, <1>5 DEF IInv

LEMMA NextTypeOK == TypeOK /\ [Next]_vars => TypeOK'
<1> SUFFICES ASSUME TypeOK, [Next]_vars PROVE TypeOK'
  OBVIOUS
<1> USE QueueAssumption DEF TypeOK, WorkerPC, DispatchPC, ReleasePC
<1>1. ASSUME NEW j \in Jobs, Submit(j) PROVE TypeOK'
  BY <1>1 DEF Submit, workerVars, dispatchVars
<1>2. ASSUME NEW w \in Workers, WorkerEnqueue(w) PROVE TypeOK'
  BY <1>2 DEF WorkerEnqueue, dispatchVars
<1>3. ASSUME NEW w \in Workers, WorkerFinish(w) PROVE TypeOK'
  <2>1. ran' \in [Jobs -> Nat]
    <3>1. ran' = [j \in Jobs |-> IF j = hand[w] THEN ran[j] + 1 ELSE ran[j]]
      BY <1>3 DEF WorkerFinish
    <3> QED BY <3>1
  <2> QED BY <1>3, <2>1 DEF WorkerFinish, dispatchVars
<1>4. ASSUME NEW w \in Workers, HandJob(w) PROVE TypeOK'
  BY <1>4 DEF HandJob
<1>5. ASSUME NEW w \in Workers, StopWorker(w) PROVE TypeOK'
  BY <1>5 DEF StopWorker
<1>6. ASSUME NEW w \in Workers, AckStop(w) PROVE TypeOK'
  BY <1>6 DEF AckStop
<1>7. CASE DispatchJob
  BY <1>7 DEF DispatchJob, workerVars
<1>8. CASE DispatchGetWorker
  BY <1>8 DEF DispatchGetWorker, workerVars
<1>9. CASE StopDispatcher \/ StopLoopEnds \/ ReleaseReturns \/ CallRelease
  BY <1>9 DEF StopDispatcher, StopLoopEnds, ReleaseReturns, CallRelease, workerVars,
              dispatchVars
<1>10. CASE UNCHANGED vars
  BY <1>10 DEF vars
<1> QED
  BY <1>1, <1>2, <1>3, <1>4, <1>5, <1>6, <1>7, <1>8, <1>9, <1>10
  DEF Next, WorkerStep, DispatcherStep

LEMMA NextOffered ==
  TypeOK /\ OfferedWorkersWait /\ DispatcherHolds /\ [Next]_vars
    => OfferedWorkersWait'
<1> SUFFICES ASSUME TypeOK, OfferedWorkersWait, DispatcherHolds, [Next]_vars
             PROVE  OfferedWorkersWait'
  OBVIOUS
<1> USE DEF TypeOK, OfferedWorkersWait, Queued
<1>1. ASSUME NEW w \in Workers, WorkerEnqueue(w) PROVE OfferedWorkersWait'
  <2> DEFINE n == Len(workerQueue)
  <2>1. /\ n \in Nat /\ DOMAIN workerQueue = 1..n
        /\ workerQueue' = Append(workerQueue, w) /\ DOMAIN workerQueue' = 1..n + 1
        /\ workerQueue'[n + 1] = w
        /\ \A i \in 1..n : workerQueue'[i] = workerQueue[i]
    BY <1>1 DEF WorkerEnqueue
  <2>2. worker' = [worker EXCEPT ![w] = "wait"] /\ dWorker' = dWorker
    BY <1>1 DEF WorkerEnqueue, dispatchVars
  <2>3. \A i \in 1..n : workerQueue[i] # w
    BY <1>1, <2>1 DEF WorkerEnqueue
  <2>4. dWorker # w
    BY <1>1, WorkersAssumption DEF WorkerEnqueue, DispatcherHolds
  <2>5. (\A i, k \in DOMAIN workerQueue : workerQueue[i] = workerQueue[k] => i = k)'
    BY <2>1, <2>3
  <2>6. ASSUME NEW v \in Workers
        PROVE (Queued(v) => worker[v] = "wait" /\ dWorker # v)'
    BY <2>1, <2>2, <2>4
  <2>7. ASSUME NEW v \in Workers
        PROVE (worker[v] = "wait" => Queued(v) \/ dWorker = v)'
    <3>1. CASE v = w
      BY <3>1, <2>1
    <3>2. CASE v # w
      BY <3>2, <2>1, <2>2
    <3> QED BY <3>1, <3>2
  <2> QED BY <2>5, <2>6, <2>7
<1>2. ASSUME NEW w \in Workers, WorkerFinish(w) PROVE OfferedWorkersWait'
  BY <1>2 DEF WorkerFinish, dispatchVars
<1>3. ASSUME NEW w \in Workers, HandJob(w) \/ StopWorker(w) PROVE OfferedWorkersWait'
  BY <1>3, WorkersAssumption DEF HandJob, StopWorker
<1>4. ASSUME NEW w \in Workers, AckStop(w) PROVE OfferedWorkersWait'
  BY <1>4, WorkersAssumption DEF AckStop
<1>5. CASE DispatchGetWorker
  <2> DEFINE n == Len(workerQueue)
             h == workerQueue[1]
  <2>1. /\ n \in Nat \ {0} /\ DOMAIN workerQueue = 1..n
        /\ dWorker' = h /\ h \in Workers /\ worker' = worker
        /\ DOMAIN workerQueue' = 1..n - 1
        /\ \A i \in 1..n - 1 : workerQueue'[i] = workerQueue[i + 1]
    BY <1>5 DEF DispatchGetWorker, workerVars
  <2>2. dWorker = NoWorker
    BY <1>5 DEF DispatchGetWorker, DispatcherHolds
  <2>3. (\A i, k \in DOMAIN workerQueue : workerQueue[i] = workerQueue[k] => i = k)'
    <3> SUFFICES ASSUME NEW i \in 1..n - 1, NEW k \in 1..n - 1,
                        workerQueue'[i] = workerQueue'[k]
                 PROVE  i = k
      BY <2>1
    <3>1. i + 1 \in 1..n /\ k + 1 \in 1..n /\ workerQueue[i + 1] = workerQueue[k + 1]
      BY <2>1
    <3>2. i + 1 = k + 1
      BY <3>1, <2>1
    <3> QED BY <3>2
  <2>4. ASSUME NEW v \in Workers
        PROVE (Queued(v) => worker[v] = "wait" /\ dWorker # v)'
    <3> SUFFICES ASSUME NEW i \in 1..n - 1, workerQueue'[i] = v
                 PROVE  worker[v] = "wait" /\ h # v
      BY <2>1
    <3>1. i + 1 \in 1..n /\ workerQueue[i + 1] = v /\ 1 \in 1..n /\ i + 1 # 1
      BY <2>1
    <3> QED BY <3>1, <2>1
  <2>5. ASSUME NEW v \in Workers, worker[v] = "wait"
        PROVE (Queued(v) \/ dWorker = v)'
    <3>1. PICK i \in 1..n : workerQueue[i] = v
      BY <2>1, <2>2, <2>5, WorkersAssumption
    <3>2. CASE i = 1
      BY <3>1, <3>2, <2>1
    <3>3. CASE i # 1
      <4>1. i - 1 \in 1..n - 1 /\ workerQueue'[i - 1] = v
        BY <3>1, <3>3, <2>1
      <4> QED BY <4>1, <2>1
    <3> QED BY <3>2, <3>3
  <2> QED BY <2>1, <2>3, <2>4, <2>5
<1>6. CASE \/ \E j \in Jobs : Submit(j)
           \/ DispatchJob \/ StopDispatcher \/ StopLoopEnds \/ ReleaseReturns
           \/ CallRelease \/ UNCHANGED vars
  BY <1>6 DEF Submit, DispatchJob, StopDispatcher, StopLoopEnds, ReleaseReturns,
              CallRelease, vars, workerVars, dispatchVars
<1> QED
  BY <1>1, <1>2, <1>3, <1>4, <1>5, <1>6 DEF Next, WorkerStep, DispatcherStep

LEMMA NextHolds ==
  TypeOK /\ OfferedWorkersWait /\ DispatcherHolds /\ Phases /\ [Next]_vars
    => DispatcherHolds' /\ Phases'
<1> SUFFICES ASSUME TypeOK, OfferedWorkersWait, DispatcherHolds, Phases, [Next]_vars
             PROVE  DispatcherHolds' /\ Phases'
  OBVIOUS
<1> USE WorkersAssumption, JobsAssumption
    DEF TypeOK, DispatcherHolds, Phases, Serving, Stopping
<1>1. ASSUME NEW w \in Workers, WorkerEnqueue(w) PROVE DispatcherHolds' /\ Phases'
  BY <1>1 DEF WorkerEnqueue, dispatchVars
<1>2. ASSUME NEW w \in Workers, WorkerFinish(w) PROVE DispatcherHolds' /\ Phases'
  BY <1>2 DEF WorkerFinish, dispatchVars
<1>3. ASSUME NEW w \in Workers, HandJob(w) PROVE DispatcherHolds' /\ Phases'
  BY <1>3 DEF HandJob
<1>4. ASSUME NEW w \in Workers, StopWorker(w) PROVE DispatcherHolds' /\ Phases'
  BY <1>4 DEF StopWorker
<1>5. ASSUME NEW w \in Workers, AckStop(w) PROVE DispatcherHolds' /\ Phases'
  BY <1>5 DEF AckStop
<1>6. CASE DispatchGetWorker
  <2>1. /\ workerQueue[1] \in Workers /\ worker[workerQueue[1]] = "wait"
        /\ dWorker' = workerQueue[1]
    BY <1>6 DEF DispatchGetWorker, OfferedWorkersWait, Queued
  <2> QED
    BY <2>1, <1>6 DEF DispatchGetWorker, workerVars
<1>7. CASE DispatchJob
  BY <1>7 DEF DispatchJob, workerVars
<1>8. CASE \/ \E j \in Jobs : Submit(j)
           \/ StopDispatcher \/ StopLoopEnds \/ ReleaseReturns
           \/ CallRelease \/ UNCHANGED vars
  BY <1>8 DEF Submit, StopDispatcher, StopLoopEnds, ReleaseReturns, CallRelease,
              vars, workerVars, dispatchVars
<1> QED
  BY <1>1, <1>2, <1>3, <1>4, <1>5, <1>6, <1>7, <1>8
  DEF Next, WorkerStep, DispatcherStep

LEMMA NextStopCount ==
  IInv /\ [Next]_vars => StopCount'
<1> SUFFICES ASSUME IInv, [Next]_vars PROVE StopCount'
  OBVIOUS
<1> USE DEF IInv, TypeOK, StopCount, Serving
<1>1. ASSUME NEW w \in Workers, AckStop(w) PROVE StopCount'
  <2>1. Done' = Done \cup {w} /\ worker[w] # "done"
    BY <1>1 DEF AckStop, Done
  <2>2. Cardinality(Done)' = Cardinality(Done) + 1
    BY <2>1, DoneCounted
  <2> QED BY <1>1, <2>2 DEF AckStop
<1>2. ASSUME NEW w \in Workers,
             WorkerEnqueue(w) \/ WorkerFinish(w) \/ HandJob(w) \/ StopWorker(w)
      PROVE  StopCount'
  <2>1. Done' = Done
    BY <1>2 DEF WorkerEnqueue, WorkerFinish, HandJob, StopWorker, Done
  <2> QED BY <1>2, <2>1 DEF WorkerEnqueue, WorkerFinish, HandJob, StopWorker, dispatchVars
<1>3. CASE \/ \E j \in Jobs : Submit(j)
           \/ DispatcherStep \/ CallRelease \/ UNCHANGED vars
  <2>1. worker' = worker
    BY <1>3 DEF Submit, DispatcherStep, DispatchJob, DispatchGetWorker, StopDispatcher,
                StopLoopEnds, ReleaseReturns, CallRelease, vars, workerVars
  <2>2. Done' = Done
    BY <2>1 DEF Done
  <2> QED
    BY <1>3, <2>2 DEF Submit, DispatcherStep, DispatchJob, DispatchGetWorker,
         StopDispatcher, StopLoopEnds, ReleaseReturns, CallRelease, vars, dispatchVars
<1> QED
  BY <1>1, <1>2, <1>3 DEF Next, WorkerStep

\* The inductive invariant: the dispatcher's bookkeeping of the workers.
THEOREM Invariance == Spec => []IInv
<1>1. IInv /\ [Next]_vars => IInv'
  BY NextTypeOK, NextOffered, NextHolds, NextStopCount DEF IInv
<1> QED
  BY InitIInv, <1>1, PTL DEF Spec

\* The variables of the pool keep their types and JobQueue its capacity.
THEOREM TypeCorrect == Spec => []TypeOK
<1>1. IInv => TypeOK
  BY DEF IInv
<1> QED
  BY Invariance, <1>1, PTL

\* An offered worker stands at its select: the dispatcher never sends to one
\* that is gone or busy (Worker.Start, Pool.dispatch).
THEOREM OffersAreSound == Spec => []OfferedWorkersWait
<1>1. IInv => OfferedWorkersWait
  BY DEF IInv
<1> QED
  BY Invariance, <1>1, PTL

\* Release returns only when every worker has returned (Pool.Release).
THEOREM ReleaseIsComplete == Spec => []ReleaseStopsAll
<1>1. IInv => ReleaseStopsAll
  <2> SUFFICES ASSUME IInv, releaser = "done"
               PROVE  /\ dispatcher = "done"
                      /\ \A w \in Workers : worker[w] = "done" /\ hand[w] = NoJob
    BY DEF ReleaseStopsAll
  <2>1. dispatcher = "done" /\ Cardinality(Done) = NumWorkers
    BY DEF IInv, Phases, StopCount
  <2>2. \A w \in Workers : worker[w] = "done"
    BY <2>1, AllCounted
  <2> QED
    BY <2>1, <2>2 DEF IInv, DispatcherHolds
<1> QED
  BY Invariance, <1>1, PTL

-------------------------------------------------------------------------------
InQueue(j) == \E i \in DOMAIN jobQueue : jobQueue[i] = j
Held(j) == \E w \in Workers : hand[w] = j

\* JobConservation without counting: the queue, the dispatcher and the workers
\* hold different jobs, all of them accepted and not run yet, and an accepted job
\* that has not run is held somewhere.
JobsApart ==
  /\ \A i, k \in DOMAIN jobQueue : jobQueue[i] = jobQueue[k] => i = k
  /\ \A w, v \in Workers : hand[w] = hand[v] /\ hand[w] # NoJob => w = v
  /\ \A j \in Jobs :
       /\ InQueue(j) => dJob # j
       /\ InQueue(j) \/ dJob = j => ~Held(j)
       /\ InQueue(j) \/ dJob = j \/ Held(j) => j \in submitted /\ ran[j] = 0
       /\ j \in submitted => InQueue(j) \/ dJob = j \/ Held(j) \/ ran[j] = 1
       /\ j \notin submitted => ran[j] = 0

LEMMA InitApart == Init => JobsApart
BY JobsAssumption DEF Init, JobsApart, InQueue, Held

LEMMA NextApart == IInv /\ JobsApart /\ [Next]_vars => JobsApart'
<1> SUFFICES ASSUME TypeOK, DispatcherHolds, JobsApart, [Next]_vars
             PROVE  JobsApart'
  BY DEF IInv
<1> USE JobsAssumption DEF TypeOK, JobsApart, InQueue, Held
<1>1. ASSUME NEW j \in Jobs, Submit(j) PROVE JobsApart'
  <2> DEFINE n == Len(jobQueue)
  <2>1. /\ n \in Nat /\ DOMAIN jobQueue = 1..n /\ DOMAIN jobQueue' = 1..n + 1
        /\ jobQueue'[n + 1] = j
        /\ \A i \in 1..n : jobQueue'[i] = jobQueue[i]
    BY <1>1 DEF Submit
  <2>2. /\ submitted' = submitted \cup {j} /\ j \notin submitted
        /\ hand' = hand /\ dJob' = dJob /\ ran' = ran
    BY <1>1 DEF Submit, workerVars, dispatchVars
  <2>3. \A i \in 1..n : jobQueue[i] # j
    BY <2>1, <2>2
  <2>4. ASSUME NEW k \in Jobs PROVE InQueue(k)' <=> InQueue(k) \/ k = j
    <3>1. ASSUME NEW i \in 1..n + 1, jobQueue'[i] = k
          PROVE  k = j \/ \E m \in 1..n : jobQueue[m] = k
      <4>1. i = n + 1 \/ i \in 1..n
        BY <2>1
      <4> QED BY <2>1, <3>1, <4>1
    <3>2. n + 1 \in 1..n + 1 /\ \A m \in 1..n : m \in 1..n + 1
      BY <2>1
    <3> HIDE DEF TypeOK, JobsApart, n
    <3> QED BY <2>1, <3>1, <3>2
  <2>5. ASSUME NEW i \in 1..n + 1, NEW k \in 1..n + 1, jobQueue'[i] = jobQueue'[k]
        PROVE  i = k
    <3>1. (i = n + 1 \/ i \in 1..n) /\ (k = n + 1 \/ k \in 1..n)
      BY <2>1
    <3> HIDE DEF TypeOK, n
    <3> QED BY <2>1, <2>3, <2>5, <3>1
  <2>6. /\ dJob # j /\ \A w \in Workers : hand[w] # j
        /\ ran[j] = 0
    BY <2>2
  <2>7. ~InQueue(j)
    BY <2>1, <2>3
  <2>8. ASSUME NEW k \in Jobs
        PROVE (/\ InQueue(k) => dJob # k
               /\ InQueue(k) \/ dJob = k => ~Held(k)
               /\ InQueue(k) \/ dJob = k \/ Held(k) => k \in submitted /\ ran[k] = 0
               /\ k \in submitted => InQueue(k) \/ dJob = k \/ Held(k) \/ ran[k] = 1
               /\ k \notin submitted => ran[k] = 0)'
    <3>1. Held(k)' <=> Held(k)
      BY <2>2
    <3> HIDE DEF InQueue, Held
    <3> QED BY <2>2, <2>4, <2>6, <2>7, <3>1 DEF Held
  <2> QED BY <2>1, <2>2, <2>5, <2>8
<1>2. CASE DispatchJob
  <2> DEFINE n == Len(jobQueue)
             h == jobQueue[1]
  <2>1. /\ n \in Nat \ {0} /\ DOMAIN jobQueue = 1..n /\ DOMAIN jobQueue' = 1..n - 1
        /\ h \in Jobs /\ dJob' = h
        /\ \A i \in 1..n - 1 : jobQueue'[i] = jobQueue[i + 1]
    BY <1>2 DEF DispatchJob
  <2>2. submitted' = submitted /\ hand' = hand /\ ran' = ran /\ dJob = NoJob
    BY <1>2 DEF DispatchJob, workerVars, DispatcherHolds
  <2>3. (\A i, k \in DOMAIN jobQueue : jobQueue[i] = jobQueue[k] => i = k)'
    <3> SUFFICES ASSUME NEW i \in 1..n - 1, NEW k \in 1..n - 1,
                        jobQueue'[i] = jobQueue'[k]
                 PROVE  i = k
      BY <2>1
    <3>1. i + 1 \in 1..n /\ k + 1 \in 1..n /\ jobQueue[i + 1] = jobQueue[k + 1]
      BY <2>1
    <3>2. i + 1 = k + 1
      BY <3>1, <2>1
    <3> QED BY <3>2
  <2>4. ASSUME NEW j \in Jobs PROVE InQueue(j)' <=> InQueue(j) /\ j # h
    <3>1. ASSUME NEW i \in 1..n - 1, jobQueue'[i] = j PROVE InQueue(j) /\ j # h
      <4>1. i + 1 \in 1..n /\ 1 \in 1..n /\ i + 1 # 1 /\ jobQueue[i + 1] = j
        BY <2>1, <3>1
      <4> QED BY <4>1, <2>1
    <3>2. ASSUME NEW i \in 1..n, jobQueue[i] = j, j # h PROVE InQueue(j)'
      <4>1. i - 1 \in 1..n - 1 /\ jobQueue'[i - 1] = j
        BY <2>1, <3>2
      <4> QED BY <4>1, <2>1
    <3> QED BY <3>1, <3>2, <2>1
  <2>5. InQueue(h)
    BY <2>1
  <2> QED BY <2>1, <2>2, <2>3, <2>4, <2>5
<1>3. ASSUME NEW w \in Workers, HandJob(w) PROVE JobsApart'
  BY <1>3 DEF HandJob, DispatcherHolds
<1>4. ASSUME NEW w \in Workers, WorkerFinish(w) PROVE JobsApart'
  <2>1. hand[w] \in Jobs
    BY <1>4 DEF WorkerFinish, DispatcherHolds
  <2>2. /\ jobQueue' = jobQueue /\ dJob' = dJob /\ submitted' = submitted
        /\ hand' = [hand EXCEPT ![w] = NoJob] /\ ran' = [ran EXCEPT ![hand[w]] = 1]
    <3>1. ran[hand[w]] = 0
      BY <2>1
    <3> QED BY <1>4, <2>1, <3>1 DEF WorkerFinish, dispatchVars
  <2>3. ASSUME NEW j \in Jobs PROVE Held(j)' <=> Held(j) /\ j # hand[w]
    BY <2>1, <2>2
  <2>4. ASSUME NEW j \in Jobs PROVE InQueue(j)' <=> InQueue(j)
    BY <2>2
  <2>5. Held(hand[w])
    OBVIOUS
  <2>6. ASSUME NEW j \in Jobs
        PROVE (/\ InQueue(j) => dJob # j
               /\ InQueue(j) \/ dJob = j => ~Held(j)
               /\ InQueue(j) \/ dJob = j \/ Held(j) => j \in submitted /\ ran[j] = 0
               /\ j \in submitted => InQueue(j) \/ dJob = j \/ Held(j) \/ ran[j] = 1
               /\ j \notin submitted => ran[j] = 0)'
    <3> HIDE DEF InQueue, Held
    <3> QED BY <2>1, <2>2, <2>3, <2>4, <2>5
  <2> QED BY <2>2, <2>6
<1>5. CASE \/ \E w \in Workers : WorkerEnqueue(w) \/ StopWorker(w) \/ AckStop(w)
           \/ DispatchGetWorker \/ StopDispatcher \/ StopLoopEnds \/ ReleaseReturns
           \/ CallRelease \/ UNCHANGED vars
  BY <1>5 DEF WorkerEnqueue, StopWorker, AckStop, DispatchGetWorker, StopDispatcher,
              StopLoopEnds, ReleaseReturns, CallRelease, vars, workerVars, dispatchVars
<1> QED
  BY <1>1, <1>2, <1>3, <1>4, <1>5 DEF Next, WorkerStep, DispatcherStep

JInv == IInv /\ JobsApart

LEMMA JobInvariance == Spec => []JInv
<1>1. JInv /\ [Next]_vars => JInv'
  BY NextTypeOK, NextOffered, NextHolds, NextStopCount, NextApart DEF IInv, JInv
<1>2. Init => JInv
  BY InitIInv, InitApart DEF JInv
<1> QED
  BY <1>1, <1>2, PTL DEF Spec

\* No job is lost or run twice (Pool.dispatch, Worker.Start): an accepted job is in
\* the queue, with the dispatcher or with a worker, in one place only, until it has
\* run, and then it has run once.
THEOREM JobsAreConserved == Spec => []JobConservation
<1>1. JInv => JobConservation
  <2> SUFFICES ASSUME JInv, NEW j \in Jobs
               PROVE  IF j \in submitted THEN Cardinality(Places(j)) + ran[j] = 1
                                         ELSE Places(j) = {} /\ ran[j] = 0
    BY DEF JobConservation
  <2> USE DEF JInv, IInv, TypeOK, JobsApart, InQueue, Held
  <2>1. CASE ~InQueue(j) /\ dJob # j /\ ~Held(j)
    <3>1. Places(j) = {}
      BY <2>1 DEF Places
    <3> QED BY <2>1, <3>1, FS_EmptySet
  <2>2. ASSUME NEW x, Places(j) = {x}, InQueue(j) \/ dJob = j \/ Held(j)
        PROVE  j \in submitted /\ Cardinality(Places(j)) + ran[j] = 1
    <3>1. Cardinality(Places(j)) = 1
      BY <2>2, FS_Singleton
    <3>2. j \in submitted /\ ran[j] = 0
      BY <2>2
    <3> QED BY <3>1, <3>2
  <2>3. ASSUME NEW i \in DOMAIN jobQueue, jobQueue[i] = j
        PROVE  Places(j) = {<<"queue", i>>}
    BY <2>3 DEF Places
  <2>4. CASE dJob = j
    <3>1. Places(j) = {<<"dispatcher", 0>>}
      BY <2>4 DEF Places
    <3> QED BY <2>2, <2>4, <3>1
  <2>5. ASSUME NEW w \in Workers, hand[w] = j
        PROVE  Places(j) = {<<"worker", w>>}
    BY <2>5, JobsAssumption DEF Places
  <2> QED BY <2>1, <2>2, <2>3, <2>4, <2>5
<1> QED
  BY JobInvariance, <1>1, PTL

-------------------------------------------------------------------------------
\* The refinement mapping of Abstract, named.
Pending == {j \in submitted : ran[j] = 0 /\ \A w \in Workers : hand[w] # j}
Running == {j \in Jobs : \E w \in Workers : hand[w] = j}
Finished == {j \in Jobs : ran[j] > 0}

\* While some worker has no job, fewer than NumWorkers jobs run.
LEMMA RunningFits ==
  ASSUME TypeOK, NEW w \in Workers, hand[w] = NoJob
  PROVE  Cardinality(Running) < NumWorkers
<1> DEFINE Busy == {v \in Workers : hand[v] \in Jobs}
           f == [v \in Busy |-> hand[v]]
<1>1. Busy \subseteq Workers \ {w}
  BY JobsAssumption DEF TypeOK
<1>2. IsFiniteSet(Workers \ {w}) /\ Cardinality(Workers \ {w}) = NumWorkers - 1
  BY FS_RemoveElement, WorkersAssumption DEF NumWorkers
<1>3. IsFiniteSet(Busy) /\ Cardinality(Busy) <= NumWorkers - 1
  BY <1>1, <1>2, FS_Subset
<1>4. f \in Surjection(Busy, Running)
  BY DEF Surjection, Running, TypeOK
<1>5. IsFiniteSet(Running) /\ Cardinality(Running) <= Cardinality(Busy)
  BY <1>3, <1>4, FS_Surjection
<1>6. Cardinality(Running) \in Nat /\ Cardinality(Busy) \in Nat /\ NumWorkers \in Nat
  BY <1>3, <1>5, FS_CardinalityType, WorkersAssumption DEF NumWorkers
<1> QED
  BY <1>3, <1>5, <1>6

\* Cardinality reaches WorkerPool through its own EXTENDS; it is the same operator.
LEMMA SameCardinality == \A S : Abstract!Cardinality(S) = Cardinality(S)
BY DEF Abstract!Cardinality, Cardinality

LEMMA InitRefines == Init => Abstract!Init
BY JobsAssumption DEF Init, Abstract!Init

\* Handing a job to a worker begins it, the end of job() finishes it, acceptance by
\* the queue accepts it, the return of Release releases; every other step stutters.
LEMMA StepRefines == JInv /\ [Next]_vars => [Abstract!Next]_(Abstract!vars)
<1> SUFFICES ASSUME JInv, [Next]_vars
             PROVE  Abstract!Next \/ UNCHANGED Abstract!vars
  OBVIOUS
<1> USE JobsAssumption DEF JInv, IInv, TypeOK, JobsApart, InQueue, Held
<1>1. ASSUME NEW j \in Jobs, Submit(j) PROVE Abstract!Next
  <2>1. Abstract!Accept(j)
    <3>1. /\ j \notin submitted /\ submitted' = submitted \cup {j}
          /\ hand' = hand /\ ran' = ran /\ releaser' = releaser
      BY <1>1 DEF Submit, workerVars
    <3>2. ran[j] = 0 /\ \A w \in Workers : hand[w] # j
      BY <3>1
    <3> QED BY <3>1, <3>2 DEF Abstract!Accept
  <2> QED BY <2>1 DEF Abstract!Next
<1>2. ASSUME NEW w \in Workers, HandJob(w) PROVE Abstract!Next
  <2>1. /\ dJob \in Jobs /\ dJob \in submitted /\ ran[dJob] = 0
        /\ \A v \in Workers : hand[v] # dJob
        /\ hand[w] = NoJob
    BY <1>2 DEF HandJob, DispatcherHolds
  <2>2. /\ hand' = [hand EXCEPT ![w] = dJob] /\ ran' = ran /\ submitted' = submitted
        /\ releaser' = releaser /\ releaser # "done"
    BY <1>2 DEF HandJob, Phases
  <2>3. Pending' = Pending \ {dJob} /\ dJob \in Pending
    BY <2>1, <2>2 DEF Pending
  <2>4. Running' = Running \cup {dJob}
    BY <2>1, <2>2 DEF Running
  <2>5. Finished' = Finished
    BY <2>2 DEF Finished
  <2>6. Cardinality(Running) < NumWorkers
    BY <2>1, RunningFits
  <2> PICK j \in Jobs : j = dJob
    BY <2>1
  <2>7. Abstract!Begin(j)
    BY <2>2, <2>3, <2>4, <2>5, <2>6, SameCardinality DEF Abstract!Begin, Pending, Running, Finished
  <2> QED BY <2>7 DEF Abstract!Next
<1>3. ASSUME NEW w \in Workers, WorkerFinish(w) PROVE Abstract!Next
  <2> PICK j \in Jobs : j = hand[w]
    BY <1>3 DEF WorkerFinish, DispatcherHolds
  <2>1. /\ j \in submitted /\ ran[j] = 0
        /\ \A v \in Workers : hand[v] = j => v = w
    BY <1>3 DEF WorkerFinish, DispatcherHolds
  <2>2. /\ hand' = [hand EXCEPT ![w] = NoJob] /\ ran' = [ran EXCEPT ![j] = 1]
        /\ submitted' = submitted /\ releaser' = releaser
    BY <1>3, <2>1 DEF WorkerFinish
  <2>3. Pending' = Pending
    BY <2>1, <2>2 DEF Pending
  <2>4. Running' = Running \ {j} /\ j \in Running
    BY <2>1, <2>2 DEF Running
  <2>5. Finished' = Finished \cup {j}
    BY <2>1, <2>2 DEF Finished
  <2>6. Abstract!Finish(j)
    BY <2>2, <2>3, <2>4, <2>5 DEF Abstract!Finish, Pending, Running, Finished
  <2> QED BY <2>6 DEF Abstract!Next
<1>4. CASE ReleaseReturns
  <2>1. /\ releaser # "done" /\ releaser' = "done"
        /\ hand' = hand /\ ran' = ran /\ submitted' = submitted
    BY <1>4 DEF ReleaseReturns, workerVars
  <2>2. Cardinality(Done) = NumWorkers
    BY <1>4 DEF ReleaseReturns, StopCount
  <2>3. \A w \in Workers : hand[w] = NoJob
    BY <2>2, AllCounted DEF DispatcherHolds
  <2>4. Abstract!Release
    BY <2>1, <2>3 DEF Abstract!Release
  <2> QED BY <2>4 DEF Abstract!Next
<1>5. CASE \/ \E w \in Workers : WorkerEnqueue(w) \/ StopWorker(w) \/ AckStop(w)
           \/ DispatchJob \/ DispatchGetWorker \/ StopDispatcher \/ StopLoopEnds
           \/ CallRelease \/ UNCHANGED vars
  <2>1. /\ hand' = hand /\ ran' = ran /\ submitted' = submitted
        /\ releaser' = "done" <=> releaser = "done"
    BY <1>5 DEF WorkerEnqueue, StopWorker, AckStop, DispatchJob, DispatchGetWorker,
                StopDispatcher, StopLoopEnds, CallRelease, vars, workerVars
  <2> QED BY <2>1 DEF Abstract!vars
<1> QED
  BY <1>1, <1>2, <1>3, <1>4, <1>5 DEF Next, WorkerStep, DispatcherStep

\* The pool implements WorkerPool: a job is begun at most once and only after it was
\* accepted, at most NumWorkers run at a time, and after Release has returned nothing
\* runs or begins.
THEOREM PoolRefines == Spec => ImplementsWorkerPool
BY InitRefines, StepRefines, JobInvariance, PTL
   DEF Spec, ImplementsWorkerPool, Abstract!Spec
===============================================================================
