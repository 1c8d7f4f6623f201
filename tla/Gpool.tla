-------------------------------- MODULE Gpool ---------------------------------
(***************************************************************************)
(* tars/util/gpool: a pool of worker goroutines fed by one dispatcher.     *)
(*                                                                         *)
(* JobQueue and WorkerQueue are buffered channels, modelled as sequences.  *)
(* JobChannel and Stop of a worker and stop of the pool are unbuffered: a  *)
(* send and the matching receive are one joint step of both goroutines.    *)
(* A job is submitted once, by a goroutine of its own (the receive loops   *)
(* of tcpHandler do `h.gpool.JobQueue <- handler`).                        *)
(***************************************************************************)
EXTENDS Naturals, Sequences, FiniteSets

CONSTANTS Workers,      \* the numWorkers workers of NewPool
          Jobs,         \* jobs that callers may submit
          JobQueueLen,  \* jobQueueLen of NewPool
          NoJob, NoWorker

ASSUME WorkersAssumption == IsFiniteSet(Workers) /\ NoWorker \notin Workers
ASSUME JobsAssumption == NoJob \notin Jobs
ASSUME QueueAssumption == JobQueueLen \in Nat \ {0}

NumWorkers == Cardinality(Workers)

VARIABLES
  jobQueue,     \* Pool.JobQueue
  workerQueue,  \* Pool.WorkerQueue
  worker,       \* where each worker's goroutine is
  hand,         \* the job a worker is running
  dispatcher,   \* where dispatch() is
  dJob,         \* its local variable job
  dWorker,      \* its local variable worker
  stopped,      \* its loop variable i
  releaser,     \* where the caller of Release() is
  submitted,    \* history: jobs accepted by JobQueue
  ran           \* history: how often each job was run to its end

vars == <<jobQueue, workerQueue, worker, hand, dispatcher, dJob, dWorker,
          stopped, releaser, submitted, ran>>

workerVars == <<worker, hand>>
dispatchVars == <<dispatcher, dJob, dWorker, stopped>>

\* Worker.Start: "enqueue" is line 15, "wait" the select, "ack" line 20.
WorkerPC == {"enqueue", "wait", "run", "ack", "done"}
\* Pool.dispatch, one label per channel operation.
DispatchPC == {"select", "getWorker", "handJob",
               "stopGet", "stopSend", "stopAck", "reply", "done"}
ReleasePC == {"idle", "send", "wait", "done"}

-------------------------------------------------------------------------------
\* NewPool and Pool.Start: every worker and the dispatcher are started.
Init ==
  /\ jobQueue = <<>> /\ workerQueue = <<>>
  /\ worker = [w \in Workers |-> "enqueue"]
  /\ hand = [w \in Workers |-> NoJob]
  /\ dispatcher = "select" /\ dJob = NoJob /\ dWorker = NoWorker /\ stopped = 0
  /\ releaser = "idle"
  /\ submitted = {}
  /\ ran = [j \in Jobs |-> 0]

\* A caller's `pool.JobQueue <- job`; it blocks while the queue is full.
Submit(j) ==
  /\ j \notin submitted
  /\ Len(jobQueue) < JobQueueLen
  /\ jobQueue' = Append(jobQueue, j)
  /\ submitted' = submitted \cup {j}
  /\ UNCHANGED <<workerQueue, workerVars, dispatchVars, releaser, ran>>

\* w.WorkerQueue <- w
WorkerEnqueue(w) ==
  /\ worker[w] = "enqueue"
  /\ Len(workerQueue) < NumWorkers
  /\ workerQueue' = Append(workerQueue, w)
  /\ worker' = [worker EXCEPT ![w] = "wait"]
  /\ UNCHANGED <<jobQueue, hand, dispatchVars, releaser, submitted, ran>>

\* Bug: the worker selects again without offering itself.
BugFinishNoOffer(w) ==
  /\ worker[w] = "run"
  /\ worker' = [worker EXCEPT ![w] = "wait"]
  /\ hand' = [hand EXCEPT ![w] = NoJob]
  /\ ran' = [ran EXCEPT ![hand[w]] = @ + 1]
  /\ UNCHANGED <<jobQueue, workerQueue, dispatchVars, releaser, submitted>>

\* Bug: the worker returns after its first job.
BugFinishReturns(w) ==
  /\ worker[w] = "run"
  /\ worker' = [worker EXCEPT ![w] = "done"]
  /\ hand' = [hand EXCEPT ![w] = NoJob]
  /\ ran' = [ran EXCEPT ![hand[w]] = @ + 1]
  /\ UNCHANGED <<jobQueue, workerQueue, dispatchVars, releaser, submitted>>

\* job() returns and the worker's loop starts again.
WorkerFinish(w) ==
  /\ worker[w] = "run"
  /\ worker' = [worker EXCEPT ![w] = "enqueue"]
  /\ hand' = [hand EXCEPT ![w] = NoJob]
  /\ ran' = [ran EXCEPT ![hand[w]] = @ + 1]
  /\ UNCHANGED <<jobQueue, workerQueue, dispatchVars, releaser, submitted>>

\* Bug: the job is looked at and left in the queue.
BugDispatchPeek ==
  /\ dispatcher = "select" /\ jobQueue # <<>>
  /\ dJob' = Head(jobQueue)
  /\ dispatcher' = "getWorker"
  /\ UNCHANGED <<jobQueue, workerQueue, workerVars, dWorker, stopped, releaser,
                 submitted, ran>>

\* case job := <-p.JobQueue
DispatchJob ==
  /\ dispatcher = "select" /\ jobQueue # <<>>
  /\ dJob' = Head(jobQueue) /\ jobQueue' = Tail(jobQueue)
  /\ dispatcher' = "getWorker"
  /\ UNCHANGED <<workerQueue, workerVars, dWorker, stopped, releaser, submitted, ran>>

\* worker := <-p.WorkerQueue, in the job case and in the stop case
DispatchGetWorker ==
  /\ dispatcher \in {"getWorker", "stopGet"} /\ workerQueue # <<>>
  /\ dispatcher = "stopGet" => stopped < NumWorkers
  /\ dWorker' = Head(workerQueue) /\ workerQueue' = Tail(workerQueue)
  /\ dispatcher' = IF dispatcher = "getWorker" THEN "handJob" ELSE "stopSend"
  /\ UNCHANGED <<jobQueue, workerVars, dJob, stopped, releaser, submitted, ran>>

\* worker.JobChannel <- job meets case job = <-w.JobChannel
HandJob(w) ==
  /\ dispatcher = "handJob" /\ dWorker = w /\ worker[w] = "wait"
  /\ worker' = [worker EXCEPT ![w] = "run"]
  /\ hand' = [hand EXCEPT ![w] = dJob]
  /\ dispatcher' = "select" /\ dJob' = NoJob /\ dWorker' = NoWorker
  /\ UNCHANGED <<jobQueue, workerQueue, stopped, releaser, submitted, ran>>

\* Release() is called: once, by the accept loop of tcpHandler.Handle.
CallRelease ==
  /\ releaser = "idle" /\ releaser' = "send"
  /\ UNCHANGED <<jobQueue, workerQueue, workerVars, dispatchVars, submitted, ran>>

\* p.stop <- struct{}{} of Release meets case <-p.stop of dispatch
StopDispatcher ==
  /\ releaser = "send" /\ dispatcher = "select"
  /\ releaser' = "wait"
  /\ dispatcher' = "stopGet" /\ stopped' = 0
  /\ UNCHANGED <<jobQueue, workerQueue, workerVars, dJob, dWorker, submitted, ran>>

\* Bug: the worker returns without acknowledging.
BugStopNoAck(w) ==
  /\ dispatcher = "stopSend" /\ dWorker = w /\ worker[w] = "wait"
  /\ worker' = [worker EXCEPT ![w] = "done"]
  /\ dispatcher' = "stopAck"
  /\ UNCHANGED <<jobQueue, workerQueue, hand, dJob, dWorker, stopped, releaser,
                 submitted, ran>>

\* worker.Stop <- struct{}{} meets case <-w.Stop
StopWorker(w) ==
  /\ dispatcher = "stopSend" /\ dWorker = w /\ worker[w] = "wait"
  /\ worker' = [worker EXCEPT ![w] = "ack"]
  /\ dispatcher' = "stopAck"
  /\ UNCHANGED <<jobQueue, workerQueue, hand, dJob, dWorker, stopped, releaser,
                 submitted, ran>>

\* w.Stop <- struct{}{} meets <-worker.Stop; the worker returns, i++
AckStop(w) ==
  /\ dispatcher = "stopAck" /\ dWorker = w /\ worker[w] = "ack"
  /\ worker' = [worker EXCEPT ![w] = "done"]
  /\ dispatcher' = "stopGet" /\ dWorker' = NoWorker /\ stopped' = stopped + 1
  /\ UNCHANGED <<jobQueue, workerQueue, hand, dJob, releaser, submitted, ran>>

\* Bug: the loop stops one worker too few.
BugLoopEndsEarly ==
  /\ dispatcher = "stopGet" /\ stopped + 1 >= NumWorkers
  /\ dispatcher' = "reply"
  /\ UNCHANGED <<jobQueue, workerQueue, workerVars, dJob, dWorker, stopped,
                 releaser, submitted, ran>>

\* The loop over cap(p.WorkerQueue) ends.
StopLoopEnds ==
  /\ dispatcher = "stopGet" /\ stopped = NumWorkers
  /\ dispatcher' = "reply"
  /\ UNCHANGED <<jobQueue, workerQueue, workerVars, dJob, dWorker, stopped,
                 releaser, submitted, ran>>

\* Bug: Release is answered before the workers are stopped.
BugReplyFirst ==
  /\ dispatcher \in {"stopGet", "reply"} /\ releaser = "wait"
  /\ dispatcher' = "done" /\ releaser' = "done"
  /\ UNCHANGED <<jobQueue, workerQueue, workerVars, dJob, dWorker, stopped,
                 submitted, ran>>

\* p.stop <- struct{}{} of dispatch meets <-p.stop of Release; both return
ReleaseReturns ==
  /\ dispatcher = "reply" /\ releaser = "wait"
  /\ dispatcher' = "done" /\ releaser' = "done"
  /\ UNCHANGED <<jobQueue, workerQueue, workerVars, dJob, dWorker, stopped,
                 submitted, ran>>

WorkerStep(w) ==
  WorkerEnqueue(w) \/ WorkerFinish(w) \/ HandJob(w) \/ StopWorker(w) \/ AckStop(w)
DispatcherStep ==
  DispatchJob \/ DispatchGetWorker \/ StopDispatcher \/ StopLoopEnds \/ ReleaseReturns

Next ==
  \/ \E j \in Jobs : Submit(j)
  \/ \E w \in Workers : WorkerStep(w)
  \/ DispatcherStep
  \/ CallRelease

Spec == Init /\ [][Next]_vars

(***************************************************************************)
(* Goroutines that can run do run, jobs return, and a select that finds    *)
(* the stop case ready again and again takes it at last (Go chooses at     *)
(* random).  Nobody has to submit a job or to call Release.                *)
(***************************************************************************)
Fairness ==
  /\ \A w \in Workers : WF_vars(WorkerStep(w))
  /\ WF_vars(DispatcherStep) /\ SF_vars(StopDispatcher)

FairSpec == Spec /\ Fairness

-------------------------------------------------------------------------------
Queued(w) == \E i \in DOMAIN workerQueue : workerQueue[i] = w

TypeOK ==
  /\ jobQueue \in Seq(Jobs) /\ Len(jobQueue) <= JobQueueLen
  /\ workerQueue \in Seq(Workers)
  /\ worker \in [Workers -> WorkerPC]
  /\ hand \in [Workers -> Jobs \cup {NoJob}]
  /\ dispatcher \in DispatchPC
  /\ dJob \in Jobs \cup {NoJob}
  /\ dWorker \in Workers \cup {NoWorker}
  /\ stopped \in Nat
  /\ releaser \in ReleasePC
  /\ submitted \subseteq Jobs
  /\ ran \in [Jobs -> Nat]

\* A worker that is offered (in WorkerQueue, or taken out of it by the
\* dispatcher) is offered once and stands at its select, so the dispatcher's
\* send on its JobChannel or Stop finds it; and a worker at its select is
\* offered, so none is forgotten there (Start lines 15-22, dispatch 72-81).
OfferedWorkersWait ==
  /\ \A i, k \in DOMAIN workerQueue : workerQueue[i] = workerQueue[k] => i = k
  /\ \A w \in Workers :
       /\ Queued(w) => worker[w] = "wait" /\ dWorker # w
       /\ worker[w] = "wait" => Queued(w) \/ dWorker = w

\* Where an accepted job is: in the queue, with the dispatcher, with a worker.
Places(j) == {<<"queue", i>> : i \in {k \in DOMAIN jobQueue : jobQueue[k] = j}}
        \cup {<<"dispatcher", 0>> : x \in {y \in {0} : dJob = j}}
        \cup {<<"worker", w>> : w \in {v \in Workers : hand[v] = j}}

\* No job is lost or run twice: an accepted job is in exactly one place until
\* it has run, has then run once, and is nowhere any more.
JobConservation ==
  \A j \in Jobs :
    IF j \in submitted THEN Cardinality(Places(j)) + ran[j] = 1
                       ELSE Places(j) = {} /\ ran[j] = 0

\* When Release returns, every worker's goroutine and the dispatcher have
\* returned and no job is running (Release lines 90-93, dispatch 75-84).
ReleaseStopsAll ==
  releaser = "done" => /\ dispatcher = "done"
                       /\ \A w \in Workers : worker[w] = "done" /\ hand[w] = NoJob

\* Without a Release every accepted job is run.
AcceptedJobRuns ==
  \A j \in Jobs : j \in submitted ~> (ran[j] = 1 \/ releaser # "idle")

\* Release always returns, whatever jobs are queued or running.
ReleaseTerminates == releaser = "send" ~> releaser = "done"

\* The pool implements WorkerPool: jobs in the queue or with the dispatcher
\* are pending, a worker's job is running, Release's return is the release.
Abstract == INSTANCE WorkerPool WITH
  pending <- {j \in submitted : ran[j] = 0 /\ \A w \in Workers : hand[w] # j},
  running <- {j \in Jobs : \E w \in Workers : hand[w] = j},
  finished <- {j \in Jobs : ran[j] > 0},
  released <- releaser = "done"

\* Every step of the pool is a step of the abstract pool or no step at all.
ImplementsWorkerPool == Abstract!Spec
===============================================================================
