-------------------------------- MODULE Rogger --------------------------------
(***************************************************************************)
(* The asynchronous logger (util/rogger/logger.go) and the remote log      *)
(* writer (remotelogger.go) that its goroutine calls.                      *)
(*                                                                         *)
(* A log statement puts a value into the bounded channel logQueue.  One    *)
(* goroutine, flushLog, takes the values out and calls the writer of each: *)
(* a file, or a RemoteTimeWriter, whose Write puts the value into a second *)
(* bounded channel that Sync2remote empties in batches.  Both goroutines   *)
(* log errors themselves, through the same logQueue.  FlushLogger asks     *)
(* flushLog to end and waits for it, at most a second.                     *)
(***************************************************************************)
EXTENDS Counting, Functions

CONSTANTS
  Goroutines,    \* goroutines that log
  Plan,          \* the values each of them logs, in this order
  Remote,        \* the values whose logger has a RemoteTimeWriter
  QueueLen,      \* capacity of logQueue (10000)
  RemoteLen,     \* capacity of RemoteTimeWriter.logs (remoteLogQueueSize)
  BatchLen,      \* remoteLogMaxNumOneTime
  Oops           \* an error that the logger's goroutines log themselves

Values == UNION {Range(Plan[g]) : g \in Goroutines}

\* Every value is logged once; the logger's own errors go to the file.
ASSUME LogAssumption ==
  /\ Plan \in [Goroutines -> Seq(Values)] /\ Remote \subseteq Values /\ Oops \notin Values
  /\ \A g, h \in Goroutines : \A m \in DOMAIN Plan[g], n \in DOMAIN Plan[h] :
       Plan[g][m] = Plan[h][n] => g = h /\ m = n

VARIABLES
  nLogged,    \* how many of its values a goroutine has logged
  logQueue,   \* the channel
  flusher,    \* flushLog: where it is, and the value it has taken
  inFile,     \* what the file writer has written
  logs,       \* RemoteTimeWriter.logs
  syncer,     \* Sync2remote: where it is
  batch,      \* its slice v
  delivered,  \* what the log server has accepted
  overflowed, \* values that found logs full
  failed,     \* values of batches that the log server did not accept
  errors,     \* how many errors the two goroutines have logged
  flush,      \* FlushLogger: where it is
  asyncDone,  \* flushLog has called asyncCancel
  before      \* the values logged when FlushLogger was called

queue == << nLogged, logQueue, errors >>
remote == << logs, syncer, batch, delivered, overflowed, failed >>
flushing == << flush, asyncDone, before >>
logVars == << queue, flusher, inFile, remote, flushing >>

At(where) == [pc |-> where, v |-> Oops]

LogInit ==
  /\ nLogged = [g \in Goroutines |-> 0] /\ logQueue = << >> /\ errors = 0
  /\ flusher = At("outer") /\ inFile = << >>
  /\ logs = << >> /\ syncer = "select" /\ batch = << >>
  /\ delivered = << >> /\ overflowed = {} /\ failed = << >>
  /\ flush = "none" /\ asyncDone = FALSE /\ before = {}

\* A send to logQueue; it waits for room.
Send(v) == Len(logQueue) < QueueLen /\ logQueue' = Append(logQueue, v)

\* A log statement: Writef or WriteLog.
Log(g) ==
  /\ nLogged[g] < Len(Plan[g])
  /\ Send(Plan[g][nLogged[g] + 1])
  /\ nLogged' = [nLogged EXCEPT ![g] = @ + 1]
  /\ UNCHANGED << errors, flusher, inFile, remote, flushing >>

\* flushLog takes a value, in the outer select or in the inner one.
FlushTake ==
  /\ flusher.pc \in {"outer", "inner"} /\ logQueue # << >>
  /\ flusher' = [pc |-> "write", v |-> Head(logQueue)]
  /\ logQueue' = Tail(logQueue)
  /\ UNCHANGED << nLogged, errors, inFile, remote, flushing >>

\* Bug: with nothing to write flushLog returns, instead of waiting for a value.
BugFlushDefault ==
  /\ flusher.pc = "outer" /\ logQueue = << >>
  /\ flusher' = At("ended")
  /\ UNCHANGED << queue, inFile, remote, flushing >>

\* The default of the outer select: at this moment the queue is empty.
FlushDefault ==
  /\ flusher.pc = "outer" /\ logQueue = << >>
  /\ flusher' = At("inner")
  /\ UNCHANGED << queue, inFile, remote, flushing >>

\* The inner select takes syncDone, which it may do whatever is in the queue.
FlushEnds ==
  /\ flusher.pc = "inner" /\ flush # "none"
  /\ flusher' = At("ended") /\ asyncDone' = TRUE
  /\ UNCHANGED << queue, inFile, remote, flush, before >>

\* v.writer.Write: to the file, or to the channel of the remote writer.
FlushWrite ==
  /\ flusher.pc = "write"
  /\ LET v == flusher.v IN
       IF v \notin Remote
       THEN flusher' = At("outer") /\ inFile' = Append(inFile, v) /\ UNCHANGED logs
       ELSE /\ UNCHANGED inFile
            /\ IF Len(logs) < RemoteLen
               THEN flusher' = At("outer") /\ logs' = Append(logs, v)
               ELSE flusher' = [flusher EXCEPT !.pc = "oops"] /\ UNCHANGED logs
  /\ UNCHANGED << queue, syncer, batch, delivered, overflowed, failed, flushing >>

\* The channel is full: Write logs an error, from the goroutine of flushLog.
WriteFull ==
  /\ flusher.pc = "oops" /\ Send(Oops) /\ errors' = errors + 1
  /\ overflowed' = overflowed \cup {flusher.v} /\ flusher' = At("outer")
  /\ UNCHANGED << nLogged, inFile, logs, syncer, batch, delivered, failed, flushing >>

\* Sync2remote takes a value, and calls the log server if the batch is full.
SyncTake ==
  /\ syncer = "select" /\ logs # << >>
  /\ batch' = Append(batch, Head(logs)) /\ logs' = Tail(logs)
  /\ syncer' = IF Len(batch') >= BatchLen THEN "call" ELSE "select"
  /\ UNCHANGED << queue, flusher, inFile, delivered, overflowed, failed, flushing >>

\* Nothing came for remoteLogInterval.
SyncInterval ==
  /\ syncer = "select" /\ batch # << >> /\ syncer' = "call"
  /\ UNCHANGED << queue, flusher, inFile, logs, batch, delivered, overflowed, failed, flushing >>

\* sync2remote: the call of LoggerbyInfo succeeds.
SyncSucceeds ==
  /\ syncer = "call" /\ delivered' = delivered \o batch /\ batch' = << >> /\ syncer' = "select"
  /\ UNCHANGED << queue, flusher, inFile, logs, overflowed, failed, flushing >>

SyncFails ==
  /\ syncer = "call" /\ syncer' = "oops"
  /\ UNCHANGED << queue, flusher, inFile, logs, batch, delivered, overflowed, failed, flushing >>

\* Bug: the slice is only reset after a call that succeeded, though the values
\* have been given up.
BugSyncReset ==
  /\ syncer = "oops" /\ Send(Oops) /\ errors' = errors + 1
  /\ failed' = failed \o batch /\ syncer' = "select"
  /\ UNCHANGED << nLogged, flusher, inFile, logs, batch, delivered, overflowed, flushing >>

\* The call failed: Sync2remote logs an error and starts a new batch.
SyncReset ==
  /\ syncer = "oops" /\ Send(Oops) /\ errors' = errors + 1
  /\ failed' = failed \o batch /\ batch' = << >> /\ syncer' = "select"
  /\ UNCHANGED << nLogged, flusher, inFile, logs, delivered, overflowed, flushing >>

\* FlushLogger: syncCancel, then wait for asyncDone, at most waitFlushTimeout.
CallFlush ==
  /\ flush = "none" /\ flush' = "wait"
  /\ before' = UNION {{Plan[g][i] : i \in 1..nLogged[g]} : g \in Goroutines}
  /\ UNCHANGED << queue, flusher, inFile, remote, asyncDone >>
FlushReturns ==
  /\ flush = "wait" /\ flush' = IF asyncDone THEN "flushed" ELSE "late"
  /\ UNCHANGED << queue, flusher, inFile, remote, asyncDone, before >>

FlusherStep == FlushTake \/ FlushDefault \/ FlushEnds \/ FlushWrite \/ WriteFull
SyncerStep == SyncTake \/ SyncInterval \/ SyncSucceeds \/ SyncFails \/ SyncReset
LogNext == (\E g \in Goroutines : Log(g)) \/ FlusherStep \/ SyncerStep \/ CallFlush \/ FlushReturns

\* The Go scheduler runs every goroutine that can run.  No call of the log
\* server need succeed, and nobody need call FlushLogger.
LogFairness ==
  /\ \A g \in Goroutines : WF_logVars(Log(g))
  /\ WF_logVars(FlusherStep) /\ WF_logVars(SyncerStep)
LogSpec == LogInit /\ [][LogNext]_logVars
-------------------------------------------------------------------------------
\* The places of a value: the two channels, the two goroutines, the outcomes.
Places(v) ==
  Among(logQueue, {v}) + (IF flusher.v = v THEN 1 ELSE 0) + Among(inFile, {v})
    + Among(logs, {v}) + Among(batch, {v}) + Among(delivered, {v})
    + (IF v \in overflowed THEN 1 ELSE 0) + Among(failed, {v})

\* In s the values of g come in the order in which g logs them.
InOrder(s, g) ==
  \A i, k \in DOMAIN s : \A m, n \in DOMAIN Plan[g] :
    i < k /\ s[i] = Plan[g][m] /\ s[k] = Plan[g][n] => m < n

\* logger.go, remotelogger.go: a value that was logged is in one place, up to the
\* file, the log server or a loss that an error reports: it is never written twice
\* and never just gone; the files and the log server get the values of a goroutine in
\* the order it logged them; and no error of the logger itself is lost.
LogConserved ==
  /\ \A g \in Goroutines : \A n \in DOMAIN Plan[g] :
       Places(Plan[g][n]) = IF n <= nLogged[g] THEN 1 ELSE 0
  /\ \A g \in Goroutines : InOrder(inFile, g) /\ InOrder(delivered, g)
  /\ Among(logQueue, {Oops}) + Among(inFile, {Oops})
       + (IF flusher.pc = "write" /\ flusher.v = Oops THEN 1 ELSE 0) = errors

\* Write logs an error to the channel that only its own goroutine empties.
SelfBlocked == flusher.pc = "oops" /\ Len(logQueue) = QueueLen

\* Writef: a log statement returns, however full the queue is, unless FlushLogger has
\* ended flushLog, or flushLog waits for itself in RemoteTimeWriter.Write.
LogReturns ==
  \A g \in Goroutines : \A n \in 1..Len(Plan[g]) :
    nLogged[g] = n - 1 ~> nLogged[g] >= n \/ asyncDone \/ SelfBlocked

\* "FlushLogger flush all log to disk." (logger.go:435): when it returns because
\* flushLog has ended, what was logged before the call is no longer in the queue.
FlushWritesAll == flush = "flushed" => Range(logQueue) \cap (before \ Remote) = {}
===============================================================================
