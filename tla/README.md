# TarsGo in TLA+

A verification project for TarsGo, an RPC framework in Go: TLA+ models of its client,
its server, the encoding and the generated code between them, and the services around
a server process; the TLC configurations that check them on small instances, and TLAPS
proofs of the results that hold for every size.
Line numbers refer to the sources under `src/tars/`.

## 1. The system

A TarsGo process is a client, a server or both. A call goes through these parts:

    generated stub -> ServantProxy -> endpointManager -> AdapterProxy -> TarsClient == network
    network == tcpHandler -> goroutine pool -> Protocol.Invoke -> filters -> generated Dispatch

### 1.1 Inventory

| part (source) | state it keeps | operations | interacts with | hard behaviour |
|---|---|---|---|---|
| goroutine pool (`util/gpool`) | `JobQueue`, `WorkerQueue`, one goroutine per worker, the dispatcher | submit, dispatch, `Release` | fed by `tcpHandler` | `Release` racing queued and running jobs |
| client transport (`transport/tarsclient.go`) | connection, `isClosed`, `invokeNum`, `sendQueue`, `sendFailQueue` | `Send`, `ReConnect`, send and recv loops, `Close`, `GraceClose` | used by `AdapterProxy`, calls its `Recv` | reconnection under two loops, failed writes, idle close |
| remote call (`servant.go`, `adapter.go`) | `msgID`, `queueLen`, map `resp`, call counters | `TarsInvoke`, `doInvoke`, keep-alive, `Recv` | selects an adapter, sends through it | late, lost and reordered replies, timeouts, overflow of ids |
| endpoint manager (`endpointmanager.go`, `adapter.go`) | `activeEpf`, `activeEp`, `epList`, selectors, probe queue, health of each adapter | `SelectAdapterProxy`, `checkStatus`, `checkActive`, `addAliveEp`, `findAndSetObj` | called by every call and by two tickers, asks the registry | four kinds of goroutine, few locks |
| TCP server (`transport/tarsserver.go`, `tcphandler.go`) | `isClosed`, `isListenClosed`, `conns`, `numInvoke` and `idleTime` of each connection | accept loop, recv loops, handlers, `Shutdown`, `CloseIdles` | uses the pool and the protocol | graceful shutdown against all the others |
| global manager, cache (`endpointmanager.go`, `appcache.go`) | table of managers, cache file | `GetManager`, the two ticker loops, cache save | owns the endpoint managers | loops over a table that grows |
| selectors (`selector/...`) | list or hash ring of endpoints, weights, position | `Select`, `Add`, `Remove`, `Refresh` | used by the endpoint manager | weights, identity by host |
| timing wheel (`util/rtimer`) | ring of slots, table of wheels | `After` | timeouts of calls and of `Recv` | position racing `After`, division |
| codec, generated structs (`protocol/codec`, `protocol/res`, `tools/tars2go/gen_go.go`) | none | heads, integers, strings, containers, structs: write, read, skip | every packet and every argument | peers of different versions, borders between wire types |
| generated proxies and dispatchers, TUP (`protocol/res`, `protocol/tup`) | none | encode arguments, dispatch, encode results in three protocol versions | between call and implementation | errors dropped on the way, variables that hold old values |
| server protocol (`tarsprotocol.go`, `filter.go`) | filter lists | `Invoke`, `InvokeTimeout`, `rsp2Byte` | called by handlers | an error that filters overwrite, the answer after a timeout |
| application (`application.go`, `util/grace`, `util/ssl`) | servers, signals, flags | `Run`, graceful stop and restart | owns the servers | handover of listeners, stop while starting |
| UDP and HTTP servers | `numInvoke`; none | receive loop; wrapper | as TCP server | no shutdown protocol |
| logger, remote logger (`util/rogger`, `remotelogger.go`) | `logQueue`, flush signals; a second queue | log, `flushLog`, `FlushLogger`; `Write` | used by everything | flush against writers, a logger that logs |
| statistics, properties (`statf.go`, `propertyf.go`) | channels and maps of counters | report, periodic send | the report is itself a call | self-blocking, lost updates |
| admin, node, notify, remote configuration | flags, none | commands, keep-alive, fetch | calls through `ServantProxy` | an order to shut down against everything else |
| configuration parser, communicator, contexts, tracing, push, tools | trees, tables, context values | sequential | - | little or none |

`PROJECT.json` lists each part with its sources and status, and every hazard at the
line where it bites.

### 1.2 What makes the parts correct

* Pool: a job accepted runs once, never more than the number of workers at a time;
  `Release` stops everything and returns.
* Client transport: an accepted request is written once or kept; a client that is
  not marked closed has both its loops; `invokeNum` covers what is outstanding, since
  idle close and `GraceClose` decide by it; a dead connection is noticed.
* Call: a reply reaches the call that asked or nobody; ids of calls under way differ;
  each way out gives back what it took; every call returns.
* Endpoint manager: good endpoints are offered, blocked ones are not and come back;
  an endpoint waits for a probe at most once; nobody blocks in the shared checker.
* Server: counters are exact, no response is written to a connection the server
  closed, a `Shutdown` that returns by itself has waited for every request taken before it
  looked, and it does return.
* Encoding: what is written is read back, also by a peer that knows a field more or
  less or a wider type; a number is never cut down; the reader stays in step.
* Protocol: the implementation is called with what the caller passed, the caller gets
  what it returned, a failure is reported, the answer finds the waiting call, filters
  guard what is behind them.
* Logger and statistics: nothing is lost silently or counted twice, nobody waits for
  ever. Timing wheel: a timer is neither early nor late. Process: an object is served
  throughout a graceful restart, and a process that has to end does.

## 2. Modules

| module | stands for | extends or uses |
|---|---|---|
| `WorkerPool` | abstract: what a pool promises | - |
| `Gpool` | `util/gpool/gpool.go` | implements `WorkerPool` |
| `TarsClient` | `transport/tarsclient.go` | - |
| `Invoke` | `servant.go`, `Recv` of `adapter.go` | - |
| `EndpointManager` | `endpointmanager.go`, health of `adapter.go` | - |
| `TcpServer` | `transport/tarsserver.go`, `tcphandler.go` | uses `WorkerPool` as its pool |
| `CodecInt`, `Codec` | `protocol/codec/codec.go`: integers; the stream of heads and payloads | `Codec` extends `CodecInt` |
| `TarsStructs` | the generated structs of `protocol/res`, `gen_go.go` for them | `Codec` |
| `Tup` | `protocol/tup/tup.go` | `TarsStructs` |
| `TarsStubs` | the generated proxies and dispatchers of `protocol/res`, `gen_go.go` for them | `Tup` |
| `Rpc` | one call from proxy to implementation and back: `tarsprotocol.go`, `filter.go`, the end of `doInvoke` | `TarsStubs` |
| `StructWire`, `IntWire` | a struct, an integer, between peers of different versions | `TarsStructs`; `CodecInt` |
| `Counting` | how many elements of a sequence are in a set | - |
| `Rogger` | `util/rogger/logger.go` with `remotelogger.go` | `Counting` |
| `StatReport` | `statf.go` | `Counting` |
| `TimeWheel` | `util/rtimer/timewheel.go` | - |
| `Application` | `application.go`, `util/grace`, `Shutdown` of `admin.go` | the server is its `Shutdown`, which returns or not |
| `MCLive` | pool, client and calls, what must happen | `Gpool`, `TarsClient`, `Invoke` |
| `MCCalls` | calls and what they carry | `Invoke`, `Rpc`, `StructWire`, `IntWire` |
| `MCEndpointManager`, `MCTcpServer` | instances | the module of that name |
| `MCServerLive` | server and endpoint manager, what must happen | `EndpointManager`, `TcpServer` |
| `MCServices` | the services of a process | `Rogger`, `StatReport`, `TimeWheel`, `Application` |
| `GpoolProofs`, `TarsClientProofs`, `InvokeProofs`, `EndpointManagerProofs`, `TcpServerProofs`, `IntWireProofs` | theorems | the module of that name |
| `ReportProofs`, `ProcessProofs` | theorems | `Rogger` and `StatReport`; `TimeWheel` and `Application` |

`TcpServer` composes two components: it uses the pool only through `WorkerPool`, and
`Gpool` is shown to implement `WorkerPool`, so what holds of the server with the
abstract pool does not depend on how the dispatcher works. The abstract pool allows
more than `Gpool` does on one point that the bounds of `TcpServer` restore: how many
jobs may be accepted (`QueueCap`, and one more in the hands of the dispatcher). `Rpc`
composes codec, structs, TUP, stubs, filters and protocol into one call.

`MCLive`, `MCCalls`, `MCServerLive` and `MCServices` put several components into one
state space: a variable `part` names the component at work, and the others are at rest,
in a state in which none of their goroutines can take a step. Nothing is interleaved across
parts; such a run is several runs in one.

Definitions named `Bug...` are variants of the definition that follows them, as a
plausible mistake in the code would make it. No specification uses them; each was put
in the place of the real definition to see that a property notices.

### 2.1 Conventions

A goroutine is a program counter (`pc`, `sender`, `recver`, `chk`, `fresh`...) whose
labels are the places where another goroutine can interfere: operations on channels,
atomics, locks and sockets. What happens between two such places is one action. A
buffered channel is a sequence, an unbuffered one a joint step of both sides. A
critical section of a mutex is one action, when nothing outside the lock touches what
it changes in between. Time is abstract: a timer may fire at any moment, or
within what the comment of the action derives from the constants in the code.
Messages, requests and jobs are model values; their content is left out, except in the
modules from `CodecInt` to `IntWire`, which are about nothing else.

### 2.2 Gpool

Workers (`Start`) offer themselves in `workerQueue`, wait, run and offer again. The
dispatcher takes a job (`DispatchJob`), then a worker (`DispatchGetWorker`), then hands
over (`HandJob`); or it takes the stop signal and stops all workers, each with a send
and an acknowledgement (`StopWorker`, `AckStop`). `Release` is the caller on the other
side. `submitted` and `ran` are history.

### 2.3 TarsClient

Every connection ever dialled has its own pair of goroutines: an old pair may still run
while the new one works, which is where the interest lies. `cur` is `w.conn`, `conns`
the state of each socket. Callers of `Send` dial if `isClosed` (`ReConnect...`) and then
enqueue or time out. The sender takes from `sendFailQueue` or `sendQueue`, counts,
writes, on failure puts the message into `sendFailQueue` and closes. The receiver
reads replies and pushes (both lower `invokeNum`, line 209), notices errors, closes and
signals `connDone`. `Close` and `GraceClose` take no lock and are modelled step by step.
Environment: `Reset` breaks a connection, `Fault` bounds what the network does wrong.

### 2.4 Invoke

A call takes an id (`GenCas`, `GenAdd`), an adapter (`Select`), passes the queue check,
enters, sends, and waits for reply or timeout; then the deferred clean-up in two steps
and `postInvoke`. A ping (`doKeepAlive`) takes a shorter path. `Arrive` is the
transport's `go cp.Recv(pkg)`: the reply to a request that was sent, at any time
after, or a push. `RecvLoad` looks up the channel, `Deliver` is the rendezvous,
`RecvTimeout` the way out. `msgID` is an integer of a small width that overflows as
int32 does. The counters by which an adapter's health is judged, and the goroutine that a
successful probe starts (servant.go:263), are in `EndpointManager`.

### 2.5 EndpointManager

Callers take a probe (`Pop`, `Popped`) or ask a selector (`Select`), fall back to a random
index (`Random`, which reads `activeEpf` again), load or make the adapter (`Load`,
`Store`), and their call succeeds or fails. A successful probe starts a goroutine (`Reset`,
`AddAliveEp`). `checkStatus` (`Check...`, `Unlist`, `Unselect`) blocks endpoints and queues
probes: a try (`CheckTry`) dials, and when the dial succeeds the adapter goes into the channel
(`CheckInsert`, `CheckSend`). How long a probe waits there depends on the calls alone, so it may meet
the next try; `crossed` is the history of the endpoints where that happened. `findAndSetObj` (`Find`, `PruneClose`, `PruneDelete`, `Build`, `Install`) asks the
registry, closes adapters that left, and installs a new list. An adapter is a pair of
endpoint and generation, since a race can make two for one endpoint. A selector is the
set of endpoints it offers. Hosts are distinct.

### 2.6 TcpServer

The accept loop, one recv goroutine per connection, the handlers, `Shutdown` with its
ticks, and clients that connect, send halves of packages and close when they like.
`deadline` is the kind of read deadline in force: none, the short one of shutdown, the
configured one, or `now` (set by `sendCloseMsg`). The loop reads `isClosed` (`Top`) and sets its
deadline (`Arm`) in two steps, and `now` may be overwritten in between. A tick (`Tick`,
`RangeConns`) looks at the connections one after another (`Look`): one whose `numInvoke` is 0 may be
found idle wherever its loop is, since `idleTime` was set before the read. `seen` is the
history of what had been taken from a connection when it was looked at.

### 2.7 Codec, TarsStructs, TarsStubs, Tup

A stream is a sequence of cells: one for each byte of a head, one for each payload with its
width, so that a reader out of step meets a cell it does not expect. `CodecInt` has
the numbers: a writer takes the narrowest type that holds a value, a reader accepts its own
wire type and narrower ones. `Max8` to `Max64` are constants, since TLC's integers end at
2^31-1; the proofs hold for any chain in which each more than doubles the one before. The
readers are operators that pass on what has been read so far (`...At` the head found,
`...From` what follows it).

The generator `gen_go.go` emits the same code for the same type everywhere. `TarsStructs` and
`TarsStubs` keep what differs as tables, one per generated struct, proxy function and
dispatch case, in the order of the generated statements (the tables for reading and for
writing are separate, as the code is), and what is the same as operators on a type
(`WriteVar`, `ReadVar`, `ReadFields`...). A value of a string or byte slice is its length and a label.

`Tup` has `Put`, `Encode`, `Decode` and `GetBuffer` of `UniAttribute`. JSON is external: the text
is the object it denotes, and a member the object lacks leaves its variable alone.

### 2.8 Rpc, StructWire, IntWire

`Rpc`: `Call` encodes arguments and request packet; `CallerIsNewer` and `CallerIsOlder` give
the request a parameter more or less (an older proxy's out-parameters move up to the tag of the
missing one); `ProtocolInvoke` decodes, runs the filters and
`Dispatch` with an implementation that returns an outcome, and encodes the answer;
`InvokeTimeout` is the other answer; an error is a sequence, empty for nil and else with the code
that goes into `IRet`; `Return` is `ResponseUnpack`, the check of `IRet` in
`doInvoke` and the rest of the proxy, into variables that hold old values. `StructWire` sends
a struct that may gain a field, lack one or have a wider one, with a field behind it that tells
whether the reader stopped at the end. `IntWire` sends integers.

### 2.9 Rogger, StatReport, TimeWheel, Application

`Rogger`: `Log` is a statement of some goroutine; the flusher takes a value and writes it to
the file or into the remote writer's queue, the syncer makes batches and sends
them; both log their errors into the queue that the flusher empties. `FlushLogger` is
called once. `StatReport`: callers put an entry into a channel, `Run` empties the channels
into the maps, and at a tick reports, which is a call that ends with an entry of its own.
`TimeWheel`: the clock, `After`, and the goroutine `run` with its turn under the lock and its
close after it. `Application`: two processes, parent and child of a graceful restart, each
with `Run`, `mainLoop`, the signal handler, `graceShutdown` and its servers, which listen,
fail and shut down; signals and administrators from outside.

## 3. Runs

States are distinct states. All safety runs explore every interleaving within the bounds.

| run | instance | checks | states |
|---|---|---|---|
| `live` | pool: 2 workers, 3 jobs, queue 2; client: 2 requests, 2 connections, 1 fault; calls: 2, one of them one-way, near overflow | `OfferedWorkersWait`, `JobConservation`, `ReleaseStopsAll`, `AcceptedJobRuns`, `ReleaseTerminates`, refinement of `WorkerPool`; `ConnectionsEnd`; `CallsEnd` | 44 000 |
| `client` | 2 requests, one of them one-way, 2 connections, 2 faults, 1 push, 1 close, queue 1 | `LiveLoops`, `MessageConserved`, `InvokeNumCovers`, `IdleCloseIsIdle` | 1.4 M |
| `client_grace` | 1 request, 1 push | `GraceCloseWaits` is violated (finding 1) | - |
| `calls` | calls: 2 and a ping with ids just below 0, the 2 also just below the maximum, queue limit 1; wire: all 27 methods of the framework's interfaces in 4 versions, 3 sizes of values, with filters; 18 structs with a field more, less or wider; integers at the borders | `ReplyMatches`, `RequestIdsDistinct`, `NothingLeaks`; `ArgumentsArrive`, `ResultsReturn`, `FailureReported`, `AnswerIdentifies`, `FiltersGuard`; `StructArrives`; `IntsSurvive` | 0.42 M |
| `endpoints` | 2 endpoints, 2 callers, 3 adapters, 1 failure and then a failed dial, 1 registry change, channel of 1 | `ProbeOnce`, `ProbesFit`, `CachedOpen`, `NoEmptyDraw` | 2.2 M |
| `endpoints_mod` | 2 endpoints, modulo hash | `RandomOnlyIfNoneAlive` is violated (finding 2) | - |
| `server` | 2 connections with 1 request each, one of them one-way, and perhaps garbage on the other; pool of 1, no queue | `NumInvokeCounts`, `NoResponseDropped`, `GracefulReturn` | 3.3 M |
| `server_live` | server: 1 connection, 2 requests, no pool; endpoints: 1, 2 callers, fixed registry, 1 adapter, 3 failures | `ShutdownReturns`, `RequestsAnswered`; `SelectorsInStep`, `BlockedRecovers` | 103 000 |
| `server_pool` | 1 connection, 2 requests, pool of 1 | `RequestsAnswered` is violated (finding 3) | - |
| `services` | logger: 2 goroutines, 4 values, both queues of 1; statistics: 3 calls, 2 reports, channels of 1; wheel: 4 slots and 1, two turns; process: 2 servers, a restart, 2 signals | `LogConserved`, `LogReturns`; `StatsConserved`, `PushReturns`; `TimerFires`; `ServiceKept`, `RunEnds` | 132 000 |
| `log_flush` | the logger of `services` | `FlushWritesAll` is violated (finding 4) | - |
| `admin_shutdown` | the process of `services` | `GracefulExit` is violated (finding 5) | - |

Why the bounds are enough for what they show:

* Gpool: three jobs for two workers and a queue of two make queue, dispatcher and all
  workers busy at once when `Release` comes.
* TarsClient: two connections let the loops of an old one act while a new one is in use;
  two faults let a write fail and the retry fail too; a queue of one is full at once.
* Invoke: near the maximum two calls can both pass the compare-and-swap before either
  adds; just below 0 the third id is the one to be skipped, and a late reply meets the
  next call; a limit of one makes the check at line 224 both pass and fail.
* Wire: each protocol version, each direction and each wire type occurs; sizes 255 and 256
  are the two forms of a string, tags 14, 15 and 20 the two forms of a head, and integers
  are taken on both sides of each border. A struct differs from its receiver's version
  in one field more and one field less or wider at a time.
* EndpointManager: `FainN` and `OverN` are 1 to 3 (5 and 2 in the code) so that one or two
  failures block; two callers are what the races need; a second
  adapter of one endpoint shows the double creation and the refresh that deletes what it did
  not close. In `endpoints` the failed dial is the last step (`FewCases`): it leaves the state
  as `CheckNothing` does, so what may follow is explored from there. One failure blocks one endpoint, so a channel of one has the room that
  `ProbesFit` needs, and a second entry of that endpoint would find it full. In
  `server_live` three failures block an endpoint, refuse a dial and fail a probe, or block it
  twice; what holds of one endpoint holds of each, as `SelectorsStayInStep` is proved for any
  number.
* TcpServer: the two requests share one worker and the dispatcher, so one connection waits
  with a counted request in hand while that of the other is pending; two connections make
  a tick look at two, and either takes its request before or after it was looked at.
  Several requests in one buffer, the other way to keep a recv loop busy, are in
  `server_live` and `server_pool`.
* Services: queues of one are full at once, so every goroutine that can block does; two
  turns of the wheel make it wrap around under a waiting timer; two signals are a restart
  and a stop, or two stops.

The type invariants of the pool, the client, the calls, the endpoint manager and the server are
proved for all constants and therefore not checked again by a run.

The runs allow termination (`CHECK_DEADLOCK FALSE`) where calls, jobs and clients are a
finite supply and the program stops when they are used up. `endpoints_mod` checks deadlock
as well: there, calls keep coming.

### 3.1 Fairness

* Go runs every goroutine that can run: weak fairness of each goroutine's steps.
* A Go `select` picks at random among the cases that are ready, so a case that is ready
  again and again is taken in the end: strong fairness of `StopDispatcher` (gpool.go:75)
  and `SenderTake` (tarsclient.go:141).
* Timers fire: timeouts of a call and of `Recv`, the ticks of `Shutdown`, the timeout of
  `graceShutdown`, the clock that makes `checkActive` try again (strong fairness of
  `CheckTry`; the bound on failures keeps the dial from being refused for ever). A report of the statistics ends, since
  it is a call.
* Not fair: clients, replies, pushes, faults, the registry, signals, calls of `Close`,
  `GraceClose`, `Release`, `Shutdown` and `FlushLogger`, the success of the log server, the end
  of `Shutdown`'s context and, in `Application`, the return of a server's `Shutdown`. In
  `server_live` callers are fair: a blocked endpoint comes back only if there are calls
  (the model shows the code needs them, since a probe is somebody's call).

### 3.2 Findings

1. `client_grace`, tarsclient.go:209. The close message of the server is counted as a
   reply before `onPush` calls `GraceClose`. With one request outstanding `invokeNum` is
   0 and the connection is closed before the reply has come.
2. `endpoints_mod`, endpointmanager.go:511. A refresh fills the round-robin selector
   twice and the modulo-hash selector not at all; every modulo-hash call after it goes to
   a random endpoint.
3. `server_pool`, tcphandler.go:146. The pool is released when the accept loop ends, while
   recv loops still hand over requests. What is queued then is never handled, its
   connection never drains, and `Shutdown` waits for its context.
4. `log_flush`, logger.go:453. In its inner `select` `flushLog` may take the flush signal although
   the queue holds a value: `FlushLogger` returns and the value, logged before the
   call, is not written.
5. `admin_shutdown`, application.go:345. The admin object is made without its application, so
   an order to shut down dereferences nil and `CheckPanic` ends the process at once, with its
   servers serving.

## 4. Proofs

All theorems are for every value of the constants that satisfies the named assumptions.

**GpoolProofs**: any finite set of workers, any jobs, any queue of at least 1.
`TypeCorrect`, `OffersAreSound`, `ReleaseIsComplete`, from the invariant

    IInv == TypeOK /\ OfferedWorkersWait /\ DispatcherHolds /\ Phases /\ StopCount

`ReleaseStopsAll` is not inductive: that all workers have ended follows from the
loop counter being equal to the number of ended workers (`StopCount`) when it has reached
`NumWorkers`, so that the set of ended workers is all of them (`AllCounted`, a fact about
cardinalities). `DispatcherHolds` says at which labels the dispatcher has a job and a worker,
`Phases` ties the caller of `Release` to the dispatcher.

`JobsAreConserved` (`JobConservation`) counts the places of a job; `JobsApart` says the same
without counting (queue, dispatcher and workers hold different jobs, an accepted job that
has not run is held somewhere), is inductive with `IInv`, and gives the counts. `PoolRefines`
(`ImplementsWorkerPool`): the initial states map to the abstract one and each action to an abstract
action or to a stutter (`InitRefines`, `StepRefines`). It needs both invariants: that a worker that begins holds an accepted job that has not run, and that `Release`
returns only when nobody runs.

**TarsClientProofs**: any requests, any queue of at least 1, any bounds on connections,
faults and pushes. `TypeCorrect`, `OpenClientHasLoops` (`LiveLoops`) and
`InvokeNumAccounts` (`InvokeNumCovers`), from

    IInv == TypeOK /\ HandsFull /\ ConnLife

`LiveLoops` needs the history of all connections (`ConnLife`): the current one is the
last dialled, and a goroutine signals or ends only after `isClosed` was set under the lock.
`InvokeNumCovers` is strengthened to `Covered`, which also counts the senders between
the increment of line 155 and the write of line 160. `IdleClosesIdle`, an action property,
follows from it: a sender that is about to close sees `invokeNum` at 0. `MessagesAreConserved`
(`MessageConserved`) goes through `MessagesApart`, as `JobsAreConserved` does: the two queues and the
senders of all connections hold different messages, accepted and not yet written.

**InvokeProofs**: any calls and pings, any limit of the queue, any number of copies of a
reply. `CallsLeaveNothing` (`NothingLeaks`) from

    IInv == TypeOK /\ IdPhases /\ RespOwned /\ Counted /\ ChannelsMatch

`Counted` says what `queueLen` and `invokeNum` count: the calls between the two places where the
code changes each. `RespOwned`: an entry of `resp` belongs to a call that will delete it.
`IdsAreDistinct` (`RequestIdsDistinct`) and `RepliesMatch` (`ReplyMatches`) assume fewer than `MaxInt` calls in
the life of the process (2^31-1 in the code; with that many, ids come round to one still in
use, so the hypothesis cannot be dropped). Their invariant `IdsBehind` measures how far `msgID` has
come from where it began (`s`): it still climbs, went to 1 by the compare-and-swap, or
overflowed because another call added before. In each case the ids given lie behind it and are at
least as many as the steps it took, so it cannot have come round.

**EndpointManagerProofs**: any finite set of endpoints, any callers, bounds and
registries, no assumption on time. `TypeCorrect`; `ProbeOnceHolds`, which is inductive with
`TypeOK`; `ProbesFitHolds`, if `CheckCap` is at least the number of endpoints: by
`ProbeOnce` the queue maps injectively into the endpoints other than the one being sent,
so there is room; `CachedOpenHolds` through `CacheInv`, which adds that adapters are numbered
as they are made and that nobody holds an unstored adapter that is already closed.
`NoEmptyDrawHolds` with `FreshNotEmpty`: a refresh under way never carries an empty list.

`SelectorsStayInStep` (`SelectorsInStep`) assumes `QuietHypothesis`: the registry keeps its list, and a
cached list is that list; without it the property fails in the code (section 5). Nothing is
assumed about how long calls, goroutines and probes in the channel take. Endpoints, callers, one-way
callers, thresholds and failures are arbitrary, and so is the number of adapters made, though the
property speaks only of endpoints with one, and that no two probes have crossed at (`crossed`):
where they have, it fails in the code too (section 5). The invariant `StepInv` has for each
such endpoint

    EpOk(e) == OneProbe(e) /\ InStep(e) /\ NotYet(e)

and `DialOk`: while `checkStatus` dials for the next probe, none is under way.

`OneProbe`: of waiting for a probe, being probed, being reset, being added and being blocked at most
one goes on, by one goroutine, and the adapter is blocked or good accordingly. It rests on
`ProbeOnce`: a second entry of the endpoint in the queue would start a second probe. `InStep`:
the lists agree with the status, or lag behind it exactly as far as `checkStatus` or `addAliveEp` has
come. The steps are split by goroutine (`CallerEp`, `ProberEp`, `CheckEp`); what a step does not touch
is settled once (`SameEp`). `Numbers` ensures that every goroutine has the one adapter in hand.

**TcpServerProofs**: any connections, streams, pool and queue, with or without a read
timeout. `InvokesAreCounted` (`NumInvokeCounts`), `ResponsesAreWritten` (`NoResponseDropped`) and
`ShutdownIsGraceful` (`GracefulReturn`), from

    IInv == /\ TypeOK /\ InStream /\ JobsParsed /\ NumInvokeCounts /\ ConnLife
            /\ SeenDone /\ NoResponseDropped

`NumInvokeCounts` needs that no package becomes a job twice (`InStream`, `JobsParsed`): what was read
and parsed is a prefix of the stream. `GracefulReturn` is the case of `SeenDone` in which `Shutdown` has
returned: whenever `Look` finds `numInvoke` at 0, `NumInvokeCounts` and `JobsParsed` say that
all that was parsed until then is finished (`IdleIsDone`), and what is finished stays so (`NextSeen`).

**IntWireProofs**: any widths of which each more than doubles the one before
(`WidthsGrow`), those of Go among them, and every integer, where the run takes the
borders of a chain that TLC can count to. `SignedSurvive`, `UnsignedSurvive` and
`IntsSurviveAlways` (`IntsSurvive`). The argument goes up the writers: what `WriteInt8` stores
is read back by all readers (`ByteRead`); each wider writer either calls the narrower
one, and its lemma applies, or stores the value in its own type, which narrower readers
refuse (`ShortRead`, `IntRead`, `LongRead`). An unsigned value fits the next wider signed
type because the widths more than double, and the conversion back is the identity on it
(`ModSmall`).

**ReportProofs**, the logger: any goroutines and any finite sequence of values for each, every
value logged once (`LogAssumption`), queues and batches of any size. `LogIsConserved` (`LogConserved`: a value
is in one place, losses that an error reports included, the file and the log server get the values of a
goroutine in the order it logged them, and no error of the logger is lost) from

    LInv == LogTyped /\ LogCounted /\ ErrorsCounted /\ \A g \in Goroutines : LogOrdered(g)

`LogCounted` and `ErrorsCounted` count the places of a value and of the logger's own errors; that a
value is in one place is what makes order worth anything. That each stage is in order is not inductive:
a stage stays in order when a value is appended only if what was there comes before it, so
`LogOrdered` also relates the stages (`Before`): what the file or the log server has comes before what is on
its way, batch before queue. A value just logged comes after all that is anywhere, because what is
anywhere has been logged (`SeenIsLogged`, from the counts).

**ReportProofs**, the statistics: any calls of clients and servers, any times and capacities, any number of reports, each of them a call of its own (`StatAssumption`). `StatsAreConserved`
(`StatsConserved`: an entry is in one place, and a summary is exactly that of the entries it stands for)
from

    SInv == StatTyped /\ StatCounted /\ \A d \in Sides : Summarised(d)

`StatTyped` says that the channel and the map of a side hold entries of that side alone, so the sides
can be counted apart (`PlacesAddUp`). `Summarised` says of every head of the map that its numbers are `Exact`.
An entry that `Run` takes from the channel is not in the map yet, by `StatCounted`
(`CollectedIsNew`), so every number grows by what the entry adds (`AddIsExact`); were it there already, the
counts would grow and the set would not. The sum of times is the number of milliseconds of all
entries, so it needs no recursion (`MillisecondsGrow`).

Both rest on one set of lemmas about `Among`: of a concatenation, of `Append`, of `Tail`
(`AmongConcat`, `AmongAppend`, `AmongTail`), and when it is 0 (`AmongRange`).

**ProcessProofs**, the wheel: any duration and accuracy that `NewTicker` and `After` accept
(`Accepted`), and a goroutine `run` that is late by less than a tick: `ticker.C` holds one tick and
drops what finds it full, so a wheel that is later than that loses time for good.
`TimersFire` (`TimerFires`) over any number of turns, where the run makes two of them. The channels are
numbered as they are made, so turn n closes channel n; the invariant says which channels the slots
hold after a number of turns, between which instants that number is what it is, and which channel
`After` gave to whom. The arithmetic of `%` and `\div` is in lemmas of its own (`DivMod`,
`ModOfSum`, `SameSlot`).

**ProcessProofs**, the process: any servers and any number of signals. `ServiceIsKept` (`ServiceKept`) from
`Kept`: unless somebody is excused (a server fails, a process is stopped, a signal finds no
handler), the child is calm, which means that nothing in it leads to a shutdown, and until it has
come to `mainLoop` with all its servers the parent is calm too, since the only SIGUSR2 that
the parent can get is sent by the child at that step.

Only model-checked:

* all liveness properties (fairness and `ENABLED` are outside the prover's reach);
* the wire above single integers (`ArgumentsArrive`, `ResultsReturn`, `FailureReported`,
  `AnswerIdentifies`, `FiltersGuard`, `StructArrives`): its operators are recursive over the structure of
  types and streams, and induction over data and `RECURSIVE` operators are outside the
  prover's reach too.

## 5. What the models show besides

Behaviour of the code that the models have, that no text of the repository contradicts,
and that a maintainer should know.

Client and calls:

* A late `close` by the loops of an old connection sets `isClosed` although the client uses
  a new one by then; the next `Send` dials a third. (`LiveLoops` speaks of a client that is
  not marked closed.)
* `Close` reads `isClosed` and `w.conn` without the lock; after a failed dial `w.conn` is nil
  (label `panic` of `closer`).
* An idle close racing a `Send` leaves a request in `sendQueue` until another `Send` dials.
* The limit `ObjQueueMax` is checked with `>` and before the increment, so it can be exceeded.

Endpoints:

* A refresh that runs while a probe succeeds or a check blocks installs what it read
  before: a recovered endpoint can be lost, a blocked one offered, until the next change.
  `SelectorsInStep` is therefore stated for a settled endpoint and checked with a fixed registry.
* A probe waits in the channel until some call takes it, while `checkStatus` tries the adapter
  again after 30 s (adapter.go:193). If a call has taken the probe by the end of the dial, the
  key is gone from `checkAdapterList` and the adapter is queued a second time. Two probes that
  succeed enter the endpoint twice in `activeEp`; the next block removes one copy
  (endpointmanager.go:291-295), so a blocked endpoint stays in the list, and the first probe's
  `addAliveEp` may also undo a block that came after it. `SelectorsInStep` leaves such endpoints out
  (`crossed`).
* A probe that ends after its endpoint left puts the endpoint back; nothing checks it again.
* `activeEpf` may shrink between the two reads of line 375: index out of range (label
  `panic` of a caller).
* Two callers that find no adapter make two; the second replaces the first, which is never
  closed.
* A one-way call that takes a probe never brings the endpoint back.
* Not steps of the model: `e.rand` is shared without a lock (line 375), and `activeEpf` is
  assigned before the selectors and read without the lock (line 340).

Server:

* `CloseIdles` may find all idle before the accept loop has seen `isClosed`: `Shutdown`
  returns and the clients have not been told.
* `idleTime` is set before the read (tcphandler.go:236). A loop that has just read, or is
  parsing, after a read of two seconds counts as idle, and takes its request when `Shutdown` has
  returned. `GracefulReturn` therefore speaks of what was taken before `CloseIdles` looked.
* The deadline that `sendCloseMsg` sets may be overwritten by a loop that read `isClosed` before it
  was set: that loop waits for the configured `ReadTimeout`.
* A client that leaves a part of a package keeps its recv loop, and `Shutdown`, waiting.

Protocol and generated code:

* A post server filter overwrites the error of `Dispatch`: with one that succeeds, a failed call
  is answered with `IRet` 0 (tarsprotocol.go:118). `FailureReported` excludes such requests.
* A pre server filter cannot reject a request: `Dispatch` runs and overwrites its error (line 115).
* An `*Error` with `Code` 0 is answered with `IRet` 0 (lines 128-130) and is success for the caller
  (servant.go:272). `FailureReported` excludes it.
* `InvokeTimeout` leaves `IVersion` at 0, so a TUP caller, who is otherwise answered with a request
  packet, gets a response packet, in which it does not find its id.
* A proxy writes its out-parameters behind the others. A caller of an older interface, without
  the last in-parameter, has the first of them under the tag of the missing argument. If the types fit,
  `Dispatch` takes what the caller's out-variable held for the argument: of `loadConfig` without its
  `filename`, the old `config` (Config.tars.go:265).
* Pre and post filters do not run when a single filter or a middleware is registered.
* `Invoke` drops the error of reading the request packet, `Dispatch` those of `Decode` and
  `GetBuffer`. For TARS and TUP the required reads behind them catch what is missing; in
  JSON a missing argument becomes zero or the default of its struct.
* A TUP answer has the form of a request packet: `IRet` and `SResultDesc` are lost.
* JSON has no text for a map whose keys are structs, so two of the methods cannot be
  called in it.
* An empty simple list leaves the variable it is read into as it was.
* A reader that skips the entries of a map it does not know recovers even from a wrong
  count of them: what is left over has smaller tags than any field that follows.

Services:

* `RemoteTimeWriter.Write` runs in the goroutine that empties `logQueue`; when its own
  channel is full it logs an error, which blocks for ever if `logQueue` is full
  (`SelfBlocked`). The same holds of the statistics, whose report ends with an entry for
  the channel that its goroutine empties. `LogReturns` and `PushReturns` name these states.
* A batch that the log server refuses is lost, and counted as sent.
* A restarted child whose `Listen` fails sends SIGUSR2 nevertheless and takes its parent down.
* A signal that comes before the handler is installed, or after `signal.Stop`, ends the process.
* A timeout below 20 units, or one that the division by the accuracy shortens by a tick or
  more, panics in the timing wheel (`Accepted`).

## 6. Not modelled

* In the modelled parts: statistics, trace and context values inside a call; client filters;
  servants with a direct address list; set-based routing of the registry; weights and
  positions of the selectors; the goroutine that goes on after `HandleTimeout` (the response
  is the handler's or the timeout's); floats; unlocked reads of a slice header or of
  `rand.Rand`, which are data races of the language rather than steps.
* Parts: the UDP server (a goroutine per datagram, no shutdown protocol), the HTTP server (a
  wrapper of the library), property reports (policies under a lock, like the maps of the
  statistics), selectors inside (sequential, under the manager's lock), the global manager's
  table and cache file, the configuration parser and remote configuration (text and files),
  communicator, push, contexts, tracing and utilities (no protocol of their own), the
  generator's parser and layout, contributed middleware and examples.

## 7. Plan

1. Proofs: `SelectorsInStep` for an endpoint with two adapters, once it is clear what the code means
   to promise there.
2. `Selectors`: round robin with weights, modulo hash and hash ring as functions, checked
   against reference definitions over bounded inputs; identity by host.
3. `GlobalManager`: the table of managers, its loops and the cache file, over `EndpointManager`.
4. The UDP variant of `TcpServer`, and property reports.
