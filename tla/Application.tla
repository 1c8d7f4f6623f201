------------------------------ MODULE Application ------------------------------
(***************************************************************************)
(* The life of a server process (application.go, util/grace): Run starts   *)
(* the servers and waits until each has listened or failed, mainLoop waits *)
(* for the channel shutdown, a handler of signals restarts or shuts down   *)
(* gracefully, and any fatal error ends the process through teerDown.      *)
(*                                                                         *)
(* A graceful restart starts a second process that inherits the listening  *)
(* sockets and, once it listens, sends SIGUSR2 to its parent, which then   *)
(* shuts down.  Shutdown of one server is TcpServer's: here it returns in  *)
(* its time or not at all.                                                 *)
(***************************************************************************)
EXTENDS Naturals, Sequences

CONSTANTS
  Servers,      \* the objects of objRunList
  MaxSignals    \* bound: signals from outside

Procs == {"parent", "child"}

VARIABLES
  run,       \* Run: not started, waiting for lisDone, in mainLoop, or how it ended
  srv,       \* the goroutine of each server
  handler,   \* GraceHandler: not there, waiting for signals, in graceShutdown, or
             \* waiting again, after signal.Stop
  signals,   \* its channel of signals
  todo,      \* the servers whose Shutdown has not returned to graceShutdown
  once,      \* shutdownOnce is done
  shutdown,  \* the channel shutdown holds a value
  timedOut,  \* graceShutdown did not wait for all servers
  ordered,   \* somebody asked the process to shut down
  sentOut,   \* signals sent from outside
  excused    \* a stop from outside or a failure: service may end

appVars == << run, srv, handler, signals, todo, once, shutdown, timedOut, ordered,
              sentOut, excused >>

Init ==
  /\ run = [p \in Procs |-> IF p = "parent" THEN "listen" ELSE "off"]
  /\ srv = [p \in Procs |-> [s \in Servers |-> "new"]]
  /\ handler = [p \in Procs |-> "none"] /\ signals = [p \in Procs |-> << >>]
  /\ todo = [p \in Procs |-> {}] /\ once = [p \in Procs |-> FALSE]
  /\ shutdown = [p \in Procs |-> FALSE] /\ timedOut = [p \in Procs |-> FALSE]
  /\ ordered = [p \in Procs |-> FALSE] /\ sentOut = 0 /\ excused = FALSE

Alive(p) == run[p] \in {"listen", "loop"}

\* The goroutine of a server: Listen succeeds, and Serve begins, or either fails.
\* lisDone.Done comes before teerDown.
Listens(p, s) ==
  /\ Alive(p) /\ srv[p][s] = "new" /\ srv' = [srv EXCEPT ![p][s] = "serving"]
  /\ UNCHANGED << run, handler, signals, todo, once, shutdown, timedOut, ordered, sentOut,
                  excused >>
Fails(p, s) ==
  /\ Alive(p) /\ srv[p][s] \in {"new", "serving"}
  /\ srv' = [srv EXCEPT ![p][s] = "failing"] /\ excused' = TRUE
  /\ UNCHANGED << run, handler, signals, todo, once, shutdown, timedOut, ordered, sentOut >>

\* teerDown: only the first puts a value into the channel.
teerDown(p) ==
  /\ once' = [once EXCEPT ![p] = TRUE]
  /\ shutdown' = [shutdown EXCEPT ![p] = @ \/ ~once[p]]

ServerTeersDown(p, s) ==
  /\ Alive(p) /\ srv[p][s] = "failing"
  /\ srv' = [srv EXCEPT ![p][s] = "failed"] /\ teerDown(p)
  /\ UNCHANGED << run, handler, signals, todo, timedOut, ordered, sentOut, excused >>

\* A signal reaches a process: its channel, from signal.Notify to signal.Stop, or the
\* default action, which ends it.
Deliver(p, sig, running) ==
  IF handler[p] = "ready"
  THEN signals' = [signals EXCEPT ![p] = Append(@, sig)] /\ run' = running
  ELSE UNCHANGED signals /\ run' = [running EXCEPT ![p] = "killed"]

\* Bug: the signal to the parent does not wait for lisDone.
BugListenDone(p) ==
  /\ run[p] = "listen"
  /\ LET running == [run EXCEPT ![p] = "loop"] IN
       IF p = "child" /\ Alive("parent") THEN Deliver("parent", "USR2", running)
       ELSE run' = running /\ UNCHANGED signals
  /\ UNCHANGED << srv, handler, todo, once, shutdown, timedOut, ordered, sentOut, excused >>

\* Bug: a server whose Listen fails does not call lisDone.Done.
BugListenDoneOk(p) ==
  /\ run[p] = "listen" /\ \A s \in Servers : srv[p][s] = "serving"
  /\ LET running == [run EXCEPT ![p] = "loop"] IN
       IF p = "child" /\ Alive("parent") THEN Deliver("parent", "USR2", running)
       ELSE run' = running /\ UNCHANGED signals
  /\ UNCHANGED << srv, handler, todo, once, shutdown, timedOut, ordered, sentOut, excused >>

\* lisDone.Wait returns; a restarted process signals its parent, and mainLoop begins.
ListenDone(p) ==
  /\ run[p] = "listen" /\ \A s \in Servers : srv[p][s] # "new"
  /\ LET running == [run EXCEPT ![p] = "loop"] IN
       IF p = "child" /\ Alive("parent") THEN Deliver("parent", "USR2", running)
       ELSE run' = running /\ UNCHANGED signals
  /\ UNCHANGED << srv, handler, todo, once, shutdown, timedOut, ordered, sentOut, excused >>

\* mainLoop starts handleSignal, which calls signal.Notify.
handleSignal(p) ==
  /\ run[p] = "loop" /\ handler[p] = "none" /\ handler' = [handler EXCEPT ![p] = "ready"]
  /\ UNCHANGED << run, srv, signals, todo, once, shutdown, timedOut, ordered, sentOut, excused >>

\* mainLoop takes the value of the channel, and Run returns.
MainReturns(p) ==
  /\ run[p] = "loop" /\ shutdown[p] /\ shutdown' = [shutdown EXCEPT ![p] = FALSE]
  /\ run' = [run EXCEPT ![p] = "returned"]
  /\ UNCHANGED << srv, handler, signals, todo, once, timedOut, ordered, sentOut, excused >>

Takes(p, sigs) ==
  /\ Alive(p) /\ handler[p] \in {"ready", "again"} /\ signals[p] # << >>
  /\ Head(signals[p]) \in sigs
  /\ signals' = [signals EXCEPT ![p] = Tail(@)]

\* graceRestart: the child is started, or cannot be.
graceRestart(p) ==
  /\ Takes(p, {"USR1"}) /\ run["child"] = "off"
  /\ run' \in {run, [run EXCEPT !["child"] = "listen"]}
  /\ UNCHANGED << srv, handler, todo, once, shutdown, timedOut, ordered, sentOut, excused >>

\* signal.Stop and graceShutdown, which starts a goroutine for the Shutdown of each
\* server.
graceShutdown(p) ==
  /\ Takes(p, {"USR2", "TERM"})
  /\ handler' = [handler EXCEPT ![p] = "grace"] /\ todo' = [todo EXCEPT ![p] = Servers]
  /\ ordered' = [ordered EXCEPT ![p] = TRUE]
  /\ UNCHANGED << run, srv, once, shutdown, timedOut, sentOut, excused >>

\* Shutdown of a server returns.
ServerShut(p, s) ==
  /\ Alive(p) /\ s \in todo[p] /\ todo' = [todo EXCEPT ![p] = @ \ {s}]
  /\ srv' = [srv EXCEPT ![p][s] = IF @ = "serving" THEN "shut" ELSE @]
  /\ UNCHANGED << run, handler, signals, once, shutdown, timedOut, ordered, sentOut, excused >>

\* All have returned, or the time is up: teerDown(nil), and back to the channel.
graceShutdownEnds(p) ==
  /\ Alive(p) /\ handler[p] = "grace"
  /\ timedOut' = [timedOut EXCEPT ![p] = @ \/ todo[p] # {}]
  /\ handler' = [handler EXCEPT ![p] = "again"] /\ teerDown(p)
  /\ UNCHANGED << run, srv, signals, todo, ordered, sentOut, excused >>

\* An administrator or the node sends a signal: a restart to the parent, a stop to any.
\* One that comes when the handler is not there ends the process.
Signal(p, sig) ==
  /\ Alive(p) /\ sentOut < MaxSignals /\ sentOut' = sentOut + 1
  /\ sig = "USR1" => p = "parent" /\ run["child"] = "off" /\ signals[p] = << >>
  /\ Deliver(p, sig, run)
  /\ excused' = (excused \/ sig = "TERM" \/ handler[p] # "ready")
  /\ UNCHANGED << srv, handler, todo, once, shutdown, timedOut, ordered >>

\* Admin.Shutdown and Admin.Notify: Run makes the Admin with new, so its app is nil;
\* the handler of the call panics, and CheckPanic ends the process.
AdminShutdown(p) ==
  /\ Alive(p) /\ \E s \in Servers : srv[p][s] = "serving"
  /\ ordered' = [ordered EXCEPT ![p] = TRUE] /\ run' = [run EXCEPT ![p] = "exited"]
  /\ excused' = TRUE
  /\ UNCHANGED << srv, handler, signals, todo, once, shutdown, timedOut, sentOut >>

OwnStep(p) ==
  \/ ListenDone(p) \/ MainReturns(p) \/ graceShutdownEnds(p)
  \/ \E s \in Servers : ServerTeersDown(p, s)
Next ==
  \E p \in Procs :
    \/ OwnStep(p) \/ handleSignal(p) \/ graceRestart(p) \/ graceShutdown(p) \/ AdminShutdown(p)
    \/ \E s \in Servers : Listens(p, s) \/ Fails(p, s) \/ ServerShut(p, s)
    \/ \E sig \in {"USR1", "TERM"} : Signal(p, sig)

\* Listen returns in time; the goroutines of the process are scheduled; graceShutdown
\* has a timeout.  That the Shutdown of a server returns is not assumed.
Fairness ==
  \A p \in Procs :
    /\ WF_appVars(ListenDone(p)) /\ WF_appVars(MainReturns(p))
    /\ WF_appVars(graceShutdown(p)) /\ WF_appVars(graceShutdownEnds(p))
    /\ \A s \in Servers : WF_appVars(ServerTeersDown(p, s)) /\ WF_appVars(Listens(p, s) \/ Fails(p, s))
Spec == Init /\ [][Next]_appVars
FairSpec == Spec /\ Fairness
-------------------------------------------------------------------------------
\* Run, SignalUSR2, graceShutdown: through a graceful restart every object is always
\* served by one of the two processes, unless somebody stops one or a server fails.
ServiceKept ==
  \/ excused \/ run["parent"] = "listen"
  \/ \A s \in Servers : \E p \in Procs : Alive(p) /\ srv[p][s] = "serving"

\* teerDown, shutdownOnce, lisDone: a process one of whose servers failed, or that
\* began to shut down, ends, whatever else fails meanwhile and also if a server's
\* Shutdown never returns.
RunEnds ==
  \A p \in Procs :
    Alive(p) /\ (handler[p] = "grace" \/ \E s \in Servers : srv[p][s] = "failing") ~> ~Alive(p)

\* "Shutdown all servant by admin" (admin.go:34): a process that was asked to shut
\* down, and had no failure, ends when all its servers are shut down or the time is up.
GracefulExit ==
  \A p \in Procs :
    ordered[p] /\ run[p] \in {"returned", "exited"} =>
      \/ timedOut[p] \/ \E s \in Servers : srv[p][s] \in {"failing", "failed"}
      \/ \A s \in Servers : srv[p][s] = "shut"
===============================================================================
