------------------------------ MODULE MCServices ------------------------------
(***************************************************************************)
(* What a server process has around its calls: the logger, the statistics, *)
(* the timing wheel and the life of the process.  One state space with     *)
(* four parts, in each of which the other components are at rest, with no  *)
(* goroutine that could take a step by itself.  The fairness is that of    *)
(* the components.                                                         *)
(***************************************************************************)
EXTENDS Rogger, StatReport, TimeWheel, Application, TLC

CONSTANTS g1, g2, f1, r1, r2, r3, k1, k2, k3, q1, q2, h1, h2

VARIABLE part   \* the component at work

\* Two goroutines log three values for the log server and one for a file; with queues of
\* one value both queues are full at times.
TwoPlans == g1 :> << r1, f1, r2 >> @@ g2 :> << r3 >>

\* Two calls made, one served and two reports; a time below the first point, one on a
\* point and one beyond the last.
TwoReports == << q1, q2 >>
Heads == k1 :> h1 @@ k2 :> h1 @@ k3 :> h1 @@ q1 :> h2 @@ q2 :> h2
Times == k1 :> 10 @@ k2 :> 4 @@ k3 :> 3000 @@ q1 :> 20 @@ q2 :> 20

\* The wheel, with a timeout that is no multiple of the accuracy, turns around twice.  The
\* process has two servers and gets a restart and a stop, or two stops.

\* The components at rest: everything is logged and reported, and the log goroutine has
\* ended; no process has been started.
LogAtRest ==
  /\ nLogged = g1 :> 3 @@ g2 :> 1 /\ logQueue = << >> /\ errors = 0
  /\ flusher = [pc |-> "ended", v |-> Oops] /\ inFile = << f1 >>
  /\ logs = << >> /\ syncer = "select" /\ batch = << >>
  /\ delivered = << r1, r2, r3 >> /\ overflowed = {} /\ failed = << >>
  /\ flush = "flushed" /\ asyncDone = TRUE /\ before = {f1, r1, r2, r3}

StatAtRest ==
  /\ toReport = {} /\ chStatInfo = [d \in Sides |-> << >>]
  /\ mStatInfo = [d \in Sides |-> NoStats] /\ runner = Selecting /\ nReports = 0
  /\ collected = [d \in Sides |-> {}]
  /\ carried = [c \in {k1, k2, k3, q1, q2} |-> IF c \in {k1, k2, k3} THEN 1 ELSE 0]

AppAtRest ==
  /\ run = [p \in Procs |-> "off"] /\ srv = [p \in Procs |-> [s \in Servers |-> "new"]]
  /\ handler = [p \in Procs |-> "none"] /\ signals = [p \in Procs |-> << >>]
  /\ todo = [p \in Procs |-> {}] /\ once = [p \in Procs |-> FALSE]
  /\ shutdown = [p \in Procs |-> FALSE] /\ timedOut = [p \in Procs |-> FALSE]
  /\ ordered = [p \in Procs |-> FALSE] /\ sentOut = 0 /\ excused = TRUE

ServicesInit ==
  /\ part \in {"log", "stat", "wheel", "app"}
  /\ IF part = "log" THEN LogInit ELSE LogAtRest
  /\ IF part = "stat" THEN StatInit ELSE StatAtRest
  /\ WheelInit
  /\ IF part = "app" THEN Init ELSE AppAtRest

ServicesNext ==
  \/ part = "log" /\ LogNext /\ UNCHANGED << part, statVars, wheelVars, appVars >>
  \/ part = "stat" /\ StatNext /\ UNCHANGED << part, logVars, wheelVars, appVars >>
  \/ part = "wheel" /\ WheelNext /\ UNCHANGED << part, logVars, statVars, appVars >>
  \/ part = "app" /\ Next /\ UNCHANGED << part, logVars, statVars, wheelVars >>

ServicesSpec ==
  /\ ServicesInit
  /\ [][ServicesNext]_<< part, logVars, statVars, wheelVars, appVars >>
  /\ LogFairness /\ StatFairness /\ Fairness
===============================================================================
