------------------------------ MODULE MCServerLive ------------------------------
(***************************************************************************)
(* What must happen in the end for the server and for the endpoint manager *)
(* of its clients: one state space with two parts, in each of which the    *)
(* other component is at rest.  The fairness is that of the components.    *)
(***************************************************************************)
EXTENDS EndpointManager

CONSTANTS c1, p1, p2

VARIABLES
  part,     \* the component at work
  tClosed, tListenClosed, tAcc, tShut, tTodo, tSeen, tPc, tConns, tDeadline, tSent, tGot,
  tParsed, tNumInvoke, tEof, tWritten, tDropped,
  pending, running, finished, released   \* those of the server's pool

tVars == << tClosed, tListenClosed, tAcc, tShut, tTodo, tSeen, tPc, tConns, tDeadline,
            tSent, tGot, tParsed, tNumInvoke, tEof, tWritten, tDropped, pending, running,
            finished, released >>

\* One connection with two requests, and no pool.
T == INSTANCE TcpServer WITH
  Conns <- {c1}, Pkgs <- {p1, p2}, Stream <- [c \in {c1} |-> <<p1, p2>>],
  OneWay <- {}, Garbage <- {}, MaxInvoke <- 0, QueueCap <- 1, ReadTimeout <- FALSE,
  isClosed <- tClosed, isListenClosed <- tListenClosed, acc <- tAcc, shut <- tShut,
  todo <- tTodo, seen <- tSeen, pc <- tPc, conns <- tConns, deadline <- tDeadline,
  sent <- tSent, got <- tGot, parsed <- tParsed, numInvoke <- tNumInvoke, eof <- tEof,
  written <- tWritten, dropped <- tDropped

\* At rest: Shutdown has returned and the accept loop has ended; the registry has
\* no active endpoint, so there is nothing to call, to check or to install.
ServerAtRest ==
  /\ tClosed = TRUE /\ tListenClosed = 1 /\ tAcc = "done" /\ tShut = "returned"
  /\ tPc = [c \in {c1} |-> "gone"] /\ tConns = {} /\ tTodo = {} /\ tEof = {}
  /\ tWritten = {} /\ tDropped = {} /\ tDeadline = [c \in {c1} |-> "none"]
  /\ tSent = [c \in {c1} |-> 0] /\ tGot = [c \in {c1} |-> 0]
  /\ tParsed = [c \in {c1} |-> 0] /\ tNumInvoke = [c \in {c1} |-> 0]
  /\ tSeen = [c \in {c1} |-> 0]
  /\ pending = {} /\ running = {} /\ finished = {} /\ released = FALSE

EndpointsAtRest ==
  /\ registry = [e \in Eps |-> "inactive"] /\ changes = 0 /\ failures = 0
  /\ activeEpf = {} /\ activeEp = [e \in Eps |-> 0] /\ sel = [s \in Selectors |-> {}]
  /\ epList = [e \in Eps |-> 0] /\ made = [e \in Eps |-> 0]
  /\ status = [a \in Adapters |-> TRUE] /\ closed = [a \in Adapters |-> FALSE]
  /\ lastFailCount = [a \in Adapters |-> 0] /\ failCount = [a \in Adapters |-> 0]
  /\ checkAdapterList = {} /\ checkAdapter = << >>
  /\ pc = [c \in Callers |-> "idle"] /\ at = [c \in Callers |-> None]
  /\ needCheck = [c \in Callers |-> FALSE] /\ prober = [c \in Callers |-> NoProber]
  /\ chk = Idle /\ fresh = NotFresh /\ crossed = {}

LiveInit ==
  /\ part \in {"server", "endpoints"}
  /\ IF part = "server" THEN T!Init ELSE ServerAtRest
  /\ IF part = "endpoints" THEN Init ELSE EndpointsAtRest

LiveNext ==
  \/ part = "server" /\ T!Next /\ UNCHANGED << part, vars >>
  \/ part = "endpoints" /\ Next /\ UNCHANGED << part, tVars >>

LiveSpec == LiveInit /\ [][LiveNext]_<< part, tVars, vars >> /\ T!Fairness /\ Fairness
-------------------------------------------------------------------------------
\* TcpServer: Shutdown returns by itself, unless a client leaves a part of a package.
ShutdownReturns == T!ShutdownReturns

\* TcpServer: every request that was taken is handled to its end.
RequestsAnswered == T!RequestsAnswered
===============================================================================
