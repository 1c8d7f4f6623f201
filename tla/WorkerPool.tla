------------------------------ MODULE WorkerPool ------------------------------
(***************************************************************************)
(* What a goroutine pool promises to its users, without its dispatcher and *)
(* channels: an accepted job is started at most once, no more than         *)
(* NumWorkers jobs run at a time, and once Release has returned nothing    *)
(* runs and nothing is started any more.                                   *)
(***************************************************************************)
EXTENDS Naturals, FiniteSets

CONSTANTS Jobs,        \* the jobs that may be submitted
          NumWorkers   \* size of the pool

VARIABLES pending,     \* accepted, not started
          running,     \* started, not finished
          finished,
          released     \* Release has returned

vars == <<pending, running, finished, released>>

Init == pending = {} /\ running = {} /\ finished = {} /\ released = FALSE

\* A job sent to JobQueue; this is possible after Release too.
Accept(j) ==
  /\ j \notin pending \cup running \cup finished
  /\ pending' = pending \cup {j}
  /\ UNCHANGED <<running, finished, released>>

Begin(j) ==
  /\ ~released /\ j \in pending /\ Cardinality(running) < NumWorkers
  /\ pending' = pending \ {j} /\ running' = running \cup {j}
  /\ UNCHANGED <<finished, released>>

Finish(j) ==
  /\ j \in running
  /\ running' = running \ {j} /\ finished' = finished \cup {j}
  /\ UNCHANGED <<pending, released>>

Release ==
  /\ ~released /\ running = {}
  /\ released' = TRUE
  /\ UNCHANGED <<pending, running, finished>>

Next == Release \/ \E j \in Jobs : Accept(j) \/ Begin(j) \/ Finish(j)

Spec == Init /\ [][Next]_vars
===============================================================================
