---------------------------- MODULE EndpointManager ----------------------------
(***************************************************************************)
(* endpointManager of a servant found through the registry: the list of    *)
(* active endpoints, the adapters made for them, the selectors that choose *)
(* one for a call, and the health check that blocks an endpoint that fails *)
(* and probes it with a later call.                                        *)
(*                                                                         *)
(* Four kinds of goroutines share this state: the callers                  *)
(* (SelectAdapterProxy, doInvoke), the one that checkEpStatus runs         *)
(* (checkStatus), the one that updateEndpoints runs (findAndSetObj, under  *)
(* freshLock), and the goroutine that a successful probe starts (reset,    *)
(* addAliveEp).  epLock guards little of it, so each of their steps is an  *)
(* action.                                                                 *)
(*                                                                         *)
(* Time is abstract: a condition on the clock may be true or false at any  *)
(* moment, so a call, a probe in the channel and a goroutine may outlast   *)
(* every interval of the code.  An endpoint stands for its key; a selector *)
(* tells endpoints apart by host, so the hosts are taken to be distinct.   *)
(***************************************************************************)
EXTENDS Naturals, FiniteSets, Sequences

CONSTANTS
  Eps,         \* endpoints
  Callers,     \* goroutines that make calls, one after another
  OneWay,      \* callers whose calls are one-way
  Hash,        \* selectors that the calls ask for
  FainN,       \* fainN: failures in a row that block an endpoint
  OverN,       \* overN: failures that block it if they are half of the calls
  CheckCap,    \* capacity of the channel checkAdapter
  Caches,      \* lists of endpoints that the cache file may hold
  MaxGen,      \* bound: adapters made for one endpoint
  MaxFails,    \* bound: calls and dials that fail
  MaxChanges,  \* bound: changes of the registry
  None

Selectors == {"rr", "con", "mod"}

ASSUME SetsAssumption == /\ IsFiniteSet(Eps) /\ None \notin Eps
                         /\ OneWay \subseteq Callers /\ Hash \subseteq Selectors
                         /\ Caches \subseteq SUBSET Eps
ASSUME NumbersAssumption == {FainN, OverN, CheckCap, MaxGen, MaxFails, MaxChanges} \subseteq Nat

\* The adapters ever made: the n-th for an endpoint.
Adapters == Eps \X (1..MaxGen)
ASSUME NoneAssumption == None \notin Adapters

VARIABLES
  registry,          \* what the registry says of each endpoint
  changes,           \* how often it has changed
  failures,          \* how many calls and dials have failed
  activeEpf,         \* endpointManager.activeEpf
  activeEp,          \* endpointManager.activeEp: how often it holds each endpoint
  sel,               \* activeEpRoundRobin, activeEpConHash, activeEpModHash
  epList,            \* epList: the number of the adapter it holds, or 0
  made,              \* how many adapters were made for an endpoint
  status, closed, lastFailCount, failCount,   \* AdapterProxy's fields
  checkAdapterList,  \* the keys of checkAdapterList
  checkAdapter,      \* the channel of adapters to probe
  pc, at, needCheck, \* each caller: where it is, on which adapter, for a probe
  prober,            \* the goroutine its last probe started
  chk,               \* the goroutine in checkStatus
  fresh,             \* the goroutine in findAndSetObj
  crossed            \* history: endpoints whose probe met the next try or the next block

env == <<registry, changes, failures>>
lists == <<activeEpf, activeEp, sel>>
adps == <<epList, made, status, closed, lastFailCount, failCount>>
probes == <<checkAdapterList, checkAdapter>>
callers == <<pc, at, needCheck, prober>>
vars == <<env, lists, adps, probes, callers, chk, fresh, crossed>>

Idle == [pc |-> "idle", at |-> None, todo |-> {}]
NotFresh == [pc |-> "idle", at |-> None, todo |-> {}, new |-> {}, sorted |-> {}]
NoProber == [pc |-> "none", at |-> None]

ActiveIn(reg) == {e \in Eps : reg[e] = "active"}
EpOf(a) == a[1]

\* GetManager made the manager: from the registry, or, if that failed, from
\* the cache file, or with nothing.  Only the cache fills the ModHash.
Init ==
  /\ registry = [e \in Eps |-> "active"]
  /\ changes = 0 /\ failures = 0
  /\ \/ /\ activeEpf = ActiveIn(registry)
        /\ sel = [s \in Selectors |-> IF s = "mod" THEN {} ELSE activeEpf]
     \/ activeEpf \in Caches /\ sel = [s \in Selectors |-> activeEpf]
     \/ activeEpf = {} /\ sel = [s \in Selectors |-> {}]
  /\ activeEp = [e \in Eps |-> IF e \in activeEpf THEN 1 ELSE 0]
  /\ epList = [e \in Eps |-> 0] /\ made = [e \in Eps |-> 0]
  /\ status = [a \in Adapters |-> TRUE] /\ closed = [a \in Adapters |-> FALSE]
  /\ lastFailCount = [a \in Adapters |-> 0] /\ failCount = [a \in Adapters |-> 0]
  /\ checkAdapterList = {} /\ checkAdapter = <<>>
  /\ pc = [c \in Callers |-> "idle"]
  /\ at = [c \in Callers |-> None]
  /\ needCheck = [c \in Callers |-> FALSE]
  /\ prober = [c \in Callers |-> NoProber]
  /\ chk = Idle /\ fresh = NotFresh /\ crossed = {}

-------------------------------------------------------------------------------
(* The environment. *)

\* External: servers start, stop or leave.
RegistryChange ==
  /\ changes < MaxChanges
  /\ \E reg \in [Eps -> {"active", "inactive", "gone"}] : reg # registry /\ registry' = reg
  /\ changes' = changes + 1
  /\ UNCHANGED <<failures, lists, adps, probes, callers, chk, fresh, crossed>>

\* A call or a dial fails.
Failure == failures < MaxFails /\ failures' = failures + 1

-------------------------------------------------------------------------------
(* Callers: SelectAdapterProxy and what doInvoke does with the adapter. *)

\* Caller c goes on to label, on adapter or endpoint a.
Goto(c, label, a) == pc' = [pc EXCEPT ![c] = label] /\ at' = [at EXCEPT ![c] = a]

\* The goroutine of a successful probe of a is running.
Recovering(a) == \E c \in Callers : prober[c].at = a
\* A call that probes a, or that goroutine, is under way.
Probing(a) == Recovering(a) \/ \E c \in Callers : at[c] = a /\ needCheck[c]

\* A call begins and there is an adapter to probe: the call takes it, maybe while
\* checkStatus dials for the next probe of it.
\* The bound: a caller starts no call while the goroutine of its last probe runs.
Pop(c) ==
  /\ pc[c] = "idle" /\ prober[c] = NoProber
  /\ activeEpf # {} /\ checkAdapter # <<>>
  /\ checkAdapter' = Tail(checkAdapter)
  /\ Goto(c, "popped", Head(checkAdapter))
  /\ needCheck' = [needCheck EXCEPT ![c] = TRUE]
  /\ crossed' = crossed \cup IF chk.pc = "dial" /\ chk.at = Head(checkAdapter)
                            THEN {EpOf(chk.at)} ELSE {}
  /\ UNCHANGED <<env, lists, adps, checkAdapterList, prober, chk, fresh>>

\* Bug: the key is never taken out.
BugPopped(c) ==
  /\ pc[c] = "popped"
  /\ Goto(c, "call", at[c])
  /\ UNCHANGED <<env, lists, adps, probes, needCheck, prober, chk, fresh, crossed>>

\* It takes the key of the adapter out of checkAdapterList.
Popped(c) ==
  /\ pc[c] = "popped"
  /\ checkAdapterList' = checkAdapterList \ {EpOf(at[c])}
  /\ Goto(c, "call", at[c])
  /\ UNCHANGED <<env, lists, adps, checkAdapter, needCheck, prober, chk, fresh, crossed>>

\* A call begins and asks a selector.  An empty one is an error: the caller
\* computes a random index of activeEpf.
Select(c) ==
  /\ pc[c] = "idle" /\ prober[c] = NoProber
  /\ activeEpf # {} /\ checkAdapter = <<>>
  /\ \E s \in Hash :
       \/ \E e \in sel[s] : Goto(c, "load", <<e, 0>>)
       \/ sel[s] = {} /\ \E i \in 1..Cardinality(activeEpf) : Goto(c, "random", <<None, i>>)
  /\ needCheck' = [needCheck EXCEPT ![c] = FALSE]
  /\ UNCHANGED <<env, lists, adps, probes, prober, chk, fresh, crossed>>

\* The index is used on the list that activeEpf is now.  Which endpoint an
\* index stands for is the order of the list, not modelled.
Random(c) ==
  /\ pc[c] = "random"
  /\ \/ at[c][2] <= Cardinality(activeEpf) /\ \E e \in activeEpf : Goto(c, "load", <<e, 0>>)
     \/ at[c][2] > Cardinality(activeEpf) /\ Goto(c, "panic", at[c])
  /\ UNCHANGED <<env, lists, adps, probes, needCheck, prober, chk, fresh, crossed>>

\* Load the adapter of the endpoint; if there is none, make one.
Load(c) ==
  /\ pc[c] = "load"
  /\ LET e == EpOf(at[c]) IN
     \/ epList[e] # 0 /\ Goto(c, "call", <<e, epList[e]>>) /\ UNCHANGED made
     \/ /\ epList[e] = 0 /\ made[e] < MaxGen
        /\ made' = [made EXCEPT ![e] = @ + 1]
        /\ Goto(c, "store", <<e, made[e] + 1>>)
  /\ UNCHANGED <<env, lists, epList, status, closed, lastFailCount, failCount, probes, needCheck,
                 prober, chk, fresh, crossed>>

\* Store the adapter made, over the one another caller may have stored since.
Store(c) ==
  /\ pc[c] = "store"
  /\ epList' = [epList EXCEPT ![EpOf(at[c])] = at[c][2]]
  /\ Goto(c, "call", at[c])
  /\ UNCHANGED <<env, lists, made, status, closed, lastFailCount, failCount, probes, needCheck,
                 prober, chk, fresh, crossed>>

\* The call succeeds: successAdd, and after a probe the goroutine that brings
\* the endpoint back; a one-way call has no reply that could start it.
Success(c) ==
  /\ pc[c] = "call"
  /\ lastFailCount' = [lastFailCount EXCEPT ![at[c]] = 0]
  /\ prober' = [prober EXCEPT ![c] = IF needCheck[c] /\ c \notin OneWay
                                     THEN [pc |-> "reset", at |-> at[c]] ELSE NoProber]
  /\ needCheck' = [needCheck EXCEPT ![c] = FALSE]
  /\ Goto(c, "idle", None)
  /\ UNCHANGED <<env, lists, epList, made, status, closed, failCount, probes, chk, fresh, crossed>>

\* The call fails or times out: failAdd.
Fail(c) ==
  /\ pc[c] = "call" /\ Failure
  /\ lastFailCount' = [lastFailCount EXCEPT ![at[c]] = @ + 1]
  /\ failCount' = [failCount EXCEPT ![at[c]] = @ + 1]
  /\ needCheck' = [needCheck EXCEPT ![c] = FALSE]
  /\ Goto(c, "idle", None)
  /\ UNCHANGED <<registry, changes, lists, epList, made, status, closed, probes, prober, chk,
                 fresh, crossed>>

\* The goroutine of a successful probe: reset the counters and the status...
Reset(c) ==
  /\ prober[c].pc = "reset"
  /\ LET a == prober[c].at IN
     /\ status' = [status EXCEPT ![a] = TRUE]
     /\ lastFailCount' = [lastFailCount EXCEPT ![a] = 0]
     /\ failCount' = [failCount EXCEPT ![a] = 0]
  /\ prober' = [prober EXCEPT ![c].pc = "add"]
  /\ UNCHANGED <<env, lists, epList, made, closed, probes, pc, at, needCheck, chk, fresh, crossed>>

\* ...then, under epLock, append the endpoint to activeEp and to each selector,
\* which refuses an endpoint it has.
AddAliveEp(c) ==
  /\ prober[c].pc = "add"
  /\ LET e == EpOf(prober[c].at) IN
     /\ activeEp' = [activeEp EXCEPT ![e] = @ + 1]
     /\ sel' = [s \in Selectors |-> sel[s] \cup {e}]
  /\ prober' = [prober EXCEPT ![c] = NoProber]
  /\ UNCHANGED <<env, activeEpf, adps, probes, pc, at, needCheck, chk, fresh, crossed>>

CallerStep(c) == \/ Pop(c) \/ Popped(c) \/ Select(c) \/ Random(c) \/ Load(c) \/ Store(c)
                 \/ Success(c) \/ Fail(c)
ProberStep(c) == Reset(c) \/ AddAliveEp(c)

-------------------------------------------------------------------------------
(* checkStatus. *)

\* checkActive may block a good adapter that fails: in time, 5 s are over since its
\* last success, or 60 s since its last reset.
MayBlock(a) == ~closed[a] /\ status[a] /\ (lastFailCount[a] >= FainN \/ failCount[a] >= OverN)
\* It may try a blocked adapter: in time, 30 s are over since it was blocked or
\* last tried.
MayTry(a) == ~closed[a] /\ ~status[a]

\* The loop starts, over the list that activeEpf is then.
CheckStart ==
  /\ chk.pc = "idle" /\ activeEpf # {}
  /\ chk' = [pc |-> "next", at |-> None, todo |-> activeEpf]
  /\ UNCHANGED <<env, lists, adps, probes, callers, fresh, crossed>>

\* The endpoint e is done: the next one, or the end of the loop.
Checked(e) == chk' = IF chk.todo = {e} THEN Idle
                     ELSE [pc |-> "next", at |-> None, todo |-> chk.todo \ {e}]

\* e has no adapter, or its adapter is left as it is.
CheckNothing(e) ==
  /\ chk.pc = "next" /\ e \in chk.todo
  /\ Checked(e)
  /\ UNCHANGED <<env, lists, adps, probes, callers, fresh, crossed>>

\* checkActive: firstTime.
CheckBlock(e) ==
  /\ chk.pc = "next" /\ e \in chk.todo /\ epList[e] # 0
  /\ LET a == <<e, epList[e]>> IN
     /\ MayBlock(a)
     /\ status' = [status EXCEPT ![a] = FALSE]
     /\ chk' = [chk EXCEPT !.pc = "unlist", !.at = a]
     /\ crossed' = crossed \cup IF Recovering(a) THEN {e} ELSE {}
  /\ UNCHANGED <<env, lists, epList, made, closed, lastFailCount, failCount, probes, callers, fresh>>

\* Take the first copy of the endpoint out of activeEp, under epLock.
Unlist ==
  /\ chk.pc = "unlist"
  /\ LET e == EpOf(chk.at) IN activeEp' = [activeEp EXCEPT ![e] = IF @ = 0 THEN 0 ELSE @ - 1]
  /\ chk' = [chk EXCEPT !.pc = "rr"]
  /\ UNCHANGED <<env, activeEpf, sel, adps, probes, callers, fresh, crossed>>

\* Bug: the ConsistentHash keeps the endpoint.
BugUnselect(s) ==
  /\ chk.pc = s
  /\ LET e == EpOf(chk.at) IN
     /\ sel' = IF s = "con" THEN sel ELSE [sel EXCEPT ![s] = @ \ {e}]
     /\ CASE s = "rr" -> chk' = [chk EXCEPT !.pc = "con"]
          [] s = "con" -> chk' = [chk EXCEPT !.pc = "mod"]
          [] s = "mod" -> Checked(e)
  /\ UNCHANGED <<env, activeEpf, activeEp, adps, probes, callers, fresh, crossed>>

\* Take it out of the selector that e.activeEp... now is, one after another.
Unselect(s) ==
  /\ chk.pc = s
  /\ LET e == EpOf(chk.at) IN
     /\ sel' = [sel EXCEPT ![s] = @ \ {e}]
     /\ CASE s = "rr" -> chk' = [chk EXCEPT !.pc = "con"]
          [] s = "con" -> chk' = [chk EXCEPT !.pc = "mod"]
          [] s = "mod" -> Checked(e)
  /\ UNCHANGED <<env, activeEpf, activeEp, adps, probes, callers, fresh, crossed>>

\* checkActive tries a blocked adapter, which may still be in the channel or
\* probed: it dials...
CheckTry(e) ==
  /\ chk.pc = "next" /\ e \in chk.todo /\ epList[e] # 0
  /\ LET a == <<e, epList[e]>> IN
     /\ MayTry(a)
     /\ chk' = [chk EXCEPT !.pc = "dial", !.at = a]
     /\ crossed' = crossed \cup IF Probing(a) THEN {e} ELSE {}
  /\ UNCHANGED <<env, lists, adps, probes, callers, fresh>>

\* ...and the dial fails.
CheckNoDial ==
  /\ chk.pc = "dial" /\ Failure
  /\ Checked(EpOf(chk.at))
  /\ UNCHANGED <<registry, changes, lists, adps, probes, callers, fresh, crossed>>

\* Bug: an adapter that waits in the channel is entered again.
BugCheckInsert ==
  /\ chk.pc = "dial"
  /\ chk' = [chk EXCEPT !.pc = "insert"]
  /\ checkAdapterList' = checkAdapterList \cup {EpOf(chk.at)}
  /\ UNCHANGED <<env, lists, adps, checkAdapter, callers, fresh, crossed>>

\* needCheck: the adapter is entered in checkAdapterList, unless it is there...
CheckInsert ==
  /\ chk.pc = "dial"
  /\ LET e == EpOf(chk.at) IN
     /\ \/ e \in checkAdapterList /\ Checked(e)
        \/ e \notin checkAdapterList /\ chk' = [chk EXCEPT !.pc = "insert"]
     /\ checkAdapterList' = checkAdapterList \cup {e}
  /\ UNCHANGED <<env, lists, adps, checkAdapter, callers, fresh, crossed>>

\* ...and sent to the channel, which blocks if that is full.
CheckSend ==
  /\ chk.pc = "insert" /\ Len(checkAdapter) < CheckCap
  /\ checkAdapter' = Append(checkAdapter, chk.at)
  /\ Checked(EpOf(chk.at))
  /\ UNCHANGED <<env, lists, adps, checkAdapterList, callers, fresh, crossed>>

CheckStep == \/ CheckStart \/ Unlist \/ CheckNoDial \/ CheckInsert \/ CheckSend
             \/ \E s \in Selectors : Unselect(s)
             \/ \E e \in Eps : CheckNothing(e) \/ CheckBlock(e) \/ CheckTry(e)

-------------------------------------------------------------------------------
(* findAndSetObj. *)

\* The refresh goes on to close the adapters of useless or, if there are none
\* (left), to build the new list.
Pruning(new, useless) ==
  [pc |-> IF useless = {} THEN "build" ELSE "prune", at |-> None,
   todo |-> IF useless = {} THEN new ELSE useless, new |-> new, sorted |-> {}]

\* Bug: an empty list is installed.
BugFindEmpty ==
  /\ fresh.pc = "idle"
  /\ LET new == ActiveIn(registry)
         useless == {e \in Eps : epList[e] # 0 /\ registry[e] = "gone"} IN
     /\ new # activeEpf
     /\ fresh' = Pruning(new, useless)
  /\ UNCHANGED <<env, lists, adps, probes, callers, chk, crossed>>

\* The registry answers with a list that is new and not empty; any other answer,
\* and an error, change nothing.  The adapters of endpoints that are neither
\* active nor inactive are useless.
Find ==
  /\ fresh.pc = "idle"
  /\ LET new == ActiveIn(registry)
         useless == {e \in Eps : epList[e] # 0 /\ registry[e] = "gone"} IN
     /\ new # activeEpf /\ new # {}
     /\ fresh' = Pruning(new, useless)
  /\ UNCHANGED <<env, lists, adps, probes, callers, chk, crossed>>

\* Close a useless adapter...
PruneClose(e) ==
  /\ fresh.pc = "prune" /\ e \in fresh.todo /\ epList[e] # 0
  /\ closed' = [closed EXCEPT ![<<e, epList[e]>>] = TRUE]
  /\ fresh' = [fresh EXCEPT !.pc = "delete", !.at = e]
  /\ UNCHANGED <<env, lists, epList, made, status, lastFailCount, failCount, probes, callers,
                 chk, crossed>>

\* Bug: the closed adapter stays.
BugPruneDelete ==
  /\ fresh.pc = "delete"
  /\ fresh' = Pruning(fresh.new, fresh.todo \ {fresh.at})
  /\ UNCHANGED <<env, lists, adps, probes, callers, chk, crossed>>

\* ...and delete what epList holds for its key.
PruneDelete ==
  /\ fresh.pc = "delete"
  /\ epList' = [epList EXCEPT ![fresh.at] = 0]
  /\ fresh' = Pruning(fresh.new, fresh.todo \ {fresh.at})
  /\ UNCHANGED <<env, lists, made, status, closed, lastFailCount, failCount, probes, callers,
                 chk, crossed>>

\* Keep an endpoint of the new list unless it has an adapter that is blocked.
Build(e) ==
  /\ fresh.pc = "build" /\ e \in fresh.todo
  /\ fresh' = [fresh EXCEPT !.todo = @ \ {e},
                            !.sorted = IF epList[e] # 0 /\ ~status[<<e, epList[e]>>] THEN @ ELSE @ \cup {e}]
  /\ UNCHANGED <<env, lists, adps, probes, callers, chk, crossed>>

\* Install the list and the new selectors under epLock.  The RoundRobin is
\* filled twice and the ModHash not at all.
Install ==
  /\ fresh.pc = "build" /\ fresh.todo = {}
  /\ activeEpf' = fresh.new
  /\ activeEp' = [e \in Eps |-> IF e \in fresh.sorted THEN 1 ELSE 0]
  /\ sel' = [s \in Selectors |-> IF s = "mod" THEN {} ELSE fresh.sorted]
  /\ fresh' = NotFresh
  /\ UNCHANGED <<env, adps, probes, callers, chk, crossed>>

FreshStep == \/ Find \/ PruneDelete \/ Install
             \/ \E e \in Eps : PruneClose(e) \/ Build(e)

-------------------------------------------------------------------------------
Next == \/ RegistryChange \/ CheckStep \/ FreshStep
        \/ \E c \in Callers : CallerStep(c) \/ ProberStep(c)

Spec == Init /\ [][Next]_vars

\* Both tickers keep firing and the clock keeps going, so checkStatus comes back
\* to a blocked endpoint and finds its 30 s over; calls keep coming.
Fairness ==
  /\ WF_vars(CheckStep) /\ \A e \in Eps : SF_vars(CheckTry(e))
  /\ WF_vars(FreshStep)
  /\ \A c \in Callers : WF_vars(CallerStep(c)) /\ WF_vars(ProberStep(c))
FairSpec == Spec /\ Fairness

-------------------------------------------------------------------------------
AdapterIn(e) == <<e, epList[e]>>

\* The types of the state, and what a step of a caller, of checkStatus or of
\* findAndSetObj has in hand: an ignored error of a selector would show here.
TypeOK ==
  /\ registry \in [Eps -> {"active", "inactive", "gone"}]
  /\ changes \in 0..MaxChanges /\ failures \in 0..MaxFails
  /\ activeEpf \subseteq Eps
  /\ activeEp \in [Eps -> Nat]
  /\ sel \in [Selectors -> SUBSET Eps]
  /\ epList \in [Eps -> 0..MaxGen] /\ made \in [Eps -> 0..MaxGen]
  /\ status \in [Adapters -> BOOLEAN] /\ closed \in [Adapters -> BOOLEAN]
  /\ lastFailCount \in [Adapters -> Nat] /\ failCount \in [Adapters -> Nat]
  /\ checkAdapterList \subseteq Eps /\ checkAdapter \in Seq(Adapters)
  /\ pc \in [Callers -> {"idle", "popped", "random", "load", "store", "call", "panic"}]
  /\ at \in [Callers -> {None} \cup (Eps \X {0}) \cup Adapters \cup ({None} \X Nat)]
  /\ \A c \in Callers : /\ pc[c] = "load" => at[c] \in Eps \X {0}
                        /\ pc[c] \in {"popped", "store", "call"} => at[c] \in Adapters
                        /\ pc[c] = "random" => at[c] \in {None} \X Nat
  /\ needCheck \in [Callers -> BOOLEAN] /\ crossed \subseteq Eps
  /\ prober \in [Callers -> {NoProber} \cup [pc : {"reset", "add"}, at : Adapters]]
  /\ \/ chk \in [pc : {"idle", "next"}, at : {None}, todo : SUBSET Eps]
     \/ chk \in [pc : {"unlist", "rr", "con", "mod", "dial", "insert"}, at : Adapters, todo : SUBSET Eps]
  /\ \/ fresh \in [pc : {"idle", "prune", "build"}, at : {None}, todo : SUBSET Eps,
                    new : SUBSET Eps, sorted : SUBSET Eps]
     \/ fresh \in [pc : {"delete"}, at : Eps, todo : SUBSET Eps, new : SUBSET Eps,
                    sorted : SUBSET Eps]

\* An adapter is queued for a probe at most once: the key is in checkAdapterList
\* exactly while checkStatus is sending the adapter (line 305), the channel holds
\* it, or a caller that received it has not yet deleted the key (line 346).  A
\* key left behind would keep its endpoint from ever being probed again.
Queued == {EpOf(checkAdapter[i]) : i \in DOMAIN checkAdapter}
Sending == IF chk.pc = "insert" THEN {EpOf(chk.at)} ELSE {}
Taken == {EpOf(at[c]) : c \in {d \in Callers : pc[d] = "popped"}}
ProbeOnce ==
  /\ \A i, j \in DOMAIN checkAdapter :
       EpOf(checkAdapter[i]) = EpOf(checkAdapter[j]) => i = j
  /\ \A c, d \in Callers :
       pc[c] = "popped" /\ pc[d] = "popped" /\ EpOf(at[c]) = EpOf(at[d]) => c = d
  /\ Queued \cap Taken = {} /\ Sending \cap (Queued \cup Taken) = {}
  /\ checkAdapterList = Queued \cup Sending \cup Taken

\* The send of checkStatus finds room in the channel if that has room for every
\* endpoint: the goroutine that checks all the managers never blocks in it.
ProbesFit == chk.pc = "insert" => Len(checkAdapter) < CheckCap

\* Between two refreshes every adapter in epList is open: findAndSetObj deletes
\* what it closes, whoever stores adapters meanwhile (lines 470-473).
CachedOpen == fresh.pc # "delete" => \A e \in Eps : epList[e] # 0 => ~closed[AdapterIn(e)]

\* A caller that draws a random endpoint has a list to draw from: rand.Intn(0)
\* would panic, and an empty answer of the registry is not installed (line 441).
NoEmptyDraw == \A c \in Callers : pc[c] \in {"random", "load", "store"} => activeEpf # {}

\* checkStatus, the probes and findAndSetObj are done with e, none of its probes
\* was still under way when checkStatus tried or blocked it again, and no two
\* callers made an adapter for it at the same time.
Settled(e) == /\ chk.at = None \/ EpOf(chk.at) # e
              /\ \A c \in Callers : prober[c] # NoProber => EpOf(prober[c].at) # e
              /\ fresh.pc = "idle" /\ e \notin crossed /\ made[e] <= 1

Good(e) == epList[e] = 0 \/ status[AdapterIn(e)]

\* An active endpoint whose adapter is good is offered to the calls: it is in
\* activeEp, in the RoundRobin and in the ConsistentHash.  One that is not
\* is never called again, so nothing would bring it back (lines 287-297, 316-328).
GoodIsSelectable ==
  \A e \in activeEpf : Settled(e) /\ Good(e) => activeEp[e] > 0 /\ e \in sel["rr"] \cap sel["con"]

\* A blocked endpoint is offered by no selector and is not in activeEp, however
\* the probe that brings it back and the failures that block it interleave.
BlockedNotSelected ==
  \A e \in Eps : Settled(e) /\ ~Good(e) => activeEp[e] = 0 /\ \A s \in Selectors : e \notin sel[s]

\* Once the goroutines are done with an endpoint, it is offered exactly if its adapter
\* is good.
SelectorsInStep == GoodIsSelectable /\ BlockedNotSelected

\* A call goes to a random endpoint only if no endpoint is alive.
\* "not any node is alive, just select a random one." (endpointmanager.go:374)
RandomOnlyIfNoneAlive ==
  \A c \in Callers : pc[c] = "random" => \A e \in activeEpf : Settled(e) => ~Good(e)

\* A blocked endpoint whose server works again comes back: checkActive tries it,
\* a later call probes it, and its success puts it back into the selectors.
BlockedRecovers ==
  \A e \in Eps : ~Good(e) ~> (Good(e) /\ e \in sel["rr"] \cap sel["con"]) \/ made[e] > 1
===============================================================================
