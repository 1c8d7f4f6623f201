------------------------- MODULE EndpointManagerProofs -------------------------
(***************************************************************************)
(* Proofs about EndpointManager for any set of endpoints and callers, any  *)
(* number of adapters, failures and changes of the registry, and with no   *)
(* assumption on timing.                                                   *)
(***************************************************************************)
EXTENDS EndpointManager, FiniteSetTheorems, TLAPS

-------------------------------------------------------------------------------
(* Type correctness. *)

LEMMA BoundsNat == MaxGen \in Nat /\ MaxFails \in Nat /\ MaxChanges \in Nat /\ CheckCap \in Nat
BY NumbersAssumption

CallerTypes ==
  /\ pc \in [Callers -> {"idle", "popped", "random", "load", "store", "call", "panic"}]
  /\ at \in [Callers -> {None} \cup (Eps \X {0}) \cup Adapters \cup ({None} \X Nat)]
  /\ \A c \in Callers : /\ pc[c] = "load" => at[c] \in Eps \X {0}
                        /\ pc[c] \in {"popped", "store", "call"} => at[c] \in Adapters
                        /\ pc[c] = "random" => at[c] \in {None} \X Nat

\* One caller moves: its new place has the type that its new label asks for.
LEMMA MoveTyped ==
  ASSUME CallerTypes, NEW c \in Callers, NEW l, NEW a, Goto(c, l, a),
         \/ l \in {"idle", "panic"} /\ a \in {None} \cup ({None} \X Nat)
         \/ l = "load" /\ a \in Eps \X {0}
         \/ l \in {"popped", "store", "call"} /\ a \in Adapters
         \/ l = "random" /\ a \in {None} \X Nat
  PROVE  CallerTypes'
BY DEF CallerTypes, Goto

LEMMA InitType == Init => TypeOK
<1> SUFFICES ASSUME Init PROVE TypeOK
  OBVIOUS
<1>1. activeEpf \subseteq Eps
  BY SetsAssumption DEF Init, ActiveIn
<1>2. sel \in [Selectors -> SUBSET Eps]
  BY <1>1 DEF Init
<1>3. chk \in [pc : {"idle", "next"}, at : {None}, todo : SUBSET Eps]
  BY DEF Init, Idle
<1>4. fresh \in [pc : {"idle", "prune", "build"}, at : {None}, todo : SUBSET Eps,
                 new : SUBSET Eps, sorted : SUBSET Eps]
  BY DEF Init, NotFresh
<1> QED
  BY <1>1, <1>2, <1>3, <1>4, BoundsNat DEF Init, TypeOK, NoProber

LEMMA NextType == TypeOK /\ [Next]_vars => TypeOK'
<1> SUFFICES ASSUME TypeOK, [Next]_vars PROVE TypeOK'
  OBVIOUS
<1>a. CallerTypes
  BY DEF TypeOK, CallerTypes
<1>1. ASSUME RegistryChange PROVE TypeOK'
  <2>1. changes' \in 0..MaxChanges
    BY <1>1, BoundsNat DEF RegistryChange, TypeOK
  <2> QED
    BY <1>1, <2>1 DEF RegistryChange, TypeOK, lists, adps, probes, callers
<1>2. ASSUME NEW c \in Callers, Pop(c) PROVE TypeOK'
  <2>1. Head(checkAdapter) \in Adapters /\ Tail(checkAdapter) \in Seq(Adapters)
    BY <1>2 DEF Pop, TypeOK
  <2>2. CallerTypes'
    BY <1>2, <1>a, <2>1, MoveTyped DEF Pop
  <2>3. crossed' \subseteq Eps
    BY <1>2 DEF Pop, TypeOK, EpOf, Adapters
  <2> QED
    BY <1>2, <2>1, <2>2, <2>3 DEF Pop, TypeOK, CallerTypes, env, lists, adps
<1>3. ASSUME NEW c \in Callers, Popped(c) PROVE TypeOK'
  <2>1. CallerTypes'
    BY <1>3, <1>a, MoveTyped DEF Popped, CallerTypes
  <2> QED
    BY <1>3, <2>1 DEF Popped, TypeOK, CallerTypes, env, lists, adps
<1>4. ASSUME NEW c \in Callers, Select(c) PROVE TypeOK'
  <2>1. PICK l, a : /\ Goto(c, l, a)
                    /\ \/ l = "load" /\ a \in Eps \X {0}
                       \/ l = "random" /\ a \in {None} \X Nat
    <3>1. PICK s \in Hash :
             \/ \E e \in sel[s] : Goto(c, "load", <<e, 0>>)
             \/ sel[s] = {} /\ \E i \in 1..Cardinality(activeEpf) : Goto(c, "random", <<None, i>>)
      BY <1>4 DEF Select
    <3>2. sel[s] \subseteq Eps /\ 1..Cardinality(activeEpf) \subseteq Nat
      BY SetsAssumption DEF TypeOK
    <3>3. CASE \E e \in sel[s] : Goto(c, "load", <<e, 0>>)
      BY <3>2, <3>3
    <3>4. CASE \E i \in 1..Cardinality(activeEpf) : Goto(c, "random", <<None, i>>)
      <4>1. PICK i \in 1..Cardinality(activeEpf) : Goto(c, "random", <<None, i>>)
        BY <3>4
      <4>2. <<None, i>> \in {None} \X Nat
        BY <3>2
      <4> QED
        BY <4>1, <4>2
    <3> QED
      BY <3>1, <3>3, <3>4
  <2>2. CallerTypes'
    BY <1>a, <2>1, MoveTyped
  <2> QED
    BY <1>4, <2>2 DEF Select, TypeOK, CallerTypes, env, lists, adps, probes
<1>5. ASSUME NEW c \in Callers, Random(c) PROVE TypeOK'
  <2>1. \/ \E e \in Eps : Goto(c, "load", <<e, 0>>)
        \/ Goto(c, "panic", at[c])
    BY <1>5 DEF Random, TypeOK
  <2>2. at[c] \in {None} \X Nat
    BY <1>5 DEF Random, TypeOK
  <2>3. CallerTypes'
    BY <1>a, <2>1, <2>2, MoveTyped
  <2> QED
    BY <1>5, <2>3 DEF Random, TypeOK, CallerTypes, env, lists, adps, probes
<1>6. ASSUME NEW c \in Callers, Load(c) PROVE TypeOK'
  <2>1. EpOf(at[c]) \in Eps
    BY <1>6 DEF Load, TypeOK, EpOf
  <2>2. CASE epList[EpOf(at[c])] # 0 /\ Goto(c, "call", <<EpOf(at[c]), epList[EpOf(at[c])]>>)
             /\ UNCHANGED made
    <3>1. <<EpOf(at[c]), epList[EpOf(at[c])]>> \in Adapters
      BY <2>1, <2>2, BoundsNat DEF TypeOK, Adapters
    <3>2. CallerTypes'
      BY <1>a, <2>2, <3>1, MoveTyped
    <3> QED
      BY <1>6, <2>2, <3>2 DEF Load, TypeOK, CallerTypes, env, lists, probes
  <2>3. CASE /\ epList[EpOf(at[c])] = 0 /\ made[EpOf(at[c])] < MaxGen
             /\ made' = [made EXCEPT ![EpOf(at[c])] = @ + 1]
             /\ Goto(c, "store", <<EpOf(at[c]), made[EpOf(at[c])] + 1>>)
    <3>1. /\ made[EpOf(at[c])] + 1 \in 1..MaxGen
          /\ <<EpOf(at[c]), made[EpOf(at[c])] + 1>> \in Adapters
      BY <2>1, <2>3, BoundsNat DEF TypeOK, Adapters
    <3>2. CallerTypes'
      BY <1>a, <2>3, <3>1, MoveTyped
    <3>3. made' \in [Eps -> 0..MaxGen]
      <4>1. made[EpOf(at[c])] + 1 \in 0..MaxGen
        BY <3>1
      <4> QED
        BY <2>1, <2>3, <4>1 DEF TypeOK
    <3> QED
      BY <1>6, <3>2, <3>3 DEF Load, TypeOK, CallerTypes, env, lists, probes
  <2> QED
    BY <1>6, <2>2, <2>3 DEF Load
<1>7. ASSUME NEW c \in Callers, Store(c) PROVE TypeOK'
  <2>1. at[c] \in Adapters /\ EpOf(at[c]) \in Eps /\ at[c][2] \in 0..MaxGen
    BY <1>7, BoundsNat DEF Store, TypeOK, Adapters, EpOf
  <2>2. CallerTypes'
    BY <1>7, <1>a, <2>1, MoveTyped DEF Store
  <2> QED
    BY <1>7, <2>1, <2>2 DEF Store, TypeOK, CallerTypes, env, lists, probes
<1>8. ASSUME NEW c \in Callers, Success(c) PROVE TypeOK'
  <2>1. at[c] \in Adapters
    BY <1>8 DEF Success, TypeOK
  <2>2. CallerTypes'
    BY <1>8, <1>a, MoveTyped DEF Success
  <2>3. prober' \in [Callers -> {NoProber} \cup [pc : {"reset", "add"}, at : Adapters]]
    <3>1. [pc |-> "reset", at |-> at[c]] \in [pc : {"reset", "add"}, at : Adapters]
      BY <2>1
    <3> QED
      BY <1>8, <3>1 DEF Success, TypeOK
  <2> QED
    BY <1>8, <2>1, <2>2, <2>3 DEF Success, TypeOK, CallerTypes, env, lists, probes
<1>9. ASSUME NEW c \in Callers, Fail(c) PROVE TypeOK'
  <2>1. at[c] \in Adapters
    BY <1>9 DEF Fail, TypeOK
  <2>2. CallerTypes'
    BY <1>9, <1>a, MoveTyped DEF Fail
  <2>3. failures' \in 0..MaxFails
    BY <1>9, BoundsNat DEF Fail, Failure, TypeOK
  <2>4. lastFailCount' \in [Adapters -> Nat] /\ failCount' \in [Adapters -> Nat]
    BY <1>9, <2>1 DEF Fail, TypeOK
  <2> QED
    BY <1>9, <2>2, <2>3, <2>4 DEF Fail, TypeOK, CallerTypes, lists, probes
<1>10. ASSUME NEW c \in Callers, Reset(c) PROVE TypeOK'
  <2>1. prober[c] \in [pc : {"reset", "add"}, at : Adapters]
    BY <1>10 DEF Reset, TypeOK, NoProber
  <2>2. prober' \in [Callers -> {NoProber} \cup [pc : {"reset", "add"}, at : Adapters]]
    BY <1>10, <2>1 DEF Reset, TypeOK
  <2> QED
    BY <1>10, <2>1, <2>2 DEF Reset, TypeOK, env, lists, probes
<1>11. ASSUME NEW c \in Callers, AddAliveEp(c) PROVE TypeOK'
  <2>1. prober[c] \in [pc : {"reset", "add"}, at : Adapters]
    BY <1>11 DEF AddAliveEp, TypeOK, NoProber
  <2>2. EpOf(prober[c].at) \in Eps
    BY <2>1 DEF Adapters, EpOf
  <2>3. activeEp' \in [Eps -> Nat]
    BY <1>11, <2>2 DEF AddAliveEp, TypeOK
  <2>4. sel' \in [Selectors -> SUBSET Eps]
    BY <1>11, <2>2 DEF AddAliveEp, TypeOK
  <2>5. prober' \in [Callers -> {NoProber} \cup [pc : {"reset", "add"}, at : Adapters]]
    BY <1>11 DEF AddAliveEp, TypeOK
  <2> QED
    BY <1>11, <2>3, <2>4, <2>5 DEF AddAliveEp, TypeOK, env, adps, probes
<1>12. ASSUME CheckStart PROVE TypeOK'
  <2>1. chk' \in [pc : {"idle", "next"}, at : {None}, todo : SUBSET Eps]
    BY <1>12 DEF CheckStart, TypeOK
  <2> QED
    BY <1>12, <2>1 DEF CheckStart, TypeOK, env, lists, adps, probes, callers
<1>13. ASSUME NEW e, Checked(e) PROVE chk' \in [pc : {"idle", "next"}, at : {None}, todo : SUBSET Eps]
  <2>1. chk.todo \in SUBSET Eps
    BY DEF TypeOK
  <2> QED
    BY <1>13, <2>1 DEF Checked, Idle
<1>14. ASSUME NEW e \in Eps, CheckNothing(e) PROVE TypeOK'
  BY <1>13, <1>14 DEF CheckNothing, TypeOK, env, lists, adps, probes, callers
<1>15. ASSUME NEW e \in Eps, CheckBlock(e) PROVE TypeOK'
  <2>1. <<e, epList[e]>> \in Adapters
    BY <1>15, BoundsNat DEF CheckBlock, TypeOK, Adapters
  <2>2. chk' \in [pc : {"unlist", "rr", "con", "mod", "dial", "insert"}, at : Adapters,
                 todo : SUBSET Eps]
    BY <1>15, <2>1 DEF CheckBlock, TypeOK
  <2>3. crossed' \subseteq Eps
    BY <1>15 DEF CheckBlock, TypeOK
  <2> QED
    BY <1>15, <2>1, <2>2, <2>3 DEF CheckBlock, TypeOK, env, lists, probes, callers
<1>16. ASSUME chk.pc \in {"unlist", "rr", "con", "mod", "dial", "insert"}
       PROVE  /\ chk \in [pc : {"unlist", "rr", "con", "mod", "dial", "insert"}, at : Adapters,
                         todo : SUBSET Eps]
              /\ EpOf(chk.at) \in Eps
  BY <1>16 DEF TypeOK, EpOf, Adapters
<1>17. ASSUME Unlist PROVE TypeOK'
  <2>1. activeEp' \in [Eps -> Nat]
    BY <1>16, <1>17 DEF Unlist, TypeOK
  <2>2. chk' \in [pc : {"unlist", "rr", "con", "mod", "dial", "insert"}, at : Adapters,
                 todo : SUBSET Eps]
    BY <1>16, <1>17 DEF Unlist
  <2> QED
    BY <1>17, <2>1, <2>2 DEF Unlist, TypeOK, env, adps, probes, callers
<1>18. ASSUME NEW s \in Selectors, Unselect(s) PROVE TypeOK'
  <2>0. chk.pc \in {"unlist", "rr", "con", "mod", "dial", "insert"}
    BY <1>18 DEF Unselect, Selectors
  <2>1. sel' \in [Selectors -> SUBSET Eps]
    BY <1>18 DEF Unselect, TypeOK
  <2>2. \/ chk' \in [pc : {"idle", "next"}, at : {None}, todo : SUBSET Eps]
        \/ chk' \in [pc : {"unlist", "rr", "con", "mod", "dial", "insert"}, at : Adapters,
                    todo : SUBSET Eps]
    <3>1. CASE s = "mod"
      BY <1>13, <1>18, <3>1 DEF Unselect
    <3>2. CASE s # "mod"
      BY <1>16, <1>18, <2>0, <3>2 DEF Unselect, Selectors
    <3> QED
      BY <3>1, <3>2
  <2> QED
    BY <1>18, <2>1, <2>2 DEF Unselect, TypeOK, env, adps, probes, callers
<1>19. ASSUME CheckNoDial PROVE TypeOK'
  <2>1. failures' \in 0..MaxFails
    BY <1>19, BoundsNat DEF CheckNoDial, Failure, TypeOK
  <2> QED
    BY <1>13, <1>19, <2>1 DEF CheckNoDial, TypeOK, lists, adps, probes, callers
<1>20. ASSUME CheckInsert PROVE TypeOK'
  <2>1. \/ chk' \in [pc : {"idle", "next"}, at : {None}, todo : SUBSET Eps]
        \/ chk' \in [pc : {"unlist", "rr", "con", "mod", "dial", "insert"}, at : Adapters,
                    todo : SUBSET Eps]
    BY <1>13, <1>16, <1>20 DEF CheckInsert
  <2>2. checkAdapterList' \subseteq Eps
    BY <1>16, <1>20 DEF CheckInsert, TypeOK
  <2> QED
    BY <1>20, <2>1, <2>2 DEF CheckInsert, TypeOK, env, lists, adps, callers
<1>30. ASSUME NEW e \in Eps, CheckTry(e) PROVE TypeOK'
  <2>1. <<e, epList[e]>> \in Adapters
    BY <1>30, BoundsNat DEF CheckTry, TypeOK, Adapters
  <2>2. chk' \in [pc : {"unlist", "rr", "con", "mod", "dial", "insert"}, at : Adapters,
                 todo : SUBSET Eps]
    BY <1>30, <2>1 DEF CheckTry, TypeOK
  <2>3. crossed' \subseteq Eps
    BY <1>30 DEF CheckTry, TypeOK
  <2> QED
    BY <1>30, <2>1, <2>2, <2>3 DEF CheckTry, TypeOK, env, lists, adps, probes, callers
<1>21. ASSUME CheckSend PROVE TypeOK'
  <2>1. chk.at \in Adapters
    BY <1>16, <1>21 DEF CheckSend
  <2>2. checkAdapter' \in Seq(Adapters)
    BY <1>21, <2>1 DEF CheckSend, TypeOK
  <2> QED
    BY <1>13, <1>21, <2>2 DEF CheckSend, TypeOK, env, lists, adps, callers
<1>22. ASSUME NEW new \in SUBSET Eps, NEW useless \in SUBSET Eps
       PROVE  Pruning(new, useless) \in [pc : {"idle", "prune", "build"}, at : {None},
                 todo : SUBSET Eps, new : SUBSET Eps, sorted : SUBSET Eps]
  BY DEF Pruning
<1>23. ASSUME Find PROVE TypeOK'
  BY <1>22, <1>23 DEF Find, ActiveIn, TypeOK, env, lists, adps, probes, callers
<1>24. ASSUME NEW e \in Eps, PruneClose(e) PROVE TypeOK'
  <2>1. fresh' \in [pc : {"delete"}, at : Eps, todo : SUBSET Eps, new : SUBSET Eps, sorted : SUBSET Eps]
    BY <1>24 DEF PruneClose, TypeOK
  <2> QED
    BY <1>24, <2>1 DEF PruneClose, TypeOK, env, lists, probes, callers
<1>25. ASSUME PruneDelete PROVE TypeOK'
  <2>1. fresh \in [pc : {"delete"}, at : Eps, todo : SUBSET Eps, new : SUBSET Eps, sorted : SUBSET Eps]
    BY <1>25 DEF PruneDelete, TypeOK
  <2>2. epList' \in [Eps -> 0..MaxGen]
    BY <1>25, <2>1, BoundsNat DEF PruneDelete, TypeOK
  <2> QED
    BY <1>22, <1>25, <2>1, <2>2 DEF PruneDelete, TypeOK, env, lists, probes, callers
<1>26. ASSUME fresh.pc = "build"
       PROVE  fresh \in [pc : {"idle", "prune", "build"}, at : {None}, todo : SUBSET Eps,
                          new : SUBSET Eps, sorted : SUBSET Eps]
  BY <1>26 DEF TypeOK
<1>27. ASSUME NEW e \in Eps, Build(e) PROVE TypeOK'
  <2>1. fresh' \in [pc : {"idle", "prune", "build"}, at : {None}, todo : SUBSET Eps,
                    new : SUBSET Eps, sorted : SUBSET Eps]
    BY <1>26, <1>27 DEF Build
  <2> QED
    BY <1>27, <2>1 DEF Build, TypeOK, env, lists, adps, probes, callers
<1>28. ASSUME Install PROVE TypeOK'
  <2>1. activeEpf' \subseteq Eps /\ activeEp' \in [Eps -> Nat] /\ sel' \in [Selectors -> SUBSET Eps]
    BY <1>26, <1>28 DEF Install
  <2>2. fresh' \in [pc : {"idle", "prune", "build"}, at : {None}, todo : SUBSET Eps,
                    new : SUBSET Eps, sorted : SUBSET Eps]
    BY <1>28 DEF Install, NotFresh
  <2> QED
    BY <1>28, <2>1, <2>2 DEF Install, TypeOK, env, adps, probes, callers
<1>29. CASE UNCHANGED vars
  BY <1>29 DEF vars, env, lists, adps, probes, callers, TypeOK
<1> QED
  BY <1>1, <1>2, <1>3, <1>4, <1>5, <1>6, <1>7, <1>8, <1>9, <1>10, <1>11, <1>12, <1>14, <1>15,
     <1>17, <1>18, <1>19, <1>20, <1>21, <1>23, <1>24, <1>25, <1>27, <1>28, <1>29, <1>30
  DEF Next, CheckStep, FreshStep, CallerStep, ProberStep

\* The types of the endpoint manager's state hold in every behaviour.
THEOREM TypeCorrect == Spec => []TypeOK
<1>1. Init => TypeOK
  BY InitType
<1>2. TypeOK /\ [Next]_vars => TypeOK'
  BY NextType
<1> QED
  BY <1>1, <1>2, PTL DEF Spec

-------------------------------------------------------------------------------
(* An endpoint is queued for a probe at most once. *)

\* A step that touches neither the channel nor the map, lets no caller enter or
\* leave the label popped and leaves Sending alone, keeps ProbeOnce.
LEMMA ProbeFrame ==
  ASSUME ProbeOnce, UNCHANGED probes, Sending' = Sending,
         \A c \in Callers : pc'[c] = "popped" <=> pc[c] = "popped",
         \A c \in Callers : pc[c] = "popped" => at'[c] = at[c]
  PROVE  ProbeOnce'
<1>1. Taken' = Taken
  BY DEF Taken, EpOf
<1>2. Queued' = Queued
  BY DEF Queued, probes
<1> QED
  BY <1>1, <1>2 DEF ProbeOnce, probes, EpOf

LEMMA InitProbe == Init => ProbeOnce
BY DEF Init, ProbeOnce, Queued, Sending, Taken, Idle

LEMMA NextProbe == TypeOK /\ ProbeOnce /\ [Next]_vars => ProbeOnce'
<1> SUFFICES ASSUME TypeOK, ProbeOnce, [Next]_vars PROVE ProbeOnce'
  OBVIOUS
<1>1. ASSUME NEW c \in Callers, Pop(c) PROVE ProbeOnce'
  <2> DEFINE n == Len(checkAdapter)
             h == EpOf(checkAdapter[1])
  <2>1. /\ checkAdapter \in Seq(Adapters) /\ checkAdapter # <<>>
        /\ checkAdapter' = Tail(checkAdapter)
    BY <1>1 DEF Pop, TypeOK
  <2>2. /\ n \in Nat \ {0} /\ DOMAIN checkAdapter = 1..n /\ DOMAIN checkAdapter' = 1..(n - 1)
        /\ \A i \in 1..(n - 1) : checkAdapter'[i] = checkAdapter[i + 1]
        /\ Head(checkAdapter) = checkAdapter[1]
    BY <2>1
  <2> HIDE DEF n
  <2>3. \A i, j \in 1..n : EpOf(checkAdapter[i]) = EpOf(checkAdapter[j]) => i = j
    BY <2>2 DEF ProbeOnce
  <2>4. \A i \in 1..(n - 1) : i + 1 \in 1..n /\ i + 1 # 1
    BY <2>2
  <2>5. 1 \in 1..n /\ \A i \in 1..n : i = 1 \/ (i - 1 \in 1..(n - 1) /\ (i - 1) + 1 = i)
    BY <2>2
  <2>6. \A i, j \in 1..(n - 1) : i + 1 = j + 1 => i = j
    OBVIOUS
  <2>7. \A i, j \in DOMAIN checkAdapter' :
          EpOf(checkAdapter'[i]) = EpOf(checkAdapter'[j]) => i = j
    BY <2>2, <2>3, <2>4, <2>6
  <2>8. h \in Queued /\ Queued' = Queued \ {h}
    <3>1. Queued = {EpOf(checkAdapter[i]) : i \in 1..n}
      BY <2>2 DEF Queued
    <3>2. Queued' = {EpOf(checkAdapter[i + 1]) : i \in 1..(n - 1)}
      BY <2>2 DEF Queued, EpOf
    <3>3. ASSUME NEW q \in Queued' PROVE q \in Queued \ {h}
      <4>1. PICK i \in 1..(n - 1) : q = EpOf(checkAdapter[i + 1])
        BY <3>2, <3>3
      <4> QED
        BY <2>3, <2>4, <2>5, <3>1, <4>1
    <3>4. ASSUME NEW q \in Queued, q # h PROVE q \in Queued'
      <4>1. PICK i \in 1..n : q = EpOf(checkAdapter[i])
        BY <3>1
      <4>2. i - 1 \in 1..(n - 1) /\ (i - 1) + 1 = i
        BY <2>5, <3>4, <4>1
      <4>3. q = EpOf(checkAdapter[(i - 1) + 1])
        BY <4>1, <4>2
      <4> QED
        BY <3>2, <4>2, <4>3
    <3>5. h \in Queued
      BY <2>5, <3>1
    <3> QED
      BY <3>3, <3>4, <3>5
  <2>9. /\ pc[c] = "idle" /\ pc'[c] = "popped" /\ EpOf(at'[c]) = h
        /\ \A d \in Callers \ {c} : pc'[d] = pc[d] /\ at'[d] = at[d]
    BY <1>1, <2>2 DEF Pop, Goto, TypeOK, EpOf
  <2> HIDE DEF h
  <2>10. Taken' = Taken \cup {h}
    BY <2>9 DEF Taken, EpOf
  <2>11. h \notin Taken
    BY <2>8 DEF ProbeOnce
  <2>12. ASSUME NEW d \in Callers, NEW f \in Callers, pc'[d] = "popped", pc'[f] = "popped",
                EpOf(at'[d]) = EpOf(at'[f])
         PROVE  d = f
    <3>1. \A g \in Callers \ {c} : pc[g] = "popped" => EpOf(at[g]) # h
      BY <2>11 DEF Taken
    <3> QED
      BY <2>9, <2>12, <3>1 DEF ProbeOnce, EpOf
  <2>13. Sending' = Sending /\ checkAdapterList' = checkAdapterList
    BY <1>1 DEF Pop, Sending, EpOf
  <2>14. /\ (Queued \cap Taken)' = {} /\ (Sending \cap (Queued \cup Taken))' = {}
         /\ checkAdapterList' = (Queued \cup Sending \cup Taken)'
    BY <2>8, <2>10, <2>11, <2>13 DEF ProbeOnce
  <2> QED
    BY <2>7, <2>12, <2>14 DEF ProbeOnce, EpOf
<1>2. ASSUME NEW c \in Callers, Popped(c) PROVE ProbeOnce'
  <2> DEFINE h == EpOf(at[c])
  <2>1. /\ pc[c] = "popped" /\ pc'[c] = "call"
        /\ \A d \in Callers \ {c} : pc'[d] = pc[d] /\ at'[d] = at[d]
    BY <1>2 DEF Popped, Goto, TypeOK
  <2>2. Queued' = Queued /\ Sending' = Sending /\ checkAdapter' = checkAdapter
        /\ checkAdapterList' = checkAdapterList \ {h}
    BY <1>2 DEF Popped, Queued, Sending, EpOf
  <2>3. h \in Taken /\ Taken' = Taken \ {h}
    <3>1. h \in Taken
      BY <2>1 DEF Taken
    <3>2. \A d \in Callers \ {c} : pc[d] = "popped" => EpOf(at[d]) # h
      BY <2>1 DEF ProbeOnce
    <3>3. Taken' = {EpOf(at[d]) : d \in {f \in Callers \ {c} : pc[f] = "popped"}}
      BY <2>1 DEF Taken, EpOf
    <3>4. Taken \ {h} = {EpOf(at[d]) : d \in {f \in Callers \ {c} : pc[f] = "popped"}}
      BY <3>2 DEF Taken
    <3> QED
      BY <3>1, <3>3, <3>4
  <2>4. \A d, f \in Callers : pc'[d] = "popped" /\ pc'[f] = "popped"
                             /\ EpOf(at'[d]) = EpOf(at'[f]) => d = f
    BY <2>1 DEF ProbeOnce, EpOf
  <2> HIDE DEF h
  <2>5. /\ (Queued \cap Taken)' = {} /\ (Sending \cap (Queued \cup Taken))' = {}
        /\ checkAdapterList' = (Queued \cup Sending \cup Taken)'
    BY <2>2, <2>3 DEF ProbeOnce
  <2> QED
    BY <2>2, <2>4, <2>5 DEF ProbeOnce, EpOf
<1>3. ASSUME NEW c \in Callers, Select(c) \/ Random(c) \/ Load(c) \/ Store(c) \/ Success(c) \/ Fail(c)
      PROVE  ProbeOnce'
  <2>1. PICK l, a : Goto(c, l, a) /\ pc[c] # "popped" /\ l # "popped"
    BY <1>3 DEF Select, Random, Load, Store, Success, Fail
  <2>2. \A d \in Callers : pc'[d] = "popped" <=> pc[d] = "popped"
    BY <2>1 DEF Goto, TypeOK
  <2>3. \A d \in Callers : pc[d] = "popped" => at'[d] = at[d]
    BY <2>1 DEF Goto, TypeOK
  <2>4. UNCHANGED probes
    BY <1>3 DEF Select, Random, Load, Store, Success, Fail, probes
  <2>5. Sending' = Sending
    BY <1>3 DEF Select, Random, Load, Store, Success, Fail, Sending, EpOf
  <2> QED
    BY <2>2, <2>3, <2>4, <2>5, ProbeFrame
<1>4. ASSUME UNCHANGED <<probes, pc, at, chk>> PROVE ProbeOnce'
  BY <1>4, ProbeFrame DEF Sending, EpOf
<1>5. ASSUME UNCHANGED <<probes, pc, at>>, chk.pc # "insert", chk'.pc # "insert" PROVE ProbeOnce'
  BY <1>5, ProbeFrame DEF Sending
<1>6. ASSUME NEW e, Checked(e) PROVE chk'.pc # "insert"
  BY <1>6 DEF Checked, Idle
<1>7. ASSUME CheckInsert PROVE ProbeOnce'
  <2> DEFINE e == EpOf(chk.at)
  <2>1. CASE e \in checkAdapterList
    <3>1. Checked(e) /\ chk.pc = "dial" /\ checkAdapterList' = checkAdapterList \cup {e}
      BY <1>7, <2>1 DEF CheckInsert
    <3>2. checkAdapterList' = checkAdapterList /\ chk'.pc # "insert"
      BY <1>6, <2>1, <3>1
    <3> QED
      BY <1>5, <1>7, <3>1, <3>2 DEF CheckInsert, probes, callers
  <2>2. CASE e \notin checkAdapterList
    <3>1. chk.pc = "dial" /\ chk'.pc = "insert" /\ EpOf(chk'.at) = e
      <4>1. chk.pc = "dial" /\ chk' = [chk EXCEPT !.pc = "insert"]
        BY <1>7, <2>2 DEF CheckInsert
      <4>2. chk \in [pc : {"unlist", "rr", "con", "mod", "dial", "insert"}, at : Adapters,
                     todo : SUBSET Eps]
        BY <4>1 DEF TypeOK
      <4> QED
        BY <4>1, <4>2 DEF EpOf
    <3> HIDE DEF e
    <3>2. Sending = {} /\ Sending' = {e}
      BY <3>1 DEF Sending
    <3>3. Taken' = Taken /\ Queued' = Queued /\ checkAdapterList' = checkAdapterList \cup {e}
      BY <1>7 DEF CheckInsert, Taken, Queued, EpOf, callers, e
    <3>4. /\ (Queued \cap Taken)' = {} /\ (Sending \cap (Queued \cup Taken))' = {}
          /\ checkAdapterList' = (Queued \cup Sending \cup Taken)'
      BY <2>2, <3>2, <3>3 DEF ProbeOnce
    <3>5. UNCHANGED <<checkAdapter, pc, at>>
      BY <1>7 DEF CheckInsert, callers
    <3> QED
      BY <3>4, <3>5 DEF ProbeOnce, EpOf
  <2> QED
    BY <2>1, <2>2
<1>8. ASSUME CheckSend PROVE ProbeOnce'
  <2> DEFINE n == Len(checkAdapter)
             h == EpOf(chk.at)
  <2>1. checkAdapter \in Seq(Adapters) /\ chk.at \in Adapters
        /\ checkAdapter' = Append(checkAdapter, chk.at)
    BY <1>8 DEF CheckSend, TypeOK
  <2>2. /\ n \in Nat /\ DOMAIN checkAdapter = 1..n /\ DOMAIN checkAdapter' = 1..(n + 1)
        /\ \A i \in 1..n : checkAdapter'[i] = checkAdapter[i]
        /\ checkAdapter'[n + 1] = chk.at
    BY <2>1
  <2> HIDE DEF n
  <2>3. \A i \in 1..(n + 1) : i \in 1..n \/ i = n + 1
    BY <2>2
  <2>4. n + 1 \in 1..(n + 1) /\ \A i \in 1..n : i \in 1..(n + 1)
    BY <2>2
  <2>5. Sending = {h} /\ Sending' = {}
    BY <1>6, <1>8 DEF CheckSend, Sending
  <2>6. h \notin Queued /\ h \notin Taken
    BY <2>5 DEF ProbeOnce
  <2>7. \A i \in 1..n : EpOf(checkAdapter[i]) # h
    BY <2>2, <2>6 DEF Queued
  <2>8. Queued' = Queued \cup {h}
    <3>1. Queued = {EpOf(checkAdapter[i]) : i \in 1..n}
      BY <2>2 DEF Queued
    <3>2. Queued' = {EpOf(checkAdapter'[i]) : i \in 1..(n + 1)}
      BY <2>2 DEF Queued, EpOf
    <3> QED
      BY <2>2, <2>3, <2>4, <3>1, <3>2
  <2>9. \A i, j \in DOMAIN checkAdapter' :
          EpOf(checkAdapter'[i]) = EpOf(checkAdapter'[j]) => i = j
    <3>1. \A i, j \in 1..n : EpOf(checkAdapter[i]) = EpOf(checkAdapter[j]) => i = j
      BY <2>2 DEF ProbeOnce
    <3> QED
      BY <2>2, <2>3, <2>7, <3>1
  <2> HIDE DEF h
  <2>10. Taken' = Taken /\ UNCHANGED <<checkAdapterList, pc, at>>
    BY <1>8 DEF CheckSend, callers, Taken, EpOf
  <2>11. /\ (Queued \cap Taken)' = {} /\ (Sending \cap (Queued \cup Taken))' = {}
         /\ checkAdapterList' = (Queued \cup Sending \cup Taken)'
    BY <2>5, <2>6, <2>8, <2>10 DEF ProbeOnce
  <2> QED
    BY <2>9, <2>10, <2>11 DEF ProbeOnce, EpOf
<1>9. ASSUME CheckStart \/ Unlist \/ CheckNoDial \/ (\E s \in Selectors : Unselect(s))
             \/ \E e \in Eps : CheckNothing(e) \/ CheckBlock(e) \/ CheckTry(e)
      PROVE  ProbeOnce'
  <2>1. CASE CheckStart \/ Unlist
    BY <1>5, <2>1 DEF CheckStart, Unlist, callers, TypeOK
  <2>2. ASSUME NEW s \in Selectors, Unselect(s) PROVE ProbeOnce'
    BY <1>5, <1>6, <2>2 DEF Unselect, Selectors, callers, TypeOK
  <2>3. ASSUME NEW e \in Eps, CheckNothing(e) PROVE ProbeOnce'
    BY <1>5, <1>6, <2>3 DEF CheckNothing, callers
  <2>4. ASSUME NEW e \in Eps, CheckBlock(e) \/ CheckTry(e) PROVE ProbeOnce'
    BY <1>5, <2>4 DEF CheckBlock, CheckTry, callers, TypeOK
  <2>5. CASE CheckNoDial
    BY <1>5, <1>6, <2>5 DEF CheckNoDial, callers
  <2> QED
    BY <1>9, <2>1, <2>2, <2>3, <2>4, <2>5
<1>10. CASE RegistryChange \/ FreshStep \/ \E c \in Callers : ProberStep(c)
  BY <1>4, <1>10 DEF RegistryChange, FreshStep, Find, PruneClose, PruneDelete, Build, Install,
                     ProberStep, Reset, AddAliveEp, probes, callers
<1>11. CASE UNCHANGED vars
  BY <1>4, <1>11 DEF vars, probes, callers
<1> QED
  BY <1>1, <1>2, <1>3, <1>7, <1>8, <1>9, <1>10, <1>11 DEF Next, CheckStep, CallerStep

\* Whatever the callers, checkStatus and findAndSetObj do, an endpoint is in the
\* probe queue at most once and its key in checkAdapterList exactly as long.
THEOREM ProbeOnceHolds == Spec => []ProbeOnce
<1>1. Init => TypeOK /\ ProbeOnce
  BY InitType, InitProbe
<1>2. TypeOK /\ ProbeOnce /\ [Next]_vars => (TypeOK /\ ProbeOnce)'
  BY NextType, NextProbe
<1> QED
  BY <1>1, <1>2, PTL DEF Spec
-------------------------------------------------------------------------------
(* The channel has room for every probe. *)

\* The adapters in the channel are of distinct endpoints, none of which is the
\* one being sent: they are fewer than the endpoints.
LEMMA RoomForProbe ==
  ASSUME TypeOK, ProbeOnce, CheckCap >= Cardinality(Eps) PROVE ProbesFit
<1> SUFFICES ASSUME chk.pc = "insert", ~(Len(checkAdapter) < CheckCap) PROVE FALSE
  BY DEF ProbesFit
<1> DEFINE n == Len(checkAdapter)
           h == EpOf(chk.at)
           f == [i \in 1..n |-> EpOf(checkAdapter[i])]
<1>1. h \in Eps
  BY DEF TypeOK, EpOf, Adapters
<1>2. /\ n \in Nat /\ DOMAIN checkAdapter = 1..n
      /\ \A i \in 1..n : checkAdapter[i] \in Adapters
  BY DEF TypeOK
<1>3. Cardinality(Eps) \in Nat /\ IsFiniteSet(Eps \ {h}) /\ Cardinality(Eps \ {h}) = Cardinality(Eps) - 1
  BY <1>1, SetsAssumption, FS_CardinalityType, FS_RemoveElement
<1>4. IsFiniteSet(1..n) /\ Cardinality(1..n) = n
  BY <1>2, FS_Interval
<1> HIDE DEF n, h
<1>5. h \notin Queued
  BY DEF ProbeOnce, Sending, h
<1>6. ASSUME NEW i \in 1..n PROVE EpOf(checkAdapter[i]) \in Eps \ {h}
  <2>1. EpOf(checkAdapter[i]) \in Eps
    BY <1>2 DEF Adapters, EpOf
  <2>2. EpOf(checkAdapter[i]) \in Queued
    BY <1>2 DEF Queued
  <2> QED
    BY <1>5, <2>1, <2>2
<1>7. f \in [1..n -> Eps \ {h}]
  BY <1>6
<1>8. \A i, j \in 1..n : f[i] = f[j] => i = j
  BY <1>2 DEF ProbeOnce
<1>9. f \in Injection(1..n, Eps \ {h})
  BY <1>7, <1>8 DEF Injection, IsInjective
<1> HIDE DEF f
<1>10. Cardinality(1..n) <= Cardinality(Eps \ {h})
  BY <1>3, <1>9, FS_Injection
<1> QED
  BY <1>2, <1>3, <1>4, <1>10, BoundsNat DEF n

\* If the channel has room for every endpoint of the manager, the goroutine in
\* checkStatus never blocks in its send.
THEOREM ProbesFitHolds ==
  ASSUME CheckCap >= Cardinality(Eps) PROVE Spec => []ProbesFit
<1>1. TypeOK /\ ProbeOnce => ProbesFit
  BY RoomForProbe
<1> QED
  BY <1>1, TypeCorrect, ProbeOnceHolds, PTL

-------------------------------------------------------------------------------
(* Between two refreshes the adapters in epList are open. *)

\* The invariant behind CachedOpen: only the adapter that findAndSetObj is about
\* to delete is closed, and an adapter that a caller made and has not stored is
\* its own: it is not in epList and nobody has closed it.
CacheInv ==
  /\ \A e \in Eps : epList[e] <= made[e]
  /\ \A a \in Adapters : closed[a] => a[2] <= made[a[1]]
  /\ \A c \in Callers : pc[c] = "store" => /\ at[c][2] <= made[at[c][1]]
                                           /\ at[c][2] # epList[at[c][1]]
                                           /\ ~closed[at[c]]
  /\ \A c, d \in Callers : pc[c] = "store" /\ pc[d] = "store" /\ at[c] = at[d] => c = d
  /\ \A e \in Eps : \/ epList[e] = 0 \/ ~closed[<<e, epList[e]>>]
                    \/ fresh.pc = "delete" /\ fresh.at = e

LEMMA InitCache == Init => CacheInv
BY BoundsNat DEF Init, CacheInv, Adapters

\* A step that leaves epList, made and closed alone, lets no caller enter store
\* and does not leave delete keeps CacheInv.
LEMMA CacheFrame ==
  ASSUME CacheInv, UNCHANGED <<epList, made, closed>>,
         \A c \in Callers : pc'[c] = "store" => pc[c] = "store" /\ at'[c] = at[c],
         fresh.pc = "delete" => fresh'.pc = "delete" /\ fresh'.at = fresh.at
  PROVE  CacheInv'
BY DEF CacheInv

LEMMA NextCache == TypeOK /\ CacheInv /\ [Next]_vars => CacheInv'
<1> SUFFICES ASSUME TypeOK, CacheInv, [Next]_vars PROVE CacheInv'
  OBVIOUS
<1>1. ASSUME NEW c \in Callers, Pop(c) \/ Popped(c) \/ Select(c) \/ Random(c) \/ Success(c) \/ Fail(c)
      PROVE  CacheInv'
  <2>1. pc'[c] # "store" /\ \A d \in Callers \ {c} : pc'[d] = pc[d] /\ at'[d] = at[d]
    <3>1. CASE Pop(c) \/ Popped(c) \/ Success(c) \/ Fail(c)
      BY <3>1 DEF Pop, Popped, Success, Fail, Goto, TypeOK
    <3>2. CASE Select(c) \/ Random(c)
      BY <3>2 DEF Select, Random, Goto, TypeOK
    <3> QED
      BY <1>1, <3>1, <3>2
  <2>2. \A d \in Callers : pc'[d] = "store" => pc[d] = "store" /\ at'[d] = at[d]
    BY <2>1
  <2>3. UNCHANGED <<epList, made, closed, fresh>>
    BY <1>1 DEF Pop, Popped, Select, Random, Success, Fail, adps
  <2> QED
    BY <2>2, <2>3, CacheFrame
<1>2. ASSUME NEW c \in Callers, Load(c) PROVE CacheInv'
  <2> DEFINE e == EpOf(at[c])
  <2>1. e \in Eps
    BY <1>2 DEF Load, TypeOK, EpOf
  <2>2. CASE epList[e] # 0 /\ Goto(c, "call", <<e, epList[e]>>) /\ UNCHANGED made
    <3>1. \A d \in Callers : pc'[d] = "store" => pc[d] = "store" /\ at'[d] = at[d]
      BY <2>2 DEF Goto, TypeOK
    <3>2. UNCHANGED <<epList, made, closed, fresh>>
      BY <1>2, <2>2 DEF Load
    <3> QED
      BY <3>1, <3>2, CacheFrame
  <2>3. CASE /\ epList[e] = 0 /\ made[e] < MaxGen
             /\ made' = [made EXCEPT ![e] = @ + 1]
             /\ Goto(c, "store", <<e, made[e] + 1>>)
    <3> DEFINE n == made[e] + 1
    <3> HIDE DEF e
    <3>1. made[e] \in Nat /\ n \in 1..MaxGen /\ <<e, n>> \in Adapters
      BY <2>1, <2>3, BoundsNat DEF TypeOK, Adapters
    <3>2. \A x \in Eps : made[x] \in Nat /\ made'[x] \in Nat /\ made[x] <= made'[x]
      BY <2>1, <2>3, <3>1 DEF TypeOK
    <3>3. UNCHANGED <<epList, closed, fresh>>
      BY <1>2 DEF Load
    <3>4. ~closed[<<e, n>>] /\ n > made[e] /\ n = made'[e]
      BY <2>1, <2>3, <3>1 DEF CacheInv, TypeOK
    <3>5. /\ pc'[c] = "store" /\ at'[c] = <<e, n>>
          /\ \A d \in Callers \ {c} : pc'[d] = pc[d] /\ at'[d] = at[d]
      BY <2>3 DEF Goto, TypeOK
    <3>6. \A x \in Eps : epList[x] \in Nat
      BY BoundsNat DEF TypeOK
    <3>7. \A x \in Eps : epList'[x] <= made'[x]
      BY <3>2, <3>3, <3>6 DEF CacheInv
    <3>8. \A a \in Adapters : closed'[a] => a[2] <= made'[a[1]]
      <4>1. \A a \in Adapters : a[1] \in Eps /\ a[2] \in Nat
        BY BoundsNat DEF Adapters
      <4> QED
        BY <3>2, <3>3, <4>1 DEF CacheInv
    <3>9. ASSUME NEW d \in Callers, pc'[d] = "store"
          PROVE  /\ at'[d][2] <= made'[at'[d][1]] /\ at'[d][2] # epList'[at'[d][1]]
                 /\ ~closed'[at'[d]]
      <4>1. CASE d = c
        BY <2>1, <2>3, <3>1, <3>3, <3>4, <3>5, <4>1
      <4>2. CASE d # c
        <5>1. pc[d] = "store" /\ at'[d] = at[d]
          BY <3>5, <3>9, <4>2
        <5>2. at[d][1] \in Eps /\ at[d][2] \in Nat
          BY <5>1, BoundsNat DEF TypeOK, Adapters
        <5> QED
          BY <3>2, <3>3, <5>1, <5>2 DEF CacheInv
      <4> QED
        BY <4>1, <4>2
    <3>10. ASSUME NEW d \in Callers \ {c}, pc'[d] = "store" PROVE at'[d] # <<e, n>>
      <4>1. pc[d] = "store" /\ at'[d] = at[d] /\ at[d][2] <= made[at[d][1]]
        BY <3>5, <3>10 DEF CacheInv
      <4> QED
        BY <3>1, <3>4, <4>1
    <3>11. \A d, f \in Callers : pc'[d] = "store" /\ pc'[f] = "store" /\ at'[d] = at'[f] => d = f
      BY <3>5, <3>10 DEF CacheInv
    <3>12. \A x \in Eps : \/ epList'[x] = 0 \/ ~closed'[<<x, epList'[x]>>]
                          \/ fresh'.pc = "delete" /\ fresh'.at = x
      <4>1. epList' = epList /\ closed' = closed /\ fresh' = fresh
        BY <3>3
      <4> QED
        BY <4>1 DEF CacheInv
    <3> QED
      BY <3>7, <3>8, <3>9, <3>11, <3>12 DEF CacheInv
  <2> QED
    BY <1>2, <2>2, <2>3 DEF Load
<1>3. ASSUME NEW c \in Callers, Store(c) PROVE CacheInv'
  <2> DEFINE e == EpOf(at[c])
             n == at[c][2]
  <2>1. e \in Eps /\ n \in Nat /\ at[c] = <<e, n>> /\ pc[c] = "store"
    BY <1>3, BoundsNat DEF Store, TypeOK, Adapters, EpOf
  <2>2. n <= made[e] /\ ~closed[<<e, n>>]
    BY <2>1 DEF CacheInv
  <2>3. epList' = [epList EXCEPT ![e] = n] /\ UNCHANGED <<made, closed, fresh>>
    BY <1>3 DEF Store
  <2>4. \A d \in Callers : pc'[d] = "store" => d # c /\ pc[d] = "store" /\ at'[d] = at[d]
    BY <1>3 DEF Store, Goto, TypeOK
  <2> HIDE DEF e, n
  <2>5. \A x \in Eps : epList'[x] = IF x = e THEN n ELSE epList[x]
    BY <2>1, <2>3 DEF TypeOK
  <2>6. ASSUME NEW d \in Callers, pc'[d] = "store" PROVE at'[d][2] # epList'[at'[d][1]]
    <3>1. d # c /\ pc[d] = "store" /\ at'[d] = at[d]
      BY <2>4, <2>6
    <3>2. at[d] # <<e, n>>
      BY <2>1, <3>1 DEF CacheInv
    <3>3. at[d] \in Adapters
      BY <3>1 DEF TypeOK
    <3>4. at[d][1] \in Eps /\ at[d] = <<at[d][1], at[d][2]>>
      BY <3>3 DEF Adapters
    <3>5. at[d][2] # epList[at[d][1]]
      BY <3>1 DEF CacheInv
    <3> QED
      BY <2>5, <3>1, <3>2, <3>4, <3>5
  <2> QED
    BY <2>2, <2>3, <2>4, <2>5, <2>6 DEF CacheInv
<1>4. ASSUME NEW e \in Eps, PruneClose(e) PROVE CacheInv'
  <2> DEFINE a == <<e, epList[e]>>
  <2>1. a \in Adapters /\ closed' = [closed EXCEPT ![a] = TRUE] /\ fresh.pc = "prune"
        /\ UNCHANGED <<epList, made, pc, at>>
    BY <1>4, BoundsNat DEF PruneClose, TypeOK, Adapters, callers
  <2>2. fresh'.pc = "delete" /\ fresh'.at = e
    BY <1>4 DEF PruneClose, TypeOK
  <2>3. \A b \in Adapters : closed'[b] = (b = a \/ closed[b])
    BY <2>1 DEF TypeOK
  <2>4. \A b \in Adapters : closed'[b] => b[2] <= made'[b[1]]
    BY <2>1, <2>3 DEF CacheInv
  <2>5. \A c \in Callers : pc'[c] = "store" => ~closed'[at'[c]]
    <3>1. \A c \in Callers : pc[c] = "store" => at[c] # a /\ at[c] \in Adapters /\ ~closed[at[c]]
      BY DEF CacheInv, TypeOK
    <3> QED
      BY <2>1, <2>3, <3>1
  <2>6. \A x \in Eps : \/ epList'[x] = 0 \/ ~closed'[<<x, epList'[x]>>]
                       \/ fresh'.pc = "delete" /\ fresh'.at = x
    <3>1. ASSUME NEW x \in Eps, x # e, epList[x] # 0 PROVE ~closed'[<<x, epList[x]>>]
      <4>1. <<x, epList[x]>> \in Adapters /\ <<x, epList[x]>> # a
        BY <3>1, BoundsNat DEF TypeOK, Adapters
      <4> QED
        BY <2>1, <2>3, <3>1, <4>1 DEF CacheInv
    <3>2. epList' = epList
      BY <2>1
    <3> QED
      BY <2>2, <3>1, <3>2
  <2> QED
    BY <2>1, <2>4, <2>5, <2>6 DEF CacheInv
<1>5. ASSUME PruneDelete PROVE CacheInv'
  <2>1. fresh.pc = "delete" /\ fresh.at \in Eps /\ UNCHANGED <<made, closed, pc, at>>
        /\ epList' = [epList EXCEPT ![fresh.at] = 0]
    BY <1>5 DEF PruneDelete, TypeOK, callers
  <2>2. \A x \in Eps : /\ epList'[x] = IF x = fresh.at THEN 0 ELSE epList[x]
                       /\ made[x] \in Nat
    BY <2>1, BoundsNat DEF TypeOK
  <2>3. \A c \in Callers : pc[c] = "store" => at[c][1] \in Eps /\ at[c][2] # 0
    BY BoundsNat DEF TypeOK, Adapters
  <2>4. \A x \in Eps : epList'[x] <= made'[x]
    BY <2>1, <2>2 DEF CacheInv
  <2>5. \A c \in Callers : pc'[c] = "store" => at'[c][2] # epList'[at'[c][1]]
    BY <2>1, <2>2, <2>3 DEF CacheInv
  <2>6. \A x \in Eps : epList'[x] = 0 \/ ~closed'[<<x, epList'[x]>>]
    BY <2>1, <2>2 DEF CacheInv
  <2> QED
    BY <2>1, <2>4, <2>5, <2>6 DEF CacheInv
<1>6. ASSUME Find \/ Install \/ \E e \in Eps : Build(e) PROVE CacheInv'
  BY <1>6, CacheFrame DEF Find, Install, Build, adps, callers
<1>7. CASE RegistryChange \/ CheckStep \/ \E c \in Callers : ProberStep(c)
  BY <1>7, CacheFrame DEF RegistryChange, CheckStep, CheckStart, Unlist, CheckSend, Unselect,
       CheckNothing, CheckBlock, CheckTry, CheckNoDial, CheckInsert, ProberStep, Reset, AddAliveEp,
       adps, callers
<1>8. CASE UNCHANGED vars
  BY <1>8, CacheFrame DEF vars, adps, callers
<1> QED
  BY <1>1, <1>2, <1>3, <1>4, <1>5, <1>6, <1>7, <1>8 DEF Next, FreshStep, CallerStep

\* findAndSetObj leaves no closed adapter behind in epList, whatever adapters
\* the callers make and store while it closes and deletes.
THEOREM CachedOpenHolds == Spec => []CachedOpen
<1>1. Init => TypeOK /\ CacheInv
  BY InitType, InitCache
<1>2. TypeOK /\ CacheInv /\ [Next]_vars => (TypeOK /\ CacheInv)'
  BY NextType, NextCache
<1>3. CacheInv => CachedOpen
  BY DEF CacheInv, CachedOpen, AdapterIn
<1> QED
  BY <1>1, <1>2, <1>3, PTL DEF Spec

-------------------------------------------------------------------------------
(* NoEmptyDraw. *)

\* While findAndSetObj works on a new list, the list is not empty: Find has
\* looked, but Install comes many steps later.
FreshNotEmpty == fresh.pc # "idle" => fresh.new # {}

DrawInv == NoEmptyDraw /\ FreshNotEmpty

Labels == {"idle", "popped", "random", "load", "store", "call", "panic"}

\* Caller c goes on to l, and not to draw from an empty list.
Goes(c, l) == /\ pc' = [pc EXCEPT ![c] = l]
              /\ l \in {"random", "load", "store"} => activeEpf # {}

LEMMA NextDraw == TypeOK /\ DrawInv /\ [Next]_vars => DrawInv'
<1> SUFFICES ASSUME TypeOK, DrawInv, [Next]_vars PROVE DrawInv'
  OBVIOUS
<1>t. /\ DOMAIN pc = Callers /\ DOMAIN at = Callers /\ fresh.todo \subseteq Eps
      /\ \/ fresh \in [pc : {"idle", "prune", "build"}, at : {None}, todo : SUBSET Eps,
                        new : SUBSET Eps, sorted : SUBSET Eps]
         \/ fresh \in [pc : {"delete"}, at : Eps, todo : SUBSET Eps, new : SUBSET Eps,
                        sorted : SUBSET Eps]
  BY DEF TypeOK
<1>1. ASSUME UNCHANGED <<activeEpf, pc>> PROVE NoEmptyDraw'
  BY <1>1 DEF DrawInv, NoEmptyDraw
<1>g. ASSUME UNCHANGED activeEpf, NEW c \in Callers, NEW l \in Labels, Goes(c, l) PROVE NoEmptyDraw'
  <2> SUFFICES ASSUME NEW d \in Callers, pc'[d] \in {"random", "load", "store"}
               PROVE  activeEpf' # {}
    BY DEF NoEmptyDraw
  <2>1. CASE d = c
    BY <1>t, <1>g, <2>1 DEF Goes
  <2>2. CASE d # c
    BY <1>t, <1>g, <2>2 DEF DrawInv, NoEmptyDraw, Goes
  <2> QED BY <2>1, <2>2
<1>2. ASSUME UNCHANGED fresh PROVE FreshNotEmpty'
  BY <1>2 DEF DrawInv, FreshNotEmpty
<1>3. ASSUME NEW c \in Callers, CallerStep(c) PROVE DrawInv'
  <2>1. UNCHANGED activeEpf /\ UNCHANGED fresh
    BY <1>3 DEF CallerStep, Pop, Popped, Select, Random, Load, Store, Success, Fail, lists
  <2>2. \E l \in Labels : Goes(c, l)
    <3>1. CASE Pop(c) \/ Popped(c) \/ Success(c) \/ Fail(c)
      BY <3>1 DEF Pop, Popped, Success, Fail, Goto, Goes, Labels
    <3>2. CASE Select(c)
      BY <3>2 DEF Select, Goto, Goes, Labels
    <3>3. CASE Random(c) \/ Load(c) \/ Store(c)
      <4>1. activeEpf # {}
        BY <3>3 DEF Random, Load, Store, DrawInv, NoEmptyDraw
      <4> QED BY <3>3, <4>1 DEF Random, Load, Store, Goto, Goes, Labels
    <3> QED BY <1>3, <3>1, <3>2, <3>3 DEF CallerStep
  <2> QED BY <1>g, <1>2, <2>1, <2>2 DEF DrawInv
<1>4. CASE \/ RegistryChange \/ CheckStep \/ (\E c \in Callers : ProberStep(c)) \/ UNCHANGED vars
  <2>1. UNCHANGED <<activeEpf, pc, fresh>>
    BY <1>4 DEF RegistryChange, CheckStep, CheckStart, Unlist, CheckSend, Unselect, CheckNothing,
                CheckBlock, CheckTry, CheckNoDial, CheckInsert, ProberStep, Reset, AddAliveEp, lists,
                callers, vars
  <2> QED BY <1>1, <1>2, <2>1 DEF DrawInv
<1>5. ASSUME Find PROVE DrawInv'
  <2>1. fresh'.new # {} /\ UNCHANGED <<activeEpf, pc>>
    BY <1>5 DEF Find, Pruning, lists, callers
  <2> QED BY <1>1, <2>1 DEF DrawInv, FreshNotEmpty
<1>6. ASSUME NEW e \in Eps, PruneClose(e) \/ Build(e) PROVE DrawInv'
  <2>1. /\ fresh.pc # "idle" /\ fresh'.new = fresh.new
        /\ UNCHANGED <<activeEpf, pc>>
    BY <1>t, <1>6 DEF PruneClose, Build, lists, callers
  <2> QED BY <1>1, <2>1 DEF DrawInv, FreshNotEmpty
<1>7. ASSUME PruneDelete PROVE DrawInv'
  <2>1. /\ fresh.pc # "idle" /\ fresh'.new = fresh.new
        /\ UNCHANGED <<activeEpf, pc>>
    BY <1>7 DEF PruneDelete, Pruning, lists, callers
  <2> QED BY <1>1, <2>1 DEF DrawInv, FreshNotEmpty
<1>8. ASSUME Install PROVE DrawInv'
  <2>1. /\ fresh.pc # "idle" /\ activeEpf' = fresh.new /\ fresh'.pc = "idle"
    BY <1>8 DEF Install, NotFresh
  <2> QED BY <2>1 DEF DrawInv, FreshNotEmpty, NoEmptyDraw
<1> QED
  BY <1>3, <1>4, <1>5, <1>6, <1>7, <1>8 DEF Next, FreshStep

\* Whatever the registry answers, and however the refresh of the list and the
\* calls interleave, a caller that has begun to draw a random endpoint finds a
\* list that is not empty (SelectAdapterProxy, findAndSetObj).
THEOREM NoEmptyDrawHolds == Spec => []NoEmptyDraw
<1>1. Init => DrawInv
  BY DEF Init, DrawInv, NoEmptyDraw, FreshNotEmpty, NotFresh
<1>2. DrawInv => NoEmptyDraw
  BY DEF DrawInv
<1> QED
  BY <1>1, <1>2, NextDraw, TypeCorrect, PTL DEF Spec

-------------------------------------------------------------------------------
(* SelectorsInStep. *)

\* The registry keeps its list, and a cached list is that one.
QuietHypothesis == MaxChanges = 0 /\ Caches \subseteq {Eps}

\* What goes on around an endpoint: it waits for a probe, a caller probes it, the
\* goroutine of a successful probe resets it or adds it, checkStatus takes it out.
Waiting(e) == e \in checkAdapterList
Trying(e, c) == pc[c] = "call" /\ needCheck[c] = TRUE /\ EpOf(at[c]) = e
Resetting(e, c) == prober[c].pc = "reset" /\ EpOf(prober[c].at) = e
Adding(e, c) == prober[c].pc = "add" /\ EpOf(prober[c].at) = e
Blocking(e) == chk.pc \in {"unlist", "rr", "con", "mod"} /\ EpOf(chk.at) = e

Blocked(e) == epList[e] = 1 /\ status[<<e, 1>>] = FALSE
Listed(e) == activeEp[e] = 1 /\ e \in sel["rr"] /\ e \in sel["con"]
Unlisted(e) == activeEp[e] = 0 /\ \A s \in Selectors : e \notin sel[s]

\* At most one of these goes on, and a probe only while the endpoint is blocked.
OneProbe(e) ==
  /\ Waiting(e) => Blocked(e) /\ \A c \in Callers : ~Trying(e, c) /\ ~Resetting(e, c) /\ ~Adding(e, c)
  /\ \A c \in Callers :
       /\ Trying(e, c) => Blocked(e) /\ \A d \in Callers : /\ ~Resetting(e, d) /\ ~Adding(e, d)
                                                           /\ Trying(e, d) => d = c
       /\ Resetting(e, c) => Blocked(e) /\ \A d \in Callers : /\ ~Adding(e, d)
                                                              /\ Resetting(e, d) => d = c
       /\ Adding(e, c) => epList[e] = 1 /\ \A d \in Callers : Adding(e, d) => d = c
  /\ Blocking(e) => /\ Blocked(e) /\ ~Waiting(e)
                    /\ \A c \in Callers : ~Trying(e, c) /\ ~Resetting(e, c) /\ ~Adding(e, c)

\* The lists follow: while checkStatus takes the endpoint out, as far as it has come.
InStep(e) ==
  /\ Blocking(e) => /\ activeEp[e] = IF chk.pc = "unlist" THEN 1 ELSE 0
                    /\ chk.pc \in {"unlist", "rr"} <=> e \in sel["rr"]
                    /\ chk.pc \in {"unlist", "rr", "con"} <=> e \in sel["con"]
  /\ ~Blocking(e) /\ (\E c \in Callers : Adding(e, c)) => Unlisted(e) /\ ~Blocked(e)
  /\ ~Blocking(e) /\ (\A c \in Callers : ~Adding(e, c)) =>
       /\ Blocked(e) => Unlisted(e)
       /\ ~Blocked(e) => Listed(e)

\* An adapter is blocked only once it is in epList.
NotYet(e) == epList[e] = 0 /\ 1 <= MaxGen => status[<<e, 1>>] = TRUE

\* While checkStatus dials for the next probe, no other one is under way: one that
\* was, or that a call takes meanwhile, has put the endpoint in crossed.
Popping(e, c) == pc[c] = "popped" /\ EpOf(at[c]) = e
Dialling(e) == chk.pc = "dial" /\ EpOf(chk.at) = e
DialOk(e) == Dialling(e) => /\ Blocked(e)
                            /\ \A c \in Callers : /\ ~Popping(e, c) /\ ~Trying(e, c)
                                                  /\ ~Resetting(e, c) /\ ~Adding(e, c)

EpOk(e) == OneProbe(e) /\ InStep(e) /\ NotYet(e)
EpInv(e) == made[e] <= 1 /\ e \notin crossed => EpOk(e) /\ DialOk(e)

\* The number of an adapter is that of one that was made.
Numbers ==
  /\ \A e \in Eps : epList[e] <= made[e]
  /\ \A c \in Callers : pc[c] \in {"popped", "store", "call"} => at[c][2] <= made[EpOf(at[c])]
  /\ \A c \in Callers : prober[c] # NoProber => prober[c].at[2] <= made[EpOf(prober[c].at)]
  /\ \A i \in DOMAIN checkAdapter : checkAdapter[i][2] <= made[EpOf(checkAdapter[i])]
  /\ chk.at # None => chk.at[2] <= made[EpOf(chk.at)]

CallersInv ==
  \A c \in Callers : /\ pc[c] # "idle" => prober[c] = NoProber
                     /\ pc[c] = "popped" => needCheck[c] = TRUE
                     /\ needCheck[c] = TRUE => pc[c] \in {"popped", "call"}

\* Before the first list: nothing has been called.
Starting ==
  /\ activeEpf = {} /\ checkAdapter = <<>> /\ checkAdapterList = {} /\ chk.pc = "idle"
  /\ \A e \in Eps : epList[e] = 0
  /\ \A a \in Adapters : status[a] = TRUE
  /\ \A c \in Callers : pc[c] = "idle" /\ prober[c] = NoProber
  /\ \/ fresh.pc = "idle"
     \/ fresh.pc = "build" /\ fresh.new = Eps /\ fresh.sorted = Eps \ fresh.todo
Started == activeEpf = Eps /\ fresh.pc = "idle" /\ \A e \in Eps : EpInv(e)

StepInv ==
  /\ \A e \in Eps : registry[e] = "active"
  /\ Numbers /\ CallersInv
  /\ Starting \/ Started

\* A caller has no prober while it calls, and a probe in hand only when it probes.
LEMMA NextCallers == TypeOK /\ CallersInv /\ [Next]_vars => CallersInv'
<1> SUFFICES ASSUME TypeOK, CallersInv, [Next]_vars PROVE CallersInv'
  OBVIOUS
<1>t. /\ DOMAIN pc = Callers /\ DOMAIN needCheck = Callers /\ DOMAIN prober = Callers
      /\ DOMAIN at = Callers
  BY DEF TypeOK
<1>i. \A c \in Callers : /\ pc[c] # "idle" => prober[c] = NoProber
                         /\ pc[c] = "popped" => needCheck[c] = TRUE
                         /\ needCheck[c] = TRUE => pc[c] \in {"popped", "call"}
  BY DEF CallersInv
<1>1. ASSUME UNCHANGED <<pc, prober, needCheck>> PROVE CallersInv'
  BY <1>1 DEF CallersInv
<1>2. ASSUME NEW c \in Callers, CallerStep(c) PROVE CallersInv'
  <2>1. \A d \in Callers \ {c} : /\ pc'[d] = pc[d] /\ prober'[d] = prober[d]
                                 /\ needCheck'[d] = needCheck[d]
    BY <1>t, <1>2 DEF CallerStep, Pop, Popped, Select, Random, Load, Store, Success, Fail, Goto
  <2>2. /\ pc'[c] # "idle" => prober'[c] = NoProber
    <3>1. CASE Pop(c) \/ Select(c)
      BY <1>t, <3>1 DEF Pop, Select, Goto
    <3>2. CASE Popped(c) \/ Random(c) \/ Load(c) \/ Store(c)
      BY <1>t, <1>i, <3>2 DEF Popped, Random, Load, Store, Goto
    <3>3. CASE Success(c) \/ Fail(c)
      BY <1>t, <3>3 DEF Success, Fail, Goto
    <3> QED BY <1>2, <3>1, <3>2, <3>3 DEF CallerStep
  <2>3. /\ pc'[c] = "popped" => needCheck'[c] = TRUE
        /\ needCheck'[c] = TRUE => pc'[c] \in {"popped", "call"}
    <3>1. CASE Pop(c)
      BY <1>t, <3>1 DEF Pop, Goto
    <3>2. CASE Popped(c)
      BY <1>t, <3>2 DEF Popped, Goto
    <3>3. CASE Select(c) \/ Success(c) \/ Fail(c)
      <4>1. needCheck'[c] = FALSE
        BY <1>t, <3>3 DEF Select, Success, Fail
      <4>2. pc'[c] # "popped"
        BY <1>t, <3>3 DEF Select, Success, Fail, Goto
      <4> QED BY <4>1, <4>2
    <3>4. CASE Random(c) \/ Load(c) \/ Store(c)
      <4>1. needCheck' = needCheck /\ pc[c] \notin {"popped", "call"}
        BY <3>4 DEF Random, Load, Store
      <4>2. pc'[c] # "popped"
        BY <1>t, <3>4 DEF Random, Load, Store, Goto
      <4> QED BY <1>i, <4>1, <4>2
    <3> QED BY <1>2, <3>1, <3>2, <3>3, <3>4 DEF CallerStep
  <2> QED BY <1>i, <2>1, <2>2, <2>3 DEF CallersInv
<1>3. ASSUME NEW c \in Callers, ProberStep(c) PROVE CallersInv'
  <2>1. UNCHANGED <<pc, needCheck>> /\ prober[c] # NoProber
    BY <1>3 DEF ProberStep, Reset, AddAliveEp, NoProber
  <2>2. \A d \in Callers \ {c} : prober'[d] = prober[d]
    BY <1>t, <1>3 DEF ProberStep, Reset, AddAliveEp
  <2>3. pc[c] = "idle"
    BY <1>i, <2>1
  <2> QED BY <1>i, <2>1, <2>2, <2>3 DEF CallersInv
<1>4. CASE RegistryChange \/ CheckStep \/ FreshStep \/ UNCHANGED vars
  <2>1. UNCHANGED <<pc, prober, needCheck>>
    BY <1>4 DEF RegistryChange, CheckStep, CheckStart, Unlist, CheckSend, Unselect, CheckNothing,
                CheckBlock, CheckTry, CheckNoDial, CheckInsert, FreshStep, Find, PruneDelete,
                Install, PruneClose, Build, callers, vars
  <2> QED BY <1>1, <2>1
<1> QED BY <1>2, <1>3, <1>4 DEF Next

\* An adapter that has been made: before the step, and after it.
Made(a) == a[2] <= made[EpOf(a)]
MadeNow(a) == a[2] <= made'[EpOf(a)]

\* No step takes in hand an adapter that was not made.
LEMMA NextNumbers == TypeOK /\ Numbers /\ [Next]_vars => Numbers'
<1> SUFFICES ASSUME TypeOK, Numbers, [Next]_vars PROVE Numbers'
  OBVIOUS
<1>t. /\ DOMAIN pc = Callers /\ DOMAIN at = Callers /\ DOMAIN prober = Callers
      /\ made \in [Eps -> Nat] /\ epList \in [Eps -> Nat] /\ checkAdapter \in Seq(Adapters)
      /\ \A c \in Callers : /\ pc[c] \in {"popped", "store", "call"} => at[c] \in Adapters
                            /\ pc[c] = "load" => at[c] \in Eps \X {0}
                            /\ prober[c] # NoProber => prober[c].at \in Adapters
      /\ chk.at # None => chk.at \in Adapters
  BY BoundsNat DEF TypeOK
<1>a. \A a \in Adapters : EpOf(a) \in Eps /\ a[2] \in Nat
  BY BoundsNat DEF Adapters, EpOf
<1>i. /\ \A e \in Eps : epList[e] <= made[e]
      /\ \A c \in Callers : pc[c] \in {"popped", "store", "call"} => Made(at[c])
      /\ \A c \in Callers : prober[c] # NoProber => Made(prober[c].at)
      /\ \A i \in DOMAIN checkAdapter : Made(checkAdapter[i])
      /\ chk.at # None => Made(chk.at)
  BY DEF Numbers, Made
<1> DEFINE EpsN == \A e \in Eps : epList'[e] <= made'[e]
           CallersN == \A c \in Callers : pc'[c] \in {"popped", "store", "call"} => MadeNow(at'[c])
           ProbersN == \A c \in Callers : prober'[c] # NoProber => MadeNow(prober'[c].at)
           QueueN == \A i \in DOMAIN checkAdapter' : MadeNow(checkAdapter'[i])
           ChkN == chk'.at # None => MadeNow(chk'.at)
<1>n. EpsN /\ CallersN /\ ProbersN /\ QueueN /\ ChkN => Numbers'
  BY DEF Numbers, MadeNow
<1>m. ASSUME UNCHANGED made PROVE \A a : Made(a) => MadeNow(a)
  BY <1>m DEF Made, MadeNow
<1>e. ASSUME UNCHANGED <<made, epList>> PROVE EpsN
  BY <1>i, <1>e
<1>c. ASSUME UNCHANGED <<made, pc, at>> PROVE CallersN
  BY <1>i, <1>m, <1>c
<1>p. ASSUME UNCHANGED <<made, prober>> PROVE ProbersN
  BY <1>i, <1>m, <1>p
<1>q. ASSUME UNCHANGED <<made, checkAdapter>> PROVE QueueN
  BY <1>i, <1>m, <1>q
<1>k. ASSUME UNCHANGED made, UNCHANGED chk \/ chk'.at = None PROVE ChkN
  BY <1>i, <1>m, <1>k
<1>g. ASSUME NEW c \in Callers, NEW l, NEW a, Goto(c, l, a), UNCHANGED made,
             l \in {"popped", "store", "call"} => Made(a)
      PROVE  CallersN
  BY <1>t, <1>i, <1>m, <1>g DEF Goto
<1> HIDE DEF EpsN, CallersN, ProbersN, QueueN, ChkN
<1>1. ASSUME NEW c \in Callers, Pop(c) PROVE Numbers'
  <2>1. /\ UNCHANGED <<made, epList, prober, chk>> /\ checkAdapter # <<>>
        /\ checkAdapter' = Tail(checkAdapter) /\ Goto(c, "popped", Head(checkAdapter))
    BY <1>1 DEF Pop, adps
  <2>2. /\ 1 \in DOMAIN checkAdapter /\ Head(checkAdapter) = checkAdapter[1]
        /\ \A i \in DOMAIN Tail(checkAdapter) : /\ i + 1 \in DOMAIN checkAdapter
                                                /\ Tail(checkAdapter)[i] = checkAdapter[i + 1]
    BY <1>t, <2>1
  <2>3. QueueN
    BY <1>i, <1>m, <2>1, <2>2 DEF QueueN
  <2>4. Made(Head(checkAdapter))
    BY <1>i, <2>2
  <2>5. CallersN
    BY <1>g, <2>1, <2>4
  <2> QED BY <1>n, <1>e, <1>p, <1>k, <2>1, <2>3, <2>5
<1>2. ASSUME NEW c \in Callers, Popped(c) \/ Select(c) \/ Random(c) PROVE Numbers'
  <2>1. UNCHANGED <<made, epList, prober, chk, checkAdapter>>
    BY <1>2 DEF Popped, Select, Random, adps, probes
  <2>2. CallersN
    <3>1. CASE Popped(c)
      BY <1>g, <1>i, <2>1, <3>1 DEF Popped
    <3>2. CASE Select(c)
      BY <1>g, <2>1, <3>2 DEF Select
    <3>3. CASE Random(c)
      BY <1>g, <2>1, <3>3 DEF Random
    <3> QED BY <1>2, <3>1, <3>2, <3>3
  <2> QED BY <1>n, <1>e, <1>p, <1>q, <1>k, <2>1, <2>2
<1>3. ASSUME NEW c \in Callers, Load(c) PROVE Numbers'
  <2> DEFINE e == EpOf(at[c])
  <2>1. e \in Eps
    BY <1>t, <1>3 DEF Load, EpOf
  <2>2. UNCHANGED <<epList, prober, chk, checkAdapter>>
    BY <1>3 DEF Load, probes
  <2>3. CASE epList[e] # 0 /\ Goto(c, "call", <<e, epList[e]>>) /\ UNCHANGED made
    <3>1. Made(<<e, epList[e]>>)
      BY <1>i, <2>1 DEF Made, EpOf
    <3>2. CallersN
      BY <1>g, <2>3, <3>1
    <3> QED BY <1>n, <1>e, <1>p, <1>q, <1>k, <2>2, <2>3, <3>2
  <2>4. CASE made' = [made EXCEPT ![e] = @ + 1] /\ Goto(c, "store", <<e, made[e] + 1>>)
    <3> HIDE DEF e
    <3>1. \A x \in Eps : made[x] <= made'[x] /\ made[x] \in Nat /\ made'[x] \in Nat
      BY <1>t, <2>1, <2>4
    <3>2. \A a \in Adapters : Made(a) => MadeNow(a)
      BY <1>a, <3>1 DEF Made, MadeNow
    <3>3. EpsN
      BY <1>t, <1>i, <2>2, <3>1 DEF EpsN
    <3>4. ProbersN /\ ChkN
      BY <1>t, <1>i, <2>2, <3>2 DEF ProbersN, ChkN
    <3>5. QueueN
      <4>1. \A i \in DOMAIN checkAdapter : checkAdapter[i] \in Adapters
        BY <1>t
      <4> QED BY <1>i, <2>2, <3>2, <4>1 DEF QueueN
    <3>6. MadeNow(<<e, made[e] + 1>>)
      BY <1>t, <2>1, <2>4 DEF MadeNow, EpOf
    <3>7. CallersN
      BY <1>t, <1>i, <2>4, <3>2, <3>6 DEF CallersN, Goto
    <3> QED BY <1>n, <3>3, <3>4, <3>5, <3>7
  <2> QED BY <1>3, <2>3, <2>4 DEF Load
<1>4. ASSUME NEW c \in Callers, Store(c) PROVE Numbers'
  <2>1. /\ pc[c] = "store" /\ UNCHANGED <<made, prober, chk, checkAdapter>>
        /\ epList' = [epList EXCEPT ![EpOf(at[c])] = at[c][2]] /\ Goto(c, "call", at[c])
    BY <1>4 DEF Store, probes
  <2>2. Made(at[c]) /\ EpOf(at[c]) \in Eps
    BY <1>t, <1>a, <1>i, <2>1
  <2>3. EpsN
    BY <1>t, <1>i, <2>1, <2>2 DEF EpsN, Made
  <2>4. CallersN
    BY <1>g, <2>1, <2>2
  <2> QED BY <1>n, <1>p, <1>q, <1>k, <2>1, <2>3, <2>4
<1>5. ASSUME NEW c \in Callers, Success(c) \/ Fail(c) PROVE Numbers'
  <2>1. pc[c] = "call" /\ Goto(c, "idle", None) /\ UNCHANGED <<made, epList, chk, checkAdapter>>
    BY <1>5 DEF Success, Fail, probes
  <2>2. CallersN
    BY <1>g, <2>1
  <2>3. ProbersN
    <3>1. \A d \in Callers : \/ prober'[d] = prober[d] \/ prober'[d] = NoProber
                            \/ (d = c /\ prober'[d] = [pc |-> "reset", at |-> at[c]])
      <4>1. CASE Success(c)
        BY <1>t, <4>1 DEF Success
      <4>2. CASE Fail(c)
        BY <4>2 DEF Fail
      <4> QED BY <1>5, <4>1, <4>2
    <3>2. Made(at[c])
      BY <1>i, <2>1
    <3> QED BY <1>i, <1>m, <2>1, <3>1, <3>2 DEF ProbersN
  <2> QED BY <1>n, <1>e, <1>q, <1>k, <2>1, <2>2, <2>3
<1>6. ASSUME NEW c \in Callers, ProberStep(c) PROVE Numbers'
  <2>1. UNCHANGED <<made, epList, chk, checkAdapter, pc, at>>
    BY <1>6 DEF ProberStep, Reset, AddAliveEp, adps, probes
  <2>2. prober[c] # NoProber
    BY <1>6 DEF ProberStep, Reset, AddAliveEp, NoProber
  <2>3. \A d \in Callers : \/ prober'[d] = prober[d] \/ prober'[d] = NoProber
                          \/ (d = c /\ prober'[d].at = prober[c].at)
    <3>1. CASE Reset(c)
      <4>1. prober[c] \in [pc : {"reset", "add"}, at : Adapters]
        BY <2>2 DEF TypeOK
      <4> QED BY <1>t, <3>1, <4>1 DEF Reset
    <3>2. CASE AddAliveEp(c)
      BY <1>t, <3>2 DEF AddAliveEp
    <3> QED BY <1>6, <3>1, <3>2 DEF ProberStep
  <2>4. ProbersN
    BY <1>i, <1>m, <2>1, <2>2, <2>3 DEF ProbersN
  <2> QED BY <1>n, <1>e, <1>c, <1>q, <1>k, <2>1, <2>4
<1>7. CASE CheckStep
  <2>1. UNCHANGED <<made, epList, pc, at, prober>>
    BY <1>7 DEF CheckStep, CheckStart, Unlist, CheckSend, Unselect, CheckNothing, CheckBlock,
                CheckTry, CheckNoDial, CheckInsert, adps, callers
  <2>2. \/ chk'.at = None \/ chk'.at = chk.at
        \/ \E e \in Eps : chk'.at = <<e, epList[e]>>
    <3>r. \/ chk \in [pc : {"idle", "next"}, at : {None}, todo : SUBSET Eps]
          \/ chk \in [pc : {"unlist", "rr", "con", "mod", "dial", "insert"}, at : Adapters,
                      todo : SUBSET Eps]
      BY DEF TypeOK
    <3>1. ASSUME NEW e, Checked(e) PROVE chk'.at = None
      BY <3>1 DEF Checked, Idle
    <3>a. ASSUME CheckStart PROVE chk'.at = None
      BY <3>a DEF CheckStart
    <3>b. ASSUME CheckSend PROVE chk'.at = None
      BY <3>b DEF CheckSend, Checked, Idle
    <3>c. ASSUME CheckNoDial PROVE chk'.at = None
      BY <3>1, <3>c DEF CheckNoDial
    <3>d. ASSUME CheckInsert PROVE chk'.at = None \/ chk'.at = chk.at
      BY <3>r, <3>1, <3>d DEF CheckInsert
    <3>2. ASSUME NEW e \in Eps, CheckNothing(e) PROVE chk'.at = None
      BY <3>1, <3>2 DEF CheckNothing
    <3>3. CASE Unlist
      BY <3>r, <3>3 DEF Unlist
    <3>4. ASSUME NEW e \in Eps, CheckBlock(e) \/ CheckTry(e) PROVE chk'.at = <<e, epList[e]>>
      BY <3>r, <3>4 DEF CheckBlock, CheckTry
    <3>5. ASSUME NEW s \in Selectors, Unselect(s) PROVE chk'.at = None \/ chk'.at = chk.at
      <4>1. \/ chk' = [chk EXCEPT !.pc = "con"] \/ chk' = [chk EXCEPT !.pc = "mod"]
            \/ Checked(EpOf(chk.at))
        BY <3>5 DEF Unselect, Selectors
      <4>2. CASE Checked(EpOf(chk.at))
        BY <4>2 DEF Checked, Idle
      <4> QED BY <3>r, <4>1, <4>2
    <3> QED BY <1>7, <3>a, <3>b, <3>c, <3>d, <3>2, <3>3, <3>4, <3>5 DEF CheckStep
  <2>3. ChkN
    <3>1. \A e \in Eps : Made(<<e, epList[e]>>)
      BY <1>i DEF Made, EpOf
    <3> QED BY <1>i, <1>m, <2>1, <2>2, <3>1 DEF ChkN
  <2>4. QueueN
    <3>1. CASE UNCHANGED checkAdapter
      BY <1>q, <2>1, <3>1
    <3>2. CASE CheckSend
      <4>1. chk.at # None /\ checkAdapter' = Append(checkAdapter, chk.at)
        <5>1. chk.at \in Adapters
          BY <3>2 DEF CheckSend, TypeOK
        <5> QED BY <3>2, <5>1, NoneAssumption DEF CheckSend
      <4>2. \A i \in DOMAIN checkAdapter' : \/ checkAdapter'[i] = chk.at
                                           \/ (i \in DOMAIN checkAdapter /\ checkAdapter'[i] = checkAdapter[i])
        <5>1. chk.at \in Adapters
          BY <1>t, <4>1
        <5> QED BY <1>t, <4>1, <5>1
      <4> QED BY <1>i, <1>m, <2>1, <4>1, <4>2 DEF QueueN
    <3> QED BY <1>7, <3>1, <3>2 DEF CheckStep, CheckStart, Unlist, Unselect, CheckNothing, CheckBlock,
                CheckTry, CheckNoDial, CheckInsert, probes
  <2> QED BY <1>n, <1>e, <1>c, <1>p, <2>1, <2>3, <2>4
<1>8. CASE RegistryChange \/ FreshStep \/ UNCHANGED vars
  <2>1. UNCHANGED <<made, pc, at, prober, chk, checkAdapter>>
    BY <1>8 DEF RegistryChange, FreshStep, Find, PruneDelete, Install, PruneClose, Build, adps, probes,
                callers, vars
  <2>2. \A e \in Eps : epList'[e] = epList[e] \/ epList'[e] = 0
    BY <1>t, <1>8 DEF RegistryChange, FreshStep, Find, PruneDelete, Install, PruneClose, Build, adps, vars
  <2>3. EpsN
    BY <1>t, <1>i, <2>1, <2>2 DEF EpsN
  <2> QED BY <1>n, <1>c, <1>p, <1>q, <1>k, <2>1, <2>3
<1> QED
  BY <1>1, <1>2, <1>3, <1>4, <1>5, <1>6, <1>7, <1>8 DEF Next, CallerStep

\* What a step leaves as it was for an endpoint.
SameProbe(e) ==
  /\ Waiting(e)' <=> Waiting(e)
  /\ \A c \in Callers : /\ Trying(e, c)' <=> Trying(e, c)
                        /\ Resetting(e, c)' <=> Resetting(e, c)
                        /\ Adding(e, c)' <=> Adding(e, c)
SameCaller(e, c) ==
  /\ Trying(e, c)' <=> Trying(e, c)
  /\ Resetting(e, c)' <=> Resetting(e, c)
  /\ Adding(e, c)' <=> Adding(e, c)
SameBlock(e) == (Blocking(e)' <=> Blocking(e)) /\ (Blocking(e) => chk'.pc = chk.pc)
SameAdapter(e) == epList'[e] = epList[e] /\ status'[<<e, 1>>] = status[<<e, 1>>]
SameLists(e) ==
  activeEp'[e] = activeEp[e] /\ \A s \in Selectors : e \in sel'[s] <=> e \in sel[s]

\* A step that leaves an endpoint alone leaves it in step.
LEMMA SameEp ==
  ASSUME NEW e, EpOk(e), SameProbe(e), SameBlock(e), SameAdapter(e), SameLists(e)
  PROVE  EpOk(e)'
<1>1. Blocked(e)' <=> Blocked(e)
  BY DEF Blocked, SameAdapter
<1>2. (Listed(e)' <=> Listed(e)) /\ (Unlisted(e)' <=> Unlisted(e))
  BY DEF Listed, Unlisted, SameLists, Selectors
<1>3. OneProbe(e)'
  BY <1>1 DEF EpOk, OneProbe, SameProbe, SameBlock, SameAdapter
<1>4. InStep(e)'
  <2>1. (e \in sel'["rr"] <=> e \in sel["rr"]) /\ (e \in sel'["con"] <=> e \in sel["con"])
    BY DEF SameLists, Selectors
  <2>2. CASE Blocking(e)
    BY <2>1, <2>2 DEF EpOk, InStep, SameBlock, SameLists
  <2>3. CASE ~Blocking(e)
    BY <1>1, <1>2, <2>3 DEF EpOk, InStep, SameProbe, SameBlock
  <2> QED BY <2>2, <2>3
<1>5. NotYet(e)'
  BY DEF EpOk, NotYet, SameAdapter
<1> QED BY <1>3, <1>4, <1>5 DEF EpOk

\* A caller whose place and goroutine do not change.
LEMMA SameUnmoved ==
  ASSUME NEW e, NEW c, pc'[c] = pc[c], at'[c] = at[c], needCheck'[c] = needCheck[c],
         prober'[c] = prober[c]
  PROVE  SameCaller(e, c)
BY DEF SameCaller, Trying, Resetting, Adding, EpOf

\* Of an endpoint for which one adapter was made, only that one is in play.
LEMMA OneAdapter ==
  ASSUME TypeOK, Numbers, NEW e \in Eps, made[e] <= 1
  PROVE  /\ \A c \in Callers : pc[c] \in {"popped", "store", "call"} /\ EpOf(at[c]) = e
                                 => at[c] = <<e, 1>>
         /\ \A c \in Callers : prober[c] # NoProber /\ EpOf(prober[c].at) = e
                                 => prober[c].at = <<e, 1>>
         /\ chk.at # None /\ EpOf(chk.at) = e => chk.at = <<e, 1>>
         /\ epList[e] \in {0, 1}
<1>0. made[e] \in Nat /\ epList[e] \in Nat
  BY BoundsNat DEF TypeOK
<1>1. ASSUME NEW a \in Adapters, EpOf(a) = e, a[2] <= made[EpOf(a)] PROVE a = <<e, 1>>
  <2>1. a = <<a[1], a[2]>> /\ a[2] \in Nat /\ a[2] >= 1
    BY BoundsNat DEF Adapters
  <2>2. a[2] = 1 /\ a[1] = e
    BY <1>0, <1>1, <2>1 DEF EpOf
  <2> QED BY <2>1, <2>2
<1>2. ASSUME NEW c \in Callers, pc[c] \in {"popped", "store", "call"}, EpOf(at[c]) = e
      PROVE  at[c] = <<e, 1>>
  BY <1>1, <1>2 DEF TypeOK, Numbers
<1>3. ASSUME NEW c \in Callers, prober[c] # NoProber, EpOf(prober[c].at) = e
      PROVE  prober[c].at = <<e, 1>>
  BY <1>1, <1>3 DEF TypeOK, Numbers
<1>4. ASSUME chk.at # None, EpOf(chk.at) = e PROVE chk.at = <<e, 1>>
  BY <1>1, <1>4 DEF TypeOK, Numbers
<1>5. epList[e] \in {0, 1}
  BY <1>0 DEF Numbers
<1> QED BY <1>2, <1>3, <1>4, <1>5

\* A call keeps each endpoint in step: its probe, made or failed, and the adapter it stores.
LEMMA CallerEp ==
  ASSUME TypeOK, ProbeOnce, Numbers, CallersInv, NEW e \in Eps, made[e] <= 1, EpOk(e),
         NEW c \in Callers, CallerStep(c), made'[e] <= 1
  PROVE  EpOk(e)'
<1>t. /\ DOMAIN pc = Callers /\ DOMAIN at = Callers /\ DOMAIN needCheck = Callers
      /\ DOMAIN prober = Callers /\ epList \in [Eps -> Nat] /\ made \in [Eps -> Nat]
      /\ \A d \in Callers : pc[d] \in {"popped", "store", "call"} => at[d] \in Adapters
  BY BoundsNat DEF TypeOK
<1>s. UNCHANGED <<chk, activeEp, sel, status>>
  BY DEF CallerStep, Pop, Popped, Select, Random, Load, Store, Success, Fail, lists, adps
<1>b. SameBlock(e)
  BY <1>s DEF SameBlock, Blocking, EpOf
<1>l. SameLists(e)
  BY <1>s DEF SameLists
<1>u. \A d \in Callers \ {c} : SameCaller(e, d)
  <2>1. \A d \in Callers \ {c} : /\ pc'[d] = pc[d] /\ at'[d] = at[d] /\ needCheck'[d] = needCheck[d]
                                 /\ prober'[d] = prober[d]
    BY <1>t DEF CallerStep, Pop, Popped, Select, Random, Load, Store, Success, Fail, Goto
  <2> QED BY <2>1, SameUnmoved
<1>o. \A d \in Callers : pc[d] \in {"popped", "store", "call"} /\ EpOf(at[d]) = e => at[d] = <<e, 1>>
  BY OneAdapter
<1>f. ASSUME SameCaller(e, c), Waiting(e)' <=> Waiting(e), SameAdapter(e) PROVE EpOk(e)'
  <2>1. SameProbe(e)
    BY <1>u, <1>f DEF SameProbe, SameCaller
  <2> QED BY <1>b, <1>l, <1>f, <2>1, SameEp
<1>n. ASSUME pc[c] # "call" \/ needCheck[c] # TRUE, pc'[c] # "call" \/ needCheck'[c] # TRUE,
             prober'[c] = prober[c]
      PROVE  SameCaller(e, c)
  BY <1>n DEF SameCaller, Trying, Resetting, Adding, EpOf
<1>1. CASE Pop(c)
  <2>1. /\ pc[c] # "call" /\ pc'[c] # "call" /\ prober' = prober
        /\ UNCHANGED <<checkAdapterList, epList>>
    BY <1>t, <1>1 DEF Pop, Goto, adps
  <2> QED BY <1>f, <1>n, <1>s, <2>1 DEF Waiting, SameAdapter
<1>2. CASE Popped(c)
  <2> DEFINE f == EpOf(at[c])
  <2>1. /\ pc[c] = "popped" /\ checkAdapterList' = checkAdapterList \ {f}
        /\ pc'[c] = "call" /\ at'[c] = at[c] /\ UNCHANGED <<needCheck, prober, epList>>
    BY <1>t, <1>2 DEF Popped, Goto, adps
  <2>2. needCheck[c] = TRUE
    BY <2>1 DEF CallersInv
  <2>3. Waiting(f)
    BY <2>1 DEF ProbeOnce, Taken, Waiting
  <2>4. ~Trying(e, c) /\ (Trying(e, c)' <=> f = e)
    BY <2>1, <2>2 DEF Trying, EpOf
  <2>5. (Resetting(e, c)' <=> Resetting(e, c)) /\ (Adding(e, c)' <=> Adding(e, c))
    BY <2>1 DEF Resetting, Adding, EpOf
  <2>6. Waiting(e)' <=> Waiting(e) /\ e # f
    BY <2>1 DEF Waiting
  <2>7. SameAdapter(e)
    BY <1>s, <2>1 DEF SameAdapter
  <2> HIDE DEF f
  <2>8. CASE e # f
    <3>1. SameCaller(e, c)
      BY <2>4, <2>5, <2>8 DEF SameCaller
    <3> QED BY <1>f, <2>6, <2>7, <2>8, <3>1
  <2>9. CASE e = f
    <3>1. /\ Blocked(e) /\ ~Blocking(e)
          /\ \A d \in Callers : ~Trying(e, d) /\ ~Resetting(e, d) /\ ~Adding(e, d)
      BY <2>3, <2>9 DEF EpOk, OneProbe
    <3>2. /\ ~Waiting(e)' /\ Blocked(e)' /\ ~Blocking(e)'
          /\ \A d \in Callers : /\ Trying(e, d)' <=> d = c
                                /\ ~Resetting(e, d)' /\ ~Adding(e, d)'
      <4>1. Blocked(e)' /\ ~Blocking(e)'
        BY <1>b, <2>7, <3>1 DEF Blocked, SameAdapter, SameBlock
      <4>2. \A d \in Callers \ {c} : ~Trying(e, d)' /\ ~Resetting(e, d)' /\ ~Adding(e, d)'
        BY <1>u, <3>1 DEF SameCaller
      <4> QED BY <2>4, <2>5, <2>6, <2>9, <3>1, <4>1, <4>2
    <3>3. OneProbe(e)'
      BY <3>2 DEF OneProbe
    <3>4. InStep(e)'
      <4>1. Unlisted(e)
        BY <3>1 DEF EpOk, InStep
      <4>2. Unlisted(e)'
        BY <1>l, <4>1 DEF Unlisted, SameLists
      <4> QED BY <3>2, <4>2 DEF InStep
    <3>5. NotYet(e)'
      BY <2>7 DEF EpOk, NotYet, SameAdapter
    <3> QED BY <3>3, <3>4, <3>5 DEF EpOk
  <2> QED BY <2>8, <2>9
<1>3. CASE Select(c) \/ Random(c)
  <2>1. /\ pc[c] # "call" /\ pc'[c] # "call" /\ prober' = prober
        /\ UNCHANGED <<checkAdapterList, epList>>
    BY <1>t, <1>3 DEF Select, Random, Goto, adps, probes
  <2> QED BY <1>f, <1>n, <1>s, <2>1 DEF Waiting, SameAdapter
<1>4. CASE Load(c)
  <2>1. /\ pc[c] = "load" /\ prober' = prober /\ needCheck' = needCheck
        /\ UNCHANGED <<checkAdapterList, epList>>
    BY <1>4 DEF Load, probes
  <2>2. needCheck[c] # TRUE
    BY <2>1 DEF CallersInv
  <2> QED BY <1>f, <1>n, <1>s, <2>1, <2>2 DEF Waiting, SameAdapter
<1>5. CASE Store(c)
  <2>1. /\ pc[c] = "store" /\ prober' = prober /\ needCheck' = needCheck
        /\ UNCHANGED checkAdapterList
        /\ epList' = [epList EXCEPT ![EpOf(at[c])] = at[c][2]]
    BY <1>5 DEF Store, probes
  <2>2. needCheck[c] # TRUE /\ SameCaller(e, c)
    BY <1>n, <2>1 DEF CallersInv
  <2>3. Waiting(e)' <=> Waiting(e)
    BY <2>1 DEF Waiting
  <2>4. CASE EpOf(at[c]) # e
    BY <1>f, <1>s, <1>t, <2>1, <2>2, <2>3, <2>4 DEF SameAdapter
  <2>5. CASE EpOf(at[c]) = e
    <3>1. at[c] = <<e, 1>> /\ at[c] \in Adapters /\ 1 <= MaxGen
      BY <1>o, <1>t, <2>1, <2>5, BoundsNat DEF Adapters
    <3>2. epList'[e] = 1
      BY <1>t, <2>1, <2>5, <3>1
    <3>3. CASE epList[e] = 1
      BY <1>f, <1>s, <2>2, <2>3, <3>2, <3>3 DEF SameAdapter
    <3>4. CASE epList[e] = 0
      <4>1. status[<<e, 1>>] = TRUE /\ status'[<<e, 1>>] = TRUE
        BY <1>s, <3>1, <3>4 DEF EpOk, NotYet
      <4>2. ~Blocked(e) /\ ~Blocked(e)'
        BY <4>1 DEF Blocked
      <4>3. /\ ~Waiting(e) /\ ~Blocking(e)
            /\ \A d \in Callers : ~Trying(e, d) /\ ~Resetting(e, d) /\ ~Adding(e, d)
        BY <3>4, <4>2 DEF EpOk, OneProbe
      <4>4. /\ ~Waiting(e)' /\ ~Blocking(e)'
            /\ \A d \in Callers : ~Trying(e, d)' /\ ~Resetting(e, d)' /\ ~Adding(e, d)'
        BY <1>b, <1>u, <2>2, <2>3, <4>3 DEF SameCaller, SameBlock
      <4>5. Listed(e)'
        <5>1. Listed(e)
          BY <4>2, <4>3 DEF EpOk, InStep
        <5> QED BY <1>l, <5>1 DEF Listed, SameLists, Selectors
      <4>6. OneProbe(e)' /\ InStep(e)'
        BY <4>2, <4>4, <4>5 DEF OneProbe, InStep
      <4>7. NotYet(e)'
        BY <3>2 DEF NotYet
      <4> QED BY <4>6, <4>7 DEF EpOk
    <3> QED BY <3>3, <3>4, OneAdapter
  <2> QED BY <2>4, <2>5
<1>6. CASE Success(c) \/ Fail(c)
  <2>1. /\ pc[c] = "call" /\ pc'[c] = "idle" /\ UNCHANGED <<checkAdapterList, epList>>
        /\ prober[c] = NoProber
    BY <1>t, <1>6 DEF Success, Fail, Goto, probes, CallersInv
  <2>2. ~Resetting(e, c) /\ ~Adding(e, c) /\ ~Trying(e, c)'
    BY <2>1 DEF Resetting, Adding, Trying, NoProber
  <2>3. SameAdapter(e) /\ (Waiting(e)' <=> Waiting(e))
    BY <1>s, <2>1 DEF SameAdapter, Waiting
  <2>4. ~Adding(e, c)' /\ (Resetting(e, c)' => Trying(e, c))
    <3>1. CASE Success(c) /\ needCheck[c] = TRUE /\ c \notin OneWay
      <4>1. prober'[c] = [pc |-> "reset", at |-> at[c]]
        BY <1>t, <3>1 DEF Success
      <4> QED BY <2>1, <3>1, <4>1 DEF Adding, Resetting, Trying, EpOf
    <3>2. CASE Fail(c) \/ (Success(c) /\ ~(needCheck[c] = TRUE /\ c \notin OneWay))
      <4>1. prober'[c] = NoProber
        <5>1. needCheck[c] \in BOOLEAN
          BY DEF TypeOK
        <5> QED BY <1>t, <2>1, <3>2, <5>1 DEF Success, Fail
      <4> QED BY <4>1 DEF Adding, Resetting, NoProber
    <3> QED BY <1>6, <3>1, <3>2
  <2>5. CASE ~Trying(e, c)
    <3>1. SameCaller(e, c)
      BY <2>2, <2>4, <2>5 DEF SameCaller
    <3> QED BY <1>f, <2>3, <3>1
  <2>6. CASE Trying(e, c)
    <3>1. /\ Blocked(e) /\ ~Blocking(e) /\ ~Waiting(e)
          /\ \A d \in Callers : ~Resetting(e, d) /\ ~Adding(e, d) /\ (Trying(e, d) => d = c)
      BY <2>6 DEF EpOk, OneProbe
    <3>2. /\ Blocked(e)' /\ ~Blocking(e)' /\ ~Waiting(e)'
          /\ \A d \in Callers : ~Trying(e, d)' /\ ~Adding(e, d)' /\ (Resetting(e, d)' => d = c)
      <4>1. Blocked(e)' /\ ~Blocking(e)' /\ ~Waiting(e)'
        BY <1>b, <2>3, <3>1 DEF Blocked, SameAdapter, SameBlock
      <4>2. \A d \in Callers \ {c} : ~Trying(e, d)' /\ ~Resetting(e, d)' /\ ~Adding(e, d)'
        BY <1>u, <3>1 DEF SameCaller
      <4> QED BY <2>2, <2>4, <4>1, <4>2
    <3>3. Unlisted(e)'
      <4>1. Unlisted(e)
        BY <3>1 DEF EpOk, InStep
      <4> QED BY <1>l, <4>1 DEF Unlisted, SameLists
    <3>4. OneProbe(e)' /\ InStep(e)'
      BY <3>2, <3>3 DEF OneProbe, InStep
    <3>5. NotYet(e)'
      BY <2>3 DEF EpOk, NotYet, SameAdapter
    <3> QED BY <3>4, <3>5 DEF EpOk
  <2> QED BY <2>5, <2>6
<1> QED BY <1>1, <1>2, <1>3, <1>4, <1>5, <1>6 DEF CallerStep

\* The goroutine of a successful probe keeps each endpoint in step.
LEMMA ProberEp ==
  ASSUME TypeOK, Numbers, NEW e \in Eps, made[e] <= 1, EpOk(e), NEW c \in Callers, ProberStep(c)
  PROVE  EpOk(e)'
<1>t. /\ DOMAIN prober = Callers /\ DOMAIN activeEp = Eps /\ DOMAIN status = Adapters
  BY DEF TypeOK
<1>s. UNCHANGED <<chk, epList, checkAdapterList, pc, at, needCheck>>
  BY DEF ProberStep, Reset, AddAliveEp, adps, probes
<1>b. SameBlock(e) /\ (Waiting(e)' <=> Waiting(e))
  BY <1>s DEF SameBlock, Blocking, EpOf, Waiting
<1>u. \A d \in Callers : d # c => SameCaller(e, d)
  <2>1. \A d \in Callers \ {c} : prober'[d] = prober[d]
    BY <1>t DEF ProberStep, Reset, AddAliveEp
  <2> QED BY <1>s, <2>1, SameUnmoved
<1>y. Trying(e, c)' <=> Trying(e, c)
  BY <1>s DEF Trying, EpOf
<1>p. prober[c] # NoProber /\ prober[c] \in [pc : {"reset", "add"}, at : Adapters]
  <2>1. prober[c].pc \in {"reset", "add"}
    BY DEF ProberStep, Reset, AddAliveEp
  <2>2. prober[c] # NoProber
    BY <2>1 DEF NoProber
  <2> QED BY <2>2 DEF TypeOK
<1> DEFINE f == EpOf(prober[c].at)
<1>o. f = e => prober[c].at = <<e, 1>>
  BY <1>p, OneAdapter
<1>1. CASE Reset(c)
  <2>1. /\ prober[c].pc = "reset" /\ prober'[c].pc = "add" /\ prober'[c].at = prober[c].at
        /\ status' = [status EXCEPT ![prober[c].at] = TRUE] /\ UNCHANGED <<activeEp, sel>>
    BY <1>t, <1>p, <1>1 DEF Reset, lists
  <2>2. /\ Resetting(e, c) <=> f = e
        /\ ~Adding(e, c) /\ ~Resetting(e, c)'
        /\ Adding(e, c)' <=> f = e
    BY <2>1 DEF Resetting, Adding, EpOf
  <2>3. SameLists(e)
    BY <2>1 DEF SameLists
  <2>4. CASE f # e
    <3>1. SameCaller(e, c)
      BY <1>y, <2>2, <2>4 DEF SameCaller
    <3>2. SameProbe(e)
      BY <1>b, <1>u, <3>1 DEF SameProbe, SameCaller
    <3>3. prober[c].at # <<e, 1>>
      BY <2>4 DEF EpOf
    <3>4. status'[<<e, 1>>] = status[<<e, 1>>]
      <4>1. <<e, 1>> \in Adapters
        BY <1>p, BoundsNat DEF Adapters
      <4> QED BY <1>t, <2>1, <3>3, <4>1
    <3> QED BY <1>b, <1>s, <2>3, <3>2, <3>4, SameEp DEF SameAdapter
  <2>5. CASE f = e
    <3>1. /\ Blocked(e) /\ ~Blocking(e) /\ ~Waiting(e)
          /\ \A d \in Callers : ~Trying(e, d) /\ ~Adding(e, d) /\ (Resetting(e, d) => d = c)
      BY <2>2, <2>5 DEF EpOk, OneProbe
    <3>2. /\ ~Blocking(e)' /\ ~Waiting(e)'
          /\ \A d \in Callers : /\ ~Trying(e, d)' /\ ~Resetting(e, d)'
                                /\ Adding(e, d)' <=> d = c
      <4>1. \A d \in Callers : d # c => ~Trying(e, d)' /\ ~Resetting(e, d)' /\ ~Adding(e, d)'
        BY <1>u, <3>1 DEF SameCaller
      <4> QED BY <1>b, <1>y, <2>2, <2>5, <3>1, <4>1 DEF SameBlock
    <3>3. epList'[e] = 1 /\ ~Blocked(e)' /\ NotYet(e)'
      <4>1. prober[c].at \in Adapters /\ status'[<<e, 1>>] = TRUE
        BY <1>o, <1>p, <1>t, <2>1, <2>5
      <4> QED BY <1>s, <3>1, <4>1 DEF Blocked, NotYet
    <3>4. Unlisted(e)'
      <4>1. Unlisted(e)
        BY <3>1 DEF EpOk, InStep
      <4> QED BY <2>3, <4>1 DEF Unlisted, SameLists
    <3> QED BY <3>2, <3>3, <3>4 DEF EpOk, OneProbe, InStep
  <2> QED BY <2>4, <2>5
<1>2. CASE AddAliveEp(c)
  <2>1. /\ prober[c].pc = "add" /\ prober'[c] = NoProber /\ UNCHANGED status
        /\ activeEp' = [activeEp EXCEPT ![f] = @ + 1]
        /\ sel' = [s \in Selectors |-> sel[s] \cup {f}]
    BY <1>t, <1>2 DEF AddAliveEp, adps
  <2>2. /\ Adding(e, c) <=> f = e
        /\ ~Resetting(e, c) /\ ~Resetting(e, c)' /\ ~Adding(e, c)'
    BY <2>1 DEF Resetting, Adding, NoProber
  <2>a. SameAdapter(e)
    BY <1>s, <2>1 DEF SameAdapter
  <2> HIDE DEF f
  <2>4. CASE f # e
    <3>1. SameCaller(e, c)
      BY <1>y, <2>2, <2>4 DEF SameCaller
    <3>2. SameProbe(e)
      BY <1>b, <1>u, <3>1 DEF SameProbe, SameCaller
    <3>3. SameLists(e)
      BY <1>t, <2>1, <2>4 DEF SameLists
    <3> QED BY <1>b, <2>a, <3>2, <3>3, SameEp
  <2>5. CASE f = e
    <3>1. /\ ~Blocking(e) /\ ~Waiting(e) /\ epList[e] = 1 /\ Unlisted(e) /\ ~Blocked(e)
          /\ \A d \in Callers : ~Trying(e, d) /\ ~Resetting(e, d) /\ (Adding(e, d) => d = c)
      BY <2>2, <2>5 DEF EpOk, OneProbe, InStep
    <3>2. /\ ~Blocking(e)' /\ ~Waiting(e)' /\ ~Blocked(e)'
          /\ \A d \in Callers : ~Trying(e, d)' /\ ~Resetting(e, d)' /\ ~Adding(e, d)'
      <4>1. \A d \in Callers : d # c => ~Trying(e, d)' /\ ~Resetting(e, d)' /\ ~Adding(e, d)'
        BY <1>u, <3>1 DEF SameCaller
      <4>2. ~Blocked(e)'
        BY <2>a, <3>1 DEF Blocked, SameAdapter
      <4> QED BY <1>b, <1>y, <2>2, <3>1, <4>1, <4>2 DEF SameBlock
    <3>3. Listed(e)'
      BY <1>t, <2>1, <2>5, <3>1 DEF Listed, Unlisted, Selectors
    <3>4. NotYet(e)'
      BY <2>a DEF EpOk, NotYet, SameAdapter
    <3> QED BY <3>2, <3>3, <3>4 DEF EpOk, OneProbe, InStep
  <2> QED BY <2>4, <2>5
<1> QED BY <1>1, <1>2 DEF ProberStep

\* checkStatus keeps each endpoint in step.
LEMMA CheckEp ==
  ASSUME TypeOK, ProbeOnce, Numbers, CallersInv,
         NEW e \in Eps, made[e] <= 1, EpOk(e), DialOk(e), CheckStep, e \notin crossed'
  PROVE  EpOk(e)'
<1>t. /\ DOMAIN status = Adapters /\ DOMAIN activeEp = Eps /\ DOMAIN sel = Selectors
      /\ \/ chk \in [pc : {"idle", "next"}, at : {None}, todo : SUBSET Eps]
         \/ chk \in [pc : {"unlist", "rr", "con", "mod", "dial", "insert"}, at : Adapters,
                     todo : SUBSET Eps]
  BY DEF TypeOK
<1>s. UNCHANGED <<epList, pc, at, needCheck, prober>>
  BY DEF CheckStep, CheckStart, Unlist, CheckSend, Unselect, CheckNothing, CheckBlock, CheckTry,
         CheckNoDial, CheckInsert, adps, callers
<1>u. \A d \in Callers : SameCaller(e, d)
  BY <1>s, SameUnmoved
<1>o. /\ chk.at # None /\ EpOf(chk.at) = e => chk.at = <<e, 1>>
      /\ epList[e] \in {0, 1}
  BY OneAdapter
<1>f. ASSUME Waiting(e)' <=> Waiting(e), UNCHANGED status, SameBlock(e), SameLists(e)
      PROVE  EpOk(e)'
  <2>1. SameProbe(e) /\ SameAdapter(e)
    BY <1>s, <1>u, <1>f DEF SameProbe, SameCaller, SameAdapter
  <2> QED BY <1>f, <2>1, SameEp
\* The place that checkStatus comes to.
<1>k. ASSUME NEW x, Checked(x) PROVE chk'.pc \in {"idle", "next"}
  BY <1>k DEF Checked, Idle
<1>n. ASSUME chk.pc \in {"idle", "next", "dial", "insert"},
             chk'.pc \in {"idle", "next", "dial", "insert"}
      PROVE  SameBlock(e)
  BY <1>n DEF SameBlock, Blocking
<1>1. CASE \/ CheckStart \/ CheckSend \/ CheckNoDial
           \/ \E x \in Eps : CheckNothing(x) \/ CheckTry(x)
  <2>1. UNCHANGED <<status, activeEp, sel, checkAdapterList>>
    BY <1>1 DEF CheckStart, CheckSend, CheckNothing, CheckTry, CheckNoDial, lists, adps, probes
  <2>2. chk.pc \in {"idle", "next", "dial", "insert"} /\ chk'.pc \in {"idle", "next", "dial", "insert"}
    <3>1. CASE CheckStart
      BY <3>1 DEF CheckStart
    <3>2. CASE CheckSend
      BY <3>2 DEF CheckSend, Checked, Idle
    <3>3. CASE CheckNoDial \/ \E x \in Eps : CheckNothing(x)
      BY <1>k, <3>3 DEF CheckNothing, CheckNoDial
    <3>4. CASE \E x \in Eps : CheckTry(x)
      BY <1>t, <3>4 DEF CheckTry
    <3> QED BY <1>1, <3>1, <3>2, <3>3, <3>4
  <2> QED BY <1>f, <1>n, <2>1, <2>2 DEF Waiting, SameLists
<1>2. CASE CheckInsert
  <2> DEFINE x == EpOf(chk.at)
  <2>1. /\ chk.pc = "dial" /\ checkAdapterList' = checkAdapterList \cup {x}
        /\ UNCHANGED <<status, activeEp, sel>>
    BY <1>2 DEF CheckInsert, lists, adps
  <2>2. chk'.pc \in {"idle", "next", "insert"}
    BY <1>k, <1>t, <1>2 DEF CheckInsert
  <2>3. SameBlock(e) /\ SameLists(e)
    BY <1>n, <2>1, <2>2 DEF SameLists
  <2>4. CASE x # e \/ Waiting(e)
    BY <1>f, <2>1, <2>3, <2>4 DEF Waiting
  <2>5. CASE x = e /\ ~Waiting(e)
    <3>1. /\ Blocked(e)
          /\ \A d \in Callers : ~Trying(e, d) /\ ~Resetting(e, d) /\ ~Adding(e, d)
      BY <2>1, <2>5 DEF DialOk, Dialling
    <3>2. ~Blocking(e) /\ ~Blocking(e)'
      BY <2>1, <2>2 DEF Blocking
    <3>3. /\ Waiting(e)' /\ Blocked(e)'
          /\ \A d \in Callers : ~Trying(e, d)' /\ ~Resetting(e, d)' /\ ~Adding(e, d)'
      <4>1. Waiting(e)'
        BY <2>1, <2>5 DEF Waiting
      <4>2. Blocked(e)'
        BY <1>s, <2>1, <3>1 DEF Blocked
      <4> QED BY <1>u, <3>1, <4>1, <4>2 DEF SameCaller
    <3>4. Unlisted(e)' /\ NotYet(e)'
      <4>1. Unlisted(e) /\ NotYet(e)
        BY <3>1, <3>2 DEF EpOk, InStep
      <4> QED BY <1>s, <2>1, <2>3, <4>1 DEF Unlisted, SameLists, NotYet
    <3> QED BY <3>2, <3>3, <3>4 DEF EpOk, OneProbe, InStep
  <2> QED BY <2>4, <2>5
<1>3. ASSUME NEW x \in Eps, CheckBlock(x) PROVE EpOk(e)'
  <2> DEFINE a == <<x, epList[x]>>
  <2>1. /\ chk.pc = "next" /\ epList[x] # 0 /\ MayBlock(a)
        /\ status' = [status EXCEPT ![a] = FALSE] /\ chk' = [chk EXCEPT !.pc = "unlist", !.at = a]
        /\ UNCHANGED <<activeEp, sel, checkAdapterList>>
    BY <1>3 DEF CheckBlock, lists, probes
  <2>2. chk'.pc = "unlist" /\ chk'.at = a
    BY <1>t, <2>1
  <2>3. ~Blocking(e) /\ (Blocking(e)' <=> x = e)
    BY <2>1, <2>2 DEF Blocking, EpOf
  <2>4. (Waiting(e)' <=> Waiting(e)) /\ SameLists(e)
    BY <2>1 DEF Waiting, SameLists
  <2>5. CASE x # e
    <3>0. <<e, 1>> \in Adapters
      <4>1. epList[x] \in 0..MaxGen /\ epList[x] # 0
        BY <2>1 DEF TypeOK
      <4> QED BY <4>1, BoundsNat DEF Adapters
    <3>1. status'[<<e, 1>>] = status[<<e, 1>>]
      BY <1>t, <2>1, <2>5, <3>0
    <3>2. SameProbe(e) /\ SameAdapter(e) /\ SameBlock(e)
      BY <1>s, <1>u, <2>3, <2>4, <2>5, <3>1 DEF SameProbe, SameCaller, SameAdapter, SameBlock
    <3> QED BY <2>4, <3>2, SameEp
  <2>6. CASE x = e
    <3>1. a = <<e, 1>> /\ epList[e] = 1
      BY <1>o, <2>1, <2>6
    <3>2. status[<<e, 1>>] /\ ~Recovering(<<e, 1>>)
      BY <1>3, <2>1, <2>6, <3>1 DEF MayBlock, CheckBlock
    <3>3. ~Blocked(e)
      BY <3>2 DEF Blocked
    <3>4. \A d \in Callers : ~Adding(e, d)
      <4> SUFFICES ASSUME NEW d \in Callers PROVE ~Adding(e, d)
        OBVIOUS
      <4>1. Adding(e, d) => prober[d] # NoProber /\ EpOf(prober[d].at) = e
        BY DEF Adding, NoProber
      <4> QED BY <3>2, <4>1, OneAdapter DEF Recovering
    <3>5. ~Waiting(e) /\ \A d \in Callers : ~Trying(e, d) /\ ~Resetting(e, d)
      BY <3>3 DEF EpOk, OneProbe
    <3>6. Listed(e)
      BY <2>3, <3>3, <3>4 DEF EpOk, InStep
    <3>7. Blocked(e)'
      <4>1. <<e, 1>> \in Adapters
        BY <3>1, BoundsNat DEF TypeOK, Adapters
      <4> QED BY <1>s, <1>t, <2>1, <3>1, <4>1 DEF Blocked
    <3>8. /\ Blocking(e)' /\ ~Waiting(e)'
          /\ \A d \in Callers : ~Trying(e, d)' /\ ~Resetting(e, d)' /\ ~Adding(e, d)'
      BY <1>u, <2>3, <2>4, <2>6, <3>4, <3>5 DEF SameCaller
    <3>9. OneProbe(e)'
      BY <3>7, <3>8 DEF OneProbe
    <3>10. InStep(e)'
      <4>1. activeEp'[e] = 1 /\ e \in sel'["rr"] /\ e \in sel'["con"]
        BY <2>1, <3>6 DEF Listed
      <4> QED BY <2>2, <3>8, <4>1 DEF InStep
    <3>11. NotYet(e)'
      BY <1>s, <3>1 DEF NotYet
    <3> QED BY <3>9, <3>10, <3>11 DEF EpOk
  <2> QED BY <2>5, <2>6
<1>4. ASSUME chk.pc \in {"unlist", "rr", "con", "mod"}, EpOf(chk.at) # e,
             \/ EpOf(chk'.at) # e \/ chk'.pc \in {"idle", "next"},
             UNCHANGED <<status, checkAdapterList>>, SameLists(e)
      PROVE  EpOk(e)'
  <2>1. ~Blocking(e) /\ ~Blocking(e)'
    BY <1>4 DEF Blocking, EpOf
  <2>2. SameBlock(e)
    BY <2>1 DEF SameBlock
  <2> QED BY <1>f, <1>4, <2>2 DEF Waiting
\* checkStatus takes e out: what stays as it is on the way.
<1>5. ASSUME Blocking(e), UNCHANGED <<status, checkAdapterList>>
      PROVE  /\ NotYet(e)' /\ Blocked(e)' /\ ~Waiting(e)'
             /\ \A d \in Callers : ~Trying(e, d)' /\ ~Resetting(e, d)' /\ ~Adding(e, d)'
             /\ OneProbe(e)'
  <2>1. /\ Blocked(e) /\ ~Waiting(e) /\ NotYet(e)
        /\ \A d \in Callers : ~Trying(e, d) /\ ~Resetting(e, d) /\ ~Adding(e, d)
    BY <1>5 DEF EpOk, OneProbe
  <2>2. Blocked(e)' /\ ~Waiting(e)' /\ NotYet(e)'
    BY <1>s, <1>5, <2>1 DEF Blocked, Waiting, NotYet
  <2>3. \A d \in Callers : ~Trying(e, d)' /\ ~Resetting(e, d)' /\ ~Adding(e, d)'
    BY <1>u, <2>1 DEF SameCaller
  <2> QED BY <2>2, <2>3 DEF OneProbe
<1>6. CASE Unlist
  <2> DEFINE f == EpOf(chk.at)
  <2>1. /\ chk.pc = "unlist" /\ chk'.pc = "rr" /\ chk'.at = chk.at
        /\ activeEp' = [activeEp EXCEPT ![f] = IF @ = 0 THEN 0 ELSE @ - 1]
        /\ UNCHANGED <<sel, status, checkAdapterList>>
    BY <1>t, <1>6 DEF Unlist, adps, probes
  <2>2. CASE f # e
    <3>1. SameLists(e)
      BY <1>t, <2>1, <2>2 DEF SameLists
    <3> QED BY <1>4, <2>1, <2>2, <3>1
  <2>3. CASE f = e
    <3>1. Blocking(e) /\ Blocking(e)'
      BY <2>1, <2>3 DEF Blocking, EpOf
    <3>2. activeEp[e] = 1 /\ e \in sel["rr"] /\ e \in sel["con"]
      BY <2>1, <3>1 DEF EpOk, InStep
    <3>3. activeEp'[e] = 0
      BY <1>t, <2>1, <2>3, <3>2
    <3>4. InStep(e)'
      BY <2>1, <3>1, <3>2, <3>3 DEF InStep
    <3> QED BY <1>5, <2>1, <3>1, <3>4 DEF EpOk
  <2> QED BY <2>2, <2>3
<1>7. ASSUME NEW s \in Selectors, Unselect(s) PROVE EpOk(e)'
  <2> DEFINE f == EpOf(chk.at)
  <2>1. /\ chk.pc = s /\ sel' = [sel EXCEPT ![s] = @ \ {f}]
        /\ UNCHANGED <<activeEp, status, checkAdapterList>>
    BY <1>7 DEF Unselect, adps, probes
  <2>2. /\ s = "rr" => chk'.pc = "con" /\ chk'.at = chk.at
        /\ s = "con" => chk'.pc = "mod" /\ chk'.at = chk.at
        /\ s = "mod" => chk'.pc \in {"idle", "next"}
    <3>1. CASE s = "rr" \/ s = "con"
      BY <1>t, <1>7, <2>1, <3>1 DEF Unselect
    <3>2. CASE s = "mod"
      BY <1>7, <3>2 DEF Unselect, Checked, Idle
    <3> QED BY <3>1, <3>2
  <2>3. s \in {"rr", "con", "mod"}
    BY DEF Selectors
  <2>4. CASE f # e
    <3>1. SameLists(e)
      BY <1>t, <2>1, <2>4 DEF SameLists
    <3> QED BY <1>4, <2>1, <2>2, <2>3, <2>4, <3>1
  <2>5. CASE f = e
    <3>1. Blocking(e)
      BY <2>1, <2>3, <2>5 DEF Blocking
    <3>2. /\ activeEp[e] = 0
          /\ s # "rr" => e \notin sel["rr"]
          /\ s = "rr" => e \in sel["con"]
          /\ s = "mod" => e \notin sel["con"]
      BY <2>1, <2>3, <3>1 DEF EpOk, InStep
    <3>3. activeEp'[e] = 0 /\ e \notin sel'[s] /\ \A r \in Selectors : r # s => sel'[r] = sel[r]
      BY <1>t, <2>1, <2>5, <3>1, <2>3 DEF EpOk, InStep
    <3>4. InStep(e)'
      <4>1. CASE s = "mod"
        <5>1. ~Blocking(e)' /\ Blocked(e)' /\ \A d \in Callers : ~Adding(e, d)'
          BY <1>5, <2>1, <2>2, <3>1, <4>1 DEF Blocking
        <5>2. Unlisted(e)'
          BY <3>2, <3>3, <4>1 DEF Unlisted, Selectors
        <5> QED BY <5>1, <5>2 DEF InStep
      <4>2. CASE s = "rr"
        <5>1. Blocking(e)' /\ chk'.pc = "con"
          BY <2>2, <2>5, <4>2 DEF Blocking, EpOf
        <5>2. e \notin sel'["rr"] /\ e \in sel'["con"]
          BY <3>2, <3>3, <4>2 DEF Selectors
        <5> QED BY <3>3, <5>1, <5>2 DEF InStep
      <4>3. CASE s = "con"
        <5>1. Blocking(e)' /\ chk'.pc = "mod"
          BY <2>2, <2>5, <4>3 DEF Blocking, EpOf
        <5>2. e \notin sel'["rr"] /\ e \notin sel'["con"]
          BY <3>2, <3>3, <4>3 DEF Selectors
        <5> QED BY <3>3, <5>1, <5>2 DEF InStep
      <4> QED BY <2>3, <4>1, <4>2, <4>3
    <3> QED BY <1>5, <2>1, <3>1, <3>4 DEF EpOk
  <2> QED BY <2>4, <2>5
<1> QED BY <1>1, <1>2, <1>3, <1>6, <1>7 DEF CheckStep

\* A call during the dial takes no probe of the endpoint that is dialled.
LEMMA CallerDial ==
  ASSUME TypeOK, Numbers, CallersInv, NEW e \in Eps, made[e] <= 1, DialOk(e),
         NEW c \in Callers, CallerStep(c), e \notin crossed'
  PROVE  DialOk(e)'
<1>t. /\ DOMAIN pc = Callers /\ DOMAIN at = Callers /\ DOMAIN needCheck = Callers
      /\ DOMAIN prober = Callers /\ epList \in [Eps -> Nat]
  BY BoundsNat DEF TypeOK
<1>s. UNCHANGED <<chk, status>>
  BY DEF CallerStep, Pop, Popped, Select, Random, Load, Store, Success, Fail, adps
<1> SUFFICES ASSUME Dialling(e)' PROVE /\ Blocked(e)'
                                       /\ \A d \in Callers : /\ ~Popping(e, d)' /\ ~Trying(e, d)'
                                                             /\ ~Resetting(e, d)' /\ ~Adding(e, d)'
  BY DEF DialOk
<1>1. /\ Dialling(e) /\ Blocked(e)
      /\ \A d \in Callers : ~Popping(e, d) /\ ~Trying(e, d) /\ ~Resetting(e, d) /\ ~Adding(e, d)
  <2>1. Dialling(e)
    BY <1>s DEF Dialling, EpOf
  <2> QED BY <2>1 DEF DialOk
<1>2. chk.at = <<e, 1>>
  <2>1. chk.at \in Adapters
    BY <1>1 DEF Dialling, TypeOK
  <2> QED BY <1>1, <2>1, NoneAssumption, OneAdapter DEF Dialling
<1>3. Blocked(e)'
  <2>1. CASE Store(c)
    <3>1. pc[c] = "store" /\ epList' = [epList EXCEPT ![EpOf(at[c])] = at[c][2]]
      BY <2>1 DEF Store
    <3>2. epList'[e] = 1
      <4>1. CASE EpOf(at[c]) = e
        <5>1. at[c] = <<e, 1>>
          BY <3>1, <4>1, OneAdapter
        <5> QED BY <1>t, <3>1, <4>1, <5>1
      <4>2. CASE EpOf(at[c]) # e
        BY <1>1, <1>t, <3>1, <4>2 DEF Blocked
      <4> QED BY <4>1, <4>2
    <3> QED BY <1>1, <1>s, <3>2 DEF Blocked
  <2>2. CASE ~Store(c)
    <3>1. UNCHANGED epList
      BY <2>2 DEF CallerStep, Pop, Popped, Select, Random, Load, Success, Fail, adps
    <3> QED BY <1>1, <1>s, <3>1 DEF Blocked
  <2> QED BY <2>1, <2>2
<1>4. ASSUME NEW d \in Callers \ {c}
      PROVE  ~Popping(e, d)' /\ ~Trying(e, d)' /\ ~Resetting(e, d)' /\ ~Adding(e, d)'
  <2>1. pc'[d] = pc[d] /\ at'[d] = at[d] /\ needCheck'[d] = needCheck[d] /\ prober'[d] = prober[d]
    BY <1>t DEF CallerStep, Pop, Popped, Select, Random, Load, Store, Success, Fail, Goto
  <2> QED BY <1>1, <2>1 DEF Popping, Trying, Resetting, Adding, EpOf
<1>5. ASSUME prober'[c] = prober[c] PROVE ~Resetting(e, c)' /\ ~Adding(e, c)'
  BY <1>1, <1>5 DEF Resetting, Adding, EpOf
<1>6. ~Popping(e, c)' /\ ~Trying(e, c)' /\ ~Resetting(e, c)' /\ ~Adding(e, c)'
  <2>1. CASE Pop(c)
    <3>1. /\ pc'[c] = "popped" /\ at'[c] = Head(checkAdapter) /\ prober'[c] = prober[c]
          /\ checkAdapter # <<>>
      BY <1>t, <2>1 DEF Pop, Goto
    <3>2. /\ Head(checkAdapter) \in Adapters
          /\ Head(checkAdapter)[2] <= made[EpOf(Head(checkAdapter))]
      <4>1. checkAdapter \in Seq(Adapters)
        BY DEF TypeOK
      <4>2. Head(checkAdapter) = checkAdapter[1] /\ 1 \in DOMAIN checkAdapter
        BY <3>1, <4>1
      <4> QED BY <4>1, <4>2 DEF Numbers
    <3>3. EpOf(Head(checkAdapter)) # e
      <4> SUFFICES ASSUME EpOf(Head(checkAdapter)) = e PROVE FALSE
        OBVIOUS
      <4>1. Head(checkAdapter) = <<e, 1>>
        <5>1. made[e] \in Nat
          BY BoundsNat DEF TypeOK
        <5>2. Head(checkAdapter) \in Eps \X (1..MaxGen) /\ Head(checkAdapter)[1] = e
          BY <3>2 DEF Adapters, EpOf
        <5>3. Head(checkAdapter)[2] = 1
          BY <3>2, <5>1, <5>2, BoundsNat
        <5> QED BY <5>2, <5>3
      <4> QED BY <1>1, <1>2, <2>1, <4>1 DEF Pop, Dialling, EpOf
    <3> QED BY <1>5, <3>1, <3>3 DEF Popping, Trying, EpOf
  <2>2. CASE Popped(c)
    <3>1. /\ pc[c] = "popped" /\ pc'[c] = "call" /\ at'[c] = at[c] /\ prober'[c] = prober[c]
      BY <1>t, <2>2 DEF Popped, Goto
    <3>2. EpOf(at[c]) # e
      BY <1>1, <3>1 DEF Popping
    <3> QED BY <1>5, <3>1, <3>2 DEF Popping, Trying, EpOf
  <2>3. CASE Select(c)
    BY <1>5, <1>t, <2>3 DEF Select, Goto, Popping, Trying
  <2>4. CASE Random(c) \/ Load(c) \/ Store(c)
    <3>1. /\ pc[c] \in {"random", "load", "store"} /\ needCheck'[c] = needCheck[c]
          /\ pc'[c] # "popped" /\ prober'[c] = prober[c]
      BY <1>t, <2>4 DEF Random, Load, Store, Goto
    <3>2. needCheck[c] # TRUE
      BY <3>1 DEF CallersInv
    <3> QED BY <1>5, <3>1, <3>2 DEF Popping, Trying
  <2>5. CASE Success(c) \/ Fail(c)
    <3>1. pc[c] = "call" /\ pc'[c] = "idle" /\ prober[c] = NoProber
      BY <1>t, <2>5 DEF Success, Fail, Goto, CallersInv
    <3>2. CASE Success(c) /\ needCheck[c] = TRUE /\ c \notin OneWay
      <4>1. prober'[c].at = at[c]
        BY <1>t, <3>2 DEF Success
      <4>2. EpOf(at[c]) # e
        BY <1>1, <3>1, <3>2 DEF Trying
      <4> QED BY <3>1, <4>1, <4>2 DEF Popping, Trying, Resetting, Adding, EpOf
    <3>3. CASE ~(Success(c) /\ needCheck[c] = TRUE /\ c \notin OneWay)
      <4>1. prober'[c] = NoProber
        <5>1. needCheck[c] \in BOOLEAN
          BY DEF TypeOK
        <5> QED BY <1>t, <2>5, <3>1, <3>3, <5>1 DEF Success, Fail
      <4> QED BY <3>1, <4>1 DEF Popping, Trying, Resetting, Adding, NoProber
    <3> QED BY <3>2, <3>3
  <2> QED BY <2>1, <2>2, <2>3, <2>4, <2>5 DEF CallerStep
<1> QED BY <1>3, <1>4, <1>6

\* The goroutine of a probe is of another endpoint than the one that is dialled.
LEMMA ProberDial ==
  ASSUME TypeOK, NEW e \in Eps, DialOk(e), NEW c \in Callers, ProberStep(c)
  PROVE  DialOk(e)'
<1>t. DOMAIN prober = Callers /\ DOMAIN status = Adapters
  BY DEF TypeOK
<1>s. UNCHANGED <<chk, epList, pc, at, needCheck>>
  BY DEF ProberStep, Reset, AddAliveEp, adps
<1> SUFFICES ASSUME Dialling(e)' PROVE /\ Blocked(e)'
                                       /\ \A d \in Callers : /\ ~Popping(e, d)' /\ ~Trying(e, d)'
                                                             /\ ~Resetting(e, d)' /\ ~Adding(e, d)'
  BY DEF DialOk
<1>1. /\ Blocked(e)
      /\ \A d \in Callers : ~Popping(e, d) /\ ~Trying(e, d) /\ ~Resetting(e, d) /\ ~Adding(e, d)
  <2>1. Dialling(e)
    BY <1>s DEF Dialling, EpOf
  <2> QED BY <2>1 DEF DialOk
<1>2. prober[c].pc \in {"reset", "add"} /\ EpOf(prober[c].at) # e
  BY <1>1 DEF ProberStep, Reset, AddAliveEp, Resetting, Adding
<1>3. status'[<<e, 1>>] = status[<<e, 1>>]
  <2>1. prober[c].at # <<e, 1>>
    BY <1>2 DEF EpOf
  <2>2. <<e, 1>> \in Adapters
    <3>1. prober[c].at \in Adapters
      BY <1>2 DEF TypeOK, NoProber
    <3> QED BY <3>1, BoundsNat DEF Adapters
  <2>3. CASE Reset(c)
    BY <1>t, <2>1, <2>2, <2>3 DEF Reset
  <2>4. CASE AddAliveEp(c)
    BY <2>4 DEF AddAliveEp, adps
  <2> QED BY <2>3, <2>4 DEF ProberStep
<1>4. \A d \in Callers : ~Resetting(e, d)' /\ ~Adding(e, d)'
  <2>1. \A d \in Callers \ {c} : prober'[d] = prober[d]
    BY <1>t DEF ProberStep, Reset, AddAliveEp
  <2>2. prober'[c] = NoProber \/ prober'[c].at = prober[c].at
    <3>1. prober[c] \in [pc : {"reset", "add"}, at : Adapters]
      BY <1>2 DEF TypeOK, NoProber
    <3> QED BY <1>t, <3>1 DEF ProberStep, Reset, AddAliveEp
  <2> QED BY <1>1, <1>2, <2>1, <2>2 DEF Resetting, Adding, EpOf, NoProber
<1> QED BY <1>1, <1>3, <1>4, <1>s DEF Blocked, Popping, Trying, EpOf

\* checkStatus dials while no probe of the endpoint is under way.
LEMMA CheckDial ==
  ASSUME TypeOK, Numbers, CallersInv, NEW e \in Eps, made[e] <= 1, CheckStep, e \notin crossed'
  PROVE  DialOk(e)'
<1>t. \/ chk \in [pc : {"idle", "next"}, at : {None}, todo : SUBSET Eps]
      \/ chk \in [pc : {"unlist", "rr", "con", "mod", "dial", "insert"}, at : Adapters,
                  todo : SUBSET Eps]
  BY DEF TypeOK
<1>1. ASSUME NEW x, Checked(x) PROVE chk'.pc # "dial"
  BY <1>1 DEF Checked, Idle
<1>2. CASE ~\E x \in Eps : CheckTry(x)
  <2>1. chk'.pc # "dial"
    <3>1. CASE CheckStart \/ Unlist \/ CheckInsert
      BY <1>1, <1>t, <3>1 DEF CheckStart, Unlist, CheckInsert
    <3>2. CASE CheckNoDial \/ CheckSend \/ \E x \in Eps : CheckNothing(x)
      BY <1>1, <3>2 DEF CheckNoDial, CheckSend, CheckNothing
    <3>3. ASSUME NEW x \in Eps, CheckBlock(x) PROVE chk'.pc # "dial"
      BY <1>t, <3>3 DEF CheckBlock
    <3>4. ASSUME NEW s \in Selectors, Unselect(s) PROVE chk'.pc # "dial"
      BY <1>1, <1>t, <3>4 DEF Unselect, Selectors
    <3> QED BY <1>2, <3>1, <3>2, <3>3, <3>4 DEF CheckStep
  <2> QED BY <2>1 DEF DialOk, Dialling
<1>3. ASSUME NEW x \in Eps, CheckTry(x) PROVE DialOk(e)'
  <2> DEFINE a == <<x, epList[x]>>
  <2>1. /\ epList[x] # 0 /\ MayTry(a) /\ chk' = [chk EXCEPT !.pc = "dial", !.at = a]
        /\ UNCHANGED <<epList, status, pc, at, needCheck, prober>>
    BY <1>3 DEF CheckTry, adps, callers
  <2>2. chk'.at = a
    BY <1>t, <2>1
  <2>3. CASE x # e
    BY <2>2, <2>3 DEF DialOk, Dialling, EpOf
  <2>4. CASE x = e
    <3>1. a = <<e, 1>> /\ epList[e] = 1
      BY <2>1, <2>4, OneAdapter
    <3>2. Blocked(e)'
      <4>1. <<e, 1>> \in Adapters
        BY <3>1, BoundsNat DEF TypeOK, Adapters
      <4>2. status[<<e, 1>>] \in BOOLEAN
        BY <4>1 DEF TypeOK
      <4> QED BY <2>1, <3>1, <4>2 DEF Blocked, MayTry
    <3>3. ~Probing(<<e, 1>>)
      BY <1>3, <2>4, <3>1 DEF CheckTry
    <3>4. ASSUME NEW d \in Callers
          PROVE  ~Popping(e, d) /\ ~Trying(e, d) /\ ~Resetting(e, d) /\ ~Adding(e, d)
      <4>1. ~Popping(e, d)
        BY <3>3, OneAdapter DEF Popping, Probing, CallersInv
      <4>2. ~Trying(e, d)
        BY <3>3, OneAdapter DEF Trying, Probing
      <4>3. Resetting(e, d) \/ Adding(e, d) => prober[d] # NoProber /\ EpOf(prober[d].at) = e
        BY DEF Resetting, Adding, NoProber
      <4> QED BY <3>3, <4>1, <4>2, <4>3, OneAdapter DEF Probing, Recovering
    <3> QED BY <2>1, <3>2, <3>4 DEF DialOk, Popping, Trying, Resetting, Adding, EpOf
  <2> QED BY <2>3, <2>4
<1> QED BY <1>2, <1>3

\* A list that has just been installed, or was there at the start: nobody has
\* called yet.
LEMMA FirstList ==
  ASSUME NEW e \in Eps, epList[e] = 0, checkAdapterList = {}, chk.pc = "idle",
         \A a \in Adapters : status[a] = TRUE,
         \A c \in Callers : pc[c] = "idle" /\ prober[c] = NoProber,
         Listed(e)
  PROVE  EpOk(e) /\ DialOk(e)
<1>1. ~Waiting(e) /\ ~Blocking(e) /\ ~Blocked(e) /\ ~Dialling(e)
  BY DEF Waiting, Blocking, Blocked, Dialling
<1>2. \A c \in Callers : ~Trying(e, c) /\ ~Resetting(e, c) /\ ~Adding(e, c)
  BY DEF Trying, Resetting, Adding, NoProber
<1>3. NotYet(e)
  <2>1. 1 <= MaxGen => <<e, 1>> \in Adapters
    BY BoundsNat DEF Adapters
  <2> QED BY <2>1 DEF NotYet
<1>4. OneProbe(e) /\ InStep(e)
  BY <1>1, <1>2 DEF OneProbe, InStep
<1> QED BY <1>1, <1>3, <1>4 DEF EpOk, DialOk

\* GetManager has a list, or none.
LEMMA InitStep == QuietHypothesis /\ Init => StepInv
<1> SUFFICES ASSUME QuietHypothesis, Init PROVE StepInv
  OBVIOUS
<1>1. \A e \in Eps : registry[e] = "active"
  BY DEF Init
<1>2. Numbers
  BY DEF Init, Numbers, Idle
<1>3. CallersInv
  BY DEF Init, CallersInv
<1>4. /\ checkAdapter = <<>> /\ checkAdapterList = {} /\ chk.pc = "idle" /\ fresh.pc = "idle"
      /\ \A e \in Eps : epList[e] = 0
      /\ \A a \in Adapters : status[a] = TRUE
      /\ \A c \in Callers : pc[c] = "idle" /\ prober[c] = NoProber
  BY DEF Init, Idle, NotFresh
<1>5. \/ activeEpf = {}
      \/ activeEpf = Eps /\ \A s \in {"rr", "con"} : sel[s] = Eps
  <2>1. ActiveIn(registry) = Eps
    BY <1>1 DEF ActiveIn
  <2>2. activeEpf \in Caches => activeEpf = Eps
    BY DEF QuietHypothesis
  <2> QED BY <2>1, <2>2 DEF Init, Selectors
<1>6. CASE activeEpf = {}
  BY <1>1, <1>2, <1>3, <1>4, <1>6 DEF StepInv, Starting
<1>7. CASE activeEpf = Eps /\ \A s \in {"rr", "con"} : sel[s] = Eps
  <2>1. ASSUME NEW e \in Eps PROVE EpOk(e) /\ DialOk(e)
    <3>1. Listed(e)
      BY <1>7 DEF Init, Listed
    <3> QED BY <1>4, <3>1, FirstList
  <2>2. \A e \in Eps : EpInv(e)
    BY <2>1 DEF EpInv
  <2> QED BY <1>1, <1>2, <1>3, <1>4, <1>7, <2>2 DEF StepInv, Started
<1> QED BY <1>5, <1>6, <1>7

\* The registry says the same after every step.
LEMMA SameRegistry ==
  ASSUME QuietHypothesis, TypeOK, [Next]_vars PROVE UNCHANGED registry /\ ~RegistryChange
<1>1. ~RegistryChange
  <2>1. changes \in 0..0
    BY DEF TypeOK, QuietHypothesis
  <2> QED BY <2>1 DEF RegistryChange, QuietHypothesis
<1>2. ASSUME NEW c \in Callers, CallerStep(c) \/ ProberStep(c) PROVE UNCHANGED registry
  BY <1>2 DEF CallerStep, ProberStep, Pop, Popped, Select, Random, Load, Store, Success, Fail, Reset,
              AddAliveEp, env
<1>3. ASSUME CheckStep PROVE UNCHANGED registry
  BY <1>3 DEF CheckStep, CheckStart, Unlist, CheckSend, Unselect, CheckNothing, CheckBlock, CheckTry,
              CheckNoDial, CheckInsert, env
<1>4. ASSUME FreshStep \/ UNCHANGED vars PROVE UNCHANGED registry
  BY <1>4 DEF FreshStep, Find, PruneDelete, Install, PruneClose, Build, env, vars
<1> QED BY <1>1, <1>2, <1>3, <1>4 DEF Next

\* Until there is a list only the refresh goes on, and it installs all the endpoints.
LEMMA NextStarting ==
  ASSUME QuietHypothesis, TypeOK, \A e \in Eps : registry[e] = "active", Starting, [Next]_vars
  PROVE  Starting' \/ Started'
<1>1. \A c \in Callers : ~CallerStep(c)
  BY DEF Starting, CallerStep, Pop, Popped, Select, Random, Load, Store, Success, Fail
<1>2. \A c \in Callers : ~ProberStep(c)
  BY DEF Starting, ProberStep, Reset, AddAliveEp, NoProber
<1>3. ~CheckStep
  BY DEF Starting, CheckStep, CheckStart, Unlist, CheckSend, Unselect, CheckNothing, CheckBlock,
         CheckTry, CheckNoDial, CheckInsert, Selectors
<1>4. CASE UNCHANGED vars
  BY <1>4 DEF Starting, vars, lists, adps, probes, callers
<1>5. CASE Find
  <2>1. ActiveIn(registry) = Eps /\ {e \in Eps : epList[e] # 0 /\ registry[e] = "gone"} = {}
    BY DEF ActiveIn
  <2>2. fresh'.pc = "build" /\ fresh'.new = Eps /\ fresh'.sorted = {} /\ fresh'.todo = Eps
    BY <1>5, <2>1 DEF Find, Pruning
  <2>3. UNCHANGED <<lists, adps, probes, callers, chk>>
    BY <1>5 DEF Find
  <2> QED BY <2>2, <2>3 DEF Starting, lists, adps, probes, callers
<1>6. ASSUME NEW e \in Eps, Build(e) PROVE Starting'
  <2>1. /\ fresh.pc = "build" /\ e \in fresh.todo /\ epList[e] = 0
        /\ fresh.new = Eps /\ fresh.sorted = Eps \ fresh.todo
    BY <1>6 DEF Starting, Build
  <2>2. fresh \in [pc : {"idle", "prune", "build"}, at : {None}, todo : SUBSET Eps,
                   new : SUBSET Eps, sorted : SUBSET Eps]
    BY <2>1 DEF TypeOK
  <2>3. /\ fresh'.pc = "build" /\ fresh'.new = Eps /\ fresh'.todo = fresh.todo \ {e}
        /\ fresh'.sorted = fresh.sorted \cup {e}
    BY <1>6, <2>1, <2>2 DEF Build
  <2>4. fresh'.sorted = Eps \ fresh'.todo
    BY <2>1, <2>3
  <2>5. UNCHANGED <<lists, adps, probes, callers, chk>>
    BY <1>6 DEF Build
  <2> QED BY <2>3, <2>4, <2>5 DEF Starting, lists, adps, probes, callers
<1>7. CASE Install
  <2>1. /\ fresh.new = Eps /\ fresh.sorted = Eps
    BY <1>7 DEF Starting, Install
  <2>2. UNCHANGED <<epList, checkAdapterList, chk, status, pc, prober>>
    BY <1>7 DEF Install, adps, probes, callers
  <2>3. activeEpf' = Eps /\ fresh'.pc = "idle"
    BY <1>7, <2>1 DEF Install, NotFresh
  <2>4. ASSUME NEW e \in Eps PROVE EpOk(e)' /\ DialOk(e)'
    <3>1. activeEp'[e] = 1 /\ e \in sel'["rr"] /\ e \in sel'["con"]
      BY <1>7, <2>1 DEF Install, Selectors
    <3>2. /\ epList'[e] = 0 /\ checkAdapterList' = {} /\ chk'.pc = "idle"
          /\ \A a \in Adapters : status'[a] = TRUE
          /\ \A c \in Callers : pc'[c] = "idle" /\ prober'[c] = NoProber
      BY <2>2 DEF Starting
    <3>3. ~Waiting(e)' /\ ~Blocking(e)' /\ ~Blocked(e)' /\ ~Dialling(e)' /\ Listed(e)'
      BY <3>1, <3>2 DEF Waiting, Blocking, Blocked, Dialling, Listed
    <3>4. \A c \in Callers : ~Trying(e, c)' /\ ~Resetting(e, c)' /\ ~Adding(e, c)'
      BY <3>2 DEF Trying, Resetting, Adding, NoProber
    <3>5. NotYet(e)'
      <4>1. 1 <= MaxGen => <<e, 1>> \in Adapters
        BY BoundsNat DEF Adapters
      <4> QED BY <3>2, <4>1 DEF NotYet
    <3>6. OneProbe(e)' /\ InStep(e)'
      BY <3>3, <3>4 DEF OneProbe, InStep
    <3> QED BY <3>3, <3>5, <3>6 DEF EpOk, DialOk
  <2>5. \A e \in Eps : EpInv(e)'
    BY <2>4 DEF EpInv
  <2> QED BY <2>3, <2>5 DEF Started
<1>8. ~PruneDelete /\ \A e \in Eps : ~PruneClose(e)
  BY DEF Starting, PruneDelete, PruneClose
<1> QED BY <1>1, <1>2, <1>3, <1>4, <1>5, <1>6, <1>7, <1>8, SameRegistry DEF Next, FreshStep

\* Once there is one it stays, and its endpoints stay in step.
LEMMA NextStarted ==
  ASSUME QuietHypothesis, TypeOK, ProbeOnce, Numbers, CallersInv,
         \A e \in Eps : registry[e] = "active", Started, [Next]_vars
  PROVE  Started'
<1>1. ~FreshStep
  <2>1. ActiveIn(registry) = Eps
    BY DEF ActiveIn
  <2> QED BY <2>1 DEF Started, FreshStep, Find, PruneDelete, Install, PruneClose, Build
<1>2. \/ CheckStep \/ UNCHANGED vars
      \/ \E c \in Callers : CallerStep(c) \/ ProberStep(c)
  BY <1>1, SameRegistry DEF Next
<1>3. UNCHANGED <<activeEpf, fresh>>
  <2>1. ASSUME NEW c \in Callers, CallerStep(c) \/ ProberStep(c) PROVE UNCHANGED <<activeEpf, fresh>>
    BY <2>1 DEF CallerStep, ProberStep, Pop, Popped, Select, Random, Load, Store, Success, Fail, Reset,
                AddAliveEp, lists
  <2>2. CASE CheckStep \/ UNCHANGED vars
    BY <2>2 DEF CheckStep, CheckStart, Unlist, CheckSend, Unselect, CheckNothing, CheckBlock, CheckTry,
                CheckNoDial, CheckInsert, lists, vars
  <2> QED BY <1>2, <2>1, <2>2
<1>4. ASSUME NEW e \in Eps PROVE made[e] <= made'[e] /\ made[e] \in Nat /\ made'[e] \in Nat
  <2>1. made \in [Eps -> Nat]
    BY BoundsNat DEF TypeOK
  <2>2. ASSUME NEW c \in Callers, Load(c) PROVE made[e] <= made'[e] /\ made'[e] \in Nat
    <3>1. EpOf(at[c]) \in Eps
      BY <2>2 DEF Load, TypeOK, EpOf
    <3> QED BY <2>1, <2>2, <3>1 DEF Load
  <2>3. ASSUME NEW c \in Callers, CallerStep(c) \/ ProberStep(c), ~Load(c) PROVE UNCHANGED made
    BY <2>3 DEF CallerStep, ProberStep, Pop, Popped, Select, Random, Store, Success, Fail, Reset,
                AddAliveEp, adps
  <2>4. CASE CheckStep \/ UNCHANGED vars
    <3>1. UNCHANGED made
      BY <2>4 DEF CheckStep, CheckStart, Unlist, CheckSend, Unselect, CheckNothing, CheckBlock, CheckTry,
                  CheckNoDial, CheckInsert, adps, vars
    <3> QED BY <2>1, <3>1
  <2> QED BY <1>2, <2>1, <2>2, <2>3, <2>4
<1>6. crossed \subseteq crossed'
  <2>1. ASSUME NEW c \in Callers, CallerStep(c) \/ ProberStep(c) PROVE crossed \subseteq crossed'
    BY <2>1 DEF CallerStep, ProberStep, Pop, Popped, Select, Random, Load, Store, Success, Fail, Reset,
                AddAliveEp
  <2>2. CASE CheckStep \/ UNCHANGED vars
    BY <2>2 DEF CheckStep, CheckStart, Unlist, CheckSend, Unselect, CheckNothing, CheckBlock, CheckTry,
                CheckNoDial, CheckInsert, vars
  <2> QED BY <1>2, <2>1, <2>2
<1>5. ASSUME NEW e \in Eps PROVE EpInv(e)'
  <2> SUFFICES ASSUME made'[e] <= 1, e \notin crossed' PROVE EpOk(e)' /\ DialOk(e)'
    BY DEF EpInv
  <2>1. made[e] <= 1 /\ e \notin crossed
    BY <1>4, <1>6
  <2>2. EpOk(e) /\ DialOk(e)
    BY <2>1 DEF Started, EpInv
  <2>3. ASSUME NEW c \in Callers, CallerStep(c) PROVE EpOk(e)' /\ DialOk(e)'
    BY <2>1, <2>2, <2>3, CallerEp, CallerDial
  <2>4. ASSUME NEW c \in Callers, ProberStep(c) PROVE EpOk(e)' /\ DialOk(e)'
    BY <2>1, <2>2, <2>4, ProberEp, ProberDial
  <2>5. CASE CheckStep
    BY <2>1, <2>2, <2>5, CheckEp, CheckDial
  <2>6. CASE UNCHANGED vars
    <3>1. UNCHANGED <<activeEp, sel, epList, status, checkAdapterList, pc, at, needCheck, prober, chk>>
      BY <2>6 DEF vars, lists, adps, probes, callers
    <3>2. \A c \in Callers : SameCaller(e, c)
      BY <3>1, SameUnmoved
    <3>3. Waiting(e)' <=> Waiting(e)
      BY <3>1 DEF Waiting
    <3>4. SameProbe(e)
      BY <3>2, <3>3 DEF SameProbe, SameCaller
    <3>5. SameBlock(e)
      BY <3>1 DEF SameBlock, Blocking, EpOf
    <3>6. SameAdapter(e) /\ SameLists(e)
      BY <3>1 DEF SameAdapter, SameLists
    <3>7. DialOk(e)'
      BY <2>2, <3>1 DEF DialOk, Dialling, Blocked, Popping, Trying, Resetting, Adding, EpOf
    <3> QED BY <2>2, <3>4, <3>5, <3>6, <3>7, SameEp
  <2> QED BY <1>2, <2>3, <2>4, <2>5, <2>6
<1> QED BY <1>3, <1>5 DEF Started

\* The inductive step.
LEMMA NextStepInv ==
  ASSUME QuietHypothesis
  PROVE  TypeOK /\ ProbeOnce /\ StepInv /\ [Next]_vars => StepInv'
<1> SUFFICES ASSUME TypeOK, ProbeOnce, StepInv, [Next]_vars PROVE StepInv'
  OBVIOUS
<1>1. Numbers /\ CallersInv /\ \A e \in Eps : registry[e] = "active"
  BY DEF StepInv
<1>2. Numbers' /\ CallersInv'
  BY <1>1, NextNumbers, NextCallers
<1>3. \A e \in Eps : registry'[e] = "active"
  BY <1>1, SameRegistry
<1>4. Starting' \/ Started'
  <2>1. CASE Starting
    BY <1>1, <2>1, NextStarting
  <2>2. CASE Started
    BY <1>1, <2>2, NextStarted
  <2> QED BY <2>1, <2>2 DEF StepInv
<1> QED BY <1>2, <1>3, <1>4 DEF StepInv

\* An endpoint that everybody is done with is listed or not, as its adapter says.
LEMMA StepInvInStep == TypeOK /\ StepInv => SelectorsInStep
<1> SUFFICES ASSUME TypeOK, StepInv PROVE SelectorsInStep
  OBVIOUS
<1>1. CASE Starting
  <2>1. activeEpf = {} /\ \A e \in Eps : Good(e)
    BY <1>1 DEF Starting, Good
  <2> QED BY <2>1 DEF SelectorsInStep, GoodIsSelectable, BlockedNotSelected
<1>2. CASE Started
  <2>1. ASSUME NEW e \in Eps, Settled(e)
        PROVE  (Good(e) => Listed(e)) /\ (~Good(e) => Unlisted(e))
    <3>1. made[e] <= 1 /\ e \notin crossed /\ Numbers
      BY <2>1 DEF Settled, StepInv
    <3>2. EpOk(e) /\ epList[e] \in {0, 1}
      BY <1>2, <3>1, OneAdapter DEF Started, EpInv
    <3>3. Good(e) <=> ~Blocked(e)
      <4>1. CASE epList[e] = 0
        BY <4>1 DEF Good, Blocked
      <4>2. CASE epList[e] = 1
        <5>1. <<e, 1>> \in Adapters
          BY <4>2, BoundsNat DEF TypeOK, Adapters
        <5>2. status[<<e, 1>>] \in BOOLEAN
          BY <5>1 DEF TypeOK
        <5> QED BY <4>2, <5>2 DEF Good, Blocked, AdapterIn
      <4> QED BY <3>2, <4>1, <4>2
    <3>4. ~Blocking(e)
      <4>1. chk.pc \in {"unlist", "rr", "con", "mod"} => chk.at \in Adapters
        BY DEF TypeOK
      <4> QED BY <2>1, <4>1, NoneAssumption DEF Settled, Blocking
    <3>5. \A c \in Callers : ~Adding(e, c)
      BY <2>1 DEF Settled, Adding, NoProber
    <3> QED BY <3>2, <3>3, <3>4, <3>5 DEF EpOk, InStep
  <2>2. GoodIsSelectable
    <3>1. activeEpf \subseteq Eps
      BY DEF TypeOK
    <3> QED BY <2>1, <3>1 DEF GoodIsSelectable, Listed
  <2>3. BlockedNotSelected
    BY <2>1 DEF BlockedNotSelected, Unlisted
  <2> QED BY <2>2, <2>3 DEF SelectorsInStep
<1> QED BY <1>1, <1>2 DEF StepInv

\* As long as the registry keeps its list, any number of callers, failures, blockings
\* and probes leave the lists in step with the adapters, however long calls and probes
\* take: once checkStatus and the probes are done with an endpoint for which one adapter
\* was made and of which no probe was still under way when it was tried or blocked
\* again, activeEp, the RoundRobin and the ConsistentHash offer it if its adapter is
\* good, and nothing offers it if it is blocked (checkStatus, addAliveEp, findAndSetObj).
THEOREM SelectorsStayInStep ==
  ASSUME QuietHypothesis
  PROVE  Spec => []SelectorsInStep
<1>1. Init => StepInv
  BY InitStep
<1>2. TypeOK /\ ProbeOnce /\ StepInv /\ [Next]_vars => StepInv'
  BY NextStepInv
<1> QED
  BY <1>1, <1>2, StepInvInStep, TypeCorrect, ProbeOnceHolds, PTL DEF Spec
===============================================================================
