----------------------------- MODULE ReportProofs -----------------------------
(***************************************************************************)
(* What a process reports is neither lost nor counted twice: LogConserved  *)
(* of the logger and StatsConserved of the statistics, for any number of   *)
(* goroutines, values, calls and reports and any capacities.               *)
(*                                                                         *)
(* Both count in how many places an element is.  The first part is about   *)
(* counting: what the operations of a channel do to Among.                 *)
(***************************************************************************)
EXTENDS Rogger, StatReport, FiniteSetTheorems, SequenceTheorems, TLAPS

-------------------------------------------------------------------------------
(* Counting in sequences. *)

LEMMA AmongType ==
  ASSUME NEW T, NEW s \in Seq(T), NEW S
  PROVE  /\ IsFiniteSet({i \in DOMAIN s : s[i] \in S})
         /\ Among(s, S) \in Nat
<1>1. DOMAIN s = 1..Len(s) /\ Len(s) \in Nat
  BY LenProperties
<1>2. IsFiniteSet(1..Len(s))
  BY <1>1, FS_Interval
<1>3. {i \in DOMAIN s : s[i] \in S} \in SUBSET (1..Len(s))
  BY <1>1
<1>4. IsFiniteSet({i \in DOMAIN s : s[i] \in S})
  BY <1>2, <1>3, FS_Subset
<1> QED
  BY <1>4, FS_CardinalityType DEF Among

LEMMA AmongConcat ==
  ASSUME NEW T, NEW s \in Seq(T), NEW t \in Seq(T), NEW S
  PROVE  Among(s \o t, S) = Among(s, S) + Among(t, S)
<1> DEFINE n == Len(s)
           A == {i \in DOMAIN s : s[i] \in S}
           B == {i \in DOMAIN t : t[i] \in S}
           C == {n + i : i \in B}
           f == [i \in B |-> n + i]
<1>1. /\ n \in Nat /\ DOMAIN s = 1..n /\ Len(t) \in Nat /\ DOMAIN t = 1..Len(t)
      /\ DOMAIN (s \o t) = 1..(n + Len(t))
      /\ \A i \in 1..(n + Len(t)) : (s \o t)[i] = IF i <= n THEN s[i] ELSE t[i - n]
  <2>1. s \o t \in Seq(T) /\ Len(s \o t) = n + Len(t)
    BY ConcatProperties
  <2> QED
    BY <2>1, LenProperties, ConcatProperties
<1>2. IsFiniteSet(A) /\ IsFiniteSet(B) /\ Cardinality(A) = Among(s, S) /\ Cardinality(B) = Among(t, S)
  BY AmongType DEF Among
<1>3. f \in Bijection(B, C)
  <2>1. B \subseteq Nat
    BY <1>1
  <2>2. f \in [B -> C] /\ \A i, k \in B : f[i] = f[k] => i = k
    BY <1>1, <2>1
  <2>3. \A y \in C : \E i \in B : f[i] = y
    OBVIOUS
  <2>4. f \in Injection(B, C)
    BY <2>2 DEF Injection, IsInjective
  <2>5. f \in Surjection(B, C)
    BY <2>2, <2>3, Zenon DEF Surjection
  <2> QED
    BY <2>4, <2>5, Zenon DEF Bijection
<1>4. IsFiniteSet(C) /\ Cardinality(C) = Cardinality(B)
  BY <1>2, <1>3, FS_Bijection DEF ExistsBijection
<1>5. {i \in DOMAIN (s \o t) : (s \o t)[i] \in S} = A \cup C
  <2>1. ASSUME NEW i \in DOMAIN (s \o t), (s \o t)[i] \in S
        PROVE  i \in A \cup C
    <3>1. CASE i <= n
      BY <1>1, <2>1, <3>1
    <3>2. CASE ~(i <= n)
      <4>1. i - n \in DOMAIN t /\ t[i - n] \in S /\ i = n + (i - n)
        BY <1>1, <2>1, <3>2
      <4> QED
        BY <4>1
    <3> QED
      BY <3>1, <3>2
  <2>2. ASSUME NEW i \in A
        PROVE  i \in DOMAIN (s \o t) /\ (s \o t)[i] \in S
    BY <1>1
  <2>3. ASSUME NEW i \in B
        PROVE  n + i \in DOMAIN (s \o t) /\ (s \o t)[n + i] \in S
    <3>1. i \in 1..Len(t) /\ t[i] \in S
      BY <1>1
    <3>2. n + i \in 1..(n + Len(t)) /\ ~(n + i <= n) /\ (n + i) - n = i
      BY <1>1, <3>1
    <3> QED
      BY <1>1, <3>1, <3>2
  <2> QED
    BY <2>1, <2>2, <2>3
<1>6. A \cap C = {}
  BY <1>1
<1>7. Cardinality(A \cup C) = Cardinality(A) + Cardinality(C)
  <2>1. Cardinality(A \cup C) = Cardinality(A) + Cardinality(C) - Cardinality(A \cap C)
    BY <1>2, <1>4, FS_Union
  <2>2. Cardinality(A) \in Nat /\ Cardinality(C) \in Nat /\ Cardinality(A \cap C) = 0
    BY <1>2, <1>4, <1>6, FS_CardinalityType, FS_EmptySet
  <2> QED
    BY <2>1, <2>2
<1> QED
  BY <1>2, <1>4, <1>5, <1>7 DEF Among

LEMMA AmongEmpty == ASSUME NEW S PROVE Among(<< >>, S) = 0
<1>1. {i \in DOMAIN << >> : << >>[i] \in S} = {}
  OBVIOUS
<1> QED
  BY <1>1, FS_EmptySet DEF Among

LEMMA AmongOne ==
  ASSUME NEW v, NEW S
  PROVE  Among(<< v >>, S) = IF v \in S THEN 1 ELSE 0
<1>1. DOMAIN << v >> = {1} /\ << v >>[1] = v
  OBVIOUS
<1>2. {i \in DOMAIN << v >> : << v >>[i] \in S} = IF v \in S THEN {1} ELSE {}
  BY <1>1
<1> QED
  BY <1>2, FS_EmptySet, FS_Singleton DEF Among

LEMMA AmongAppend ==
  ASSUME NEW T, NEW s \in Seq(T), NEW v \in T, NEW S
  PROVE  Among(Append(s, v), S) = Among(s, S) + (IF v \in S THEN 1 ELSE 0)
<1>1. Append(s, v) = s \o << v >> /\ << v >> \in Seq(T)
  BY AppendIsConcat
<1>2. Among(s \o << v >>, S) = Among(s, S) + Among(<< v >>, S)
  BY <1>1, AmongConcat
<1> QED
  BY <1>1, <1>2, AmongOne

LEMMA HeadAndTail ==
  ASSUME NEW T, NEW s \in Seq(T), s # << >>
  PROVE  /\ Head(s) \in T /\ Tail(s) \in Seq(T) /\ << Head(s) >> \in Seq(T)
         /\ s = << Head(s) >> \o Tail(s)
<1>1. Head(s) \in T /\ Tail(s) \in Seq(T) /\ Len(Tail(s)) = Len(s) - 1
      /\ \A i \in 1..Len(Tail(s)) : Tail(s)[i] = s[i + 1]
  BY HeadTailProperties
<1>2. << Head(s) >> \in Seq(T) /\ Len(<< Head(s) >>) = 1 /\ << Head(s) >>[1] = s[1]
  BY <1>1
<1>3. Len(s) \in Nat /\ Len(s) # 0
  BY EmptySeq
<1> DEFINE t == << Head(s) >> \o Tail(s)
<1>4. t \in Seq(T) /\ Len(t) = Len(s)
      /\ \A i \in 1..Len(s) : t[i] = IF i <= 1 THEN << Head(s) >>[i] ELSE Tail(s)[i - 1]
  BY <1>1, <1>2, <1>3, ConcatProperties
<1>5. ASSUME NEW i \in 1..Len(s)
      PROVE  t[i] = s[i]
  BY <1>1, <1>2, <1>3, <1>4
<1>6. t = s
  BY <1>4, <1>5, SeqEqual
<1> QED
  BY <1>1, <1>2, <1>6

LEMMA AmongTail ==
  ASSUME NEW T, NEW s \in Seq(T), s # << >>, NEW S
  PROVE  Among(s, S) = (IF Head(s) \in S THEN 1 ELSE 0) + Among(Tail(s), S)
<1>1. << Head(s) >> \in Seq(T) /\ Tail(s) \in Seq(T)
  BY HeadAndTail
<1>2. Among(<< Head(s) >> \o Tail(s), S) = Among(<< Head(s) >>, S) + Among(Tail(s), S)
  BY <1>1, AmongConcat
<1> QED
  BY <1>2, HeadAndTail, AmongOne

\* What is not counted is not there.
LEMMA AmongRange ==
  ASSUME NEW T, NEW s \in Seq(T), NEW v
  PROVE  Among(s, {v}) = 0 <=> v \notin Range(s)
<1>1. {i \in DOMAIN s : s[i] \in {v}} = {} <=> v \notin {s[i] : i \in DOMAIN s}
  OBVIOUS
<1>2. Range(s) = {s[i] : i \in DOMAIN s}
  BY DEF Range
<1> QED
  <2> DEFINE W == {i \in DOMAIN s : s[i] \in {v}}
  <2>1. IsFiniteSet(W) /\ Among(s, {v}) = Cardinality(W)
    BY AmongType DEF Among
  <2>2. Among(s, {v}) = 0 <=> W = {}
    BY <2>1, FS_EmptySet
  <2> QED
    BY <1>1, <1>2, <2>2

-------------------------------------------------------------------------------
(* Order in sequences. *)

\* Of the values of g, those in A are logged before those in B.
Before(A, B, g) ==
  \A m, n \in DOMAIN Plan[g] : Plan[g][m] \in A /\ Plan[g][n] \in B => m < n

LEMMA RangeOne == ASSUME NEW v PROVE Range(<< v >>) = {v}
<1>1. DOMAIN << v >> = {1} /\ << v >>[1] = v
  OBVIOUS
<1> QED
  BY <1>1 DEF Range

LEMMA RangeEmpty == Range(<< >>) = {}
  BY DEF Range

LEMMA OrderConcat ==
  ASSUME NEW T, NEW s \in Seq(T), NEW t \in Seq(T), NEW g
  PROVE  InOrder(s \o t, g) <=>
           InOrder(s, g) /\ InOrder(t, g) /\ Before(Range(s), Range(t), g)
<1> DEFINE n == Len(s)
           u == s \o t
<1>1. /\ n \in Nat /\ DOMAIN s = 1..n /\ Len(t) \in Nat /\ DOMAIN t = 1..Len(t)
      /\ DOMAIN u = 1..(n + Len(t))
      /\ \A i \in 1..(n + Len(t)) : u[i] = IF i <= n THEN s[i] ELSE t[i - n]
  <2>1. s \o t \in Seq(T) /\ Len(s \o t) = n + Len(t)
    BY ConcatProperties
  <2> QED
    BY <2>1, LenProperties, ConcatProperties
<1>2. \A i \in DOMAIN s : i \in DOMAIN u /\ u[i] = s[i]
  BY <1>1
<1>3. \A k \in DOMAIN t : n + k \in DOMAIN u /\ u[n + k] = t[k] /\ n + k > n
  <2> SUFFICES ASSUME NEW k \in DOMAIN t
               PROVE  n + k \in DOMAIN u /\ u[n + k] = t[k] /\ n + k > n
    OBVIOUS
  <2>1. n + k \in 1..(n + Len(t)) /\ ~(n + k <= n) /\ (n + k) - n = k
    BY <1>1
  <2> QED
    BY <1>1, <2>1
<1>4. \A i \in DOMAIN u : IF i <= n THEN i \in DOMAIN s /\ u[i] = s[i]
                                    ELSE i - n \in DOMAIN t /\ u[i] = t[i - n]
  BY <1>1
<1>5. ASSUME InOrder(u, g)
      PROVE  InOrder(s, g) /\ InOrder(t, g) /\ Before(Range(s), Range(t), g)
  <2>1. InOrder(s, g)
    BY <1>2, <1>5 DEF InOrder
  <2>2. InOrder(t, g)
    <3> SUFFICES ASSUME NEW i \in DOMAIN t, NEW k \in DOMAIN t,
                        NEW m \in DOMAIN Plan[g], NEW l \in DOMAIN Plan[g],
                        i < k, t[i] = Plan[g][m], t[k] = Plan[g][l]
                 PROVE  m < l
      BY DEF InOrder
    <3>1. n + i < n + k
      BY <1>1
    <3> QED
      BY <1>3, <1>5, <3>1 DEF InOrder
  <2>3. Before(Range(s), Range(t), g)
    <3> SUFFICES ASSUME NEW m \in DOMAIN Plan[g], NEW l \in DOMAIN Plan[g],
                        Plan[g][m] \in Range(s), Plan[g][l] \in Range(t)
                 PROVE  m < l
      BY DEF Before
    <3>1. PICK i \in DOMAIN s : s[i] = Plan[g][m]
      BY DEF Range
    <3>2. PICK k \in DOMAIN t : t[k] = Plan[g][l]
      BY DEF Range
    <3>3. i < n + k
      BY <1>1
    <3> QED
      BY <1>2, <1>3, <1>5, <3>1, <3>2, <3>3 DEF InOrder
  <2> QED
    BY <2>1, <2>2, <2>3
<1>6. ASSUME InOrder(s, g), InOrder(t, g), Before(Range(s), Range(t), g)
      PROVE  InOrder(u, g)
  <2> SUFFICES ASSUME NEW i \in DOMAIN u, NEW k \in DOMAIN u,
                      NEW m \in DOMAIN Plan[g], NEW l \in DOMAIN Plan[g],
                      i < k, u[i] = Plan[g][m], u[k] = Plan[g][l]
               PROVE  m < l
    BY DEF InOrder
  <2>1. CASE k <= n
    <3>1. i <= n
      BY <1>1, <2>1
    <3> QED
      BY <1>4, <1>6, <2>1, <3>1 DEF InOrder
  <2>2. CASE i <= n /\ ~(k <= n)
    <3>1. Plan[g][m] \in Range(s) /\ Plan[g][l] \in Range(t)
      BY <1>4, <2>2 DEF Range
    <3> QED
      BY <1>6, <3>1 DEF Before
  <2>3. CASE ~(i <= n) /\ ~(k <= n)
    <3>1. i - n < k - n
      BY <1>1
    <3> QED
      BY <1>4, <1>6, <2>3, <3>1 DEF InOrder
  <2>4. i \in Nat /\ k \in Nat /\ n \in Nat
    BY <1>1
  <2> QED
    BY <2>1, <2>2, <2>3, <2>4
<1> QED
  BY <1>5, <1>6

LEMMA OrderOne == ASSUME NEW v, NEW g PROVE InOrder(<< v >>, g)
<1>1. DOMAIN << v >> = {1}
  OBVIOUS
<1> QED
  BY <1>1 DEF InOrder

LEMMA OrderEmpty == ASSUME NEW g PROVE InOrder(<< >>, g)
  BY DEF InOrder

LEMMA RangeConcat ==
  ASSUME NEW T, NEW s \in Seq(T), NEW t \in Seq(T)
  PROVE  Range(s \o t) = Range(s) \cup Range(t)
<1>1. /\ DOMAIN s = 1..Len(s) /\ DOMAIN t = 1..Len(t) /\ Len(s) \in Nat /\ Len(t) \in Nat
      /\ DOMAIN (s \o t) = 1..(Len(s) + Len(t))
      /\ \A i \in 1..(Len(s) + Len(t)) : (s \o t)[i] = IF i <= Len(s) THEN s[i] ELSE t[i - Len(s)]
  <2>1. s \o t \in Seq(T) /\ Len(s \o t) = Len(s) + Len(t)
    BY ConcatProperties
  <2> QED
    BY <2>1, LenProperties, ConcatProperties
<1>2. \A i \in DOMAIN (s \o t) : (s \o t)[i] \in Range(s) \cup Range(t)
  BY <1>1 DEF Range
<1>3. \A i \in DOMAIN s : s[i] \in Range(s \o t)
  BY <1>1 DEF Range
<1>4. ASSUME NEW i \in DOMAIN t PROVE t[i] \in Range(s \o t)
  <2>1. Len(s) + i \in DOMAIN (s \o t) /\ (s \o t)[Len(s) + i] = t[i]
    BY <1>1
  <2> QED
    BY <2>1 DEF Range
<1> QED
  BY <1>2, <1>3, <1>4 DEF Range

LEMMA OrderAppend ==
  ASSUME NEW T, NEW s \in Seq(T), NEW v \in T
  PROVE  /\ Range(Append(s, v)) = Range(s) \cup {v}
         /\ \A g : InOrder(s, g) /\ Before(Range(s), {v}, g) => InOrder(Append(s, v), g)
<1>1. Append(s, v) = s \o << v >> /\ << v >> \in Seq(T)
  BY AppendIsConcat
<1>0. << v >> \in Seq(T)
  BY <1>1
<1>2. Range(s \o << v >>) = Range(s) \cup Range(<< v >>)
  <2>1. PICK w \in Seq(T) : w = << v >>
    BY <1>0
  <2>2. Range(s \o w) = Range(s) \cup Range(w)
    BY RangeConcat
  <2> QED
    BY <2>1, <2>2
<1>3. \A g : InOrder(s \o << v >>, g) <=>
               InOrder(s, g) /\ InOrder(<< v >>, g) /\ Before(Range(s), Range(<< v >>), g)
  BY <1>1, OrderConcat
<1> QED
  BY <1>1, <1>2, <1>3, RangeOne, OrderOne

LEMMA OrderTail ==
  ASSUME NEW T, NEW s \in Seq(T), s # << >>
  PROVE  /\ Range(s) = {Head(s)} \cup Range(Tail(s))
         /\ \A g : InOrder(s, g) =>
              InOrder(Tail(s), g) /\ Before({Head(s)}, Range(Tail(s)), g)
<1> DEFINE h == << Head(s) >>
<1>1. h \in Seq(T) /\ Tail(s) \in Seq(T) /\ s = h \o Tail(s)
  BY HeadAndTail
<1>2. Range(h \o Tail(s)) = Range(h) \cup Range(Tail(s))
  <2>1. PICK w, t \in Seq(T) : w = h /\ t = Tail(s)
    BY <1>1
  <2>2. Range(w \o t) = Range(w) \cup Range(t)
    BY RangeConcat
  <2> QED
    BY <2>1, <2>2
<1>3. \A g : InOrder(h \o Tail(s), g) <=>
               InOrder(h, g) /\ InOrder(Tail(s), g) /\ Before(Range(h), Range(Tail(s)), g)
  BY <1>1, OrderConcat
<1>4. Range(h) = {Head(s)}
  BY RangeOne
<1> QED
  BY <1>1, <1>2, <1>3, <1>4

-------------------------------------------------------------------------------
(* The logger: what the invariant says. *)

Items == Values \cup {Oops}

\* flushLog holds a value only between the queue and the writer, and the error it
\* logs is about a value for the log server.
LogTyped ==
  /\ nLogged \in [Goroutines -> Nat] /\ errors \in Nat
  /\ logQueue \in Seq(Items) /\ inFile \in Seq(Items) /\ logs \in Seq(Items)
  /\ batch \in Seq(Items) /\ delivered \in Seq(Items) /\ failed \in Seq(Items)
  /\ flusher \in [pc : {"outer", "inner", "ended", "write", "oops"}, v : Items]
  /\ flusher.pc \in {"outer", "inner", "ended"} => flusher.v = Oops
  /\ flusher.pc = "oops" => flusher.v \in Remote

LogCounted ==
  \A g \in Goroutines : \A n \in DOMAIN Plan[g] :
    Places(Plan[g][n]) = IF n <= nLogged[g] THEN 1 ELSE 0

ErrorsCounted ==
  Among(logQueue, {Oops}) + Among(inFile, {Oops})
    + (IF flusher.pc = "write" /\ flusher.v = Oops THEN 1 ELSE 0) = errors

\* Every stage is in order, and so is a value with all that come after it on its way.
Waiting == {flusher.v} \cup Range(logQueue)
LogOrdered(g) ==
  /\ InOrder(logQueue, g) /\ InOrder(inFile, g) /\ InOrder(logs, g)
  /\ InOrder(batch, g) /\ InOrder(delivered, g)
  /\ Before({flusher.v}, Range(logQueue), g)
  /\ Before(Range(inFile), Waiting, g) /\ Before(Range(logs), Waiting, g)
  /\ Before(Range(batch), Range(logs) \cup Waiting, g)
  /\ Before(Range(delivered), Range(batch) \cup Range(logs) \cup Waiting, g)

LInv == LogTyped /\ LogCounted /\ ErrorsCounted /\ \A g \in Goroutines : LogOrdered(g)

\* The steps, with the Log of each goroutine apart.
LogRest == FlusherStep \/ SyncerStep \/ CallFlush \/ FlushReturns

LEMMA LogNextSplit ==
  LogNext <=> (\E g \in Goroutines : Log(g)) \/ LogRest
  BY DEF LogNext, LogRest

LEMMA PlanTyped ==
  ASSUME NEW g \in Goroutines
  PROVE  /\ Plan[g] \in Seq(Values) /\ DOMAIN Plan[g] = 1..Len(Plan[g]) /\ Len(Plan[g]) \in Nat
         /\ \A n \in DOMAIN Plan[g] : Plan[g][n] \in Values /\ Plan[g][n] # Oops
<1>1. Plan[g] \in Seq(Values)
  BY LogAssumption
<1>2. DOMAIN Plan[g] = 1..Len(Plan[g]) /\ Len(Plan[g]) \in Nat
  BY <1>1, LenProperties
<1>3. \A n \in DOMAIN Plan[g] : Plan[g][n] \in Values
  BY <1>1, <1>2, ElementOfSeq
<1> QED
  BY <1>1, <1>2, <1>3, LogAssumption

LEMMA InitLInv == LogInit => LInv
<1> SUFFICES ASSUME LogInit PROVE LInv
  OBVIOUS
<1> USE DEF LogInit
<1>1. LogTyped
  <2>1. << >> \in Seq(Items)
    BY EmptySeq
  <2> QED
    BY <2>1 DEF LogTyped, Items, At
<1>2. LogCounted
  <2> SUFFICES ASSUME NEW g \in Goroutines, NEW n \in DOMAIN Plan[g]
               PROVE  Places(Plan[g][n]) = IF n <= nLogged[g] THEN 1 ELSE 0
    BY DEF LogCounted
  <2>1. Plan[g][n] # Oops /\ n \in Nat /\ n > 0
    BY PlanTyped
  <2>2. Among(<< >>, {Plan[g][n]}) = 0
    BY AmongEmpty
  <2>3. flusher.v = Oops
    BY DEF At
  <2> QED
    BY <2>1, <2>2, <2>3 DEF Places
<1>3. ErrorsCounted
  BY AmongEmpty DEF ErrorsCounted, At
<1>4. ASSUME NEW g \in Goroutines PROVE LogOrdered(g)
  BY RangeEmpty, OrderEmpty DEF LogOrdered, Before
<1> QED
  BY <1>1, <1>2, <1>3, <1>4 DEF LInv

\* What becomes of a value that is written.
ToFile ==
  /\ flusher.v \notin Remote /\ flusher' = [pc |-> "outer", v |-> Oops]
  /\ inFile' = Append(inFile, flusher.v) /\ logs' = logs
ToServer ==
  /\ flusher.v \in Remote /\ flusher' = [pc |-> "outer", v |-> Oops]
  /\ inFile' = inFile /\ logs' = Append(logs, flusher.v)
FindsFull ==
  /\ flusher.v \in Remote /\ flusher' = [flusher EXCEPT !.pc = "oops"]
  /\ inFile' = inFile /\ logs' = logs

LEMMA FlushWriteCases == ASSUME FlushWrite PROVE ToFile \/ ToServer \/ FindsFull
<1>1. CASE flusher.v \notin Remote
  BY <1>1 DEF FlushWrite, ToFile, At
<1>2. CASE flusher.v \in Remote /\ Len(logs) < RemoteLen
  BY <1>2 DEF FlushWrite, ToServer, At
<1>3. CASE flusher.v \in Remote /\ ~(Len(logs) < RemoteLen)
  BY <1>3 DEF FlushWrite, FindsFull
<1> QED
  BY <1>1, <1>2, <1>3

-------------------------------------------------------------------------------
(* The types. *)

LEMMA LogIsTyped ==
  ASSUME LogTyped, NEW g \in Goroutines, Log(g) PROVE LogTyped'
<1>1. nLogged[g] + 1 \in DOMAIN Plan[g] /\ nLogged' \in [Goroutines -> Nat]
  BY PlanTyped DEF LogTyped, Log
<1>2. Plan[g][nLogged[g] + 1] \in Items
  BY <1>1, PlanTyped DEF Items
<1>3. logQueue' \in Seq(Items)
  BY <1>2, AppendProperties DEF Log, Send, LogTyped
<1> QED
  BY <1>1, <1>3 DEF LogTyped, Log, remote

LEMMA RestTyped == ASSUME LogTyped, LogRest PROVE LogTyped'
<1> USE DEF LogTyped
<1>1. CASE FlushTake
  <2>1. Head(logQueue) \in Items /\ Tail(logQueue) \in Seq(Items)
    BY <1>1, HeadTailProperties DEF FlushTake
  <2> QED
    BY <1>1, <2>1 DEF FlushTake, remote
<1>2. CASE FlushDefault
  BY <1>2 DEF FlushDefault, queue, remote, At, Items
<1>3. CASE FlushEnds
  BY <1>3 DEF FlushEnds, queue, remote, At, Items
<1>4. CASE FlushWrite
  <2>1. Append(inFile, flusher.v) \in Seq(Items) /\ Append(logs, flusher.v) \in Seq(Items)
    BY AppendProperties
  <2>2. CASE ToFile
    BY <1>4, <2>1, <2>2 DEF ToFile, FlushWrite, queue, Items
  <2>3. CASE ToServer
    BY <1>4, <2>1, <2>3 DEF ToServer, FlushWrite, queue, Items
  <2>4. CASE FindsFull
    BY <1>4, <2>4 DEF FindsFull, FlushWrite, queue
  <2> QED
    BY <1>4, <2>2, <2>3, <2>4, FlushWriteCases
<1>5. CASE WriteFull
  <2>1. Append(logQueue, Oops) \in Seq(Items)
    BY AppendProperties DEF Items
  <2> QED
    BY <1>5, <2>1 DEF WriteFull, Send, At, Items
<1>6. CASE SyncTake
  <2>1. Head(logs) \in Items /\ Tail(logs) \in Seq(Items)
    BY <1>6, HeadTailProperties DEF SyncTake
  <2>2. Append(batch, Head(logs)) \in Seq(Items)
    BY <2>1, AppendProperties
  <2> QED
    BY <1>6, <2>1, <2>2 DEF SyncTake, queue
<1>7. CASE SyncInterval
  BY <1>7 DEF SyncInterval, queue
<1>8. CASE SyncSucceeds
  <2>1. delivered \o batch \in Seq(Items) /\ << >> \in Seq(Items)
    BY ConcatProperties, EmptySeq
  <2> QED
    BY <1>8, <2>1 DEF SyncSucceeds, queue
<1>9. CASE SyncFails
  BY <1>9 DEF SyncFails, queue
<1>10. CASE SyncReset
  <2>1. failed \o batch \in Seq(Items) /\ << >> \in Seq(Items)
    BY ConcatProperties, EmptySeq
  <2>2. Append(logQueue, Oops) \in Seq(Items)
    BY AppendProperties DEF Items
  <2> QED
    BY <1>10, <2>1, <2>2 DEF SyncReset, Send
<1>11. CASE CallFlush
  BY <1>11 DEF CallFlush, queue, remote
<1>12. CASE FlushReturns
  BY <1>12 DEF FlushReturns, queue, remote
<1> QED
  BY <1>1, <1>2, <1>3, <1>4, <1>5, <1>6, <1>7, <1>8, <1>9, <1>10, <1>11, <1>12
     DEF LogRest, FlusherStep, SyncerStep

-------------------------------------------------------------------------------
(* The places of a value. *)

LEMMA CountsTyped ==
  ASSUME LogTyped, NEW S
  PROVE  /\ Among(logQueue, S) \in Nat /\ Among(inFile, S) \in Nat /\ Among(logs, S) \in Nat
         /\ Among(batch, S) \in Nat /\ Among(delivered, S) \in Nat /\ Among(failed, S) \in Nat
  BY AmongType DEF LogTyped

\* A log statement adds one place to the value it logs.
LEMMA LogPlaces ==
  ASSUME LogTyped, NEW g \in Goroutines, Log(g), NEW v
  PROVE  Places(v)' = Places(v) + (IF v = Plan[g][nLogged[g] + 1] THEN 1 ELSE 0)
<1> DEFINE w == Plan[g][nLogged[g] + 1]
<1>t. /\ Among(logQueue, {v}) \in Nat /\ Among(inFile, {v}) \in Nat /\ Among(logs, {v}) \in Nat
      /\ Among(batch, {v}) \in Nat /\ Among(delivered, {v}) \in Nat /\ Among(failed, {v}) \in Nat
  BY CountsTyped
<1>1. w \in Items
  <2>1. nLogged[g] + 1 \in DOMAIN Plan[g]
    BY PlanTyped DEF LogTyped, Log
  <2> QED
    BY <2>1, PlanTyped DEF Items
<1>2. logQueue \in Seq(Items)
  BY DEF LogTyped
<1>3. Among(Append(logQueue, w), {v}) = Among(logQueue, {v}) + (IF w \in {v} THEN 1 ELSE 0)
  BY <1>1, <1>2, AmongAppend
<1>4. logQueue' = Append(logQueue, w)
  BY DEF Log, Send
<1>5. UNCHANGED << flusher, inFile, logs, batch, delivered, overflowed, failed >>
  BY DEF Log, remote
<1> HIDE DEF w
<1>6. Places(v)' = Places(v) + (IF w = v THEN 1 ELSE 0)
  <2>1. CASE w = v
    <3>1. Among(logQueue', {v}) = Among(logQueue, {v}) + 1
      BY <1>3, <1>4, <2>1
    <3> QED
      BY <1>5, <1>t, <2>1, <3>1 DEF Places
  <2>2. CASE w # v
    BY <1>3, <1>4, <1>5, <2>2, <1>t DEF Places
  <2> QED
    BY <2>1, <2>2
<1> QED
  BY <1>6 DEF w

\* Every other step moves it from one place to another.
LEMMA RestPlaces ==
  ASSUME LogTyped, LogRest, NEW v \in Values, Places(v) <= 1
  PROVE  Places(v)' = Places(v)
<1>0. v # Oops /\ Oops \in Items
  BY LogAssumption DEF Items
<1>t. /\ Among(logQueue, {v}) \in Nat /\ Among(inFile, {v}) \in Nat /\ Among(logs, {v}) \in Nat
      /\ Among(batch, {v}) \in Nat /\ Among(delivered, {v}) \in Nat /\ Among(failed, {v}) \in Nat
  BY CountsTyped
<1>1. CASE FlushTake
  <2>1. Among(logQueue, {v}) = (IF Head(logQueue) \in {v} THEN 1 ELSE 0) + Among(Tail(logQueue), {v})
    BY <1>1, AmongTail DEF FlushTake, LogTyped
  <2>2. Tail(logQueue) \in Seq(Items)
    BY <1>1, HeadTailProperties DEF FlushTake, LogTyped
  <2>3. Among(Tail(logQueue), {v}) \in Nat
    BY <2>2, AmongType
  <2>4. flusher.v # v /\ flusher'.v = Head(logQueue) /\ logQueue' = Tail(logQueue)
    BY <1>0, <1>1 DEF FlushTake, LogTyped
  <2>5. UNCHANGED << inFile, logs, batch, delivered, overflowed, failed >>
    BY <1>1 DEF FlushTake, remote
  <2> QED
    BY <2>1, <2>3, <2>4, <2>5, <1>t DEF Places
<1>2. CASE FlushDefault \/ FlushEnds
  <2>1. flusher.v # v /\ flusher'.v # v
    BY <1>0, <1>2 DEF FlushDefault, FlushEnds, LogTyped, At
  <2>2. UNCHANGED << logQueue, inFile, logs, batch, delivered, overflowed, failed >>
    BY <1>2 DEF FlushDefault, FlushEnds, queue, remote
  <2> QED
    BY <2>1, <2>2 DEF Places
<1>3. CASE FlushWrite
  <2>1. UNCHANGED << logQueue, batch, delivered, overflowed, failed >>
    BY <1>3 DEF FlushWrite, queue
  <2>2. CASE ToFile
    <3>1. Among(Append(inFile, flusher.v), {v})
            = Among(inFile, {v}) + (IF flusher.v \in {v} THEN 1 ELSE 0)
      BY AmongAppend DEF LogTyped
    <3>2. flusher'.v # v /\ inFile' = Append(inFile, flusher.v) /\ logs' = logs
      BY <1>0, <2>2 DEF ToFile
    <3> QED
      BY <2>1, <3>1, <3>2, <1>t DEF Places
  <2>3. CASE ToServer
    <3>1. Among(Append(logs, flusher.v), {v})
            = Among(logs, {v}) + (IF flusher.v \in {v} THEN 1 ELSE 0)
      BY AmongAppend DEF LogTyped
    <3>2. flusher'.v # v /\ logs' = Append(logs, flusher.v) /\ inFile' = inFile
      BY <1>0, <2>3 DEF ToServer
    <3> QED
      BY <2>1, <3>1, <3>2, <1>t DEF Places
  <2>4. CASE FindsFull
    <3>1. flusher'.v = flusher.v /\ inFile' = inFile /\ logs' = logs
      BY <2>4 DEF FindsFull, LogTyped
    <3> QED
      BY <2>1, <3>1 DEF Places
  <2> QED
    BY <1>3, <2>2, <2>3, <2>4, FlushWriteCases
<1>4. CASE WriteFull
  <2>1. Among(Append(logQueue, Oops), {v}) = Among(logQueue, {v}) + (IF Oops \in {v} THEN 1 ELSE 0)
    BY <1>0, AmongAppend DEF LogTyped
  <2>2. logQueue' = Append(logQueue, Oops) /\ flusher'.v # v
        /\ overflowed' = overflowed \cup {flusher.v}
    BY <1>0, <1>4 DEF WriteFull, Send, At
  <2>3. UNCHANGED << inFile, logs, batch, delivered, failed >>
    BY <1>4 DEF WriteFull
  <2>4. flusher.v = v => v \notin overflowed
    BY <1>t DEF Places
  <2> QED
    <3>1. CASE flusher.v = v
      BY <1>0, <2>1, <2>2, <2>3, <2>4, <3>1, <1>t DEF Places
    <3>2. CASE flusher.v # v
      BY <1>0, <2>1, <2>2, <2>3, <3>2, <1>t DEF Places
    <3> QED
      BY <3>1, <3>2
<1>5. CASE SyncTake
  <2>1. Among(logs, {v}) = (IF Head(logs) \in {v} THEN 1 ELSE 0) + Among(Tail(logs), {v})
    BY <1>5, AmongTail DEF SyncTake, LogTyped
  <2>2. Tail(logs) \in Seq(Items) /\ Head(logs) \in Items
    BY <1>5, HeadTailProperties DEF SyncTake, LogTyped
  <2>3. Among(Tail(logs), {v}) \in Nat
    BY <2>2, AmongType
  <2>4. Among(Append(batch, Head(logs)), {v})
          = Among(batch, {v}) + (IF Head(logs) \in {v} THEN 1 ELSE 0)
    BY <2>2, AmongAppend DEF LogTyped
  <2>5. batch' = Append(batch, Head(logs)) /\ logs' = Tail(logs)
        /\ UNCHANGED << logQueue, flusher, inFile, delivered, overflowed, failed >>
    BY <1>5 DEF SyncTake, queue
  <2> QED
    <3>1. CASE Head(logs) = v
      <4>1. /\ Among(logs, {v}) = 1 + Among(logs', {v})
            /\ Among(batch', {v}) = Among(batch, {v}) + 1
        BY <2>1, <2>4, <2>5, <3>1
      <4>2. Among(logs', {v}) \in Nat
        BY <2>3, <2>5
      <4>3. Among(logs, {v}) + Among(batch, {v}) = Among(logs', {v}) + Among(batch', {v})
            /\ Among(batch', {v}) \in Nat
        BY <1>t, <4>1, <4>2
      <4>4. /\ logQueue' = logQueue /\ flusher' = flusher /\ inFile' = inFile
            /\ delivered' = delivered /\ overflowed' = overflowed /\ failed' = failed
        BY <2>5
      <4> QED
        BY <1>t, <4>2, <4>3, <4>4 DEF Places
    <3>2. CASE Head(logs) # v
      BY <2>1, <2>3, <2>4, <2>5, <3>2, <1>t DEF Places
    <3> QED
      BY <3>1, <3>2
<1>6. CASE SyncInterval \/ SyncFails \/ CallFlush \/ FlushReturns
  <2>1. UNCHANGED << logQueue, flusher, inFile, logs, batch, delivered, overflowed, failed >>
    BY <1>6 DEF SyncInterval, SyncFails, CallFlush, FlushReturns, queue, remote
  <2> QED
    BY <2>1 DEF Places
<1>7. CASE SyncSucceeds
  <2>1. Among(delivered \o batch, {v}) = Among(delivered, {v}) + Among(batch, {v})
    BY AmongConcat DEF LogTyped
  <2>2. Among(<< >>, {v}) = 0
    BY AmongEmpty
  <2>3. delivered' = delivered \o batch /\ batch' = << >>
        /\ UNCHANGED << logQueue, flusher, inFile, logs, overflowed, failed >>
    BY <1>7 DEF SyncSucceeds, queue
  <2> QED
    BY <2>1, <2>2, <2>3, <1>t DEF Places
<1>8. CASE SyncReset
  <2>1. Among(failed \o batch, {v}) = Among(failed, {v}) + Among(batch, {v})
    BY AmongConcat DEF LogTyped
  <2>2. Among(<< >>, {v}) = 0
    BY AmongEmpty
  <2>3. Among(Append(logQueue, Oops), {v}) = Among(logQueue, {v}) + (IF Oops \in {v} THEN 1 ELSE 0)
    BY <1>0, AmongAppend DEF LogTyped
  <2>4. failed' = failed \o batch /\ batch' = << >> /\ logQueue' = Append(logQueue, Oops)
        /\ UNCHANGED << flusher, inFile, logs, delivered, overflowed >>
    BY <1>8 DEF SyncReset, Send
  <2>5. /\ Among(failed', {v}) = Among(failed, {v}) + Among(batch, {v}) /\ Among(batch', {v}) = 0
        /\ Among(logQueue', {v}) = Among(logQueue, {v})
    BY <1>0, <2>1, <2>2, <2>3, <2>4, <1>t
  <2>6. PICK k, l, m, o, p, q \in Nat :
          /\ k = Among(logQueue, {v}) /\ l = Among(inFile, {v}) /\ m = Among(logs, {v})
          /\ o = Among(batch, {v}) /\ p = Among(delivered, {v}) /\ q = Among(failed, {v})
    BY <1>t
  <2>7. PICK a, b \in Nat : /\ a = (IF flusher.v = v THEN 1 ELSE 0)
                            /\ b = (IF v \in overflowed THEN 1 ELSE 0)
    OBVIOUS
  <2>8. Places(v) = k + a + l + m + o + p + b + q
    BY <2>6, <2>7 DEF Places
  <2>9. Places(v)' = k + a + l + m + 0 + p + b + (q + o)
    BY <2>4, <2>5, <2>6, <2>7 DEF Places
  <2> QED
    BY <2>8, <2>9
<1> QED
  BY <1>1, <1>2, <1>3, <1>4, <1>5, <1>6, <1>7, <1>8 DEF LogRest, FlusherStep, SyncerStep

LEMMA CountedStep == ASSUME LInv, LogNext PROVE LogCounted'
<1> SUFFICES ASSUME NEW g \in Goroutines, NEW n \in DOMAIN Plan[g]
             PROVE  Places(Plan[g][n])' = IF n <= nLogged'[g] THEN 1 ELSE 0
  BY DEF LogCounted
<1> DEFINE v == Plan[g][n]
<1>1. v \in Values /\ n \in Nat /\ LogTyped /\ nLogged[g] \in Nat
      /\ Places(v) = IF n <= nLogged[g] THEN 1 ELSE 0
  BY PlanTyped DEF LInv, LogCounted, LogTyped
<1>2. CASE LogRest
  <2>1. nLogged' = nLogged
    BY <1>2 DEF LogRest, FlusherStep, SyncerStep, FlushTake, FlushDefault, FlushEnds, FlushWrite,
       WriteFull, SyncTake, SyncInterval, SyncSucceeds, SyncFails, SyncReset, CallFlush,
       FlushReturns, queue
  <2> QED
    BY <1>1, <1>2, <2>1, RestPlaces
<1>3. ASSUME NEW h \in Goroutines, Log(h)
      PROVE  Places(v)' = IF n <= nLogged'[g] THEN 1 ELSE 0
  <2> DEFINE m == nLogged[h] + 1
  <2>1. m \in DOMAIN Plan[h] /\ nLogged' = [nLogged EXCEPT ![h] = m] /\ nLogged[h] \in Nat
    BY <1>1, <1>3, PlanTyped DEF Log, LogTyped
  <2>2. Places(v)' = Places(v) + (IF v = Plan[h][m] THEN 1 ELSE 0)
    BY <1>1, <1>3, LogPlaces
  <2>3. v = Plan[h][m] <=> g = h /\ n = m
    BY <2>1, LogAssumption
  <2>4. nLogged'[g] = IF g = h THEN m ELSE nLogged[g]
    BY <1>1, <2>1 DEF LogTyped
  <2> HIDE DEF v
  <2> QED
    BY <1>1, <2>1, <2>2, <2>3, <2>4
<1> QED
  BY <1>2, <1>3, LogNextSplit

\* An error of the logger itself goes from the queue to the file.
LEMMA ErrorsStep == ASSUME LInv, LogNext PROVE ErrorsCounted'
<1>0. LogTyped /\ ErrorsCounted /\ Oops \in Items /\ Oops \notin Remote /\ errors \in Nat
  BY LogAssumption DEF LInv, LogTyped, Items
<1>t. Among(logQueue, {Oops}) \in Nat /\ Among(inFile, {Oops}) \in Nat
  BY <1>0, CountsTyped
<1>a. Among(Append(logQueue, Oops), {Oops}) = Among(logQueue, {Oops}) + 1
  <2>1. Among(Append(logQueue, Oops), {Oops})
          = Among(logQueue, {Oops}) + (IF Oops \in {Oops} THEN 1 ELSE 0)
    BY <1>0, AmongAppend DEF LogTyped
  <2> QED
    BY <2>1
<1>1. ASSUME NEW g \in Goroutines, Log(g) PROVE ErrorsCounted'
  <2> DEFINE w == Plan[g][nLogged[g] + 1]
  <2>1. nLogged[g] + 1 \in DOMAIN Plan[g]
    BY <1>0, <1>1, PlanTyped DEF LogTyped, Log
  <2>2. w \in Items /\ w # Oops
    BY <2>1, PlanTyped DEF Items
  <2>3. Among(Append(logQueue, w), {Oops}) = Among(logQueue, {Oops}) + (IF w \in {Oops} THEN 1 ELSE 0)
    BY <1>0, <2>2, AmongAppend DEF LogTyped
  <2>4. logQueue' = Append(logQueue, w) /\ UNCHANGED << inFile, flusher, errors >>
    BY <1>1 DEF Log, Send
  <2> HIDE DEF w
  <2>5. Among(logQueue', {Oops}) = Among(logQueue, {Oops})
    BY <1>t, <2>2, <2>3, <2>4
  <2> QED
    BY <1>0, <2>4, <2>5 DEF ErrorsCounted
<1>2. CASE FlushTake
  <2>1. Among(logQueue, {Oops})
          = (IF Head(logQueue) \in {Oops} THEN 1 ELSE 0) + Among(Tail(logQueue), {Oops})
    BY <1>0, <1>2, AmongTail DEF FlushTake, LogTyped
  <2>2. Tail(logQueue) \in Seq(Items)
    BY <1>0, <1>2, HeadTailProperties DEF FlushTake, LogTyped
  <2>3. Among(Tail(logQueue), {Oops}) \in Nat
    BY <2>2, AmongType
  <2>4. /\ flusher.pc # "write" /\ flusher'.pc = "write" /\ flusher'.v = Head(logQueue)
        /\ logQueue' = Tail(logQueue) /\ inFile' = inFile /\ errors' = errors
    BY <1>0, <1>2 DEF FlushTake, LogTyped
  <2>5. CASE Head(logQueue) = Oops
    BY <1>0, <1>t, <2>1, <2>3, <2>4, <2>5 DEF ErrorsCounted
  <2>6. CASE Head(logQueue) # Oops
    BY <1>0, <1>t, <2>1, <2>3, <2>4, <2>6 DEF ErrorsCounted
  <2> QED
    BY <2>5, <2>6
<1>3. CASE FlushDefault \/ FlushEnds
  <2>1. flusher.pc # "write" /\ flusher'.pc # "write" /\ UNCHANGED << logQueue, inFile, errors >>
    BY <1>3 DEF FlushDefault, FlushEnds, At, queue
  <2> QED
    BY <1>0, <2>1 DEF ErrorsCounted
<1>4. CASE FlushWrite
  <2>1. flusher.pc = "write" /\ UNCHANGED << logQueue, errors >>
    BY <1>4 DEF FlushWrite, queue
  <2>2. CASE ToFile
    <3>1. Among(Append(inFile, flusher.v), {Oops})
            = Among(inFile, {Oops}) + (IF flusher.v \in {Oops} THEN 1 ELSE 0)
      BY <1>0, AmongAppend DEF LogTyped
    <3>2. inFile' = Append(inFile, flusher.v) /\ flusher'.pc # "write"
      BY <2>2 DEF ToFile
    <3>3. CASE flusher.v = Oops
      BY <1>0, <1>t, <2>1, <3>1, <3>2, <3>3 DEF ErrorsCounted
    <3>4. CASE flusher.v # Oops
      BY <1>0, <1>t, <2>1, <3>1, <3>2, <3>4 DEF ErrorsCounted
    <3> QED
      BY <3>3, <3>4
  <2>3. CASE ToServer \/ FindsFull
    <3>1. flusher.v # Oops /\ flusher'.pc # "write" /\ inFile' = inFile
      BY <1>0, <2>3 DEF ToServer, FindsFull, LogTyped
    <3> QED
      BY <1>0, <2>1, <3>1 DEF ErrorsCounted
  <2> QED
    BY <1>4, <2>2, <2>3, FlushWriteCases
<1>5. CASE WriteFull
  <2>1. /\ flusher.pc # "write" /\ flusher'.pc # "write" /\ logQueue' = Append(logQueue, Oops)
        /\ inFile' = inFile /\ errors' = errors + 1
    BY <1>5 DEF WriteFull, Send, At
  <2> QED
    BY <1>0, <1>t, <1>a, <2>1 DEF ErrorsCounted
<1>6. CASE SyncReset
  <2>1. /\ flusher' = flusher /\ logQueue' = Append(logQueue, Oops)
        /\ inFile' = inFile /\ errors' = errors + 1
    BY <1>6 DEF SyncReset, Send
  <2>2. CASE flusher.pc = "write" /\ flusher.v = Oops
    BY <1>0, <1>t, <1>a, <2>1, <2>2 DEF ErrorsCounted
  <2>3. CASE ~(flusher.pc = "write" /\ flusher.v = Oops)
    BY <1>0, <1>t, <1>a, <2>1, <2>3 DEF ErrorsCounted
  <2> QED
    BY <2>2, <2>3
<1>7. CASE SyncTake \/ SyncInterval \/ SyncSucceeds \/ SyncFails \/ CallFlush \/ FlushReturns
  <2>1. UNCHANGED << logQueue, flusher, inFile, errors >>
    BY <1>7 DEF SyncTake, SyncInterval, SyncSucceeds, SyncFails, CallFlush, FlushReturns, queue
  <2> QED
    BY <1>0, <2>1 DEF ErrorsCounted
<1> QED
  BY <1>1, <1>2, <1>3, <1>4, <1>5, <1>6, <1>7 DEF LogNext, FlusherStep, SyncerStep

-------------------------------------------------------------------------------
(* The order. *)

\* A value that is anywhere has been logged.
LEMMA SeenIsLogged ==
  ASSUME LInv, NEW g \in Goroutines, NEW n \in DOMAIN Plan[g],
         Plan[g][n] \in Range(inFile) \cup Range(logs) \cup Range(batch) \cup Range(delivered)
                          \cup Range(logQueue) \cup {flusher.v}
  PROVE  n <= nLogged[g]
<1> DEFINE v == Plan[g][n]
<1>1. LogTyped /\ Places(v) = IF n <= nLogged[g] THEN 1 ELSE 0
  BY DEF LInv, LogCounted
<1>2. /\ Among(logQueue, {v}) \in Nat /\ Among(inFile, {v}) \in Nat /\ Among(logs, {v}) \in Nat
      /\ Among(batch, {v}) \in Nat /\ Among(delivered, {v}) \in Nat /\ Among(failed, {v}) \in Nat
  BY <1>1, CountsTyped
<1>3. /\ Among(logQueue, {v}) = 0 <=> v \notin Range(logQueue)
      /\ Among(inFile, {v}) = 0 <=> v \notin Range(inFile)
      /\ Among(logs, {v}) = 0 <=> v \notin Range(logs)
      /\ Among(batch, {v}) = 0 <=> v \notin Range(batch)
      /\ Among(delivered, {v}) = 0 <=> v \notin Range(delivered)
  BY <1>1, AmongRange DEF LogTyped
<1> HIDE DEF v
<1>4. Places(v) # 0
  <2>1. \/ Among(inFile, {v}) # 0 \/ Among(logs, {v}) # 0 \/ Among(batch, {v}) # 0
        \/ Among(delivered, {v}) # 0 \/ Among(logQueue, {v}) # 0 \/ flusher.v = v
    BY <1>3 DEF v
  <2>2. PICK a, b \in Nat : /\ a = (IF flusher.v = v THEN 1 ELSE 0)
                            /\ b = (IF v \in overflowed THEN 1 ELSE 0)
    OBVIOUS
  <2>3. Places(v) = Among(logQueue, {v}) + a + Among(inFile, {v}) + Among(logs, {v})
                      + Among(batch, {v}) + Among(delivered, {v}) + b + Among(failed, {v})
    BY <2>2 DEF Places
  <2>4. flusher.v = v => a = 1
    BY <2>2
  <2>5. PICK k, l, m, o, p, q \in Nat :
          /\ k = Among(logQueue, {v}) /\ l = Among(inFile, {v}) /\ m = Among(logs, {v})
          /\ o = Among(batch, {v}) /\ p = Among(delivered, {v}) /\ q = Among(failed, {v})
    BY <1>2
  <2>6. Places(v) = k + a + l + m + o + p + b + q
    BY <2>3, <2>5
  <2>7. k # 0 \/ l # 0 \/ m # 0 \/ o # 0 \/ p # 0 \/ a # 0
    BY <2>1, <2>4, <2>5
  <2>8. PICK x, y \in Nat : x = k + a + l /\ y = m + o + p
    OBVIOUS
  <2>9. x # 0 \/ y # 0
    BY <2>7, <2>8
  <2>10. Places(v) = x + y + (b + q)
    BY <2>6, <2>8
  <2>11. PICK z \in Nat : z = b + q
    OBVIOUS
  <2>12. Places(v) = x + y + z
    BY <2>10, <2>11
  <2>13. x + y + z # 0
    BY <2>9
  <2> QED
    BY <2>12, <2>13
<1> QED
  BY <1>1, <1>4

LEMMA BeforeParts ==
  /\ \A A, B, C, D, g : Before(A, B, g) /\ C \subseteq A /\ D \subseteq B => Before(C, D, g)
  /\ \A A, B, C, g : Before(A \cup B, C, g) <=> Before(A, C, g) /\ Before(B, C, g)
  /\ \A A, B, C, g : Before(C, A \cup B, g) <=> Before(C, A, g) /\ Before(C, B, g)
<1>1. \A A, B, C, D, g : Before(A, B, g) /\ C \subseteq A /\ D \subseteq B => Before(C, D, g)
  BY DEF Before
<1>2. \A A, B, C, g : Before(A \cup B, C, g) <=> Before(A, C, g) /\ Before(B, C, g)
  BY DEF Before
<1>3. \A A, B, C, g : Before(C, A \cup B, g) <=> Before(C, A, g) /\ Before(C, B, g)
  BY DEF Before
<1> QED
  BY <1>1, <1>2, <1>3

\* An error of the logger has no place in the order.
LEMMA BeforeOops ==
  ASSUME NEW g \in Goroutines, NEW A, NEW B, Before(A, B, g),
         NEW C, C \subseteq A \cup {Oops}, NEW D, D \subseteq B \cup {Oops}
  PROVE  Before(C, D, g)
  BY PlanTyped DEF Before

LEMMA LogIsOrdered ==
  ASSUME LInv, NEW g \in Goroutines, Log(g), NEW h \in Goroutines
  PROVE  LogOrdered(h)'
<1> DEFINE w == Plan[g][nLogged[g] + 1]
           seen == Range(inFile) \cup Range(logs) \cup Range(batch) \cup Range(delivered)
                     \cup Range(logQueue) \cup {flusher.v}
<1>1. LogTyped /\ LogOrdered(h) /\ nLogged[g] + 1 \in DOMAIN Plan[g] /\ nLogged[g] \in Nat
  BY PlanTyped DEF LInv, LogTyped, Log
<1>2. w \in Items
  BY <1>1, PlanTyped DEF Items
<1>3. Before(seen, {w}, h)
  <2> SUFFICES ASSUME NEW m \in DOMAIN Plan[h], NEW n \in DOMAIN Plan[h],
                      Plan[h][m] \in seen, Plan[h][n] \in {w}
               PROVE  m < n
    BY DEF Before
  <2>1. h = g /\ n = nLogged[g] + 1
    BY <1>1, LogAssumption
  <2>2. m <= nLogged[h]
    BY SeenIsLogged
  <2>3. m \in Nat
    BY PlanTyped
  <2> QED
    BY <1>1, <2>1, <2>2, <2>3
<1>4. /\ logQueue' = Append(logQueue, w)
      /\ flusher' = flusher /\ inFile' = inFile /\ logs' = logs /\ batch' = batch
      /\ delivered' = delivered
  BY DEF Log, Send, remote
<1> HIDE DEF w
<1>5. /\ Range(logQueue') = Range(logQueue) \cup {w}
      /\ InOrder(logQueue, h) /\ Before(Range(logQueue), {w}, h) => InOrder(logQueue', h)
  <2>1. logQueue \in Seq(Items)
    BY <1>1 DEF LogTyped
  <2>2. /\ Range(Append(logQueue, w)) = Range(logQueue) \cup {w}
        /\ \A x : InOrder(logQueue, x) /\ Before(Range(logQueue), {w}, x)
                  => InOrder(Append(logQueue, w), x)
    BY <1>2, <2>1, OrderAppend
  <2> QED
    BY <1>4, <2>2
<1>6. /\ Before({flusher.v}, {w}, h) /\ Before(Range(logQueue), {w}, h)
      /\ Before(Range(inFile), {w}, h) /\ Before(Range(logs), {w}, h)
      /\ Before(Range(batch), {w}, h) /\ Before(Range(delivered), {w}, h)
  BY <1>3, BeforeParts
<1>7. Waiting' = Waiting \cup {w}
  BY <1>4, <1>5 DEF Waiting
<1>8. Before({flusher.v}, Range(logQueue) \cup {w}, h) /\ Before(Range(inFile), Waiting \cup {w}, h)
      /\ Before(Range(logs), Waiting \cup {w}, h)
  BY <1>1, <1>6, BeforeParts DEF LogOrdered
<1>9. Before(Range(batch), Range(logs) \cup (Waiting \cup {w}), h)
  BY <1>1, <1>6, BeforeParts DEF LogOrdered
<1>10. Before(Range(delivered), Range(batch) \cup Range(logs) \cup (Waiting \cup {w}), h)
  BY <1>1, <1>6, BeforeParts DEF LogOrdered
<1> QED
  BY <1>1, <1>4, <1>5, <1>6, <1>7, <1>8, <1>9, <1>10 DEF LogOrdered

LEMMA RestOrdered ==
  ASSUME LogTyped, LogRest, NEW g \in Goroutines, LogOrdered(g)
  PROVE  LogOrdered(g)'
<1>0. Oops \in Items
  BY DEF Items
<1>1. CASE FlushTake
  <2>1. /\ Range(logQueue) = {Head(logQueue)} \cup Range(Tail(logQueue))
        /\ InOrder(Tail(logQueue), g) /\ Before({Head(logQueue)}, Range(Tail(logQueue)), g)
    BY <1>1, OrderTail DEF FlushTake, LogTyped, LogOrdered
  <2>2. /\ logQueue' = Tail(logQueue) /\ flusher'.v = Head(logQueue)
        /\ inFile' = inFile /\ logs' = logs /\ batch' = batch /\ delivered' = delivered
    BY <1>1 DEF FlushTake, remote
  <2>3. Waiting' \subseteq Waiting
    BY <2>1, <2>2 DEF Waiting
  <2>4. Before(Range(inFile), Waiting', g) /\ Before(Range(logs), Waiting', g)
    BY <2>3, BeforeParts DEF LogOrdered
  <2>5. Before(Range(batch), Range(logs) \cup Waiting', g)
    BY <2>3, BeforeParts DEF LogOrdered
  <2>6. Before(Range(delivered), Range(batch) \cup Range(logs) \cup Waiting', g)
    BY <2>3, BeforeParts DEF LogOrdered
  <2> QED
    BY <2>1, <2>2, <2>4, <2>5, <2>6 DEF LogOrdered
<1>2. CASE FlushDefault \/ FlushEnds
  <2>1. flusher'.v = Oops /\ flusher.v = Oops
        /\ UNCHANGED << logQueue, inFile, logs, batch, delivered >>
    BY <1>2 DEF FlushDefault, FlushEnds, LogTyped, At, queue, remote
  <2> QED
    BY <2>1 DEF LogOrdered, Waiting
<1>3. CASE FlushWrite
  <2>1. logQueue' = logQueue /\ batch' = batch /\ delivered' = delivered
    BY <1>3 DEF FlushWrite, queue
  <2>2. CASE ToFile
    <3>1. flusher'.v = Oops /\ inFile' = Append(inFile, flusher.v) /\ logs' = logs
      BY <2>2 DEF ToFile
    <3>2. flusher.v \in Items /\ inFile \in Seq(Items)
      BY DEF LogTyped
    <3>3. Before(Range(inFile), {flusher.v}, g)
      BY BeforeParts DEF LogOrdered, Waiting
    <3>4. Range(inFile') = Range(inFile) \cup {flusher.v} /\ InOrder(inFile', g)
      <4>1. InOrder(inFile, g)
        BY DEF LogOrdered
      <4>2. /\ Range(Append(inFile, flusher.v)) = Range(inFile) \cup {flusher.v}
            /\ InOrder(Append(inFile, flusher.v), g)
        BY <3>2, <3>3, <4>1, OrderAppend
      <4> QED
        BY <3>1, <4>2
    <3>5. Waiting' = {Oops} \cup Range(logQueue)
      BY <2>1, <3>1 DEF Waiting
    <3>6. Waiting' \subseteq Waiting \cup {Oops}
      BY <3>5 DEF Waiting
    <3>7. Before({flusher'.v}, Range(logQueue), g)
      <4>1. {flusher'.v} \subseteq {} \cup {Oops} /\ Before({}, Range(logQueue), g)
        BY <3>1 DEF Before
      <4> QED
        BY <4>1, BeforeOops
    <3>8. Before(Range(inFile'), Waiting', g)
      <4>1. Before(Range(inFile'), Range(logQueue), g)
        <5>1. Before(Range(inFile), Range(logQueue), g)
          BY BeforeParts DEF LogOrdered, Waiting
        <5>2. Before({flusher.v}, Range(logQueue), g)
          BY DEF LogOrdered
        <5> QED
          BY <3>4, <5>1, <5>2, BeforeParts
      <4> QED
        BY <3>5, <4>1, BeforeOops
    <3>9. Before(Range(logs), Waiting', g)
      BY <3>6, BeforeOops DEF LogOrdered
    <3>10. Before(Range(batch), Range(logs) \cup Waiting', g)
      BY <3>6, BeforeOops DEF LogOrdered
    <3>11. Before(Range(delivered), Range(batch) \cup Range(logs) \cup Waiting', g)
      BY <3>6, BeforeOops DEF LogOrdered
    <3> QED
      BY <2>1, <3>1, <3>4, <3>7, <3>8, <3>9, <3>10, <3>11 DEF LogOrdered
  <2>3. CASE ToServer
    <3>1. flusher'.v = Oops /\ inFile' = inFile /\ logs' = Append(logs, flusher.v)
      BY <2>3 DEF ToServer
    <3>2. flusher.v \in Items /\ logs \in Seq(Items)
      BY DEF LogTyped
    <3>3. Before(Range(logs), {flusher.v}, g)
      BY BeforeParts DEF LogOrdered, Waiting
    <3>4. Range(logs') = Range(logs) \cup {flusher.v} /\ InOrder(logs', g)
      BY <3>1, <3>2, <3>3, OrderAppend DEF LogOrdered
    <3>5. Waiting' = {Oops} \cup Range(logQueue)
      BY <2>1, <3>1 DEF Waiting
    <3>6. Waiting' \subseteq Waiting \cup {Oops}
          /\ Range(logs') \cup Waiting' \subseteq (Range(logs) \cup Waiting) \cup {Oops}
      BY <3>4, <3>5 DEF Waiting
    <3>7. Before({flusher'.v}, Range(logQueue), g)
      <4>1. {flusher'.v} \subseteq {} \cup {Oops} /\ Before({}, Range(logQueue), g)
        BY <3>1 DEF Before
      <4> QED
        BY <4>1, BeforeOops
    <3>8. Before(Range(logs'), Waiting', g)
      <4>1. Before(Range(logs), Range(logQueue), g) /\ Before({flusher.v}, Range(logQueue), g)
        BY BeforeParts DEF LogOrdered, Waiting
      <4>2. Before(Range(logs'), Range(logQueue), g)
        BY <3>4, <4>1, BeforeParts
      <4> QED
        BY <3>5, <4>2, BeforeOops
    <3>9. Before(Range(inFile), Waiting', g)
      BY <3>6, BeforeOops DEF LogOrdered
    <3>10. Before(Range(batch), Range(logs') \cup Waiting', g)
      BY <3>6, BeforeOops DEF LogOrdered
    <3>11. Before(Range(delivered), Range(batch) \cup Range(logs') \cup Waiting', g)
      BY <3>6, BeforeOops DEF LogOrdered
    <3> QED
      BY <2>1, <3>1, <3>4, <3>7, <3>8, <3>9, <3>10, <3>11 DEF LogOrdered
  <2>4. CASE FindsFull
    <3>1. flusher'.v = flusher.v /\ inFile' = inFile /\ logs' = logs
      BY <2>4 DEF FindsFull, LogTyped
    <3> QED
      BY <2>1, <3>1 DEF LogOrdered, Waiting
  <2> QED
    BY <1>3, <2>2, <2>3, <2>4, FlushWriteCases
<1>4. CASE WriteFull \/ SyncReset
  <2>1. /\ logQueue' = Append(logQueue, Oops)
        /\ inFile' = inFile /\ logs' = logs /\ delivered' = delivered
        /\ flusher' = flusher \/ flusher'.v = Oops
        /\ batch' = batch \/ batch' = << >>
    BY <1>4 DEF WriteFull, SyncReset, Send, At
  <2>2. Before(Range(logQueue), {Oops}, g)
    <3>1. Before(Range(logQueue), {}, g)
      BY DEF Before
    <3> QED
      BY <3>1, BeforeOops
  <2>3. Range(logQueue') = Range(logQueue) \cup {Oops} /\ InOrder(logQueue', g)
    <3>1. logQueue \in Seq(Items) /\ Oops \in Items /\ InOrder(logQueue, g)
      BY <1>0 DEF LogTyped, LogOrdered, Items
    <3>2. /\ Range(Append(logQueue, Oops)) = Range(logQueue) \cup {Oops}
          /\ InOrder(Append(logQueue, Oops), g)
      BY <2>2, <3>1, OrderAppend
    <3> QED
      BY <2>1, <3>2
  <2>4. InOrder(batch', g) /\ Range(batch') \subseteq Range(batch)
    BY <2>1, OrderEmpty, RangeEmpty DEF LogOrdered
  <2>5. {flusher'.v} \subseteq {flusher.v} \cup {Oops}
    BY <2>1
  <2>6. Waiting' \subseteq Waiting \cup {Oops}
    BY <2>1, <2>3, <2>5 DEF Waiting
  <2>7. Before({flusher'.v}, Range(logQueue'), g)
    BY <2>3, <2>5, BeforeOops DEF LogOrdered
  <2>8. Before(Range(inFile), Waiting', g) /\ Before(Range(logs), Waiting', g)
    BY <2>6, BeforeOops DEF LogOrdered
  <2>9. Before(Range(batch'), Range(logs) \cup Waiting', g)
    BY <2>4, <2>6, BeforeOops DEF LogOrdered
  <2>10. Before(Range(delivered), Range(batch') \cup Range(logs) \cup Waiting', g)
    BY <2>4, <2>6, BeforeOops DEF LogOrdered
  <2> QED
    BY <2>1, <2>3, <2>4, <2>7, <2>8, <2>9, <2>10 DEF LogOrdered
<1>5. CASE SyncTake
  <2>1. /\ batch' = Append(batch, Head(logs)) /\ logs' = Tail(logs)
        /\ logQueue' = logQueue /\ flusher' = flusher /\ inFile' = inFile /\ delivered' = delivered
        /\ logs # << >>
    BY <1>5 DEF SyncTake, queue
  <2>2. logs \in Seq(Items) /\ batch \in Seq(Items) /\ Head(logs) \in Items
    BY <2>1, HeadTailProperties DEF LogTyped
  <2>3. /\ Range(logs) = {Head(logs)} \cup Range(logs') /\ InOrder(logs', g)
        /\ Before({Head(logs)}, Range(logs'), g)
    BY <2>1, <2>2, OrderTail DEF LogOrdered
  <2>4. Before(Range(batch), {Head(logs)}, g)
    BY <2>3, BeforeParts DEF LogOrdered
  <2>5. Range(batch') = Range(batch) \cup {Head(logs)} /\ InOrder(batch', g)
    BY <2>1, <2>2, <2>4, OrderAppend DEF LogOrdered
  <2>6. Waiting' = Waiting
    BY <2>1 DEF Waiting
  <2>7. Before(Range(logs'), Waiting, g) /\ Before({Head(logs)}, Waiting, g)
    BY <2>3, BeforeParts DEF LogOrdered
  <2>8. Before(Range(batch), Range(logs') \cup Waiting, g)
    <3>1. Range(logs') \cup Waiting \subseteq (Range(logs) \cup Waiting) \cup {Oops}
      BY <2>3
    <3> QED
      BY <3>1, BeforeOops DEF LogOrdered
  <2>9. Before(Range(batch'), Range(logs') \cup Waiting, g)
    <3>1. Before({Head(logs)}, Range(logs') \cup Waiting, g)
      BY <2>3, <2>7, BeforeParts
    <3>2. Before(Range(batch) \cup {Head(logs)}, Range(logs') \cup Waiting, g)
      BY <2>8, <3>1, BeforeParts
    <3> QED
      BY <2>5, <3>2
  <2>10. Range(batch') \cup Range(logs') = Range(batch) \cup Range(logs)
    BY <2>3, <2>5
  <2>11. Before(Range(delivered), Range(batch') \cup Range(logs') \cup Waiting, g)
    BY <2>10 DEF LogOrdered
  <2> QED
    BY <2>1, <2>3, <2>5, <2>6, <2>7, <2>9, <2>11 DEF LogOrdered
<1>6. CASE SyncInterval \/ SyncFails \/ CallFlush \/ FlushReturns
  <2>1. UNCHANGED << logQueue, flusher, inFile, logs, batch, delivered >>
    BY <1>6 DEF SyncInterval, SyncFails, CallFlush, FlushReturns, queue, remote
  <2> QED
    BY <2>1 DEF LogOrdered, Waiting
<1>7. CASE SyncSucceeds
  <2>1. /\ delivered' = delivered \o batch /\ batch' = << >> /\ logQueue' = logQueue
        /\ flusher' = flusher /\ inFile' = inFile /\ logs' = logs
    BY <1>7 DEF SyncSucceeds, queue
  <2>2. delivered \in Seq(Items) /\ batch \in Seq(Items)
    BY DEF LogTyped
  <2>3. Before(Range(delivered), Range(batch), g) /\ Before(Range(delivered), Range(logs) \cup Waiting, g)
    BY BeforeParts DEF LogOrdered
  <2>4. Range(delivered') = Range(delivered) \cup Range(batch)
    BY <2>1, <2>2, RangeConcatenation
  <2>5. InOrder(delivered', g)
    BY <2>1, <2>2, <2>3, OrderConcat DEF LogOrdered
  <2>6. Range(batch') = {} /\ InOrder(batch', g) /\ Before(Range(batch'), Range(logs) \cup Waiting, g)
    BY <2>1, RangeEmpty, OrderEmpty DEF Before
  <2>7. Waiting' = Waiting
    BY <2>1 DEF Waiting
  <2>8. Before(Range(delivered'), Range(batch') \cup Range(logs) \cup Waiting, g)
    <3>1. Before(Range(delivered'), Range(logs) \cup Waiting, g)
      BY <2>3, <2>4, BeforeParts DEF LogOrdered
    <3>2. Range(batch') \cup Range(logs) \cup Waiting = Range(logs) \cup Waiting
      BY <2>6
    <3> QED
      BY <3>1, <3>2
  <2> QED
    BY <2>1, <2>5, <2>6, <2>7, <2>8 DEF LogOrdered
<1> QED
  BY <1>1, <1>2, <1>3, <1>4, <1>5, <1>6, <1>7 DEF LogRest, FlusherStep, SyncerStep

-------------------------------------------------------------------------------
LEMMA LogStep == LInv /\ [LogNext]_logVars => LInv'
<1> SUFFICES ASSUME LInv, [LogNext]_logVars PROVE LInv'
  OBVIOUS
<1>1. CASE LogNext
  <2>1. LogTyped'
    BY <1>1, LogNextSplit, LogIsTyped, RestTyped DEF LInv
  <2>2. LogCounted' /\ ErrorsCounted'
    BY <1>1, CountedStep, ErrorsStep
  <2>3. ASSUME NEW g \in Goroutines PROVE LogOrdered(g)'
    BY <1>1, LogNextSplit, LogIsOrdered, RestOrdered DEF LInv
  <2> QED
    BY <2>1, <2>2, <2>3 DEF LInv
<1>2. CASE UNCHANGED logVars
  <2>1. LogTyped'
    BY <1>2 DEF logVars, queue, remote, flushing, LInv, LogTyped
  <2>2. LogCounted' /\ ErrorsCounted'
    BY <1>2 DEF logVars, queue, remote, LInv, LogCounted, Places, ErrorsCounted
  <2>3. ASSUME NEW g \in Goroutines PROVE LogOrdered(g)'
    BY <1>2 DEF logVars, queue, remote, LInv, LogOrdered, Waiting
  <2> QED
    BY <2>1, <2>2, <2>3 DEF LInv
<1> QED
  BY <1>1, <1>2

\* logger.go, remotelogger.go: whatever the capacities, a value that was logged is in one
\* place, up to the file, the log server or a loss that an error reports, in the order of
\* its goroutine, and the errors of the logger itself reach the file.
THEOREM LogIsConserved == LogSpec => []LogConserved
<1>1. LInv => LogConserved
  BY DEF LInv, LogCounted, ErrorsCounted, LogOrdered, LogConserved
<1> QED
  BY <1>1, InitLInv, LogStep, PTL DEF LogSpec

-------------------------------------------------------------------------------
(* The statistics: what a summary says of the entries it stands for. *)

SideCalls(d) == IF d = "client" THEN ClientCalls \cup Range(ReportCalls) ELSE ServerCalls
SideEntries(d) == [call : SideCalls(d), kind : Kinds]
StatEntries == [call : Entries, kind : Kinds]

Number(S, k) == Cardinality({e \in S : e.kind = k})
Times(S) == {TimeOf[e.call] : e \in S}
InPoint(S, p) == Cardinality({e \in S : InInterval(TimeOf[e.call], p)})

\* IsSummary, with the largest and the smallest time known to be that.
Exact(body, S) ==
  /\ body.Count = Number(S, "succ") /\ body.TimeoutCount = Number(S, "timeout")
  /\ body.ExecCount = Number(S, "exec")
  /\ body.TotalRspTime = Cardinality(Milliseconds(S)) /\ IsFiniteSet(Milliseconds(S))
  /\ body.MaxRspTime \in Times(S) /\ \A t \in Times(S) : t <= body.MaxRspTime
  /\ body.MinRspTime \in Times(S) /\ \A t \in Times(S) : t >= body.MinRspTime
  /\ body.IntervalCount = [p \in timePoint |-> InPoint(S, p)]

LEMMA TimeType == ASSUME NEW e \in StatEntries PROVE TimeOf[e.call] \in Nat /\ e.kind \in Kinds
  BY StatAssumption DEF StatEntries

LEMMA ExactIsSummary ==
  ASSUME NEW body, NEW S \in SUBSET StatEntries, Exact(body, S)
  PROVE  IsSummary(body, S)
<1>1. Times(S) \subseteq Nat
  BY TimeType DEF Times
<1>2. body.MaxRspTime = Max(Times(S))
  <2>1. \E x \in Times(S) : \A y \in Times(S) : x >= y
    BY <1>1 DEF Exact
  <2>2. Max(Times(S)) \in Times(S) /\ \A y \in Times(S) : Max(Times(S)) >= y
    BY <2>1 DEF Max
  <2>3. body.MaxRspTime \in Times(S) /\ \A t \in Times(S) : t <= body.MaxRspTime
    BY DEF Exact
  <2> QED
    BY <1>1, <2>2, <2>3
<1>3. body.MinRspTime = Min(Times(S))
  <2>1. \E x \in Times(S) : \A y \in Times(S) : x <= y
    BY <1>1 DEF Exact
  <2>2. Min(Times(S)) \in Times(S) /\ \A y \in Times(S) : Min(Times(S)) <= y
    BY <2>1 DEF Min
  <2>3. body.MinRspTime \in Times(S) /\ \A t \in Times(S) : t >= body.MinRspTime
    BY DEF Exact
  <2> QED
    BY <1>1, <2>2, <2>3
<1> QED
  BY <1>2, <1>3 DEF Exact, IsSummary, Times, Number, InPoint

LEMMA FirstPoint ==
  ASSUME NEW t \in Nat, t < 3000
  PROVE  \E p \in {q \in timePoint : t < q} : \A y \in {q \in timePoint : t < q} : p <= y
<1> DEFINE p == IF t < 5 THEN 5 ELSE IF t < 10 THEN 10 ELSE IF t < 50 THEN 50
                ELSE IF t < 100 THEN 100 ELSE IF t < 200 THEN 200 ELSE IF t < 500 THEN 500
                ELSE IF t < 1000 THEN 1000 ELSE IF t < 2000 THEN 2000 ELSE 3000
<1>1. p \in timePoint /\ t < p
  BY DEF timePoint
<1>2. \A q \in timePoint : t < q => p <= q
  BY DEF timePoint
<1> QED
  BY <1>1, <1>2

\* getIntervCount adds one to the interval of the time, if the time has one.
LEMMA IntervalCounted ==
  ASSUME NEW t \in Nat, NEW f \in [timePoint -> Nat]
  PROVE  getIntervCount(t, f) = [p \in timePoint |-> f[p] + (IF InInterval(t, p) THEN 1 ELSE 0)]
<1> DEFINE above == {p \in timePoint : t < p}
<1>0. timePoint # {} /\ timePoint \subseteq Nat /\ DOMAIN f = timePoint
  BY DEF timePoint
<1>1. CASE above = {}
  <2>1. \A p \in timePoint : ~InInterval(t, p)
    BY <1>1 DEF InInterval
  <2>2. getIntervCount(t, f) = f
    BY <1>0, <1>1 DEF getIntervCount
  <2>3. \A p \in timePoint : f[p] + (IF InInterval(t, p) THEN 1 ELSE 0) = f[p]
    BY <2>1
  <2> QED
    BY <2>2, <2>3
<1>2. CASE above # {}
  <2>1. t < 3000
    BY <1>2 DEF timePoint
  <2>2. \E p \in above : \A y \in above : p <= y
    BY <2>1, FirstPoint
  <2>3. Min(above) \in above /\ \A y \in above : Min(above) <= y
    BY <2>2 DEF Min
  <2> DEFINE first == Min(above)
  <2>4. getIntervCount(t, f) = [f EXCEPT ![first] = f[first] + 1]
    BY <1>0, <1>2 DEF getIntervCount
  <2>5. first \in timePoint /\ first \in Nat /\ t < first /\ \A q \in timePoint : t < q => first <= q
    BY <1>0, <2>3
  <2> HIDE DEF first
  <2>6. ASSUME NEW p \in timePoint
        PROVE  [f EXCEPT ![first] = f[first] + 1][p] = f[p] + (IF InInterval(t, p) THEN 1 ELSE 0)
    <3>1. p \in Nat
      BY <1>0
    <3>2. CASE p = first
      <4>1. \A q \in timePoint : q < p => t >= q
        BY <1>0, <2>5, <3>2
      <4> QED
        BY <1>0, <2>5, <3>2, <4>1 DEF InInterval
    <3>3. CASE p # first
      <4>1. ~InInterval(t, p)
        BY <2>5, <3>1, <3>3 DEF InInterval
      <4>2. [f EXCEPT ![first] = f[first] + 1][p] = f[p] /\ f[p] \in Nat
        BY <1>0, <3>3
      <4> QED
        BY <4>1, <4>2
    <3> QED
      BY <3>2, <3>3
  <2> QED
    BY <1>0, <2>4, <2>6
<1> QED
  BY <1>1, <1>2

LEMMA OneMore ==
  ASSUME NEW S, IsFiniteSet(S), NEW e, e \notin S, NEW P, P \subseteq S \cup {e}
  PROVE  /\ IsFiniteSet(P) /\ IsFiniteSet(P \ {e})
         /\ Cardinality(P) = Cardinality(P \ {e}) + (IF e \in P THEN 1 ELSE 0)
         /\ Cardinality(P \ {e}) \in Nat
<1> DEFINE Q == P \ {e}
<1>1. Q \in SUBSET S /\ e \notin Q /\ (e \in P => P = Q \cup {e}) /\ (e \notin P => P = Q)
  OBVIOUS
<1> HIDE DEF Q
<1>2. IsFiniteSet(Q) /\ Cardinality(Q) \in Nat
  BY <1>1, FS_Subset, FS_CardinalityType
<1>3. IsFiniteSet(Q \cup {e}) /\ Cardinality(Q \cup {e}) = Cardinality(Q) + 1
  BY <1>1, <1>2, FS_AddElement
<1>4. /\ IsFiniteSet(P) /\ IsFiniteSet(Q) /\ Cardinality(Q) \in Nat
      /\ Cardinality(P) = Cardinality(Q) + (IF e \in P THEN 1 ELSE 0)
  <2>1. CASE e \in P
    BY <1>1, <1>2, <1>3, <2>1
  <2>2. CASE e \notin P
    BY <1>1, <1>2, <2>2
  <2> QED
    BY <2>1, <2>2
<1> QED
  BY <1>4 DEF Q

LEMMA NumberGrows ==
  ASSUME NEW S, IsFiniteSet(S), NEW e, e \notin S, NEW k
  PROVE  /\ Number(S, k) \in Nat /\ Number(S \cup {e}, k) = Number(S, k) + Of(e, k)
<1> DEFINE P == {x \in S \cup {e} : x.kind = k}
<1>1. P \subseteq S \cup {e} /\ P \ {e} = {x \in S : x.kind = k} /\ (e \in P <=> e.kind = k)
  OBVIOUS
<1>2. /\ Cardinality(P) = Cardinality(P \ {e}) + (IF e \in P THEN 1 ELSE 0)
      /\ Cardinality(P \ {e}) \in Nat
  <2> HIDE DEF P
  <2> QED
    BY <1>1, OneMore
<1>3. Number(S \cup {e}, k) = Cardinality(P) /\ Number(S, k) = Cardinality(P \ {e})
  BY <1>1 DEF Number
<1> HIDE DEF P
<1> QED
  BY <1>1, <1>2, <1>3 DEF Of

LEMMA InPointGrows ==
  ASSUME NEW S, IsFiniteSet(S), NEW e, e \notin S, NEW p
  PROVE  /\ InPoint(S, p) \in Nat
         /\ InPoint(S \cup {e}, p)
              = InPoint(S, p) + (IF InInterval(TimeOf[e.call], p) THEN 1 ELSE 0)
<1> DEFINE P == {x \in S \cup {e} : InInterval(TimeOf[x.call], p)}
<1>1. /\ P \subseteq S \cup {e} /\ P \ {e} = {x \in S : InInterval(TimeOf[x.call], p)}
      /\ e \in P <=> InInterval(TimeOf[e.call], p)
  OBVIOUS
<1>2. /\ Cardinality(P) = Cardinality(P \ {e}) + (IF e \in P THEN 1 ELSE 0)
      /\ Cardinality(P \ {e}) \in Nat
  <2> HIDE DEF P
  <2> QED
    BY <1>1, OneMore
<1>3. InPoint(S \cup {e}, p) = Cardinality(P) /\ InPoint(S, p) = Cardinality(P \ {e})
  BY <1>1 DEF InPoint
<1> HIDE DEF P
<1> QED
  BY <1>1, <1>2, <1>3

LEMMA MillisecondsGrow ==
  ASSUME NEW S, IsFiniteSet(Milliseconds(S)), NEW e \in StatEntries, e \notin S
  PROVE  /\ IsFiniteSet(Milliseconds(S \cup {e})) /\ Cardinality(Milliseconds(S)) \in Nat
         /\ Cardinality(Milliseconds(S \cup {e})) = Cardinality(Milliseconds(S)) + TimeOf[e.call]
<1> DEFINE t == TimeOf[e.call]
           M == {e} \X (1..t)
<1>1. t \in Nat
  BY TimeType
<1>2. IsFiniteSet(1..t) /\ Cardinality(1..t) = t
  <2> HIDE DEF t
  <2>1. IsFiniteSet(1..t) /\ Cardinality(1..t) = IF 1 > t THEN 0 ELSE t - 1 + 1
    BY <1>1, FS_Interval
  <2> QED
    BY <1>1, <2>1
<1>3. IsFiniteSet({e}) /\ Cardinality({e}) = 1
  BY FS_Singleton
<1>4. IsFiniteSet(M) /\ Cardinality(M) = t
  <2>1. IsFiniteSet(M) /\ Cardinality(M) = Cardinality({e}) * Cardinality(1..t)
    BY <1>2, <1>3, FS_Product
  <2> QED
    BY <1>1, <1>2, <1>3, <2>1
<1>5. Milliseconds(S \cup {e}) = Milliseconds(S) \cup M
  BY DEF Milliseconds
<1>6. Milliseconds(S) \cap M = {}
  <2> SUFFICES ASSUME NEW x \in Milliseconds(S), x \in M PROVE FALSE
    OBVIOUS
  <2>1. PICK y \in S : x \in {y} \X (1..TimeOf[y.call])
    BY DEF Milliseconds
  <2>2. x[1] = y /\ x[1] = e
    BY <2>1
  <2> QED
    BY <2>1, <2>2
<1> HIDE DEF M
<1>7. /\ IsFiniteSet(Milliseconds(S) \cup M)
      /\ Cardinality(Milliseconds(S) \cup M)
           = Cardinality(Milliseconds(S)) + Cardinality(M) - Cardinality(Milliseconds(S) \cap M)
  BY <1>4, FS_Union
<1>8. Cardinality(Milliseconds(S) \cap M) = 0 /\ Cardinality(Milliseconds(S)) \in Nat
  BY <1>6, FS_EmptySet, FS_CardinalityType
<1>9. Cardinality(Milliseconds(S) \cup M) = Cardinality(Milliseconds(S)) + t
  <2> HIDE DEF t
  <2> QED
    BY <1>1, <1>4, <1>7, <1>8
<1> QED
  BY <1>5, <1>7, <1>8, <1>9

\* The first entry under a head, and every further one.
LEMMA FirstIsExact == ASSUME NEW e \in StatEntries PROVE Exact(FirstBody(e), {e})
<1> DEFINE t == TimeOf[e.call]
           b == FirstBody(e)
<1>0. t \in Nat /\ {} \cup {e} = {e} /\ IsFiniteSet({}) /\ Cardinality({}) = 0 /\ e \notin {}
  BY TimeType, FS_EmptySet
<1>1. \A k : Number({e}, k) = Of(e, k)
  <2> SUFFICES ASSUME NEW k PROVE Number({e}, k) = Of(e, k)
    OBVIOUS
  <2>1. Number({}, k) = 0
    BY <1>0 DEF Number
  <2> QED
    BY <1>0, <2>1, NumberGrows DEF Of
<1>2. IsFiniteSet(Milliseconds({e})) /\ Cardinality(Milliseconds({e})) = t
  <2>1. Milliseconds({}) = {}
    BY DEF Milliseconds
  <2> QED
    BY <1>0, <2>1, MillisecondsGrow
<1>3. Times({e}) = {t}
  BY DEF Times
<1>4. getIntervCount(t, NoStats) = [p \in timePoint |-> InPoint({e}, p)]
  <2> DEFINE zero == [p \in timePoint |-> 0]
  <2>1. getIntervCount(t, NoStats) = getIntervCount(t, zero)
    <3>1. DOMAIN NoStats = {} /\ DOMAIN zero = timePoint /\ timePoint # {}
      BY DEF NoStats, timePoint
    <3> HIDE DEF zero
    <3> QED
      BY <3>1 DEF getIntervCount, zero
  <2>2. getIntervCount(t, zero) = [p \in timePoint |-> zero[p] + (IF InInterval(t, p) THEN 1 ELSE 0)]
    BY <1>0, IntervalCounted
  <2>3. ASSUME NEW p \in timePoint
        PROVE  zero[p] + (IF InInterval(t, p) THEN 1 ELSE 0) = InPoint({e}, p)
    <3>1. InPoint({}, p) = 0
      BY <1>0 DEF InPoint
    <3> QED
      BY <1>0, <3>1, InPointGrows
  <2> QED
    BY <2>1, <2>2, <2>3
<1>5. /\ b.Count = Of(e, "succ") /\ b.TimeoutCount = Of(e, "timeout") /\ b.ExecCount = Of(e, "exec")
      /\ b.TotalRspTime = t /\ b.MaxRspTime = t /\ b.MinRspTime = t
      /\ b.IntervalCount = getIntervCount(t, NoStats)
  BY DEF FirstBody
<1> HIDE DEF b, t
<1> QED
  BY <1>0, <1>1, <1>2, <1>3, <1>4, <1>5 DEF Exact, b

LEMMA AddIsExact ==
  ASSUME NEW S \in SUBSET StatEntries, IsFiniteSet(S), NEW e \in StatEntries, e \notin S,
         NEW body, Exact(body, S)
  PROVE  Exact(AddTo(body, e), S \cup {e})
<1> DEFINE t == TimeOf[e.call]
           b == AddTo(body, e)
<1>0. t \in Nat /\ \A x \in Times(S) : x \in Nat
  BY TimeType DEF Times
<1>1. \A k : Number(S \cup {e}, k) = Number(S, k) + Of(e, k)
  BY NumberGrows
<1>2. /\ IsFiniteSet(Milliseconds(S \cup {e}))
      /\ Cardinality(Milliseconds(S \cup {e})) = Cardinality(Milliseconds(S)) + t
  BY MillisecondsGrow DEF Exact
<1>3. Times(S \cup {e}) = Times(S) \cup {t}
  BY DEF Times
<1>4. getIntervCount(t, body.IntervalCount) = [p \in timePoint |-> InPoint(S \cup {e}, p)]
  <2> DEFINE f == [p \in timePoint |-> InPoint(S, p)]
  <2>1. body.IntervalCount = f
    BY DEF Exact
  <2>2. f \in [timePoint -> Nat]
    BY InPointGrows
  <2>3. getIntervCount(t, f) = [p \in timePoint |-> f[p] + (IF InInterval(t, p) THEN 1 ELSE 0)]
    BY <1>0, <2>2, IntervalCounted
  <2>4. \A p \in timePoint : f[p] + (IF InInterval(t, p) THEN 1 ELSE 0) = InPoint(S \cup {e}, p)
    BY InPointGrows
  <2> QED
    BY <2>1, <2>3, <2>4
<1>5. /\ b.Count = body.Count + Of(e, "succ") /\ b.TimeoutCount = body.TimeoutCount + Of(e, "timeout")
      /\ b.ExecCount = body.ExecCount + Of(e, "exec") /\ b.TotalRspTime = body.TotalRspTime + t
      /\ b.MaxRspTime = (IF body.MaxRspTime < t THEN t ELSE body.MaxRspTime)
      /\ b.MinRspTime = (IF body.MinRspTime > t THEN t ELSE body.MinRspTime)
      /\ b.IntervalCount = getIntervCount(t, body.IntervalCount)
  BY DEF AddTo
<1> HIDE DEF b, t
<1>6. b.MaxRspTime \in Times(S \cup {e}) /\ \A x \in Times(S \cup {e}) : x <= b.MaxRspTime
  BY <1>0, <1>3, <1>5 DEF Exact
<1>7. b.MinRspTime \in Times(S \cup {e}) /\ \A x \in Times(S \cup {e}) : x >= b.MinRspTime
  BY <1>0, <1>3, <1>5 DEF Exact
<1> QED
  BY <1>1, <1>2, <1>4, <1>5, <1>6, <1>7 DEF Exact, b

-------------------------------------------------------------------------------
(* The statistics: what the invariant says. *)

\* A channel and a map hold entries of their own side; a report call that has ended has
\* a number.
StatTyped ==
  /\ toReport \subseteq ClientCalls \cup ServerCalls
  /\ chStatInfo \in [Sides -> Seq(StatEntries)] /\ collected \in [Sides -> SUBSET StatEntries]
  /\ mStatInfo = [d \in Sides |-> mStatInfo[d]]
  /\ \A d \in Sides : /\ chStatInfo[d] \in Seq(SideEntries(d))
                      /\ collected[d] \subseteq SideEntries(d) /\ IsFiniteSet(collected[d])
  /\ carried \in [Entries -> Nat]
  /\ runner \in [at : {"select", "call", "push"}, side : Sides, kind : {"succ", "timeout", "none"}]
  /\ nReports \in 0..Len(ReportCalls)
  /\ runner.at = "call" => nReports < Len(ReportCalls)
  /\ runner.at = "push" => nReports > 0 /\ runner.kind # "none"

EntriesOf(c) == [call : {c}, kind : Kinds]
Held(c) == EntriesOf(c) \cap (collected["client"] \cup collected["server"])
InPlaces(c) ==
  Among(chStatInfo["client"], EntriesOf(c)) + Among(chStatInfo["server"], EntriesOf(c))
    + Cardinality(Held(c)) + carried[c]

StatCounted == \A c \in Entries : InPlaces(c) = IF c \in Pushed THEN 1 ELSE 0

Under(d, h) == {e \in collected[d] : HeadOf[e.call] = h}
Summarised(d) ==
  /\ DOMAIN mStatInfo[d] = {HeadOf[e.call] : e \in collected[d]}
  /\ \A h \in DOMAIN mStatInfo[d] : Exact(mStatInfo[d][h], Under(d, h))

SInv == StatTyped /\ StatCounted /\ \A d \in Sides : Summarised(d)

LEMMA ReportsTyped ==
  /\ DOMAIN ReportCalls = 1..Len(ReportCalls) /\ Len(ReportCalls) \in Nat
  /\ \A i \in 1..Len(ReportCalls) :
       ReportCalls[i] \in Entries /\ ReportCalls[i] \in Range(ReportCalls)
<1>1. ReportCalls \in Seq(Entries)
  BY StatAssumption
<1>2. DOMAIN ReportCalls = 1..Len(ReportCalls) /\ Len(ReportCalls) \in Nat
  BY <1>1, LenProperties
<1> QED
  BY <1>1, <1>2, ElementOfSeq DEF Range

LEMMA SidesTyped ==
  ASSUME NEW d \in Sides
  PROVE  SideEntries(d) \subseteq StatEntries /\ "client" \in Sides /\ "server" \in Sides
  BY DEF SideEntries, SideCalls, StatEntries, Entries, Sides

LEMMA InitSInv == StatInit => SInv
<1> SUFFICES ASSUME StatInit PROVE SInv
  OBVIOUS
<1> USE DEF StatInit
<1>1. StatTyped
  <2>1. << >> \in Seq(StatEntries) /\ \A d \in Sides : << >> \in Seq(SideEntries(d))
    BY EmptySeq
  <2>2. IsFiniteSet({})
    BY FS_EmptySet
  <2>3. nReports \in 0..Len(ReportCalls)
    BY ReportsTyped
  <2>4. runner = [at |-> "select", side |-> "client", kind |-> "none"]
    BY DEF Selecting
  <2> QED
    BY <2>1, <2>2, <2>3, <2>4 DEF StatTyped, Sides
<1>2. StatCounted
  <2> SUFFICES ASSUME NEW c \in Entries PROVE InPlaces(c) = IF c \in Pushed THEN 1 ELSE 0
    BY DEF StatCounted
  <2>1. /\ Among(chStatInfo["client"], EntriesOf(c)) = 0
        /\ Among(chStatInfo["server"], EntriesOf(c)) = 0
    BY AmongEmpty DEF Sides
  <2>2. Held(c) = {} /\ Cardinality({}) = 0
    BY FS_EmptySet DEF Held, Sides
  <2>3. Pushed = {}
    BY DEF Pushed, Selecting
  <2> QED
    BY <2>1, <2>2, <2>3 DEF InPlaces
<1>3. ASSUME NEW d \in Sides PROVE Summarised(d)
  BY DEF Summarised, NoStats
<1> QED
  BY <1>1, <1>2, <1>3 DEF SInv

-------------------------------------------------------------------------------
(* The types. *)

\* What a push does to the channel of its side.
LEMMA PushTyped ==
  ASSUME StatTyped, NEW d \in Sides, NEW c \in SideCalls(d), NEW k \in Kinds, Push(d, c, k)
  PROVE  /\ [call |-> c, kind |-> k] \in SideEntries(d)
         /\ chStatInfo' = [chStatInfo EXCEPT ![d] = Append(chStatInfo[d], [call |-> c, kind |-> k])]
         /\ chStatInfo' \in [Sides -> Seq(StatEntries)]
         /\ \A x \in Sides : chStatInfo'[x] \in Seq(SideEntries(x))
<1> DEFINE e == [call |-> c, kind |-> k]
<1>1. e \in SideEntries(d) /\ e \in StatEntries
  BY SidesTyped DEF SideEntries
<1>2. chStatInfo' = [chStatInfo EXCEPT ![d] = Append(chStatInfo[d], e)]
  BY DEF Push
<1> HIDE DEF e
<1>3. chStatInfo[d] \in Seq(SideEntries(d)) /\ chStatInfo[d] \in Seq(StatEntries)
  BY DEF StatTyped
<1>4. Append(chStatInfo[d], e) \in Seq(SideEntries(d)) /\ Append(chStatInfo[d], e) \in Seq(StatEntries)
  BY <1>1, <1>3, AppendProperties
<1>5. chStatInfo' \in [Sides -> Seq(StatEntries)]
  BY <1>2, <1>4 DEF StatTyped
<1>6. \A x \in Sides : chStatInfo'[x] \in Seq(SideEntries(x))
  BY <1>2, <1>4 DEF StatTyped
<1> QED
  BY <1>1, <1>2, <1>5, <1>6 DEF e

LEMMA StatIsTyped == ASSUME StatTyped, StatNext PROVE StatTyped'
<1>1. ASSUME NEW c, ReportStatFromClient(c) PROVE StatTyped'
  <2>1. PICK k \in Kinds : Push("client", c, k)
    BY <1>1 DEF ReportStatFromClient
  <2>2. c \in SideCalls("client") /\ "client" \in Sides
    BY <1>1 DEF ReportStatFromClient, SideCalls, Sides
  <2>3. /\ chStatInfo' \in [Sides -> Seq(StatEntries)]
        /\ \A x \in Sides : chStatInfo'[x] \in Seq(SideEntries(x))
    BY <2>1, <2>2, PushTyped
  <2> QED
    BY <1>1, <2>3 DEF ReportStatFromClient, StatTyped
<1>2. ASSUME NEW c, ReportStatFromServer(c) PROVE StatTyped'
  <2>1. PICK k \in Kinds : Push("server", c, k)
    BY <1>2 DEF ReportStatFromServer, Kinds
  <2>2. c \in SideCalls("server") /\ "server" \in Sides
    BY <1>2 DEF ReportStatFromServer, SideCalls, Sides
  <2>3. /\ chStatInfo' \in [Sides -> Seq(StatEntries)]
        /\ \A x \in Sides : chStatInfo'[x] \in Seq(SideEntries(x))
    BY <2>1, <2>2, PushTyped
  <2> QED
    BY <1>2, <2>3 DEF ReportStatFromServer, StatTyped
<1>3. ASSUME NEW d \in Sides, collectMsg(d) PROVE StatTyped'
  <2> DEFINE e == Head(chStatInfo[d])
  <2>1. /\ chStatInfo[d] # << >>
        /\ chStatInfo' = [chStatInfo EXCEPT ![d] = Tail(chStatInfo[d])]
        /\ collected' = [collected EXCEPT ![d] = collected[d] \cup {e}]
        /\ \E b : mStatInfo' = [mStatInfo EXCEPT ![d] = b]
        /\ UNCHANGED << toReport, runner, nReports, carried >>
    BY <1>3 DEF collectMsg
  <2>2. e \in SideEntries(d) /\ Tail(chStatInfo[d]) \in Seq(SideEntries(d))
    BY <2>1, HeadTailProperties DEF StatTyped
  <2>3. e \in StatEntries /\ Tail(chStatInfo[d]) \in Seq(StatEntries)
    BY <2>1, HeadTailProperties DEF StatTyped
  <2> HIDE DEF e
  <2>4. chStatInfo' \in [Sides -> Seq(StatEntries)]
        /\ \A x \in Sides : chStatInfo'[x] \in Seq(SideEntries(x))
    BY <2>1, <2>2, <2>3 DEF StatTyped
  <2>5. IsFiniteSet(collected[d] \cup {e})
    BY FS_AddElement DEF StatTyped
  <2>6. collected' \in [Sides -> SUBSET StatEntries]
        /\ \A x \in Sides : collected'[x] \subseteq SideEntries(x) /\ IsFiniteSet(collected'[x])
    BY <2>1, <2>2, <2>3, <2>5 DEF StatTyped
  <2>7. mStatInfo' = [x \in Sides |-> mStatInfo'[x]]
    BY <2>1 DEF StatTyped
  <2> QED
    BY <2>1, <2>4, <2>6, <2>7 DEF StatTyped
<1>4. CASE Tick
  BY <1>4 DEF Tick, Reporting, StatTyped, Sides
<1>5. ASSUME NEW k \in {"succ", "timeout"}, CallEnds(k) PROVE StatTyped'
  <2>1. /\ runner.at = "call" /\ runner' = [runner EXCEPT !.at = "push", !.kind = k]
        /\ nReports' = nReports + 1
        /\ UNCHANGED << toReport, chStatInfo, mStatInfo, collected, carried >>
    BY <1>5 DEF CallEnds
  <2>2. nReports' \in 0..Len(ReportCalls) /\ nReports' > 0
    BY <2>1, ReportsTyped DEF StatTyped
  <2>3. /\ runner' \in [at : {"select", "call", "push"}, side : Sides,
                        kind : {"succ", "timeout", "none"}]
        /\ runner'.at = "push" /\ runner'.kind # "none"
    BY <2>1 DEF StatTyped
  <2> QED
    BY <2>1, <2>2, <2>3 DEF StatTyped
<1>6. CASE Cleared
  <2> DEFINE r == ReportCalls[nReports]
             d == runner.side
  <2>1. /\ runner.at = "push" /\ Push("client", r, runner.kind)
        /\ mStatInfo' = [mStatInfo EXCEPT ![d] = NoStats]
        /\ collected' = [collected EXCEPT ![d] = {}] /\ Carry(d)
        /\ UNCHANGED << toReport, nReports >>
    BY <1>6 DEF Cleared
  <2>2. runner.kind \in Kinds /\ nReports \in 1..Len(ReportCalls)
    BY <2>1, ReportsTyped DEF StatTyped, Kinds
  <2>3. r \in SideCalls("client") /\ "client" \in Sides
    BY <2>2, ReportsTyped DEF SideCalls, Sides
  <2>4. /\ chStatInfo' \in [Sides -> Seq(StatEntries)]
        /\ \A x \in Sides : chStatInfo'[x] \in Seq(SideEntries(x))
    BY <2>1, <2>2, <2>3, PushTyped
  <2>5. d \in Sides
    BY DEF StatTyped
  <2>6. collected' \in [Sides -> SUBSET StatEntries]
        /\ \A x \in Sides : collected'[x] \subseteq SideEntries(x) /\ IsFiniteSet(collected'[x])
    BY <2>1, <2>5, FS_EmptySet DEF StatTyped
  <2>7. mStatInfo' = [x \in Sides |-> mStatInfo'[x]]
    BY <2>1, <2>5 DEF StatTyped
  <2>8. carried' \in [Entries -> Nat]
    <3>1. ASSUME NEW c \in Entries
          PROVE  carried[c] + Cardinality({e \in collected[d] : e.call = c}) \in Nat
      <4>1. {e \in collected[d] : e.call = c} \in SUBSET collected[d] /\ IsFiniteSet(collected[d])
        BY <2>5 DEF StatTyped
      <4>2. Cardinality({e \in collected[d] : e.call = c}) \in Nat
        BY <4>1, FS_Subset, FS_CardinalityType
      <4> QED
        BY <4>2 DEF StatTyped
    <3> QED
      BY <2>1, <3>1 DEF Carry
  <2>9. \/ runner' = Selecting
        \/ runner' = Reporting("server") /\ nReports < Len(ReportCalls)
    BY <1>6 DEF Cleared
  <2>10. /\ runner' \in [at : {"select", "call", "push"}, side : Sides,
                         kind : {"succ", "timeout", "none"}]
         /\ runner'.at # "push" /\ (runner'.at = "call" => nReports < Len(ReportCalls))
    BY <2>9 DEF Selecting, Reporting, Sides
  <2> HIDE DEF d, r
  <2> QED
    BY <2>1, <2>4, <2>6, <2>7, <2>8, <2>10 DEF StatTyped
<1> QED
  BY <1>1, <1>2, <1>3, <1>4, <1>5, <1>6 DEF StatNext, RunStep, CallerStep

-------------------------------------------------------------------------------
(* The places of an entry. *)

HeldIn(d, c) == EntriesOf(c) \cap collected[d]
AtSide(d, c) == Among(chStatInfo[d], EntriesOf(c)) + Cardinality(HeldIn(d, c))

\* An entry is collected on its own side only, so the two sides can be counted apart.
LEMMA PlacesBySide ==
  ASSUME StatTyped, NEW c \in Entries
  PROVE  /\ \A d \in Sides : /\ Among(chStatInfo[d], EntriesOf(c)) \in Nat
                             /\ IsFiniteSet(HeldIn(d, c)) /\ Cardinality(HeldIn(d, c)) \in Nat
                             /\ AtSide(d, c) \in Nat
         /\ carried[c] \in Nat
         /\ InPlaces(c) = AtSide("client", c) + AtSide("server", c) + carried[c]
<1>1. ASSUME NEW d \in Sides
      PROVE  /\ Among(chStatInfo[d], EntriesOf(c)) \in Nat
             /\ IsFiniteSet(HeldIn(d, c)) /\ Cardinality(HeldIn(d, c)) \in Nat
  <2>1. chStatInfo[d] \in Seq(StatEntries) /\ IsFiniteSet(collected[d])
    BY DEF StatTyped
  <2>2. HeldIn(d, c) \in SUBSET collected[d]
    BY DEF HeldIn
  <2> QED
    BY <2>1, <2>2, AmongType, FS_Subset, FS_CardinalityType
<1>2. "client" \in Sides /\ "server" \in Sides
  BY DEF Sides
<1>3. Held(c) = HeldIn("client", c) \cup HeldIn("server", c)
  BY DEF Held, HeldIn
<1>4. HeldIn("client", c) \cap HeldIn("server", c) = {}
  <2> SUFFICES ASSUME NEW e \in HeldIn("client", c), e \in HeldIn("server", c) PROVE FALSE
    OBVIOUS
  <2>1. e \in SideEntries("client") /\ e \in SideEntries("server")
    BY <1>2 DEF HeldIn, StatTyped
  <2>2. e.call \in ClientCalls \cup Range(ReportCalls) /\ e.call \in ServerCalls
    BY <2>1 DEF SideEntries, SideCalls
  <2> QED
    BY <2>2, StatAssumption
<1>5. Cardinality(Held(c)) = Cardinality(HeldIn("client", c)) + Cardinality(HeldIn("server", c))
  <2>1. Cardinality(Held(c)) = Cardinality(HeldIn("client", c)) + Cardinality(HeldIn("server", c))
                                 - Cardinality(HeldIn("client", c) \cap HeldIn("server", c))
    BY <1>1, <1>2, <1>3, FS_Union
  <2>2. Cardinality(HeldIn("client", c) \cap HeldIn("server", c)) = 0
    BY <1>4, FS_EmptySet
  <2> QED
    BY <1>1, <1>2, <2>1, <2>2
<1>6. carried[c] \in Nat
  BY DEF StatTyped
<1>7. \A d \in Sides : AtSide(d, c) \in Nat
  BY <1>1 DEF AtSide
<1>8. InPlaces(c) = AtSide("client", c) + AtSide("server", c) + carried[c]
  BY <1>1, <1>2, <1>5, <1>6 DEF InPlaces, AtSide
<1> QED
  BY <1>1, <1>6, <1>7, <1>8

\* The same of the next state.
SidesAddUp == \A c \in Entries : InPlaces(c) = AtSide("client", c) + AtSide("server", c) + carried[c]

LEMMA PlacesAddUp == StatTyped => SidesAddUp
  BY PlacesBySide DEF SidesAddUp

LEMMA NextPlacesBySide ==
  ASSUME StatTyped', NEW c \in Entries
  PROVE  InPlaces(c)' = AtSide("client", c)' + AtSide("server", c)' + carried'[c]
<1>1. StatTyped' => SidesAddUp'
  BY PlacesAddUp, PTL
<1> QED
  BY <1>1 DEF SidesAddUp

\* A push puts one more entry of its call into the channel.
LEMMA PushCounted ==
  ASSUME StatTyped, NEW d \in Sides, NEW x \in SideCalls(d), NEW k \in Kinds, Push(d, x, k),
         NEW c \in Entries
  PROVE  /\ Among(chStatInfo'[d], EntriesOf(c))
              = Among(chStatInfo[d], EntriesOf(c)) + (IF c = x THEN 1 ELSE 0)
         /\ \A y \in Sides : y # d => chStatInfo'[y] = chStatInfo[y]
<1> DEFINE e == [call |-> x, kind |-> k]
<1>1. e \in SideEntries(d) /\ chStatInfo' = [chStatInfo EXCEPT ![d] = Append(chStatInfo[d], e)]
  BY PushTyped
<1>2. chStatInfo[d] \in Seq(SideEntries(d))
  BY DEF StatTyped
<1>3. e \in EntriesOf(c) <=> c = x
  BY DEF EntriesOf
<1> HIDE DEF e
<1>4. Among(Append(chStatInfo[d], e), EntriesOf(c))
        = Among(chStatInfo[d], EntriesOf(c)) + (IF e \in EntriesOf(c) THEN 1 ELSE 0)
  BY <1>1, <1>2, AmongAppend
<1>5. chStatInfo'[d] = Append(chStatInfo[d], e)
      /\ \A y \in Sides : y # d => chStatInfo'[y] = chStatInfo[y]
  BY <1>1 DEF StatTyped
<1> QED
  BY <1>3, <1>4, <1>5

\* What Run collects was not collected before: it is in one place, the channel.
LEMMA CollectedIsNew ==
  ASSUME SInv, NEW d \in Sides, chStatInfo[d] # << >>, NEW e, e = Head(chStatInfo[d])
  PROVE  e \in StatEntries /\ e \in SideEntries(d) /\ e \notin collected[d]
<1> DEFINE c == e.call
<1>1. StatTyped
  BY DEF SInv
<1>2. e \in StatEntries /\ e \in SideEntries(d) /\ Tail(chStatInfo[d]) \in Seq(StatEntries)
  BY <1>1, HeadTailProperties DEF StatTyped
<1>3. c \in Entries /\ e \in EntriesOf(c)
  BY <1>2 DEF StatEntries, EntriesOf
<1>4. Among(chStatInfo[d], EntriesOf(c)) = 1 + Among(Tail(chStatInfo[d]), EntriesOf(c))
  <2>1. Among(chStatInfo[d], EntriesOf(c))
          = (IF Head(chStatInfo[d]) \in EntriesOf(c) THEN 1 ELSE 0)
              + Among(Tail(chStatInfo[d]), EntriesOf(c))
    BY <1>1, AmongTail DEF StatTyped
  <2> QED
    BY <1>3, <2>1
<1>5. Among(Tail(chStatInfo[d]), EntriesOf(c)) \in Nat
  BY <1>2, AmongType
<1>6. InPlaces(c) <= 1
  BY <1>3 DEF SInv, StatCounted
<1> HIDE DEF c
<1>7. Cardinality(HeldIn(d, c)) = 0
  <2>1. /\ AtSide("client", c) \in Nat /\ AtSide("server", c) \in Nat /\ carried[c] \in Nat
        /\ Cardinality(HeldIn(d, c)) \in Nat
        /\ InPlaces(c) = AtSide("client", c) + AtSide("server", c) + carried[c]
    BY <1>1, <1>3, PlacesBySide DEF Sides
  <2>2. AtSide(d, c) <= 1
    BY <1>6, <2>1 DEF Sides
  <2>3. AtSide(d, c) = 1 + Among(Tail(chStatInfo[d]), EntriesOf(c)) + Cardinality(HeldIn(d, c))
    BY <1>4 DEF AtSide
  <2> QED
    BY <1>5, <2>1, <2>2, <2>3
<1>8. HeldIn(d, c) = {}
  BY <1>1, <1>3, <1>7, PlacesBySide, FS_EmptySet
<1> QED
  BY <1>2, <1>3, <1>8 DEF HeldIn

LEMMA CollectCounted ==
  ASSUME SInv, NEW d \in Sides, collectMsg(d), NEW c \in Entries, NEW x \in Sides
  PROVE  AtSide(x, c)' = AtSide(x, c)
<1> DEFINE e == Head(chStatInfo[d])
           rest == Tail(chStatInfo[d])
<1>1. /\ chStatInfo[d] # << >> /\ StatTyped
      /\ chStatInfo' = [chStatInfo EXCEPT ![d] = rest]
      /\ collected' = [collected EXCEPT ![d] = collected[d] \cup {e}]
  BY DEF collectMsg, SInv
<1>2. e \in StatEntries /\ e \notin collected[d]
  BY <1>1, CollectedIsNew
<1>3. Among(chStatInfo[d], EntriesOf(c))
        = (IF e \in EntriesOf(c) THEN 1 ELSE 0) + Among(rest, EntriesOf(c))
  BY <1>1, AmongTail DEF StatTyped
<1>4. Among(rest, EntriesOf(c)) \in Nat
  <2>1. rest \in Seq(StatEntries)
    BY <1>1, HeadTailProperties DEF StatTyped
  <2> QED
    BY <2>1, AmongType
<1> HIDE DEF e, rest
<1>5. CASE x = d
  <2>1. chStatInfo'[d] = rest /\ collected'[d] = collected[d] \cup {e}
    BY <1>1 DEF StatTyped
  <2>2. IsFiniteSet(HeldIn(d, c)) /\ Cardinality(HeldIn(d, c)) \in Nat /\ e \notin HeldIn(d, c)
    BY <1>1, <1>2, PlacesBySide DEF HeldIn
  <2>3. CASE e \in EntriesOf(c)
    <3>1. HeldIn(d, c)' = HeldIn(d, c) \cup {e}
      BY <2>1, <2>3 DEF HeldIn
    <3>2. Cardinality(HeldIn(d, c)') = Cardinality(HeldIn(d, c)) + 1
      BY <2>2, <3>1, FS_AddElement
    <3>3. Among(chStatInfo[d], EntriesOf(c)) = 1 + Among(chStatInfo'[d], EntriesOf(c))
      BY <1>3, <2>1, <2>3
    <3>4. Among(chStatInfo'[d], EntriesOf(c)) \in Nat
      BY <1>4, <2>1
    <3> QED
      BY <1>5, <2>2, <3>2, <3>3, <3>4 DEF AtSide
  <2>4. CASE e \notin EntriesOf(c)
    <3>1. HeldIn(d, c)' = HeldIn(d, c)
      BY <2>1, <2>4 DEF HeldIn
    <3>2. Among(chStatInfo'[d], EntriesOf(c)) = Among(chStatInfo[d], EntriesOf(c))
      BY <1>3, <1>4, <2>1, <2>4
    <3> QED
      BY <1>5, <3>1, <3>2 DEF AtSide
  <2> QED
    BY <2>3, <2>4
<1>6. CASE x # d
  <2>1. chStatInfo'[x] = chStatInfo[x] /\ collected'[x] = collected[x]
    BY <1>1, <1>6 DEF StatTyped
  <2> QED
    BY <2>1 DEF AtSide, HeldIn
<1> QED
  BY <1>5, <1>6

\* The call of a new report has had no entry.
LEMMA ReportIsNew ==
  ASSUME StatTyped, runner.at = "push"
  PROVE  /\ ReportCalls[nReports] \in Entries /\ ReportCalls[nReports] \notin Pushed
         /\ Pushed \cup {ReportCalls[nReports]}
              = ((ClientCalls \cup ServerCalls) \ toReport) \cup {ReportCalls[i] : i \in 1..nReports}
<1> DEFINE r == ReportCalls[nReports]
<1>1. nReports \in 1..Len(ReportCalls) /\ nReports - 1 \in Nat /\ Len(ReportCalls) \in Nat
  BY ReportsTyped DEF StatTyped
<1>2. r \in Entries /\ r \notin ClientCalls \cup ServerCalls
  BY <1>1, ReportsTyped, StatAssumption
<1>3. \A i \in 1..(nReports - 1) : ReportCalls[i] # r
  <2> SUFFICES ASSUME NEW i \in 1..(nReports - 1) PROVE ReportCalls[i] # r
    OBVIOUS
  <2>1. i \in DOMAIN ReportCalls /\ nReports \in DOMAIN ReportCalls /\ i # nReports
    BY <1>1, ReportsTyped
  <2> QED
    BY <2>1, StatAssumption
<1>4. Pushed = ((ClientCalls \cup ServerCalls) \ toReport)
                 \cup {ReportCalls[i] : i \in 1..(nReports - 1)}
  BY DEF Pushed
<1>5. {ReportCalls[i] : i \in 1..(nReports - 1)} \cup {r} = {ReportCalls[i] : i \in 1..nReports}
  <2>1. 1..nReports = (1..(nReports - 1)) \cup {nReports}
    BY <1>1
  <2> QED
    BY <2>1
<1>6. r \notin Pushed
  BY <1>2, <1>3, <1>4
<1> HIDE DEF r
<1>7. Pushed \cup {r}
        = ((ClientCalls \cup ServerCalls) \ toReport) \cup {ReportCalls[i] : i \in 1..nReports}
  BY <1>4, <1>5
<1> QED
  BY <1>2, <1>6, <1>7 DEF r

LEMMA CallerCounted ==
  ASSUME SInv, NEW d \in Sides, NEW x \in SideCalls(d) \cap toReport, NEW k \in Kinds,
         Push(d, x, k), toReport' = toReport \ {x},
         UNCHANGED << mStatInfo, runner, nReports, collected, carried >>
  PROVE  StatCounted'
<1> SUFFICES ASSUME NEW c \in Entries PROVE InPlaces(c)' = IF c \in Pushed' THEN 1 ELSE 0
  BY DEF StatCounted
<1>0. StatTyped /\ StatTyped' /\ InPlaces(c) = IF c \in Pushed THEN 1 ELSE 0
  <2>1. StatTyped
    BY DEF SInv
  <2>2. /\ chStatInfo' \in [Sides -> Seq(StatEntries)]
        /\ \A y \in Sides : chStatInfo'[y] \in Seq(SideEntries(y))
    BY <2>1, PushTyped
  <2> QED
    BY <2>1, <2>2 DEF StatTyped, SInv, StatCounted
<1>1. x \in ClientCalls \cup ServerCalls /\ x \notin Range(ReportCalls)
  BY <1>0, StatAssumption DEF StatTyped
<1>2. c \in Pushed' <=> c \in Pushed \/ c = x
  BY <1>1 DEF Pushed
<1>3. x \notin Pushed
  <2>1. \A i \in 1..(IF runner.at = "push" THEN nReports - 1 ELSE nReports) :
          ReportCalls[i] \in Range(ReportCalls)
    BY <1>0, ReportsTyped DEF StatTyped
  <2> QED
    BY <1>1, <2>1 DEF Pushed
<1>4. AtSide(d, c)' = AtSide(d, c) + (IF c = x THEN 1 ELSE 0)
  <2>1. Among(chStatInfo'[d], EntriesOf(c))
              = Among(chStatInfo[d], EntriesOf(c)) + (IF c = x THEN 1 ELSE 0)
    BY <1>0, PushCounted
  <2>2. HeldIn(d, c)' = HeldIn(d, c)
    BY DEF HeldIn
  <2>3. Among(chStatInfo[d], EntriesOf(c)) \in Nat /\ Cardinality(HeldIn(d, c)) \in Nat
    BY <1>0, PlacesBySide
  <2>4. CASE c = x
    BY <2>1, <2>2, <2>3, <2>4 DEF AtSide
  <2>5. CASE c # x
    BY <2>1, <2>2, <2>3, <2>5 DEF AtSide
  <2> QED
    BY <2>4, <2>5
<1>5. \A y \in Sides : y # d => AtSide(y, c)' = AtSide(y, c)
  <2>1. \A y \in Sides : y # d => chStatInfo'[y] = chStatInfo[y]
    BY <1>0, PushCounted
  <2> QED
    BY <2>1 DEF AtSide, HeldIn
<1>6. /\ InPlaces(c) = AtSide("client", c) + AtSide("server", c) + carried[c]
      /\ AtSide("client", c) \in Nat /\ AtSide("server", c) \in Nat /\ carried[c] \in Nat
  BY <1>0, PlacesBySide DEF Sides
<1>7. InPlaces(c)' = AtSide("client", c)' + AtSide("server", c)' + carried'[c]
  BY <1>0, NextPlacesBySide
<1>8. InPlaces(c)' = InPlaces(c) + (IF c = x THEN 1 ELSE 0)
  <2>1. carried' = carried
    OBVIOUS
  <2>2. CASE d = "client"
    BY <1>4, <1>5, <1>6, <1>7, <2>1, <2>2 DEF Sides
  <2>3. CASE d = "server"
    BY <1>4, <1>5, <1>6, <1>7, <2>1, <2>3 DEF Sides
  <2> QED
    BY <2>2, <2>3 DEF Sides
<1> QED
  BY <1>0, <1>2, <1>3, <1>8

LEMMA ClearedCounted == ASSUME SInv, Cleared PROVE StatCounted'
<1> SUFFICES ASSUME NEW c \in Entries PROVE InPlaces(c)' = IF c \in Pushed' THEN 1 ELSE 0
  BY DEF StatCounted
<1> DEFINE r == ReportCalls[nReports]
<1>0. StatTyped /\ StatTyped' /\ InPlaces(c) = IF c \in Pushed THEN 1 ELSE 0
  BY StatIsTyped DEF SInv, StatCounted, StatNext, RunStep
<1>d. PICK d \in Sides : d = runner.side
  BY <1>0 DEF StatTyped
<1>1. /\ runner.at = "push" /\ Push("client", r, runner.kind)
      /\ collected' = [collected EXCEPT ![d] = {}] /\ Carry(d)
      /\ UNCHANGED << toReport, nReports >>
  BY <1>d DEF Cleared
<1>2. runner.kind \in Kinds /\ nReports \in 1..Len(ReportCalls)
  BY <1>0, <1>1, ReportsTyped DEF StatTyped, Kinds
<1>3. r \in SideCalls("client") /\ "client" \in Sides /\ "server" \in Sides
  BY <1>2, ReportsTyped DEF SideCalls, Sides
<1>4. /\ Among(chStatInfo'["client"], EntriesOf(c))
           = Among(chStatInfo["client"], EntriesOf(c)) + (IF c = r THEN 1 ELSE 0)
      /\ chStatInfo'["server"] = chStatInfo["server"]
  BY <1>0, <1>1, <1>2, <1>3, PushCounted
<1>5. runner'.at # "push"
  BY DEF Cleared, Selecting, Reporting
<1>6. r \notin Pushed /\ (c \in Pushed' <=> c \in Pushed \/ c = r)
  <2>1. Pushed' = ((ClientCalls \cup ServerCalls) \ toReport) \cup {ReportCalls[i] : i \in 1..nReports}
    BY <1>1, <1>5 DEF Pushed
  <2> QED
    BY <1>0, <1>1, <2>1, ReportIsNew
<1>7. carried'[c] = carried[c] + Cardinality(HeldIn(d, c))
  <2>1. {e \in collected[d] : e.call = c} = HeldIn(d, c)
    <3>1. collected[d] \subseteq StatEntries
      BY <1>0, <1>2 DEF StatTyped
    <3>2. \A e \in StatEntries : e \in EntriesOf(c) <=> e.call = c
      BY DEF StatEntries, EntriesOf
    <3> QED
      BY <3>1, <3>2 DEF HeldIn
  <2> QED
    BY <1>1, <2>1 DEF Carry
<1>8. /\ Cardinality(HeldIn(d, c)') = 0
      /\ \A y \in Sides : y # d => HeldIn(y, c)' = HeldIn(y, c)
  <2>1. collected'[d] = {} /\ \A y \in Sides : y # d => collected'[y] = collected[y]
    BY <1>0, <1>1, <1>2 DEF StatTyped
  <2>2. HeldIn(d, c)' = {}
    BY <2>1 DEF HeldIn
  <2> QED
    BY <2>1, <2>2, FS_EmptySet DEF HeldIn
<1> HIDE DEF r
<1>9. /\ Among(chStatInfo["client"], EntriesOf(c)) \in Nat
      /\ Among(chStatInfo["server"], EntriesOf(c)) \in Nat
      /\ Cardinality(HeldIn("client", c)) \in Nat /\ Cardinality(HeldIn("server", c)) \in Nat
      /\ carried[c] \in Nat
      /\ InPlaces(c) = AtSide("client", c) + AtSide("server", c) + carried[c]
  BY <1>0, <1>3, PlacesBySide
<1>10. InPlaces(c)' = AtSide("client", c)' + AtSide("server", c)' + carried'[c]
  BY <1>0, NextPlacesBySide
<1>11. InPlaces(c)' = InPlaces(c) + (IF c = r THEN 1 ELSE 0)
  <2>1. CASE d = "client"
    <3>1. /\ AtSide("client", c)' = Among(chStatInfo["client"], EntriesOf(c)) + (IF c = r THEN 1 ELSE 0)
          /\ AtSide("server", c)' = AtSide("server", c)
          /\ AtSide("client", c) = Among(chStatInfo["client"], EntriesOf(c)) + Cardinality(HeldIn(d, c))
      BY <1>3, <1>4, <1>8, <1>9, <2>1 DEF AtSide
    <3> QED
      BY <1>7, <1>9, <1>10, <2>1, <3>1 DEF AtSide
  <2>2. CASE d = "server"
    <3>1. /\ AtSide("client", c)' = AtSide("client", c) + (IF c = r THEN 1 ELSE 0)
          /\ AtSide("server", c)' = Among(chStatInfo["server"], EntriesOf(c))
          /\ AtSide("server", c) = Among(chStatInfo["server"], EntriesOf(c)) + Cardinality(HeldIn(d, c))
      BY <1>3, <1>4, <1>8, <1>9, <2>2 DEF AtSide
    <3> QED
      BY <1>7, <1>9, <1>10, <2>2, <3>1 DEF AtSide
  <2> QED
    BY <1>2, <2>1, <2>2 DEF Sides
<1> QED
  BY <1>0, <1>6, <1>11

LEMMA StatCountedStep == ASSUME SInv, StatNext PROVE StatCounted'
<1>0. StatTyped /\ StatTyped'
  BY StatIsTyped DEF SInv
<1>1. ASSUME NEW c, ReportStatFromClient(c) PROVE StatCounted'
  <2>1. PICK k \in Kinds : Push("client", c, k)
    BY <1>1 DEF ReportStatFromClient
  <2>2. c \in SideCalls("client") \cap toReport /\ "client" \in Sides
    BY <1>1 DEF ReportStatFromClient, SideCalls, Sides
  <2> QED
    BY <1>1, <2>1, <2>2, CallerCounted DEF ReportStatFromClient
<1>2. ASSUME NEW c, ReportStatFromServer(c) PROVE StatCounted'
  <2>1. PICK k \in Kinds : Push("server", c, k)
    BY <1>2 DEF ReportStatFromServer, Kinds
  <2>2. c \in SideCalls("server") \cap toReport /\ "server" \in Sides
    BY <1>2 DEF ReportStatFromServer, SideCalls, Sides
  <2> QED
    BY <1>2, <2>1, <2>2, CallerCounted DEF ReportStatFromServer
<1>3. ASSUME NEW d \in Sides, collectMsg(d) PROVE StatCounted'
  <2> SUFFICES ASSUME NEW c \in Entries PROVE InPlaces(c)' = IF c \in Pushed' THEN 1 ELSE 0
    BY DEF StatCounted
  <2>1. AtSide("client", c)' = AtSide("client", c) /\ AtSide("server", c)' = AtSide("server", c)
    BY <1>3, CollectCounted DEF Sides
  <2>2. UNCHANGED << toReport, runner, nReports, carried >>
    BY <1>3 DEF collectMsg
  <2>3. InPlaces(c)' = InPlaces(c)
    BY <1>0, <2>1, <2>2, PlacesBySide, NextPlacesBySide
  <2>4. Pushed' = Pushed
    BY <2>2 DEF Pushed
  <2> QED
    BY <2>3, <2>4 DEF SInv, StatCounted
<1>4. CASE Tick \/ \E k \in {"succ", "timeout"} : CallEnds(k)
  <2>1. UNCHANGED << toReport, chStatInfo, collected, carried >>
    BY <1>4 DEF Tick, CallEnds
  <2>2. Pushed' = Pushed
    <3>1. CASE Tick
      <4>1. runner.at # "push" /\ runner'.at # "push" /\ UNCHANGED << toReport, nReports >>
        BY <3>1 DEF Tick, Reporting
      <4> QED
        BY <4>1 DEF Pushed
    <3>2. ASSUME NEW k \in {"succ", "timeout"}, CallEnds(k) PROVE Pushed' = Pushed
      <4>1. /\ runner.at # "push" /\ runner'.at = "push" /\ toReport' = toReport
            /\ nReports' - 1 = nReports
        BY <1>0, <3>2 DEF CallEnds, StatTyped
      <4> QED
        BY <4>1 DEF Pushed
    <3> QED
      BY <1>4, <3>1, <3>2
  <2> QED
    BY <2>1, <2>2 DEF SInv, StatCounted, InPlaces, Held
<1> QED
  BY <1>1, <1>2, <1>3, <1>4, ClearedCounted DEF StatNext, RunStep, CallerStep

-------------------------------------------------------------------------------
(* The summaries. *)

\* An entry that is collected goes under its own head and into no other summary.
LEMMA CollectSummarised ==
  ASSUME SInv, NEW d \in Sides, collectMsg(d)
  PROVE  Summarised(d)'
<1>e. PICK e : e = Head(chStatInfo[d])
  OBVIOUS
<1>h. PICK h : h = HeadOf[e.call]
  OBVIOUS
<1>m. PICK m : m = mStatInfo[d]
  OBVIOUS
<1>s. PICK S : S = collected[d]
  OBVIOUS
<1>b. PICK body : body = IF h \in DOMAIN m THEN AddTo(m[h], e) ELSE FirstBody(e)
  OBVIOUS
<1> DEFINE HeadIs(T, g) == {x \in T : HeadOf[x.call] = g}
<1>1. /\ chStatInfo[d] # << >> /\ StatTyped /\ Summarised(d)
      /\ mStatInfo' = [mStatInfo EXCEPT
           ![d] = [x \in DOMAIN m \cup {h} |-> IF x = h THEN body ELSE m[x]]]
      /\ collected' = [collected EXCEPT ![d] = S \cup {e}]
  BY <1>e, <1>h, <1>m, <1>s, <1>b DEF collectMsg, SInv
<1>2. e \in StatEntries /\ e \notin S
  BY <1>1, <1>e, <1>s, CollectedIsNew
<1>3. /\ mStatInfo'[d] = [x \in DOMAIN m \cup {h} |-> IF x = h THEN body ELSE m[x]]
      /\ collected'[d] = S \cup {e}
  BY <1>1 DEF StatTyped
<1>4. S \subseteq StatEntries /\ IsFiniteSet(S)
  BY <1>1, <1>s DEF StatTyped
<1>5. /\ DOMAIN m = {HeadOf[x.call] : x \in S}
      /\ \A g \in DOMAIN m : Exact(m[g], HeadIs(S, g))
  BY <1>1, <1>m, <1>s DEF Summarised, Under
<1>6. Exact(body, HeadIs(S \cup {e}, h))
  <2>0. HeadIs(S \cup {e}, h) = HeadIs(S, h) \cup {e}
    BY <1>h
  <2>1. CASE h \in DOMAIN m
    <3>1. /\ HeadIs(S, h) \in SUBSET StatEntries /\ IsFiniteSet(HeadIs(S, h)) /\ e \notin HeadIs(S, h)
      <4>1. HeadIs(S, h) \in SUBSET S
        OBVIOUS
      <4> QED
        BY <1>2, <1>4, <4>1, FS_Subset
    <3>2. Exact(m[h], HeadIs(S, h))
      BY <1>5, <2>1
    <3>3. Exact(AddTo(m[h], e), HeadIs(S, h) \cup {e})
      <4> HIDE DEF HeadIs
      <4> QED
        BY <1>2, <3>1, <3>2, AddIsExact
    <3> QED
      BY <1>b, <2>0, <2>1, <3>3
  <2>2. CASE h \notin DOMAIN m
    <3>1. HeadIs(S \cup {e}, h) = {e}
      BY <1>5, <2>0, <2>2
    <3>2. Exact(FirstBody(e), {e})
      BY <1>2, FirstIsExact
    <3> QED
      BY <1>b, <2>2, <3>1, <3>2
  <2> QED
    BY <2>1, <2>2
<1>7. DOMAIN mStatInfo'[d] = {HeadOf[x.call] : x \in collected'[d]}
  BY <1>3, <1>5, <1>h
<1>8. ASSUME NEW g \in DOMAIN mStatInfo'[d]
      PROVE  Exact(mStatInfo'[d][g], HeadIs(collected'[d], g))
  <2>1. CASE g = h
    BY <1>3, <1>6, <2>1
  <2>2. CASE g # h
    <3>1. g \in DOMAIN m /\ mStatInfo'[d][g] = m[g]
      BY <1>3, <2>2
    <3>2. HeadIs(S \cup {e}, g) = HeadIs(S, g)
      BY <1>h, <2>2
    <3> QED
      BY <1>3, <1>5, <3>1, <3>2
  <2> QED
    BY <2>1, <2>2
<1> QED
  BY <1>7, <1>8 DEF Summarised, Under

LEMMA SummarisedStep ==
  ASSUME SInv, StatNext, NEW x \in Sides
  PROVE  Summarised(x)'
<1>0. StatTyped /\ Summarised(x)
  BY DEF SInv
<1>1. ASSUME mStatInfo'[x] = mStatInfo[x], collected'[x] = collected[x] PROVE Summarised(x)'
  BY <1>0, <1>1 DEF Summarised, Under
<1>2. CASE UNCHANGED << mStatInfo, collected >>
  BY <1>1, <1>2
<1>3. ASSUME NEW d \in Sides, collectMsg(d) PROVE Summarised(x)'
  <2>1. CASE x = d
    BY <1>3, <2>1, CollectSummarised
  <2>2. CASE x # d
    <3>1. \E b, c : /\ mStatInfo' = [mStatInfo EXCEPT ![d] = b]
                    /\ collected' = [collected EXCEPT ![d] = c]
      BY <1>3 DEF collectMsg
    <3> QED
      BY <1>0, <1>1, <2>2, <3>1 DEF StatTyped
  <2> QED
    BY <2>1, <2>2
<1>4. CASE Cleared
  <2>d. PICK d \in Sides : d = runner.side
    BY <1>0 DEF StatTyped
  <2>1. /\ mStatInfo' = [mStatInfo EXCEPT ![d] = NoStats]
        /\ collected' = [collected EXCEPT ![d] = {}]
    BY <1>4, <2>d DEF Cleared
  <2>2. CASE x = d
    <3>1. mStatInfo'[x] = NoStats /\ collected'[x] = {}
      BY <1>0, <2>1, <2>2 DEF StatTyped
    <3> QED
      BY <3>1 DEF Summarised, NoStats
  <2>3. CASE x # d
    BY <1>0, <1>1, <2>1, <2>3 DEF StatTyped
  <2> QED
    BY <2>2, <2>3
<1>5. ASSUME NEW c, CallerStep(c) PROVE UNCHANGED << mStatInfo, collected >>
  BY <1>5 DEF CallerStep, ReportStatFromClient, ReportStatFromServer
<1>6. CASE Tick \/ \E k \in {"succ", "timeout"} : CallEnds(k)
  BY <1>6, <1>2 DEF Tick, CallEnds
<1> QED
  BY <1>2, <1>3, <1>4, <1>5, <1>6 DEF StatNext, RunStep

LEMMA SInvStep == SInv /\ [StatNext]_statVars => SInv'
<1>1. ASSUME SInv, StatNext PROVE SInv'
  <2>1. StatTyped'
    BY <1>1, StatIsTyped DEF SInv
  <2>2. StatCounted'
    BY <1>1, StatCountedStep
  <2>3. \A d \in Sides : Summarised(d)'
    BY <1>1, SummarisedStep
  <2> QED
    BY <2>1, <2>2, <2>3 DEF SInv
<1>2. ASSUME SInv, UNCHANGED statVars PROVE SInv'
  <2>1. StatTyped'
    BY <1>2 DEF SInv, StatTyped, statVars
  <2>2. StatCounted'
    BY <1>2 DEF SInv, StatCounted, InPlaces, Held, Pushed, statVars
  <2>3. \A d \in Sides : Summarised(d)'
    BY <1>2 DEF SInv, Summarised, Under, statVars
  <2> QED
    BY <2>1, <2>2, <2>3 DEF SInv
<1> QED
  BY <1>1, <1>2

LEMMA SInvImplies == SInv => StatsConserved
<1> SUFFICES ASSUME SInv PROVE StatsConserved
  OBVIOUS
<1>1. ASSUME NEW c \in Entries
      PROVE  InPlaces(c) = IF c \in Pushed THEN 1 ELSE 0
  BY DEF SInv, StatCounted
<1>2. ASSUME NEW d \in Sides
      PROVE  /\ DOMAIN mStatInfo[d] = {HeadOf[e.call] : e \in collected[d]}
             /\ \A h \in DOMAIN mStatInfo[d] : IsSummary(mStatInfo[d][h], Under(d, h))
  <2>1. Summarised(d) /\ collected[d] \subseteq StatEntries
    BY DEF SInv, StatTyped
  <2>2. \A h : Under(d, h) \in SUBSET StatEntries
    BY <2>1 DEF Under
  <2> QED
    BY <2>1, <2>2, ExactIsSummary DEF Summarised
<1> QED
  BY <1>1, <1>2 DEF StatsConserved, InPlaces, Held, EntriesOf, Under

\* statf.go: every entry of a call is counted once, in one channel, in one map or in
\* one report, and a summary is exactly that of the entries it stands for, whatever
\* calls are made, however they and the reports end, and however small the channels
\* are.
THEOREM StatsAreConserved == StatSpec => []StatsConserved
  BY InitSInv, SInvStep, SInvImplies, PTL DEF StatSpec
===============================================================================
