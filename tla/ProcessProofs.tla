---------------------------- MODULE ProcessProofs ----------------------------
(***************************************************************************)
(* Two components of a process, each on its own.                           *)
(*                                                                         *)
(* TimerFires of the timing wheel, for every duration and accuracy that    *)
(* NewTicker and After accept, as long as the goroutine run is never a     *)
(* whole tick behind its ticker (a tick that finds ticker.C full is        *)
(* dropped).  The channels are numbered in the order in which they are     *)
(* made, and so in the order in which they are closed: the n-th turn       *)
(* closes channel n.  The invariant says which channels the slots hold     *)
(* after a number of turns, and between which instants that number is what *)
(* it is.                                                                  *)
(*                                                                         *)
(* ServiceKept of the application, for any servers and any number of       *)
(* signals: a graceful restart never leaves an object unserved.  As long   *)
(* as nobody is excused, the child is calm, which means that nothing in it *)
(* leads to a shutdown; and until the child has come to its mainLoop, with *)
(* all its servers, the parent is calm too, for the only SIGUSR2 it can    *)
(* get is sent by the child at that step.                                  *)
(***************************************************************************)
EXTENDS TimeWheel, Application, Integers, TLAPS

-------------------------------------------------------------------------------
(* The timing wheel. *)

\* What the code accepts, and how late run may be.
WheelHypothesis ==
  /\ Timeout \in Nat /\ Accuracy \in Nat /\ Accuracy > 0 /\ Late \in Nat
  /\ Accepted /\ Late < tick

-------------------------------------------------------------------------------
(* Arithmetic: a number is its quotient and its remainder. *)

LEMMA DivMod ==
  ASSUME NEW n \in Nat, NEW d \in Nat, d > 0
  PROVE  /\ n \div d \in Nat /\ n % d \in Nat /\ n % d < d
         /\ n = d * (n \div d) + (n % d)
  BY SMT

LEMMA DivModUnique ==
  ASSUME NEW q \in Nat, NEW r \in Nat, NEW d \in Nat, r < d
  PROVE  (d * q + r) \div d = q /\ (d * q + r) % d = r
  BY SMT

LEMMA ModOfSum ==
  ASSUME NEW a \in Nat, NEW b \in Nat, NEW d \in Nat, d > 0
  PROVE  ((a % d) + b) % d = (a + b) % d
<1> DEFINE q == a \div d
           r == a % d
           p == (r + b) \div d
           s == (r + b) % d
<1>1. q \in Nat /\ r \in Nat /\ a = d * q + r
  BY DivMod
<1>2. p \in Nat /\ s \in Nat /\ s < d /\ r + b = d * p + s
  BY <1>1, DivMod
<1> HIDE DEF q, r, p, s
<1>3. q + p \in Nat /\ a + b = d * (q + p) + s
  BY <1>1, <1>2
<1>4. (a + b) % d = s
  BY <1>2, <1>3, DivModUnique
<1> QED BY <1>4 DEF r, s

\* Two numbers less than d apart with the same remainder are the same.
LEMMA SameSlot ==
  ASSUME NEW a \in Nat, NEW b \in Nat, NEW d \in Nat, d > 0,
         a < b + d, b < a + d, a % d = b % d
  PROVE  a = b
<1> DEFINE p == a \div d
           q == b \div d
           r == a % d
<1>1. p \in Nat /\ q \in Nat /\ r \in Nat /\ a = d * p + r /\ b = d * q + r
  BY DivMod
<1> HIDE DEF p, q, r
<1>2. ~(p + 1 <= q)
  <2> SUFFICES ASSUME p + 1 <= q PROVE FALSE
    OBVIOUS
  <2>1. d * p + d <= d * q
    BY <1>1
  <2> QED BY <1>1, <2>1
<1>3. ~(q + 1 <= p)
  <2> SUFFICES ASSUME q + 1 <= p PROVE FALSE
    OBVIOUS
  <2>1. d * q + d <= d * p
    BY <1>1
  <2> QED BY <1>1, <2>1
<1> QED BY <1>1, <1>2, <1>3

-------------------------------------------------------------------------------
(* The invariant. *)

\* The turns made so far, and the instant at which the n-th is due.
turns == made - size
Due(n) == n * tick

WheelTyped ==
  /\ now \in Nat /\ made \in Nat /\ turns \in Nat /\ tickedAt \in Nat /\ closing \in Nat
  /\ wheel \in [0..(size - 1) -> Nat]
  /\ waiter \in [Waiters -> [ch : Nat, since : Nat, fired : BOOLEAN, at : Nat]]

\* The slots hold the channels turns + 1 to turns + size, the current one the oldest.
Slots ==
  /\ currPos = turns % size
  /\ \A i \in 0..(size - 1) : /\ turns + 1 <= wheel[i] /\ wheel[i] <= turns + size
                              /\ (wheel[i] - 1) % size = i

\* A turn is due for at most Late units, and every turn is made before the next is due.
Clock ==
  /\ tickedAt # 0 => /\ tickedAt = Due(turns + 1) /\ closing = 0
                     /\ tickedAt <= now /\ now <= tickedAt + Late
  /\ tickedAt = 0 => Due(turns) <= now /\ now < Due(turns + 1)
  /\ closing # 0 => closing = turns /\ now <= Due(turns) + Late

Closings == \A c \in closed : c \in Nat /\ c # 0 /\ c <= turns /\ c # closing

\* A channel that After has given out: turn ch - Accuracy was the last one made then.
Given(w) ==
  /\ Accuracy <= w.ch /\ Due(w.ch - Accuracy) <= w.since
  /\ w.since <= Due(w.ch - Accuracy + 1) + Late
  /\ w.fired => /\ w.ch <= turns /\ w.ch # closing
                /\ Due(w.ch) <= w.at /\ w.at <= Due(w.ch) + Late
  /\ ~w.fired => turns < w.ch \/ w.ch = closing
Givens == \A w \in Waiters : waiter[w] # Idle => Given(waiter[w])

WInv == WheelTyped /\ Slots /\ Clock /\ Closings /\ Givens
-------------------------------------------------------------------------------
(* The constants. *)

LEMMA Sizes ==
  ASSUME WheelHypothesis
  PROVE  /\ tick \in Nat /\ tick > 0 /\ size \in Nat /\ size = Accuracy + 1 /\ Accuracy \in Nat
         /\ Accuracy > 0 /\ Late \in Nat /\ Late < tick /\ Timeout \in Nat /\ Accepted
         /\ Timeout \div tick = Accuracy /\ Timeout % Accuracy \in Nat
         /\ Timeout = Due(Accuracy) + (Timeout % Accuracy)
<1> DEFINE r == Timeout % Accuracy
<1>1. /\ Timeout \in Nat /\ Accuracy \in Nat /\ Accuracy > 0 /\ Late \in Nat /\ Accepted
      /\ Late < tick
  BY DEF WheelHypothesis
<1>2. tick \in Nat /\ r \in Nat /\ Timeout = Accuracy * tick + r
  BY <1>1, DivMod DEF tick
<1>3. tick > 0 /\ Timeout < tick * (Accuracy + 1)
  BY <1>1 DEF Accepted, maxT, size
<1> HIDE DEF r
<1>4. Timeout = tick * Accuracy + r /\ r < tick
  BY <1>1, <1>2, <1>3
<1>5. Timeout \div tick = Accuracy
  BY <1>1, <1>2, <1>4, DivModUnique
<1> QED BY <1>1, <1>2, <1>3, <1>5 DEF size, Due, r

LEMMA Dues ==
  ASSUME WheelHypothesis
  PROVE  /\ \A n \in Nat : Due(n) \in Nat /\ Due(n + 1) = Due(n) + tick /\ Due(n) % tick = 0
         /\ \A m, n \in Nat : m <= n => Due(m) <= Due(n)
         /\ \A m, n \in Nat : Due(m + n) = Due(m) + Due(n)
<1>1. tick \in Nat /\ tick > 0
  BY Sizes
<1>2. ASSUME NEW n \in Nat
      PROVE  Due(n) \in Nat /\ Due(n + 1) = Due(n) + tick /\ Due(n) % tick = 0
  <2>1. (tick * n + 0) % tick = 0
    BY <1>1, DivModUnique
  <2> QED BY <1>1, <2>1 DEF Due
<1>3. ASSUME NEW m \in Nat, NEW n \in Nat PROVE /\ m <= n => Due(m) <= Due(n)
                                              /\ Due(m + n) = Due(m) + Due(n)
  BY <1>1 DEF Due
<1> QED BY <1>2, <1>3

\* The instants after the one at which a turn is due: the next is due a tick later.
LEMMA Remainder ==
  ASSUME WheelHypothesis, NEW n \in Nat, NEW t \in Nat, Due(n) <= t, t < Due(n + 1)
  PROVE  t % tick = t - Due(n)
<1>1. tick \in Nat /\ tick > 0 /\ Due(n) \in Nat /\ Due(n + 1) = Due(n) + tick
  BY Sizes, Dues
<1>2. Due(n) = tick * n
  BY <1>1 DEF Due
<1>3. PICK r \in Nat : r = t - Due(n)
  BY <1>1
<1>4. t = tick * n + r /\ r < tick
  BY <1>1, <1>2, <1>3
<1>5. (tick * n + r) % tick = r
  BY <1>1, <1>4, DivModUnique
<1> QED BY <1>3, <1>4, <1>5

-------------------------------------------------------------------------------
(* The steps. *)

LEMMA InitWInv == ASSUME WheelHypothesis PROVE WheelInit => WInv
<1> SUFFICES ASSUME WheelInit PROVE WInv
  OBVIOUS
<1>0. /\ size \in Nat /\ size > 0 /\ tick \in Nat /\ tick > 0
  BY Sizes
<1>1. /\ size \in Nat /\ size > 0 /\ Due(0) = 0 /\ Due(1) = tick /\ tick \in Nat /\ tick > 0
  BY <1>0 DEF Due
<1>2. turns = 0 /\ made = size
  BY <1>1 DEF WheelInit, turns
<1>3. WheelTyped
  <2>1. Idle \in [ch : Nat, since : Nat, fired : BOOLEAN, at : Nat]
    BY DEF Idle
  <2>2. waiter \in [Waiters -> [ch : Nat, since : Nat, fired : BOOLEAN, at : Nat]]
    BY <2>1 DEF WheelInit
  <2>3. wheel \in [0..(size - 1) -> Nat]
    BY <1>1 DEF WheelInit
  <2> QED BY <1>1, <1>2, <2>2, <2>3 DEF WheelInit, WheelTyped
<1>4. Slots
  <2>1. ASSUME NEW i \in 0..(size - 1)
        PROVE  /\ turns + 1 <= wheel[i] /\ wheel[i] <= turns + size
               /\ (wheel[i] - 1) % size = i
    <3>1. wheel[i] = i + 1 /\ i \in Nat /\ i < size
      BY <1>1 DEF WheelInit
    <3>2. (size * 0 + i) % size = i
      BY <1>1, <3>1, DivModUnique
    <3>3. i % size = i
      BY <1>1, <3>1, <3>2
    <3>4. wheel[i] - 1 = i
      BY <3>1
    <3> QED BY <1>1, <1>2, <3>1, <3>3, <3>4
  <2>2. (size * 0 + 0) % size = 0
    BY <1>1, DivModUnique
  <2>3. currPos = turns % size
    BY <1>1, <1>2, <2>2 DEF WheelInit
  <2> QED BY <2>1, <2>3 DEF Slots
<1>5. Clock
  BY <1>1, <1>2 DEF WheelInit, Clock
<1>6. Closings /\ Givens
  BY DEF WheelInit, Closings, Givens
<1> QED BY <1>3, <1>4, <1>5, <1>6 DEF WInv

LEMMA AdvanceWInv == ASSUME WheelHypothesis, WInv, Advance PROVE WInv'
<1>1. /\ tick \in Nat /\ tick > 0 /\ size \in Nat /\ Late \in Nat /\ Late < tick
  BY Sizes
<1>2. /\ now' = now + 1 /\ UNCHANGED << wheel, currPos, made, closing, closed, waiter >>
      /\ (now' % tick = 0 => tickedAt' = now') /\ (now' % tick # 0 => tickedAt' = tickedAt)
      /\ (tickedAt # 0 => now - tickedAt < Late) /\ (closing # 0 => now % tick < Late)
  BY DEF Advance
<1>3. /\ now \in Nat /\ turns \in Nat /\ tickedAt \in Nat /\ closing \in Nat /\ turns' = turns
  BY <1>2 DEF WInv, WheelTyped, turns
<1>a. turns + 1 \in Nat
  BY <1>3
<1>4. /\ Due(turns) \in Nat /\ Due(turns + 1) = Due(turns) + tick
      /\ Due(turns + 1) % tick = 0 /\ Due(turns + 1) \in Nat
      /\ Due((turns + 1) + 1) = Due(turns + 1) + tick
  BY <1>3, <1>a, Dues
<1>5. WheelTyped'
  BY <1>2, <1>3, <1>1 DEF WInv, WheelTyped
<1>6. Slots' /\ Closings'
  BY <1>2, <1>3 DEF WInv, Slots, Closings
<1>7. Givens'
  BY <1>2, <1>3 DEF WInv, Givens, Given
<1>8. Clock'
  <2>1. CASE tickedAt # 0
    <3>1. /\ tickedAt = Due(turns + 1) /\ closing = 0
          /\ tickedAt <= now /\ now <= tickedAt + Late
      BY <2>1 DEF WInv, Clock
    <3>0. now - tickedAt < Late
      BY <1>2, <2>1
    <3>2. Due(turns + 1) <= now + 1 /\ now + 1 < Due((turns + 1) + 1)
      BY <1>1, <1>3, <1>4, <3>0, <3>1
    <3>3. (now + 1) % tick = (now + 1) - Due(turns + 1)
      BY <1>3, <3>2, Remainder
    <3>4. (now + 1) % tick # 0
      BY <1>3, <1>4, <3>1, <3>3
    <3>5. tickedAt' = tickedAt
      BY <1>2, <3>4
    <3>6. now + 1 <= tickedAt + Late
      BY <1>1, <1>2, <1>3, <2>1
    <3> QED BY <1>1, <1>2, <1>3, <2>1, <3>1, <3>5, <3>6 DEF Clock
  <2>2. CASE tickedAt = 0
    <3>1. /\ Due(turns) <= now /\ now < Due(turns + 1)
          /\ closing # 0 => closing = turns /\ now <= Due(turns) + Late
      BY <2>2 DEF WInv, Clock
    <3>2. now % tick = now - Due(turns)
      BY <1>3, <3>1, Remainder
    <3>3. closing # 0 => now + 1 <= Due(turns) + Late
      BY <1>1, <1>2, <1>3, <1>4, <3>2
    <3>4. CASE now + 1 = Due(turns + 1)
      <4>1. closing = 0
        BY <1>1, <1>3, <1>4, <3>3, <3>4
      <4>2. tickedAt' = now + 1
        BY <1>2, <1>4, <3>4
      <4> QED BY <1>1, <1>2, <1>3, <1>4, <3>4, <4>1, <4>2 DEF Clock
    <3>5. CASE now + 1 < Due(turns + 1)
      <4>1. (now + 1) % tick = (now + 1) - Due(turns)
        BY <1>3, <1>4, <3>1, <3>5, Remainder
      <4>2. (now + 1) % tick # 0
        BY <1>3, <1>4, <3>1, <4>1
      <4>3. tickedAt' = 0
        BY <1>2, <2>2, <4>2
      <4> QED BY <1>1, <1>2, <1>3, <1>4, <3>1, <3>3, <3>5, <4>3 DEF Clock
    <3> QED BY <1>3, <1>4, <3>1, <3>4, <3>5
  <2> QED BY <2>1, <2>2
<1> QED BY <1>5, <1>6, <1>7, <1>8 DEF WInv
\* The channel that After gives out is the one that is closed Accuracy turns later.
LEMMA SlotChannel ==
  ASSUME WheelHypothesis, WInv
  PROVE  wheel[Slot] = turns + Accuracy
<1>1. /\ size \in Nat /\ size = Accuracy + 1 /\ Accuracy \in Nat /\ Accuracy > 0
      /\ Timeout \div tick = Accuracy
  BY Sizes
<1>2. turns \in Nat /\ currPos = turns % size /\ wheel \in [0..(size - 1) -> Nat]
  BY DEF WInv, WheelTyped, Slots
<1>3. PICK k \in Nat : k = Accuracy - 1
  BY <1>1
<1>4. Slot = ((turns % size) + k) % size
  BY <1>1, <1>2, <1>3 DEF Slot
<1>0. size \in Nat /\ size > 0 /\ turns \in Nat
  BY <1>1, <1>2
<1>m. ((turns % size) + k) % size = (turns + k) % size
  BY <1>0, ModOfSum
<1>5. Slot = (turns + k) % size
  BY <1>4, <1>m
<1>6. turns + k \in Nat /\ Slot \in 0..(size - 1)
  <2>1. turns + k \in Nat
    BY <1>2, <1>3
  <2>2. (turns + k) % size \in Nat /\ (turns + k) % size < size
    BY <1>1, <2>1, DivMod
  <2> QED BY <1>1, <1>5, <2>1, <2>2
<1>7. PICK c \in Nat : c = wheel[Slot]
  BY <1>2, <1>6
<1>8. turns + 1 <= c /\ c <= turns + size /\ (c - 1) % size = Slot
  BY <1>6, <1>7 DEF WInv, Slots
<1>9. PICK a \in Nat : a = c - 1
  BY <1>2, <1>7, <1>8
<1>10. a % size = (turns + k) % size
  BY <1>5, <1>8, <1>9
<1>b. a < (turns + k) + size /\ (turns + k) < a + size
  <2>1. turns + 1 <= c /\ c <= turns + size
    BY <1>8
  <2>2. size = k + 2
    BY <1>1, <1>3
  <2> QED BY <1>0, <1>9, <2>1, <2>2
<1>11. a = turns + k
  BY <1>0, <1>6, <1>10, <1>b, SameSlot
<1> QED BY <1>1, <1>2, <1>3, <1>7, <1>9, <1>11

LEMMA AfterWInv ==
  ASSUME WheelHypothesis, WInv, NEW w \in Waiters, After(w)
  PROVE  WInv'
<1>1. /\ tick \in Nat /\ tick > 0 /\ size \in Nat /\ Late \in Nat /\ Late < tick
      /\ Accuracy \in Nat /\ Accuracy > 0
  BY Sizes
<1>2. /\ waiter' = [waiter EXCEPT ![w] = [ch |-> wheel[Slot], since |-> now,
                                         fired |-> wheel[Slot] \in closed, at |-> now]]
      /\ UNCHANGED << now, wheel, currPos, made, tickedAt, closing, closed >>
  BY DEF After
<1>3. /\ now \in Nat /\ turns \in Nat /\ turns' = turns
      /\ waiter \in [Waiters -> [ch : Nat, since : Nat, fired : BOOLEAN, at : Nat]]
  BY <1>2 DEF WInv, WheelTyped, turns
<1>4. PICK n \in Nat : n = turns + Accuracy /\ n = wheel[Slot]
  BY <1>1, <1>3, SlotChannel
<1>5. n \notin closed
  BY <1>1, <1>3, <1>4 DEF WInv, Closings
<1>f. (wheel[Slot] \in closed) = FALSE
  BY <1>4, <1>5
<1>6. waiter' = [waiter EXCEPT ![w] = [ch |-> n, since |-> now, fired |-> FALSE, at |-> now]]
  BY <1>2, <1>4, <1>f
<1>7. WheelTyped'
  BY <1>2, <1>3, <1>6 DEF WInv, WheelTyped
<1>8. Slots' /\ Clock' /\ Closings'
  BY <1>2, <1>3 DEF WInv, Slots, Clock, Closings
<1>9. Due(n - Accuracy) <= now /\ now <= Due(n - Accuracy + 1) + Late
  <2>1. /\ Due(turns) \in Nat /\ Due(turns + 1) = Due(turns) + tick
    BY <1>3, Dues
  <2>2. Due(turns) <= now /\ now <= Due(turns + 1) + Late
    BY <1>1, <1>3, <2>1 DEF WInv, WheelTyped, Clock
  <2>3. n - Accuracy = turns
    BY <1>1, <1>3, <1>4
  <2> QED BY <2>2, <2>3
<1>10. Givens'
  <2> SUFFICES ASSUME NEW v \in Waiters, waiter'[v] # Idle PROVE Given(waiter[v])'
    BY DEF Givens
  <2>1. CASE v = w
    <3>1. waiter'[v] = [ch |-> n, since |-> now, fired |-> FALSE, at |-> now]
      BY <1>3, <1>6, <2>1
    <3>2. Accuracy <= n /\ turns' < n
      BY <1>1, <1>3, <1>4
    <3> QED BY <1>9, <3>1, <3>2 DEF Given
  <2>2. CASE v # w
    <3>1. waiter'[v] = waiter[v]
      BY <1>3, <1>6, <2>2
    <3> QED BY <1>2, <1>3, <3>1 DEF WInv, Givens, Given
  <2> QED BY <2>1, <2>2
<1> QED BY <1>7, <1>8, <1>10 DEF WInv

LEMMA TurnWInv == ASSUME WheelHypothesis, WInv, Turn PROVE WInv'
<1>1. /\ tick \in Nat /\ tick > 0 /\ size \in Nat /\ size > 1 /\ Late \in Nat /\ Late < tick
  BY Sizes
<1>2. /\ tickedAt # 0 /\ closing = 0 /\ tickedAt' = 0 /\ closing' = wheel[currPos]
      /\ wheel' = [wheel EXCEPT ![currPos] = made + 1] /\ made' = made + 1
      /\ currPos' = (currPos + 1) % size
      /\ UNCHANGED << now, closed, waiter >>
  BY DEF Turn
<1>0. /\ now \in Nat /\ made \in Nat /\ turns \in Nat
      /\ currPos = turns % size /\ wheel \in [0..(size - 1) -> Nat]
  BY DEF WInv, WheelTyped, Slots
<1>m. made = turns + size
  BY <1>0, <1>1 DEF turns
<1>3. /\ now \in Nat /\ made \in Nat /\ turns \in Nat /\ made = turns + size
      /\ currPos = turns % size /\ wheel \in [0..(size - 1) -> Nat]
  BY <1>0, <1>m
<1>z. size \in Nat /\ size > 0 /\ turns \in Nat
  BY <1>0, <1>1
<1>4. turns' = turns + 1 /\ turns + 1 \in Nat
  BY <1>1, <1>2, <1>3 DEF turns
<1>5. currPos \in 0..(size - 1)
  <2>1. turns % size \in Nat /\ turns % size < size
    BY <1>1, <1>3, DivMod
  <2> QED BY <1>1, <1>3, <2>1
<1>6. closing' = turns + 1
  <2>1. PICK c \in Nat : c = wheel[currPos]
    BY <1>3, <1>5
  <2>2. turns + 1 <= c /\ c <= turns + size /\ (c - 1) % size = turns % size
    BY <1>3, <1>5, <2>1 DEF WInv, Slots
  <2>3. PICK a \in Nat : a = c - 1
    BY <1>3, <2>1, <2>2
  <2>4. a % size = turns % size
    BY <2>2, <2>3
  <2>a. turns + 1 <= c /\ c <= turns + size
    BY <2>2
  <2>b. a < turns + size /\ turns < a + size
    BY <1>z, <2>1, <2>3, <2>a
  <2>5. a = turns
    BY <1>z, <2>4, <2>b, SameSlot, SMTT(20)
  <2> QED BY <1>2, <1>3, <2>1, <2>3, <2>5
<1>7. WheelTyped'
  BY <1>1, <1>2, <1>3, <1>4, <1>5, <1>6 DEF WInv, WheelTyped
<1>8. Slots'
  <2>1. currPos' = turns' % size
    <3>1. ((turns % size) + 1) % size = (turns + 1) % size
      BY <1>z, ModOfSum
    <3> QED BY <1>2, <1>3, <1>4, <3>1
  <2>2. ASSUME NEW i \in 0..(size - 1)
        PROVE  /\ turns + 2 <= wheel'[i] /\ wheel'[i] <= turns + 1 + size
               /\ (wheel'[i] - 1) % size = i
    <3>1. CASE i = currPos
      <4>1. wheel'[i] = turns + size + 1
        BY <1>2, <1>3, <3>1
      <4>2. PICK q \in Nat, r \in Nat : turns = size * q + r /\ r = i /\ r < size
        <5>1. /\ turns \div size \in Nat /\ turns % size \in Nat /\ turns % size < size
              /\ turns = size * (turns \div size) + (turns % size)
          BY <1>z, DivMod
        <5>2. turns % size = i
          BY <1>0, <3>1
        <5>3. PICK q \in Nat : q = turns \div size
          BY <5>1
        <5>4. PICK r \in Nat : r = turns % size
          BY <5>1
        <5>5. turns = size * q + r /\ r = i /\ r < size
          BY <5>1, <5>2, <5>3, <5>4
        <5> QED BY <5>5
      <4>3. turns + size = size * (q + 1) + r /\ q + 1 \in Nat
        BY <1>1, <1>3, <4>2
      <4>4. (turns + size) % size = i
        BY <1>1, <4>2, <4>3, DivModUnique
      <4>5. wheel'[i] - 1 = turns + size
        BY <1>1, <1>3, <4>1
      <4> QED BY <1>1, <1>3, <4>1, <4>4, <4>5
    <3>2. CASE i # currPos
      <4>1. PICK c \in Nat : c = wheel[i]
        BY <1>3
      <4>2. turns + 1 <= c /\ c <= turns + size /\ (c - 1) % size = i
        BY <4>1 DEF WInv, Slots
      <4>3. wheel'[i] = c
        BY <1>2, <1>3, <3>2, <4>1
      <4>4. c # turns + 1
        <5> SUFFICES ASSUME c = turns + 1 PROVE FALSE
          OBVIOUS
        <5>1. c - 1 = turns
          BY <1>3
        <5> QED BY <1>3, <3>2, <4>2, <5>1
      <4> QED BY <1>1, <1>3, <4>2, <4>3, <4>4
    <3> QED BY <3>1, <3>2
  <2> QED BY <1>1, <1>3, <1>4, <2>1, <2>2 DEF Slots
<1>9. Clock'
  <2>1. tickedAt = Due(turns + 1) /\ tickedAt <= now /\ now <= tickedAt + Late
    BY <1>2 DEF WInv, Clock
  <2>2. Due(turns + 1) \in Nat /\ Due((turns + 1) + 1) = Due(turns + 1) + tick
    BY <1>4, Dues
  <2>3. Due(turns + 1) <= now /\ now < Due((turns + 1) + 1) /\ now <= Due(turns + 1) + Late
    BY <1>1, <1>3, <2>1, <2>2
  <2> QED BY <1>2, <1>4, <1>6, <2>3 DEF Clock
<1>10. Closings'
  BY <1>2, <1>3, <1>4, <1>6 DEF WInv, Closings
<1>11. Givens'
  <2> SUFFICES ASSUME NEW v \in Waiters, waiter[v] # Idle PROVE Given(waiter[v])'
    BY <1>2 DEF Givens
  <2>1. Given(waiter[v]) /\ waiter[v].ch \in Nat
    BY DEF WInv, WheelTyped, Givens
  <2>2. CASE waiter[v].fired
    BY <1>2, <1>3, <1>4, <1>6, <2>1, <2>2 DEF Given
  <2>3. CASE ~waiter[v].fired
    <3>1. turns < waiter[v].ch
      BY <1>1, <1>2, <2>1, <2>3, Sizes DEF Given
    <3>2. turns' < waiter[v].ch \/ waiter[v].ch = closing'
      BY <1>3, <1>4, <1>6, <2>1, <3>1
    <3> QED BY <1>2, <2>1, <2>3, <3>2 DEF Given
  <2> QED BY <2>2, <2>3
<1> QED BY <1>7, <1>8, <1>9, <1>10, <1>11 DEF WInv

LEMMA CloseWInv == ASSUME WheelHypothesis, WInv, Close PROVE WInv'
<1>1. /\ tick \in Nat /\ Late \in Nat /\ Accuracy \in Nat /\ Accuracy > 0
  BY Sizes
<1>2. /\ closing # 0 /\ closed' = closed \cup {closing} /\ closing' = 0
      /\ waiter' = [v \in Waiters |->
           IF waiter[v].ch = closing THEN [waiter[v] EXCEPT !.fired = TRUE, !.at = now]
           ELSE waiter[v]]
      /\ UNCHANGED << now, wheel, currPos, made, tickedAt >>
  BY DEF Close
<1>c. closing # 0 /\ closed' = closed \cup {closing} /\ closing' = 0
  BY <1>2
<1>3. /\ now \in Nat /\ turns \in Nat /\ turns' = turns
      /\ waiter \in [Waiters -> [ch : Nat, since : Nat, fired : BOOLEAN, at : Nat]]
  BY <1>2 DEF WInv, WheelTyped, turns
<1>4. /\ closing = turns /\ tickedAt = 0 /\ Due(turns) <= now /\ now <= Due(turns) + Late
  BY <1>2 DEF WInv, Clock
<1>5. WheelTyped'
  BY <1>2, <1>3 DEF WInv, WheelTyped
<1>6. Slots' /\ Clock'
  BY <1>2, <1>3 DEF WInv, Slots, Clock
<1>7. Closings'
  <2>1. turns # 0 /\ closing \in Nat
    BY <1>2, <1>4 DEF WInv, WheelTyped
  <2>2. \A c \in closed : c \in Nat /\ c # 0 /\ c <= turns
    BY DEF WInv, Closings
  <2>3. \A c \in closed' : c \in Nat /\ c # 0 /\ c <= turns
    BY <1>c, <1>3, <1>4, <2>1, <2>2
  <2> QED BY <1>c, <1>3, <2>3 DEF Closings
<1>8. Givens'
  <2> SUFFICES ASSUME NEW v \in Waiters, waiter'[v] # Idle PROVE Given(waiter[v])'
    BY DEF Givens
  <2>1. CASE waiter[v].ch = closing
    <3>1. /\ waiter'[v].ch = turns /\ waiter'[v].since = waiter[v].since
          /\ waiter'[v].fired = TRUE /\ waiter'[v].at = now
      BY <1>2, <1>3, <1>4, <2>1
    <3>a. Idle.ch = 0
      BY DEF Idle
    <3>2. waiter[v] # Idle
      BY <1>2, <2>1, <3>a
    <3>3. Given(waiter[v])
      BY <3>2 DEF WInv, Givens
    <3>4. /\ Accuracy <= turns /\ Due(turns - Accuracy) <= waiter[v].since
          /\ waiter[v].since <= Due(turns - Accuracy + 1) + Late
      BY <1>4, <2>1, <3>3 DEF Given
    <3>5. turns # closing' /\ turns' = turns /\ turns <= turns
      BY <1>c, <1>3, <1>4
    <3> QED BY <1>4, <3>1, <3>4, <3>5 DEF Given
  <2>2. CASE waiter[v].ch # closing
    <3>1. waiter'[v] = waiter[v]
      BY <1>2, <2>2
    <3>2. Given(waiter[v]) /\ waiter[v].ch \in Nat
      BY <1>3, <3>1 DEF WInv, Givens
    <3>3. waiter[v].ch # 0
      BY <1>1, <3>2 DEF Given
    <3> QED BY <1>2, <1>3, <2>2, <3>1, <3>2, <3>3 DEF Given
  <2> QED BY <2>1, <2>2
<1> QED BY <1>5, <1>6, <1>7, <1>8 DEF WInv

LEMMA WInvFires == ASSUME WheelHypothesis, WInv PROVE TimerFires
<1>1. /\ tick \in Nat /\ Late \in Nat /\ Accuracy \in Nat /\ Timeout \in Nat
      /\ Timeout % Accuracy \in Nat /\ Timeout = Due(Accuracy) + (Timeout % Accuracy)
  BY Sizes
<1>2. /\ now \in Nat /\ turns \in Nat /\ tickedAt \in Nat
      /\ waiter \in [Waiters -> [ch : Nat, since : Nat, fired : BOOLEAN, at : Nat]]
  BY DEF WInv, WheelTyped
<1>3. closing \notin closed
  BY DEF WInv, Closings
<1>4. ASSUME NEW w \in Waiters, waiter[w] # Idle
      PROVE  LET since == waiter[w].since IN
             IF waiter[w].fired
             THEN /\ waiter[w].at + Late + tick + (Timeout % Accuracy) >= since + Timeout
                  /\ waiter[w].at <= since + Timeout + Late
             ELSE now <= since + Timeout + Late
  <2>1. PICK c \in Nat, s \in Nat, t \in Nat :
           c = waiter[w].ch /\ s = waiter[w].since /\ t = waiter[w].at
    BY <1>2
  <2>2. Given(waiter[w])
    BY <1>4 DEF WInv, Givens
  <2>3. PICK n \in Nat : n = c - Accuracy /\ c = n + Accuracy
    BY <1>1, <2>1, <2>2 DEF Given
  <2>4. Due(n) <= s /\ s <= Due(n + 1) + Late
    BY <2>1, <2>2, <2>3 DEF Given
  <2>5. /\ Due(n) \in Nat /\ Due(n + 1) = Due(n) + tick
        /\ Due(c) = Due(n) + Due(Accuracy) /\ Due(Accuracy) \in Nat /\ Due(c) \in Nat
    <3>1. /\ Due(n) \in Nat /\ Due(n + 1) = Due(n) + tick /\ Due(Accuracy) \in Nat
      BY <1>1, Dues
    <3>2. Due(n + Accuracy) = Due(n) + Due(Accuracy)
      BY <1>1, Dues
    <3> QED BY <2>3, <3>1, <3>2
  <2>6. CASE waiter[w].fired
    <3>1. Due(c) <= t /\ t <= Due(c) + Late
      BY <2>1, <2>2, <2>6 DEF Given
    <3>2. /\ t + Late + tick + (Timeout % Accuracy) >= s + Timeout
          /\ t <= s + Timeout + Late
      BY <1>1, <2>1, <2>4, <2>5, <3>1
    <3> QED BY <2>1, <2>6, <3>2
  <2>7. CASE ~waiter[w].fired
    <3>1. now <= Due(c) + Late
      <4>1. CASE c = closing /\ closing # 0
        BY <4>1 DEF WInv, Clock
      <4>2. CASE turns < c
        <5>1. Due(turns + 1) <= Due(c) /\ Due(turns + 1) \in Nat
          <6>1. turns + 1 \in Nat /\ turns + 1 <= c
            BY <1>2, <4>2
          <6> QED BY <6>1, Dues
        <5>2. now <= Due(turns + 1) + Late
          BY <1>1, <1>2, <5>1 DEF WInv, Clock
        <5> QED BY <1>1, <1>2, <2>5, <5>1, <5>2
      <4>3. c # 0
        BY <2>1, <2>2, <2>3, Sizes DEF Given
      <4> QED BY <2>1, <2>2, <2>7, <4>1, <4>2, <4>3 DEF Given
    <3>2. now <= s + Timeout + Late
      BY <1>1, <1>2, <2>1, <2>4, <2>5, <3>1
    <3> QED BY <2>1, <2>7, <3>2
  <2> QED BY <2>6, <2>7
<1> QED BY <1>3, <1>4 DEF TimerFires

\* Whenever After is called and in whatever turn the wheel is, the channel it returns
\* is closed at most one tick before the timeout (and what the division cuts off), at
\* the latest at the timeout, each up to the lateness of run, and no channel is closed
\* twice, for every duration and accuracy that NewTicker and After accept (After, run).
THEOREM TimersFire ==
  ASSUME WheelHypothesis
  PROVE  WheelSpec => []TimerFires
<1>1. WheelInit => WInv
  BY InitWInv
<1>2. WInv /\ [WheelNext]_wheelVars => WInv'
  <2> SUFFICES ASSUME WInv, [WheelNext]_wheelVars PROVE WInv'
    OBVIOUS
  <2>1. CASE UNCHANGED wheelVars
    <3>1. UNCHANGED << now, wheel, currPos, made, tickedAt, closing, closed, waiter >>
      BY <2>1 DEF wheelVars
    <3>2. turns' = turns
      BY <3>1 DEF turns
    <3> QED BY <3>1, <3>2 DEF WInv, WheelTyped, Slots, Clock, Closings, Givens, Given
  <2>2. CASE WheelNext
    BY <2>2, AdvanceWInv, AfterWInv, TurnWInv, CloseWInv DEF WheelNext
  <2> QED BY <2>1, <2>2
<1>3. WInv => TimerFires
  BY WInvFires
<1> QED BY <1>1, <1>2, <1>3, PTL DEF WheelSpec

-------------------------------------------------------------------------------
(* The application: what a process that is not to end looks like. *)

Signals == {"USR1", "USR2", "TERM"}

Typed ==
  /\ run \in [Procs -> {"off", "listen", "loop", "returned", "killed", "exited"}]
  /\ srv \in [Procs -> [Servers -> {"new", "serving", "failing", "failed", "shut"}]]
  /\ handler \in [Procs -> {"none", "ready", "grace", "again"}]
  /\ signals \in [Procs -> Seq(Signals)]
  /\ todo \in [Procs -> SUBSET Servers]
  /\ once \in [Procs -> BOOLEAN] /\ shutdown \in [Procs -> BOOLEAN]
  /\ excused \in BOOLEAN

\* Nothing in process p leads to its end: no server has failed or is being shut down,
\* no signal to shut down is waiting or being handled, nothing is in the channel
\* shutdown; and Run waits for every server.
Calm(p) ==
  /\ run[p] \in {"off", "listen", "loop"}
  /\ \A s \in Servers : srv[p][s] = "serving" \/ (srv[p][s] = "new" /\ run[p] # "loop")
  /\ handler[p] \in {"none", "ready"} /\ todo[p] = {} /\ shutdown[p] = FALSE
  /\ \A i \in DOMAIN signals[p] : signals[p][i] = "USR1"

ChildUp == run["child"] = "loop"
Kept == excused \/ (Calm("child") /\ (ChildUp \/ (Calm("parent") /\ run["parent"] # "off")))
KInv == Typed /\ Kept
LEMMA InitKInv == Init => KInv
<1> SUFFICES ASSUME Init PROVE KInv
  OBVIOUS
<1>1. Typed
  <2>1. /\ once \in [Procs -> BOOLEAN] /\ shutdown \in [Procs -> BOOLEAN] /\ excused \in BOOLEAN
    BY DEF Init
  <2>2. << >> \in Seq(Signals)
    OBVIOUS
  <2>3. signals \in [Procs -> Seq(Signals)]
    BY <2>2 DEF Init
  <2>4. /\ run \in [Procs -> {"off", "listen", "loop", "returned", "killed", "exited"}]
        /\ handler \in [Procs -> {"none", "ready", "grace", "again"}]
        /\ todo \in [Procs -> SUBSET Servers]
    BY DEF Init
  <2>5. srv \in [Procs -> [Servers -> {"new", "serving", "failing", "failed", "shut"}]]
    BY DEF Init
  <2> QED BY <2>1, <2>3, <2>4, <2>5 DEF Typed
<1>2. Calm("child") /\ Calm("parent") /\ run["parent"] # "off"
  BY DEF Init, Calm, Procs
<1> QED BY <1>1, <1>2 DEF KInv, Kept

\* A step of process p.
Step(p) ==
  \/ OwnStep(p) \/ handleSignal(p) \/ graceRestart(p) \/ graceShutdown(p) \/ AdminShutdown(p)
  \/ \E s \in Servers : Listens(p, s) \/ Fails(p, s) \/ ServerShut(p, s)
  \/ \E sig \in {"USR1", "TERM"} : Signal(p, sig)

LEMMA DeliverTyped ==
  ASSUME Typed, NEW p \in Procs, NEW sig \in Signals,
         NEW running \in [Procs -> {"off", "listen", "loop", "returned", "killed", "exited"}],
         Deliver(p, sig, running)
  PROVE  /\ run' \in [Procs -> {"off", "listen", "loop", "returned", "killed", "exited"}]
         /\ signals' \in [Procs -> Seq(Signals)]
         /\ \A q \in Procs : q # p => run'[q] = running[q] /\ signals'[q] = signals[q]
         /\ handler[p] = "ready" => /\ run' = running
                                    /\ signals' = [signals EXCEPT ![p] = Append(@, sig)]
<1>1. signals \in [Procs -> Seq(Signals)]
  BY DEF Typed
<1>2. CASE handler[p] = "ready"
  <2>1. signals' = [signals EXCEPT ![p] = Append(signals[p], sig)] /\ run' = running
    BY <1>2 DEF Deliver
  <2>2. Append(signals[p], sig) \in Seq(Signals)
    BY <1>1
  <2> QED BY <1>1, <2>1, <2>2
<1>3. CASE handler[p] # "ready"
  BY <1>1, <1>3 DEF Deliver
<1> QED BY <1>2, <1>3

LEMMA ListenDoneTyped ==
  ASSUME Typed, NEW p \in Procs, ListenDone(p)
  PROVE  /\ run' \in [Procs -> {"off", "listen", "loop", "returned", "killed", "exited"}]
         /\ signals' \in [Procs -> Seq(Signals)]
         /\ run'[p] = "loop" /\ signals'[p] = signals[p]
         /\ p = "parent" => \A q \in Procs : q # p => run'[q] = run[q] /\ signals'[q] = signals[q]
<1> DEFINE running == [run EXCEPT ![p] = "loop"]
<1>1. running \in [Procs -> {"off", "listen", "loop", "returned", "killed", "exited"}]
  BY DEF Typed
<1>2. CASE p = "child" /\ Alive("parent")
  <2>1. "parent" \in Procs /\ "USR2" \in Signals /\ Deliver("parent", "USR2", running)
    BY <1>2 DEF ListenDone, Procs, Signals
  <2>2. /\ run' \in [Procs -> {"off", "listen", "loop", "returned", "killed", "exited"}]
        /\ signals' \in [Procs -> Seq(Signals)]
        /\ \A q \in Procs : q # "parent" => run'[q] = running[q] /\ signals'[q] = signals[q]
    BY <1>1, <2>1, DeliverTyped
  <2>3. running[p] = "loop"
    BY DEF Typed
  <2> HIDE DEF running
  <2> QED BY <1>2, <2>2, <2>3
<1>3. CASE ~(p = "child" /\ Alive("parent"))
  <2>1. run' = running /\ signals' = signals
    BY <1>3 DEF ListenDone
  <2> QED BY <1>1, <2>1 DEF Typed
<1> QED BY <1>2, <1>3

LEMMA StepTyped == ASSUME Typed, NEW p \in Procs, Step(p) PROVE Typed'
<1>t. /\ run \in [Procs -> {"off", "listen", "loop", "returned", "killed", "exited"}]
      /\ srv \in [Procs -> [Servers -> {"new", "serving", "failing", "failed", "shut"}]]
      /\ handler \in [Procs -> {"none", "ready", "grace", "again"}]
      /\ signals \in [Procs -> Seq(Signals)]
      /\ todo \in [Procs -> SUBSET Servers]
  BY DEF Typed
<1>b. once \in [Procs -> BOOLEAN] /\ shutdown \in [Procs -> BOOLEAN] /\ excused \in BOOLEAN
  BY DEF Typed
<1>d. ASSUME teerDown(p)
      PROVE  once' \in [Procs -> BOOLEAN] /\ shutdown' \in [Procs -> BOOLEAN]
  BY <1>b, <1>d DEF teerDown
<1>k. ASSUME NEW sigs, Takes(p, sigs) PROVE signals' \in [Procs -> Seq(Signals)]
  <2>1. signals[p] \in Seq(Signals) /\ signals[p] # << >>
        /\ signals' = [signals EXCEPT ![p] = Tail(signals[p])]
    BY <1>t, <1>k DEF Takes
  <2>2. Tail(signals[p]) \in Seq(Signals)
    BY <2>1
  <2> QED BY <1>t, <2>1, <2>2
<1>1. CASE ListenDone(p)
  BY <1>t, <1>b, <1>1, ListenDoneTyped DEF ListenDone, Typed
<1>2. CASE MainReturns(p)
  BY <1>t, <1>b, <1>2 DEF MainReturns, Typed
<1>3. CASE graceShutdownEnds(p)
  BY <1>t, <1>b, <1>d, <1>3 DEF graceShutdownEnds, Typed
<1>4. ASSUME NEW s \in Servers, ServerTeersDown(p, s) PROVE Typed'
  BY <1>t, <1>b, <1>d, <1>4 DEF ServerTeersDown, Typed
<1>5. CASE handleSignal(p)
  BY <1>t, <1>b, <1>5 DEF handleSignal, Typed
<1>6. CASE graceRestart(p)
  BY <1>t, <1>b, <1>k, <1>6 DEF graceRestart, Typed
<1>7. CASE graceShutdown(p)
  BY <1>t, <1>b, <1>k, <1>7 DEF graceShutdown, Typed
<1>8. CASE AdminShutdown(p)
  BY <1>t, <1>b, <1>8 DEF AdminShutdown, Typed
<1>9. ASSUME NEW s \in Servers, Listens(p, s) \/ Fails(p, s) PROVE Typed'
  <2>1. CASE Listens(p, s)
    BY <1>t, <1>b, <2>1 DEF Listens, Typed
  <2>2. CASE Fails(p, s)
    BY <1>t, <1>b, <2>2 DEF Fails, Typed
  <2> QED BY <1>9, <2>1, <2>2
<1>10. ASSUME NEW s \in Servers, ServerShut(p, s) PROVE Typed'
  BY <1>t, <1>b, <1>10 DEF ServerShut, Typed
<1>11. ASSUME NEW sig \in {"USR1", "TERM"}, Signal(p, sig) PROVE Typed'
  <2>1. sig \in Signals /\ Deliver(p, sig, run)
    BY <1>11 DEF Signal, Signals
  <2>2. /\ run' \in [Procs -> {"off", "listen", "loop", "returned", "killed", "exited"}]
        /\ signals' \in [Procs -> Seq(Signals)]
    BY <1>t, <2>1, DeliverTyped
  <2>3. excused' \in BOOLEAN /\ UNCHANGED << srv, handler, todo, once, shutdown >>
    BY <1>b, <1>11 DEF Signal
  <2> QED BY <1>t, <1>b, <2>2, <2>3 DEF Typed
<1> QED
  BY <1>1, <1>2, <1>3, <1>4, <1>5, <1>6, <1>7, <1>8, <1>9, <1>10, <1>11 DEF Step, OwnStep

\* What a step does to a process q that is not its own.
Apart(q) ==
  /\ run'[q] = run[q] /\ srv'[q] = srv[q] /\ handler'[q] = handler[q]
  /\ signals'[q] = signals[q] /\ todo'[q] = todo[q] /\ shutdown'[q] = shutdown[q]

LEMMA ApartCalm == ASSUME NEW q, Apart(q), Calm(q) PROVE Calm(q)'
  BY DEF Apart, Calm
LEMMA StepApart ==
  ASSUME Typed, NEW p \in Procs, NEW q \in Procs, q # p, Step(p),
         ~graceRestart(p), ListenDone(p) => p = "parent"
  PROVE  Apart(q)
<1>t. /\ DOMAIN run = Procs /\ DOMAIN srv = Procs /\ DOMAIN handler = Procs
      /\ DOMAIN signals = Procs /\ DOMAIN todo = Procs /\ DOMAIN shutdown = Procs
  BY DEF Typed
<1>d. ASSUME teerDown(p) PROVE shutdown'[q] = shutdown[q]
  BY <1>t, <1>d DEF teerDown
<1>1. CASE ListenDone(p)
  <2>1. run'[q] = run[q] /\ signals'[q] = signals[q]
    BY <1>1, ListenDoneTyped
  <2> QED BY <1>1, <2>1 DEF ListenDone, Apart
<1>2. CASE MainReturns(p)
  BY <1>t, <1>2 DEF MainReturns, Apart
<1>3. CASE graceShutdownEnds(p)
  BY <1>t, <1>d, <1>3 DEF graceShutdownEnds, Apart
<1>4. ASSUME NEW s \in Servers, ServerTeersDown(p, s) PROVE Apart(q)
  BY <1>t, <1>d, <1>4 DEF ServerTeersDown, Apart
<1>5. CASE handleSignal(p) \/ graceShutdown(p) \/ AdminShutdown(p)
  BY <1>t, <1>5 DEF handleSignal, graceShutdown, Takes, AdminShutdown, Apart
<1>6. ASSUME NEW s \in Servers, Listens(p, s) \/ Fails(p, s) \/ ServerShut(p, s) PROVE Apart(q)
  BY <1>t, <1>6 DEF Listens, Fails, ServerShut, Apart
<1>7. ASSUME NEW sig \in {"USR1", "TERM"}, Signal(p, sig) PROVE Apart(q)
  <2>1. sig \in Signals /\ Deliver(p, sig, run)
    BY <1>7 DEF Signal, Signals
  <2>2. run'[q] = run[q] /\ signals'[q] = signals[q]
    BY <2>1, DeliverTyped DEF Typed
  <2> QED BY <1>7, <2>2 DEF Signal, Apart
<1> QED
  BY <1>1, <1>2, <1>3, <1>4, <1>5, <1>6, <1>7 DEF Step, OwnStep

\* A calm process stays calm in its own steps, unless somebody is excused.
LEMMA StepCalm ==
  ASSUME Typed, NEW p \in Procs, Calm(p), Step(p), ~graceRestart(p), excused' = FALSE
  PROVE  /\ Calm(p)'
         /\ run'[p] \in {"listen", "loop"} /\ (run[p] = "loop" => run'[p] = "loop")
<1>t. /\ run \in [Procs -> {"off", "listen", "loop", "returned", "killed", "exited"}]
      /\ srv \in [Procs -> [Servers -> {"new", "serving", "failing", "failed", "shut"}]]
      /\ handler \in [Procs -> {"none", "ready", "grace", "again"}]
      /\ signals \in [Procs -> Seq(Signals)] /\ DOMAIN shutdown = Procs
  BY DEF Typed
<1>c. /\ run[p] \in {"off", "listen", "loop"}
      /\ \A s \in Servers : srv[p][s] = "serving" \/ (srv[p][s] = "new" /\ run[p] # "loop")
      /\ handler[p] \in {"none", "ready"} /\ todo[p] = {} /\ shutdown[p] = FALSE
      /\ \A i \in DOMAIN signals[p] : signals[p][i] = "USR1"
  BY DEF Calm
<1>1. CASE ListenDone(p)
  <2>1. run[p] = "listen" /\ run'[p] = "loop" /\ signals'[p] = signals[p]
    BY <1>1, ListenDoneTyped DEF ListenDone
  <2>2. /\ \A s \in Servers : srv[p][s] = "serving"
        /\ UNCHANGED << srv, handler, todo, shutdown >>
    BY <1>c, <1>1 DEF ListenDone
  <2> QED BY <1>c, <2>1, <2>2 DEF Calm
<1>2. ASSUME NEW s \in Servers, Listens(p, s)
      PROVE  Calm(p)' /\ run'[p] = run[p] /\ run[p] \in {"listen", "loop"}
  <2>1. /\ UNCHANGED << run, handler, signals, todo, shutdown >>
        /\ run[p] \in {"listen", "loop"}
        /\ \A x \in Servers : srv'[p][x] = IF x = s THEN "serving" ELSE srv[p][x]
    BY <1>t, <1>2 DEF Listens, Alive
  <2>2. \A x \in Servers : srv'[p][x] = "serving" \/ (srv'[p][x] = "new" /\ run'[p] # "loop")
    BY <1>c, <2>1
  <2> QED BY <1>c, <2>1, <2>2 DEF Calm
<1>3. CASE handleSignal(p)
  BY <1>t, <1>c, <1>3 DEF handleSignal, Calm
<1>4. ASSUME NEW sig \in {"USR1", "TERM"}, Signal(p, sig)
      PROVE  Calm(p)' /\ run'[p] = run[p] /\ run[p] \in {"listen", "loop"}
  <2>1. handler[p] = "ready" /\ sig = "USR1"
    BY <1>4 DEF Signal
  <2>2. /\ Deliver(p, sig, run) /\ run[p] \in {"listen", "loop"}
        /\ UNCHANGED << srv, handler, todo, shutdown >>
    BY <1>4 DEF Signal, Alive
  <2>3. run' = run /\ signals' = [signals EXCEPT ![p] = Append(signals[p], "USR1")]
    BY <2>1, <2>2 DEF Deliver
  <2>4. \A i \in DOMAIN Append(signals[p], "USR1") : Append(signals[p], "USR1")[i] = "USR1"
    <3>1. signals[p] \in Seq(Signals) /\ "USR1" \in Signals
      BY <1>t DEF Signals
    <3> QED BY <1>c, <3>1
  <2>5. signals'[p] = Append(signals[p], "USR1")
    BY <1>t, <2>3
  <2> QED BY <1>c, <2>2, <2>3, <2>4, <2>5 DEF Calm
<1>5. ~MainReturns(p) /\ ~graceShutdownEnds(p) /\ \A s \in Servers : ~ServerTeersDown(p, s)
  BY <1>c DEF MainReturns, graceShutdownEnds, ServerTeersDown
<1>6. ~graceShutdown(p)
  <2> SUFFICES ASSUME graceShutdown(p) PROVE FALSE
    OBVIOUS
  <2>1. signals[p] # << >> /\ Head(signals[p]) \in {"USR2", "TERM"} /\ signals[p] \in Seq(Signals)
    BY <1>t DEF graceShutdown, Takes
  <2>2. 1 \in DOMAIN signals[p] /\ Head(signals[p]) = signals[p][1]
    BY <2>1
  <2> QED BY <1>c, <2>1, <2>2
<1>7. ~AdminShutdown(p) /\ \A s \in Servers : ~Fails(p, s) /\ ~ServerShut(p, s)
  BY <1>c DEF AdminShutdown, Fails, ServerShut
<1> QED
  BY <1>1, <1>2, <1>3, <1>4, <1>5, <1>6, <1>7 DEF Step, OwnStep

\* A restart starts the child, which is calm, and leaves the parent calm.
LEMMA RestartCalm ==
  ASSUME Typed, NEW p \in Procs, graceRestart(p), Calm("parent"), Calm("child")
  PROVE  Calm("child")' /\ Calm("parent")' /\ run'["parent"] = run["parent"]
<1>t. /\ "parent" \in Procs /\ "child" \in Procs /\ DOMAIN run = Procs
      /\ signals \in [Procs -> Seq(Signals)]
  BY DEF Typed, Procs
<1>1. p = "parent"
  BY DEF graceRestart, Takes, Alive, Procs
<1>2. /\ run["child"] = "off" /\ run' \in {run, [run EXCEPT !["child"] = "listen"]}
      /\ signals' = [signals EXCEPT !["parent"] = Tail(signals["parent"])]
      /\ signals["parent"] # << >>
      /\ UNCHANGED << srv, handler, todo, shutdown >>
  BY <1>1 DEF graceRestart, Takes
<1>3. run'["parent"] = run["parent"] /\ run'["child"] \in {"off", "listen"}
  BY <1>t, <1>2
<1>4. Calm("child")'
  <2>1. signals'["child"] = signals["child"]
    BY <1>t, <1>2
  <2> QED BY <1>2, <1>3, <2>1 DEF Calm
<1>5. Calm("parent")'
  <2>1. /\ signals["parent"] \in Seq(Signals)
        /\ \A i \in DOMAIN signals["parent"] : signals["parent"][i] = "USR1"
    BY <1>t DEF Calm
  <2>2. \A i \in DOMAIN Tail(signals["parent"]) : Tail(signals["parent"])[i] = "USR1"
    BY <1>2, <2>1
  <2>3. signals'["parent"] = Tail(signals["parent"])
    BY <1>t, <1>2
  <2> QED BY <1>2, <1>3, <2>2, <2>3 DEF Calm
<1> QED BY <1>3, <1>4, <1>5

LEMMA StepKept == ASSUME KInv, NEW p \in Procs, Step(p) PROVE Kept'
<1>t. Typed /\ "parent" \in Procs /\ "child" \in Procs
  BY DEF KInv, Procs
<1>e. excused \in BOOLEAN /\ excused' \in BOOLEAN
  BY <1>t, StepTyped DEF Typed
<1>x. ASSUME excused = TRUE PROVE excused' = TRUE
  BY <1>x DEF Step, OwnStep, ListenDone, MainReturns, graceShutdownEnds, ServerTeersDown,
              handleSignal, graceRestart, graceShutdown, AdminShutdown, Listens, Fails,
              ServerShut, Signal
<1>1. CASE excused' = TRUE
  BY <1>1 DEF Kept
<1>2. CASE excused' = FALSE
  <2>1. excused = FALSE
    BY <1>e, <1>x, <1>2
  <2>2. Calm("child") /\ (ChildUp \/ (Calm("parent") /\ run["parent"] # "off"))
    BY <2>1 DEF KInv, Kept
  <2>3. CASE graceRestart(p)
    <3>1. run["child"] = "off"
      BY <2>3 DEF graceRestart
    <3>2. Calm("parent") /\ run["parent"] # "off"
      BY <2>2, <3>1 DEF ChildUp
    <3>3. Calm("child")' /\ Calm("parent")' /\ run'["parent"] = run["parent"]
      BY <1>t, <2>2, <2>3, <3>2, RestartCalm
    <3> QED BY <3>2, <3>3 DEF Kept
  <2>4. CASE p = "child" /\ ~graceRestart(p)
    <3>1. Calm("child")' /\ (ChildUp => ChildUp')
      BY <1>t, <1>2, <2>2, <2>4, StepCalm DEF ChildUp
    <3>2. CASE ListenDone(p)
      <4>1. ChildUp'
        BY <1>t, <2>4, <3>2, ListenDoneTyped DEF ChildUp
      <4> QED BY <3>1, <4>1 DEF Kept
    <3>3. CASE ~ListenDone(p)
      <4>1. Apart("parent")
        BY <1>t, <2>4, <3>3, StepApart
      <4>2. Calm("parent") => Calm("parent")'
        BY <4>1, ApartCalm
      <4>3. run'["parent"] = run["parent"]
        BY <4>1 DEF Apart
      <4> QED BY <2>2, <3>1, <4>2, <4>3 DEF Kept
    <3> QED BY <3>2, <3>3
  <2>5. CASE p = "parent" /\ ~graceRestart(p)
    <3>1. Apart("child")
      BY <1>t, <2>5, StepApart
    <3>2. Calm("child")'
      BY <2>2, <3>1, ApartCalm
    <3>3. ChildUp => ChildUp'
      BY <3>1 DEF ChildUp, Apart
    <3>4. Calm("parent") => Calm("parent")' /\ run'["parent"] # "off"
      BY <1>t, <1>2, <2>5, StepCalm
    <3> QED BY <2>2, <3>2, <3>3, <3>4 DEF Kept
  <2> QED BY <2>3, <2>4, <2>5 DEF Procs
<1> QED BY <1>e, <1>1, <1>2

\* Through a graceful restart every object is served by the parent or by the child at
\* every moment, unless a server fails, somebody stops a process or a signal finds no
\* handler; for any number of servers and of signals (Run, SignalUSR2, graceShutdown).
THEOREM ServiceIsKept == Spec => []ServiceKept
<1>1. KInv /\ [Next]_appVars => KInv'
  <2> SUFFICES ASSUME KInv, [Next]_appVars PROVE KInv'
    OBVIOUS
  <2>1. CASE UNCHANGED appVars
    BY <2>1 DEF appVars, KInv, Typed, Kept, Calm, ChildUp
  <2>2. CASE Next
    <3>1. PICK p \in Procs : Step(p)
      BY <2>2 DEF Next, Step
    <3> QED BY <3>1, StepTyped, StepKept DEF KInv
  <2> QED BY <2>1, <2>2
<1>2. KInv => ServiceKept
  <2> SUFFICES ASSUME Calm("child"), ChildUp \/ (Calm("parent") /\ run["parent"] # "off")
               PROVE  ServiceKept
    BY DEF KInv, Kept, ServiceKept
  <2>1. CASE ChildUp
    BY <2>1 DEF ChildUp, Calm, ServiceKept, Alive, Procs
  <2>2. CASE Calm("parent") /\ run["parent"] # "off"
    BY <2>2 DEF Calm, ServiceKept, Alive, Procs
  <2> QED BY <2>1, <2>2
<1> QED BY InitKInv, <1>1, <1>2, PTL DEF Spec
===============================================================================
