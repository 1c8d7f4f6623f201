------------------------------- MODULE TimeWheel -------------------------------
(***************************************************************************)
(* The timing wheel of the timeouts of calls (util/rtimer/timewheel.go):   *)
(* After(t) keeps one wheel per duration t, with accuracy + 1 slots and a  *)
(* tick of t / accuracy, and returns the channel in the slot of the        *)
(* deadline.  At every tick the goroutine run replaces the channel of the  *)
(* current slot under the lock, and closes the old one after it.           *)
(*                                                                         *)
(* Channels are numbered.  The clock counts units of t's resolution; the   *)
(* goroutine may be up to Late units behind its ticker.                    *)
(***************************************************************************)
EXTENDS Naturals

CONSTANTS
  Timeout,    \* the duration t
  Accuracy,   \* accuracy (20)
  Waiters,    \* goroutines that call After
  Late,       \* how many units run may be late
  MaxTime     \* bound of the clock

tick == Timeout \div Accuracy
size == Accuracy + 1
maxT == tick * size

\* What NewTicker and After demand, and panic without: a timeout of at least accuracy
\* units, and less than one tick cut off by the division.
Accepted == tick > 0 /\ Timeout < maxT

VARIABLES
  now,       \* the clock
  wheel,     \* timeWheel: the channel in each slot
  currPos,
  made,      \* channels made so far
  tickedAt,  \* the tick in ticker.C, or 0
  closing,   \* the channel that run is about to close, or 0
  closed,    \* the channels that are closed
  waiter     \* each waiter's channel, when it got it and when that was closed

wheelVars == << now, wheel, currPos, made, tickedAt, closing, closed, waiter >>

Idle == [ch |-> 0, since |-> 0, fired |-> FALSE, at |-> 0]

\* NewTimeWheel
WheelInit ==
  /\ now = 0 /\ wheel = [i \in 0..(size - 1) |-> i + 1] /\ currPos = 0 /\ made = size
  /\ tickedAt = 0 /\ closing = 0 /\ closed = {} /\ waiter = [w \in Waiters |-> Idle]

\* The clock, and with it the ticker.  A goroutine that is Late is run first.
Advance ==
  /\ now < MaxTime
  /\ tickedAt # 0 => now - tickedAt < Late
  /\ closing # 0 => now % tick < Late
  /\ now' = now + 1
  /\ tickedAt' = IF now' % tick = 0 THEN now' ELSE tickedAt
  /\ UNCHANGED << wheel, currPos, made, closing, closed, waiter >>

\* Mutant for TimerFires: without pos--, the slot is one tick further.
BugSlot == (currPos + Timeout \div tick) % size

\* The slot of the deadline.
Slot ==
  LET pos == Timeout \div tick IN (currPos + IF 0 < pos THEN pos - 1 ELSE pos) % size

\* TimeWheel.After, under the lock.
After(w) ==
  /\ waiter[w] = Idle /\ Accepted
  /\ waiter' = [waiter EXCEPT ![w] =
       [ch |-> wheel[Slot], since |-> now, fired |-> wheel[Slot] \in closed, at |-> now]]
  /\ UNCHANGED << now, wheel, currPos, made, tickedAt, closing, closed >>

\* run: the section under the lock.
Turn ==
  /\ tickedAt # 0 /\ closing = 0
  /\ tickedAt' = 0 /\ closing' = wheel[currPos]
  /\ wheel' = [wheel EXCEPT ![currPos] = made + 1] /\ made' = made + 1
  /\ currPos' = (currPos + 1) % size
  /\ UNCHANGED << now, closed, waiter >>

\* run: close(oldestC), after the lock was given back.
Close ==
  /\ closing # 0
  /\ closed' = closed \cup {closing} /\ closing' = 0
  /\ waiter' = [w \in Waiters |->
       IF waiter[w].ch = closing THEN [waiter[w] EXCEPT !.fired = TRUE, !.at = now] ELSE waiter[w]]
  /\ UNCHANGED << now, wheel, currPos, made, tickedAt >>

WheelNext == Advance \/ (\E w \in Waiters : After(w)) \/ Turn \/ Close
WheelSpec == WheelInit /\ [][WheelNext]_wheelVars
-------------------------------------------------------------------------------
\* "means max 1/20 deviation" (timewheel.go:11): whenever After is called and whatever
\* turn the wheel is in, the channel it returns is closed no earlier than one tick
\* before the timeout (and what the division by accuracy cuts off), and no later than
\* the timeout, up to the lateness of run; in particular it is not closed already, not
\* when the wheel wraps around either, and no channel is closed twice, which would panic.
TimerFires ==
  /\ closing \notin closed
  /\ \A w \in Waiters : waiter[w] # Idle =>
       LET since == waiter[w].since IN
       IF waiter[w].fired
       THEN /\ waiter[w].at + Late + tick + (Timeout % Accuracy) >= since + Timeout
            /\ waiter[w].at <= since + Timeout + Late
       ELSE now <= since + Timeout + Late
===============================================================================
