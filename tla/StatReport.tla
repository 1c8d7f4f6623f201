------------------------------ MODULE StatReport ------------------------------
(***************************************************************************)
(* The statistics of calls (statf.go).  Every call, as a client or as a    *)
(* server, puts one entry into a bounded channel; one goroutine, Run,      *)
(* empties the two channels into two maps from the head of an entry to a   *)
(* summary, and reports and clears the maps at every tick.  The report is  *)
(* itself a call: it ends with an entry put into the channel that its own  *)
(* goroutine empties.                                                      *)
(*                                                                         *)
(* A head is a model value; mStatCount, which nobody reads, is left out.   *)
(***************************************************************************)
EXTENDS Counting, Functions, FiniteSetsExt

CONSTANTS
  ClientCalls,   \* calls made by other goroutines
  ServerCalls,   \* calls served
  ReportCalls,   \* the calls that report, in order; bound: as many reports are made
  HeadOf,        \* the head of the entry of a call
  TimeOf,        \* its response time
  BufLen         \* StatReportChannelBufLen

Entries == ClientCalls \cup ServerCalls \cup Range(ReportCalls)
Sides == {"client", "server"}
Kinds == {"succ", "timeout", "exec"}
timePoint == {5, 10, 50, 100, 200, 500, 1000, 2000, 3000}

\* A call puts one entry into one channel; times are whole milliseconds.
ASSUME StatAssumption ==
  /\ ReportCalls \in Seq(Entries) /\ TimeOf \in [Entries -> Nat]
  /\ ClientCalls \cap ServerCalls = {} /\ Range(ReportCalls) \cap (ClientCalls \cup ServerCalls) = {}
  /\ \A i, k \in DOMAIN ReportCalls : ReportCalls[i] = ReportCalls[k] => i = k

VARIABLES
  toReport,    \* calls whose entry is still to be put into a channel
  chStatInfo,  \* the channels chStatInfo and chStatInfoFromServer
  mStatInfo,   \* the maps mStatInfo and mStatInfoFromServer
  runner,      \* Run: in its select, in a report call, or at the end of one
  nReports,    \* reports made
  collected,   \* the entries that each map stands for
  carried      \* how many reports have carried an entry along

statVars == << toReport, chStatInfo, mStatInfo, runner, nReports, collected, carried >>

Selecting == [at |-> "select", side |-> "client", kind |-> "none"]
NoStats == [h \in {} |-> 0]

StatInit ==
  /\ toReport = ClientCalls \cup ServerCalls
  /\ chStatInfo = [d \in Sides |-> << >>] /\ mStatInfo = [d \in Sides |-> NoStats]
  /\ runner = Selecting /\ nReports = 0
  /\ collected = [d \in Sides |-> {}] /\ carried = [c \in Entries |-> 0]

\* ReportStatFromClient, ReportStatFromServer, pushBackMsg: an entry counts as one
\* success, one timeout or one failure; the send waits for room.
Push(d, c, k) ==
  /\ Len(chStatInfo[d]) < BufLen
  /\ chStatInfo' = [chStatInfo EXCEPT ![d] = Append(@, [call |-> c, kind |-> k])]

ReportStatFromClient(c) ==
  /\ c \in toReport \cap ClientCalls /\ toReport' = toReport \ {c}
  /\ \E k \in Kinds : Push("client", c, k)
  /\ UNCHANGED << mStatInfo, runner, nReports, collected, carried >>

ReportStatFromServer(c) ==
  /\ c \in toReport \cap ServerCalls /\ toReport' = toReport \ {c}
  /\ \E k \in {"succ", "exec"} : Push("server", c, k)
  /\ UNCHANGED << mStatInfo, runner, nReports, collected, carried >>

Of(e, k) == IF e.kind = k THEN 1 ELSE 0

\* getIntervCount: the first point above the time; the first entry sets all points.
getIntervCount(t, intervalCount) ==
  LET base == IF DOMAIN intervalCount = {} THEN [p \in timePoint |-> 0] ELSE intervalCount
      above == {p \in timePoint : t < p}
  IN  IF above = {} THEN base ELSE [base EXCEPT ![Min(above)] = @ + 1]

FirstBody(e) ==
  LET t == TimeOf[e.call] IN
  [Count |-> Of(e, "succ"), TimeoutCount |-> Of(e, "timeout"), ExecCount |-> Of(e, "exec"),
   TotalRspTime |-> t, MaxRspTime |-> t, MinRspTime |-> t,
   IntervalCount |-> getIntervCount(t, NoStats)]

AddTo(body, e) ==
  LET t == TimeOf[e.call] IN
  [Count |-> body.Count + Of(e, "succ"), TimeoutCount |-> body.TimeoutCount + Of(e, "timeout"),
   ExecCount |-> body.ExecCount + Of(e, "exec"), TotalRspTime |-> body.TotalRspTime + t,
   MaxRspTime |-> IF body.MaxRspTime < t THEN t ELSE body.MaxRspTime,
   MinRspTime |-> IF body.MinRspTime > t THEN t ELSE body.MinRspTime,
   IntervalCount |-> getIntervCount(t, body.IntervalCount)]

\* Run takes an entry from a channel: collectMsg.
collectMsg(d) ==
  /\ runner.at = "select" /\ chStatInfo[d] # << >>
  /\ LET e == Head(chStatInfo[d])
         h == HeadOf[e.call]
         m == mStatInfo[d]
         body == IF h \in DOMAIN m THEN AddTo(m[h], e) ELSE FirstBody(e)
     IN  /\ mStatInfo' = [mStatInfo EXCEPT
              ![d] = [x \in DOMAIN m \cup {h} |-> IF x = h THEN body ELSE m[x]]]
         /\ collected' = [collected EXCEPT ![d] = @ \cup {e}]
  /\ chStatInfo' = [chStatInfo EXCEPT ![d] = Tail(@)]
  /\ UNCHANGED << toReport, runner, nReports, carried >>

Reporting(d) == [at |-> "call", side |-> d, kind |-> "none"]
HasStats(d) == DOMAIN mStatInfo[d] # {}

\* Bug: a tick that finds nothing to report ends the loop.
BugTick ==
  /\ runner.at = "select" /\ nReports < Len(ReportCalls)
  /\ \/ HasStats("client") /\ runner' = Reporting("client")
     \/ ~HasStats("client") /\ runner' = [Selecting EXCEPT !.at = "ended"]
  /\ UNCHANGED << toReport, chStatInfo, mStatInfo, nReports, collected, carried >>

\* Run takes a tick: first the map of the client's calls, then the server's.
Tick ==
  /\ runner.at = "select" /\ nReports < Len(ReportCalls)
  /\ \/ HasStats("client") /\ runner' = Reporting("client")
     \/ ~HasStats("client") /\ HasStats("server") /\ runner' = Reporting("server")
  /\ UNCHANGED << toReport, chStatInfo, mStatInfo, nReports, collected, carried >>

\* reportAndClear: the call of ReportMicMsg ends, or times out.
CallEnds(k) ==
  /\ runner.at = "call" /\ runner' = [runner EXCEPT !.at = "push", !.kind = k]
  /\ nReports' = nReports + 1
  /\ UNCHANGED << toReport, chStatInfo, mStatInfo, collected, carried >>

Carry(d) ==
  carried' = [c \in Entries |-> carried[c] + Cardinality({e \in collected[d] : e.call = c})]

\* Bug: the map is kept when the report fails, though a report that timed out may
\* have arrived.
BugCleared ==
  /\ runner.at = "push" /\ Push("client", ReportCalls[nReports], runner.kind)
  /\ IF runner.kind = "succ"
     THEN /\ mStatInfo' = [mStatInfo EXCEPT ![runner.side] = NoStats]
          /\ collected' = [collected EXCEPT ![runner.side] = {}]
     ELSE UNCHANGED << mStatInfo, collected >>
  /\ Carry(runner.side) /\ runner' = Selecting
  /\ UNCHANGED << toReport, nReports >>

\* The entry of the report call itself, put by TarsInvoke from the goroutine of Run;
\* then the map is cleared, whatever came of the call, and the tick goes on with
\* the server's map.
Cleared ==
  /\ runner.at = "push" /\ Push("client", ReportCalls[nReports], runner.kind)
  /\ mStatInfo' = [mStatInfo EXCEPT ![runner.side] = NoStats]
  /\ collected' = [collected EXCEPT ![runner.side] = {}]
  /\ Carry(runner.side)
  /\ runner' = IF /\ runner.side = "client" /\ HasStats("server")
                  /\ nReports < Len(ReportCalls)
               THEN Reporting("server") ELSE Selecting
  /\ UNCHANGED << toReport, nReports >>

RunStep ==
  (\E d \in Sides : collectMsg(d)) \/ Tick \/ (\E k \in {"succ", "timeout"} : CallEnds(k))
    \/ Cleared
CallerStep(c) == ReportStatFromClient(c) \/ ReportStatFromServer(c)
StatNext == RunStep \/ \E c \in ClientCalls \cup ServerCalls : CallerStep(c)

\* The Go scheduler runs every goroutine that can run; a report call ends, if only
\* by its timeout.
StatFairness ==
  /\ WF_statVars(RunStep) /\ \A c \in ClientCalls \cup ServerCalls : WF_statVars(CallerStep(c))
StatSpec == StatInit /\ [][StatNext]_statVars
-------------------------------------------------------------------------------
\* The time of a set of entries, every millisecond of each: as many as the sum.
Milliseconds(S) == UNION {{e} \X (1..TimeOf[e.call]) : e \in S}

\* The interval that a time counts for: the first point above it.
InInterval(t, p) == t < p /\ \A q \in timePoint : q < p => t >= q

\* The summary of a set of entries, field by field.
IsSummary(body, S) ==
  LET times == {TimeOf[e.call] : e \in S}
      number(k) == Cardinality({e \in S : e.kind = k})
  IN  /\ body.Count = number("succ") /\ body.TimeoutCount = number("timeout")
      /\ body.ExecCount = number("exec")
      /\ body.TotalRspTime = Cardinality(Milliseconds(S))
      /\ body.MaxRspTime = Max(times) /\ body.MinRspTime = Min(times)
      /\ body.IntervalCount = [p \in timePoint |->
                                 Cardinality({e \in S : InInterval(TimeOf[e.call], p)})]

\* The calls whose entry has been put into a channel.
Pushed ==
  ((ClientCalls \cup ServerCalls) \ toReport)
    \cup {ReportCalls[i] : i \in 1..(IF runner.at = "push" THEN nReports - 1 ELSE nReports)}

\* statf.go: an entry is counted once: it is in one channel or in one map until a
\* report carries it along, and in no later report, whether that one succeeded or
\* not; and the summary under each head is that of the entries it stands for.
StatsConserved ==
  /\ \A c \in Entries :
       LET of == [call : {c}, kind : Kinds]
           held == of \cap (collected["client"] \cup collected["server"])
       IN  Among(chStatInfo["client"], of) + Among(chStatInfo["server"], of)
             + Cardinality(held) + carried[c] = IF c \in Pushed THEN 1 ELSE 0
  /\ \A d \in Sides :
       LET of(h) == {e \in collected[d] : HeadOf[e.call] = h} IN
       /\ DOMAIN mStatInfo[d] = {HeadOf[e.call] : e \in collected[d]}
       /\ \A h \in DOMAIN mStatInfo[d] : IsSummary(mStatInfo[d][h], of(h))

\* pushBackMsg: no call waits for ever to report its statistics, however small the
\* channel is, unless Run waits for itself: the report call's own entry finds the
\* channel full that only Run empties (reportAndClear).
PushReturns ==
  \A c \in ClientCalls \cup ServerCalls :
    c \in toReport ~> \/ c \notin toReport
                      \/ runner.at = "push" /\ Len(chStatInfo["client"]) = BufLen
===============================================================================
