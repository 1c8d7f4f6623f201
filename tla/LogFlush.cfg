SPECIFICATION ServicesSpec
CONSTANTS
  g1 = g1
  g2 = g2
  f1 = f1
  r1 = r1
  r2 = r2
  r3 = r3
  Oops = Oops
  k1 = k1
  k2 = k2
  k3 = k3
  q1 = q1
  q2 = q2
  h1 = h1
  h2 = h2
  Goroutines = {g1, g2}
  Plan <- TwoPlans
  Remote = {r1, r2, r3}
  QueueLen = 1
  RemoteLen = 1
  BatchLen = 2
  ClientCalls = {k1, k2}
  ServerCalls = {k3}
  ReportCalls <- TwoReports
  HeadOf <- Heads
  TimeOf <- Times
  BufLen = 1
  Timeout = 13
  Accuracy = 4
  Waiters = {v1}
  Late = 2
  MaxTime = 32
  Servers = {s1, s2}
  MaxSignals = 2
INVARIANT FlushWritesAll
CHECK_DEADLOCK FALSE
