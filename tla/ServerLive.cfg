SPECIFICATION LiveSpec
CONSTANTS
  c1 = c1
  p1 = p1
  p2 = p2
  None = None
  Eps = {e1}
  Callers = {d1, d2}
  OneWay = {}
  Hash = {"rr"}
  FainN = 1
  OverN = 2
  CheckCap = 2
  Caches = {}
  MaxGen = 1
  MaxFails = 3
  MaxChanges = 0
INVARIANTS SelectorsInStep
PROPERTIES ShutdownReturns RequestsAnswered BlockedRecovers
CHECK_DEADLOCK FALSE
