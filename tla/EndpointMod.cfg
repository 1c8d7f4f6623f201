SPECIFICATION Spec
CONSTANTS
  None = None
  e1 = e1
  e2 = e2
  c1 = c1
  c2 = c2
  Eps = {e1, e2}
  Callers = {c1, c2}
  OneWay = {}
  Hash = {"mod"}
  FainN = 2
  OverN = 2
  CheckCap = 2
  Caches = {}
  MaxGen = 1
  MaxFails = 0
  MaxChanges = 0
INVARIANTS RandomOnlyIfNoneAlive
