SPECIFICATION Spec
CHECK_DEADLOCK FALSE
CONSTANTS
  None = None
  e1 = e1
  e2 = e2
  c1 = c1
  c2 = c2
  Eps = {e1, e2}
  Callers = {c1, c2}
  OneWay = {}
  Hash = {"mod"}
  FainN = 1
  OverN = 3
  CheckCap = 1
  Caches = {}
  MaxGen = 2
  MaxFails = 2
  MaxChanges = 1
INVARIANTS ProbeOnce ProbesFit CachedOpen NoEmptyDraw
ACTION_CONSTRAINT FewCases
SYMMETRY Symmetry
