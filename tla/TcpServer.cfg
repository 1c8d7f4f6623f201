SPECIFICATION Spec
CONSTANTS
  c1 = c1
  c2 = c2
  p1 = p1
  p2 = p2
  Conns = {c1, c2}
  Pkgs = {p1, p2}
  Stream <- OneEach
  OneWay = {p2}
  Garbage = {c1}
  MaxInvoke = 1
  QueueCap = 0
  ReadTimeout = TRUE
INVARIANTS NumInvokeCounts NoResponseDropped GracefulReturn
CHECK_DEADLOCK FALSE
