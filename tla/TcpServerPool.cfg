SPECIFICATION FairSpec
CONSTANTS
  c1 = c1
  c2 = c2
  p1 = p1
  p2 = p2
  Conns = {c1}
  Pkgs = {p1, p2}
  Stream <- TwoOnOne
  OneWay = {p2}
  Garbage = {}
  MaxInvoke = 1
  QueueCap = 1
  ReadTimeout = FALSE
PROPERTIES RequestsAnswered
CHECK_DEADLOCK FALSE
