SPECIFICATION Spec
CONSTANTS
  Msgs = {m1, m2}
  OneWay = {m2}
  QueueLen = 1
  MaxConns = 2
  MaxFaults = 2
  MaxPush = 1
  MaxCloses = 1
  NoMsg = NoMsg
INVARIANTS LiveLoops MessageConserved InvokeNumCovers
PROPERTIES IdleCloseIsIdle
CHECK_DEADLOCK FALSE
