SPECIFICATION Spec
CONSTANTS
  Msgs = {m1}
  OneWay = {}
  QueueLen = 1
  MaxConns = 1
  MaxFaults = 0
  MaxPush = 1
  MaxCloses = 1
  NoMsg = NoMsg
PROPERTIES GraceCloseWaits
CHECK_DEADLOCK FALSE
