SPECIFICATION Spec
CONSTANTS
  CounterMod = 6
  Bytes = {0, 1}
  Requests <- MCAllRequests
  OtherEvents <- MCNoEvents
  LineLingers = FALSE
  OutMax = 3
  UsedMax = 1
  MaxBoots = 3
INVARIANT NoFalseReady
CHECK_DEADLOCK FALSE
