SPECIFICATION Spec
CONSTANTS
  CounterMod = 5
  Bytes = {0, 1}
  Requests <- MCRequests
  OtherEvents <- MCNoEvents
  LineLingers = FALSE
  OutMax = 3
  UsedMax = 0
  MaxBoots = 2
INVARIANT StartAnsweredIsReady
CHECK_DEADLOCK FALSE
