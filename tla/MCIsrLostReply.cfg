SPECIFICATION Spec
CONSTANTS
  CounterMod = 4
  Bytes = {0, 1}
  Requests <- MCRequests
  OtherEvents <- MCNoEvents
  LineLingers = FALSE
  OutMax = 3
  UsedMax = 0
  MaxBoots = 1
INVARIANT AnsweredIsReady
CHECK_DEADLOCK FALSE
