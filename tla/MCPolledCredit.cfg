SPECIFICATION Spec
CONSTANTS
  CounterMod = 4
  Bytes = {0, 1}
  Requests <- MCAllRequests
  OtherEvents <- MCNoEvents
  LineLingers = FALSE
  OutMax = 3
  UsedMax = 1
  MaxBoots = 1
PROPERTY CreditsNeverCreated
CHECK_DEADLOCK FALSE
