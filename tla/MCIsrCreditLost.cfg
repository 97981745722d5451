SPECIFICATION Spec
CONSTANTS
  CounterMod = 4
  Bytes = {0, 1}
  Requests <- MCRequests
  OtherEvents <- MCNoEvents
  LineLingers = FALSE
  OutMax = 3
  UsedMax = 1
  MaxBoots = 1
PROPERTY CreditsNeverLost
CHECK_DEADLOCK FALSE
