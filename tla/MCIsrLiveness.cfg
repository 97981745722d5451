SPECIFICATION FairSpec
CONSTANTS
  CounterMod = 4
  Bytes = {0, 1}
  Requests <- MCRequests
  OtherEvents <- MCNoEvents
  LineLingers = FALSE
  OutMax = 3
  UsedMax = 1
  MaxBoots = 1
PROPERTIES
  ArmedCompletes
CHECK_DEADLOCK FALSE
