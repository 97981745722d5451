SPECIFICATION Spec
CONSTANTS
  CounterMod = 5
  Bytes = {0, 1}
  Requests <- MCTwoRequests
  OtherEvents <- MCNoEvents
  LineLingers = TRUE
  OutMax = 4
  UsedMax = 1
  MaxBoots = 2
INVARIANTS
  TypeOK
  NeverOvertaken
  NoFalseReady
  FreshReturn
  ConnectedFollowsLink
  AddressNoticed
PROPERTIES
  ImplementsRequest
  CreditsNeverCreated
  BusExclusive
CHECK_DEADLOCK FALSE
