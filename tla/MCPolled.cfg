SPECIFICATION FairSpec
CONSTANTS
  CounterMod = 4
  Bytes = {0, 1}
  Requests <- MCRequests
  OtherEvents <- MCOtherEvents
  LineLingers = FALSE
  OutMax = 4
  UsedMax = 1
  MaxBoots = 1
INVARIANTS
  TypeOK
  NeverOvertaken
  AnsweredIsReady
  NoFalseReady
  FreshReturn
  RecvBytesFromAnswer
  ConnectedFollowsLink
  AddressNoticed
PROPERTIES
  ImplementsRequest
  EveryRequestCompletes
