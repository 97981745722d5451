SPECIFICATION Spec
CONSTANTS
  Commands <- MCCommands
  SendLengths <- MCSendLengths
  Events <- MCEvents
  RecvSizes <- MCRecvSizes
  RecvArgs <- MCRecvArgs
INVARIANTS
  TypeOK
  FrameIsWhole
  MessageIsWhole
  ArgumentsRead
  RecvDataWhole
