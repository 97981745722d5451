SPECIFICATION Spec
CONSTANTS
  Commands <- MCFewCommands
  SendLengths <- MCFewLengths
  Events <- MCFewEvents
  RecvSizes <- MCLongRecv
  RecvArgs <- MCOneLength
INVARIANT OversizeRefused
