SPECIFICATION MCFairSpec
CONSTANTS
  NFiles = 2
  Chunks = {x, y}
  MaxLen = 2
  WireCap = 2
  RetryTimes = 2
  None = None
INVARIANTS
  TypeOK
  Framing
  ReceivedIsSent
  CompleteUnlessFault
PROPERTIES
  ProgressKept
  TransferEnds
CHECK_DEADLOCK FALSE
