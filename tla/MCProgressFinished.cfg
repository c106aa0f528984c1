SPECIFICATION MCSpec
CONSTANTS
  NFiles = 2
  Chunks = {x}
  MaxLen = 2
  WireCap = 2
  RetryTimes = 2
  None = None
INVARIANTS
  FinishedIsComplete
CHECK_DEADLOCK FALSE
