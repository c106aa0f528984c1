SPECIFICATION Spec
CONSTANTS
  NFiles = 1
  Chunks = {x, y}
  MaxLen = 2
  WireCap = 2
  RetryTimes = 2
  None = None
INVARIANTS
  RestartReplaces
CHECK_DEADLOCK FALSE
