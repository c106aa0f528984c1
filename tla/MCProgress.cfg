SPECIFICATION MCFairSpec
CONSTANTS
  NFiles = 2
  Chunks = {x}
  MaxLen = 2
  WireCap = 2
  RetryTimes = 2
  None = None
INVARIANTS
  ProgressTypeOK
  WrittenOnDisk
  WithinSize
  ReportsComplete
PROPERTIES
  CallsEnd
CHECK_DEADLOCK FALSE
