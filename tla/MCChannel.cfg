SPECIFICATION FairSpec
CONSTANTS
  Load <- MCLoad
  Threshold = 0
  Window = 1
INVARIANTS
  TypeOK
  NothingLeftOut
  OneWriter
  WakeupDue
  FirstToEndDelivers
PROPERTIES
  WriteResumes
  PipeEndsTogether
  CallersEnd
CHECK_DEADLOCK FALSE
