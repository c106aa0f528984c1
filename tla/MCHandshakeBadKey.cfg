SPECIFICATION Spec
CONSTANTS
  Passwords = {p1, p2}
  MaxCandidates = 1
  None = None
INVARIANTS
  BadKeyReported
CHECK_DEADLOCK FALSE
