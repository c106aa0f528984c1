SPECIFICATION Spec
CONSTANTS
  Conns = {c1, c2}
  Reservers = {}
  Keys = {k1}
  Blank = Blank
  None = None
INVARIANTS
  NotBothReceiving
