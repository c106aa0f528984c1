SPECIFICATION Spec
CONSTANTS
  Conns = {c1, c2}
  Reservers = {}
  Keys = {k1, k2}
  Blank = Blank
  None = None
PROPERTIES
  TimeoutFreesSlot
