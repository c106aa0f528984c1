SPECIFICATION Spec
CONSTANTS
  Conns = {c1, c2}
  Reservers = {r1}
  Keys = {k1, k2}
  Blank = Blank
  None = None
INVARIANTS
  WaiterKeepsEntry
