SPECIFICATION FairSpec
CONSTANTS
  Conns = {c1, c2, c3}
  Reservers = {r1}
  Keys = {k1}
  Blank = Blank
  None = None
ACTION_CONSTRAINT InTurn
INVARIANTS
  TypeOK
  ModeCountsUsers
  OneFirstPeer
  OneWaiter
  PairedMutually
  RolesDiffer
PROPERTIES
  RendezvousSpec
  JoinEnds
