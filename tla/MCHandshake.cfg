SPECIFICATION FairSpec
CONSTANTS
  Passwords = {p1, p2}
  MaxCandidates = 1
  None = None
INVARIANTS
  TypeOK
  OrderedSignalling
  Authenticated
PROPERTIES
  PartnerQuits
  HandshakeEnds
CHECK_DEADLOCK FALSE
