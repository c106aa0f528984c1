SPECIFICATION FairWebSpec
CONSTANTS
  Passwords = {p1, p2}
  MaxCandidates = 1
  None = None
INVARIANTS
  WebTypeOK
  EventsInOrder
  CandidatesKept
  WebAuthenticated
  ByeReportsBadKey
PROPERTIES
  WebPartnerQuits
  ClashEnds
CHECK_DEADLOCK FALSE
