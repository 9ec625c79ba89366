SPECIFICATION FairSpec
CONSTANTS
  Peers = {p1, p2}
  Known = {p1}
  None = None
  Requests = {s1, s2}
  MaxOpens = 2
  MaxVisits = 2
  MaxRows = 1
  MaxTexts = 1
INVARIANTS
  TypeOK
  TextsArriveOnceAndRight
PROPERTIES
  IntervalsEnd
  CatchesUp
CHECK_DEADLOCK FALSE
