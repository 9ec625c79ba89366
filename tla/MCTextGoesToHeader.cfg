SPECIFICATION Spec
CONSTANTS
  Peers = {p1, p2}
  Known = {p1, p2}
  None = None
  Requests = {s1, s2}
  MaxOpens = 2
  MaxVisits = 1
  MaxRows = 0
  MaxTexts = 1
SYMMETRY Symmetry
INVARIANT
  TextGoesToHeader
CHECK_DEADLOCK FALSE
