SPECIFICATION Spec
CONSTANTS
  Users = {me, u1, u2}
  Nobody = nobody
  Projects = {0, 1}
  Senders = {s1, s2}
  MaxRows = 3
  MaxTime = 4
  FullTime = 4
  DefaultLimit = 2
  Me = me
  PageSize = 1
  Second = 2
SYMMETRY Symmetry
CONSTRAINT OneClient
INVARIANTS
  TypeOK
  DialogsShowNewest
  PagesSkipNothing
  MarksAreTrue
PROPERTY RefinesMailbox
