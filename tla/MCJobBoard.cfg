SPECIFICATION Spec
CONSTANTS
  Jobs = {j1, j2, j3}
  Apps = {a1}
  Clients = {me, u1}
  Freelancers = {u1}
  Amounts = {1}
  NoRow = NoRow
  Anyone = Anyone
  Me = me
  Other = u1
  None = None
  Loads = {l1, l2}
  PageSize = 1
SYMMETRY Symmetry
INVARIANTS
  TypeOK
  PageHasItsButton
  WalkMissesNothing
  OwnJobIsShown
  BadgesAreTrue
