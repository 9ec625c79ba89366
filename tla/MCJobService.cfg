SPECIFICATION Spec
CONSTANTS
  Jobs = {j1, j2}
  Apps = {a1, a2}
  Clients = {c1}
  Freelancers = {f1, f2}
  Handlers = {h1, h2, h3}
  Budgets = {0, 4, 20000}
  MaxAmount = 1000
  NoRow = NoRow
SYMMETRY Symmetry
INVARIANTS
  TypeOK
  AcceptIsAtomic
  NoticesAreTrue
  BurstIsBounded
  NoticesAreBounded
PROPERTY
  Refines
