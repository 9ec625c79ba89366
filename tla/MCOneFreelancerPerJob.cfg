SPECIFICATION GatewaySpec
CONSTANTS
  Jobs = {j1}
  Apps = {a1, a2}
  Clients = {c1}
  Freelancers = {f1, f2}
  Handlers = {h1, h2}
  Budgets = {1000}
  MaxAmount = 1000
  NoRow = NoRow
  Callers = {u1}
  None = None
  MaxGivenUp = 1
SYMMETRY Symmetry
INVARIANTS
  OneFreelancerPerJob
