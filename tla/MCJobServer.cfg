SPECIFICATION Spec
CONSTANTS
  Jobs = {j1}
  Apps = {a1, a2}
  Clients = {c1}
  Freelancers = {f1}
  Handlers = {h1, h2}
  Budgets = {1000}
  MaxAmount = 1000
  NoRow = NoRow
  PostgresPingRetries = 2
  ConnectRetries = 2
PROPERTIES
  ImplementsService
  HandlersReturn
  EventuallyServes
