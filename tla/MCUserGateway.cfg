SPECIFICATION GatewaySpec
CONSTANTS
  Ids = {u1, u2}
  Emails = {e1, e2}
  Passwords = {p1}
  Roles = {"client", "freelancer"}
  Fields = {"name"}
  Values = {v1, Blank}
  Blank = Blank
  Absent = Absent
  NoRow = NoRow
  Handlers = {h1, h2}
  Browsers = {b1}
  None = None
  Short = Short
SYMMETRY Symmetry
INVARIANTS
  GatewayTypeOK
  EmailIsUnique
  TokensAreBacked
  ValuesWereGiven
  SessionIsTrue
  PatientSessionIsOne
