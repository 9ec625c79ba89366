SPECIFICATION Spec
CONSTANTS
  Ids = {u1}
  Emails = {e1}
  Passwords = {p1}
  Roles = {"client"}
  Fields = {"name", "skills"}
  Values = {v1, Blank}
  Blank = Blank
  Absent = Absent
  NoRow = NoRow
  Handlers = {h1, h2}
SYMMETRY Symmetry
PROPERTY
  OtherFieldsKept
