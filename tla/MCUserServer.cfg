SPECIFICATION ServerSpec
CONSTANTS
  Ids = {u1, u2}
  Emails = {e1, e2}
  Passwords = {p1}
  Roles = {"client"}
  Fields = {"name", "skills"}
  Values = {v1, Blank}
  Blank = Blank
  Absent = Absent
  NoRow = NoRow
  Handlers = {h1}
PROPERTIES
  RefinesAccounts
  SkillsRemain
  ShutdownEnds
  EventuallyServes
