SPECIFICATION Spec
CONSTANTS
  Jobs = {j1, j2}
  Apps = {a1, a2}
  Clients = {me, u1}
  Freelancers = {me, u1}
  Amounts = {1}
  NoRow = NoRow
  Anyone = Anyone
  Me = me
  Tasks = {t1, t2}
  None = None
  MaxVisits = 3
  MaxSubmits = 2
SYMMETRY Symmetry
INVARIANTS
  TypeOK
  TrueToTheJob
  PatientAppliesOnce
CHECK_DEADLOCK FALSE
