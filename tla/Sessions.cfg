CONSTANTS
  None = None
  u1 = u1
  r1 = r1
  r2 = r2
  t1 = t1
  t2 = t2
  t3 = t3
  Users = {u1}
  Requests = {r1, r2}
  Tokens = {t1, t2, t3}
SPECIFICATION Spec
SYMMETRY Symmetric
CHECK_DEADLOCK FALSE
INVARIANTS OneSession RevocationHolds
