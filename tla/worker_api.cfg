SPECIFICATION Spec
CONSTANTS
  t1 = t1
  t2 = t2
  t3 = t3
  t4 = t4
  r1 = r1
  r2 = r2
  r3 = r3
  c1 = c1
  c2 = c2
  None = None
  Tasks = {t1}
  Runs = {r1, r2}
  Clients = {c1, c2}
  Local = {r1, r2}
  Watched = {}
  MaxAttempts = 2
  Reviewed = {t1}
  RootOf <- SoloRoot
  Deps = {}
  Width = 1
  MaxRestarts = 1
INVARIANTS TypeOK ClaimConsistent
PROPERTIES OnlyCancelAfterEnd PromiseKept
SYMMETRY CallSymmetry
CHECK_DEADLOCK FALSE
