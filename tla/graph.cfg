SPECIFICATION Spec
CONSTANTS
  g0 = g0
  g1 = g1
  g2 = g2
  g3 = g3
  g4 = g4
  c1 = c1
  c2 = c2
  r1 = r1
  None = None
  Tasks = {g0, g1, g2, g3, g4}
  Root = g0
  Planned = {g1, g2}
  Callers = {c1, c2}
  Runs = {r1}
  Width = 1
  MaxReplans = 2
  MaxAttempts = 1
  MaxTries = 1
  MaxCalls = 3
  Reviewed = {}
  RootOf <- OneRoot
INVARIANTS EdgesAcyclic
PROPERTIES PlanFollowed OverStaysOver
SYMMETRY GraphSymmetry
CHECK_DEADLOCK FALSE
