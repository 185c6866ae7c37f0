SPECIFICATION Spec
CONSTANTS
  t1 = t1
  t2 = t2
  r1 = r1
  r2 = r2
  r3 = r3
  s1 = s1
  s2 = s2
  None = None
  Tasks = {t1}
  Runs = {r1, r2}
  Supervisors = {s1, s2}
  MaxWorkers = 1
  MaxAttempts = 2
  Reviewed = {}
  RootOf <- SoloRoot
  Width = 1
INVARIANTS TypeOK OnlyDeadWrittenOff WithinMaxWorkers
PROPERTIES PromiseKept
SYMMETRY SupervisorSymmetry
CHECK_DEADLOCK FALSE
