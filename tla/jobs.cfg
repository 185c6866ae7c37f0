SPECIFICATION Spec
CONSTANTS
  Jobs = {j1}
  Callers = {c1, c2}
  MaxRuns = 2
  None = None
INVARIANTS TypeOK NextRunKnown RunsWereDelivered
PROPERTIES DueJobFires
CHECK_DEADLOCK FALSE
