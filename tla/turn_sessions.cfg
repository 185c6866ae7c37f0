SPECIFICATION Spec
CONSTANTS
  u1 = u1
  u2 = u2
  main = main
  None = None
  Turns = {u1, u2}
  Sessions = {main}
  SessionOf <- OneSession
  PolicyOf <- OneWithTools
  MaxToolIterations = 1
  MaxCalls = 2
INVARIANTS TypeOK PairedCalls
PROPERTIES OnlyOwnEntryCleared
CHECK_DEADLOCK FALSE
