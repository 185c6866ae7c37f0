SPECIFICATION FairSpec
CONSTANTS
  u1 = u1
  u2 = u2
  main = main
  None = None
  Turns = {u1}
  Sessions = {main}
  SessionOf <- OneSession
  PolicyOf <- OneWithTools
  MaxToolIterations = 2
  MaxCalls = 2
INVARIANTS RunsOnlyApproved NoToolBesideTurn
PROPERTIES CancelStopsWork TurnEnds CancelEnds
CHECK_DEADLOCK FALSE
