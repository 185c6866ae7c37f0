SPECIFICATION Spec
CONSTANTS
  Reviewers = {r1}
  Threshold = 1
  SourceMax = 2
  MaxProposed = 1
  MaxMessages = 3
  MaxJobs = 1
  None = None
INVARIANTS ReviewRecent
CHECK_DEADLOCK FALSE
