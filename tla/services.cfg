SPECIFICATION Spec
CONSTANTS
  None = None
  Threads = {p1, p2}
  Facts = {f1, f2}
  MemoryItems = {i1}
  Candidates = {k1}
  MaxHistory = 3
  PlanItems = {i1, i2}
  Turns = {t1}
  Statuses = {"pending", "in_progress", "completed"}
  MaxPlanCalls = 3
  LoopCalls <- CallsTried
  LoopPolicies <- PoliciesGiven
  MaxRepeats = 2
  MaxLoopCalls = 3
  MaxEpoch = 1
  Contents = {"a", "big"}
  Big = {"big"}
  ArtifactLimit = 1
  MaxAttempts = 2
  MaxArtifacts = 1
  Deploys = {c1, c2}
  Commands = 2
  QueueSize = 2
  MaxEvents = 3
  KeepTurns = 1
  MinKeep = 1
  SummaryMax = 2
  MaxMessages = 5
  Names = {"n1", "n2"}
  Given = {"auto", "t1"}
  Souls = {"s1"}
  MaxSessionCalls = 4
  Threshold = 1
  ReviewMax = 1
  MaxProposed = 1
  MaxReviewed = 2
  MaxJobs = 2
  UpdatesAsked <- Updates
  MaxUpdates = 2
  RecallLimit = 2
  RecallExtra = 1
  RecallCandidates = 2
  RecallFound = 1
  RecallInputs <- Recalls
  DayLength = 4
  FirstWeekday = 3
  MonthStarts <- Months
  CalendarInputs <- Moments
  PolicyInputs <- Scopes
  ActionsAsked <- Actions
  PlanInputs <- Graphs
INVARIANTS TypeOK LedgersMatch PlanRunsAgree LoopGuarded
  ResumesWhereLost TextsFaithful ReportsFaithful CalendarRight PlannedWorkRight
PROPERTIES EditsKnown
CHECK_DEADLOCK FALSE
