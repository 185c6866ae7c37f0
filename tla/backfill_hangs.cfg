SPECIFICATION Spec
CONSTANTS
  None = None
  Requests = {"settings", "memory page"}
PROPERTIES BackfillAnswered
CHECK_DEADLOCK FALSE
