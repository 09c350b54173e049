CONSTANTS
  Jobs = {j1, j2}
  NoJob = NoJob
  NPriorities = 3
  MaxPushes = 2
SPECIFICATION Spec
INVARIANT PriorityHonoured
CHECK_DEADLOCK FALSE
