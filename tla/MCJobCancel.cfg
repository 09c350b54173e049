CONSTANTS
  MaxRuns = 1
  Outcomes = {"ok", "error"}
SPECIFICATION JobSpec
PROPERTY FinishedNotAfterCancel
CHECK_DEADLOCK FALSE
