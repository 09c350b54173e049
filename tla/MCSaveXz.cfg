\* Saving a copy of a document that was compressed with xz
CONSTANTS
  Jobs = {j1}
  NoJob = NoJob
  NPriorities = 1
  MaxPushes = 1
  MaxRuns = 1
  Outcomes = {"ok"}
  Sources <- MCSources
  Installed <- MCInstalled
  FileCalls = 2
SPECIFICATION JobsSpec
PROPERTY CompressedAgain
\* The pushes and the calls are used up.
CHECK_DEADLOCK FALSE
