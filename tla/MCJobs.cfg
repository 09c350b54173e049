\* The queues of the scheduler, the flags of a job and the files, one of them at a time
CONSTANTS
  Jobs = {j1, j2}
  NoJob = NoJob
  NPriorities = 2
  MaxPushes = 3
  MaxRuns = 3
  Outcomes = {"ok", "error"}
  Sources <- MCSources
  Installed <- MCInstalled
  FileCalls = 3
SPECIFICATION JobsSpec
INVARIANTS
  JobsTypeOK
  OneOwner
  QueuedOnce
  ListedWhileLive
  SleepsOnlyWhenIdle
  FirstComeFirstServed
  SignalsAreFew
  FactoryKeepsItsWord
  TemporaryFilesHaveOwners
PROPERTIES
  PoolSpec
  SignalsTellTheTruth
  JobsProgress
\* The pushes of the clients and the calls of the user are used up.
CHECK_DEADLOCK FALSE
