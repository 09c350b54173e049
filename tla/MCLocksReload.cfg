CONSTANTS
  MaxJobs = 1
  Steps = 2
  ReloadUnderDialog = TRUE
SPECIFICATION LockSpec
INVARIANT MainLoopNotBlocked
