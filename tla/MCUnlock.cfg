\* A document with a password, whose window has asked for it twice
CONSTANTS
  LoadVersions = 1
  LoadCalls = 3
SPECIFICATION LoadSpec
INVARIANT UnlockFindsItsJob
CHECK_DEADLOCK FALSE
