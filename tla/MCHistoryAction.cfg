CONSTANTS
  NPages = 3
  MaxLength = 3
  MaxDocs = 1
SPECIFICATION Spec
INVARIANT ActionFollowsFreeze
CHECK_DEADLOCK FALSE
