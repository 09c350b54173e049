\* The clients of the job scheduler, each by itself
CONSTANTS
  CachePages = 3
  CacheMaxSizes = {2, 4}
  CacheJobs = 6
  CacheVersions = 2
  CacheSelections = 1
  CacheRotations = {0, 180}
  CacheCalls = 3
  DataPages = 3
  Kinds = {"links", "annots", "text"}
  DataJobs = 8
  DataCalls = 2
  SlidePages = 4
  SlideEffects = {1}
  SlideTimed = {1}
  SlideCalls = 2
  ThumbPages = 4
  ThumbRows = 2
  ThumbDocs = 2
  ThumbCalls = 4
  SideVersions = 2
  SidePages = 3
  SideTargets = {0, 2}
  SideTitles = {"Page", "Preface"}
  SideCalls = 4
  PrintOps = 2
  PrintPages = 3
SPECIFICATION ClientsSpec
INVARIANTS
  ClientsTypeOK
  SeenIsServedAndCurrent
  NothingIsLost
PROPERTY ClientsProgress
\* The calls of the user are used up.
CHECK_DEADLOCK FALSE
