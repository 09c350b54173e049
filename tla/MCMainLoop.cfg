\* The main loop with an open document, one use of it at a time
CONSTANTS
  MaxJobs = 3
  Steps = 2
  ReloadUnderDialog = FALSE
  NPages = 3
  MaxResults = 2
  Founds <- SearchResults
  PageRate = 4
  MaxSearches = 2
  PointerPages <- PointerStrip
  PointerHeight = 4
  PointerPlaces <- AroundView
  PointerCalls = 5
SPECIFICATION MainLoopSpec
INVARIANTS
  MainLoopTypeOK
  MainLoopNotBlocked
  EntryHasSource
  SearchShowsResults
  SelectionIsTheStroke
  PointerTellsTheMode
PROPERTY MainLoopSettles
