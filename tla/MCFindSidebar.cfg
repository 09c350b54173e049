CONSTANTS
  NPages = 3
  MaxResults = 1
  Founds <- Count
  PageRate = 3
  MaxSearches = 1
SPECIFICATION FindSpec
INVARIANT SidebarListsAllResults
