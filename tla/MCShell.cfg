\* The shell, one part of it at a time
CONSTANTS
  LoadVersions = 2
  LoadCalls = 3
  Instances = {"p", "q"}
  Uris = {"a"}
  Callers = {"c", "d"}
  DaemonFaults = 1
  OpenCalls = 2
  EditCalls = 4
  EditSaves = 2
  LinkFiles <- TwoFiles
  CommandLines <- Lines
  LinkCalls = 3
  LinkPosts = 1
SPECIFICATION ShellSpec
INVARIANTS
  ShellTypeOK
  WindowKeepsTrack
  DocumentsHaveOneOwner
  LinksLeadWhereTheySay
  EditsAreKept
PROPERTIES
  LosesOnlyTheUncommitted
  ShellProgress
\* The calls of the user are used up.
CHECK_DEADLOCK FALSE
