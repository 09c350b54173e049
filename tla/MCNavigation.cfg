\* The history, the view, the caret, the modes of the window and the notes, one at a time
CONSTANTS
  NPages = 4
  MaxLength = 3
  MaxDocs = 2
  ViewHeights <- PageHeights
  ViewWidth = 10
  ViewSizes = {22, 50}
  ViewAcross = 40
  ViewScales = {1, 16}
  ViewCalls = 3
  CaretTexts <- PageTexts
  CaretCalls = 2
  ModePages = {1, 3}
  ModeCalls = 3
  FileNotes <- NotesOfFile
  NotePages = 3
  NoteCalls = 3
SPECIFICATION NavigationSpec
INVARIANTS
  NavigationTypeOK
  HistoryIsSound
  ButtonsTellTheTruth
  ViewShowsPage
  CaretMovesRight
  WindowIsAsAsked
  NotesAndPopupsAgree
PROPERTIES
  StepsAreTheUsers
  BrowsesLikeTheWeb
CHECK_DEADLOCK FALSE
