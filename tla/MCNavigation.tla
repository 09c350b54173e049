----------------------------- MODULE MCNavigation -----------------------------
(***************************************************************************)
(* How the user gets about in a document, for TLC: the history of the      *)
(* window, the layout and the scrolling of the view, the caret, the modes  *)
(* of the window; and the notes, whose windows move with the pages.        *)
(*                                                                         *)
(* They meet in the page of the document model, which each of the modules  *)
(* has for itself: another one's change of page is a step of the user in   *)
(* it (TurnTo, GoToPage, ShowPage).  An instance therefore lets one part   *)
(* run, chosen at the start.                                               *)
(***************************************************************************)
EXTENDS EvHistory, EvViewScroll, EvCaret, EvWindowModes, EvAnnotations

VARIABLE navigation   \* the part that runs

navigationVars == <<navigation, vars, viewVars, caretVars, modeVars, noteVars>>

\* Documents of pages of one size and of several.
PageHeights == [even |-> <<8, 8, 8, 8>>, odd |-> <<20, 6, 9>>]

\* Three pages, the second without text.
PageTexts ==
  << <<"letter", "mark", "space", "letter", "letter", "newline", "letter", "newline",
       "letter", "letter", "letter", "space", "letter">>,
     << >>,
     <<"letter", "newline", "letter", "space", "letter">> >>

\* An annotation that is not supported, an open note and a highlight without an author;
\* the other pages have none.
NotesOfFile == <<
  [page |-> 1, kind |-> "stamp", popup |-> FALSE, place |-> 0, contents |-> 0, gone |-> FALSE,
   settings |-> [label |-> 1, color |-> 0, open |-> 0]],
  [page |-> 1, kind |-> "text", popup |-> TRUE, place |-> 2, contents |-> 2, gone |-> FALSE,
   settings |-> [label |-> 3, color |-> 0, open |-> 1]],
  [page |-> 1, kind |-> "highlight", popup |-> TRUE, place |-> 0, contents |-> 0, gone |-> FALSE,
   settings |-> [label |-> 0, color |-> 0, open |-> 0]] >>

\* One of the beginnings is enough for the parts that do not run.
UnmovedView ==
  view.doc = "even" /\ viewModel.continuous /\ ~viewModel.dual /\ viewModel.mode = "free"
FirstMode == modes.meta.sidebar /\ modes.meta.page = 0 /\ Answered(modes)
             /\ ~modes.meta.presentation
UnmovedCaret == Place(caret) = At(0, 0) /\ ~dualPages

NavigationInit ==
  /\ navigation \in {"history", "view", "caret", "modes", "notes"}
  /\ Init
  /\ ViewInit /\ (navigation # "view" => UnmovedView)
  /\ CaretInit /\ (navigation # "caret" => UnmovedCaret)
  /\ ModesInit /\ (navigation # "modes" => FirstMode)
  /\ NotesInit

NavigationNext ==
  /\ UNCHANGED navigation
  /\ \/ navigation = "history" /\ Next
     \/ navigation # "history" /\ UNCHANGED vars
  /\ \/ navigation = "view" /\ ViewNext
     \/ navigation # "view" /\ UNCHANGED viewVars
  /\ \/ navigation = "caret" /\ CaretNext
     \/ navigation # "caret" /\ UNCHANGED caretVars
  /\ \/ navigation = "modes" /\ ModesNext
     \/ navigation # "modes" /\ UNCHANGED modeVars
  /\ \/ navigation = "notes" /\ NotesNext
     \/ navigation # "notes" /\ UNCHANGED noteVars

\* What the user does next is not promised: no fairness.
NavigationSpec == NavigationInit /\ [][NavigationNext]_navigationVars

NavigationTypeOK ==
  CASE navigation = "history" -> TypeOK
    [] navigation = "view" -> ViewTypeOK
    [] navigation = "caret" -> CaretTypeOK
    [] navigation = "modes" -> ModesTypeOK
    [] navigation = "notes" -> NotesTypeOK
===============================================================================
