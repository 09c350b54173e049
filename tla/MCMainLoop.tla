------------------------------ MODULE MCMainLoop ------------------------------
(***************************************************************************)
(* What the main loop goes through while a document is open, for TLC: its  *)
(* handlers and its own jobs, which take the document mutexes              *)
(* (DocumentLocks), a search and the list that is filled beside it         *)
(* (FindSearch), and the pointer with its timers and idle sources          *)
(* (EvPointer).  They have no state in common: an instance lets one part   *)
(* run, chosen at the start.                                               *)
(***************************************************************************)
EXTENDS DocumentLocks, FindSearch, EvPointer

VARIABLE part   \* the part that runs

mainLoopVars == <<part, lockVars, findVars, pointerVars>>

\* Nothing, everywhere, and before, on and after the page a search starts from.
SearchResults ==
  {[p \in 0 .. 2 |-> n[p + 1]] :
     n \in {<<0, 0, 0>>, <<2, 2, 2>>, <<1, 0, 2>>, <<0, 2, 1>>, <<2, 1, 0>>, <<0, 0, 2>>}}

\* Three pages of text, links, a picture, a form field and a note.
PointerStrip == << <<"text", "link">>, <<"image", "text", "text">>, <<"entry", "annot">> >>
\* Above the view, in it and below it.
AroundView == {-2, 0, 1, 3, 6}

MainLoopInit ==
  /\ part \in {"locks", "find", "pointer"}
  /\ LockInit /\ (part # "locks" => ~dialog)
  /\ FindInit /\ (part # "find" => vpage = 0)
  /\ PointerInit /\ (part # "pointer" => scroll = 0)

\* The calls of the user are used up, but not those that take the mutexes.
NoMoreEvents == part # "locks" /\ UNCHANGED <<lockVars, findVars, pointerVars>>

MainLoopNext ==
  /\ UNCHANGED part
  /\ \/ part = "locks" /\ LockNext /\ UNCHANGED <<findVars, pointerVars>>
     \/ part = "find" /\ FindStep /\ UNCHANGED <<lockVars, pointerVars>>
     \/ part = "pointer" /\ PointerNext /\ UNCHANGED <<lockVars, findVars>>
     \/ NoMoreEvents

MainLoopSpec ==
  MainLoopInit /\ [][MainLoopNext]_mainLoopVars /\ LockFairness /\ FindFairness /\ PointerFairness

MainLoopTypeOK ==
  CASE part = "locks" -> LockTypeOK
    [] part = "find" -> FindTypeOK
    [] part = "pointer" -> PointerTypeOK

\* Nobody waits for a mutex for ever and the jobs of the main loop end; a search comes
\* to its end and leaves nothing behind; so do timers and idle sources of the pointer.
MainLoopSettles ==
  /\ part = "locks" => EverybodyGetsOn
  /\ part = "find" => SearchSettles
  /\ part = "pointer" => PointerComesToRest
================================================================================
