----------------------------- MODULE EvWindowModes -----------------------------
(***************************************************************************)
(* The modes of a window (shell/ev-window.c): in its frame, fullscreen, or *)
(* running a presentation; the bars around the page that come and go with  *)
(* them; and the metadata of the document, from which the next window of   *)
(* the document takes its mode, page, rotation and sidebar.                *)
(*                                                                         *)
(* Whether the window fills the screen is decided by the window manager: a *)
(* request goes out, an event comes back later, and the user may have done *)
(* something else in the meantime.  A toolbar that appears over a          *)
(* fullscreen page is hidden by a timer.                                   *)
(*                                                                         *)
(* The window is one record; the functions of the code are operators on    *)
(* it, because they call each other, and an action composes them.  The     *)
(* toolbar's flag is always set: nothing writes the key "show_toolbar".    *)
(***************************************************************************)
EXTENDS Integers, Sequences, Functions

CONSTANTS
  ModePages,   \* possible numbers of pages of a document
  ModeCalls    \* bound: calls of the user

ASSUME ModesAssumption == ModePages \subseteq Nat \ {0} /\ ModeCalls \in Nat

VARIABLES modes, modeCalls
modeVars == <<modes, modeCalls>>

NoSlides == [page |-> -1, rotation |-> 0]   \* presentation_view = NULL
Loading == 0                                \* no document yet, but a load job

Presenting(w) == w.slides # NoSlides
Mode(w) == IF Presenting(w) THEN "slides" ELSE IF w.fullscreen THEN "full" ELSE "frame"

(***************************************************************************)
(* The bars                                                                *)
(***************************************************************************)
\* A value for the next window; only a window with a document or a load has one.
Remember(w, key, value) == [w EXCEPT !.meta = [@ EXCEPT ![key] = value]]

\* The sidebar's "notify::visible": not while presenting; the toggle follows, and
\* its own handler sets the flag.
SidebarVisibilityChanged(w) ==
  LET visible == "sidebar" \in w.shown
  IN  IF Presenting(w) THEN w
      ELSE Remember([w EXCEPT
             !.toggle = visible,
             !.chrome = IF visible THEN @ \cup {"sidebar"} ELSE @ \ {"sidebar"}],
             "sidebar", visible)

Bars(w) ==
  (IF Presenting(w) THEN {} ELSE {"toolbar"})
  \cup (w.chrome \cap {"findbar"})
  \cup (IF w.pages = Loading \/ Presenting(w) THEN {} ELSE w.chrome \cap {"sidebar"})

UpdateChrome(w) ==
  LET v == [w EXCEPT !.shown = Bars(w)]
  IN  IF ("sidebar" \in w.shown) = ("sidebar" \in v.shown) THEN v
      ELSE SidebarVisibilityChanged(v)

(***************************************************************************)
(* The document model                                                      *)
(***************************************************************************)
ModelToPage(w, page) ==
  IF page = w.page \/ page < 0 \/ (w.pages # Loading /\ page >= w.pages) THEN w
  ELSE Remember([w EXCEPT !.page = page], "page", page)

Turned(rotation) == rotation % 360

SetRotation(w, rotation) ==
  IF Turned(rotation) = w.rotation THEN w
  ELSE Remember([w EXCEPT !.rotation = Turned(rotation)], "rotation", Turned(rotation))

SetContinuous(w, continuous) ==
  IF continuous = w.continuous THEN w
  ELSE Remember([w EXCEPT !.continuous = continuous], "continuous", continuous)

(***************************************************************************)
(* Modes                                                                   *)
(***************************************************************************)
StopFullscreen(w, unfullscreen) ==
  IF ~w.fullscreen THEN w
  ELSE Remember([w EXCEPT !.fullscreen = FALSE, !.timer = FALSE,
                          !.shown = @ \cup {"toolbar"},
                          !.requests = IF unfullscreen THEN Append(@, FALSE) ELSE @],
                "fullscreen", FALSE)

\* Mutant: the bars are updated while the slides are still there.
StopPresentationLate(w, unfullscreen) ==
  IF ~Presenting(w) THEN w
  ELSE LET seen == SetRotation(ModelToPage(w, w.slides.page), w.slides.rotation)
           left == [UpdateChrome(seen) EXCEPT !.slides = NoSlides]
       IN  Remember([left EXCEPT !.inhibited = FALSE,
                       !.requests = IF unfullscreen THEN Append(@, FALSE) ELSE @],
                    "presentation", FALSE)

StopPresentation(w, unfullscreen) ==
  IF ~Presenting(w) THEN w
  ELSE LET seen == SetRotation(ModelToPage(w, w.slides.page), w.slides.rotation)
           left == UpdateChrome([seen EXCEPT !.slides = NoSlides])
       IN  Remember([left EXCEPT !.inhibited = FALSE,
                       !.requests = IF unfullscreen THEN Append(@, FALSE) ELSE @],
                    "presentation", FALSE)

ShowToolbar(w) == [w EXCEPT !.shown = @ \cup {"toolbar"}, !.timer = TRUE]

\* What the user has been shown fills the screen already when one mode follows the
\* other.
RunFullscreen(w) ==
  IF w.fullscreen THEN w
  ELSE LET v == StopPresentation(w, FALSE)
           full == ShowToolbar([v EXCEPT !.fullscreen = TRUE])
       IN  Remember([full EXCEPT
                       !.requests = IF Presenting(w) THEN @ ELSE Append(@, TRUE)],
                    "fullscreen", TRUE)

RunPresentation(w) ==
  IF Presenting(w) THEN w
  ELSE LET v == StopFullscreen(w, FALSE)
           begun == UpdateChrome([v EXCEPT
                      !.slides = [page |-> v.page, rotation |-> v.rotation]])
       IN  Remember([begun EXCEPT !.inhibited = TRUE,
                       !.requests = IF w.fullscreen THEN @ ELSE Append(@, TRUE)],
                    "presentation", TRUE)

\* The window manager's event, which may answer a request of long ago.
StateEvent(w, full) ==
  IF full
  THEN IF w.fullscreen \/ Presenting(w) THEN w ELSE RunFullscreen(w)
  ELSE IF w.fullscreen THEN StopFullscreen(w, FALSE) ELSE StopPresentation(w, FALSE)

(***************************************************************************)
(* Documents                                                               *)
(***************************************************************************)
RunMode(w, mode) ==
  IF mode = "slides" THEN RunPresentation(w)
  ELSE IF mode = "full" THEN RunFullscreen(w) ELSE w

\* ev_window_set_document: a presentation begins again with the new document.
ShowDocumentIn(w, pages) ==
  LET clamped == ModelToPage([w EXCEPT !.pages = pages],
                         IF w.page >= pages THEN pages - 1 ELSE w.page)
      ended == ModelToPage([clamped EXCEPT !.slides = NoSlides], w.slides.page)
  IN  [(IF Presenting(w) THEN RunPresentation(ended) ELSE clamped)
         EXCEPT !.setup = TRUE]

\* A document that was left on its last page opens on its first.
SetupDocument(w) == IF w.page = w.pages - 1 THEN ModelToPage(w, 0) ELSE w

SetupChrome(w) ==
  UpdateChrome([w EXCEPT !.chrome =
    IF w.meta.sidebar THEN @ \cup {"sidebar"} ELSE @ \ {"sidebar"}])

\* ev_window_load_job_cb; mode is what the command line or the daemon asked for.
\* The metadata that is restored is what this load began with.
DocumentLoaded(w, pages, mode) ==
  LET shown == SetupDocument(SetupChrome(ShowDocumentIn(w, pages)))
      restored == IF w.meta.presentation THEN RunPresentation(shown) ELSE shown
  IN  RunMode(restored, mode)

\* A window that begins to load: the model is set up before the document is there.
Opening(meta) ==
  LET w == [pages |-> Loading, page |-> meta.page, rotation |-> meta.rotation,
            continuous |-> meta.continuous, fullscreen |-> FALSE, slides |-> NoSlides,
            chrome |-> {"sidebar"}, shown |-> {"toolbar"}, paned |-> "sidebar",
            toggle |-> TRUE, frozen |-> 0, inhibited |-> FALSE,
            timer |-> FALSE, stray |-> FALSE, setup |-> FALSE, meta |-> meta,
            full |-> FALSE, requests |-> << >>, events |-> << >>,
            asked |-> "frame", hasty |-> FALSE, closed |-> FALSE]
  IN  IF meta.fullscreen THEN [RunFullscreen(w) EXCEPT !.asked = "full"] ELSE w

ModesInit ==
  /\ \E fullscreen, presentation, sidebar \in BOOLEAN, page \in 0..1 :
       /\ ~(fullscreen /\ presentation)
       /\ modes = Opening([fullscreen |-> fullscreen, presentation |-> presentation,
                           sidebar |-> sidebar, page |-> page, rotation |-> 0,
                           continuous |-> TRUE])
  /\ modeCalls = 0

(***************************************************************************)
(* Actions of the user.  hasty: something was asked of the window manager  *)
(* while the window was on its way into its frame, or the frame while it   *)
(* was on its way to the whole screen.                                     *)
(***************************************************************************)
Answered(w) == w.requests = << >> /\ w.events = << >>

Turnaround(w, mode) ==
  /\ ~Answered(modes)
  /\ mode # modes.asked \/ w.requests # modes.requests
  /\ mode = "frame" \/ FALSE \in Range(modes.requests) \cup Range(modes.events)

Asks(w, mode) == [w EXCEPT !.asked = mode, !.hasty = @ \/ Turnaround(w, mode)]

UserDoes(w, mode) ==
  /\ ~modes.closed /\ modeCalls < ModeCalls /\ modeCalls' = modeCalls + 1
  /\ modes' = Asks(w, mode)

\* Calls after which the mode is the one before.
Keeps(w) == UserDoes(w, modes.asked)

Loaded == modes.pages # Loading

\* The toggle shows the mode of the model, so that an activation is a change of it.
CmdViewFullscreen ==
  IF modes.fullscreen THEN UserDoes(StopFullscreen(modes, TRUE), "frame")
  ELSE UserDoes(RunFullscreen(modes), "full")

CmdStartPresentation == Loaded /\ UserDoes(RunPresentation(modes), "slides")

\* The end of the slides, or its key.
PresentationFinished ==
  Presenting(modes) /\ UserDoes(StopPresentation(modes, TRUE), "frame")

CmdContinuous ==
  /\ Loaded
  /\ LET left == StopPresentation(modes, TRUE)
     IN  UserDoes(SetContinuous(left, ~left.continuous),
                  IF Presenting(modes) THEN "frame" ELSE modes.asked)

CmdRotate ==
  /\ Loaded
  /\ IF Presenting(modes)
     THEN Keeps([modes EXCEPT !.slides.rotation = Turned(@ + 90)])
     ELSE Keeps(SetRotation(modes, modes.rotation + 90))

TurnPageTo ==
  /\ Loaded
  /\ \E page \in 0..(modes.pages - 1) :
       \/ Presenting(modes) /\ Keeps([modes EXCEPT !.slides.page = page])
       \/ page # modes.page /\ Keeps(ModelToPage(modes, page))

\* While presenting, the toggle flips and nothing else happens.
ViewSidebar ==
  Keeps(IF Presenting(modes) THEN [modes EXCEPT !.toggle = ~@]
        ELSE UpdateChrome([modes EXCEPT
               !.toggle = ~@,
               !.chrome = IF modes.toggle THEN @ \ {"sidebar"} ELSE @ \cup {"sidebar"}]))

SidebarClosed ==
  /\ "sidebar" \in modes.shown /\ modes.paned = "sidebar"
  /\ Keeps(UpdateChrome(SidebarVisibilityChanged([modes EXCEPT !.shown = @ \ {"sidebar"}])))

OpenFindBar ==
  /\ Loaded /\ "findbar" \notin modes.shown /\ ~Presenting(modes)
  /\ Keeps(UpdateChrome([modes EXCEPT !.frozen = @ + 1, !.paned = "find",
                                      !.chrome = @ \cup {"findbar"}]))

FindBarGone(w) ==
  [UpdateChrome([w EXCEPT !.paned = "sidebar", !.chrome = @ \ {"findbar"}])
     EXCEPT !.frozen = @ - 1]

FindBarClosed == "findbar" \in modes.shown /\ Keeps(FindBarGone(modes))

CmdEscape ==
  \/ "findbar" \in modes.shown /\ Keeps(FindBarGone(modes))
  \/ /\ "findbar" \notin modes.shown /\ modes.fullscreen
     /\ UserDoes(StopFullscreen(modes, TRUE), "frame")
  \/ /\ "findbar" \notin modes.shown /\ Presenting(modes)
     /\ UserDoes(StopPresentation(modes, TRUE), "frame")

\* The page selector takes the focus, and the view takes it back.
FocusPageSelector == Keeps(UpdateChrome([modes EXCEPT !.chrome = @ \cup {"raise"}]))
ViewFocused ==
  "raise" \in modes.chrome /\ Keeps(UpdateChrome([modes EXCEPT !.chrome = @ \ {"raise"}]))

\* Another window of the desktop gets the focus, or loses it.
PresentationFocus ==
  \/ Presenting(modes) /\ ~modes.inhibited /\ Keeps([modes EXCEPT !.inhibited = TRUE])
  \/ Presenting(modes) /\ modes.inhibited /\ Keeps([modes EXCEPT !.inhibited = FALSE])

\* Quick motions of the pointer over a fullscreen page, or the pointer on the toolbar.
PointerMoved == modes.fullscreen /\ Keeps(ShowToolbar(modes))
PointerOnToolbar ==
  modes.fullscreen /\ modes.timer /\ Keeps([modes EXCEPT !.timer = FALSE])

Close ==
  /\ Loaded
  /\ Keeps([(IF Presenting(modes) THEN ModelToPage(modes, modes.slides.page) ELSE modes)
              EXCEPT !.closed = TRUE])

\* A key of the window manager.
UserTogglesScreen ==
  /\ Answered(modes)
  /\ UserDoes([modes EXCEPT !.full = ~@, !.events = Append(@, ~modes.full)],
              IF ~modes.full THEN "full" ELSE "frame")

ModesUser ==
  \/ CmdViewFullscreen \/ CmdStartPresentation \/ PresentationFinished \/ CmdContinuous
  \/ CmdRotate \/ TurnPageTo \/ ViewSidebar \/ SidebarClosed \/ OpenFindBar \/ FindBarClosed
  \/ CmdEscape \/ FocusPageSelector \/ ViewFocused \/ PresentationFocus \/ PointerMoved
  \/ PointerOnToolbar \/ Close \/ UserTogglesScreen

(***************************************************************************)
(* What happens by itself                                                  *)
(***************************************************************************)
\* A mode that the document, the command line or the metadata asks for is one that
\* the program asks for.
Program(w) ==
  /\ ~modes.closed /\ UNCHANGED modeCalls
  /\ modes' = Asks(w, IF Mode(w) # Mode(modes) THEN Mode(w) ELSE modes.asked)

FinishLoad ==
  /\ ~Loaded
  /\ \E pages \in ModePages, mode \in {"frame", "full", "slides"} :
       Program(DocumentLoaded(modes, pages, mode))

Reload ==
  /\ Loaded /\ ~modes.setup
  /\ modeCalls < ModeCalls /\ modeCalls' = modeCalls + 1 /\ ~modes.closed
  /\ \E pages \in ModePages : modes' = Asks(ShowDocumentIn(modes, pages), modes.asked)

\* The idle of ev_window_set_document: the document itself asks for a mode.
SetupIdle ==
  /\ modes.setup
  /\ \E mode \in {"frame", "full", "slides"} :
       Program(RunMode([modes EXCEPT !.setup = FALSE], mode))

\* The timer of the toolbar.  With a menu open the toolbar stays and so does the timer,
\* but its number is forgotten.
ToolbarTimeout ==
  /\ modes.timer \/ modes.stray
  /\ \/ Program([modes EXCEPT !.timer = FALSE, !.stray = FALSE, !.shown = @ \ {"toolbar"}])
     \/ modes.timer /\ "toolbar" \in modes.shown
        /\ Program([modes EXCEPT !.timer = FALSE, !.stray = TRUE])

\* The window manager: a request changes the window's state, and only then is told.
ManagerAnswers ==
  /\ modes.requests # << >>
  /\ LET full == Head(modes.requests)
     IN  modes' = [modes EXCEPT !.requests = Tail(@), !.full = full,
                     !.events = IF full = modes.full THEN @ ELSE Append(@, full)]
  /\ ~modes.closed /\ UNCHANGED modeCalls

EventArrives ==
  /\ modes.events # << >> /\ ~modes.closed
  /\ modes' = StateEvent([modes EXCEPT !.events = Tail(@)], Head(modes.events))
  /\ UNCHANGED modeCalls

ModesNext ==
  \/ ModesUser \/ FinishLoad \/ Reload \/ SetupIdle \/ ToolbarTimeout \/ ManagerAnswers
  \/ EventArrives

ModesSpec == ModesInit /\ [][ModesNext]_modeVars

(***************************************************************************)
(* Properties                                                              *)
(***************************************************************************)
ModesTypeOK ==
  /\ modeCalls \in 0..ModeCalls
  /\ modes.pages \in {Loading} \cup ModePages /\ modes.page \in Nat
  /\ modes.rotation \in {0, 90, 180, 270}
  /\ modes.slides \in [page : {-1} \cup Nat, rotation : {0, 90, 180, 270}]
  /\ {modes.fullscreen, modes.toggle, modes.inhibited, modes.timer, modes.stray,
      modes.setup, modes.full, modes.continuous, modes.hasty, modes.closed} \subseteq BOOLEAN
  /\ modes.chrome \subseteq {"sidebar", "findbar", "raise"}
  /\ modes.shown \subseteq {"toolbar", "sidebar", "findbar"}
  /\ modes.paned \in {"sidebar", "find"} /\ modes.frozen \in Nat
  /\ {modes.requests, modes.events} \subseteq Seq(BOOLEAN)
  /\ modes.asked \in {"frame", "full", "slides"}

\* A window is fullscreen or presents, never both; once the window manager has
\* answered, the window fills the screen exactly in these two modes, and if nobody was
\* hasty it is in the mode that was asked for last.
ModeIsOnTheScreen ==
  /\ ~(modes.fullscreen /\ Presenting(modes))
  /\ Answered(modes) => /\ modes.full = (Mode(modes) # "frame")
                        /\ ~modes.hasty => Mode(modes) = modes.asked

\* The bars agree with each other and with the mode: the sidebar is shown when its flag
\* says so and never beside the slides, the history is frozen once while the find bar
\* is there, which has its results in the place of the sidebar, and the screen saver is
\* held off only by slides.
BarsFitTheMode ==
  /\ ("sidebar" \in modes.shown) =
       ("sidebar" \in modes.chrome /\ Loaded /\ ~Presenting(modes))
  /\ Presenting(modes) => "toolbar" \notin modes.shown
  /\ modes.frozen = (IF "findbar" \in modes.shown THEN 1 ELSE 0)
  /\ (modes.paned = "find") = ("findbar" \in modes.shown)
  /\ modes.inhibited => Presenting(modes)

\* The metadata of a document that is shown gives the next window what this one has;
\* after a close in the middle of slides, the page of the last slide.
NextWindowIsLikeThis ==
  Loaded =>
    /\ modes.meta.fullscreen = modes.fullscreen
    /\ modes.meta.presentation = Presenting(modes)
    /\ modes.meta.sidebar = ("sidebar" \in modes.chrome)
    /\ modes.meta.page = modes.page /\ modes.meta.rotation = modes.rotation
    /\ modes.meta.continuous = modes.continuous
    /\ modes.closed /\ Presenting(modes) => modes.meta.page = modes.slides.page

\* The window is in the mode and has the bars that were asked for, and so will the
\* next window of its document.
WindowIsAsAsked == ModeIsOnTheScreen /\ BarsFitTheMode /\ NextWindowIsLikeThis
================================================================================
