-------------------------- MODULE EvViewPresentation --------------------------
(***************************************************************************)
(* The presentation of a document: libview/ev-view-presentation.c with the *)
(* animation of page transitions (ev-transition-animation.c, a timeline of *)
(* ev-timeline.c) and the window that starts and stops it (ev-window.c).   *)
(*                                                                         *)
(* Three rendering jobs are kept, of the page shown and its neighbours,    *)
(* and promoted when the page changes.  A surface is named by its page.    *)
(***************************************************************************)
EXTENDS Integers, FiniteSets

CONSTANTS
  SlidePages,    \* bound: pages of the document
  SlideEffects,  \* pages with a transition effect
  SlideTimed,    \* pages with a duration: the next page follows by itself
  SlideCalls     \* bound: calls of the user

ASSUME SlideAssumption ==
  /\ SlidePages \in Nat \ {0} /\ SlideCalls \in Nat
  /\ SlideEffects \subseteq 0 .. (SlidePages - 1)
  /\ SlideTimed \subseteq 0 .. (SlidePages - 1)

VARIABLES
  pview,    \* EvViewPresentation, and whether the window has one ("absent")
  slides,   \* prev_job, curr_job and next_job, with their surfaces
  deck      \* EvDocumentModel and what else the window keeps; calls made

slideVars == <<pview, slides, deck>>

SlidePage == 0 .. (SlidePages - 1)
SlideUrgent == 0
SlideHigh == 1
SlideLow == 2
NoSlidePage == -1
NoSlide == [page |-> NoSlidePage, rotation |-> 0, prio |-> SlideLow, at |-> "none",
            inverted |-> FALSE]
NoSlides == [s \in {"prev", "curr", "next"} |-> NoSlide]
NoAnimation == [on |-> FALSE, origin |-> NoSlidePage, dest |-> NoSlidePage]
NoPresentation == [up |-> "absent", page |-> 0, state |-> "normal", rotation |-> 0,
                   inverted |-> FALSE, animation |-> NoAnimation, current |-> NoSlidePage,
                   timer |-> FALSE, hide |-> FALSE, goto |-> "hidden"]

Slideshow == [v |-> pview, s |-> slides, m |-> deck]
SlideshowIs(w) == pview' = w.v /\ slides' = w.s /\ deck' = w.m
SlideRendered(job) == job.at \in {"rendered", "finished"}

-----------------------------------------------------------------------------
(* Timers and animations.                                                  *)

\* ev_view_presentation_transition_start: the timer of the page shown replaces
\* the one of an earlier page.
TransitionStart(w) == [w EXCEPT !.v.timer = w.v.page \in SlideTimed]

\* ev_view_presentation_animation_start, with the surfaces that there are.  What
\* has no origin is never started (ev_transition_animation_set_dest_surface).
AnimationStart(w, new) ==
  LET neighbour == CASE new = w.v.page - 1 -> w.s["prev"]
                     [] new = w.v.page + 1 -> w.s["next"]
                     [] OTHER -> NoSlide
  IN IF new = w.v.page \/ new \notin SlideEffects THEN w
     ELSE [w EXCEPT !.v.animation =
            [on |-> TRUE,
             origin |-> IF SlideRendered(w.s["curr"]) THEN w.s["curr"].page ELSE w.v.current,
             dest |-> IF SlideRendered(neighbour) THEN new ELSE NoSlidePage]]

\* ev_view_presentation_animation_cancel, then the above
AnimationChange(w, new) == AnimationStart([w EXCEPT !.v.animation = NoAnimation], new)

-----------------------------------------------------------------------------
(* Jobs and pages.                                                         *)

\* ev_view_presentation_schedule_new_job: NULL outside the document
ScheduleSlide(w, page, prio) ==
  IF page \notin SlidePage THEN NoSlide
  ELSE [page |-> page, rotation |-> w.v.rotation, prio |-> prio, at |-> "waiting",
        inverted |-> FALSE]

\* ev_job_scheduler_update_job
Reprioritised(job, prio) == IF job.at = "waiting" THEN [job EXCEPT !.prio = prio] ELSE job

\* The job, or a new one where there is none
SlideOr(w, job, page, prio) ==
  IF job = NoSlide THEN ScheduleSlide(w, page, prio) ELSE Reprioritised(job, prio)

\* Two pages on, the job of the next page is that of the one before.
NeighbourOfJump(w) == w.s["next"]

\* The jobs after the page has changed to page, by the distance (the switch of
\* ev_view_presentation_update_current_page)
SlidesFor(w, page) ==
  LET jump == page - w.v.page
      New(d, prio) == ScheduleSlide(w, page + d, prio)
      Three(prev, curr, next) ==
        [x \in DOMAIN NoSlides |-> CASE x = "prev" -> prev [] x = "curr" -> curr
                                     [] OTHER -> next]
  IN CASE jump = 0 ->
            [x \in DOMAIN NoSlides |->
              IF w.s[x] # NoSlide THEN w.s[x]
              ELSE CASE x = "curr" -> New(0, SlideUrgent)
                     [] x = "next" -> New(1, SlideHigh)
                     [] OTHER -> New(-1, SlideLow)]
       [] jump = -1 -> Three(New(-1, SlideHigh), SlideOr(w, w.s["prev"], page, SlideUrgent),
                             Reprioritised(w.s["curr"], SlideLow))
       [] jump = 1 -> Three(Reprioritised(w.s["curr"], SlideLow),
                            SlideOr(w, w.s["next"], page, SlideUrgent), New(1, SlideHigh))
       [] jump = -2 -> Three(New(-1, SlideHigh), New(0, SlideUrgent),
                             SlideOr(w, w.s["prev"], page + 1, SlideLow))
       [] jump = 2 -> Three(SlideOr(w, NeighbourOfJump(w), page - 1, SlideLow), New(0, SlideUrgent),
                            New(1, SlideHigh))
       [] jump > 2 -> Three(New(-1, SlideLow), New(0, SlideUrgent), New(1, SlideHigh))
       [] OTHER -> Three(New(-1, SlideHigh), New(0, SlideUrgent), New(1, SlideLow))

\* Mutant: the page is not tested.
UpdateAnyPage(w, page) ==
  LET a == AnimationChange(w, page)
  IN [a EXCEPT !.s = SlidesFor(a, page), !.v.page = page]

\* ev_view_presentation_update_current_page
UpdateCurrentPage(w, page) ==
  IF page \notin SlidePage THEN w
  ELSE LET a == AnimationChange(w, page)
       IN [a EXCEPT !.s = SlidesFor(a, page), !.v.page = page]

\* ev_view_presentation_next_page
NextSlide(w) ==
  CASE w.v.state \in {"black", "white"} -> [w EXCEPT !.v.state = "normal"]
    [] w.v.state = "end" -> w
    [] w.v.state = "normal" /\ w.v.page + 1 = SlidePages -> [w EXCEPT !.v.state = "end"]
    [] OTHER -> UpdateCurrentPage(w, w.v.page + 1)

\* ev_view_presentation_previous_page
PreviousSlide(w) ==
  CASE w.v.state \in {"black", "white"} -> [w EXCEPT !.v.state = "normal"]
    [] w.v.state = "end" -> UpdateCurrentPage([w EXCEPT !.v.state = "normal"], w.v.page)
    [] OTHER -> UpdateCurrentPage(w, w.v.page - 1)

-----------------------------------------------------------------------------
(* The user, over a presentation that init_presentation has set up.        *)

MayPresent == pview.up = "ready" /\ pview.goto = "hidden" /\ deck.calls < SlideCalls
SlideCall == [Slideshow EXCEPT !.m.calls = @ + 1]

\* ev_view_presentation_key_press_event
KeyBlank(screen) ==
  /\ MayPresent /\ pview.state # "end"
  /\ SlideshowIs([SlideCall EXCEPT !.v.state = IF @ = screen THEN "normal" ELSE screen])

KeyHomeOrEnd(page) ==
  /\ MayPresent /\ pview.state = "normal" /\ page \in {0, SlidePages - 1}
  /\ SlideshowIs(UpdateCurrentPage(SlideCall, page))

\* A digit opens the window to go to a page, in which Return goes there and
\* Escape, a click or the loss of the focus closes it.
KeyDigit ==
  /\ MayPresent /\ pview.state # "end" /\ SlidePages > 1
  /\ SlideshowIs([SlideCall EXCEPT !.v.state = "normal", !.v.goto = "shown"])

\* ev_view_presentation_goto_entry_activate: any number can be typed.
GotoEntryActivate(page) ==
  /\ pview.up = "ready" /\ pview.goto = "shown"
  /\ SlideshowIs(UpdateCurrentPage([Slideshow EXCEPT !.v.goto = "hidden"], page))

GotoWindowHide ==
  /\ pview.up = "ready" /\ pview.goto = "shown"
  /\ SlideshowIs([Slideshow EXCEPT !.v.goto = "hidden"])

\* ev_view_presentation_change_page, by keys (which leave a blank screen first,
\* ev_view_presentation_key_press_event) or by the wheel
Turned(w, forward) == IF forward THEN NextSlide(w) ELSE PreviousSlide(w)
KeyChangePage(forward) ==
  /\ MayPresent
  /\ SlideshowIs(Turned([SlideCall EXCEPT !.v.state = IF @ = "end" THEN @ ELSE "normal"],
                        forward))
SlideScroll(forward) == MayPresent /\ SlideshowIs(Turned(SlideCall, forward))

\* ev_view_presentation_button_release_event on a link: the pages that
\* ev_vew_presentation_handle_link goes to, whatever the state of the screen
SlideLink(page) ==
  /\ MayPresent /\ pview.state # "end"
  /\ SlideshowIs(UpdateCurrentPage(SlideCall, page))

SlideMotion ==
  /\ MayPresent
  /\ SlideshowIs([SlideCall EXCEPT !.v.hide = TRUE])

\* ev_view_presentation_set_rotation: every job is started again.
RotateSlides ==
  /\ MayPresent
  /\ LET w == [SlideCall EXCEPT !.v.rotation = 90 - @, !.s = NoSlides]
     IN SlideshowIs(UpdateCurrentPage(w, w.v.page))

-----------------------------------------------------------------------------
(* The window.                                                             *)

\* Before a presentation: the page and the colours of the document model
SlideBrowse(page, inverted) ==
  /\ pview.up = "absent" /\ deck.calls = 0
  /\ SlideshowIs([Slideshow EXCEPT !.m.page = page, !.m.inverted = inverted,
                                 !.m.calls = IF inverted THEN 1 ELSE 0])

Presenting(w) ==
  [w EXCEPT !.v = [NoPresentation EXCEPT !.up = "realized", !.page = w.m.page,
                                         !.rotation = w.m.rotation,
                                         !.inverted = w.m.inverted],
            !.s = NoSlides, !.m.inhibited = TRUE]

\* ev_window_run_presentation; the widget is realized and its idle source set
RunPresentation == pview.up = "absent" /\ SlideshowIs(Presenting(Slideshow))

\* ev_view_presentation_dispose
DisposePresentation(w) ==
  [w EXCEPT !.v = [NoPresentation EXCEPT !.page = w.v.page, !.rotation = w.v.rotation],
            !.s = NoSlides]

\* ev_window_stop_presentation, by Escape or a click on the end page ("finished")
StopPresentation ==
  /\ pview.up = "ready"
  /\ SlideshowIs([DisposePresentation(Slideshow) EXCEPT
              !.m.page = pview.page, !.m.rotation = pview.rotation,
              !.m.inhibited = FALSE])

\* The document has been reloaded (ev_window_document_changed_cb): the view is
\* destroyed and a new one is made.  Its rotation is not taken to the model.
ReloadPresentation ==
  /\ MayPresent
  /\ SlideshowIs(Presenting([DisposePresentation(SlideCall) EXCEPT !.m.page = pview.page]))

\* ev_window_view_presentation_focus_in and focus_out, with
\* ev_view_presentation_focus_out
SlideFocus(in) ==
  /\ MayPresent
  /\ SlideshowIs([SlideCall EXCEPT !.m.inhibited = in])

-----------------------------------------------------------------------------
(* The main loop and the worker.                                           *)

\* init_presentation, an idle source
InitPresentation ==
  /\ pview.up = "realized"
  /\ SlideshowIs(UpdateCurrentPage([Slideshow EXCEPT !.v.up = "ready", !.v.hide = TRUE],
                                   pview.page))

\* The worker takes a job of the best priority; its surface is there from then on.
RenderSlide(x) ==
  /\ slides[x].at = "waiting"
  /\ \A y \in DOMAIN slides : slides[y].at = "waiting" => slides[x].prio <= slides[y].prio
  /\ SlideshowIs([Slideshow EXCEPT !.s[x].at = "rendered"])

\* job_finished_cb
SlideDone(w, x) ==
  LET done == [w EXCEPT !.s[x].at = "finished", !.s[x].inverted = w.v.inverted]
  IN CASE x # "curr" -> done
       [] x = "curr" /\ w.v.animation.on -> [done EXCEPT !.v.animation.dest = w.s[x].page]
       [] OTHER -> TransitionStart(done)

SlideFinished(x) == slides[x].at = "rendered" /\ SlideshowIs(SlideDone(Slideshow, x))

\* ev_timeline_run_frame at the end of the duration: "finished"
AnimationFinish ==
  /\ pview.animation.origin # NoSlidePage /\ pview.animation.dest # NoSlidePage
  /\ SlideshowIs(TransitionStart([Slideshow EXCEPT !.v.animation = NoAnimation]))

\* transition_next_page and hide_cursor_timeout_cb
TimerNextPage == pview.timer /\ SlideshowIs(NextSlide([Slideshow EXCEPT !.v.timer = FALSE]))
HideCursor == pview.hide /\ SlideshowIs([Slideshow EXCEPT !.v.hide = FALSE])

\* ev_view_presentation_draw keeps the last surface it has drawn.
DrawSlide ==
  /\ pview.up = "ready" /\ pview.state = "normal" /\ ~pview.animation.on
  /\ SlideRendered(slides["curr"])
  /\ SlideshowIs([Slideshow EXCEPT !.v.current = slides["curr"].page])

-----------------------------------------------------------------------------
SlideInit ==
  /\ pview = NoPresentation
  /\ slides = NoSlides
  /\ deck = [page |-> 0, rotation |-> 0, inverted |-> FALSE, inhibited |-> FALSE, calls |-> 0]

SlideNext ==
  \/ \E p \in SlidePage, i \in BOOLEAN : SlideBrowse(p, i)
  \/ RunPresentation \/ StopPresentation \/ ReloadPresentation \/ InitPresentation
  \/ \E in \in BOOLEAN : SlideFocus(in)
  \/ \E b \in {"black", "white"} : KeyBlank(b)
  \/ \E p \in SlidePage : KeyHomeOrEnd(p) \/ SlideLink(p)
  \/ KeyDigit \/ GotoWindowHide
  \/ \E p \in -1 .. SlidePages : GotoEntryActivate(p)
  \/ \E forward \in BOOLEAN : KeyChangePage(forward) \/ SlideScroll(forward)
  \/ SlideMotion \/ RotateSlides
  \/ \E x \in DOMAIN slides : RenderSlide(x) \/ SlideFinished(x)
  \/ AnimationFinish \/ TimerNextPage \/ HideCursor \/ DrawSlide

\* The worker, the main loop and the timeline do not stop.
SlideWork == AnimationFinish
             \/ \E x \in DOMAIN slides : RenderSlide(x) \/ SlideFinished(x)
SlideFairness == WF_slideVars(SlideWork)
SlideSpec == SlideInit /\ [][SlideNext]_slideVars /\ SlideFairness

-----------------------------------------------------------------------------
SlideTypeOK ==
  /\ pview.up \in {"absent", "realized", "ready"} /\ pview.page \in SlidePage
  /\ pview.state \in {"normal", "black", "white", "end"}
  /\ pview.animation.origin \in SlidePage \cup {NoSlidePage}
  /\ pview.animation.dest \in SlidePage \cup {NoSlidePage}
  /\ \A x \in DOMAIN slides :
       /\ slides[x].page \in SlidePage \cup {NoSlidePage}
       /\ slides[x].at \in {"none", "waiting", "rendered", "finished"}
  /\ deck.page \in SlidePage /\ deck.inhibited \in BOOLEAN

\* Whatever the jumps, the jobs are those of the page shown and of its
\* neighbours, in the rotation of the view, and the page shown comes first; when
\* the presentation is over, nothing that could call it is left.
SlidesAroundPage ==
  /\ pview.up = "ready" =>
       /\ slides["curr"].page = pview.page
       /\ slides["prev"].page = IF pview.page = 0 THEN NoSlidePage ELSE pview.page - 1
       /\ slides["next"].page = IF pview.page + 1 = SlidePages THEN NoSlidePage ELSE pview.page + 1
       /\ \A x \in DOMAIN slides : slides[x] # NoSlide =>
            /\ slides[x].rotation = pview.rotation
            /\ slides[x].at = "waiting" => (slides[x].prio = SlideUrgent <=> x = "curr")
  /\ pview.up = "absent" =>
       /\ slides = NoSlides /\ ~pview.timer /\ ~pview.hide /\ ~pview.animation.on
       /\ ~deck.inhibited

\* The page that is shown has the colours that the user chose, also when it was
\* rendered before it was shown.
SlideColours ==
  \A x \in DOMAIN slides :
    slides[x].at = "finished" => slides[x].inverted = pview.inverted

\* An animation that has a page to start from comes to its end, whether the page
\* it leads to was ready before or is rendered later.  (One that is started
\* before any page was there never starts, and hides the page until the next
\* change.)
AnimationStarted == pview.animation.on /\ pview.animation.origin # NoSlidePage
PresentationSettles == AnimationStarted ~> ~AnimationStarted
===============================================================================
