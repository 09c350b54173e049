------------------------------- MODULE EvPointer -------------------------------
(***************************************************************************)
(* The pointer in the view (libview/ev-view.c): selecting text, dragging   *)
(* the page, autoscrolling, dragging text or an image out, following       *)
(* links, adding a note, and the cursor that says which of these it is,    *)
(* with what the window and the sidebar show of it.                        *)
(*                                                                         *)
(* The document is a strip of rows: a gap, the rows of the first page, a   *)
(* gap and so on.  The view shows PointerHeight of them from scroll on, in *)
(* one continuous column.  Places on the screen are rows counted from the  *)
(* top of the view, so that row y of the view is row y + scroll.           *)
(***************************************************************************)
EXTENDS Integers, Sequences

CONSTANTS
  PointerPages,    \* for each page, what is in its rows
  PointerHeight,   \* rows of the view
  PointerPlaces,   \* where the pointer may be
  PointerCalls     \* bound: events of the user

RowKind == {"text", "link", "image", "annot", "entry", "locked", "blank"}
DragHistory == 3   \* DRAG_HISTORY is 10: ticks until the buffer forgets
Threshold == 1     \* gtk-dnd-drag-threshold, in rows
ScreenTop == -4    \* where root coordinates begin

ASSUME PointerAssumption ==
  /\ PointerPages \in Seq(Seq(RowKind)) /\ PointerPages # << >>
  /\ PointerHeight \in Nat \ {0} /\ PointerPlaces \subseteq Int /\ PointerCalls \in Nat

VARIABLES
  hand,      \* the user's: place, button held, clicks, a drag and drop; history: hasty
  act,       \* what the view is doing: pressed_button, adding_annot, cursor, scroll_info
  drag,      \* drag_info
  sel,       \* selection_info, motion, image_dnd_info and the sources of a selection
  scroll,    \* the vertical adjustment
  outside,   \* sensitivity of EditCopy, the toggle of the sidebar, owner of PRIMARY
  pointerCalls

pointerVars == <<hand, act, drag, sel, scroll, outside, pointerCalls>>

-----------------------------------------------------------------------------
(* The strip.                                                              *)

StripPages == 1 .. Len(PointerPages)
\* Where the pages begin, and after the last one the row where a next one would.
PageStart[p \in 1 .. Len(PointerPages) + 1] ==
  IF p = 1 THEN 1 ELSE PageStart[p - 1] + Len(PointerPages[p - 1]) + 1
FirstRow == [p \in 1 .. Len(PointerPages) + 1 |-> PageStart[p]]
PageRows(p) == FirstRow[p] .. FirstRow[p + 1] - 2
StripEnd == FirstRow[Len(PointerPages) + 1] - 1
\* What is in the rows of the strip.
Strip == [row \in 1 .. StripEnd |->
            IF \E p \in StripPages : row \in PageRows(p)
            THEN LET p == CHOOSE p \in StripPages : row \in PageRows(p)
                 IN  PointerPages[p][row - FirstRow[p] + 1]
            ELSE "gap"]
Kind(row) == IF row \in 1 .. StripEnd THEN Strip[row] ELSE "gap"
MaxScroll == StripEnd + 1 - PointerHeight

Clamped(value) == IF value < 0 THEN 0 ELSE IF value > MaxScroll THEN MaxScroll ELSE value
\* start_page and end_page
SeenPages(at) == {p \in StripPages : PageRows(p) \intersect (at .. at + PointerHeight - 1) # {}}
Inside(y) == y \in 0 .. PointerHeight - 1
Apart(a, b) == IF a > b THEN a - b > Threshold ELSE b - a > Threshold
Half(n) == IF n < 0 THEN -((-n) \div 2) ELSE n \div 2          \* as C divides
Slower(n) == IF n < 0 THEN -((-n * 5) \div 6) ELSE (n * 5) \div 6

-----------------------------------------------------------------------------
(* Selections.                                                             *)

\* The pages that compute_new_selection writes: from the first to the last that holds
\* one of the two places.  Word and line selections of a single place look at the
\* pages in view only.
SelectionPages(start, stop, single, at) ==
  LET held == {p \in (IF single THEN SeenPages(at) ELSE StripPages) :
                 {start, stop} \intersect PageRows(p) # {}}
  IN  {p \in StripPages : (\E q \in held : q <= p) /\ (\E q \in held : p <= q)}

\* _ev_view_transform_view_point_to_doc_point and the MAX that follows it
InPage(row, p) == IF row < FirstRow[p] THEN 1 ELSE row - FirstRow[p] + 1

\* Mutant: the last page of a single one is given the start as well.
StretchFromStart(start, stop, p, pages, style) ==
  LET first == \A q \in pages : p <= q
      last  == \A q \in pages : q <= p
      point == IF start \in PageRows(p) THEN start ELSE stop
  IN  [page |-> p, style |-> style,
       from |-> IF first THEN InPage(point, p) ELSE 1,
       to   |-> IF last THEN InPage(point, p) ELSE Len(PointerPages[p]),
       empty |-> first /\ last /\ point = stop /\ start # stop]

\* The stretch of one page: the first page begins and the last one ends at the place
\* that is on it; on a single page the stretch is from start to stop, and a point when
\* the start is on no page.
Stretch(start, stop, p, pages, style) ==
  LET first == \A q \in pages : p <= q
      last  == \A q \in pages : q <= p
      point == IF start \in PageRows(p) THEN start ELSE stop
  IN  [page |-> p, style |-> style,
       from |-> IF first THEN InPage(point, p) ELSE 1,
       to   |-> IF last THEN InPage(IF first THEN stop ELSE point, p)
                ELSE Len(PointerPages[p]),
       empty |-> first /\ last /\ point = stop /\ start # stop]

NewSelection(start, stop, single, style, at) ==
  LET pages == SelectionPages(start, stop, single, at)
  IN  {Stretch(start, stop, p, pages, style) : p \in pages}

AllSelected ==
  {[page |-> p, style |-> "glyph", from |-> 1, to |-> Len(PointerPages[p]), empty |-> FALSE] :
     p \in StripPages}

\* The rows of the strip a selection covers.
Covers(s) ==
  IF s.empty THEN {}
  ELSE {row \in PageRows(s.page) :
          LET r == row - FirstRow[s.page] + 1
          IN  (s.from <= r /\ r <= s.to) \/ (s.to <= r /\ r <= s.from)}
SelectedRows == UNION {Covers(s) : s \in sel.list}

\* location_in_text, location_in_selected_text
InText(row) == Kind(row) \in {"text", "link"}
InSelectedText(row) == row \in SelectedRows /\ InText(row)

\* merge_selection_region emits selection-changed: view_selection_changed_cb
Copies(list) == IF list = sel.list THEN outside.copy ELSE list # {}

-----------------------------------------------------------------------------
(* The cursor.                                                             *)

ResetByBlank == {"link", "ibeam", "drag", "autoscroll", "add"}

\* ev_view_handle_cursor_over_xy
CursorOver(cursor, row, adding, dragging, autoscrolling) ==
  IF adding THEN "add"
  ELSE IF dragging THEN "drag"
  ELSE IF autoscrolling THEN "autoscroll"
  ELSE CASE Kind(row) \in {"link", "annot"} -> "link"
         [] Kind(row) = "entry" -> "ibeam"
         [] Kind(row) = "locked" ->
              IF cursor \in {"link", "ibeam", "drag"} THEN "normal" ELSE cursor
         [] Kind(row) = "text" -> "ibeam"
         [] OTHER -> IF cursor \in ResetByBlank THEN "normal" ELSE cursor

\* The enter and the leave notification that come with a motion from y to z.
Crossed(y, z) ==
  IF Inside(y) /\ ~Inside(z) THEN "normal"
  ELSE IF ~Inside(y) /\ Inside(z)
  THEN CursorOver(act.cursor, z + scroll, act.adding, drag.on, act.autoscroll)
  ELSE act.cursor

-----------------------------------------------------------------------------
(* Buttons.                                                                *)

PointerEvent == pointerCalls < PointerCalls /\ pointerCalls' = pointerCalls + 1
Free == hand.button = 0 /\ hand.dnd = "none"
Place == hand.y + scroll

\* start_selection_for_event: a glyph selection begins with the first motion.
Started(style) ==
  [sel EXCEPT !.start = Place, !.style = style, !.text = FALSE, !.fresh = "pressed",
     !.list = IF style = "glyph" THEN {} ELSE NewSelection(Place, Place, TRUE, style, scroll)]

\* The first button, on nothing that is selected: a note, a form field, an image to
\* be dragged, or the beginning of a selection.
PressOn(kind, style) ==
  CASE kind \in {"annot", "entry", "locked"} -> [sel EXCEPT !.text = FALSE, !.fresh = "no"]
    [] kind = "image" -> [sel EXCEPT !.text = FALSE, !.fresh = "no", !.image = TRUE]
    [] OTHER -> Started(style)

\* ev_view_button_press_event, first button; style as the number of clicks says.
Pressed1(ctrl, style) ==
  /\ act' = [act EXCEPT !.pressed = 1]
  /\ sel' = IF act.adding \/ act.autoscroll \/ ctrl
            THEN [sel EXCEPT !.text = FALSE, !.fresh = "no"]
            ELSE IF sel.list = {} THEN PressOn(Kind(Place), style)
            ELSE IF style # "line" /\ InSelectedText(Place)
            THEN [sel EXCEPT !.text = TRUE, !.fresh = "no"]
            ELSE Started(style)
  /\ outside' = [outside EXCEPT !.copy = Copies(sel'.list)]

Press1 ==
  /\ PointerEvent /\ Free /\ Inside(hand.y)
  /\ \E ctrl \in BOOLEAN : Pressed1(ctrl, "glyph")
  /\ hand' = [hand EXCEPT !.button = 1, !.clicks = IF @ < 3 THEN @ + 1 ELSE 1]
  /\ UNCHANGED <<drag, scroll>>

\* GDK_2BUTTON_PRESS, GDK_3BUTTON_PRESS: they follow the press itself.
PressAgain ==
  /\ PointerEvent /\ hand.button = 1 /\ hand.clicks \in {2, 3} /\ hand.dnd = "none"
  /\ Pressed1(FALSE, IF hand.clicks = 2 THEN "word" ELSE "line")
  /\ UNCHANGED <<hand, drag, scroll>>

Press2 ==
  /\ PointerEvent /\ Free /\ Inside(hand.y)
  /\ act' = [act EXCEPT !.pressed = 2,
               !.cursor = IF act.adding \/ act.autoscroll THEN @ ELSE "drag"]
  /\ drag' = IF act.adding \/ act.autoscroll THEN drag
             ELSE [drag EXCEPT !.y = hand.y, !.scroll = scroll]
  /\ sel' = [sel EXCEPT !.text = FALSE]
  /\ hand' = [hand EXCEPT !.button = 2, !.clicks = 0]
  /\ UNCHANGED <<scroll, outside>>

\* The popup menu that opens takes the release.
Press3 ==
  /\ PointerEvent /\ Free /\ Inside(hand.y)
  /\ act' = [act EXCEPT !.pressed = 3,
               !.from = IF act.adding \/ act.autoscroll THEN @ ELSE hand.y]
  /\ sel' = [sel EXCEPT !.text = FALSE]
  /\ hand' = [hand EXCEPT !.clicks = 0]
  /\ UNCHANGED <<drag, scroll, outside>>

\* Mutant: the cursor is left as it is.
AutoscrollStopQuietly == [act EXCEPT !.autoscroll = FALSE, !.timer = FALSE]

\* ev_view_autoscroll_stop
AutoscrollStop ==
  IF ~act.autoscroll THEN act
  ELSE [act EXCEPT !.autoscroll = FALSE, !.timer = FALSE,
          !.cursor = CursorOver(@, Place, act.adding, drag.on, FALSE)]

\* The end of ev_view_button_release_event: a selection goes to PRIMARY, and is cleared
\* when its text was pressed and not dragged.  A click on a link without a selection
\* follows it, in the modules on history and scrolling.
ReleaseSelection ==
  LET kept == IF sel.text THEN {} ELSE sel.list
  IN  /\ sel' = [sel EXCEPT !.timer = FALSE, !.update = FALSE, !.list = kept, !.image = FALSE,
                   !.text = @ /\ sel.list = {}, !.fresh = "no"]
      /\ outside' = [outside EXCEPT !.copy = Copies(kept),
                       !.primary = IF sel.list # {} THEN "view" ELSE @,
                       !.link = IF sel.list # {} THEN FALSE ELSE @]

\* ev_view_button_release_event, at the place y
Released(y, ctrl) ==
  IF act.autoscroll
  THEN /\ act' = [AutoscrollStop EXCEPT !.pressed = -1]
       /\ sel' = [sel EXCEPT !.image = FALSE, !.fresh = "no"]
       /\ UNCHANGED <<drag, outside>>
  ELSE IF act.pressed = 1 /\ ctrl
  THEN /\ act' = [act EXCEPT !.pressed = -1]
       /\ sel' = [sel EXCEPT !.image = FALSE, !.fresh = "no"]
       /\ UNCHANGED <<drag, outside>>
  ELSE /\ drag' = [drag EXCEPT !.on = FALSE, !.release = IF drag.on THEN @ + 1 ELSE @]
       /\ IF act.adding /\ act.pressed = 1
          THEN /\ act' = [act EXCEPT !.adding = FALSE, !.pressed = -1,
                            !.cursor = CursorOver(@, y + scroll, FALSE, FALSE, FALSE)]
               /\ sel' = [sel EXCEPT !.image = FALSE, !.fresh = "no"]
               /\ outside' = [outside EXCEPT !.toggle = FALSE]   \* annot-added
          ELSE /\ act' = [act EXCEPT !.pressed = -1,
                            !.cursor = IF act.pressed # 2 THEN @
                                       ELSE CursorOver(@, y + scroll, act.adding, FALSE, FALSE)]
               /\ ReleaseSelection

Release ==
  /\ PointerEvent /\ hand.button \in {1, 2} /\ hand.dnd = "none"
  /\ \E ctrl \in BOOLEAN : Released(hand.y, ctrl)
  /\ hand' = [hand EXCEPT !.button = 0]
  /\ UNCHANGED scroll

\* The end of a drag and drop: GTK+ sends the widget a release at its upper left corner.
DropEnds ==
  /\ hand.dnd # "none"
  /\ Released(0, FALSE)
  /\ hand' = [hand EXCEPT !.button = 0, !.dnd = "none"]
  /\ UNCHANGED <<scroll, pointerCalls>>

-----------------------------------------------------------------------------
(* Motion.                                                                 *)

\* selection_scroll_timeout_cb, with the pointer at y
ScrolledTowards(y) ==
  IF y > PointerHeight THEN Clamped(scroll + Half(y - PointerHeight))
  ELSE IF y < 0 THEN Clamped(scroll + Half(y))
  ELSE scroll

\* The first button is down: the selection follows in an idle, and the view scrolls
\* once and then with a timer while the pointer is outside.
SelectTowards(y) ==
  /\ scroll' = IF sel.timer THEN ScrolledTowards(y) ELSE scroll
  /\ sel' = [sel EXCEPT !.timer = TRUE, !.motion = y + scroll', !.update = TRUE,
                 !.fresh = IF @ = "pressed" THEN "moved" ELSE @]
  /\ UNCHANGED drag

\* The second button is down.  Every motion before the threshold adds a timer.
DragTowards(y) ==
  LET begun == drag.on \/ Apart(drag.y, y)
      fresh == [drag EXCEPT !.on = begun, !.timers = @ + 1, !.momentum = 0,
                  !.buffer = [i \in 1 .. DragHistory |-> y]]
  IN  /\ drag' = IF drag.on THEN [drag EXCEPT !.buffer[1] = y] ELSE fresh
      /\ scroll' = IF begun THEN Clamped(drag.scroll - (y - drag.y)) ELSE scroll
      /\ UNCHANGED sel

\* ev_view_motion_notify_event.  The thresholds of text and of an image compare a place
\* in the document with one in the view.
Move ==
  /\ PointerEvent /\ hand.dnd = "none"
  /\ \E y \in PointerPlaces \ {hand.y} :
       LET cursor == Crossed(hand.y, y)
           dragsOut == ~act.autoscroll /\ (sel.text \/ sel.image) /\ Apart(sel.start, y)
           heard == hand.button # 0 \/ Inside(y)    \* outside only a grab hears
       IN  /\ hand' = [hand EXCEPT !.y = y, !.clicks = 0,
                         !.dnd = IF heard /\ dragsOut THEN IF sel.text THEN "text" ELSE "image"
                                 ELSE @]
           /\ act' = [act EXCEPT
                        !.last = IF heard /\ act.autoscroll THEN y ELSE @,
                        !.cursor = IF heard /\ ~act.autoscroll /\ ~dragsOut /\ act.pressed \notin {1, 2}
                                   THEN CursorOver(cursor, y + scroll, act.adding, drag.on, FALSE)
                                   ELSE cursor]
           /\ IF ~heard \/ act.autoscroll THEN UNCHANGED <<drag, sel, scroll>>
              ELSE IF dragsOut
              THEN /\ sel' = IF sel.text THEN [sel EXCEPT !.text = FALSE] ELSE [sel EXCEPT !.image = FALSE]
                   /\ UNCHANGED <<drag, scroll>>
              ELSE CASE act.pressed = 1 -> SelectTowards(y)
                     [] act.pressed = 2 -> DragTowards(y)
                     [] OTHER -> UNCHANGED <<drag, sel, scroll>>
  /\ UNCHANGED outside

-----------------------------------------------------------------------------
(* Timers and idle sources.                                                *)

\* selection_update_idle_cb
SelectionUpdate ==
  /\ sel.update
  /\ sel' = [sel EXCEPT !.update = FALSE,
               !.list = NewSelection(sel.start, sel.motion, FALSE, sel.style, scroll)]
  /\ outside' = [outside EXCEPT !.copy = Copies(sel'.list)]
  /\ UNCHANGED <<hand, act, drag, scroll, pointerCalls>>

SelectionScroll ==
  /\ sel.timer /\ scroll' = ScrolledTowards(hand.y)
  /\ UNCHANGED <<hand, act, drag, sel, outside, pointerCalls>>

\* Mutant: the timer does not look whether the drag is over.
DragMomentumOn ==
  /\ drag.timers > 0
  /\ LET older == [i \in 1 .. DragHistory |-> drag.buffer[IF i = 1 THEN 1 ELSE i - 1]]
     IN  drag' = [drag EXCEPT !.buffer = older, !.momentum = older[DragHistory] - older[1]]
  /\ UNCHANGED <<hand, act, sel, scroll, outside, pointerCalls>>

\* ev_view_drag_update_momentum
DragMomentum ==
  /\ drag.timers > 0
  /\ drag' = IF ~drag.on THEN [drag EXCEPT !.timers = @ - 1]
             ELSE LET older == [i \in 1 .. DragHistory |-> drag.buffer[IF i = 1 THEN 1 ELSE i - 1]]
                  IN  [drag EXCEPT !.buffer = older, !.momentum = older[DragHistory] - older[1]]
  /\ UNCHANGED <<hand, act, sel, scroll, outside, pointerCalls>>

\* ev_view_scroll_drag_release: the page glides on and stops at the ends.
Glide ==
  LET slower == Slower(drag.momentum)
      there  == scroll + slower
  IN  IF there > MaxScroll \/ there < 0 THEN 0 ELSE slower

DragRelease ==
  /\ drag.release > 0
  /\ scroll' = Clamped(scroll + Slower(drag.momentum))
  /\ drag' = [drag EXCEPT !.momentum = Glide, !.release = IF Glide = 0 THEN @ - 1 ELSE @]
  /\ UNCHANGED <<hand, act, sel, outside, pointerCalls>>

\* ev_view_autoscroll_cb: towards the pointer, the faster the farther it is.
AutoscrollTick ==
  /\ act.timer
  /\ \E rows \in 0 .. 1 :
       scroll' = Clamped(scroll + (IF act.from > act.last THEN -rows
                                   ELSE IF act.last > act.from THEN rows ELSE 0))
  /\ act' = [act EXCEPT !.timer = act.autoscroll]
  /\ UNCHANGED <<hand, drag, sel, outside, pointerCalls>>

-----------------------------------------------------------------------------
(* Commands.                                                               *)

\* ev_view_autoscroll_start, from the popup menu or by its key
AutoscrollStart ==
  /\ PointerEvent /\ ~act.autoscroll
  /\ act' = [act EXCEPT !.autoscroll = TRUE, !.timer = TRUE,
               !.cursor = CursorOver(@, Place, act.adding, drag.on, TRUE)]
  /\ hand' = [hand EXCEPT !.hasty = @ \/ act.pressed = 2]
  /\ UNCHANGED <<drag, sel, scroll, outside>>

\* ev_window_cmd_escape
Escape ==
  /\ PointerEvent /\ act.autoscroll /\ act' = AutoscrollStop
  /\ UNCHANGED <<hand, drag, sel, scroll, outside>>

\* The toggle of the sidebar: ev_view_begin_add_annotation, ev_view_cancel_add_annotation
ToggleAdding ==
  /\ PointerEvent
  /\ outside' = [outside EXCEPT !.toggle = ~@]
  /\ act' = IF outside.toggle = act.adding
            THEN [act EXCEPT !.adding = ~@,
                    !.cursor = IF act.adding
                               THEN CursorOver(@, Place, FALSE, drag.on, act.autoscroll)
                               ELSE "add"]
            ELSE act
  /\ UNCHANGED <<hand, drag, sel, scroll>>

\* ev_view_select_all
SelectAll ==
  /\ PointerEvent /\ sel' = [sel EXCEPT !.list = AllSelected, !.fresh = "no"]
  /\ outside' = [outside EXCEPT !.copy = Copies(AllSelected)]
  /\ UNCHANGED <<hand, act, drag, scroll>>

\* ev_view_copy_link_address, from the popup menu of a link
CopyLinkAddress ==
  /\ PointerEvent /\ act.pressed = 3 /\ Kind(Place) = "link"
  /\ outside' = [outside EXCEPT !.link = TRUE, !.primary = "view"]
  /\ UNCHANGED <<hand, act, drag, sel, scroll>>

\* Another program selects something: ev_view_primary_clear_cb.
OthersSelect ==
  /\ PointerEvent /\ outside.primary = "view"
  /\ sel' = [sel EXCEPT !.list = {}, !.fresh = "no"]
  /\ outside' = [outside EXCEPT !.primary = "other", !.link = FALSE, !.copy = Copies({})]
  /\ UNCHANGED <<hand, act, drag, scroll>>

-----------------------------------------------------------------------------
PointerInit ==
  /\ hand = [y |-> 0, button |-> 0, clicks |-> 0, dnd |-> "none", hasty |-> FALSE]
  /\ act = [pressed |-> -1, adding |-> FALSE, cursor |-> "normal", autoscroll |-> FALSE,
            timer |-> FALSE, from |-> 0, last |-> 0]
  /\ drag = [on |-> FALSE, y |-> ScreenTop, scroll |-> 0, timers |-> 0, release |-> 0,
             momentum |-> 0, buffer |-> [i \in 1 .. DragHistory |-> 0]]
  /\ sel = [list |-> {}, start |-> 0, style |-> "glyph", text |-> FALSE, image |-> FALSE,
            motion |-> 0, timer |-> FALSE, update |-> FALSE, fresh |-> "no"]
  /\ scroll \in {0, MaxScroll \div 2}
  /\ outside = [copy |-> FALSE, toggle |-> FALSE, primary |-> "other", link |-> FALSE]
  /\ pointerCalls = 0

PointerUser ==
  \/ Press1 \/ PressAgain \/ Press2 \/ Press3 \/ Release \/ Move
  \/ AutoscrollStart \/ Escape \/ ToggleAdding \/ SelectAll \/ CopyLinkAddress \/ OthersSelect

PointerSources ==
  \/ SelectionUpdate \/ SelectionScroll \/ DragMomentum \/ DragRelease \/ AutoscrollTick
  \/ DropEnds

PointerNext == PointerUser \/ PointerSources

PointerFairness ==
  /\ WF_pointerVars(SelectionUpdate) /\ WF_pointerVars(DragMomentum)
  /\ WF_pointerVars(DragRelease) /\ WF_pointerVars(AutoscrollTick)

PointerSpec == PointerInit /\ [][PointerNext]_pointerVars /\ PointerFairness

-----------------------------------------------------------------------------
(* Properties.                                                             *)

PointerTypeOK ==
  /\ hand.y \in PointerPlaces \cup {0} /\ hand.button \in 0 .. 2 /\ hand.clicks \in 0 .. 3
  /\ hand.dnd \in {"none", "text", "image"}
  /\ act.pressed \in {-1, 1, 2, 3}
  /\ act.cursor \in {"normal", "link", "ibeam", "drag", "autoscroll", "add"}
  /\ {act.adding, act.autoscroll, act.timer, drag.on, sel.text, sel.image, sel.timer,
      sel.update, outside.copy, outside.toggle, outside.link} \subseteq BOOLEAN
  /\ scroll \in 0 .. MaxScroll /\ drag.timers \in Nat /\ drag.release \in Nat
  /\ \A s \in sel.list : s.page \in StripPages /\ s.from \in Nat /\ s.to \in Nat
  /\ \A s, t \in sel.list : s.page = t.page => s = t

\* While the first button is held after a press that began a selection, what is selected
\* is what lies between the place of the press and the last motion, on whatever pages,
\* however the view was scrolled in between, as long as both ends are on a page.
SelectionIsTheStroke ==
  sel.fresh = "moved" /\ act.pressed = 1 /\ ~sel.update
      /\ Kind(sel.start) # "gap" /\ Kind(sel.motion) # "gap" =>
    SelectedRows = {row \in 1 .. StripEnd :
                      /\ Kind(row) # "gap"
                      /\ \/ sel.start <= row /\ row <= sel.motion
                         \/ sel.motion <= row /\ row <= sel.start}

\* The cursor, the command and the toggle tell what the view is doing: the cursor of a
\* mode is seen only in that mode, unless the document has read-only fields, over which
\* an old one stays; and a drag ends with its button, unless autoscrolling was begun in
\* the middle of it: the release then stops that, and the drag goes on without a button.
PointerTellsTheMode ==
  /\ outside.copy = (sel.list # {})
  /\ outside.toggle = act.adding
  /\ drag.on /\ ~hand.hasty => act.pressed = 2
  /\ (\A row \in 1 .. StripEnd : Kind(row) # "locked") =>
       /\ act.cursor = "drag" /\ ~hand.hasty => act.pressed = 2
       /\ act.cursor = "autoscroll" => act.autoscroll
       /\ act.cursor = "add" => act.adding

\* Timers and idle sources end: those of a drag when it is over, the glide that follows
\* it, the one of autoscrolling once it is stopped.
PointerComesToRest ==
  /\ sel.update ~> ~sel.update
  /\ drag.timers > 0 ~> drag.timers = 0 \/ drag.on
  /\ drag.release > 0 ~> drag.release = 0
=============================================================================
