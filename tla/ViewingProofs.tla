----------------------------- MODULE ViewingProofs -----------------------------
(***************************************************************************)
(* Theorems about EvPointer for any document, any height of the view and   *)
(* any places of the pointer: what the cursor, the Copy command and the    *)
(* toggle of the sidebar say is what the view is doing, and what is        *)
(* selected is what the hand has drawn over, page by page, whatever        *)
(* buttons, motions, timers and commands follow one another.               *)
(*                                                                         *)
(* The inductive invariant of EvAnnotations, what its operators do to it,  *)
(* and that the calls keep it which need no more of popups than to move,   *)
(* hide and write those that are there.  AnnotationsProofs goes on.        *)
(***************************************************************************)
EXTENDS EvPointer, EvAnnotations, WellFoundedInduction, TLAPS


-----------------------------------------------------------------------------
(* The inductive invariant.                                                *)

Cursors == {"normal", "link", "ibeam", "drag", "autoscroll", "add"}
NoLocked == \A row \in 1 .. StripEnd : Kind(row) # "locked"

\* The records have the fields that the steps write or the properties read, and those
\* that the properties read have their types.
PointerShape ==
  /\ {"y", "button", "clicks", "dnd", "hasty"} \subseteq DOMAIN hand
  /\ {"pressed", "adding", "cursor", "autoscroll", "timer", "from", "last"} \subseteq DOMAIN act
  /\ {"on", "y", "scroll", "timers", "release", "momentum", "buffer"} \subseteq DOMAIN drag
  /\ {"list", "start", "style", "text", "image", "motion", "timer", "update", "fresh"}
       \subseteq DOMAIN sel
  /\ {"copy", "toggle", "primary", "link"} \subseteq DOMAIN outside
  /\ hand.button \in 0 .. 2 /\ act.pressed \in {-1, 1, 2, 3} /\ act.cursor \in Cursors
  /\ hand.hasty \in BOOLEAN /\ act.adding \in BOOLEAN /\ act.autoscroll \in BOOLEAN
  /\ drag.on \in BOOLEAN /\ outside.copy \in BOOLEAN /\ outside.toggle \in BOOLEAN

\* The view remembers the second button only while it is held; and unless autoscrolling
\* was begun in the middle of a drag, a drag is one of a held button and never goes with
\* autoscrolling.
DragIsHeld ==
  /\ act.pressed = 2 => hand.button = 2
  /\ drag.on /\ ~hand.hasty => act.pressed = 2 /\ ~act.autoscroll

PointerInvariant == PointerShape /\ DragIsHeld /\ PointerTellsTheMode

\* Nothing of it looks at the scroll position.
LEMMA PointerStays ==
  ASSUME PointerInvariant, UNCHANGED <<hand, act, drag, sel, outside>>
  PROVE  PointerInvariant'
<1>1. hand' = hand /\ act' = act /\ drag' = drag /\ sel' = sel /\ outside' = outside
  OBVIOUS
<1>2. PointerShape'
  BY <1>1 DEF PointerInvariant, PointerShape
<1>3. DragIsHeld'
  BY <1>1 DEF PointerInvariant, DragIsHeld
<1>4. PointerTellsTheMode'
  BY <1>1 DEF PointerInvariant, PointerTellsTheMode
<1> QED
  BY <1>2, <1>3, <1>4 DEF PointerInvariant

-----------------------------------------------------------------------------
(* The cursor.                                                             *)

\* Without read-only fields a cursor that is chosen anew is that of a mode only in that
\* mode.
LEMMA CursorOverTells ==
  ASSUME NEW cursor \in Cursors, NEW row, NEW adding \in BOOLEAN, NEW dragging \in BOOLEAN,
         NEW autoscrolling \in BOOLEAN
  PROVE  LET c == CursorOver(cursor, row, adding, dragging, autoscrolling)
         IN  /\ c \in Cursors
             /\ NoLocked => /\ c = "add" => adding
                            /\ c = "drag" => dragging
                            /\ c = "autoscroll" => autoscrolling
<1> DEFINE c == CursorOver(cursor, row, adding, dragging, autoscrolling)
<1>1. CASE adding \/ dragging \/ autoscrolling
  BY <1>1 DEF CursorOver, Cursors
<1>2. CASE ~(adding \/ dragging \/ autoscrolling)
  <2>1. NoLocked => Kind(row) # "locked"
    BY DEF NoLocked, Kind
  <2>2. \/ c \in {"link", "ibeam", "normal"}
        \/ c = cursor /\ Kind(row) = "locked"
        \/ c = cursor /\ cursor \notin ResetByBlank
    BY <1>2 DEF CursorOver
  <2> QED
    BY <2>1, <2>2 DEF Cursors, ResetByBlank
<1> QED
  BY <1>1, <1>2

-----------------------------------------------------------------------------
(* The steps.                                                              *)

\* At the beginning the cursor is the usual one, and nothing is held or selected.
LEMMA PointerStarts == PointerInit => PointerInvariant
<1> SUFFICES ASSUME PointerInit PROVE PointerInvariant
  OBVIOUS
<1>1. /\ hand.button = 0 /\ ~hand.hasty /\ act.pressed = -1 /\ ~act.adding
      /\ act.cursor = "normal" /\ ~act.autoscroll /\ ~drag.on /\ sel.list = {}
      /\ ~outside.copy /\ ~outside.toggle
  BY DEF PointerInit
<1>2. PointerShape
  BY DEF PointerInit, PointerShape, Cursors
<1> QED
  BY <1>1, <1>2 DEF PointerInvariant, DragIsHeld, PointerTellsTheMode, PointerShape

\* The Copy command is told of every new selection.
LEMMA CopiesTells ==
  ASSUME PointerInvariant, NEW list
  PROVE  Copies(list) = (list # {}) /\ Copies(list) \in BOOLEAN
BY DEF PointerInvariant, PointerTellsTheMode, PointerShape, Copies

\* A press of the first button, once or again, does not touch the cursor and the drag.
LEMMA FirstButton ==
  ASSUME PointerInvariant, NEW ctrl, NEW style, Pressed1(ctrl, style), drag' = drag,
         DOMAIN hand' = DOMAIN hand, hand'.button = 1, hand'.hasty = hand.hasty,
         hand.button # 2
  PROVE  PointerInvariant'
<1>1. act' = [act EXCEPT !.pressed = 1]
      /\ outside' = [outside EXCEPT !.copy = Copies(sel'.list)]
  BY DEF Pressed1
<1>2. DOMAIN sel' = DOMAIN sel
  BY DEF Pressed1, Started, PressOn
<1>3. outside'.copy = (sel'.list # {}) /\ outside'.copy \in BOOLEAN
  BY <1>1, CopiesTells DEF PointerInvariant, PointerShape
<1>4. PointerShape'
  BY <1>1, <1>2, <1>3 DEF PointerInvariant, PointerShape
<1>5. DragIsHeld'
  BY <1>1 DEF PointerInvariant, PointerShape, DragIsHeld
<1> QED
  BY <1>1, <1>3, <1>4, <1>5 DEF PointerInvariant, PointerTellsTheMode, PointerShape, DragIsHeld

\* When autoscrolling stops, the cursor is chosen anew.
LEMMA StopTells ==
  ASSUME PointerInvariant
  PROVE  /\ DOMAIN AutoscrollStop = DOMAIN act /\ AutoscrollStop.pressed = act.pressed
         /\ AutoscrollStop.adding = act.adding /\ AutoscrollStop.cursor \in Cursors
         /\ AutoscrollStop.autoscroll = FALSE
         /\ NoLocked => /\ AutoscrollStop.cursor = "add" => act.adding
                        /\ AutoscrollStop.cursor = "drag" =>
                             drag.on \/ (~act.autoscroll /\ act.cursor = "drag")
                        /\ AutoscrollStop.cursor # "autoscroll"
<1>1. act.cursor \in Cursors /\ act.adding \in BOOLEAN /\ drag.on \in BOOLEAN
  BY DEF PointerInvariant, PointerShape
<1> DEFINE c == CursorOver(act.cursor, Place, act.adding, drag.on, FALSE)
<1>2. c \in Cursors /\ (NoLocked => /\ c = "add" => act.adding
                                    /\ c = "drag" => drag.on
                                    /\ c # "autoscroll")
  BY <1>1, CursorOverTells
<1> HIDE DEF c
<1>3. AutoscrollStop = IF ~act.autoscroll THEN act
                       ELSE [act EXCEPT !.autoscroll = FALSE, !.timer = FALSE, !.cursor = c]
  BY DEF AutoscrollStop, c
<1> QED
  BY <1>1, <1>2, <1>3 DEF PointerInvariant, PointerShape, PointerTellsTheMode, NoLocked

\* A button is released, or a drag and drop ends: no mode but that of adding a note
\* outlives the button, unless autoscrolling was begun under it.
LEMMA ReleasedKeeps ==
  ASSUME PointerInvariant, NEW y, NEW ctrl, Released(y, ctrl),
         DOMAIN hand' = DOMAIN hand, hand'.button = 0, hand'.hasty = hand.hasty
  PROVE  PointerInvariant'
<1> USE DEF PointerInvariant
<1>1. CASE act.autoscroll
  <2>1. /\ act' = [AutoscrollStop EXCEPT !.pressed = -1] /\ drag' = drag /\ outside' = outside
        /\ sel' = [sel EXCEPT !.image = FALSE, !.fresh = "no"]
    BY <1>1 DEF Released
  <2>2. /\ DOMAIN act' = DOMAIN act /\ act'.pressed = -1 /\ act'.adding = act.adding
        /\ act'.cursor = AutoscrollStop.cursor /\ ~act'.autoscroll /\ act'.autoscroll \in BOOLEAN
        /\ DOMAIN sel' = DOMAIN sel /\ sel'.list = sel.list
    BY <2>1, StopTells DEF PointerShape
  <2>3. PointerShape'
    <3>1. drag' = drag /\ outside' = outside /\ act'.cursor \in Cursors
      BY <2>1, <2>2, StopTells
    <3> QED
      BY <2>2, <3>1 DEF PointerShape
  <2>4. DragIsHeld'
    BY <1>1, <2>1, <2>2 DEF PointerShape, DragIsHeld
  <2>5. PointerTellsTheMode'
    BY <1>1, <2>1, <2>2, StopTells DEF PointerShape, DragIsHeld, PointerTellsTheMode, NoLocked
  <2> QED
    BY <2>3, <2>4, <2>5
<1>2. CASE ~act.autoscroll /\ act.pressed = 1 /\ ctrl
  <2>1. /\ act' = [act EXCEPT !.pressed = -1] /\ drag' = drag /\ outside' = outside
        /\ sel' = [sel EXCEPT !.image = FALSE, !.fresh = "no"]
    BY <1>2 DEF Released
  <2>2. PointerShape' /\ DragIsHeld'
    BY <1>2, <2>1 DEF PointerShape, DragIsHeld
  <2> QED
    BY <1>2, <2>1, <2>2 DEF PointerShape, PointerTellsTheMode
<1>3. CASE ~act.autoscroll /\ ~(act.pressed = 1 /\ ctrl)
  <2>1. drag' = [drag EXCEPT !.on = FALSE, !.release = IF drag.on THEN @ + 1 ELSE @]
    BY <1>3 DEF Released
  <2>2. DOMAIN drag' = DOMAIN drag /\ ~drag'.on /\ drag'.on \in BOOLEAN
    BY <2>1 DEF PointerShape
  <2>3. CASE act.adding /\ act.pressed = 1
    <3> DEFINE c == CursorOver(act.cursor, y + scroll, FALSE, FALSE, FALSE)
    <3>1. c \in Cursors /\ (NoLocked => c \notin {"add", "drag", "autoscroll"})
      BY CursorOverTells DEF PointerShape
    <3>2. /\ act' = [act EXCEPT !.adding = FALSE, !.pressed = -1, !.cursor = c]
          /\ sel' = [sel EXCEPT !.image = FALSE, !.fresh = "no"]
          /\ outside' = [outside EXCEPT !.toggle = FALSE]
      BY <1>3, <2>3 DEF Released
    <3> HIDE DEF c
    <3>3. PointerShape' /\ DragIsHeld'
      BY <2>2, <3>1, <3>2 DEF PointerShape, DragIsHeld
    <3> QED
      BY <2>2, <3>1, <3>2, <3>3 DEF PointerShape, PointerTellsTheMode, NoLocked
  <2>4. CASE ~(act.adding /\ act.pressed = 1)
    <3> DEFINE c == CursorOver(act.cursor, y + scroll, act.adding, FALSE, FALSE)
               kept == IF sel.text THEN {} ELSE sel.list
    <3>1. c \in Cursors /\ (NoLocked => /\ c = "add" => act.adding
                                        /\ c \notin {"drag", "autoscroll"})
      BY CursorOverTells DEF PointerShape
    <3>2. /\ act' = [act EXCEPT !.pressed = -1, !.cursor = IF act.pressed # 2 THEN @ ELSE c]
          /\ ReleaseSelection
      BY <1>3, <2>4 DEF Released
    <3> HIDE DEF c
    <3>3. /\ DOMAIN sel' = DOMAIN sel /\ sel'.list = kept
          /\ DOMAIN outside' = DOMAIN outside /\ outside'.copy = Copies(kept)
          /\ outside'.toggle = outside.toggle
      BY <3>2 DEF ReleaseSelection, PointerShape
    <3>4. outside'.copy = (sel'.list # {}) /\ outside'.copy \in BOOLEAN
      BY <3>3, CopiesTells
    <3> HIDE DEF kept
    <3>5. /\ DOMAIN act' = DOMAIN act /\ act'.pressed = -1 /\ act'.adding = act.adding
          /\ act'.autoscroll = act.autoscroll
          /\ act'.cursor = IF act.pressed # 2 THEN act.cursor ELSE c
      BY <3>2 DEF PointerShape
    <3>6. PointerShape' /\ DragIsHeld'
      BY <2>2, <3>1, <3>3, <3>4, <3>5 DEF PointerShape, DragIsHeld
    <3> QED
      BY <1>3, <2>2, <3>1, <3>3, <3>4, <3>5, <3>6
      DEF PointerShape, PointerTellsTheMode, NoLocked
  <2> QED
    BY <2>3, <2>4
<1> QED
  BY <1>1, <1>2, <1>3

\* The cursor after the pointer has crossed the border of the view.
LEMMA CrossedTells ==
  ASSUME PointerInvariant, NEW y, NEW z
  PROVE  /\ Crossed(y, z) \in Cursors
         /\ NoLocked => /\ Crossed(y, z) = "add" => act.adding
                        /\ Crossed(y, z) = "drag" => drag.on \/ act.cursor = "drag"
                        /\ Crossed(y, z) = "autoscroll" => act.autoscroll
<1> DEFINE c == CursorOver(act.cursor, z + scroll, act.adding, drag.on, act.autoscroll)
<1>1. c \in Cursors /\ (NoLocked => /\ c = "add" => act.adding
                                    /\ c = "drag" => drag.on
                                    /\ c = "autoscroll" => act.autoscroll)
  BY CursorOverTells DEF PointerInvariant, PointerShape
<1>2. Crossed(y, z) \in {"normal", c, act.cursor}
  BY DEF Crossed
<1> HIDE DEF c
<1> QED
  BY <1>1, <1>2 DEF PointerInvariant, PointerShape, PointerTellsTheMode, NoLocked, Cursors

\* A motion chooses the cursor anew unless a button is held, and begins a drag only
\* while the second button is held.
LEMMA MoveKeeps == PointerInvariant /\ Move => PointerInvariant'
<1> SUFFICES ASSUME PointerInvariant, Move PROVE PointerInvariant'
  OBVIOUS
<1> USE DEF PointerInvariant
<1> DEFINE dragsOut(y) == ~act.autoscroll /\ (sel.text \/ sel.image) /\ Apart(sel.start, y)
           heard(y) == hand.button # 0 \/ Inside(y)
           crossed(y) == Crossed(hand.y, y)
           over(y) == CursorOver(crossed(y), y + scroll, act.adding, drag.on, FALSE)
<1>1. PICK y \in PointerPlaces :
        /\ hand' = [hand EXCEPT !.y = y, !.clicks = 0,
                      !.dnd = IF heard(y) /\ dragsOut(y)
                              THEN IF sel.text THEN "text" ELSE "image" ELSE @]
        /\ act' = [act EXCEPT
                     !.last = IF heard(y) /\ act.autoscroll THEN y ELSE @,
                     !.cursor = IF heard(y) /\ ~act.autoscroll /\ ~dragsOut(y)
                                     /\ act.pressed \notin {1, 2}
                                THEN over(y) ELSE crossed(y)]
        /\ IF ~heard(y) \/ act.autoscroll THEN UNCHANGED <<drag, sel, scroll>>
           ELSE IF dragsOut(y)
           THEN /\ sel' = IF sel.text THEN [sel EXCEPT !.text = FALSE]
                          ELSE [sel EXCEPT !.image = FALSE]
                /\ UNCHANGED <<drag, scroll>>
           ELSE CASE act.pressed = 1 -> SelectTowards(y)
                  [] act.pressed = 2 -> DragTowards(y)
                  [] OTHER -> UNCHANGED <<drag, sel, scroll>>
  BY DEF Move
<1>2. outside' = outside
  BY DEF Move
<1>3. /\ crossed(y) \in Cursors
      /\ NoLocked => /\ crossed(y) = "add" => act.adding
                     /\ crossed(y) = "drag" => drag.on \/ act.cursor = "drag"
                     /\ crossed(y) = "autoscroll" => act.autoscroll
  BY CrossedTells
<1> HIDE DEF crossed
<1>4. over(y) \in Cursors /\ (NoLocked => /\ over(y) = "add" => act.adding
                                          /\ over(y) = "drag" => drag.on
                                          /\ over(y) # "autoscroll")
  BY <1>3, CursorOverTells DEF PointerShape
<1> HIDE DEF over, heard, dragsOut
<1>5. /\ DOMAIN hand' = DOMAIN hand /\ hand'.button = hand.button /\ hand'.hasty = hand.hasty
      /\ DOMAIN act' = DOMAIN act /\ act'.pressed = act.pressed /\ act'.adding = act.adding
      /\ act'.autoscroll = act.autoscroll /\ act'.cursor \in {over(y), crossed(y)}
  BY <1>1 DEF PointerShape
<1>6. /\ DOMAIN sel' = DOMAIN sel /\ sel'.list = sel.list
      /\ DOMAIN drag' = DOMAIN drag /\ drag'.on \in BOOLEAN
      /\ drag'.on => drag.on \/ (act.pressed = 2 /\ ~act.autoscroll)
  <2>1. CASE drag' = drag /\ sel' = sel
    BY <2>1 DEF PointerShape
  <2>2. CASE drag' = drag /\ sel' \in {[sel EXCEPT !.text = FALSE], [sel EXCEPT !.image = FALSE]}
    BY <2>2 DEF PointerShape
  <2>3. CASE ~act.autoscroll /\ act.pressed = 1 /\ SelectTowards(y)
    BY <2>3 DEF PointerShape, SelectTowards
  <2>4. CASE ~act.autoscroll /\ act.pressed = 2 /\ DragTowards(y)
    BY <2>4 DEF PointerShape, DragTowards, Apart
  <2> QED
    BY <1>1, <2>1, <2>2, <2>3, <2>4
<1>7. PointerShape'
  BY <1>2, <1>3, <1>4, <1>5, <1>6 DEF PointerShape
<1>8. DragIsHeld'
  BY <1>5, <1>6 DEF PointerShape, DragIsHeld
<1> QED
  BY <1>2, <1>3, <1>4, <1>5, <1>6, <1>7, <1>8
  DEF PointerShape, DragIsHeld, PointerTellsTheMode, NoLocked

\* The timers and idle sources: none begins a drag, and a selection that is updated is
\* told to the Copy command.
LEMMA SourcesKeep == PointerInvariant /\ PointerSources => PointerInvariant'
<1> SUFFICES ASSUME PointerInvariant, PointerSources PROVE PointerInvariant'
  OBVIOUS
<1> USE DEF PointerInvariant
<1>1. CASE SelectionUpdate
  <2>1. /\ DOMAIN sel' = DOMAIN sel /\ UNCHANGED <<hand, act, drag>>
        /\ outside' = [outside EXCEPT !.copy = Copies(sel'.list)]
    BY <1>1 DEF SelectionUpdate
  <2>2. /\ DOMAIN outside' = DOMAIN outside /\ outside'.toggle = outside.toggle
        /\ outside'.copy = (sel'.list # {}) /\ outside'.copy \in BOOLEAN
    BY <2>1, CopiesTells DEF PointerShape
  <2> QED
    BY <2>1, <2>2 DEF PointerShape, DragIsHeld, PointerTellsTheMode
<1>2. CASE SelectionScroll
  BY <1>2, PointerStays DEF SelectionScroll
<1>3. CASE DragMomentum \/ DragRelease
  <2>1. UNCHANGED <<hand, act, sel, outside>> /\ DOMAIN drag' = DOMAIN drag /\ drag'.on = drag.on
    BY <1>3 DEF DragMomentum, DragRelease, PointerShape
  <2> QED
    BY <2>1 DEF PointerShape, DragIsHeld, PointerTellsTheMode
<1>4. CASE AutoscrollTick
  <2>1. /\ UNCHANGED <<hand, drag, sel, outside>> /\ DOMAIN act' = DOMAIN act
        /\ act'.pressed = act.pressed /\ act'.adding = act.adding /\ act'.cursor = act.cursor
        /\ act'.autoscroll = act.autoscroll
    BY <1>4 DEF AutoscrollTick, PointerShape
  <2> QED
    BY <2>1 DEF PointerShape, DragIsHeld, PointerTellsTheMode
<1>5. CASE DropEnds
  <2>1. /\ Released(0, FALSE) /\ DOMAIN hand' = DOMAIN hand /\ hand'.button = 0
        /\ hand'.hasty = hand.hasty
    BY <1>5 DEF DropEnds, PointerShape
  <2> QED
    BY <2>1, ReleasedKeeps
<1> QED
  BY <1>1, <1>2, <1>3, <1>4, <1>5 DEF PointerSources

\* The commands of the menus, the sidebar and other programs.
LEMMA CommandsKeep ==
  ASSUME PointerInvariant,
         \/ AutoscrollStart \/ Escape \/ ToggleAdding \/ SelectAll \/ CopyLinkAddress
         \/ OthersSelect
  PROVE  PointerInvariant'
<1> USE DEF PointerInvariant
<1>1. CASE AutoscrollStart
  <2> DEFINE c == CursorOver(act.cursor, Place, act.adding, drag.on, TRUE)
  <2>1. c \in Cursors /\ (NoLocked => (c = "add" => act.adding) /\ (c = "drag" => drag.on))
    BY CursorOverTells DEF PointerShape
  <2>2. act' = [act EXCEPT !.autoscroll = TRUE, !.timer = TRUE, !.cursor = c]
        /\ hand' = [hand EXCEPT !.hasty = @ \/ act.pressed = 2] /\ UNCHANGED <<drag, sel, outside>>
    BY <1>1 DEF AutoscrollStart
  <2> HIDE DEF c
  <2>3. PointerShape'
    BY <2>1, <2>2 DEF PointerShape
  <2>4. DragIsHeld'
    BY <2>2 DEF PointerShape, DragIsHeld
  <2> QED
    BY <2>1, <2>2, <2>3, <2>4 DEF PointerShape, DragIsHeld, PointerTellsTheMode, NoLocked
<1>2. CASE Escape
  <2>1. act' = AutoscrollStop /\ act.autoscroll /\ UNCHANGED <<hand, drag, sel, outside>>
    BY <1>2 DEF Escape
  <2>2. act'.autoscroll \in BOOLEAN /\ DOMAIN act' = DOMAIN act
    BY <2>1, StopTells
  <2>3. PointerShape'
    BY <2>1, <2>2, StopTells DEF PointerShape
  <2> QED
    BY <2>1, <2>3, StopTells DEF PointerShape, DragIsHeld, PointerTellsTheMode, NoLocked
<1>3. CASE ToggleAdding
  <2> DEFINE c == CursorOver(act.cursor, Place, FALSE, drag.on, act.autoscroll)
  <2>1. c \in Cursors /\ (NoLocked => /\ c # "add" /\ (c = "drag" => drag.on)
                                      /\ (c = "autoscroll" => act.autoscroll))
    BY CursorOverTells DEF PointerShape
  <2>2. act' = [act EXCEPT !.adding = ~@, !.cursor = IF act.adding THEN c ELSE "add"]
        /\ outside' = [outside EXCEPT !.toggle = ~@] /\ UNCHANGED <<hand, drag, sel>>
    BY <1>3 DEF ToggleAdding, PointerTellsTheMode
  <2> HIDE DEF c
  <2>3. PointerShape' /\ DragIsHeld'
    BY <2>1, <2>2 DEF PointerShape, DragIsHeld, Cursors
  <2> QED
    BY <2>1, <2>2, <2>3 DEF PointerShape, DragIsHeld, PointerTellsTheMode, NoLocked
<1>4. CASE SelectAll \/ OthersSelect
  <2>1. PICK list :
          /\ sel' = [sel EXCEPT !.list = list, !.fresh = "no"]
          /\ DOMAIN outside' = DOMAIN outside /\ outside'.copy = Copies(list)
          /\ outside'.toggle = outside.toggle /\ UNCHANGED <<hand, act, drag>>
    BY <1>4 DEF SelectAll, OthersSelect, PointerShape
  <2>2. sel'.list = list /\ DOMAIN sel' = DOMAIN sel
    BY <2>1 DEF PointerShape
  <2> QED
    BY <2>1, <2>2, CopiesTells DEF PointerShape, DragIsHeld, PointerTellsTheMode
<1>5. CASE CopyLinkAddress
  <2>1. /\ DOMAIN outside' = DOMAIN outside /\ outside'.copy = outside.copy
        /\ outside'.toggle = outside.toggle /\ UNCHANGED <<hand, act, drag, sel>>
    BY <1>5 DEF CopyLinkAddress, PointerShape
  <2> QED
    BY <2>1 DEF PointerShape, DragIsHeld, PointerTellsTheMode
<1> QED
  BY <1>1, <1>2, <1>3, <1>4, <1>5

\* Every step keeps the invariant.
LEMMA PointerStep == PointerInvariant /\ [PointerNext]_pointerVars => PointerInvariant'
<1> SUFFICES ASSUME PointerInvariant, [PointerNext]_pointerVars PROVE PointerInvariant'
  OBVIOUS
<1> USE DEF PointerInvariant
<1>1. CASE Press1
  <2>1. PICK ctrl \in BOOLEAN : Pressed1(ctrl, "glyph")
    BY <1>1 DEF Press1
  <2>2. /\ drag' = drag /\ hand.button = 0
        /\ DOMAIN hand' = DOMAIN hand /\ hand'.button = 1 /\ hand'.hasty = hand.hasty
    BY <1>1 DEF Press1, PointerShape, Free
  <2> QED
    BY <2>1, <2>2, FirstButton
<1>2. CASE PressAgain
  <2>1. /\ drag' = drag /\ hand.button # 2
        /\ DOMAIN hand' = DOMAIN hand /\ hand'.button = 1 /\ hand'.hasty = hand.hasty
    BY <1>2 DEF PressAgain
  <2>2. PICK style : Pressed1(FALSE, style)
    BY <1>2 DEF PressAgain
  <2> HIDE DEF PointerInvariant
  <2> QED
    BY <2>1, <2>2, FirstButton
<1>3. CASE Press2
  <2>1. /\ DOMAIN act' = DOMAIN act /\ act'.pressed = 2 /\ act'.adding = act.adding
        /\ act'.autoscroll = act.autoscroll
        /\ act'.cursor = act.cursor \/ (act'.cursor = "drag" /\ ~act.autoscroll)
        /\ DOMAIN drag' = DOMAIN drag /\ drag'.on = drag.on
        /\ DOMAIN sel' = DOMAIN sel /\ sel'.list = sel.list
        /\ DOMAIN hand' = DOMAIN hand /\ hand'.button = 2 /\ hand'.hasty = hand.hasty
        /\ hand.button = 0 /\ outside' = outside
    BY <1>3 DEF Press2, PointerShape, Free
  <2>2. PointerShape' /\ DragIsHeld'
    BY <2>1 DEF PointerShape, DragIsHeld, Cursors
  <2> QED
    BY <2>1, <2>2 DEF PointerShape, DragIsHeld, PointerTellsTheMode
<1>4. CASE Press3
  <2>1. /\ DOMAIN act' = DOMAIN act /\ act'.pressed = 3 /\ act'.adding = act.adding
        /\ act'.autoscroll = act.autoscroll /\ act'.cursor = act.cursor
        /\ DOMAIN sel' = DOMAIN sel /\ sel'.list = sel.list
        /\ DOMAIN hand' = DOMAIN hand /\ hand'.button = hand.button
        /\ hand'.hasty = hand.hasty /\ hand.button = 0 /\ UNCHANGED <<drag, outside>>
    BY <1>4 DEF Press3, PointerShape, Free
  <2>2. PointerShape' /\ DragIsHeld'
    BY <2>1 DEF PointerShape, DragIsHeld
  <2> QED
    BY <2>1, <2>2 DEF PointerShape, DragIsHeld, PointerTellsTheMode
<1>5. CASE Release
  <2>1. PICK ctrl \in BOOLEAN : Released(hand.y, ctrl)
    BY <1>5 DEF Release
  <2>2. DOMAIN hand' = DOMAIN hand /\ hand'.button = 0 /\ hand'.hasty = hand.hasty
    BY <1>5 DEF Release, PointerShape
  <2> QED
    BY <2>1, <2>2, ReleasedKeeps
<1>6. CASE UNCHANGED pointerVars
  BY <1>6, PointerStays DEF pointerVars
<1> HIDE DEF PointerInvariant
<1>7. CASE Move
  BY <1>7, MoveKeeps
<1>8. CASE PointerSources
  BY <1>8, SourcesKeep
<1>9. CASE \/ AutoscrollStart \/ Escape \/ ToggleAdding \/ SelectAll \/ CopyLinkAddress
           \/ OthersSelect
  BY <1>9, CommandsKeep
<1> QED
  BY <1>1, <1>2, <1>3, <1>4, <1>5, <1>6, <1>7, <1>8, <1>9 DEF PointerNext, PointerUser

-----------------------------------------------------------------------------
(* What is proved.                                                         *)

\* Whatever the user does with the buttons, the keys and the sidebar, and whenever the
\* timers and idle sources come, the cursor, the Copy command and the toggle of the
\* sidebar tell what the view is doing, and a drag ends with its button.
THEOREM PointerTells == PointerSpec => []PointerTellsTheMode
<1>1. PointerInvariant => PointerTellsTheMode
  BY DEF PointerInvariant
<1> QED
  BY <1>1, PointerStarts, PointerStep, PTL DEF PointerSpec

-----------------------------------------------------------------------------
(* The strip of rows.                                                      *)

\* A set of naturals that is not empty has a least one.
LEMMA LeastOf ==
  ASSUME NEW T \in SUBSET Nat, T # {}
  PROVE  \E x \in T : \A y \in T : x <= y
<1> DEFINE R == OpToRel(<, Nat)
<1>1. \E x \in T : \A y \in T : ~(<<y, x>> \in R)
  BY WFMin, NatLessThanWellFounded
<1>2. R = {ss \in Nat \X Nat : ss[1] < ss[2]}
  BY Zenon DEF OpToRel
<1> HIDE DEF R
<1>3. ASSUME NEW x \in Nat, NEW y \in Nat, y < x PROVE <<y, x>> \in R
  <2>1. <<y, x>> \in Nat \X Nat /\ <<y, x>>[1] < <<y, x>>[2]
    BY <1>3
  <2> QED
    BY <1>2, <2>1, Zenon
<1>4. PICK x \in T : \A y \in T : ~(<<y, x>> \in R)
  BY <1>1
<1>5. ASSUME NEW y \in T PROVE x <= y
  <2>1. x \in Nat /\ y \in Nat
    OBVIOUS
  <2>2. ~(y < x)
    BY <1>3, <1>4, <2>1, Zenon
  <2> QED
    BY <2>1, <2>2
<1> QED
  BY <1>5

\* The recursion that says where the pages begin has a solution on every first part of
\* the document.
LEMMA StartsExist ==
  ASSUME NEW m \in Nat
  PROVE  \E f : f = [p \in 1 .. m |-> IF p = 1 THEN 1 ELSE f[p - 1] + Len(PointerPages[p - 1]) + 1]
<1> DEFINE Starts(f, k) ==
             f = [p \in 1 .. k |-> IF p = 1 THEN 1 ELSE f[p - 1] + Len(PointerPages[p - 1]) + 1]
           T == {k \in Nat : ~\E f : Starts(f, k)}
<1>1. SUFFICES ASSUME T # {} PROVE FALSE
  BY Zenon
<1>2. PICK k \in T : \A j \in T : k <= j
  <2>1. T \subseteq Nat
    OBVIOUS
  <2> HIDE DEF T
  <2> QED
    BY <1>1, <2>1, LeastOf
<1>3. k \in Nat /\ ~\E f : Starts(f, k)
  BY Zenon
<1>4. k # 0
  <2>1. Starts([p \in 1 .. 0 |-> 1], 0)
    OBVIOUS
  <2> QED
    BY <1>3, <2>1
<1>5. k - 1 \in Nat /\ k - 1 \notin T
  <2> HIDE DEF T
  <2> QED
    BY <1>2, <1>3, <1>4
<1>6. PICK f : Starts(f, k - 1)
  BY <1>5, Zenon
<1> DEFINE g == [p \in 1 .. k |-> IF p = 1 THEN 1 ELSE f[p - 1] + Len(PointerPages[p - 1]) + 1]
<1>7. \A p \in 1 .. k : p # 1 => p - 1 \in 1 .. k - 1
  BY <1>3
<1>8. \A p \in 1 .. k - 1 : p \in 1 .. k /\ f[p] = g[p]
  <2>1. \A p \in 1 .. k - 1 : p \in 1 .. k
    BY <1>3
  <2> QED
    BY <1>6, <2>1, Zenon
<1>9. Starts(g, k)
  <2>1. \A p \in 1 .. k : g[p] = IF p = 1 THEN 1 ELSE g[p - 1] + Len(PointerPages[p - 1]) + 1
    <3>1. \A p \in 1 .. k : g[p] = IF p = 1 THEN 1 ELSE f[p - 1] + Len(PointerPages[p - 1]) + 1
      BY Zenon
    <3> HIDE DEF g
    <3> QED
      BY <1>7, <1>8, <3>1
  <2>2. g = [p \in 1 .. k |-> g[p]]
    BY Zenon
  <2> HIDE DEF g
  <2> QED
    BY <2>1, <2>2
<1> QED
  BY <1>3, <1>9, Zenon

\* The first page begins with the first row, and every other one after the page before
\* it and a gap.
LEMMA PagesFollow ==
  /\ FirstRow = [p \in 1 .. Len(PointerPages) + 1 |-> FirstRow[p]]
  /\ FirstRow[1] = 1
  /\ \A p \in StripPages : FirstRow[p + 1] = FirstRow[p] + Len(PointerPages[p]) + 1
<1> DEFINE n == Len(PointerPages)
<1>0. n \in Nat /\ n + 1 \in Nat
  BY PointerAssumption
<1>1. PageStart = [p \in 1 .. n + 1 |->
                     IF p = 1 THEN 1 ELSE PageStart[p - 1] + Len(PointerPages[p - 1]) + 1]
  BY <1>0, StartsExist, Zenon DEF PageStart
<1>2. \A p \in 1 .. n + 1 : FirstRow[p] = PageStart[p]
  BY Zenon DEF FirstRow
<1>3. \A p \in 1 .. n + 1 :
        PageStart[p] = IF p = 1 THEN 1 ELSE PageStart[p - 1] + Len(PointerPages[p - 1]) + 1
  BY <1>1, Zenon
<1>4. FirstRow = [p \in 1 .. n + 1 |-> FirstRow[p]]
  BY Zenon DEF FirstRow
<1> HIDE DEF n
<1>5. 1 \in 1 .. n + 1
  BY <1>0
<1>6. FirstRow[1] = 1
  BY <1>2, <1>3, <1>5
<1>7. ASSUME NEW p \in 1 .. n
      PROVE  FirstRow[p + 1] = FirstRow[p] + Len(PointerPages[p]) + 1
  <2>1. p \in 1 .. n + 1 /\ p + 1 \in 1 .. n + 1 /\ p + 1 # 1 /\ (p + 1) - 1 = p
    BY <1>0
  <2> QED
    BY <1>2, <1>3, <2>1
<1> QED
  BY <1>4, <1>6, <1>7 DEF n, StripPages

\* Pages begin at a row of the strip, later ones later.
LEMMA PagesAreOrdered ==
  /\ \A p \in 1 .. Len(PointerPages) + 1 : FirstRow[p] \in Nat \ {0}
  /\ \A p \in StripPages, q \in 1 .. Len(PointerPages) + 1 : p < q => FirstRow[p + 1] <= FirstRow[q]
<1> DEFINE n == Len(PointerPages)
<1>0. n \in Nat /\ \A p \in 1 .. n : Len(PointerPages[p]) \in Nat
  BY PointerAssumption
<1>1. FirstRow[1] = 1 /\ \A p \in 1 .. n : FirstRow[p + 1] = FirstRow[p] + Len(PointerPages[p]) + 1
  BY PagesFollow DEF StripPages
<1> HIDE DEF n
<1>2. \A p \in 1 .. n + 1 : FirstRow[p] \in Nat \ {0}
  <2> DEFINE T == {p \in 1 .. n + 1 : FirstRow[p] \notin Nat \ {0}}
  <2>1. SUFFICES ASSUME T # {} PROVE FALSE
    OBVIOUS
  <2>2. T \in SUBSET Nat
    BY <1>0
  <2>3. PICK p \in T : \A q \in T : p <= q
    <3> HIDE DEF T
    <3> QED
      BY <2>1, <2>2, LeastOf
  <2>4. p \in 1 .. n + 1 /\ FirstRow[p] \notin Nat \ {0}
    OBVIOUS
  <2>5. p # 1
    BY <1>1, <2>4
  <2>6. p - 1 \in 1 .. n /\ p - 1 \in 1 .. n + 1 /\ (p - 1) + 1 = p
    BY <1>0, <2>4, <2>5
  <2>7. FirstRow[p - 1] \in Nat \ {0}
    <3>1. p - 1 \notin T
      <4> HIDE DEF T
      <4> QED
        BY <2>2, <2>3
    <3> QED
      BY <2>6, <3>1
  <2>8. FirstRow[p] = FirstRow[p - 1] + Len(PointerPages[p - 1]) + 1
    BY <1>1, <2>6
  <2> QED
    BY <1>0, <2>4, <2>6, <2>7, <2>8
<1>3. ASSUME NEW p \in 1 .. n PROVE \A q \in 1 .. n + 1 : p < q => FirstRow[p + 1] <= FirstRow[q]
  <2> DEFINE T == {q \in 1 .. n + 1 : p < q /\ ~(FirstRow[p + 1] <= FirstRow[q])}
  <2>1. SUFFICES ASSUME T # {} PROVE FALSE
    OBVIOUS
  <2>2. T \in SUBSET Nat
    BY <1>0
  <2>3. PICK q \in T : \A r \in T : q <= r
    <3> HIDE DEF T
    <3> QED
      BY <2>1, <2>2, LeastOf
  <2>4. q \in 1 .. n + 1 /\ p < q /\ ~(FirstRow[p + 1] <= FirstRow[q])
    OBVIOUS
  <2>5. p \in Nat /\ q \in Nat /\ p + 1 \in 1 .. n + 1
    BY <1>0
  <2>6. q # p + 1
    BY <1>2, <2>4, <2>5
  <2>7. q - 1 \in 1 .. n /\ q - 1 \in 1 .. n + 1 /\ (q - 1) + 1 = q /\ p < q - 1
    BY <1>0, <2>4, <2>5, <2>6
  <2>8. FirstRow[p + 1] <= FirstRow[q - 1]
    <3>1. q - 1 \notin T
      <4> HIDE DEF T
      <4> QED
        BY <2>2, <2>3, <2>5
    <3> QED
      BY <2>7, <3>1
  <2>9. FirstRow[q] = FirstRow[q - 1] + Len(PointerPages[q - 1]) + 1
    BY <1>1, <2>7
  <2>10. FirstRow[p + 1] \in Nat /\ FirstRow[q - 1] \in Nat /\ FirstRow[q] \in Nat
         /\ Len(PointerPages[q - 1]) \in Nat
    BY <1>0, <1>2, <2>4, <2>5, <2>7
  <2> QED
    BY <2>4, <2>8, <2>9, <2>10
<1> QED
  BY <1>2, <1>3 DEF n, StripPages

\* The rows of a page lie in the strip, those of a later page after them.
LEMMA RowsOfPages ==
  ASSUME NEW p \in StripPages
  PROVE  /\ FirstRow[p] \in Nat \ {0} /\ Len(PointerPages[p]) \in Nat
         /\ PageRows(p) = FirstRow[p] .. FirstRow[p] + Len(PointerPages[p]) - 1
         /\ PageRows(p) \subseteq 1 .. StripEnd
         /\ \A q \in StripPages : p < q =>
              \A r \in PageRows(p), s \in PageRows(q) : r < s
<1> DEFINE n == Len(PointerPages)
<1>0. n \in Nat /\ Len(PointerPages[p]) \in Nat
  BY PointerAssumption DEF StripPages
<1>1. /\ FirstRow[p + 1] = FirstRow[p] + Len(PointerPages[p]) + 1
      /\ \A q \in 1 .. n + 1 : p < q => FirstRow[p + 1] <= FirstRow[q]
  BY PagesFollow, PagesAreOrdered
<1>2. \A q \in 1 .. n + 1 : FirstRow[q] \in Nat \ {0}
  BY PagesAreOrdered
<1>3. p \in 1 .. n
  BY DEF StripPages
<1>4. StripEnd = FirstRow[n + 1] - 1
  BY DEF StripEnd
<1> HIDE DEF n
<1>5. p \in 1 .. n + 1 /\ n + 1 \in 1 .. n + 1 /\ p < n + 1
  BY <1>0, <1>3
<1>6. PageRows(p) = FirstRow[p] .. FirstRow[p] + Len(PointerPages[p]) - 1
  BY <1>0, <1>1, <1>2, <1>5 DEF PageRows
<1>7. FirstRow[p + 1] <= FirstRow[n + 1]
  BY <1>1, <1>5
<1>8. PageRows(p) \subseteq 1 .. StripEnd
  <2>1. /\ FirstRow[p] \in Nat \ {0} /\ FirstRow[n + 1] \in Nat
        /\ FirstRow[p] + Len(PointerPages[p]) + 1 <= FirstRow[n + 1]
    BY <1>1, <1>2, <1>5, <1>7
  <2> QED
    BY <1>0, <1>4, <1>6, <2>1
<1>9. ASSUME NEW q \in StripPages, p < q, NEW r \in PageRows(p), NEW s \in PageRows(q)
      PROVE  r < s
  <2>1. q \in 1 .. n + 1
    BY <1>0 DEF StripPages, n
  <2>2. FirstRow[p + 1] <= FirstRow[q]
    BY <1>1, <1>9, <2>1
  <2>3. s \in Int /\ FirstRow[q] <= s
    BY <1>2, <2>1 DEF PageRows
  <2> QED
    BY <1>0, <1>1, <1>2, <1>5, <1>6, <2>1, <2>2, <2>3
<1> QED
  BY <1>0, <1>2, <1>5, <1>6, <1>8, <1>9

\* No row is of two pages, and the rows of the pages are those that are not gaps.
LEMMA PageOfRow ==
  /\ \A p, q \in StripPages : \A r : r \in PageRows(p) /\ r \in PageRows(q) => p = q
  /\ \A r : Kind(r) # "gap" <=> \E p \in StripPages : r \in PageRows(p)
<1>1. ASSUME NEW p \in StripPages, NEW q \in StripPages, NEW r,
             r \in PageRows(p), r \in PageRows(q)
      PROVE  p = q
  <2>1. p \in Int /\ q \in Int
    BY DEF StripPages
  <2>2. (~(p < q) /\ ~(q < p)) \/ r < r
    BY <1>1, RowsOfPages
  <2>3. r \in Int
    BY <1>1, RowsOfPages
  <2> QED
    BY <2>1, <2>2, <2>3
<1>2. ASSUME NEW r, Kind(r) # "gap" PROVE \E p \in StripPages : r \in PageRows(p)
  BY <1>2 DEF Kind, Strip
<1>3. ASSUME NEW r, NEW p \in StripPages, r \in PageRows(p) PROVE Kind(r) # "gap"
  <2>1. r \in 1 .. StripEnd
    BY <1>3, RowsOfPages
  <2>2. p = CHOOSE q \in StripPages : r \in PageRows(q)
    BY <1>1, <1>3
  <2>3. Kind(r) = PointerPages[p][r - FirstRow[p] + 1]
    BY <1>3, <2>1, <2>2, Zenon DEF Kind, Strip
  <2>4. r - FirstRow[p] + 1 \in 1 .. Len(PointerPages[p])
    BY <1>3, RowsOfPages
  <2>5. PointerPages[p] \in Seq(RowKind)
    BY PointerAssumption DEF StripPages
  <2>6. PointerPages[p][r - FirstRow[p] + 1] \in RowKind
    BY <2>4, <2>5
  <2> QED
    BY <2>3, <2>6 DEF RowKind
<1> QED
  BY <1>1, <1>2, <1>3

-----------------------------------------------------------------------------
(* The stroke.                                                             *)

Between(start, stop, row) ==
  \/ start <= row /\ row <= stop
  \/ stop <= row /\ row <= start

\* The pages of a selection between two places are those from the page of the one to
\* the page of the other.
LEMMA PagesOfSelection ==
  ASSUME NEW a \in StripPages, NEW b \in StripPages,
         NEW start \in PageRows(a), NEW stop \in PageRows(b), NEW no, ~no, NEW at
  PROVE  SelectionPages(start, stop, no, at)
           = {p \in StripPages : (a <= p \/ b <= p) /\ (p <= a \/ p <= b)}
<1> DEFINE held == {p \in StripPages : {start, stop} \intersect PageRows(p) # {}}
<1>1. \A p \in StripPages : p \in held <=> p = a \/ p = b
  BY PageOfRow
<1>2. SelectionPages(start, stop, no, at)
        = {p \in StripPages : (\E q \in held : q <= p) /\ (\E q \in held : p <= q)}
  BY Zenon DEF SelectionPages
<1>3. held = {a, b}
  BY <1>1
<1> HIDE DEF held
<1> QED
  BY <1>2, <1>3

\* The stretch of a page in a selection between two places covers its rows that lie
\* between them.
LEMMA StretchCovers ==
  ASSUME NEW a \in StripPages, NEW b \in StripPages,
         NEW start \in PageRows(a), NEW stop \in PageRows(b), NEW no, ~no, NEW at, NEW style,
         NEW p \in SelectionPages(start, stop, no, at)
  PROVE  Covers(Stretch(start, stop, p, SelectionPages(start, stop, no, at), style))
           = {row \in PageRows(p) : Between(start, stop, row)}
<1>0. SelectionPages(start, stop, no, at)
        = {q \in StripPages : (a <= q \/ b <= q) /\ (q <= a \/ q <= b)}
  BY PagesOfSelection
<1> DEFINE pages == SelectionPages(start, stop, no, at)
           first == \A q \in pages : p <= q
           last  == \A q \in pages : q <= p
           point == IF start \in PageRows(p) THEN start ELSE stop
           len   == Len(PointerPages[p])
           from  == IF first THEN InPage(point, p) ELSE 1
           to    == IF last THEN InPage(IF first THEN stop ELSE point, p) ELSE len
           empty == first /\ last /\ point = stop /\ start # stop
           s     == Stretch(start, stop, p, pages, style)
<1>1. pages = {q \in StripPages : (a <= q \/ b <= q) /\ (q <= a \/ q <= b)}
  BY <1>0
<1> HIDE DEF pages
<1>2. /\ p \in StripPages /\ a \in pages /\ b \in pages
      /\ (a <= p \/ b <= p) /\ (p <= a \/ p <= b)
      /\ \A q \in StripPages : q \in Int
      /\ \A q \in pages : (a <= q \/ b <= q) /\ (q <= a \/ q <= b) /\ q \in StripPages
  <2>1. p \in pages
    BY DEF pages
  <2> QED
    BY <1>1, <2>1 DEF StripPages
<1>3. s.page = p /\ s.from = from /\ s.to = to /\ s.empty = empty
  BY Zenon DEF Stretch, pages
<1> HIDE DEF s
<1>4. /\ FirstRow[p] \in Nat \ {0} /\ len \in Nat
      /\ PageRows(p) = FirstRow[p] .. FirstRow[p] + len - 1
  BY <1>2, RowsOfPages
<1>5. /\ first <=> p <= a /\ p <= b
      /\ last <=> a <= p /\ b <= p
  BY <1>2
<1>6. start \in Int /\ stop \in Int
  BY RowsOfPages
<1>7. /\ a = p <=> start \in PageRows(p)
      /\ b = p <=> stop \in PageRows(p)
  BY <1>2, PageOfRow
<1>8. \A row \in PageRows(p) : /\ a < p => start < row
                               /\ p < a => row < start
                               /\ b < p => stop < row
                               /\ p < b => row < stop
  BY <1>2, RowsOfPages
<1>9. /\ start \in PageRows(p) => InPage(start, p) = start - FirstRow[p] + 1
      /\ stop \in PageRows(p) => InPage(stop, p) = stop - FirstRow[p] + 1
  BY <1>4 DEF InPage
<1>10. ~empty
  BY <1>2, <1>5, <1>7
<1>11. Covers(s) = {row \in PageRows(p) :
                      \/ from <= row - FirstRow[p] + 1 /\ row - FirstRow[p] + 1 <= to
                      \/ to <= row - FirstRow[p] + 1 /\ row - FirstRow[p] + 1 <= from}
  <2> HIDE DEF from, to, empty
  <2> QED
    BY <1>3, <1>10, Zenon DEF Covers
<1>12. ASSUME NEW row \in PageRows(p)
       PROVE  Between(start, stop, row)
                <=> \/ from <= row - FirstRow[p] + 1 /\ row - FirstRow[p] + 1 <= to
                    \/ to <= row - FirstRow[p] + 1 /\ row - FirstRow[p] + 1 <= from
  <2> HIDE DEF first, last
  <2>0. row \in Int /\ FirstRow[p] <= row /\ row <= FirstRow[p] + len - 1 /\ FirstRow[p] \in Int
        /\ a \in Int /\ b \in Int /\ p \in Int
    BY <1>2, <1>4
  <2>1. CASE a = p /\ b = p
    <3>1. first /\ last /\ point = start
      BY <1>2, <1>5, <1>7, <2>1
    <3>2. from = start - FirstRow[p] + 1 /\ to = stop - FirstRow[p] + 1
      BY <1>7, <1>9, <2>1, <3>1
    <3> HIDE DEF from, to, point, len
    <3> QED
      BY <1>6, <2>0, <3>2 DEF Between
  <2>2. CASE a = p /\ p < b
    <3>1. first /\ ~last /\ point = start
      BY <1>2, <1>5, <1>7, <2>0, <2>2
    <3>2. from = start - FirstRow[p] + 1 /\ to = len /\ row < stop
      BY <1>7, <1>8, <1>9, <2>2, <3>1
    <3>3. start <= FirstRow[p] + len - 1
      BY <1>4, <1>7, <2>2
    <3> HIDE DEF from, to, point, len
    <3>4. Between(start, stop, row) <=> start <= row
      BY <1>6, <2>0, <3>2 DEF Between
    <3> DEFINE f == FirstRow[p]
    <3>5. f \in Int /\ len \in Int
      BY <1>4, <2>0
    <3>6. /\ row <= f + len - 1 /\ start <= f + len - 1
          /\ from = start - f + 1 /\ to = len
      BY <2>0, <3>2, <3>3
    <3> HIDE DEF f
    <3>7. start <= row <=> ( \/ (from <= row - f + 1 /\ row - f + 1 <= to)
                          \/ (to <= row - f + 1 /\ row - f + 1 <= from) )
      BY <1>6, <2>0, <3>5, <3>6
    <3> QED
      BY <3>4, <3>7 DEF f
  <2>3. CASE a = p /\ b < p
    <3>1. ~first /\ last /\ point = start
      BY <1>2, <1>5, <1>7, <2>0, <2>3
    <3>2. from = 1 /\ to = start - FirstRow[p] + 1 /\ stop < row
      BY <1>7, <1>8, <1>9, <2>3, <3>1
    <3>3. FirstRow[p] <= start
      BY <1>4, <1>7, <2>3
    <3> HIDE DEF from, to, point, len
    <3>4. Between(start, stop, row) <=> row <= start
      BY <1>6, <2>0, <3>2 DEF Between
    <3> DEFINE f == FirstRow[p]
    <3>5. f \in Int /\ len \in Int
      BY <1>4, <2>0
    <3>6. /\ f <= row /\ f <= start /\ from = 1 /\ to = start - f + 1
      BY <2>0, <3>2, <3>3
    <3> HIDE DEF f
    <3>7. row <= start <=> ( \/ (from <= row - f + 1 /\ row - f + 1 <= to)
                          \/ (to <= row - f + 1 /\ row - f + 1 <= from) )
      BY <1>6, <2>0, <3>5, <3>6
    <3> QED
      BY <3>4, <3>7 DEF f
  <2>4. CASE a < p /\ b = p
    <3>1. ~first /\ last /\ point = stop
      BY <1>2, <1>5, <1>7, <2>0, <2>4
    <3>2. from = 1 /\ to = stop - FirstRow[p] + 1 /\ start < row
      BY <1>7, <1>8, <1>9, <2>4, <3>1
    <3>3. FirstRow[p] <= stop
      BY <1>4, <1>7, <2>4
    <3> HIDE DEF from, to, point, len
    <3>4. Between(start, stop, row) <=> row <= stop
      BY <1>6, <2>0, <3>2 DEF Between
    <3> DEFINE f == FirstRow[p]
    <3>5. f \in Int /\ len \in Int
      BY <1>4, <2>0
    <3>6. /\ f <= row /\ f <= stop /\ from = 1 /\ to = stop - f + 1
      BY <2>0, <3>2, <3>3
    <3> HIDE DEF f
    <3>7. row <= stop <=> ( \/ (from <= row - f + 1 /\ row - f + 1 <= to)
                          \/ (to <= row - f + 1 /\ row - f + 1 <= from) )
      BY <1>6, <2>0, <3>5, <3>6
    <3> QED
      BY <3>4, <3>7 DEF f
  <2>5. CASE p < a /\ b = p
    <3>1. first /\ ~last /\ point = stop
      BY <1>2, <1>5, <1>7, <2>0, <2>5
    <3>2. from = stop - FirstRow[p] + 1 /\ to = len /\ row < start
      BY <1>7, <1>8, <1>9, <2>5, <3>1
    <3>3. stop <= FirstRow[p] + len - 1
      BY <1>4, <1>7, <2>5
    <3> HIDE DEF from, to, point, len
    <3>4. Between(start, stop, row) <=> stop <= row
      BY <1>6, <2>0, <3>2 DEF Between
    <3> DEFINE f == FirstRow[p]
    <3>5. f \in Int /\ len \in Int
      BY <1>4, <2>0
    <3>6. /\ row <= f + len - 1 /\ stop <= f + len - 1
          /\ from = stop - f + 1 /\ to = len
      BY <2>0, <3>2, <3>3
    <3> HIDE DEF f
    <3>7. stop <= row <=> ( \/ (from <= row - f + 1 /\ row - f + 1 <= to)
                          \/ (to <= row - f + 1 /\ row - f + 1 <= from) )
      BY <1>6, <2>0, <3>5, <3>6
    <3> QED
      BY <3>4, <3>7 DEF f
  <2>6. CASE a # p /\ b # p
    <3>1. (a < p /\ p < b) \/ (b < p /\ p < a)
      BY <1>2, <2>0, <2>6
    <3>2. from = 1 /\ to = len
      BY <1>5, <2>0, <3>1
    <3> HIDE DEF from, to, point
    <3> QED
      BY <1>4, <1>6, <1>8, <2>0, <3>1, <3>2 DEF Between
  <2> QED
    BY <2>0, <2>1, <2>2, <2>3, <2>4, <2>5, <2>6
<1> HIDE DEF from, to
<1> QED
  BY <1>11, <1>12 DEF pages, s

\* What a selection between two places of pages covers is what lies between them.
LEMMA SelectionCovers ==
  ASSUME NEW start, NEW stop, NEW no, ~no, Kind(start) # "gap", Kind(stop) # "gap", NEW style, NEW at
  PROVE  UNION {Covers(s) : s \in NewSelection(start, stop, no, style, at)}
           = {row \in 1 .. StripEnd : Kind(row) # "gap" /\ Between(start, stop, row)}
<1>1. PICK a \in StripPages, b \in StripPages : start \in PageRows(a) /\ stop \in PageRows(b)
  BY PageOfRow
<1> DEFINE pages == SelectionPages(start, stop, no, at)
<1>2. NewSelection(start, stop, no, style, at) = {Stretch(start, stop, p, pages, style) : p \in pages}
  BY Zenon DEF NewSelection
<1>3. UNION {Covers(s) : s \in NewSelection(start, stop, no, style, at)}
        = UNION {Covers(Stretch(start, stop, p, pages, style)) : p \in pages}
  <2> HIDE DEF pages
  <2> QED
    BY <1>2, Zenon
<1>4. \A p \in pages : Covers(Stretch(start, stop, p, pages, style))
                         = {row \in PageRows(p) : Between(start, stop, row)}
  BY <1>1, StretchCovers
<1>5. pages = {p \in StripPages : (a <= p \/ b <= p) /\ (p <= a \/ p <= b)}
  BY <1>1, PagesOfSelection
<1> HIDE DEF pages
<1>6. ASSUME NEW p \in pages, NEW row \in PageRows(p), Between(start, stop, row)
      PROVE  row \in 1 .. StripEnd /\ Kind(row) # "gap"
  <2>1. p \in StripPages
    BY <1>5
  <2> QED
    BY <2>1, RowsOfPages, PageOfRow
<1>7. ASSUME NEW row \in 1 .. StripEnd, Kind(row) # "gap", Between(start, stop, row)
      PROVE  \E p \in pages : row \in PageRows(p)
  <2>1. PICK p \in StripPages : row \in PageRows(p)
    BY <1>7, PageOfRow
  <2>2. start \in Int /\ stop \in Int /\ row \in Int
    BY <1>1, <2>1, RowsOfPages
  <2>3. /\ p < a => row < start
        /\ p < b => row < stop
        /\ a < p => start < row
        /\ b < p => stop < row
    BY <1>1, <2>1, RowsOfPages
  <2>4. p \in Int /\ a \in Int /\ b \in Int
    BY DEF StripPages
  <2>5. (a <= p \/ b <= p) /\ (p <= a \/ p <= b)
    BY <1>7, <2>2, <2>3, <2>4 DEF Between
  <2> QED
    BY <1>5, <2>1, <2>5
<1> QED
  BY <1>3, <1>4, <1>6, <1>7

\* A selection by glyphs does not look at what the view shows.
LEMMA SelectionFromAnywhere ==
  ASSUME NEW start, NEW stop, NEW no, ~no, NEW style, NEW at, NEW elsewhere
  PROVE  NewSelection(start, stop, no, style, at) = NewSelection(start, stop, no, style, elsewhere)
<1>1. SelectionPages(start, stop, no, at) = SelectionPages(start, stop, no, elsewhere)
  BY Zenon DEF SelectionPages
<1> QED
  BY <1>1, Zenon DEF NewSelection

\* Once the pointer was moved, what is selected is what the last update computed, from
\* the place of the press to that of the last motion, unless an update is still to come.
StrokeKept ==
  sel.fresh = "moved" /\ ~sel.update =>
    \E no \in BOOLEAN : ~no /\ sel.list = NewSelection(sel.start, sel.motion, no, sel.style, 0)

\* The place, the style and the rows of a selection that is left alone.
SelectionSame ==
  /\ sel'.fresh = sel.fresh /\ sel'.update = sel.update /\ sel'.list = sel.list
  /\ sel'.start = sel.start /\ sel'.motion = sel.motion /\ sel'.style = sel.style

LEMMA StrokeStays ==
  ASSUME StrokeKept, SelectionSame \/ sel'.fresh # "moved" \/ sel'.update
  PROVE  StrokeKept'
<1>1. CASE SelectionSame
  <2>1. CASE ~(sel.fresh = "moved" /\ ~sel.update)
    BY <1>1, <2>1 DEF StrokeKept, SelectionSame
  <2>2. CASE sel.fresh = "moved" /\ ~sel.update
    <3>1. PICK no \in BOOLEAN :
            ~no /\ sel.list = NewSelection(sel.start, sel.motion, no, sel.style, 0)
      BY <2>2 DEF StrokeKept
    <3>2. NewSelection(sel.start, sel.motion, no, sel.style, 0)
            = NewSelection(sel'.start, sel'.motion, no, sel'.style, 0)
      BY <1>1 DEF SelectionSame
    <3>3. sel'.list = NewSelection(sel'.start, sel'.motion, no, sel'.style, 0)
      BY <1>1, <3>1, <3>2 DEF SelectionSame
    <3>4. NewSelection(sel.start, sel.motion, no, sel.style, 0)'
            = NewSelection(sel'.start, sel'.motion, no, sel'.style, 0)
      BY DEF NewSelection, SelectionPages, Stretch
    <3> QED
      BY <3>1, <3>3, <3>4 DEF StrokeKept
  <2> QED
    BY <2>1, <2>2
<1>2. CASE sel'.fresh # "moved" \/ sel'.update
  BY <1>2 DEF StrokeKept
<1> QED
  BY <1>1, <1>2

\* Presses, releases, commands and timers leave the selection alone or end the stroke;
\* a motion asks for an update, and the update brings the list in line.
LEMMA StrokeStep == PointerShape /\ StrokeKept /\ [PointerNext]_pointerVars => StrokeKept'
<1> SUFFICES ASSUME PointerShape, StrokeKept, [PointerNext]_pointerVars PROVE StrokeKept'
  OBVIOUS
<1>0. {"list", "start", "style", "text", "image", "motion", "timer", "update", "fresh"} \subseteq DOMAIN sel
  BY DEF PointerShape
<1>1. ASSUME NEW ctrl, NEW style, Pressed1(ctrl, style)
      PROVE  StrokeKept'
  <2>1. sel'.fresh \in {"no", "pressed"}
    BY <1>0, <1>1 DEF Pressed1, PressOn, Started
  <2> QED
    BY <2>1, StrokeStays
<1>2. ASSUME NEW y, NEW ctrl, Released(y, ctrl)
      PROVE  StrokeKept'
  <2>1. sel'.fresh = "no"
    BY <1>0, <1>2 DEF Released, ReleaseSelection
  <2> QED
    BY <2>1, StrokeStays
<1>3. CASE Press1 \/ PressAgain
  BY <1>1, <1>3 DEF Press1, PressAgain
<1>4. CASE Release \/ DropEnds
  BY <1>2, <1>4 DEF Release, DropEnds
<1>5. CASE Press2 \/ Press3
  <2>1. SelectionSame
    BY <1>0, <1>5 DEF Press2, Press3, SelectionSame
  <2> QED
    BY <2>1, StrokeStays
<1>6. CASE SelectAll \/ OthersSelect
  <2>1. sel'.fresh = "no"
    BY <1>0, <1>6 DEF SelectAll, OthersSelect
  <2> QED
    BY <2>1, StrokeStays
<1>7. CASE Move
  <2>1. PICK y :
          \/ sel' = sel
          \/ sel' = [sel EXCEPT !.text = FALSE]
          \/ sel' = [sel EXCEPT !.image = FALSE]
          \/ SelectTowards(y) \/ DragTowards(y)
    BY <1>7 DEF Move
  <2>2. SelectionSame \/ sel'.update
    BY <1>0, <2>1 DEF SelectionSame, SelectTowards, DragTowards
  <2> QED
    BY <2>2, StrokeStays
<1>8. CASE SelectionUpdate
  <2> DEFINE list == NewSelection(sel.start, sel.motion, FALSE, sel.style, scroll)
  <2>1. sel' = [sel EXCEPT !.update = FALSE, !.list = list]
    BY <1>8 DEF SelectionUpdate
  <2>2. PICK no \in BOOLEAN : no = FALSE
    OBVIOUS
  <2>3. list = NewSelection(sel.start, sel.motion, no, sel.style, scroll)
    BY <2>2
  <2> HIDE DEF list
  <2>4. list = NewSelection(sel.start, sel.motion, no, sel.style, 0)
    BY <2>2, <2>3, SelectionFromAnywhere
  <2>5. sel'.list = list /\ sel'.start = sel.start /\ sel'.motion = sel.motion
        /\ sel'.style = sel.style
    BY <1>0, <2>1
  <2>6. NewSelection(sel.start, sel.motion, no, sel.style, 0)'
          = NewSelection(sel.start, sel.motion, no, sel.style, 0)
    <3>1. NewSelection(sel.start, sel.motion, no, sel.style, 0)'
            = NewSelection(sel'.start, sel'.motion, no, sel'.style, 0)
      BY DEF NewSelection, SelectionPages, Stretch
    <3> QED
      BY <2>5, <3>1
  <2> QED
    BY <2>2, <2>4, <2>5, <2>6 DEF StrokeKept
<1>9. CASE \/ SelectionScroll \/ DragMomentum \/ DragRelease \/ AutoscrollTick
           \/ AutoscrollStart \/ Escape \/ ToggleAdding \/ CopyLinkAddress
           \/ UNCHANGED pointerVars
  <2>1. sel' = sel
    BY <1>9 DEF SelectionScroll, DragMomentum, DragRelease, AutoscrollTick, AutoscrollStart,
                Escape, ToggleAdding, CopyLinkAddress, pointerVars
  <2> QED
    BY <2>1, StrokeStays DEF SelectionSame
<1> QED
  BY <1>3, <1>4, <1>5, <1>6, <1>7, <1>8, <1>9 DEF PointerNext, PointerUser, PointerSources

\* However the button is held and the view scrolled by timers, keys or other programs,
\* what is selected once the pointer has come to rest is what lies between the press and
\* the last motion, on whatever pages.
THEOREM SelectionIsStroke == PointerSpec => []SelectionIsTheStroke
<1>1. PointerInit => StrokeKept
  BY DEF PointerInit, StrokeKept
<1>2. StrokeKept => SelectionIsTheStroke
  <2> SUFFICES ASSUME StrokeKept, sel.fresh = "moved", ~sel.update,
                      Kind(sel.start) # "gap", Kind(sel.motion) # "gap"
               PROVE  SelectedRows = {row \in 1 .. StripEnd :
                        /\ Kind(row) # "gap"
                        /\ \/ sel.start <= row /\ row <= sel.motion
                           \/ sel.motion <= row /\ row <= sel.start}
    BY DEF SelectionIsTheStroke
  <2>1. PICK no \in BOOLEAN :
          ~no /\ sel.list = NewSelection(sel.start, sel.motion, no, sel.style, 0)
    BY DEF StrokeKept
  <2>2. UNION {Covers(s) : s \in NewSelection(sel.start, sel.motion, no, sel.style, 0)}
          = {row \in 1 .. StripEnd : Kind(row) # "gap" /\ Between(sel.start, sel.motion, row)}
    <3> DEFINE start == sel.start
               stop == sel.motion
               style == sel.style
    <3>1. Kind(start) # "gap" /\ Kind(stop) # "gap"
      OBVIOUS
    <3> HIDE DEF start, stop, style
    <3>2. UNION {Covers(s) : s \in NewSelection(start, stop, no, style, 0)}
            = {row \in 1 .. StripEnd : Kind(row) # "gap" /\ Between(start, stop, row)}
      BY <2>1, <3>1, SelectionCovers
    <3> QED
      BY <3>2 DEF start, stop, style
  <2>3. SelectedRows = UNION {Covers(s) : s \in NewSelection(sel.start, sel.motion, no, sel.style, 0)}
    BY <2>1, Zenon DEF SelectedRows
  <2> QED
    BY <2>2, <2>3, Zenon DEF Between
<1>3. PointerInvariant => PointerShape
  BY DEF PointerInvariant
<1> QED
  BY <1>1, <1>2, <1>3, PointerStarts, PointerStep, StrokeStep, PTL DEF PointerSpec

-----------------------------------------------------------------------------
(* Lemmas about recursion along the naturals and about sequences, for the  *)
(* annotations.                                                            *)

\* What holds at 0 and is handed on holds up to n.
LEMMA CountUp ==
  ASSUME NEW n \in Nat, NEW T, 0 \in T, \A i \in 1 .. n : i - 1 \in T => i \in T
  PROVE  \A i \in 0 .. n : i \in T
<1> DEFINE W == {i \in 0 .. n : i \notin T}
<1> SUFFICES ASSUME W # {} PROVE FALSE
  OBVIOUS
<1>1. W \in SUBSET Nat
  OBVIOUS
<1>2. PICK i \in W : \A j \in W : i <= j
  <2> HIDE DEF W
  <2> QED
    BY <1>1, LeastOf
<1>3. i \in 1 .. n /\ i - 1 \in 0 .. n /\ i - 1 \notin W
  BY <1>2
<1> QED
  BY <1>2, <1>3

\* A function that is defined from 0 on, step by step, exists.
Solves(f, n, base, next) == f = [i \in 0 .. n |-> IF i = 0 THEN base ELSE next[i][f[i - 1]]]

\* The function that a step defines from a base exists for every length.
LEMMA StepsExist ==
  ASSUME NEW n \in Nat, NEW base, NEW next
  PROVE  \E f : Solves(f, n, base, next)
<1> DEFINE T == {k \in 0 .. n : \E f : Solves(f, k, base, next)}
<1>1. 0 \in T
  <2> DEFINE f == [i \in 0 .. 0 |-> base]
  <2>1. Solves(f, 0, base, next)
    BY DEF Solves
  <2> QED
    BY <2>1
<1>2. ASSUME NEW k \in 1 .. n, k - 1 \in T
      PROVE  k \in T
  <2>1. PICK f : Solves(f, k - 1, base, next)
    BY <1>2
  <2> DEFINE g == [i \in 0 .. k |-> IF i = 0 THEN base ELSE next[i][f[i - 1]]]
  <2>2. \A i \in 0 .. k - 1 : i \in 0 .. k /\ f[i] = g[i]
    <3>1. \A i \in 0 .. k - 1 : i \in 0 .. k
      OBVIOUS
    <3>2. \A i \in 0 .. k - 1 : f[i] = IF i = 0 THEN base ELSE next[i][f[i - 1]]
      BY <2>1, Zenon DEF Solves
    <3> QED
      BY <3>1, <3>2
  <2>3. \A i \in 0 .. k : i # 0 => i - 1 \in 0 .. k - 1
    OBVIOUS
  <2>4. g = [i \in 0 .. k |-> g[i]] /\ DOMAIN g = 0 .. k
    OBVIOUS
  <2>5. \A i \in 0 .. k : g[i] = IF i = 0 THEN base ELSE next[i][f[i - 1]]
    OBVIOUS
  <2> HIDE DEF g
  <2>6. \A i \in 0 .. k : g[i] = IF i = 0 THEN base ELSE next[i][g[i - 1]]
    BY <2>2, <2>3, <2>5
  <2>7. Solves(g, k, base, next)
    BY <2>4, <2>6 DEF Solves
  <2> QED
    BY <2>7
<1> HIDE DEF T
<1>3. \A i \in 0 .. n : i \in T
  BY <1>1, <1>2, CountUp
<1>4. n \in T
  BY <1>3
<1> QED
  BY <1>4 DEF T

\* A sequence with one of its elements replaced.
LEMMA SeqSet ==
  ASSUME NEW S, NEW s \in Seq(S), NEW i \in DOMAIN s, NEW x \in S
  PROVE  LET t == [s EXCEPT ![i] = x]
         IN  /\ t \in Seq(S) /\ Len(t) = Len(s) /\ DOMAIN t = DOMAIN s /\ t[i] = x
             /\ \A j \in DOMAIN s : j # i => t[j] = s[j]
OBVIOUS

\* A sequence with one element more.
LEMMA SeqAdd ==
  ASSUME NEW S, NEW s \in Seq(S), NEW x \in S
  PROVE  LET t == Append(s, x)
         IN  /\ t \in Seq(S) /\ Len(t) = Len(s) + 1 /\ DOMAIN t = 1 .. Len(s) + 1
             /\ t[Len(s) + 1] = x
             /\ \A j \in DOMAIN s : j \in DOMAIN t /\ t[j] = s[j]
OBVIOUS

\* A function on the places of a sequence is a sequence of its length.
LEMMA SeqLike ==
  ASSUME NEW S, NEW s \in Seq(S), NEW T, NEW t, t = [j \in DOMAIN s |-> t[j]],
         \A j \in DOMAIN s : t[j] \in T
  PROVE  t \in Seq(T) /\ Len(t) = Len(s) /\ DOMAIN t = DOMAIN s
<1>1. DOMAIN s = 1 .. Len(s) /\ Len(s) \in Nat
  OBVIOUS
<1>2. t \in [1 .. Len(s) -> T]
  BY <1>1
<1>3. t \in Seq(T)
  BY <1>1, <1>2
<1> QED
  BY <1>1, <1>2, <1>3

\* The places of a sequence are the numbers up to its length.
LEMMA SeqIn ==
  ASSUME NEW S, NEW s \in Seq(S)
  PROVE  DOMAIN s = 1 .. Len(s) /\ Len(s) \in Nat /\ \A i \in DOMAIN s : s[i] \in S
OBVIOUS

-----------------------------------------------------------------------------
(* The invariant of the annotations.                                       *)

NoteObjects ==
  [doc : Nat, of : Nat, page : AnnotPages, name : Nat, contents : Nat, popup : BOOLEAN,
   place : Int, window : Nat, heard : BOOLEAN, settings : NoteSettings]
PopupWindows ==
  [of : Nat, made : Nat, page : AnnotPages, place : Int, moved : BOOLEAN, last : Int,
   missed : BOOLEAN, title : Nat, text : Nat \ {0}, visible : BOOLEAN, shown : BOOLEAN,
   y : Int, parent : {0, 2}, at : Int]
NoteFiles == [number : Nat, modified : BOOLEAN, notes : Seq(NoteOfFile)]
\* The pages in view from one of the places that the view is scrolled to
Ranges == {InRange(at, scale) : at \in {0, 4, 8}, scale \in {1, 2}}
Desks ==
  [scroll : {0, 4, 8}, scale : {1, 2}, origin : {0, 2}, pending : BOOLEAN,
   range : Ranges,
   mapped : SUBSET AnnotPages, left : SUBSET AnnotPages, early : SUBSET AnnotPages,
   focus : Nat, menu : Nat, dialog : Nat]
Things == [back : NoteFiles, annots : Seq(NoteObjects), popups : Seq(PopupWindows),
           desk : Desks]
Lists == [AnnotPages -> Seq(Nat)]

\* The object is one of the document that is loaded.
IsCurrent(k, a) == k.annots[a].doc = k.back.number

\* A popup belongs to an object that knows it, on its page, and to the one object of the
\* document that knows it.
OwnersKnow(k) ==
  /\ \A i \in DOMAIN k.popups :
       /\ k.popups[i].of \in DOMAIN k.annots /\ k.popups[i].made \in DOMAIN k.annots
       /\ k.annots[k.popups[i].of].window = i
       /\ k.annots[k.popups[i].of].page = k.popups[i].page
  /\ \A a \in DOMAIN k.annots :
       /\ k.annots[a].window \in 0 .. Len(k.popups)
       /\ k.annots[a].doc \in 1 .. k.back.number
       /\ IsCurrent(k, a) /\ k.annots[a].window # 0 => k.popups[k.annots[a].window].of = a
  /\ k.desk.focus \in 0 .. Len(k.popups)
  /\ k.desk.menu \in 0 .. Len(k.annots) /\ k.desk.dialog \in 0 .. Len(k.annots)

\* The objects of the document stand for different annotations of it.
ObjectsStand(k) ==
  \A a \in DOMAIN k.annots : IsCurrent(k, a) =>
    /\ k.annots[a].of \in DOMAIN k.back.notes
    /\ k.back.notes[k.annots[a].of].page = k.annots[a].page
    /\ \A b \in DOMAIN k.annots : IsCurrent(k, b) /\ k.annots[b].of = k.annots[a].of => b = a

\* Each is in the list of its page, and the names of a list are its numbers; the first
\* may be a note without one.
ListsHold(k, L) ==
  /\ \A p \in AnnotPages : \A n \in DOMAIN L[p] :
       /\ L[p][n] \in DOMAIN k.annots /\ k.annots[L[p][n]].page = p /\ IsCurrent(k, L[p][n])
       /\ k.annots[L[p][n]].name = n \/ (n = 1 /\ k.annots[L[p][n]].name = 0)
  /\ \A a \in DOMAIN k.annots : IsCurrent(k, a) =>
       \E n \in DOMAIN L[k.annots[a].page] : L[k.annots[a].page][n] = a

ListsComplete(k, L) ==
  \A p \in AnnotPages :
    /\ p \notin k.desk.early /\ L[p] # <<>> => Len(KnownOf(k.back.notes, p)) <= Len(L[p])
    /\ p \in k.desk.mapped => L[p] # <<>>

\* What an object has is in the document, but the text of a popup that was made for
\* another one.
StoredIs(k, a) ==
  LET e == k.annots[a]
      n == k.back.notes[e.of]
  IN  IsCurrent(k, a) /\ ~n.gone =>
        /\ e.heard \/ e.window = 0 => e.contents = n.contents
        /\ \A s \in Settings : \/ e.settings[s] = n.settings[s]
                               \/ s = "open" /\ ~n.popup
                               \/ s = "label" /\ n.settings[s] = Nobody
AllStored(k) == \A a \in DOMAIN k.annots : StoredIs(k, a)

TypedIs(k, i) ==
  k.popups[i].text # TextOf(k.annots[k.popups[i].of].contents) => k.desk.focus = i
AllTyped(k) == \A i \in DOMAIN k.popups : TypedIs(k, i)

\* A popup is where its note is, and says whose it is.
PlacedIs(k, i) ==
  LET w == k.popups[i]
  IN  /\ ~k.desk.pending => w.y - w.parent = ToView(k.desk, w.page, w.place)
      /\ ~w.missed => w.at = w.last \/ w.at = Clamp(w.y, w.parent)
      /\ w.title = k.annots[w.made].settings.label
      /\ w.shown => w.visible
AllPlaced(k) == \A i \in DOMAIN k.popups : PlacedIs(k, i)

SeenWithPage(k) ==
  \A a \in DOMAIN k.annots :
    IsCurrent(k, a) /\ k.annots[a].window # 0 /\ k.popups[k.annots[a].window].shown
      => k.annots[a].page \in k.desk.range \cup k.desk.left

Ordered(k, L) ==
  k \in Things /\ L \in Lists /\ OwnersKnow(k) /\ ObjectsStand(k) /\ ListsHold(k, L)
    /\ ListsComplete(k, L)
Good(k, L) ==
  Ordered(k, L) /\ AllStored(k) /\ AllTyped(k) /\ AllPlaced(k) /\ SeenWithPage(k)

NotesInvariant ==
  /\ Good(Shape, listed)
  /\ noteCalls \in 0 .. NoteCalls /\ poppler.number \in 1 .. noteCalls + 1

-----------------------------------------------------------------------------
(* The annotations of a page that Evince knows.                            *)

IsKnown(notes, p, n) == notes[n].page = p /\ ~notes[n].gone /\ notes[n].kind # "stamp"
KnownUpTo(f, notes, p) ==
  f = [n \in 0 .. Len(notes) |->
         IF n = 0 THEN <<>>
         ELSE IF notes[n].page = p /\ ~notes[n].gone /\ notes[n].kind # "stamp"
           THEN Append(f[n - 1], n) ELSE f[n - 1]]
KnownSoFar(notes, p, i, s) ==
  /\ s \in Seq(1 .. i)
  /\ \A m \in DOMAIN s : IsKnown(notes, p, s[m])
  /\ \A m, n \in DOMAIN s : s[m] = s[n] => m = n

\* The recursion has a solution.
LEMMA KnownExists ==
  ASSUME NEW notes, Len(notes) \in Nat, NEW p
  PROVE  \E f : KnownUpTo(f, notes, p) /\ KnownOf(notes, p) = f[Len(notes)]
<1> DEFINE N == Len(notes)
           next == [i \in 1 .. N |-> [s \in Seq(Nat) |->
                      IF IsKnown(notes, p, i) THEN Append(s, i) ELSE s]]
           none == <<>>
<1>1. N \in Nat
  OBVIOUS
<1>2. none \in Seq(Nat)
  OBVIOUS
<1>3. \A i \in 1 .. N : \A s \in Seq(Nat) :
        /\ next[i][s] \in Seq(Nat)
        /\ next[i][s] = IF IsKnown(notes, p, i) THEN Append(s, i) ELSE s
  OBVIOUS
<1>4. ASSUME NEW f PROVE KnownUpTo(f, notes, p) <=>
        f = [n \in 0 .. N |-> IF n = 0 THEN none
                              ELSE IF IsKnown(notes, p, n) THEN Append(f[n - 1], n) ELSE f[n - 1]]
  BY DEF KnownUpTo, IsKnown
<1> HIDE DEF N, next, none
<1>5. PICK f : Solves(f, N, none, next)
  BY <1>1, StepsExist, Zenon
<1>6. \A i \in 0 .. N : f[i] = IF i = 0 THEN none ELSE next[i][f[i - 1]]
  BY <1>5, Zenon DEF Solves
<1> DEFINE T == {i \in 0 .. N : f[i] \in Seq(Nat)}
<1>7. 0 \in T
  BY <1>1, <1>2, <1>6
<1>8. \A i \in 1 .. N : i - 1 \in T => i \in T
  BY <1>1, <1>3, <1>6
<1>9. \A i \in 0 .. N : i \in T
  <2> HIDE DEF T
  <2> QED
    BY <1>1, <1>7, <1>8, CountUp
<1>10. \A i \in 0 .. N : f[i] \in Seq(Nat)
  BY <1>9
<1>11. \A i \in 0 .. N : f[i] = IF i = 0 THEN none
                               ELSE IF IsKnown(notes, p, i) THEN Append(f[i - 1], i) ELSE f[i - 1]
  <2> SUFFICES ASSUME NEW i \in 0 .. N, i # 0
               PROVE  f[i] = IF IsKnown(notes, p, i) THEN Append(f[i - 1], i) ELSE f[i - 1]
    BY <1>6
  <2>1. i \in 1 .. N /\ i - 1 \in 0 .. N
    BY <1>1
  <2>2. f[i] = next[i][f[i - 1]] /\ f[i - 1] \in Seq(Nat)
    BY <1>6, <1>10, <2>1
  <2> QED
    BY <1>3, <2>1, <2>2
<1>12. f = [i \in 0 .. N |-> IF i = 0 THEN none
                            ELSE IF IsKnown(notes, p, i) THEN Append(f[i - 1], i) ELSE f[i - 1]]
  <2>1. f = [i \in 0 .. N |-> f[i]]
    <3>1. f = [i \in 0 .. N |-> IF i = 0 THEN none ELSE next[i][f[i - 1]]]
      BY <1>5, Zenon DEF Solves
    <3> QED
      BY <3>1, <1>6
  <2> QED
    BY <2>1, <1>11
<1>13. KnownUpTo(f, notes, p)
  BY <1>4, <1>12
<1> DEFINE g == CHOOSE h : KnownUpTo(h, notes, p)
<1>14. KnownUpTo(g, notes, p)
  BY <1>13
<1>15. KnownOf(notes, p) = g[N]
  BY DEF KnownOf, KnownUpTo, N
<1> QED
  BY <1>14, <1>15 DEF N

\* One step along the notes: the note is one of the page or it is not.
LEMMA KnownStep ==
  ASSUME NEW notes, NEW p, NEW f, KnownUpTo(f, notes, p), NEW i \in 0 .. Len(notes)
  PROVE  f[i] = IF i = 0 THEN <<>>
                ELSE IF IsKnown(notes, p, i) THEN Append(f[i - 1], i) ELSE f[i - 1]
BY Zenon DEF KnownUpTo, IsKnown

\* What is known of the first notes, with the next one taken in.
LEMMA KnownKeeps ==
  ASSUME NEW notes, NEW p, NEW i \in Nat \ {0}, NEW s, KnownSoFar(notes, p, i - 1, s)
  PROVE  /\ KnownSoFar(notes, p, i, s)
         /\ IsKnown(notes, p, i) => KnownSoFar(notes, p, i, Append(s, i))
<1>1. s \in Seq(1 .. i - 1) /\ s \in Seq(1 .. i)
  BY DEF KnownSoFar
<1>2. KnownSoFar(notes, p, i, s)
  BY <1>1 DEF KnownSoFar
<1>3. ASSUME IsKnown(notes, p, i)
      PROVE  KnownSoFar(notes, p, i, Append(s, i))
  <2> DEFINE t == Append(s, i)
  <2>1. /\ t \in Seq(1 .. i) /\ DOMAIN t = 1 .. Len(s) + 1
        /\ t[Len(s) + 1] = i /\ \A j \in DOMAIN s : j \in DOMAIN t /\ t[j] = s[j]
    BY <1>1
  <2>2. DOMAIN s = 1 .. Len(s) /\ Len(s) \in Nat /\ \A j \in DOMAIN s : s[j] \in 1 .. i - 1
    BY <1>1
  <2> HIDE DEF t
  <2>3. \A m \in DOMAIN t : IsKnown(notes, p, t[m])
    <3> SUFFICES ASSUME NEW m \in DOMAIN t PROVE IsKnown(notes, p, t[m])
      OBVIOUS
    <3>1. CASE m \in DOMAIN s
      <4>1. IsKnown(notes, p, s[m])
        BY <3>1 DEF KnownSoFar
      <4>2. t[m] = s[m]
        BY <3>1, <2>1
      <4> QED
        BY <4>1, <4>2
    <3>2. CASE m = Len(s) + 1
      <4>1. t[m] = i
        BY <3>2, <2>1
      <4> QED
        BY <4>1, <1>3
    <3> QED
      BY <3>1, <3>2, <2>1, <2>2
  <2>4. \A m, n \in DOMAIN t : t[m] = t[n] => m = n
    <3> SUFFICES ASSUME NEW m \in DOMAIN t, NEW n \in DOMAIN t, t[m] = t[n] PROVE m = n
      OBVIOUS
    <3>1. CASE m \in DOMAIN s /\ n \in DOMAIN s
      BY <3>1, <2>1 DEF KnownSoFar
    <3>2. CASE m = Len(s) + 1 \/ n = Len(s) + 1
      BY <3>2, <2>1, <2>2
    <3> QED
      BY <3>1, <3>2, <2>1, <2>2
  <2> QED
    BY <2>1, <2>3, <2>4 DEF KnownSoFar, t
<1> QED
  BY <1>2, <1>3

\* They are different annotations of the page, none of them removed.
LEMMA KnownAre ==
  ASSUME NEW notes, Len(notes) \in Nat, NEW p
  PROVE  KnownSoFar(notes, p, Len(notes), KnownOf(notes, p))
<1>1. PICK f : KnownUpTo(f, notes, p) /\ KnownOf(notes, p) = f[Len(notes)]
  BY KnownExists
<1> DEFINE T == {i \in 0 .. Len(notes) : KnownSoFar(notes, p, i, f[i])}
<1>2. 0 \in T
  <2> DEFINE none == <<>>
  <2>1. f[0] = none
    <3>1. 0 \in 0 .. Len(notes)
      OBVIOUS
    <3> QED
      BY <3>1, <1>1, KnownStep
  <2>2. none \in Seq(1 .. 0) /\ DOMAIN none = {}
    OBVIOUS
  <2>3. KnownSoFar(notes, p, 0, none)
    <3> HIDE DEF none
    <3> QED
      BY <2>2 DEF KnownSoFar
  <2> QED
    BY <2>1, <2>3
<1>3. ASSUME NEW i \in 1 .. Len(notes), i - 1 \in T
      PROVE  i \in T
  <2>1. f[i] = IF IsKnown(notes, p, i) THEN Append(f[i - 1], i) ELSE f[i - 1]
    BY <1>1, KnownStep
  <2>2. KnownSoFar(notes, p, i - 1, f[i - 1]) /\ i \in Nat \ {0}
    BY <1>3
  <2> DEFINE s == f[i - 1]
  <2>3. KnownSoFar(notes, p, i, s) /\ (IsKnown(notes, p, i) => KnownSoFar(notes, p, i, Append(s, i)))
    <3> HIDE DEF s
    <3>1. KnownSoFar(notes, p, i - 1, s)
      BY <2>2 DEF s
    <3> QED
      BY <2>2, <3>1, KnownKeeps
  <2> QED
    BY <2>1, <2>3
<1>4. \A i \in 0 .. Len(notes) : i \in T
  <2> HIDE DEF T
  <2> QED
    BY <1>2, <1>3, CountUp
<1> QED
  BY <1>1, <1>4

\* No more of them when some are removed; and at most one more when one is added.
LEMMA KnownGrows ==
  ASSUME NEW notes, NEW others, Len(notes) \in Nat, Len(others) \in Nat, NEW p,
         Len(notes) <= Len(others),
         \A n \in 1 .. Len(notes) : IsKnown(others, p, n) => IsKnown(notes, p, n)
  PROVE  /\ Len(others) = Len(notes)
              => Len(KnownOf(others, p)) <= Len(KnownOf(notes, p))
         /\ Len(others) = Len(notes) + 1
              => Len(KnownOf(others, p)) <=
                   Len(KnownOf(notes, p)) + (IF IsKnown(others, p, Len(others)) THEN 1 ELSE 0)
<1>1. PICK f : KnownUpTo(f, notes, p) /\ KnownOf(notes, p) = f[Len(notes)]
  BY KnownExists
<1>2. PICK g : KnownUpTo(g, others, p) /\ KnownOf(others, p) = g[Len(others)]
  BY KnownExists
<1> DEFINE T == {i \in 0 .. Len(notes) : f[i] \in Seq(Nat) /\ g[i] \in Seq(Nat) /\ Len(g[i]) <= Len(f[i])}
<1>3. 0 \in T
  <2>1. f[0] = <<>> /\ g[0] = <<>>
    <3>1. 0 \in 0 .. Len(notes) /\ 0 \in 0 .. Len(others)
      OBVIOUS
    <3> QED
      BY <3>1, <1>1, <1>2, KnownStep
  <2> DEFINE none == <<>>
  <2>2. none \in Seq(Nat) /\ Len(none) <= Len(none)
    OBVIOUS
  <2>3. f[0] = none /\ g[0] = none
    BY <2>1
  <2> HIDE DEF none
  <2> QED
    BY <2>2, <2>3
<1>4. ASSUME NEW i \in 1 .. Len(notes), i - 1 \in T
      PROVE  i \in T
  <2>1. i \in 0 .. Len(notes) /\ i \in 0 .. Len(others) /\ i # 0 /\ i \in Nat
    OBVIOUS
  <2>2. f[i] = IF IsKnown(notes, p, i) THEN Append(f[i - 1], i) ELSE f[i - 1]
    BY <1>1, <2>1, KnownStep
  <2>3. g[i] = IF IsKnown(others, p, i) THEN Append(g[i - 1], i) ELSE g[i - 1]
    BY <1>2, <2>1, KnownStep
  <2>4. f[i - 1] \in Seq(Nat) /\ g[i - 1] \in Seq(Nat) /\ Len(g[i - 1]) <= Len(f[i - 1])
    BY <1>4
  <2>5. /\ Append(f[i - 1], i) \in Seq(Nat) /\ Len(Append(f[i - 1], i)) = Len(f[i - 1]) + 1
        /\ Append(g[i - 1], i) \in Seq(Nat) /\ Len(Append(g[i - 1], i)) = Len(g[i - 1]) + 1
    BY <2>1, <2>4
  <2>6. IsKnown(others, p, i) => IsKnown(notes, p, i)
    OBVIOUS
  <2>7. Len(f[i - 1]) \in Nat /\ Len(g[i - 1]) \in Nat
    BY <2>4
  <2>8. f[i] \in Seq(Nat) /\ g[i] \in Seq(Nat)
    BY <2>2, <2>3, <2>4, <2>5
  <2>9. CASE IsKnown(others, p, i)
    <3>1. f[i] = Append(f[i - 1], i) /\ g[i] = Append(g[i - 1], i)
      BY <2>2, <2>3, <2>6, <2>9
    <3>2. Len(g[i]) <= Len(f[i])
      BY <3>1, <2>4, <2>5, <2>7
    <3> QED
      BY <3>2, <2>1, <2>8
  <2>10. CASE ~IsKnown(others, p, i)
    <3>1. g[i] = g[i - 1] /\ (f[i] = Append(f[i - 1], i) \/ f[i] = f[i - 1])
      BY <2>2, <2>3, <2>10
    <3>2. Len(g[i]) <= Len(f[i])
      BY <3>1, <2>4, <2>5, <2>7
    <3> QED
      BY <3>2, <2>1, <2>8
  <2> QED
    BY <2>9, <2>10
<1>5. \A i \in 0 .. Len(notes) : i \in T
  <2> HIDE DEF T
  <2> QED
    BY <1>3, <1>4, CountUp
<1> DEFINE m == Len(notes)
<1>6. f[m] \in Seq(Nat) /\ g[m] \in Seq(Nat) /\ Len(g[m]) <= Len(f[m])
  <2>1. m \in 0 .. Len(notes)
    OBVIOUS
  <2> HIDE DEF m
  <2> QED
    BY <1>5, <2>1
<1>7. m \in Nat /\ Len(f[m]) \in Nat /\ Len(g[m]) \in Nat /\ KnownOf(notes, p) = f[m]
  BY <1>1, <1>6
<1>8. CASE Len(others) = m
  <2>1. KnownOf(others, p) = g[m] /\ ~(Len(others) = m + 1)
    BY <1>2, <1>7, <1>8
  <2> QED
    BY <2>1, <1>6, <1>7
<1>9. CASE Len(others) = m + 1
  <2>1. g[m + 1] = IF IsKnown(others, p, m + 1) THEN Append(g[m], m + 1) ELSE g[m]
    <3>1. m + 1 \in 0 .. Len(others) /\ m + 1 # 0 /\ (m + 1) - 1 = m
      BY <1>9
    <3> QED
      BY <3>1, <1>2, KnownStep
  <2>2. Len(Append(g[m], m + 1)) = Len(g[m]) + 1
    BY <1>6
  <2>3. Len(g[m + 1]) <= Len(f[m]) + (IF IsKnown(others, p, m + 1) THEN 1 ELSE 0)
    <3> HIDE DEF m
    <3>1. CASE IsKnown(others, p, m + 1)
      BY <3>1, <1>6, <1>7, <2>1, <2>2
    <3>2. CASE ~IsKnown(others, p, m + 1)
      BY <3>2, <1>6, <1>7, <2>1
    <3> QED
      BY <3>1, <3>2
  <2>4. KnownOf(others, p) = g[m + 1] /\ ~(Len(others) = m)
    BY <1>2, <1>7, <1>9
  <2>5. Len(others) = m + 1 =>
          Len(KnownOf(others, p)) <= Len(KnownOf(notes, p)) + (IF IsKnown(others, p, Len(others)) THEN 1 ELSE 0)
    BY <2>3, <2>4, <1>7
  <2> QED
    BY <2>4, <2>5
<1> QED
  BY <1>8, <1>9

-----------------------------------------------------------------------------
(* What a call leaves as it is.                                            *)

NotesKept(k, K) ==
  /\ K.back.number = k.back.number /\ Len(K.back.notes) = Len(k.back.notes)
  /\ \A n \in DOMAIN k.back.notes :
       /\ K.back.notes[n].page = k.back.notes[n].page
       /\ K.back.notes[n].kind = k.back.notes[n].kind
       /\ K.back.notes[n].popup = k.back.notes[n].popup
       /\ k.back.notes[n].gone => K.back.notes[n].gone
DataKept(k, K) ==
  \A n \in DOMAIN k.back.notes : ~K.back.notes[n].gone =>
    /\ K.back.notes[n].contents = k.back.notes[n].contents
    /\ K.back.notes[n].settings = k.back.notes[n].settings
ObjectKept(k, K, a) ==
  /\ K.annots[a].doc = k.annots[a].doc /\ K.annots[a].of = k.annots[a].of
  /\ K.annots[a].page = k.annots[a].page /\ K.annots[a].name = k.annots[a].name
  /\ K.annots[a].popup = k.annots[a].popup
ObjectsKept(k, K) ==
  Len(K.annots) = Len(k.annots) /\ \A a \in DOMAIN k.annots : ObjectKept(k, K, a)
LinksKept(k, K) ==
  \A a \in DOMAIN k.annots :
    K.annots[a].window = k.annots[a].window /\ K.annots[a].heard = k.annots[a].heard
TextsKept(k, K) ==
  \A a \in DOMAIN k.annots : /\ K.annots[a].contents = k.annots[a].contents
                             /\ K.annots[a].settings = k.annots[a].settings
OwnersKept(k, K) ==
  Len(K.popups) = Len(k.popups) /\
  \A i \in DOMAIN k.popups :
    /\ K.popups[i].of = k.popups[i].of /\ K.popups[i].made = k.popups[i].made
    /\ K.popups[i].page = k.popups[i].page
ActorsAre(K) ==
  /\ K.desk.focus \in 0 .. Len(K.popups)
  /\ K.desk.menu \in 0 .. Len(K.annots) /\ K.desk.dialog \in 0 .. Len(K.annots)

\* What a document, its objects, the popups and the view are made of.
LEMMA ThingsAre ==
  ASSUME NEW k \in Things
  PROVE  /\ k.back \in NoteFiles /\ k.annots \in Seq(NoteObjects)
         /\ k.popups \in Seq(PopupWindows) /\ k.desk \in Desks
         /\ DOMAIN k.annots = 1 .. Len(k.annots) /\ Len(k.annots) \in Nat
         /\ DOMAIN k.popups = 1 .. Len(k.popups) /\ Len(k.popups) \in Nat
         /\ k.back.notes \in Seq(NoteOfFile) /\ k.back.number \in Nat
         /\ DOMAIN k.back.notes = 1 .. Len(k.back.notes) /\ Len(k.back.notes) \in Nat
         /\ \A a \in DOMAIN k.annots : k.annots[a] \in NoteObjects
         /\ \A i \in DOMAIN k.popups : k.popups[i] \in PopupWindows
         /\ \A n \in DOMAIN k.back.notes : k.back.notes[n] \in NoteOfFile
<1>1. /\ k.back \in NoteFiles /\ k.annots \in Seq(NoteObjects)
      /\ k.popups \in Seq(PopupWindows) /\ k.desk \in Desks
  BY DEF Things
<1>2. k.back.notes \in Seq(NoteOfFile) /\ k.back.number \in Nat
  BY <1>1 DEF NoteFiles
<1> QED
  BY <1>1, <1>2, SeqIn

\* What is made of such parts is such a thing.
LEMMA ThingsMade ==
  ASSUME NEW back \in NoteFiles, NEW objects \in Seq(NoteObjects),
         NEW windows \in Seq(PopupWindows), NEW table \in Desks, NEW K,
         K = [back |-> back, annots |-> objects, popups |-> windows, desk |-> table]
  PROVE  K \in Things
BY DEF Things

\* A number that a list needs is that of its page.
LEMMA KnownStays ==
  ASSUME NEW k \in Things, NEW K \in Things, NotesKept(k, K), NEW p
  PROVE  Len(KnownOf(K.back.notes, p)) <= Len(KnownOf(k.back.notes, p))
<1> DEFINE notes == k.back.notes
           others == K.back.notes
<1>1. Len(notes) \in Nat /\ Len(others) \in Nat /\ Len(notes) = Len(others)
        /\ DOMAIN notes = 1 .. Len(notes)
  BY ThingsAre DEF NotesKept
<1>2. \A n \in 1 .. Len(notes) : IsKnown(others, p, n) => IsKnown(notes, p, n)
  BY <1>1 DEF NotesKept, IsKnown
<1> HIDE DEF notes, others
<1>3. Len(KnownOf(others, p)) <= Len(KnownOf(notes, p))
  BY <1>1, <1>2, KnownGrows
<1> QED
  BY <1>3 DEF notes, others

\* The order of lists and objects stays when the owners of the popups still know them.
LEMMA OrderRest ==
  ASSUME NEW k, NEW L, Ordered(k, L), NEW K \in Things,
         NotesKept(k, K), ObjectsKept(k, K), OwnersKnow(K),
         K.desk.early = k.desk.early, K.desk.mapped = k.desk.mapped
  PROVE  Ordered(K, L)
<1>1. k \in Things /\ L \in Lists /\ OwnersKnow(k) /\ ObjectsStand(k) /\ ListsHold(k, L)
        /\ ListsComplete(k, L)
  BY DEF Ordered
<1>2. /\ DOMAIN k.annots = 1 .. Len(k.annots) /\ DOMAIN K.annots = 1 .. Len(K.annots)
      /\ DOMAIN k.back.notes = 1 .. Len(k.back.notes) /\ DOMAIN K.back.notes = 1 .. Len(K.back.notes)
      /\ Len(k.annots) \in Nat
  BY <1>1, ThingsAre
<1>3. /\ DOMAIN K.annots = DOMAIN k.annots /\ Len(K.annots) = Len(k.annots)
      /\ DOMAIN K.back.notes = DOMAIN k.back.notes /\ K.back.number = k.back.number
  BY <1>2 DEF ObjectsKept, NotesKept
<1>4. \A a \in DOMAIN k.annots :
        /\ K.annots[a].doc = k.annots[a].doc /\ K.annots[a].of = k.annots[a].of
        /\ K.annots[a].page = k.annots[a].page /\ K.annots[a].name = k.annots[a].name
        /\ IsCurrent(K, a) <=> IsCurrent(k, a)
  BY <1>3 DEF ObjectsKept, ObjectKept, IsCurrent
<1>6. ObjectsStand(K)
  <2> SUFFICES ASSUME NEW a \in DOMAIN K.annots, IsCurrent(K, a)
               PROVE  /\ K.annots[a].of \in DOMAIN K.back.notes
                      /\ K.back.notes[K.annots[a].of].page = K.annots[a].page
                      /\ \A b \in DOMAIN K.annots :
                           IsCurrent(K, b) /\ K.annots[b].of = K.annots[a].of => b = a
    BY DEF ObjectsStand
  <2>1. /\ k.annots[a].of \in DOMAIN k.back.notes
        /\ k.back.notes[k.annots[a].of].page = k.annots[a].page
        /\ \A b \in DOMAIN k.annots :
             IsCurrent(k, b) /\ k.annots[b].of = k.annots[a].of => b = a
    BY <1>1, <1>3, <1>4 DEF ObjectsStand
  <2> DEFINE n == k.annots[a].of
  <2>2. K.annots[a].of = n /\ K.annots[a].page = k.annots[a].page
    BY <1>3, <1>4
  <2>3. n \in DOMAIN k.back.notes /\ k.back.notes[n].page = k.annots[a].page
    BY <2>1
  <2> HIDE DEF n
  <2>4. K.back.notes[n].page = k.annots[a].page /\ n \in DOMAIN K.back.notes
    BY <2>3, <1>3 DEF NotesKept
  <2>5. \A b \in DOMAIN K.annots : IsCurrent(K, b) /\ K.annots[b].of = K.annots[a].of => b = a
    BY <2>1, <1>3, <1>4
  <2> QED
    BY <2>2, <2>4, <2>5
<1>7. ListsHold(K, L)
  <2>1. ASSUME NEW p \in AnnotPages, NEW n \in DOMAIN L[p]
        PROVE  /\ L[p][n] \in DOMAIN K.annots /\ K.annots[L[p][n]].page = p /\ IsCurrent(K, L[p][n])
               /\ K.annots[L[p][n]].name = n \/ (n = 1 /\ K.annots[L[p][n]].name = 0)
    <3>1. /\ L[p][n] \in DOMAIN k.annots /\ k.annots[L[p][n]].page = p /\ IsCurrent(k, L[p][n])
          /\ k.annots[L[p][n]].name = n \/ (n = 1 /\ k.annots[L[p][n]].name = 0)
      BY <1>1 DEF ListsHold
    <3> QED
      BY <3>1, <1>3, <1>4
  <2>2. ASSUME NEW a \in DOMAIN K.annots, IsCurrent(K, a)
        PROVE  \E n \in DOMAIN L[K.annots[a].page] : L[K.annots[a].page][n] = a
    BY <2>2, <1>1, <1>3, <1>4 DEF ListsHold
  <2> QED
    BY <2>1, <2>2 DEF ListsHold
<1>8. ListsComplete(K, L)
  <2> SUFFICES ASSUME NEW p \in AnnotPages
               PROVE  /\ p \notin k.desk.early /\ L[p] # <<>> =>
                           Len(KnownOf(K.back.notes, p)) <= Len(L[p])
                      /\ p \in k.desk.mapped => L[p] # <<>>
    BY DEF ListsComplete
  <2>1. /\ p \notin k.desk.early /\ L[p] # <<>> =>
             Len(KnownOf(k.back.notes, p)) <= Len(L[p])
        /\ p \in k.desk.mapped => L[p] # <<>>
    BY <1>1 DEF ListsComplete
  <2>2. Len(KnownOf(K.back.notes, p)) <= Len(KnownOf(k.back.notes, p))
    BY <1>1, KnownStays
  <2>3. Len(KnownOf(K.back.notes, p)) \in Nat /\ Len(KnownOf(k.back.notes, p)) \in Nat
          /\ Len(L[p]) \in Nat
    <3>1. Len(K.back.notes) \in Nat /\ Len(k.back.notes) \in Nat
      BY <1>1, ThingsAre
    <3>2. KnownOf(K.back.notes, p) \in Seq(1 .. Len(K.back.notes))
            /\ KnownOf(k.back.notes, p) \in Seq(1 .. Len(k.back.notes))
      BY <3>1, KnownAre DEF KnownSoFar
    <3>3. L[p] \in Seq(Nat)
      BY <1>1 DEF Lists
    <3> QED
      BY <3>2, <3>3
  <2> QED
    BY <2>1, <2>2, <2>3
<1> QED
  BY <1>1, <1>6, <1>7, <1>8 DEF Ordered

\* The order of lists and objects stays when no popup changes hands.
LEMMA OrderStays ==
  ASSUME NEW k, NEW L, Ordered(k, L), NEW K \in Things,
         NotesKept(k, K), ObjectsKept(k, K), LinksKept(k, K), OwnersKept(k, K), ActorsAre(K),
         K.desk.early = k.desk.early, K.desk.mapped = k.desk.mapped
  PROVE  Ordered(K, L)
<1>1. k \in Things /\ L \in Lists /\ OwnersKnow(k) /\ ObjectsStand(k) /\ ListsHold(k, L)
        /\ ListsComplete(k, L)
  BY DEF Ordered
<1>2. /\ DOMAIN k.annots = 1 .. Len(k.annots) /\ DOMAIN K.annots = 1 .. Len(K.annots)
      /\ DOMAIN k.popups = 1 .. Len(k.popups) /\ DOMAIN K.popups = 1 .. Len(K.popups)
      /\ DOMAIN k.back.notes = 1 .. Len(k.back.notes) /\ DOMAIN K.back.notes = 1 .. Len(K.back.notes)
      /\ Len(k.annots) \in Nat /\ Len(k.popups) \in Nat
  BY <1>1, ThingsAre
<1>3. /\ DOMAIN K.annots = DOMAIN k.annots /\ Len(K.annots) = Len(k.annots)
      /\ DOMAIN K.popups = DOMAIN k.popups /\ Len(K.popups) = Len(k.popups)
      /\ DOMAIN K.back.notes = DOMAIN k.back.notes /\ K.back.number = k.back.number
  BY <1>2 DEF ObjectsKept, OwnersKept, NotesKept
<1>4. \A a \in DOMAIN k.annots :
        /\ K.annots[a].doc = k.annots[a].doc /\ K.annots[a].of = k.annots[a].of
        /\ K.annots[a].page = k.annots[a].page /\ K.annots[a].name = k.annots[a].name
        /\ K.annots[a].window = k.annots[a].window
        /\ IsCurrent(K, a) <=> IsCurrent(k, a)
  BY <1>3 DEF ObjectsKept, ObjectKept, LinksKept, IsCurrent
<1>5. OwnersKnow(K)
  <2>1. ASSUME NEW i \in DOMAIN K.popups
        PROVE  /\ K.popups[i].of \in DOMAIN K.annots /\ K.popups[i].made \in DOMAIN K.annots
               /\ K.annots[K.popups[i].of].window = i
               /\ K.annots[K.popups[i].of].page = K.popups[i].page
    <3>1. K.popups[i].of = k.popups[i].of /\ K.popups[i].made = k.popups[i].made
            /\ K.popups[i].page = k.popups[i].page
      BY <1>3 DEF OwnersKept
    <3> DEFINE b == k.popups[i].of
    <3>2. /\ b \in DOMAIN k.annots /\ k.popups[i].made \in DOMAIN k.annots
          /\ k.annots[b].window = i /\ k.annots[b].page = k.popups[i].page
      BY <1>1, <1>3 DEF OwnersKnow
    <3>3. K.popups[i].of = b
      BY <3>1
    <3> HIDE DEF b
    <3>4. K.annots[b].window = i /\ K.annots[b].page = k.popups[i].page
      BY <3>2, <1>4
    <3> QED
      BY <3>1, <3>2, <3>3, <3>4, <1>3
  <2>2. ASSUME NEW a \in DOMAIN K.annots
        PROVE  /\ K.annots[a].window \in 0 .. Len(K.popups)
               /\ K.annots[a].doc \in 1 .. K.back.number
               /\ IsCurrent(K, a) /\ K.annots[a].window # 0 => K.popups[K.annots[a].window].of = a
    <3>1. /\ k.annots[a].window \in 0 .. Len(k.popups)
          /\ k.annots[a].doc \in 1 .. k.back.number
          /\ IsCurrent(k, a) /\ k.annots[a].window # 0 => k.popups[k.annots[a].window].of = a
      BY <1>1, <1>3 DEF OwnersKnow
    <3>2. k.annots[a].window # 0 => k.annots[a].window \in DOMAIN k.popups
      BY <3>1, <1>2
    <3> QED
      BY <3>1, <3>2, <1>3, <1>4 DEF OwnersKept
  <2> QED
    BY <2>1, <2>2 DEF OwnersKnow, ActorsAre
<1> QED
  BY <1>5, OrderRest

\* What is in the document stays there when neither notes nor objects are written.
LEMMA StoredStays ==
  ASSUME NEW k \in Things, ObjectsStand(k), AllStored(k), NEW K \in Things,
         NotesKept(k, K), DataKept(k, K), ObjectsKept(k, K), LinksKept(k, K), TextsKept(k, K)
  PROVE  AllStored(K)
<1>1. DOMAIN K.annots = DOMAIN k.annots /\ K.back.number = k.back.number
  BY ThingsAre DEF ObjectsKept, NotesKept
<1> SUFFICES ASSUME NEW a \in DOMAIN k.annots
             PROVE  StoredIs(K, a)
  BY <1>1 DEF AllStored
<1> DEFINE n == k.back.notes[k.annots[a].of]
           N == K.back.notes[k.annots[a].of]
           e == k.annots[a]
           E == K.annots[a]
<1>2. E.doc = e.doc /\ E.of = e.of /\ E.window = e.window /\ E.heard = e.heard
        /\ E.contents = e.contents /\ E.settings = e.settings
  BY DEF ObjectsKept, ObjectKept, LinksKept, TextsKept
<1>3. IsCurrent(K, a) => IsCurrent(k, a) /\ e.of \in DOMAIN k.back.notes
  BY <1>1, <1>2 DEF IsCurrent, ObjectsStand
<1>4. IsCurrent(K, a) /\ ~N.gone =>
        ~n.gone /\ N.contents = n.contents /\ N.settings = n.settings /\ N.popup = n.popup
  BY SMTT(20), <1>3 DEF NotesKept, DataKept
<1>5. StoredIs(k, a)
  BY DEF AllStored
<1>6. IsCurrent(k, a) /\ ~n.gone =>
        /\ e.heard \/ e.window = 0 => e.contents = n.contents
        /\ \A s \in Settings : \/ e.settings[s] = n.settings[s]
                               \/ s = "open" /\ ~n.popup
                               \/ s = "label" /\ n.settings[s] = Nobody
  BY Zenon, <1>5 DEF StoredIs
<1> HIDE DEF n, N, e, E
<1>7. IsCurrent(K, a) /\ ~N.gone =>
        /\ E.heard \/ E.window = 0 => E.contents = N.contents
        /\ \A s \in Settings : \/ E.settings[s] = N.settings[s]
                               \/ s = "open" /\ ~N.popup
                               \/ s = "label" /\ N.settings[s] = Nobody
  BY <1>2, <1>3, <1>4, <1>6
<1>8. K.annots[a] = E /\ K.back.notes[E.of] = N
  BY <1>2 DEF N, E, e
<1> QED
  BY <1>7, <1>8 DEF StoredIs

-----------------------------------------------------------------------------
(* Saving.                                                                 *)

IsSaved(old, new, e, mask) ==
  /\ new.page = old.page /\ new.kind = old.kind /\ new.popup = old.popup /\ new.gone = old.gone
  /\ new.contents = (IF "contents" \in mask THEN e.contents ELSE old.contents)
  /\ \A s \in Settings : new.settings[s] = IF s \in mask /\ (s = "open" => old.popup)
                                             THEN e.settings[s] ELSE old.settings[s]

Written(k, K, a, mask) ==
  \A n \in DOMAIN k.back.notes :
    \/ K.back.notes[n] = k.back.notes[n]
         /\ (n # k.annots[a].of \/ ~IsCurrent(k, a) \/ k.back.notes[n].gone)
    \/ /\ n = k.annots[a].of /\ IsCurrent(k, a) /\ ~k.back.notes[n].gone
       /\ IsSaved(k.back.notes[n], K.back.notes[n], k.annots[a], mask)

\* Saving an object writes its note and nothing else.
LEMMA SaveWrites ==
  ASSUME NEW k \in Things, ObjectsStand(k), NEW a \in DOMAIN k.annots, NEW mask, NEW K,
         K = SaveAnnotation(k, a, mask)
  PROVE  /\ K \in Things /\ K.annots = k.annots /\ K.popups = k.popups /\ K.desk = k.desk
         /\ K.back.number = k.back.number /\ Len(K.back.notes) = Len(k.back.notes)
         /\ Written(k, K, a, mask)
<1> DEFINE e == k.annots[a]
           note == k.back.notes[e.of]
           Stored(set) == set \in mask /\ (set = "open" => note.popup)
           settings == [set \in Settings |-> IF Stored(set) THEN e.settings[set] ELSE note.settings[set]]
           contents == IF "contents" \in mask THEN e.contents ELSE note.contents
           saved == [note EXCEPT !.contents = contents, !.settings = settings]
           marked == [k EXCEPT !.back.modified = TRUE]
           back == [k.back EXCEPT !.modified = TRUE]
<1>1. /\ k.back \in NoteFiles /\ k.annots \in Seq(NoteObjects)
      /\ k.popups \in Seq(PopupWindows) /\ k.desk \in Desks
      /\ k.back.notes \in Seq(NoteOfFile) /\ e \in NoteObjects
  BY ThingsAre
<1>2. K = IF e.doc = k.back.number /\ ~note.gone
            THEN [marked EXCEPT !.back.notes[e.of] = saved] ELSE marked
  BY Zenon DEF SaveAnnotation
<1>3. /\ back \in NoteFiles /\ back.number = k.back.number /\ back.notes = k.back.notes
  BY <1>1 DEF NoteFiles
<1>4. /\ marked.back = back /\ marked.annots = k.annots /\ marked.popups = k.popups
      /\ marked.desk = k.desk /\ marked \in Things
  <2>1. marked = [k EXCEPT !.back = back]
    OBVIOUS
  <2> HIDE DEF marked, back
  <2>2. marked = [back |-> back, annots |-> k.annots, popups |-> k.popups, desk |-> k.desk]
    BY <2>1 DEF Things
  <2>3. marked \in Things
    BY <2>2, <1>1, <1>3, ThingsMade
  <2> QED
    BY <2>2, <2>3
<1>5. CASE e.doc = k.back.number /\ ~note.gone
  <2> DEFINE notes == [k.back.notes EXCEPT ![e.of] = saved]
             final == [back EXCEPT !.notes = notes]
  <2>1. e.of \in DOMAIN k.back.notes /\ IsCurrent(k, a)
    BY <1>5 DEF ObjectsStand, IsCurrent
  <2>2. note \in NoteOfFile
    BY <2>1, ThingsAre
  <2>3. e.settings \in NoteSettings /\ note.settings \in NoteSettings /\ contents \in Nat
    BY ZenonT(40), <1>1, <2>2 DEF NoteObjects, NoteOfFile
  <2>4. settings \in NoteSettings
    <3>1. \A s \in Settings : settings[s] \in Nat
      BY <2>3 DEF NoteSettings, Settings
    <3> QED
      BY Zenon, <3>1 DEF NoteSettings, Settings
  <2>5. saved \in NoteOfFile /\ IsSaved(note, saved, e, mask)
    <3> HIDE DEF contents
    <3>1. \A s \in Settings : settings[s] = IF s \in mask /\ (s = "open" => note.popup)
                                             THEN e.settings[s] ELSE note.settings[s]
      OBVIOUS
    <3> HIDE DEF settings, note
    <3>2. saved \in NoteOfFile
      BY Zenon, <2>2, <2>3, <2>4 DEF NoteOfFile
    <3>3. /\ saved.page = note.page /\ saved.kind = note.kind /\ saved.popup = note.popup
          /\ saved.gone = note.gone /\ saved.contents = contents /\ saved.settings = settings
      BY <2>2 DEF NoteOfFile
    <3> HIDE DEF saved
    <3> QED
      BY <3>1, <3>2, <3>3 DEF IsSaved, contents
  <2>6. K = [marked EXCEPT !.back.notes[e.of] = saved]
    BY Zenon, <1>2, <1>5
  <2> HIDE DEF saved, e, note
  <2>7. /\ notes \in Seq(NoteOfFile) /\ Len(notes) = Len(k.back.notes) /\ notes[e.of] = saved
        /\ \A n \in DOMAIN k.back.notes : n # e.of => notes[n] = k.back.notes[n]
    BY <1>1, <2>1, <2>5, SeqSet DEF e
  <2>8. final \in NoteFiles /\ final.number = k.back.number /\ final.notes = notes
    <3> HIDE DEF notes, back
    <3> QED
      BY <1>3, <2>7 DEF NoteFiles
  <2>9. K = [back |-> final, annots |-> k.annots, popups |-> k.popups, desk |-> k.desk]
    <3>1. K = [marked EXCEPT !.back = [marked.back EXCEPT !.notes = [marked.back.notes EXCEPT ![e.of] = saved]]]
      BY <2>6
    <3>2. [marked.back EXCEPT !.notes = [marked.back.notes EXCEPT ![e.of] = saved]] = final
      BY <1>3, <1>4
    <3> HIDE DEF final, marked
    <3>3. K = [marked EXCEPT !.back = final]
      BY <3>1, <3>2
    <3> QED
      BY <3>3, <1>4 DEF Things
  <2> HIDE DEF final
  <2>10. K \in Things /\ K.annots = k.annots /\ K.popups = k.popups /\ K.desk = k.desk
           /\ K.back = final
    BY <2>8, <2>9, <1>1, ThingsMade
  <2>11. ASSUME NEW n \in DOMAIN k.back.notes
         PROVE  \/ K.back.notes[n] = k.back.notes[n]
                     /\ (n # k.annots[a].of \/ ~IsCurrent(k, a) \/ k.back.notes[n].gone)
                \/ /\ n = k.annots[a].of /\ IsCurrent(k, a) /\ ~k.back.notes[n].gone
                   /\ IsSaved(k.back.notes[n], K.back.notes[n], k.annots[a], mask)
    <3> HIDE DEF notes
    <3>1. CASE n # e.of
      BY SMTT(20), <3>1, <2>7, <2>8, <2>10 DEF e
    <3>2. CASE n = e.of
      BY <3>2, <2>1, <2>5, <2>7, <2>8, <2>10, <1>5 DEF e, note
    <3> QED
      BY <3>1, <3>2
  <2>12. Written(k, K, a, mask)
    BY <2>11 DEF Written
  <2> QED
    BY <2>7, <2>8, <2>10, <2>12
<1>6. CASE ~(e.doc = k.back.number /\ ~note.gone)
  <2>1. K = marked
    BY Zenon, <1>2, <1>6
  <2> HIDE DEF marked
  <2>2. K \in Things /\ K.annots = k.annots /\ K.popups = k.popups /\ K.desk = k.desk
          /\ K.back.number = k.back.number /\ K.back.notes = k.back.notes
    BY <2>1, <1>3, <1>4
  <2>3. ASSUME NEW n \in DOMAIN k.back.notes
        PROVE  n # k.annots[a].of \/ ~IsCurrent(k, a) \/ k.back.notes[n].gone
    BY <1>6 DEF IsCurrent
  <2>4. Written(k, K, a, mask)
    BY <2>2, <2>3 DEF Written
  <2> QED
    BY SMTT(20), <2>2, <2>4
<1> QED
  BY <1>5, <1>6

\* The structure is as it was.
LEMMA SaveKeeps ==
  ASSUME NEW k \in Things, ObjectsStand(k), NEW a \in DOMAIN k.annots, NEW mask, NEW K,
         K = SaveAnnotation(k, a, mask)
  PROVE  /\ K \in Things /\ K.annots = k.annots /\ K.popups = k.popups /\ K.desk = k.desk
         /\ NotesKept(k, K)
<1>1. /\ K \in Things /\ K.annots = k.annots /\ K.popups = k.popups /\ K.desk = k.desk
      /\ K.back.number = k.back.number /\ Len(K.back.notes) = Len(k.back.notes)
      /\ Written(k, K, a, mask)
  BY SaveWrites
<1>2. NotesKept(k, K)
  BY <1>1 DEF NotesKept, Written, IsSaved
<1> QED
  BY <1>1, <1>2

-----------------------------------------------------------------------------
(* The text of a popup goes into its note.                                 *)

\* But for popup i, what is written is in the notes.
TypedBut(k, i) == \A j \in DOMAIN k.popups : j # i => TypedIs(k, j)
GoodBut(k, L, i) ==
  Ordered(k, L) /\ AllStored(k) /\ TypedBut(k, i) /\ AllPlaced(k) /\ SeenWithPage(k)

\* A text that is set is the text of that object and of no other.
LEMMA WriteContents ==
  ASSUME NEW k \in Things, NEW a \in DOMAIN k.annots, NEW text \in Nat, NEW K,
         K = [k EXCEPT !.annots[a].contents = text]
  PROVE  /\ K \in Things /\ K.back = k.back /\ K.popups = k.popups /\ K.desk = k.desk
         /\ DOMAIN K.annots = DOMAIN k.annots /\ Len(K.annots) = Len(k.annots)
         /\ \A b \in DOMAIN k.annots : b # a => K.annots[b] = k.annots[b]
         /\ K.annots[a] = [k.annots[a] EXCEPT !.contents = text]
<1> DEFINE e == [k.annots[a] EXCEPT !.contents = text]
           annotations == [k.annots EXCEPT ![a] = e]
<1>1. /\ k.back \in NoteFiles /\ k.annots \in Seq(NoteObjects)
      /\ k.popups \in Seq(PopupWindows) /\ k.desk \in Desks /\ k.annots[a] \in NoteObjects
  BY ThingsAre
<1>2. e \in NoteObjects
  BY <1>1 DEF NoteObjects
<1>3. K = [k EXCEPT !.annots = annotations]
  OBVIOUS
<1> HIDE DEF e
<1>4. /\ annotations \in Seq(NoteObjects) /\ Len(annotations) = Len(k.annots)
      /\ DOMAIN annotations = DOMAIN k.annots /\ annotations[a] = e
      /\ \A b \in DOMAIN k.annots : b # a => annotations[b] = k.annots[b]
  BY <1>1, <1>2, SeqSet
<1> HIDE DEF annotations
<1>5. K = [back |-> k.back, annots |-> annotations, popups |-> k.popups, desk |-> k.desk]
  BY <1>3 DEF Things
<1>6. K \in Things
  <2>1. [back |-> k.back, annots |-> annotations, popups |-> k.popups, desk |-> k.desk] \in Things
    BY <1>1, <1>4 DEF Things
  <2> QED
    BY <1>5, <2>1, Zenon
<1> QED
  BY <1>4, <1>5, <1>6 DEF e

\* The text typed in a popup is written to its object and its note, whole.
LEMMA SyncKeeps ==
  ASSUME NEW k, NEW L, NEW i, GoodBut(k, L, i), i \in DOMAIN k.popups, NEW K,
         K = SyncContents(k, i)
  PROVE  /\ K \in Things /\ K.popups = k.popups /\ K.desk = k.desk
         /\ NotesKept(k, K) /\ ObjectsKept(k, K) /\ LinksKept(k, K)
         /\ \A a \in DOMAIN k.annots : K.annots[a].settings = k.annots[a].settings
         /\ Ordered(K, L) /\ AllStored(K) /\ AllPlaced(K) /\ SeenWithPage(K) /\ TypedBut(K, i)
         /\ K.popups[i].text = TextOf(K.annots[K.popups[i].of].contents)
<1> DEFINE a == k.popups[i].of
           text == k.popups[i].text
           contents == {"contents"}
           W == [k EXCEPT !.annots[a].contents = text]
<1>1. /\ k \in Things /\ Ordered(k, L) /\ OwnersKnow(k) /\ ObjectsStand(k) /\ AllStored(k)
      /\ TypedBut(k, i) /\ AllPlaced(k) /\ SeenWithPage(k)
  BY DEF GoodBut, Ordered
<1>2. /\ a \in DOMAIN k.annots /\ k.annots[a].window = i
  BY <1>1 DEF OwnersKnow
<1>3. text \in Nat \ {0} /\ k.annots[a] \in NoteObjects
  BY <1>1, <1>2, ThingsAre DEF PopupWindows
<1>4. K = IF k.annots[a].contents = text THEN k
          ELSE IF k.annots[a].heard THEN SaveAnnotation(W, a, contents) ELSE W
  BY Zenon DEF SyncContents
<1>5. TextOf(text) = text
  BY <1>3 DEF TextOf, Nothing
<1>6. CASE k.annots[a].contents = text
  <2>1. K = k
    BY <1>4, <1>6
  <2>2. NotesKept(k, k) /\ ObjectsKept(k, k) /\ LinksKept(k, k)
    BY DEF NotesKept, ObjectsKept, ObjectKept, LinksKept
  <2>3. k.popups[i].text = TextOf(k.annots[k.popups[i].of].contents)
    BY <1>5, <1>6
  <2> QED
    BY <1>1, <2>1, <2>2, <2>3
<1>7. CASE k.annots[a].contents # text
  <2> HIDE DEF contents, W
  <2>1. /\ W \in Things /\ W.back = k.back /\ W.popups = k.popups /\ W.desk = k.desk
        /\ DOMAIN W.annots = DOMAIN k.annots /\ Len(W.annots) = Len(k.annots)
        /\ \A b \in DOMAIN k.annots : b # a => W.annots[b] = k.annots[b]
        /\ W.annots[a] = [k.annots[a] EXCEPT !.contents = text]
    <3> HIDE DEF a, text
    <3> QED
      BY <1>1, <1>2, <1>3, WriteContents DEF W
  <2>2. /\ W.annots[a].contents = text /\ W.annots[a].settings = k.annots[a].settings
        /\ W.annots[a].heard = k.annots[a].heard /\ W.annots[a].window = k.annots[a].window
        /\ ObjectKept(k, W, a) /\ W.annots[a].of = k.annots[a].of
    BY <2>1, <1>3 DEF NoteObjects, ObjectKept
  <2> HIDE DEF a, text
  <2>3. NotesKept(k, W) /\ ObjectsKept(k, W) /\ LinksKept(k, W) /\ OwnersKept(k, W) /\ ActorsAre(W)
          /\ \A b \in DOMAIN k.annots : W.annots[b].settings = k.annots[b].settings
    <3>1. NotesKept(k, W)
      BY <2>1 DEF NotesKept
    <3>2. ObjectsKept(k, W) /\ LinksKept(k, W)
      BY <2>1, <2>2 DEF ObjectsKept, ObjectKept, LinksKept
    <3>3. OwnersKept(k, W) /\ ActorsAre(W)
      BY <2>1, <1>1 DEF OwnersKept, ActorsAre, OwnersKnow
    <3>4. \A b \in DOMAIN k.annots : W.annots[b].settings = k.annots[b].settings
      BY <2>1, <2>2
    <3> QED
      BY <3>1, <3>2, <3>3, <3>4
  <2>4. Ordered(W, L) /\ ObjectsStand(W)
    <3>1. W.desk.early = k.desk.early /\ W.desk.mapped = k.desk.mapped
      BY <2>1
    <3>2. Ordered(W, L)
      BY <1>1, <2>1, <2>3, <3>1, OrderStays
    <3> QED
      BY <3>2 DEF Ordered
  <2>5. \A b \in DOMAIN k.annots : b # a => StoredIs(W, b)
    <3> SUFFICES ASSUME NEW b \in DOMAIN k.annots, b # a PROVE StoredIs(W, b)
      OBVIOUS
    <3>1. StoredIs(k, b)
      BY <1>1 DEF AllStored
    <3> QED
      BY Zenon, <3>1, <2>1 DEF StoredIs, IsCurrent
  <2>6. /\ K \in Things /\ K.annots = W.annots /\ K.popups = W.popups /\ K.desk = W.desk
        /\ NotesKept(W, K) /\ AllStored(K)
    <3>1. CASE ~k.annots[a].heard
      <4>1. K = W
        BY <3>1, <1>4, <1>7
      <4>2. NotesKept(W, W)
        BY SMTT(20) DEF NotesKept
      <4>3. StoredIs(W, a)
        <5>1. StoredIs(k, a)
          BY <1>1, <1>2 DEF AllStored
        <5>2. k.annots[a].window # 0
          BY <1>1, <1>2, ThingsAre
        <5> QED
          BY ZenonT(40), <5>1, <5>2, <2>1, <2>2, <3>1, <2>3, <1>2 DEF StoredIs, IsCurrent, ObjectKept
      <4>4. AllStored(W)
        BY <2>1, <2>5, <4>3 DEF AllStored
      <4> QED
        BY <4>1, <4>2, <4>4, <2>1
    <3>2. CASE k.annots[a].heard
      <4>1. K = SaveAnnotation(W, a, contents) /\ a \in DOMAIN W.annots
        BY <3>2, <1>4, <1>7, <1>2, <2>1
      <4>2. /\ K \in Things /\ K.annots = W.annots /\ K.popups = W.popups /\ K.desk = W.desk
            /\ NotesKept(W, K)
        BY <4>1, <2>1, <2>4, SaveKeeps
      <4>3. K.back.number = W.back.number /\ Written(W, K, a, contents)
        BY <4>1, <2>1, <2>4, SaveWrites
      <4>4. ASSUME NEW b \in DOMAIN k.annots, b # a PROVE StoredIs(K, b)
        <5>1. StoredIs(W, b) /\ b \in DOMAIN W.annots
          BY <4>4, <2>5, <2>1
        <5>2. SUFFICES ASSUME IsCurrent(K, b) PROVE StoredIs(K, b)
          BY Zenon DEF StoredIs
        <5>3. IsCurrent(W, b) /\ W.annots[b].of \in DOMAIN W.back.notes
          BY <5>1, <5>2, <4>2, <4>3, <2>4 DEF IsCurrent, ObjectsStand
        <5>4. IsCurrent(W, a) => W.annots[b].of # W.annots[a].of
          BY <5>1, <5>3, <4>1, <4>4, <2>4 DEF ObjectsStand
        <5>5. K.back.notes[W.annots[b].of] = W.back.notes[W.annots[b].of]
          BY SMTT(20), <5>3, <5>4, <4>3 DEF Written
        <5> QED
          BY ZenonT(40), <5>1, <5>5, <4>2, <4>3 DEF StoredIs, IsCurrent
      <4>5. StoredIs(K, a)
        <5> DEFINE n == W.back.notes[W.annots[a].of]
                   N == K.back.notes[W.annots[a].of]
                   e == k.annots[a]
                   E == K.annots[a]
        <5>1. SUFFICES ASSUME IsCurrent(K, a), ~N.gone PROVE StoredIs(K, a)
          BY Zenon, <4>2 DEF StoredIs
        <5>2. IsCurrent(W, a) /\ W.annots[a].of \in DOMAIN W.back.notes /\ IsCurrent(k, a)
          BY <5>1, <4>1, <4>2, <4>3, <2>1, <2>2, <2>4 DEF IsCurrent, ObjectsStand, ObjectKept
        <5>3. ~n.gone
          BY <5>1, <5>2, <4>2 DEF NotesKept
        <5>4. IsSaved(n, N, W.annots[a], contents)
          BY SMTT(20), <5>2, <5>3, <4>3 DEF Written
        <5>5. N.contents = text /\ N.popup = n.popup /\ \A s \in Settings : N.settings[s] = n.settings[s]
          <6>1. "contents" \in contents /\ \A s \in Settings : s \notin contents
            BY DEF contents, Settings
          <6> QED
            BY Zenon, <6>1, <5>4, <2>2 DEF IsSaved
        <5>6. \A s \in Settings : \/ e.settings[s] = n.settings[s]
                                  \/ s = "open" /\ ~n.popup
                                  \/ s = "label" /\ n.settings[s] = Nobody
          <6>1. StoredIs(k, a)
            BY <1>1, <1>2 DEF AllStored
          <6>2. k.back.notes[k.annots[a].of] = n
            BY <2>1, <2>2
          <6> HIDE DEF n
          <6> QED
            BY <6>1, <6>2, <5>2, <5>3 DEF StoredIs
        <5>7. E.contents = text /\ E.settings = e.settings /\ E.of = W.annots[a].of
          BY SMTT(20), <4>2, <2>2
        <5> HIDE DEF n, e
        <5>8. \A s \in Settings : \/ E.settings[s] = N.settings[s]
                                  \/ s = "open" /\ ~N.popup
                                  \/ s = "label" /\ N.settings[s] = Nobody
          BY <5>5, <5>6, <5>7
        <5> QED
          BY ZenonT(40), <5>5, <5>7, <5>8 DEF StoredIs
      <4>6. AllStored(K)
        BY <4>2, <4>4, <4>5, <2>1 DEF AllStored
      <4> QED
        BY <4>2, <4>6
    <3> QED
      BY <3>1, <3>2
  <2>7. NotesKept(k, K)
    BY <2>1, <2>6 DEF NotesKept
  <2>8. ObjectsKept(k, K) /\ LinksKept(k, K) /\ OwnersKept(k, K) /\ ActorsAre(K)
          /\ \A b \in DOMAIN k.annots : K.annots[b].settings = k.annots[b].settings
    BY <2>3, <2>6 DEF ObjectsKept, ObjectKept, LinksKept, OwnersKept, ActorsAre
  <2>9. Ordered(K, L)
    <3>1. K.desk.early = k.desk.early /\ K.desk.mapped = k.desk.mapped
      BY <2>1, <2>6
    <3> QED
      BY <1>1, <2>6, <2>7, <2>8, <3>1, OrderStays
  <2>10. AllPlaced(K)
    <3> SUFFICES ASSUME NEW j \in DOMAIN k.popups PROVE PlacedIs(K, j)
      BY <2>1, <2>6 DEF AllPlaced
    <3>1. PlacedIs(k, j) /\ k.popups[j].made \in DOMAIN k.annots
      BY <1>1 DEF AllPlaced, OwnersKnow
    <3> QED
      BY <3>1, <2>1, <2>6, <2>8 DEF PlacedIs
  <2>11. SeenWithPage(K)
    <3>1. DOMAIN K.annots = DOMAIN k.annots /\ K.back.number = k.back.number
      BY <2>1, <2>6, <2>7 DEF NotesKept
    <3> QED
      BY <3>1, <1>1, <2>1, <2>6, <2>8
      DEF SeenWithPage, IsCurrent, ObjectsKept, ObjectKept, LinksKept
  <2>12. TypedBut(K, i)
    <3> SUFFICES ASSUME NEW j \in DOMAIN k.popups, j # i PROVE TypedIs(K, j)
      BY <2>1, <2>6 DEF TypedBut
    <3>1. TypedIs(k, j)
      BY <1>1 DEF TypedBut
    <3>2. k.popups[j].of \in DOMAIN k.annots /\ k.popups[j].of # a
      BY <1>1, <1>2 DEF OwnersKnow
    <3>3. K.annots[k.popups[j].of] = k.annots[k.popups[j].of]
      BY <3>2, <2>1, <2>6
    <3> QED
      BY <3>1, <3>3, <2>1, <2>6 DEF TypedIs
  <2>13. K.popups[i].text = TextOf(K.annots[K.popups[i].of].contents)
    BY ZenonT(40), <1>5, <2>1, <2>2, <2>6 DEF a, text
  <2> QED
    BY <2>1, <2>6, <2>7, <2>8, <2>9, <2>10, <2>11, <2>12, <2>13
<1> QED
  BY <1>6, <1>7

-----------------------------------------------------------------------------
(* The popups and what the view remembers.                                 *)

\* Popups that are moved or hidden change neither the lists nor what is stored.
LEMMA PopupsChange ==
  ASSUME NEW k, NEW L, Ordered(k, L), AllStored(k), NEW K \in Things,
         K.back = k.back, K.annots = k.annots, OwnersKept(k, K), ActorsAre(K),
         K.desk.early = k.desk.early, K.desk.mapped = k.desk.mapped
  PROVE  Ordered(K, L) /\ AllStored(K)
<1>1. k \in Things /\ ObjectsStand(k)
  BY DEF Ordered
<1>2. NotesKept(k, K) /\ DataKept(k, K) /\ ObjectsKept(k, K) /\ LinksKept(k, K) /\ TextsKept(k, K)
  BY DEF NotesKept, DataKept, ObjectsKept, ObjectKept, LinksKept, TextsKept
<1>3. Ordered(K, L)
  BY <1>2, OrderStays
<1>4. AllStored(K)
  BY <1>1, <1>2, StoredStays
<1> QED
  BY <1>3, <1>4

\* The texts stay as they are, and so does the popup with the keyboard.
LEMMA TextsStay ==
  ASSUME NEW k \in Things, NEW K \in Things, AllTyped(k), K.annots = k.annots,
         OwnersKept(k, K), K.desk.focus = k.desk.focus,
         \A i \in DOMAIN k.popups : K.popups[i].text = k.popups[i].text
  PROVE  AllTyped(K)
<1>1. DOMAIN K.popups = DOMAIN k.popups
  BY ThingsAre DEF OwnersKept
<1> QED
  BY <1>1 DEF AllTyped, TypedIs, OwnersKept

\* The popup that loses the keyboard first writes what was typed in it.
LEMMA LeaveKeeps ==
  ASSUME NEW k, NEW L, Good(k, L), NEW K, K = LeaveFocus(k)
  PROVE  /\ Good(K, L) /\ K.popups = k.popups /\ K.desk = [k.desk EXCEPT !.focus = 0]
         /\ NotesKept(k, K) /\ ObjectsKept(k, K) /\ LinksKept(k, K)
         /\ \A a \in DOMAIN k.annots : K.annots[a].settings = k.annots[a].settings
<1>1. /\ k \in Things /\ Ordered(k, L) /\ OwnersKnow(k) /\ ObjectsStand(k) /\ AllStored(k)
      /\ AllTyped(k) /\ AllPlaced(k) /\ SeenWithPage(k) /\ k.desk \in Desks
  BY ThingsAre DEF Good, Ordered
<1> DEFINE i == k.desk.focus
<1>2. CASE i = 0
  <2>1. K = k
    BY <1>2 DEF LeaveFocus
  <2>2. k.desk = [k.desk EXCEPT !.focus = 0]
    BY <1>1, <1>2 DEF Desks
  <2>3. NotesKept(k, k) /\ ObjectsKept(k, k) /\ LinksKept(k, k)
    BY DEF NotesKept, ObjectsKept, ObjectKept, LinksKept
  <2> QED
    BY <2>1, <2>2, <2>3
<1>3. CASE i # 0
  <2> DEFINE S == SyncContents(k, i)
             table == [k.desk EXCEPT !.focus = 0]
  <2>1. K = [S EXCEPT !.desk.focus = 0]
    BY <1>3 DEF LeaveFocus
  <2>2. GoodBut(k, L, i) /\ i \in DOMAIN k.popups
    <3>1. i \in DOMAIN k.popups
      BY <1>1, <1>3, ThingsAre DEF OwnersKnow
    <3> QED
      BY <1>1, <3>1 DEF GoodBut, TypedBut, AllTyped
  <2>3. /\ S \in Things /\ S.popups = k.popups /\ S.desk = k.desk
        /\ NotesKept(k, S) /\ ObjectsKept(k, S) /\ LinksKept(k, S)
        /\ \A a \in DOMAIN k.annots : S.annots[a].settings = k.annots[a].settings
        /\ Ordered(S, L) /\ AllStored(S) /\ AllPlaced(S) /\ SeenWithPage(S) /\ TypedBut(S, i)
        /\ S.popups[i].text = TextOf(S.annots[S.popups[i].of].contents)
    <3> HIDE DEF i, S
    <3> QED
      BY <2>2, SyncKeeps DEF S
  <2> HIDE DEF S, i
  <2>4. K = [S EXCEPT !.desk = table]
    BY <2>1, <2>3
  <2>5. table \in Desks
    BY <1>1 DEF Desks
  <2>6. /\ table.focus = 0 /\ table.menu = k.desk.menu /\ table.dialog = k.desk.dialog
        /\ table.early = k.desk.early /\ table.mapped = k.desk.mapped
        /\ table.range = k.desk.range /\ table.left = k.desk.left
        /\ table.pending = k.desk.pending /\ table.scroll = k.desk.scroll
        /\ table.scale = k.desk.scale
    BY <1>1 DEF Desks
  <2> HIDE DEF table
  <2>7. /\ K.back = S.back /\ K.annots = S.annots /\ K.popups = S.popups /\ K.desk = table
        /\ K \in Things
    <3>1. K = [back |-> S.back, annots |-> S.annots, popups |-> S.popups, desk |-> table]
      BY <2>3, <2>4 DEF Things
    <3>2. [back |-> S.back, annots |-> S.annots, popups |-> S.popups, desk |-> table] \in Things
      BY <2>3, <2>5, ThingsAre DEF Things
    <3> QED
      BY <3>1, <3>2
  <2>8. /\ OwnersKept(S, K) /\ ActorsAre(K)
        /\ K.desk.early = S.desk.early /\ K.desk.mapped = S.desk.mapped
    <3>1. ActorsAre(K)
      BY <2>3, <2>6, <2>7, <1>1, ThingsAre DEF ActorsAre, OwnersKnow, ObjectsKept
    <3> QED
      BY SMTT(20), <3>1, <2>3, <2>6, <2>7 DEF OwnersKept
  <2>9. Ordered(K, L) /\ AllStored(K)
    BY <2>3, <2>7, <2>8, PopupsChange
  <2>10. AllPlaced(K)
    <3> SUFFICES ASSUME NEW j \in DOMAIN S.popups PROVE PlacedIs(K, j)
      BY <2>7 DEF AllPlaced
    <3>1. PlacedIs(S, j)
      BY <2>3 DEF AllPlaced
    <3> QED
      BY <3>1, <2>3, <2>6, <2>7 DEF PlacedIs, ToView
  <2>11. SeenWithPage(K)
    BY <2>3, <2>6, <2>7 DEF SeenWithPage, IsCurrent
  <2>12. AllTyped(K)
    <3> SUFFICES ASSUME NEW j \in DOMAIN S.popups PROVE TypedIs(K, j)
      BY <2>7 DEF AllTyped
    <3>1. S.popups[j].text = TextOf(S.annots[S.popups[j].of].contents)
      <4>1. CASE j = i
        BY <4>1, <2>3
      <4>2. CASE j # i
        BY <4>2, <2>3 DEF TypedBut, TypedIs, i
      <4> QED
        BY <4>1, <4>2
    <3> QED
      BY <3>1, <2>7 DEF TypedIs
  <2>13. NotesKept(k, K) /\ ObjectsKept(k, K) /\ LinksKept(k, K)
    BY <2>3, <2>7 DEF NotesKept, ObjectsKept, ObjectKept, LinksKept
  <2> QED
    BY <2>3, <2>7, <2>9, <2>10, <2>11, <2>12, <2>13 DEF Good, table
<1> QED
  BY <1>2, <1>3

\* The pages in view follow one another.
LEMMA RangeIs ==
  ASSUME NEW at \in {0, 4, 8}, NEW scale \in {1, 2}
  PROVE  \E lo \in AnnotPages, hi \in AnnotPages :
           /\ lo <= hi /\ Min(InRange(at, scale)) = lo /\ Max(InRange(at, scale)) = hi
           /\ \A p \in AnnotPages : p \in InRange(at, scale) <=> lo <= p /\ p <= hi
<1> DEFINE R == InRange(at, scale)
<1>1. NotePages \in Nat /\ NotePages >= 3
  BY NoteAssumption
<1>2. ASSUME NEW lo \in AnnotPages, NEW hi \in AnnotPages, lo <= hi,
             \A p \in AnnotPages : p \in R <=> lo <= p /\ p <= hi
      PROVE  Min(R) = lo /\ Max(R) = hi
  <2>1. R \in SUBSET AnnotPages /\ lo \in Int /\ hi \in Int
    BY <1>1 DEF InRange, AnnotPages
  <2> HIDE DEF R
  <2>2. lo \in R /\ hi \in R /\ \A p \in R : p \in Int /\ lo <= p /\ p <= hi
    BY <1>1, <1>2, <2>1 DEF AnnotPages
  <2>3. Min(R) \in R /\ \A p \in R : Min(R) <= p
    BY <2>2 DEF Min
  <2>4. Max(R) \in R /\ \A p \in R : Max(R) >= p
    BY <2>2 DEF Max
  <2>5. Min(R) \in Int /\ lo <= Min(R) /\ Min(R) <= lo
    BY <2>2, <2>3
  <2>6. Max(R) \in Int /\ hi <= Max(R) /\ Max(R) <= hi
    BY <2>2, <2>4
  <2>7. Min(R) = lo
    BY <2>1, <2>5
  <2>8. Max(R) = hi
    BY <2>1, <2>6
  <2> QED
    BY <2>7, <2>8
<1>3. \E lo \in AnnotPages, hi \in AnnotPages :
        lo <= hi /\ \A p \in AnnotPages : p \in R <=> lo <= p /\ p <= hi
  <2>1. CASE at = 0 /\ scale = 1
    <3>1. 1 \in AnnotPages /\ 2 \in AnnotPages /\ \A p \in AnnotPages : p \in R <=> 1 <= p /\ p <= 2
      BY <1>1, <2>1 DEF InRange, AnnotPages, PageHeight, SeenHeight
    <3> QED
      BY <3>1
  <2>2. CASE at = 0 /\ scale = 2
    <3>1. 1 \in AnnotPages /\ \A p \in AnnotPages : p \in R <=> 1 <= p /\ p <= 1
      BY <1>1, <2>2 DEF InRange, AnnotPages, PageHeight, SeenHeight
    <3> QED
      BY <3>1
  <2>3. CASE at = 4 /\ scale = 1
    <3>1. 2 \in AnnotPages /\ 3 \in AnnotPages /\ \A p \in AnnotPages : p \in R <=> 2 <= p /\ p <= 3
      BY <1>1, <2>3 DEF InRange, AnnotPages, PageHeight, SeenHeight
    <3> QED
      BY <3>1
  <2>4. CASE at = 4 /\ scale = 2
    <3>1. 1 \in AnnotPages /\ 2 \in AnnotPages /\ \A p \in AnnotPages : p \in R <=> 1 <= p /\ p <= 2
      BY <1>1, <2>4 DEF InRange, AnnotPages, PageHeight, SeenHeight
    <3> QED
      BY <3>1
  <2>5. CASE at = 8 /\ scale = 1
    <3>1. CASE NotePages = 3
      <4>1. 3 \in AnnotPages /\ \A p \in AnnotPages : p \in R <=> 3 <= p /\ p <= 3
        BY <3>1, <2>5 DEF InRange, AnnotPages, PageHeight, SeenHeight
      <4> QED
        BY <4>1
    <3>2. CASE NotePages # 3
      <4>1. 3 \in AnnotPages /\ 4 \in AnnotPages /\ \A p \in AnnotPages : p \in R <=> 3 <= p /\ p <= 4
        BY <1>1, <3>2, <2>5 DEF InRange, AnnotPages, PageHeight, SeenHeight
      <4> QED
        BY <4>1
    <3> QED
      BY <3>1, <3>2
  <2>6. CASE at = 8 /\ scale = 2
    <3>1. 2 \in AnnotPages /\ \A p \in AnnotPages : p \in R <=> 2 <= p /\ p <= 2
      BY <1>1, <2>6 DEF InRange, AnnotPages, PageHeight, SeenHeight
    <3> QED
      BY <3>1
  <2> QED
    BY <2>1, <2>2, <2>3, <2>4, <2>5, <2>6
<1> QED
  BY <1>2, <1>3

-----------------------------------------------------------------------------
(* Scrolling.                                                              *)

\* A popup that is nowhere else and says nothing else; it may be hidden.
LikeBefore(w, W) ==
  /\ W.of = w.of /\ W.made = w.made /\ W.page = w.page /\ W.place = w.place
  /\ W.last = w.last /\ W.missed = w.missed /\ W.title = w.title /\ W.text = w.text
  /\ W.visible = w.visible /\ W.y = w.y /\ W.parent = w.parent /\ W.at = w.at
  /\ W.shown => w.shown
LikeBeforeAll(k, K) == \A i \in DOMAIN k.popups : LikeBefore(k.popups[i], K.popups[i])
TableLike(d, D) ==
  /\ D.scroll = d.scroll /\ D.scale = d.scale /\ D.origin = d.origin /\ D.pending = d.pending
  /\ D.mapped = d.mapped /\ D.early = d.early /\ D.focus = d.focus /\ D.menu = d.menu
  /\ D.dialog = d.dialog

\* A page that was in view and is not any more has been passed.
LEMMA PassedIs ==
  ASSUME NEW d \in Desks, NEW at \in {0, 4, 8}, NEW scale \in {1, 2}, NEW p \in d.range,
         p \notin InRange(at, scale)
  PROVE  p \in Passed(d, InRange(at, scale))
<1> DEFINE R == InRange(at, scale)
<1>1. PICK at0 \in {0, 4, 8}, scale0 \in {1, 2} : d.range = InRange(at0, scale0)
  BY DEF Desks, Ranges
<1>2. p \in AnnotPages
  BY <1>1 DEF InRange
<1>3. PICK lo0 \in AnnotPages, hi0 \in AnnotPages :
        /\ lo0 <= hi0 /\ Min(InRange(at0, scale0)) = lo0 /\ Max(InRange(at0, scale0)) = hi0
        /\ \A q \in AnnotPages : q \in InRange(at0, scale0) <=> lo0 <= q /\ q <= hi0
  BY RangeIs
<1>4. PICK lo \in AnnotPages, hi \in AnnotPages :
        /\ lo <= hi /\ Min(R) = lo /\ Max(R) = hi
        /\ \A q \in AnnotPages : q \in R <=> lo <= q /\ q <= hi
  BY RangeIs
<1>5. lo0 <= p /\ p <= hi0 /\ ~(lo <= p /\ p <= hi)
  <2>1. p \in InRange(at0, scale0) /\ p \notin R
    BY <1>1
  <2> HIDE DEF R
  <2> QED
    BY <2>1, <1>2, <1>3, <1>4
<1>6. \/ Min(d.range) <= p /\ p < Min(R)
      \/ Max(R) < p /\ p <= Max(d.range)
  <2>1. Min(d.range) = lo0 /\ Max(d.range) = hi0
    BY <1>1, <1>3
  <2>2. lo0 \in Int /\ hi0 \in Int /\ lo \in Int /\ hi \in Int /\ p \in Int
    BY <1>2 DEF AnnotPages
  <2> HIDE DEF R
  <2> QED
    BY <2>1, <2>2, <1>4, <1>5
<1> QED
  BY <1>2, <1>6 DEF Passed

\* The popups of pages that are passed are hidden, and nothing else changes.
LEMMA RangeUpdates ==
  ASSUME NEW k, Ordered(k, listed), AllStored(k), AllTyped(k), SeenWithPage(k), NEW K,
         K = UpdateRange(k)
  PROVE  /\ K \in Things /\ Ordered(K, listed) /\ AllStored(K) /\ AllTyped(K) /\ SeenWithPage(K)
         /\ K.back = k.back /\ K.annots = k.annots /\ OwnersKept(k, K)
         /\ LikeBeforeAll(k, K) /\ TableLike(k.desk, K.desk)
<1> DEFINE range == InRange(k.desk.scroll, k.desk.scale)
           passed == Passed(k.desk, range)
           hidden == passed \intersect k.desk.mapped
           windows == {k.annots[a].window : a \in UNION {Range(listed[p]) : p \in hidden}}
           no == FALSE
           off == [i \in DOMAIN k.popups |-> IF i \in windows THEN [k.popups[i] EXCEPT !.shown = no]
                                             ELSE k.popups[i]]
           left == (k.desk.left \ hidden) \cup (passed \ k.desk.mapped)
           table == [k.desk EXCEPT !.range = range, !.left = left]
<1>1. /\ k \in Things /\ listed \in Lists /\ OwnersKnow(k) /\ ObjectsStand(k)
      /\ ListsHold(k, listed) /\ k.desk \in Desks /\ k.popups \in Seq(PopupWindows)
      /\ k.back \in NoteFiles /\ k.annots \in Seq(NoteObjects)
      /\ DOMAIN k.popups = 1 .. Len(k.popups)
  BY ThingsAre DEF Ordered
<1>2. K = [k EXCEPT !.popups = off, !.desk = table]
  <2>1. K = [k EXCEPT !.popups = off, !.desk.range = range, !.desk.left = left]
    BY Zenon DEF UpdateRange
  <2> HIDE DEF off, range, left
  <2> QED
    BY <2>1, <1>1 DEF Things, Desks
<1>3. table \in Desks /\ TableLike(k.desk, table) /\ table.range = range /\ table.left = left
  <2>1. k.desk.scroll \in {0, 4, 8} /\ k.desk.scale \in {1, 2} /\ k.desk.left \in SUBSET AnnotPages
    BY <1>1 DEF Desks
  <2>2. range \in Ranges
    BY <2>1 DEF Ranges
  <2>3. left \in SUBSET AnnotPages
    BY <2>1 DEF Passed
  <2> HIDE DEF range, left
  <2>4. table.range = range /\ table.left = left
    BY <1>1 DEF Desks
  <2>5. TableLike(k.desk, table)
    BY <1>1 DEF Desks, TableLike
  <2>6. table \in Desks
    BY <1>1, <2>2, <2>3 DEF Desks
  <2> QED
    BY <2>4, <2>5, <2>6
<1> HIDE DEF table
<1>4. \A i \in DOMAIN k.popups : /\ off[i] \in PopupWindows /\ LikeBefore(k.popups[i], off[i])
                                 /\ i \in windows => ~off[i].shown
  <2> SUFFICES ASSUME NEW i \in DOMAIN k.popups
               PROVE  /\ off[i] \in PopupWindows /\ LikeBefore(k.popups[i], off[i])
                      /\ i \in windows => ~off[i].shown
    OBVIOUS
  <2>1. k.popups[i] \in PopupWindows /\ no \in BOOLEAN
    BY <1>1
  <2>2. off[i] = IF i \in windows THEN [k.popups[i] EXCEPT !.shown = no] ELSE k.popups[i]
    OBVIOUS
  <2>3. ~no
    OBVIOUS
  <2> HIDE DEF off, windows, no
  <2>4. [k.popups[i] EXCEPT !.shown = no] \in PopupWindows
    BY <2>1 DEF PopupWindows
  <2>5. [k.popups[i] EXCEPT !.shown = no].shown = no
    BY <2>1 DEF PopupWindows
  <2>6. LikeBefore(k.popups[i], [k.popups[i] EXCEPT !.shown = no])
    BY <2>1, <2>3 DEF PopupWindows, LikeBefore
  <2>7. LikeBefore(k.popups[i], k.popups[i])
    BY DEF LikeBefore
  <2> QED
    BY <2>1, <2>2, <2>3, <2>4, <2>5, <2>6, <2>7
<1>5. off = [i \in DOMAIN k.popups |-> off[i]]
  OBVIOUS
<1> HIDE DEF off, windows
<1>6. off \in Seq(PopupWindows) /\ Len(off) = Len(k.popups) /\ DOMAIN off = DOMAIN k.popups
  BY <1>1, <1>4, <1>5, SeqLike
<1>7. /\ K = [back |-> k.back, annots |-> k.annots, popups |-> off, desk |-> table]
  BY <1>1, <1>2 DEF Things
<1>8. K \in Things
  <2>1. [back |-> k.back, annots |-> k.annots, popups |-> off, desk |-> table] \in Things
    BY <1>1, <1>3, <1>6 DEF Things
  <2> QED
    BY <2>1, <1>7
<1>9. K.back = k.back /\ K.annots = k.annots /\ K.popups = off /\ K.desk = table
  BY <1>7
<1>10. OwnersKept(k, K) /\ LikeBeforeAll(k, K) /\ TableLike(k.desk, K.desk)
  BY <1>3, <1>4, <1>6, <1>9 DEF OwnersKept, LikeBefore, LikeBeforeAll
<1>11. ActorsAre(K)
  BY <1>1, <1>3, <1>6, <1>9 DEF ActorsAre, OwnersKnow, TableLike
<1>12. Ordered(K, listed) /\ AllStored(K)
  <2>1. K.desk.early = k.desk.early /\ K.desk.mapped = k.desk.mapped
    BY <1>10 DEF TableLike
  <2> QED
    BY <2>1, <1>8, <1>9, <1>10, <1>11, PopupsChange
<1>13. AllTyped(K)
  <2>1. K.desk.focus = k.desk.focus /\ \A i \in DOMAIN k.popups : K.popups[i].text = k.popups[i].text
    BY <1>10 DEF TableLike, LikeBeforeAll, LikeBefore
  <2> QED
    BY <2>1, <1>1, <1>8, <1>9, <1>10, TextsStay
<1>14. SeenWithPage(K)
  <2> SUFFICES ASSUME NEW a \in DOMAIN k.annots, IsCurrent(k, a), k.annots[a].window # 0,
                      off[k.annots[a].window].shown
               PROVE  k.annots[a].page \in range \cup left
    BY <1>3, <1>9 DEF SeenWithPage, IsCurrent
  <2> DEFINE i == k.annots[a].window
             p == k.annots[a].page
  <2>1. i \in DOMAIN k.popups /\ k.popups[i].of = a
    BY <1>1 DEF OwnersKnow
  <2>2. i \notin windows /\ k.popups[i].shown
    BY <1>4, <2>1 DEF LikeBefore
  <2>3. p \in AnnotPages /\ \E n \in DOMAIN listed[p] : listed[p][n] = a
    <3>1. k.annots[a] \in NoteObjects
      BY <1>1, ThingsAre
    <3> QED
      BY <3>1, <1>1 DEF ListsHold, NoteObjects
  <2>4. p \notin hidden
    <3> SUFFICES ASSUME p \in hidden PROVE FALSE
      OBVIOUS
    <3>1. a \in Range(listed[p])
      BY <2>3 DEF Range
    <3>2. a \in UNION {Range(listed[q]) : q \in hidden}
      BY <3>1
    <3>3. i \in windows
      BY <3>2 DEF windows
    <3> QED
      BY <3>3, <2>2
  <2>5. p \in k.desk.range \cup k.desk.left
    BY <1>1, <2>2 DEF SeenWithPage
  <2>6. k.desk.scroll \in {0, 4, 8} /\ k.desk.scale \in {1, 2}
    BY <1>1 DEF Desks
  <2>7. CASE p \in range
    BY <2>7
  <2>8. CASE p \notin range /\ p \in k.desk.left
    BY <2>8, <2>4
  <2>9. CASE p \notin range /\ p \in k.desk.range
    <3>1. p \in passed
      <4> HIDE DEF p
      <4> QED
        BY <2>6, <2>9, <1>1, PassedIs
    <3> QED
      BY <3>1, <2>4
  <2> QED
    BY <2>5, <2>7, <2>8, <2>9
<1> QED
  BY <1>8, <1>9, <1>10, <1>12, <1>13, <1>14

\* What is placed stays so.
LEMMA PlacesStay ==
  ASSUME NEW k \in Things, AllPlaced(k), NEW K \in Things, K.annots = k.annots,
         OwnersKept(k, K), LikeBeforeAll(k, K), TableLike(k.desk, K.desk)
  PROVE  AllPlaced(K)
<1>1. DOMAIN K.popups = DOMAIN k.popups
  BY ThingsAre DEF OwnersKept
<1> SUFFICES ASSUME NEW i \in DOMAIN k.popups PROVE PlacedIs(K, i)
  BY <1>1 DEF AllPlaced
<1>2. PlacedIs(k, i) /\ LikeBefore(k.popups[i], K.popups[i])
  BY DEF AllPlaced, LikeBeforeAll
<1> QED
  BY <1>2 DEF PlacedIs, LikeBefore, TableLike, ToView

\* The state of the specification as one record.
LEMMA ShapeHas ==
  /\ Shape.back = poppler /\ Shape.annots = annots /\ Shape.popups = popups /\ Shape.desk = desk
BY DEF Shape

\* What is left to show of a call, when what it makes of the view is known.
LEMMA CallEndsAs ==
  ASSUME NotesInvariant, NEW K, ShapeIs(K), Good(K, listed'),
         K.back.number = poppler.number, noteCalls' = noteCalls \/ NoteCall
  PROVE  NotesInvariant'
<1>1. K \in Things
  BY DEF Good, Ordered
<1>2. K = [back |-> K.back, annots |-> K.annots, popups |-> K.popups, desk |-> K.desk]
  BY <1>1 DEF Things
<1>3. Shape' = K
  BY <1>2 DEF ShapeIs, Shape
<1>4. Good(Shape', listed')
  BY <1>3
<1>5. noteCalls' \in 0 .. NoteCalls /\ poppler'.number \in 1 .. noteCalls' + 1
  <2>1. noteCalls \in 0 .. NoteCalls /\ poppler.number \in 1 .. noteCalls + 1 /\ NoteCalls \in Nat
    BY NoteAssumption DEF NotesInvariant
  <2>2. poppler'.number = poppler.number /\ poppler.number \in Nat
    <3>1. Shape \in Things
      BY DEF NotesInvariant, Good, Ordered
    <3> QED
      BY <3>1, ThingsAre, ShapeHas DEF ShapeIs
  <2> QED
    BY <2>1, <2>2 DEF NoteCall
<1> QED
  BY <1>4, <1>5 DEF NotesInvariant

\* A call ends with the invariant when what it leaves behind is good.
LEMMA CallEnds ==
  ASSUME NotesInvariant, NEW K, ShapeIs(K), Good(K, listed), listed' = listed,
         K.back.number = poppler.number, noteCalls' = noteCalls \/ NoteCall
  PROVE  NotesInvariant'
BY CallEndsAs

IsMoved(w, y, parent, m) ==
  /\ m \in PopupWindows /\ m.y = y /\ m.parent = parent /\ m.at = Clamp(y, parent)
  /\ m.of = w.of /\ m.made = w.made /\ m.page = w.page /\ m.place = w.place
  /\ m.last = w.last /\ m.title = w.title /\ m.text = w.text
  /\ m.visible = w.visible /\ m.shown = w.shown

\* A popup that is moved is within its parent, and its note is where it was.
LEMMA MoveIs ==
  ASSUME NEW w \in PopupWindows, NEW y \in Int, NEW parent \in {0, 2}
  PROVE  IsMoved(w, y, parent, ChildMove(w, y, parent))
<1> DEFINE m == ChildMove(w, y, parent)
<1> DEFINE at == Clamp(y, parent)
           no == FALSE
<1>1. at \in Int /\ no \in BOOLEAN
  BY DEF Clamp, SeenHeight, PopupHeight
<1>2. m = [w EXCEPT !.y = y, !.parent = parent, !.at = at, !.missed = no]
  BY DEF ChildMove
<1> HIDE DEF at, no, m
<1>3. m \in PopupWindows
  BY <1>1, <1>2 DEF PopupWindows
<1>4. /\ m.y = y /\ m.parent = parent /\ m.at = at
      /\ m.of = w.of /\ m.made = w.made /\ m.page = w.page /\ m.place = w.place
      /\ m.last = w.last /\ m.title = w.title /\ m.text = w.text
      /\ m.visible = w.visible /\ m.shown = w.shown
  BY <1>2 DEF PopupWindows
<1> QED
  BY <1>3, <1>4 DEF at, m, IsMoved

\* The popups are others, and so is the table, but none has changed hands.
SameHands(k, P) ==
  /\ P = [i \in DOMAIN k.popups |-> P[i]]
  /\ \A i \in DOMAIN k.popups :
       /\ P[i] \in PopupWindows /\ P[i].of = k.popups[i].of /\ P[i].made = k.popups[i].made
       /\ P[i].page = k.popups[i].page
TableFits(k, table) ==
  /\ table \in Desks /\ table.early = k.desk.early /\ table.mapped = k.desk.mapped
  /\ table.focus \in 0 .. Len(k.popups) /\ table.menu \in 0 .. Len(k.annots)
  /\ table.dialog \in 0 .. Len(k.annots)

\* A view that is scrolled or zoomed leaves documents and objects alone.
LEMMA ViewChanges ==
  ASSUME NEW k, NEW L, Ordered(k, L), AllStored(k), NEW P, SameHands(k, P),
         NEW table, TableFits(k, table), NEW K, K = [back |-> k.back, annots |-> k.annots, popups |-> P, desk |-> table]
  PROVE  /\ K \in Things /\ Ordered(K, L) /\ AllStored(K)
         /\ K.back = k.back /\ K.annots = k.annots /\ K.popups = P /\ K.desk = table
         /\ DOMAIN P = DOMAIN k.popups
<1>1. /\ k \in Things /\ k.popups \in Seq(PopupWindows) /\ k.back \in NoteFiles
      /\ k.annots \in Seq(NoteObjects)
  BY ThingsAre DEF Ordered
<1>2. P \in Seq(PopupWindows) /\ Len(P) = Len(k.popups) /\ DOMAIN P = DOMAIN k.popups
  BY <1>1, SeqLike DEF SameHands
<1>3. K \in Things
  BY <1>1, <1>2 DEF Things, TableFits
<1>4. K.back = k.back /\ K.annots = k.annots /\ K.popups = P /\ K.desk = table
  OBVIOUS
<1>5. OwnersKept(k, K) /\ ActorsAre(K)
  BY <1>2, <1>4 DEF OwnersKept, ActorsAre, SameHands, TableFits
<1>6. K.desk.early = k.desk.early /\ K.desk.mapped = k.desk.mapped
  BY <1>4 DEF TableFits
<1>7. Ordered(K, L) /\ AllStored(K)
  BY <1>3, <1>4, <1>5, <1>6, PopupsChange
<1> QED
  BY <1>2, <1>3, <1>4, <1>7

\* A new layout of the view places every popup again.
LEMMA RelayoutKeeps ==
  ASSUME NotesInvariant, NEW at \in {0, 4}, Relayout(at)
  PROVE  NotesInvariant'
<1> DEFINE no == FALSE
           table == [desk EXCEPT !.scroll = at, !.pending = no]
           k == [back |-> poppler, annots |-> annots, popups |-> popups, desk |-> table]
           laid == UpdateRange(k)
           to(w) == ChildMove(w, ToView(laid.desk, w.page, w.place) + desk.origin, desk.origin)
           P == [i \in DOMAIN laid.popups |-> to(laid.popups[i])]
           K == [back |-> laid.back, annots |-> laid.annots, popups |-> P, desk |-> laid.desk]
<1>1. /\ Good(Shape, listed) /\ Shape \in Things /\ desk \in Desks /\ Ordered(Shape, listed)
      /\ AllStored(Shape) /\ AllTyped(Shape) /\ AllPlaced(Shape) /\ SeenWithPage(Shape)
      /\ popups \in Seq(PopupWindows) /\ OwnersKnow(Shape)
  BY ShapeHas, ThingsAre DEF NotesInvariant, Good, Ordered
<1>2. table \in Desks /\ table.scroll = at /\ ~table.pending /\ table.scale = desk.scale
        /\ table.origin = desk.origin /\ table.mapped = desk.mapped /\ table.early = desk.early
        /\ table.focus = desk.focus /\ table.menu = desk.menu /\ table.dialog = desk.dialog
        /\ table.range = desk.range /\ table.left = desk.left
  <2>1. no \in BOOLEAN /\ ~no
    OBVIOUS
  <2> HIDE DEF no
  <2> QED
    BY <1>1, <2>1 DEF Desks
<1> HIDE DEF table
<1>3. /\ k \in Things /\ Ordered(k, listed) /\ AllStored(k)
      /\ k.back = poppler /\ k.annots = annots /\ k.popups = popups /\ k.desk = table
  <2>1. popups = [i \in DOMAIN popups |-> popups[i]] /\ \A i \in DOMAIN popups : popups[i] \in PopupWindows
    BY <1>1, SeqIn
  <2>2. table.focus \in 0 .. Len(popups) /\ table.menu \in 0 .. Len(annots) /\ table.dialog \in 0 .. Len(annots)
    BY <1>1, <1>2, ShapeHas DEF OwnersKnow
  <2>3. k = [back |-> Shape.back, annots |-> Shape.annots, popups |-> popups, desk |-> table]
    BY ShapeHas
  <2>4. SameHands(Shape, popups) /\ TableFits(Shape, table)
    BY <2>1, <2>2, <1>2, ShapeHas DEF SameHands, TableFits
  <2> HIDE DEF k
  <2> QED
    BY <2>3, <2>4, <1>1, ShapeHas, ViewChanges
<1> HIDE DEF k
<1>4. AllTyped(k) /\ SeenWithPage(k)
  BY <1>1, <1>2, <1>3, ShapeHas DEF AllTyped, TypedIs, SeenWithPage, IsCurrent
<1>5. /\ laid \in Things /\ Ordered(laid, listed) /\ AllStored(laid) /\ AllTyped(laid) /\ SeenWithPage(laid)
      /\ laid.back = k.back /\ laid.annots = k.annots /\ OwnersKept(k, laid)
      /\ LikeBeforeAll(k, laid) /\ TableLike(k.desk, laid.desk)
  <2> HIDE DEF laid
  <2> QED
    BY <1>3, <1>4, RangeUpdates DEF laid
<1> HIDE DEF laid
<1>6. ShapeIs(K)
  <2>1. [laid EXCEPT !.popups = P] = K
    BY <1>5 DEF Things
  <2>2. [Shape EXCEPT !.desk.scroll = at, !.desk.pending = no] = k
    <3>1. [Shape EXCEPT !.desk.scroll = at, !.desk.pending = no] = [Shape EXCEPT !.desk = table]
      BY <1>1, ShapeHas DEF table, Things, Desks
    <3> QED
      BY <3>1, <1>1, ShapeHas DEF k, Things
  <2>3. UpdateRange([Shape EXCEPT !.desk.scroll = at, !.desk.pending = no]) = laid
    BY <2>2 DEF laid
  <2> DEFINE U == UpdateRange([Shape EXCEPT !.desk.scroll = at, !.desk.pending = FALSE])
             kept(w) == ChildMove(w, ToView(U.desk, w.page, w.place) + desk.origin, desk.origin)
  <2>4. ShapeIs([U EXCEPT !.popups = [i \in DOMAIN @ |-> kept(@[i])]])
    BY Zenon DEF Relayout
  <2>5. U = laid
    BY <2>3
  <2> HIDE DEF U
  <2>6. [U EXCEPT !.popups = [i \in DOMAIN @ |-> kept(@[i])]] = [laid EXCEPT !.popups = P]
    BY <2>5, <1>5 DEF P, Things
  <2> QED
    BY <2>1, <2>4, <2>6
<1>7. /\ laid.desk \in Desks /\ laid.desk.origin \in {0, 2} /\ laid.desk.origin = desk.origin
      /\ ~laid.desk.pending /\ laid.desk.scroll \in Int /\ laid.desk.scale \in Int
  <2>1. laid.desk \in Desks
    BY <1>5, ThingsAre
  <2> QED
    BY <2>1, <1>2, <1>3, <1>5 DEF Desks, TableLike
<1>8. \A i \in DOMAIN laid.popups :
        /\ P[i] \in PopupWindows
        /\ P[i].y = ToView(laid.desk, laid.popups[i].page, laid.popups[i].place) + desk.origin
        /\ P[i].parent = desk.origin /\ P[i].at = Clamp(P[i].y, P[i].parent)
        /\ P[i].of = laid.popups[i].of /\ P[i].made = laid.popups[i].made
        /\ P[i].page = laid.popups[i].page /\ P[i].place = laid.popups[i].place
        /\ P[i].title = laid.popups[i].title /\ P[i].text = laid.popups[i].text
        /\ P[i].visible = laid.popups[i].visible /\ P[i].shown = laid.popups[i].shown
  <2> SUFFICES ASSUME NEW i \in DOMAIN laid.popups
      PROVE
        /\ P[i] \in PopupWindows
        /\ P[i].y = ToView(laid.desk, laid.popups[i].page, laid.popups[i].place) + desk.origin
        /\ P[i].parent = desk.origin /\ P[i].at = Clamp(P[i].y, P[i].parent)
        /\ P[i].of = laid.popups[i].of /\ P[i].made = laid.popups[i].made
        /\ P[i].page = laid.popups[i].page /\ P[i].place = laid.popups[i].place
        /\ P[i].title = laid.popups[i].title /\ P[i].text = laid.popups[i].text
        /\ P[i].visible = laid.popups[i].visible /\ P[i].shown = laid.popups[i].shown
    BY Zenon
  <2> DEFINE w == laid.popups[i]
             y == ToView(laid.desk, w.page, w.place) + desk.origin
             m == P[i]
             root == desk.origin
  <2>1. w \in PopupWindows /\ w.page \in Int /\ w.place \in Int
    <3>1. w \in PopupWindows
      BY <1>5, ThingsAre
    <3> QED
      BY <3>1 DEF PopupWindows, AnnotPages
  <2>2. y \in Int
    <3> HIDE DEF w
    <3> QED
      BY <2>1, <1>7 DEF ToView, PageHeight
  <2>3. m = ChildMove(w, y, root) /\ root \in {0, 2}
    BY <1>7
  <2> HIDE DEF w, y, m, P, root
  <2>4. IsMoved(w, y, root, m)
    BY <2>1, <2>2, <2>3, MoveIs
  <2> QED
    BY <2>4 DEF m, w, y, root, IsMoved
<1>9. P = [i \in DOMAIN laid.popups |-> P[i]]
  OBVIOUS
<1> HIDE DEF P
<1>10. /\ K \in Things /\ Ordered(K, listed) /\ AllStored(K)
       /\ K.back = laid.back /\ K.annots = laid.annots /\ K.popups = P /\ K.desk = laid.desk
       /\ DOMAIN P = DOMAIN laid.popups
  <2>1. laid.desk.focus \in 0 .. Len(laid.popups) /\ laid.desk.menu \in 0 .. Len(laid.annots)
          /\ laid.desk.dialog \in 0 .. Len(laid.annots)
    BY <1>5 DEF Ordered, OwnersKnow
  <2> DEFINE there == laid.desk
  <2>2. TableFits(laid, there)
    BY <2>1, <1>7 DEF TableFits
  <2>3. SameHands(laid, P)
    BY <1>8, <1>9 DEF SameHands
  <2>4. K = [back |-> laid.back, annots |-> laid.annots, popups |-> P, desk |-> there] /\ there = laid.desk
    OBVIOUS
  <2> HIDE DEF K, there
  <2> QED
    BY <2>2, <2>3, <2>4, <1>5, ViewChanges
<1> HIDE DEF K
<1>11. AllPlaced(K)
  <2> SUFFICES ASSUME NEW i \in DOMAIN laid.popups PROVE PlacedIs(K, i)
    BY <1>10 DEF AllPlaced
  <2> DEFINE w == popups[i]
             v == laid.popups[i]
             there == ToView(laid.desk, v.page, v.place)
  <2>1. LikeBefore(w, v) /\ PlacedIs(Shape, i)
    BY <1>1, <1>3, <1>5, ThingsAre, ShapeHas DEF LikeBeforeAll, OwnersKept, AllPlaced
  <2>2. K.popups[i].title = K.annots[K.popups[i].made].settings.label
          /\ (K.popups[i].shown => K.popups[i].visible)
    BY <2>1, <1>3, <1>5, <1>8, <1>10, ShapeHas DEF PlacedIs, LikeBefore
  <2>3. there \in Int /\ desk.origin \in Int
    <3>1. v.page \in Int /\ v.place \in Int
      <4>1. v \in PopupWindows
        BY <1>5, ThingsAre
      <4> QED
        BY <4>1 DEF PopupWindows, AnnotPages
    <3> HIDE DEF v
    <3> QED
      BY <3>1, <1>7 DEF ToView, PageHeight
  <2>4. P[i].y - P[i].parent = there /\ P[i].page = v.page /\ P[i].place = v.place
    <3>1. P[i].y = there + desk.origin /\ P[i].parent = desk.origin
      BY <1>8
    <3> HIDE DEF there
    <3> QED
      BY <3>1, <2>3, <1>8
  <2>5. K.popups[i].y - K.popups[i].parent = ToView(K.desk, K.popups[i].page, K.popups[i].place)
    BY <2>4, <1>10
  <2>6. K.popups[i].at = Clamp(K.popups[i].y, K.popups[i].parent)
    BY <1>8, <1>10
  <2> QED
    BY <2>2, <2>5, <2>6 DEF PlacedIs
<1>12. AllTyped(K) /\ SeenWithPage(K)
  <2>1. AllTyped(K)
    BY <1>5, <1>8, <1>10 DEF AllTyped, TypedIs
  <2>2. SeenWithPage(K)
    <3> SUFFICES ASSUME NEW a \in DOMAIN laid.annots, IsCurrent(laid, a), laid.annots[a].window # 0,
                        P[laid.annots[a].window].shown
                 PROVE  laid.annots[a].page \in laid.desk.range \cup laid.desk.left
      BY <1>10 DEF SeenWithPage, IsCurrent
    <3>1. laid.annots[a].window \in DOMAIN laid.popups
      BY <1>5, ThingsAre DEF Ordered, OwnersKnow
    <3> QED
      BY <3>1, <1>5, <1>8 DEF SeenWithPage
  <2> QED
    BY <2>1, <2>2
<1>13. Good(K, listed) /\ K.back.number = poppler.number
  BY <1>3, <1>5, <1>10, <1>11, <1>12 DEF Good
<1>14. listed' = listed /\ noteCalls' = noteCalls
  BY Zenon DEF Relayout
<1> QED
  BY <1>6, <1>13, <1>14, CallEnds

\* The view remembers something else, and the pages in view are the same.
SameView(d, D) ==
  /\ D.range = d.range /\ D.left = d.left
  /\ D.pending \/ (D.pending = d.pending /\ D.scroll = d.scroll /\ D.scale = d.scale)

\* A call that changes only what the view remembers.
LEMMA TableGood ==
  ASSUME NEW k, NEW L, Good(k, L), NEW table, TableFits(k, table), SameView(k.desk, table),
         table.focus = k.desk.focus,
         NEW K, K = [back |-> k.back, annots |-> k.annots, popups |-> k.popups, desk |-> table]
  PROVE  /\ Good(K, L) /\ K.back = k.back /\ K.annots = k.annots /\ K.popups = k.popups
         /\ K.desk = table
<1> DEFINE P == k.popups
<1>1. /\ k \in Things /\ Ordered(k, L) /\ AllStored(k) /\ AllTyped(k) /\ AllPlaced(k)
      /\ SeenWithPage(k)
  BY DEF Good, Ordered
<1>2. SameHands(k, P)
  <2>1. P = [i \in DOMAIN P |-> P[i]] /\ \A i \in DOMAIN P : P[i] \in PopupWindows
    BY <1>1, ThingsAre
  <2> QED
    BY <2>1 DEF SameHands
<1>3. K = [back |-> k.back, annots |-> k.annots, popups |-> P, desk |-> table]
  OBVIOUS
<1> HIDE DEF P
<1>4. /\ K \in Things /\ Ordered(K, L) /\ AllStored(K)
      /\ K.back = k.back /\ K.annots = k.annots /\ K.popups = P /\ K.desk = table
  BY <1>1, <1>2, <1>3, ViewChanges
<1>5. AllTyped(K)
  BY <1>1, <1>4 DEF AllTyped, TypedIs, P
<1>6. AllPlaced(K)
  <2> SUFFICES ASSUME NEW i \in DOMAIN P PROVE PlacedIs(K, i)
    BY <1>4 DEF AllPlaced
  <2>1. PlacedIs(k, i)
    BY <1>1 DEF AllPlaced, P
  <2> QED
    BY <2>1, <1>4 DEF PlacedIs, SameView, ToView, P
<1>7. SeenWithPage(K)
  BY <1>1, <1>4 DEF SeenWithPage, IsCurrent, SameView, P
<1> QED
  BY <1>4, <1>5, <1>6, <1>7 DEF Good, P

\* One popup is moved, shown, hidden or written in.
PlacedAs(k, w, d) ==
  /\ ~d.pending => w.y - w.parent = ToView(d, w.page, w.place)
  /\ ~w.missed => w.at = w.last \/ w.at = Clamp(w.y, w.parent)
  /\ w.title = k.annots[w.made].settings.label
  /\ w.shown => w.visible
IsChanged(k, i, w, table) ==
  /\ w \in PopupWindows /\ w.of = k.popups[i].of /\ w.made = k.popups[i].made
  /\ w.page = k.popups[i].page
  /\ PlacedAs(k, w, table)
  /\ w.shown => k.popups[i].shown \/ w.page \in k.desk.range
  /\ \/ w.text = k.popups[i].text /\ table.focus = k.desk.focus
     \/ table.focus = i /\ k.desk.focus \in {0, i}

\* A call that changes one popup and what the view remembers.
LEMMA PopupGood ==
  ASSUME NEW k, NEW L, Good(k, L), NEW i \in DOMAIN k.popups, NEW table, TableFits(k, table),
         SameView(k.desk, table), NEW w, IsChanged(k, i, w, table), NEW P,
         P = [k.popups EXCEPT ![i] = w], NEW K,
         K = [back |-> k.back, annots |-> k.annots, popups |-> P, desk |-> table]
  PROVE  /\ Good(K, L) /\ K.back = k.back /\ K.annots = k.annots /\ K.popups = P
         /\ K.desk = table
<1>1. /\ k \in Things /\ Ordered(k, L) /\ AllStored(k) /\ AllTyped(k) /\ AllPlaced(k)
      /\ SeenWithPage(k) /\ OwnersKnow(k)
  BY DEF Good, Ordered
<1>2. /\ P[i] = w /\ \A j \in DOMAIN k.popups : j # i => P[j] = k.popups[j]
      /\ DOMAIN P = DOMAIN k.popups /\ P = [j \in DOMAIN k.popups |-> P[j]]
  OBVIOUS
<1>3. SameHands(k, P)
  <2> SUFFICES ASSUME NEW j \in DOMAIN k.popups
               PROVE  /\ P[j] \in PopupWindows /\ P[j].of = k.popups[j].of
                      /\ P[j].made = k.popups[j].made /\ P[j].page = k.popups[j].page
    BY <1>2 DEF SameHands
  <2>1. k.popups[j] \in PopupWindows
    BY <1>1, ThingsAre
  <2> QED
    BY <2>1, <1>2 DEF IsChanged
<1>4. /\ K \in Things /\ Ordered(K, L) /\ AllStored(K)
      /\ K.back = k.back /\ K.annots = k.annots /\ K.popups = P /\ K.desk = table
  BY <1>1, <1>3, ViewChanges
<1>5. AllTyped(K)
  <2> SUFFICES ASSUME NEW j \in DOMAIN k.popups PROVE TypedIs(K, j)
    BY <1>2, <1>4 DEF AllTyped
  <2>1. TypedIs(k, j)
    BY <1>1 DEF AllTyped
  <2>2. CASE j = i
    BY <2>1, <2>2, <1>2, <1>4 DEF TypedIs, IsChanged
  <2>3. CASE j # i
    <3>1. i # 0
      BY <1>1, ThingsAre
    <3>2. j # 0
      BY <1>1, ThingsAre
    <3>3. P[j] = k.popups[j]
      BY <2>3, <1>2
    <3>4. k.desk.focus = j => table.focus = j
      BY <2>3, <3>2 DEF IsChanged
    <3> QED
      BY <2>1, <3>3, <3>4, <1>4 DEF TypedIs
  <2> QED
    BY <2>2, <2>3
<1>6. AllPlaced(K)
  <2> SUFFICES ASSUME NEW j \in DOMAIN k.popups PROVE PlacedIs(K, j)
    BY <1>2, <1>4 DEF AllPlaced
  <2>1. PlacedIs(k, j)
    BY <1>1 DEF AllPlaced
  <2>2. CASE j = i
    BY <2>2, <1>2, <1>4 DEF PlacedIs, PlacedAs, IsChanged
  <2>3. CASE j # i
    <3>1. P[j] = k.popups[j]
      BY <2>3, <1>2
    <3> QED
      BY <2>1, <3>1, <1>4 DEF PlacedIs, SameView, ToView
  <2> QED
    BY <2>2, <2>3
<1>7. SeenWithPage(K)
  <2> SUFFICES ASSUME NEW a \in DOMAIN k.annots, IsCurrent(k, a), k.annots[a].window # 0,
                      P[k.annots[a].window].shown
               PROVE  k.annots[a].page \in table.range \cup table.left
    BY <1>4 DEF SeenWithPage, IsCurrent
  <2> DEFINE j == k.annots[a].window
  <2>1. j \in DOMAIN k.popups /\ k.popups[j].of = a /\ k.popups[j].page = k.annots[a].page
    <3>1. j \in DOMAIN k.popups /\ k.popups[j].of = a
      BY <1>1, ThingsAre DEF OwnersKnow
    <3> QED
      BY <3>1, <1>1 DEF OwnersKnow
  <2>2. CASE k.popups[j].shown
    BY <2>2, <1>1 DEF SeenWithPage, SameView
  <2>3. CASE ~k.popups[j].shown
    <3>1. j = i
      BY <2>1, <2>3, <1>2
    <3> QED
      BY <3>1, <2>1, <2>3, <1>2 DEF IsChanged, SameView
  <2> QED
    BY <2>2, <2>3
<1> QED
  BY <1>4, <1>5, <1>6, <1>7 DEF Good

\* The parts of the invariant
LEMMA NotesHold ==
  ASSUME NotesInvariant
  PROVE  /\ Good(Shape, listed) /\ Ordered(Shape, listed) /\ Shape \in Things
         /\ desk \in Desks /\ popups \in Seq(PopupWindows) /\ annots \in Seq(NoteObjects)
         /\ poppler \in NoteFiles /\ listed \in Lists
         /\ DOMAIN popups = 1 .. Len(popups) /\ Len(popups) \in Nat
         /\ DOMAIN annots = 1 .. Len(annots) /\ Len(annots) \in Nat
         /\ desk.focus \in 0 .. Len(popups) /\ desk.menu \in 0 .. Len(annots)
         /\ desk.dialog \in 0 .. Len(annots)
         /\ Shape = [back |-> poppler, annots |-> annots, popups |-> popups, desk |-> desk]
<1>1. /\ Good(Shape, listed) /\ Ordered(Shape, listed) /\ Shape \in Things /\ listed \in Lists
      /\ OwnersKnow(Shape)
  BY DEF NotesInvariant, Good, Ordered
<1>2. /\ desk \in Desks /\ popups \in Seq(PopupWindows) /\ annots \in Seq(NoteObjects)
      /\ poppler \in NoteFiles
      /\ DOMAIN popups = 1 .. Len(popups) /\ Len(popups) \in Nat
      /\ DOMAIN annots = 1 .. Len(annots) /\ Len(annots) \in Nat
  BY <1>1, ThingsAre, ShapeHas
<1>3. desk.focus \in 0 .. Len(popups) /\ desk.menu \in 0 .. Len(annots)
        /\ desk.dialog \in 0 .. Len(annots)
  BY <1>1, ShapeHas DEF OwnersKnow
<1> QED
  BY <1>1, <1>2, <1>3 DEF Shape

\* Only the table changes.
LEMMA TableEnds ==
  ASSUME NotesInvariant, NEW table, TableFits(Shape, table), SameView(desk, table),
         table.focus = desk.focus, desk' = table, UNCHANGED <<poppler, annots, listed, popups>>,
         noteCalls' = noteCalls \/ NoteCall
  PROVE  NotesInvariant'
<1> DEFINE K == [back |-> Shape.back, annots |-> Shape.annots, popups |-> Shape.popups, desk |-> table]
<1>1. Good(Shape, listed) /\ SameView(Shape.desk, table) /\ table.focus = Shape.desk.focus
  BY NotesHold, ShapeHas
<1>2. /\ Good(K, listed) /\ K.back = Shape.back /\ K.annots = Shape.annots
      /\ K.popups = Shape.popups /\ K.desk = table
  <2> HIDE DEF K
  <2> QED
    BY <1>1, TableGood DEF K
<1> HIDE DEF K
<1>3. ShapeIs(K) /\ K.back.number = poppler.number /\ listed' = listed
  BY <1>2, ShapeHas DEF ShapeIs
<1> QED
  BY <1>2, <1>3, CallEnds

\* Zooming keeps the invariant.
LEMMA ZoomKeeps ==
  ASSUME NotesInvariant, ZoomView
  PROVE  NotesInvariant'
<1> DEFINE yes == TRUE
           scale == 3 - desk.scale
           table == [desk EXCEPT !.scale = scale, !.pending = yes]
<1>1. desk' = table /\ UNCHANGED <<poppler, annots, listed, popups>> /\ NoteCall
  BY DEF ZoomView, Hands
<1>2. desk \in Desks /\ scale \in {1, 2} /\ yes \in BOOLEAN /\ yes
  BY NotesHold DEF Desks
<1> HIDE DEF scale, yes
<1>3. /\ table \in Desks /\ table.early = desk.early /\ table.mapped = desk.mapped
      /\ table.focus = desk.focus /\ table.menu = desk.menu /\ table.dialog = desk.dialog
      /\ table.range = desk.range /\ table.left = desk.left /\ table.pending
  BY <1>2 DEF Desks
<1> HIDE DEF table
<1>4. TableFits(Shape, table) /\ SameView(desk, table)
  BY <1>3, NotesHold, ShapeHas DEF TableFits, SameView
<1> QED
  BY <1>1, <1>3, <1>4, TableEnds

\* Moving the view in its window keeps the invariant.
LEMMA MoveKeepsNotes ==
  ASSUME NotesInvariant, MoveView
  PROVE  NotesInvariant'
<1> DEFINE origin == 2 - desk.origin
           table == [desk EXCEPT !.origin = origin]
<1>1. desk' = table /\ UNCHANGED <<poppler, annots, listed, popups>> /\ NoteCall
  BY DEF MoveView, Hands
<1>2. desk \in Desks /\ origin \in {0, 2}
  BY NotesHold DEF Desks
<1> HIDE DEF origin
<1>3. /\ table \in Desks /\ table.early = desk.early /\ table.mapped = desk.mapped
      /\ table.focus = desk.focus /\ table.menu = desk.menu /\ table.dialog = desk.dialog
      /\ table.range = desk.range /\ table.left = desk.left /\ table.pending = desk.pending
      /\ table.scroll = desk.scroll /\ table.scale = desk.scale
  BY <1>2 DEF Desks
<1> HIDE DEF table
<1>4. TableFits(Shape, table) /\ SameView(desk, table)
  BY <1>3, NotesHold, ShapeHas DEF TableFits, SameView
<1> QED
  BY <1>1, <1>3, <1>4, TableEnds

\* Opening the properties of an annotation keeps the invariant.
LEMMA PropertiesKeep ==
  ASSUME NotesInvariant, OpenProperties
  PROVE  NotesInvariant'
<1>1. PICK a \in {0, desk.menu} : desk' = [desk EXCEPT !.menu = 0, !.dialog = a]
  BY DEF OpenProperties
<1> DEFINE table == [desk EXCEPT !.menu = 0, !.dialog = a]
<1>2. desk' = table /\ UNCHANGED <<poppler, annots, listed, popups>> /\ noteCalls' = noteCalls
  BY <1>1 DEF OpenProperties
<1>3. desk \in Desks /\ a \in Nat /\ a \in 0 .. Len(annots) /\ Len(annots) \in Nat
  BY NotesHold
<1>4. /\ table \in Desks /\ table.early = desk.early /\ table.mapped = desk.mapped
      /\ table.focus = desk.focus /\ table.menu = 0 /\ table.dialog = a
      /\ table.range = desk.range /\ table.left = desk.left /\ table.pending = desk.pending
      /\ table.scroll = desk.scroll /\ table.scale = desk.scale
  BY <1>3 DEF Desks
<1> HIDE DEF table
<1>5. TableFits(Shape, table) /\ SameView(desk, table)
  BY <1>3, <1>4, NotesHold, ShapeHas DEF TableFits, SameView
<1> QED
  BY <1>2, <1>4, <1>5, TableEnds

-----------------------------------------------------------------------------
(* The user's calls.                                                       *)

\* What every call of the view begins with.
LEMMA FocusLeft ==
  ASSUME NotesInvariant, NEW k, k = LeaveFocus(Shape)
  PROVE  /\ Good(k, listed) /\ k.popups = popups /\ k.desk \in Desks /\ k \in Things
         /\ k.back.number = poppler.number /\ SameView(desk, k.desk) /\ SameView(k.desk, k.desk)
         /\ k.desk.focus = 0 /\ k.desk.range = desk.range /\ TableFits(k, k.desk)
         /\ k.desk.scroll = desk.scroll /\ k.desk.scale = desk.scale
         /\ k.desk.pending = desk.pending
         /\ ObjectsKept(Shape, k) /\ LinksKept(Shape, k) /\ Len(k.annots) = Len(annots)
         /\ k.desk.menu = desk.menu /\ k.desk.dialog = desk.dialog
         /\ NotesKept(Shape, k) /\ k.desk.early = desk.early /\ k.desk.mapped = desk.mapped
<1>1. Good(Shape, listed) /\ desk \in Desks
  BY NotesHold
<1>2. /\ Good(k, listed) /\ k.popups = Shape.popups /\ k.desk = [Shape.desk EXCEPT !.focus = 0]
      /\ NotesKept(Shape, k) /\ ObjectsKept(Shape, k) /\ LinksKept(Shape, k)
  BY <1>1, LeaveKeeps
<1>3. /\ k.desk.focus = 0 /\ k.desk.range = desk.range /\ k.desk.left = desk.left
      /\ k.desk.scroll = desk.scroll /\ k.desk.scale = desk.scale
      /\ k.desk.pending = desk.pending /\ k.desk.menu = desk.menu /\ k.desk.dialog = desk.dialog
      /\ k.desk.early = desk.early /\ k.desk.mapped = desk.mapped
  BY <1>1, <1>2, ShapeHas DEF Desks
<1>4. k.desk \in Desks /\ k \in Things /\ OwnersKnow(k)
  BY <1>2, ThingsAre DEF Good, Ordered
<1>5. TableFits(k, k.desk) /\ SameView(desk, k.desk) /\ SameView(k.desk, k.desk)
  BY <1>3, <1>4 DEF TableFits, SameView, OwnersKnow
<1>6. k.back.number = poppler.number /\ Len(k.annots) = Len(annots)
  BY <1>2, ShapeHas DEF NotesKept, ObjectsKept
<1> QED
  BY <1>2, <1>3, <1>4, <1>5, <1>6, ShapeHas

\* An annotation that can be clicked is one of the document, on a page in view.
LEMMA InViewIs ==
  ASSUME NotesInvariant, NEW a \in InView
  PROVE  a \in DOMAIN annots /\ annots[a].doc = poppler.number /\ annots[a].page \in desk.range
<1>1. PICK p \in desk.range \intersect desk.mapped : a \in Range(listed[p])
  BY DEF InView
<1>2. PICK n \in DOMAIN listed[p] : a = listed[p][n]
  BY <1>1 DEF Range
<1>3. p \in AnnotPages
  BY NotesHold DEF Desks
<1>4. ListsHold(Shape, listed)
  BY NotesHold DEF Ordered
<1> QED
  BY <1>1, <1>2, <1>3, <1>4, ShapeHas DEF ListsHold, IsCurrent

\* Opening the menu of an annotation keeps the invariant.
LEMMA MenuKeeps ==
  ASSUME NotesInvariant, NEW a \in InView, OpenMenu(a)
  PROVE  NotesInvariant'
<1> DEFINE k == LeaveFocus(Shape)
           table == [k.desk EXCEPT !.menu = a]
           K == [back |-> k.back, annots |-> k.annots, popups |-> k.popups, desk |-> table]
<1>1. ShapeIs([k EXCEPT !.desk.menu = a]) /\ listed' = listed /\ NoteCall
  BY DEF OpenMenu, Hands
<1> HIDE DEF k
<1>2. /\ Good(k, listed) /\ k.desk \in Desks /\ k \in Things /\ k.back.number = poppler.number
      /\ TableFits(k, k.desk) /\ SameView(k.desk, k.desk) /\ Len(k.annots) = Len(annots)
  BY FocusLeft DEF k
<1>3. a \in 0 .. Len(k.annots) /\ a \in Nat
  BY <1>2, InViewIs, NotesHold
<1>4. TableFits(k, table) /\ SameView(k.desk, table) /\ table.focus = k.desk.focus
  BY <1>2, <1>3 DEF TableFits, SameView, Desks
<1>5. [k EXCEPT !.desk.menu = a] = K
  BY <1>2 DEF Things
<1> HIDE DEF table
<1>6. Good(K, listed) /\ K.back = k.back
  <2> HIDE DEF K
  <2> QED
    BY <1>2, <1>4, TableGood DEF K
<1> HIDE DEF K
<1>7. ShapeIs(K) /\ K.back.number = poppler.number
  BY <1>1, <1>2, <1>5, <1>6
<1> QED
  BY <1>1, <1>6, <1>7, CallEnds

\* The note is gone from the document; who stands for it stays.
LEMMA RemoveKeeps ==
  ASSUME NotesInvariant, RemoveAnnot
  PROVE  NotesInvariant'
<1> DEFINE yes == TRUE
           e == annots[desk.menu]
           note == [poppler.notes[e.of] EXCEPT !.gone = yes]
           notes == IF e.doc # poppler.number THEN poppler.notes
                    ELSE [poppler.notes EXCEPT ![e.of] = note]
           back == [poppler EXCEPT !.modified = yes, !.notes = notes]
           k == [back |-> back, annots |-> annots, popups |-> popups, desk |-> desk]
           table == [desk EXCEPT !.menu = 0]
           K == [back |-> back, annots |-> annots, popups |-> popups, desk |-> table]
<1>1. poppler' = back /\ desk' = table /\ UNCHANGED <<annots, listed, popups, noteCalls>>
        /\ desk.menu # 0
  BY DEF RemoveAnnot
<1>2. /\ Good(Shape, listed) /\ Ordered(Shape, listed) /\ Shape \in Things
      /\ desk \in Desks /\ popups \in Seq(PopupWindows) /\ annots \in Seq(NoteObjects)
      /\ poppler \in NoteFiles /\ poppler.notes \in Seq(NoteOfFile) /\ desk.menu \in DOMAIN annots
  <2>1. poppler.notes \in Seq(NoteOfFile)
    BY NotesHold, ThingsAre, ShapeHas
  <2>2. desk.menu \in DOMAIN annots
    BY <1>1, NotesHold
  <2> QED
    BY <2>1, <2>2, NotesHold
<1>3. /\ notes \in Seq(NoteOfFile) /\ Len(notes) = Len(poppler.notes)
      /\ DOMAIN notes = DOMAIN poppler.notes
      /\ \A n \in DOMAIN poppler.notes :
           /\ notes[n].page = poppler.notes[n].page /\ notes[n].kind = poppler.notes[n].kind
           /\ notes[n].popup = poppler.notes[n].popup
           /\ poppler.notes[n].gone => notes[n].gone
           /\ ~notes[n].gone => /\ notes[n].contents = poppler.notes[n].contents
                                /\ notes[n].settings = poppler.notes[n].settings
  <2>1. CASE e.doc # poppler.number
    BY <2>1, <1>2
  <2>2. CASE e.doc = poppler.number
    <3> DEFINE m == e.of
    <3>1. m \in DOMAIN poppler.notes
      BY <2>2, <1>2, ShapeHas DEF Ordered, ObjectsStand, IsCurrent
    <3>2. poppler.notes[m] \in NoteOfFile /\ yes \in BOOLEAN /\ yes
      BY <3>1, <1>2
    <3> HIDE DEF yes
    <3>3. /\ note \in NoteOfFile /\ note.page = poppler.notes[m].page
          /\ note.kind = poppler.notes[m].kind /\ note.popup = poppler.notes[m].popup
          /\ note.gone
      BY <3>2 DEF NoteOfFile
    <3>4. notes = [poppler.notes EXCEPT ![m] = note]
      BY <2>2
    <3> HIDE DEF note, notes, m
    <3>5. /\ notes \in Seq(NoteOfFile) /\ Len(notes) = Len(poppler.notes)
          /\ DOMAIN notes = DOMAIN poppler.notes /\ notes[m] = note
          /\ \A n \in DOMAIN poppler.notes : n # m => notes[n] = poppler.notes[n]
      BY <1>2, <3>1, <3>3, <3>4, SeqSet
    <3> QED
      BY <3>3, <3>5
  <2> QED
    BY Zenon, <2>1, <2>2
<1> HIDE DEF notes
<1>4. back \in NoteFiles /\ back.number = poppler.number /\ back.notes = notes
  <2>1. yes \in BOOLEAN
    OBVIOUS
  <2> HIDE DEF yes
  <2> QED
    BY <2>1, <1>2, <1>3 DEF NoteFiles
<1> HIDE DEF back
<1>5. k \in Things /\ k.back = back /\ k.annots = annots /\ k.popups = popups /\ k.desk = desk
  BY <1>2, <1>4 DEF Things
<1> HIDE DEF k
<1>6. /\ NotesKept(Shape, k) /\ DataKept(Shape, k) /\ ObjectsKept(Shape, k)
      /\ LinksKept(Shape, k) /\ TextsKept(Shape, k) /\ OwnersKept(Shape, k) /\ ActorsAre(k)
  <2>1. NotesKept(Shape, k) /\ DataKept(Shape, k)
    BY <1>3, <1>4, <1>5, ShapeHas DEF NotesKept, DataKept
  <2>2. /\ ObjectsKept(Shape, k) /\ LinksKept(Shape, k) /\ TextsKept(Shape, k)
        /\ OwnersKept(Shape, k)
    BY <1>5, ShapeHas DEF ObjectsKept, ObjectKept, LinksKept, TextsKept, OwnersKept
  <2>3. ActorsAre(k)
    BY <1>5, NotesHold DEF ActorsAre
  <2> QED
    BY <2>1, <2>2, <2>3
<1>7. Ordered(k, listed)
  <2>1. k.desk.early = Shape.desk.early /\ k.desk.mapped = Shape.desk.mapped
    BY <1>5, ShapeHas
  <2> QED
    BY <2>1, <1>2, <1>5, <1>6, OrderStays
<1>8. AllStored(k)
  BY <1>2, <1>5, <1>6, StoredStays DEF Good, Ordered
<1>9. AllTyped(k) /\ AllPlaced(k) /\ SeenWithPage(k)
  <2>1. AllTyped(Shape) /\ AllPlaced(Shape) /\ SeenWithPage(Shape)
    BY <1>2 DEF Good
  <2>2. AllTyped(k) /\ AllPlaced(k)
    BY <2>1, <1>5, ShapeHas DEF AllTyped, TypedIs, AllPlaced, PlacedIs
  <2>3. SeenWithPage(k)
    BY <2>1, <1>4, <1>5, ShapeHas DEF SeenWithPage, IsCurrent
  <2> QED
    BY <2>2, <2>3
<1>10. Good(k, listed)
  BY <1>7, <1>8, <1>9 DEF Good
<1>11. TableFits(k, table) /\ SameView(k.desk, table) /\ table.focus = k.desk.focus
  <2>1. /\ table \in Desks /\ table.early = desk.early /\ table.mapped = desk.mapped
        /\ table.focus = desk.focus /\ table.menu = 0 /\ table.dialog = desk.dialog
        /\ table.range = desk.range /\ table.left = desk.left /\ table.pending = desk.pending
        /\ table.scroll = desk.scroll /\ table.scale = desk.scale
    BY <1>2 DEF Desks
  <2> HIDE DEF table
  <2> QED
    BY <2>1, <1>5, NotesHold DEF TableFits, SameView
<1> HIDE DEF table
<1>12. K = [back |-> k.back, annots |-> k.annots, popups |-> k.popups, desk |-> table]
  BY <1>5
<1> HIDE DEF K
<1>13. /\ Good(K, listed) /\ K.back = k.back /\ K.annots = k.annots /\ K.popups = k.popups
       /\ K.desk = table
  BY <1>10, <1>11, <1>12, TableGood
<1>14. ShapeIs(K) /\ K.back.number = poppler.number
  BY <1>1, <1>4, <1>5, <1>13 DEF ShapeIs
<1> QED
  BY <1>1, <1>13, <1>14, CallEnds

\* A call that ends with one popup changed
LEMMA PopupEnds ==
  ASSUME NotesInvariant, NEW k, Good(k, listed), k.back.number = poppler.number,
         NEW i \in DOMAIN k.popups, NEW table, TableFits(k, table), SameView(k.desk, table),
         NEW w, IsChanged(k, i, w, table),
         poppler' = k.back, annots' = k.annots, popups' = [k.popups EXCEPT ![i] = w], desk' = table,
         listed' = listed, noteCalls' = noteCalls \/ NoteCall
  PROVE  NotesInvariant'
<1> DEFINE P == [k.popups EXCEPT ![i] = w]
           K == [back |-> k.back, annots |-> k.annots, popups |-> P, desk |-> table]
<1>1. ShapeIs(K)
  BY DEF ShapeIs
<1>2. P = [k.popups EXCEPT ![i] = w]
  OBVIOUS
<1> HIDE DEF P
<1>3. K = [back |-> k.back, annots |-> k.annots, popups |-> P, desk |-> table]
  OBVIOUS
<1> HIDE DEF K
<1>4. /\ Good(K, listed) /\ K.back = k.back
  BY <1>2, <1>3, PopupGood
<1> QED
  BY <1>1, <1>4, CallEnds

\* Opening a popup writes what was typed in the one that had the keyboard.
LEMMA OpenKeeps ==
  ASSUME NotesInvariant, NEW a \in InView, OpenPopup(a)
  PROVE  NotesInvariant'
<1> DEFINE k == LeaveFocus(Shape)
           i == annots[a].window
           w == popups[i]
           yes == TRUE
           m == ChildMove(w, w.y, w.parent)
           v == [m EXCEPT !.visible = yes, !.shown = yes]
<1>1. /\ i # 0 /\ listed' = listed /\ NoteCall
      /\ ShapeIs(IF w.visible THEN k ELSE [k EXCEPT !.popups[i] = v])
  BY Zenon DEF OpenPopup, Hands
<1> HIDE DEF k
<1>2. /\ Good(k, listed) /\ k.desk \in Desks /\ k \in Things /\ k.back.number = poppler.number
      /\ TableFits(k, k.desk) /\ SameView(k.desk, k.desk) /\ k.popups = popups
      /\ k.desk.range = desk.range
  BY FocusLeft DEF k
<1>3. a \in DOMAIN annots /\ annots[a].doc = poppler.number /\ annots[a].page \in desk.range
  BY InViewIs
<1>4. i \in DOMAIN popups /\ w.of = a /\ w.page = annots[a].page /\ w \in PopupWindows
  <2>1. OwnersKnow(Shape) /\ i \in 0 .. Len(popups)
    BY <1>3, NotesHold, ShapeHas DEF Ordered, OwnersKnow
  <2>2. i \in DOMAIN popups
    BY <1>1, <2>1, NotesHold
  <2>3. w.of = a
    BY <1>1, <1>3, <2>1, ShapeHas DEF OwnersKnow, IsCurrent
  <2>4. w.page = annots[a].page
    BY <2>1, <2>2, <2>3, ShapeHas DEF OwnersKnow
  <2>5. w \in PopupWindows
    BY <2>2, NotesHold, SeqIn
  <2> QED
    BY <2>2, <2>3, <2>4, <2>5
<1>5. CASE w.visible
  BY <1>1, <1>2, <1>5, CallEnds
<1>6. CASE ~w.visible
  <2>1. PlacedIs(k, i)
    BY <1>2, <1>4 DEF Good, AllPlaced
  <2> HIDE DEF i, w, m
  <2>2. IsMoved(w, w.y, w.parent, m) /\ m.missed = FALSE
    <3>1. w.y \in Int /\ w.parent \in {0, 2}
      BY <1>4 DEF PopupWindows
    <3> DEFINE y == w.y
               parent == w.parent
    <3>2. y \in Int /\ parent \in {0, 2}
      BY <3>1
    <3>3. m.missed = FALSE
      BY <1>4 DEF m, ChildMove, PopupWindows
    <3> HIDE DEF y, parent
    <3>4. IsMoved(w, y, parent, ChildMove(w, y, parent))
      BY <1>4, <3>2, MoveIs
    <3> QED
      BY <3>3, <3>4 DEF m, y, parent
  <2>3. yes \in BOOLEAN /\ yes
    OBVIOUS
  <2> HIDE DEF yes
  <2>4. /\ v \in PopupWindows /\ v.y = m.y /\ v.parent = m.parent /\ v.at = m.at
        /\ v.of = m.of /\ v.made = m.made /\ v.page = m.page /\ v.place = m.place
        /\ v.last = m.last /\ v.title = m.title /\ v.text = m.text /\ v.missed = m.missed
        /\ v.visible /\ v.shown
    BY <2>2, <2>3 DEF IsMoved, PopupWindows
  <2> HIDE DEF v
  <2>5. IsChanged(k, i, v, k.desk)
    BY <2>1, <2>2, <2>4, <1>2, <1>3, <1>4 DEF IsChanged, IsMoved, PlacedAs, PlacedIs, w
  <2>6. poppler' = k.back /\ annots' = k.annots /\ popups' = [k.popups EXCEPT ![i] = v] /\ desk' = k.desk
    <3> DEFINE R == [k EXCEPT !.popups[i] = v]
    <3>1. /\ R.back = k.back /\ R.annots = k.annots /\ R.desk = k.desk
          /\ R.popups = [k.popups EXCEPT ![i] = v]
      BY <1>2 DEF Things
    <3>2. ShapeIs(R)
      BY <1>1, <1>6
    <3> HIDE DEF R
    <3> QED
      BY <3>1, <3>2 DEF ShapeIs
  <2> DEFINE there == k.desk
  <2>7. /\ IsChanged(k, i, v, there) /\ TableFits(k, there) /\ SameView(k.desk, there)
        /\ poppler' = k.back /\ annots' = k.annots /\ popups' = [k.popups EXCEPT ![i] = v]
        /\ desk' = there /\ i \in DOMAIN k.popups
    BY <2>5, <2>6, <1>2, <1>4
  <2> HIDE DEF there
  <2> QED
    BY <2>7, <1>1, <1>2, PopupEnds
<1> QED
  BY <1>5, <1>6

\* Closing a popup keeps the invariant.
LEMMA CloseKeeps ==
  ASSUME NotesInvariant, NEW i \in DOMAIN popups, ClosePopup(i)
  PROVE  NotesInvariant'
<1> DEFINE k == LeaveFocus(Shape)
           w == popups[i]
           no == FALSE
           v == [w EXCEPT !.visible = no, !.shown = no]
<1>1. /\ listed' = listed /\ NoteCall
      /\ ShapeIs([k EXCEPT !.popups[i].visible = no, !.popups[i].shown = no])
  BY Zenon DEF ClosePopup, Hands
<1> HIDE DEF k
<1>2. /\ Good(k, listed) /\ k.desk \in Desks /\ k \in Things /\ k.back.number = poppler.number
      /\ TableFits(k, k.desk) /\ SameView(k.desk, k.desk) /\ k.popups = popups
      /\ k.desk.range = desk.range
  BY FocusLeft DEF k
<1>3. w \in PopupWindows /\ no \in BOOLEAN /\ ~no
  BY NotesHold, SeqIn
<1>4. PlacedIs(k, i)
  BY <1>2 DEF Good, AllPlaced
<1>5. poppler' = k.back /\ annots' = k.annots /\ popups' = [k.popups EXCEPT ![i] = v] /\ desk' = k.desk
  <2> DEFINE R == [k EXCEPT !.popups[i].visible = no, !.popups[i].shown = no]
  <2>1. /\ R.back = k.back /\ R.annots = k.annots /\ R.desk = k.desk
        /\ R.popups = [k.popups EXCEPT ![i] = [k.popups[i] EXCEPT !.visible = no, !.shown = no]]
    BY <1>2 DEF Things
  <2>2. ShapeIs(R) /\ k.popups[i] = w
    BY <1>1, <1>2
  <2> HIDE DEF R
  <2> QED
    BY <2>1, <2>2 DEF ShapeIs
<1> HIDE DEF no
<1>6. /\ v \in PopupWindows /\ v.y = w.y /\ v.parent = w.parent /\ v.at = w.at
      /\ v.of = w.of /\ v.made = w.made /\ v.page = w.page /\ v.place = w.place
      /\ v.last = w.last /\ v.title = w.title /\ v.text = w.text /\ v.missed = w.missed
      /\ ~v.visible /\ ~v.shown
  BY <1>3 DEF PopupWindows
<1> HIDE DEF v
<1> DEFINE there == k.desk
<1>7. /\ IsChanged(k, i, v, there) /\ TableFits(k, there) /\ SameView(k.desk, there)
      /\ poppler' = k.back /\ annots' = k.annots /\ popups' = [k.popups EXCEPT ![i] = v]
      /\ desk' = there /\ i \in DOMAIN k.popups
  BY <1>2, <1>4, <1>5, <1>6 DEF IsChanged, PlacedAs, PlacedIs
<1> HIDE DEF there
<1> QED
  BY <1>1, <1>2, <1>7, PopupEnds

\* Typing in a popup keeps the invariant.
LEMMA TypeKeeps ==
  ASSUME NotesInvariant, NEW i \in DOMAIN popups, TypeIn(i)
  PROVE  NotesInvariant'
<1> DEFINE k == IF desk.focus = i THEN Shape ELSE LeaveFocus(Shape)
           w == popups[i]
           text == Empty + 1 + noteCalls
           v == [w EXCEPT !.text = text]
           table == [k.desk EXCEPT !.focus = i]
<1>1. /\ listed' = listed /\ NoteCall
      /\ ShapeIs([k EXCEPT !.desk.focus = i, !.popups[i].text = text])
  BY Zenon DEF TypeIn, Hands
<1>2. /\ Good(k, listed) /\ k.desk \in Desks /\ k \in Things /\ k.back.number = poppler.number
      /\ TableFits(k, k.desk) /\ SameView(k.desk, k.desk) /\ k.popups = popups
      /\ k.desk.range = desk.range /\ k.desk.focus \in {0, i}
  <2>1. CASE desk.focus = i
    <3>1. k = Shape
      BY <2>1
    <3> HIDE DEF k
    <3>2. TableFits(k, k.desk) /\ SameView(k.desk, k.desk)
      BY <3>1, NotesHold, ShapeHas DEF TableFits, SameView
    <3> QED
      BY <3>1, <3>2, <2>1, NotesHold, ShapeHas
  <2>2. CASE desk.focus # i
    <3>1. k = LeaveFocus(Shape)
      BY <2>2
    <3> HIDE DEF k
    <3> QED
      BY <3>1, FocusLeft
  <2> QED
    BY <2>1, <2>2
<1> HIDE DEF k
<1>3. w \in PopupWindows /\ text \in Nat \ {0} /\ i \in Nat /\ i \in 0 .. Len(k.popups)
  <2>1. noteCalls \in Nat
    BY NoteAssumption DEF NotesInvariant
  <2>2. text \in Nat \ {0}
    BY <2>1 DEF Empty
  <2> QED
    BY <2>2, <1>2, NotesHold, SeqIn
<1>4. PlacedIs(k, i)
  BY <1>2 DEF Good, AllPlaced
<1> HIDE DEF text
<1>5. poppler' = k.back /\ annots' = k.annots /\ popups' = [k.popups EXCEPT ![i] = v] /\ desk' = table
  <2> DEFINE R == [k EXCEPT !.desk.focus = i, !.popups[i].text = text]
  <2>1. /\ R.back = k.back /\ R.annots = k.annots /\ R.desk = table
        /\ R.popups = [k.popups EXCEPT ![i] = [k.popups[i] EXCEPT !.text = text]]
    BY <1>2 DEF Things
  <2>2. ShapeIs(R) /\ k.popups[i] = w
    BY <1>1, <1>2
  <2> HIDE DEF R
  <2> QED
    BY <2>1, <2>2 DEF ShapeIs
<1>6. /\ v \in PopupWindows /\ v.y = w.y /\ v.parent = w.parent /\ v.at = w.at
      /\ v.of = w.of /\ v.made = w.made /\ v.page = w.page /\ v.place = w.place
      /\ v.last = w.last /\ v.title = w.title /\ v.missed = w.missed
      /\ v.visible = w.visible /\ v.shown = w.shown
  BY <1>3 DEF PopupWindows
<1> HIDE DEF v
<1>7. /\ table \in Desks /\ table.early = k.desk.early /\ table.mapped = k.desk.mapped
      /\ table.focus = i /\ table.menu = k.desk.menu /\ table.dialog = k.desk.dialog
      /\ table.range = k.desk.range /\ table.left = k.desk.left
      /\ table.pending = k.desk.pending
      /\ table.scroll = k.desk.scroll /\ table.scale = k.desk.scale
  BY <1>2, <1>3 DEF Desks
<1> HIDE DEF table
<1>8. TableFits(k, table) /\ SameView(k.desk, table) /\ i \in DOMAIN k.popups
  BY <1>2, <1>3, <1>7 DEF TableFits, SameView
<1>9. IsChanged(k, i, v, table)
  BY <1>2, <1>4, <1>6, <1>7 DEF IsChanged, PlacedAs, PlacedIs, ToView
<1> QED
  BY <1>1, <1>2, <1>5, <1>8, <1>9, PopupEnds

=============================================================================
