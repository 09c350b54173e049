----------------------------- MODULE EvAnnotations -----------------------------
(***************************************************************************)
(* The annotations of a document: what the back end has of them            *)
(* (backend/pdf/ev-poppler.cc), the objects that stand for them            *)
(* (libdocument/ev-annotation.c), their popup windows in the view          *)
(* (libview/ev-view.c, ev-annotation-window.c) and the dialog and the menu *)
(* of the window (shell/ev-window.c).                                      *)
(*                                                                         *)
(* Places are vertical; pages lie below one another in one column.  The    *)
(* settings of an annotation (author, colour, opacity, whether the popup   *)
(* is open at first, icon) behave alike and are one function.  EvEditing   *)
(* has the saving of a note; here a reload finds a file with or without    *)
(* what was done.                                                          *)
(***************************************************************************)
EXTENDS Integers, Sequences, SequencesExt, FiniteSets, FiniteSetsExt

CONSTANTS
  FileNotes,    \* the annotations of the file, in their order
  NotePages,    \* number of pages
  NoteCalls     \* bound: events of the user

Settings == {"label", "color", "open"}     \* opacity and icon are like color
NoteKinds == {"text", "highlight", "stamp"} \* with icon, with a fixed author, not supported
Nobody == 0    \* the author of an annotation that has none
Me == 1        \* the name of the user
Nothing == 0   \* the contents of an annotation that has none
Empty == 1     \* the empty text

\* What the back end has of an annotation
NoteSettings == [label : Nat, color : Nat, open : Nat]
NoteOfFile == [page : 1 .. NotePages, kind : NoteKinds, popup : BOOLEAN, place : Int,
               contents : Nat, gone : BOOLEAN, settings : NoteSettings]

\* No page is scrolled out of the document: three of them fill the view at any scale.
ASSUME NoteAssumption ==
  /\ NotePages \in Nat /\ NotePages >= 3 /\ NoteCalls \in Nat
  /\ FileNotes \in Seq(NoteOfFile)

VARIABLES
  poppler,   \* of the document: number, modified, and its annotations
  annots,    \* the EvAnnotation objects, the oldest first
  listed,    \* pdf_document->annots: for each page its objects, if a list was made
  popups,    \* view->window_children
  desk,      \* the view's scroll, scale, range, mappings and focus; the menu; the dialog
  noteCalls

noteVars == <<poppler, annots, listed, popups, desk, noteCalls>>

AnnotPages == 1 .. NotePages
PageHeight == 4    \* at scale 1
SeenHeight == 8    \* of the view
PopupHeight == 2
Strike == 9        \* the author of a highlight without an author

\* What a call changes, and its result.
Shape == [back |-> poppler, annots |-> annots, popups |-> popups, desk |-> desk]
ShapeIs(k) == /\ poppler' = k.back /\ annots' = k.annots
              /\ popups' = k.popups /\ desk' = k.desk

-----------------------------------------------------------------------------
(* Geometry.                                                               *)

\* _ev_view_transform_doc_rect_to_view_rect less the scroll, and back
ToView(d, p, place) == ((p - 1) * PageHeight + place) * d.scale - d.scroll
ToPage(d, p, y) == (y + d.scroll) \div d.scale - (p - 1) * PageHeight
\* start_page .. end_page
InRange(at, scale) == {p \in AnnotPages : /\ (p - 1) * PageHeight * scale < at + SeenHeight
                                          /\ p * PageHeight * scale > at}

\* ev_view_window_child_move: the window is kept inside the view.
Clamp(y, parent) == IF y < parent THEN parent
                    ELSE IF y > parent + SeenHeight - PopupHeight
                      THEN parent + SeenHeight - PopupHeight
                    ELSE y
ChildMove(w, y, parent) ==
  [w EXCEPT !.y = y, !.parent = parent, !.at = Clamp(y, parent), !.missed = FALSE]

-----------------------------------------------------------------------------
(* The back end and the objects.                                           *)

\* pdf_document_annotations_save_annotation.  The annotation of another document is
\* written to that one, and of one that was removed nothing is left to write to; this
\* document is marked as modified in any case.
SaveAnnotation(k, a, mask) ==
  LET e == k.annots[a]
      note == k.back.notes[e.of]
      Stored(set) == set \in mask /\ (set = "open" => note.popup)
      settings == [set \in Settings |-> IF Stored(set) THEN e.settings[set] ELSE note.settings[set]]
      saved == [note EXCEPT !.contents = IF "contents" \in mask THEN e.contents ELSE @,
                            !.settings = settings]
      marked == [k EXCEPT !.back.modified = TRUE]
  IN  IF e.doc = k.back.number /\ ~note.gone
        THEN [marked EXCEPT !.back.notes[e.of] = saved] ELSE marked

\* ev_annot_from_poppler_annot.  A highlight without an author gets one that is not
\* stored: ev_annotation_markup_set_label refuses NULL after the constructor's.
FromPoppler(of, n) ==
  LET note == poppler.notes[of]
  IN  [doc |-> poppler.number, of |-> of, page |-> note.page, name |-> n,
       contents |-> note.contents, popup |-> note.popup, place |-> note.place,
       window |-> 0, heard |-> FALSE,
       settings |-> [note.settings EXCEPT
                       !.label = IF @ = Nobody /\ note.kind = "highlight" THEN Strike ELSE @]]

\* The annotations of the page that are known to Evince, in their order.
KnownOf(notes, p) ==
  LET known[n \in 0 .. Len(notes)] ==
        IF n = 0 THEN <<>>
        ELSE IF notes[n].page = p /\ ~notes[n].gone /\ notes[n].kind # "stamp"
          THEN Append(known[n - 1], n) ELSE known[n - 1]
  IN known[Len(notes)]
Known(p) == KnownOf(poppler.notes, p)

\* pdf_document_annotations_get_annotations: a page that has no list gets one, of new
\* objects that are numbered from 1 on; a page without annotations stays without.
GetAnnotations(p) ==
  IF listed[p] # <<>> THEN UNCHANGED <<annots, listed>>
  ELSE /\ annots' = annots \o [n \in DOMAIN Known(p) |-> FromPoppler(Known(p)[n], n)]
       /\ listed' = [listed EXCEPT ![p] = [n \in DOMAIN Known(p) |-> Len(annots) + n]]

\* ev_job_page_data_run for a page in view: the cache then has its mapping, and that
\* is NULL when the page has no annotations.
PageData(p) ==
  /\ p \in desk.range /\ p \notin desk.mapped /\ (listed[p] # <<>> \/ Known(p) # <<>>)
  /\ GetAnnotations(p)
  /\ desk' = [desk EXCEPT !.mapped = @ \cup {p}]
  /\ UNCHANGED <<poppler, popups, noteCalls>>

\* ev_job_annots_run, for the sidebar, does the same to every page.
AnnotsJob ==
  /\ \E p \in AnnotPages :
       /\ listed[p] = <<>> /\ Known(p) # <<>>
       /\ \A q \in 1 .. p - 1 : listed[q] # <<>> \/ Known(q) = <<>>
       /\ GetAnnotations(p)
  /\ UNCHANGED <<poppler, popups, desk, noteCalls>>

-----------------------------------------------------------------------------
(* The popup windows.                                                      *)

TextOf(contents) == IF contents = Nothing THEN Empty ELSE contents

\* ev_annotation_window_sync_contents, ev_annotation_set_contents and, if the window was
\* made for the annotation, ev_view_annotation_save_contents.
SyncContents(k, i) ==
  LET a == k.popups[i].of
      written == [k EXCEPT !.annots[a].contents = k.popups[i].text]
  IN  IF k.annots[a].contents = k.popups[i].text THEN k
      ELSE IF k.annots[a].heard THEN SaveAnnotation(written, a, {"contents"}) ELSE written

\* ev_annotation_window_ungrab_focus, or the focus-out event of the window
LeaveFocus(k) == IF k.desk.focus = 0 THEN k
                 ELSE [SyncContents(k, k.desk.focus) EXCEPT !.desk.focus = 0]

\* ev_view_create_annotation_window with ev_view_window_child_put
CreateWindow(k, a) ==
  LET e == k.annots[a]
      w == [of |-> a, made |-> a, page |-> e.page, place |-> e.place, moved |-> FALSE,
            last |-> 0, missed |-> FALSE, title |-> e.settings.label, text |-> TextOf(e.contents),
            visible |-> e.settings.open = 1, shown |-> e.settings.open = 1,
            y |-> 0, parent |-> 0, at |-> 0]
      root == k.desk.origin
  IN  [k EXCEPT !.popups = Append(@, ChildMove(w, ToView(k.desk, e.page, e.place) + root, root)),
                !.annots[a].window = Len(k.popups) + 1, !.annots[a].heard = TRUE]

\* Mutant: the window is moved and the place of its parent not taken down.
MoveWithParentForgotten(k, i) ==
  LET w == k.popups[i]
      root == k.desk.origin
      there == IF root = w.parent THEN w ELSE ChildMove(w, w.y + root - w.parent, w.parent)
  IN  [k EXCEPT !.popups[i] = [there EXCEPT !.shown = w.shown \/ w.visible]]

\* ev_view_window_child_move_with_parent
MoveWithParent(k, i) ==
  LET w == k.popups[i]
      root == k.desk.origin
      there == IF root = w.parent THEN w ELSE ChildMove(w, w.y + root - w.parent, root)
  IN  [k EXCEPT !.popups[i] = [there EXCEPT !.shown = w.shown \/ w.visible]]

\* ev_view_find_window_child_for_annot: the first of the page with the same name
WindowsFor(k, a) == {i \in DOMAIN k.popups :
                       /\ k.popups[i].page = k.annots[a].page
                       /\ k.annots[k.popups[i].of].name = k.annots[a].name}

\* ev_annotation_window_set_annotation: the text of the window goes into the
\* annotation, which nobody listens to, and its title stays.
SetAnnotation(k, i, a) ==
  SyncContents([k EXCEPT !.popups[i].of = a, !.annots[a].window = i], i)

\* show_annotation_windows for one annotation of the page
ShowWindow(k, a) ==
  IF ~k.annots[a].popup THEN k
  ELSE IF k.annots[a].window # 0 THEN MoveWithParent(k, k.annots[a].window)
  ELSE IF WindowsFor(k, a) = {} THEN CreateWindow(k, a)
  ELSE LET i == Min(WindowsFor(k, a)) IN MoveWithParent(SetAnnotation(k, i, a), i)

\* ev_view_draw of a page that is ready
DrawPage(p) ==
  /\ p \in desk.range \intersect desk.mapped
  /\ LET drawn[n \in 0 .. Len(listed[p])] ==
           IF n = 0 THEN Shape ELSE ShowWindow(drawn[n - 1], listed[p][n])
     IN ShapeIs(drawn[Len(listed[p])])
  /\ UNCHANGED <<listed, noteCalls>>

\* The pages whose popups view_update_range_and_current_page hides, and those of them
\* that have a mapping: the windows of the others stay.
Passed(d, range) ==
  {p \in AnnotPages : \/ Min(d.range) <= p /\ p < Min(range)
                      \/ Max(range) < p /\ p <= Max(d.range)}
UpdateRange(k) ==
  LET range == InRange(k.desk.scroll, k.desk.scale)
      hidden == Passed(k.desk, range) \intersect k.desk.mapped
      windows == {k.annots[a].window : a \in UNION {Range(listed[p]) : p \in hidden}}
  IN  [k EXCEPT !.popups = [i \in DOMAIN @ |-> IF i \in windows THEN [@[i] EXCEPT !.shown = FALSE]
                                               ELSE @[i]],
                !.desk.range = range,
                !.desk.left = (@ \ hidden) \cup (Passed(k.desk, range) \ k.desk.mapped)]

\* The part of ev_view_size_allocate about windows.  Where the layout scrolls to is the
\* matter of EvViewScroll.
Relayout(at) ==
  LET laid == UpdateRange([Shape EXCEPT !.desk.scroll = at, !.desk.pending = FALSE])
      to(w) == ChildMove(w, ToView(laid.desk, w.page, w.place) + desk.origin, desk.origin)
  IN  /\ desk.pending
      /\ ShapeIs([laid EXCEPT !.popups = [i \in DOMAIN @ |-> to(@[i])]])
      /\ UNCHANGED <<listed, noteCalls>>

-----------------------------------------------------------------------------
(* The user.                                                               *)

NoteCall == noteCalls < NoteCalls /\ noteCalls' = noteCalls + 1
Hands == NoteCall /\ desk.menu = 0 /\ desk.dialog = 0
InView == UNION {Range(listed[p]) : p \in desk.range \intersect desk.mapped}

\* on_adjustment_value_changed
ScrollView(at) ==
  /\ Hands /\ at # desk.scroll
  /\ LET to(w) == ChildMove(w, w.y + desk.scroll - at, w.parent)
     IN  ShapeIs(UpdateRange([Shape EXCEPT !.desk.scroll = at,
                                           !.popups = [i \in DOMAIN @ |-> to(@[i])]]))
  /\ UNCHANGED listed

ZoomView ==
  /\ Hands /\ desk' = [desk EXCEPT !.scale = 3 - @, !.pending = TRUE]
  /\ UNCHANGED <<poppler, annots, listed, popups>>

\* The window manager moves the window of the view.
MoveView ==
  /\ Hands /\ desk' = [desk EXCEPT !.origin = 2 - @]
  /\ UNCHANGED <<poppler, annots, listed, popups>>

\* A press of the first button on an annotation: ev_view_handle_annotation
OpenPopup(a) ==
  /\ Hands /\ a \in InView /\ annots[a].window # 0
  /\ LET i == annots[a].window
         w == popups[i]
     IN  ShapeIs(IF w.visible THEN LeaveFocus(Shape)
                 ELSE [LeaveFocus(Shape) EXCEPT
                         !.popups[i] = [ChildMove(w, w.y, w.parent) EXCEPT
                                          !.visible = TRUE, !.shown = TRUE]])
  /\ UNCHANGED listed

\* ev_annotation_window_close
ClosePopup(i) ==
  /\ Hands /\ popups[i].shown
  /\ ShapeIs([LeaveFocus(Shape) EXCEPT !.popups[i].visible = FALSE, !.popups[i].shown = FALSE])
  /\ UNCHANGED listed

\* text_view_button_press and annotation_window_grab_focus, then typing
TypeIn(i) ==
  /\ Hands /\ popups[i].shown
  /\ LET k == IF desk.focus = i THEN Shape ELSE LeaveFocus(Shape)
     IN  ShapeIs([k EXCEPT !.desk.focus = i, !.popups[i].text = Empty + 1 + noteCalls])
  /\ UNCHANGED listed

\* The title of a popup is pressed and the popup moved to y on the screen:
\* ev_annotation_window_focus_in_event tells it unless it was left there the last time,
\* and annotation_window_moved hears it unless it believes it there.
MovePopup(i, y) ==
  LET k == LeaveFocus(Shape)
      w == [k.popups[i] EXCEPT !.at = y, !.last = y]
      told == popups[i].last # y
  IN  /\ Hands /\ popups[i].shown
      /\ ShapeIs([k EXCEPT !.popups[i] =
           IF told /\ w.y # y
             THEN [w EXCEPT !.y = y, !.moved = TRUE, !.missed = FALSE,
                            !.place = ToPage(desk, w.page, y - w.parent)]
             ELSE [w EXCEPT !.missed = ~told /\ w.y # y]])
      /\ UNCHANGED listed

\* The number in the name of a new note: its place in the list, and 0 on a page without
\* a list.
NewName(p) == IF listed[p] = <<>> THEN 0 ELSE Len(listed[p]) + 1

\* ev_view_create_annotation and pdf_document_annotations_add_annotation.  A page that
\* has no mapping gets one with the next job.
CreateNote(p, place) ==
  LET settings == [label |-> Me, color |-> 1, open |-> 0]
      k == LeaveFocus(Shape)
      added == [k EXCEPT
        !.back.notes = Append(@, [page |-> p, kind |-> "text", popup |-> TRUE, place |-> place,
                                  contents |-> Nothing, settings |-> settings, gone |-> FALSE]),
        !.back.modified = TRUE,
        !.annots = Append(@, [doc |-> poppler.number, of |-> Len(poppler.notes) + 1, page |-> p,
                              name |-> NewName(p),
                              contents |-> Nothing, popup |-> TRUE, place |-> place,
                              window |-> 0, heard |-> FALSE, settings |-> settings]),
        !.desk.early = IF listed[p] = <<>> /\ Known(p) # <<>> THEN @ \cup {p} ELSE @]
      a == Len(added.annots)
      made == CreateWindow(added, a)
  IN  /\ Hands /\ p \in desk.range
      /\ ShapeIs([made EXCEPT !.popups[made.annots[a].window].visible = TRUE,
                              !.popups[made.annots[a].window].shown = TRUE])
      /\ listed' = [listed EXCEPT ![p] = Append(@, a)]

\* The third button on an annotation: view_menu_annot_popup
OpenMenu(a) ==
  /\ Hands /\ a \in InView
  /\ ShapeIs([LeaveFocus(Shape) EXCEPT !.desk.menu = a])
  /\ UNCHANGED listed

\* ev_view_popup_cmd_remove_annot: the object stays in its list, and its window too.
RemoveAnnot ==
  /\ desk.menu # 0
  /\ LET e == annots[desk.menu]
     IN  poppler' = [poppler EXCEPT
           !.modified = TRUE,
           !.notes = IF e.doc # poppler.number THEN @ ELSE [@ EXCEPT ![e.of].gone = TRUE]]
  /\ desk' = [desk EXCEPT !.menu = 0]
  /\ UNCHANGED <<annots, listed, popups, noteCalls>>

\* ev_view_popup_cmd_annot_properties until the dialog is answered; and closing the menu
OpenProperties ==
  /\ desk.menu # 0
  /\ \E a \in {0, desk.menu} : desk' = [desk EXCEPT !.menu = 0, !.dialog = a]
  /\ UNCHANGED <<poppler, annots, listed, popups, noteCalls>>

\* ev_annotation_properties_dialog_new_with_annotation shows the settings, and the name of
\* the user where there is no author.
DialogShows(e) == [e.settings EXCEPT !.label = IF @ = Nobody THEN Me ELSE @]
\* Applied with a changed setting, or as it is; a changed author is the popup's title.
ApplyProperties(set, value) ==
  LET a == desk.dialog
      new == [DialogShows(annots[a]) EXCEPT ![set] = value]
      mask == {s \in Settings : new[s] # annots[a].settings[s]}
      k == [Shape EXCEPT !.annots[a].settings = new, !.desk.dialog = 0,
              !.popups = [i \in DOMAIN @ |-> IF @[i].made = a /\ "label" \in mask
                                              THEN [@[i] EXCEPT !.title = new.label] ELSE @[i]]]
  IN  ShapeIs(IF mask = {} THEN k ELSE UpdateRange(SaveAnnotation(k, a, mask)))
Apply ==
  /\ desk.dialog # 0
  /\ \E set \in Settings : \E value \in {DialogShows(annots[desk.dialog])[set]}
                                        \cup (IF set = "open" THEN {0, 1} ELSE {2}) :
       ApplyProperties(set, value)
  /\ UNCHANGED <<listed, noteCalls>>

\* The notes that are not removed, in their order
Remaining(notes) ==
  LET left[n \in 0 .. Len(notes)] ==
        IF n = 0 THEN <<>>
        ELSE IF notes[n].gone THEN left[n - 1] ELSE Append(left[n - 1], notes[n])
  IN left[Len(notes)]

\* The document is loaded again from a file that has what was done, or has not.
ReloadNotes(saved) ==
  /\ NoteCall
  /\ poppler' = [number |-> poppler.number + 1, modified |-> FALSE,
                 notes |-> IF saved THEN Remaining(poppler.notes) ELSE FileNotes]
  /\ listed' = [p \in AnnotPages |-> <<>>]
  /\ desk' = [desk EXCEPT !.mapped = {}, !.early = {}, !.pending = TRUE]
  /\ UNCHANGED <<annots, popups>>

-----------------------------------------------------------------------------
NotesInit ==
  /\ poppler = [number |-> 1, modified |-> FALSE, notes |-> FileNotes]
  /\ annots = <<>> /\ listed = [p \in AnnotPages |-> <<>>] /\ popups = <<>>
  /\ desk = [scroll |-> 0, scale |-> 2, origin |-> 0, pending |-> FALSE,
             range |-> InRange(0, 2), mapped |-> {}, left |-> {}, early |-> {},
             focus |-> 0, menu |-> 0, dialog |-> 0]
  /\ noteCalls = 0

NotesUser ==
  \/ \E at \in {0, 4, 8} : ScrollView(at)
  \/ ZoomView \/ MoveView \/ RemoveAnnot \/ OpenProperties \/ Apply
  \/ \E a \in InView : OpenPopup(a) \/ OpenMenu(a)
  \/ \E i \in DOMAIN popups : \/ ClosePopup(i) \/ TypeIn(i)
                              \/ \E y \in {0, 4} : MovePopup(i, y)
  \/ \E p \in AnnotPages : CreateNote(p, 2)
  \/ \E saved \in BOOLEAN : ReloadNotes(saved)
NotesSources ==
  \/ \E p \in AnnotPages : PageData(p) \/ DrawPage(p)
  \/ AnnotsJob \/ \E at \in {0, 4} : Relayout(at)
NotesNext == NotesUser \/ NotesSources
NotesSpec == NotesInit /\ [][NotesNext]_noteVars

-----------------------------------------------------------------------------
(* Properties.                                                             *)

NotesTypeOK ==
  /\ poppler.modified \in BOOLEAN /\ poppler.number \in 1 .. NoteCalls + 1
  /\ \A p \in AnnotPages : Range(listed[p]) \subseteq DOMAIN annots
  /\ \A i \in DOMAIN popups : popups[i].of \in DOMAIN annots /\ popups[i].page \in AnnotPages
  /\ desk.mapped \cup desk.left \cup desk.early \cup desk.range \subseteq AnnotPages
  /\ desk.focus \in 0 .. Len(popups) /\ desk.menu \in 0 .. Len(annots)

\* What is written in a popup is in its note unless the popup has the keyboard, and what
\* a note has is in the document: all its settings, and its text if the popup was made
\* for it.  The names of a page are different, and its list is complete, unless a note
\* was created before the page had a list.
NotesAreKept ==
  /\ \A i \in DOMAIN popups :
       popups[i].text # TextOf(annots[popups[i].of].contents) => desk.focus = i
  /\ \A a \in DOMAIN annots :
       LET e == annots[a]
           n == poppler.notes[e.of]
       IN  e.doc = poppler.number /\ ~n.gone =>
             /\ e.heard => e.contents = n.contents
             /\ \A s \in Settings : \/ e.settings[s] = n.settings[s]
                                    \/ s = "open" /\ ~n.popup
                                    \/ s = "label" /\ n.settings[s] = Nobody
  /\ \A p \in AnnotPages :
       /\ \A a, b \in Range(listed[p]) : annots[a].name = annots[b].name => a = b
       /\ p \in desk.mapped \ desk.early => Len(Known(p)) <= Len(listed[p])

\* A popup is where its note is (or where the user has put it) on a page in view,
\* however the view is scrolled, zoomed and moved; it carries the author's name.  It is
\* not on the screen without its page, unless the page went out of view before its
\* mapping was known, or the document it was made for is gone.
PopupsFollowTheirNotes ==
  \A i \in DOMAIN popups :
    LET w == popups[i]
        ofThis == \E a \in DOMAIN annots : annots[a].doc = poppler.number /\ annots[a].window = i
    IN  /\ ~desk.pending => w.y - w.parent = ToView(desk, w.page, w.place)
        /\ ~w.missed => w.at = w.last \/ w.at = Clamp(w.y, w.parent)
        /\ w.title = annots[w.made].settings.label
        /\ w.shown => w.visible
        /\ w.shown /\ ofThis => w.page \in desk.range \cup desk.left
        /\ \A a \in DOMAIN annots :
             annots[a].doc = poppler.number /\ annots[a].window = i => w.of = a

\* What the user has written and set is in the notes and in the document, and the popups
\* are where the notes are and say what they say.
NotesAndPopupsAgree == NotesAreKept /\ PopupsFollowTheirNotes
================================================================================
