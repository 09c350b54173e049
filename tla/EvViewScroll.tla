------------------------------ MODULE EvViewScroll ------------------------------
(***************************************************************************)
(* Where the view is in the document: the layout, the scrolling and the    *)
(* current page of libview/ev-view.c with libview/ev-document-model.c.     *)
(*                                                                         *)
(* The handlers of the model only ask for a new layout, which GTK+ makes   *)
(* later, after the events that are waiting.  Until then the view keeps the*)
(* way it is to scroll then (pending_scroll), which the next handler may   *)
(* overwrite.  Lengths are pixels and the scale counts quarters.  Across,  *)
(* the whole of a page is in view, so that only the vertical adjustment is *)
(* kept, and a scroll bar takes no room.                                   *)
(***************************************************************************)
EXTENDS Integers, Sequences, FiniteSetsExt

CONSTANTS
  ViewHeights,  \* the documents: the heights of the pages of each
  ViewWidth,    \* the width of a page
  ViewSizes,    \* the heights the view may have
  ViewAcross,   \* the width of the view
  ViewScales,   \* the least and the greatest scale a user may choose
  ViewCalls     \* bound: calls of the user

ASSUME ViewAssumption ==
  /\ ViewCalls \in Nat /\ ViewSizes \subseteq Nat /\ ViewWidth \in Nat \ {0}
  /\ \A doc \in DOMAIN ViewHeights : ViewHeights[doc] \in Seq(Nat \ {0})

VARIABLES
  viewModel,   \* EvDocumentModel
  view,        \* EvView, and the page that was asked for last
  vadjustment, \* the vertical adjustment
  viewCalls    \* calls of the user so far

viewVars == <<viewModel, view, vadjustment, viewCalls>>

Spacing == 5
Border == 2   \* above and below together
NoPage == -1
SizingModes == {"free", "fit_width", "fit_page", "automatic"}

Viewed == [m |-> viewModel, v |-> view, a |-> vadjustment]
ViewIs(k) == viewModel' = k.m /\ view' = k.v /\ vadjustment' = k.a

-----------------------------------------------------------------------------
(* The geometry: ev_view_get_page_extents and the height to page cache.    *)

Larger(x, y) == IF x > y THEN x ELSE y
Smaller(x, y) == IF x < y THEN x ELSE y
Between(x, low, high) == IF x < low THEN low ELSE IF x > high THEN high ELSE x

PageCount(k) == Len(ViewHeights[k.v.doc])
Pages(k) == 0 .. PageCount(k) - 1
Turned90(k) == k.m.rotation = 90
DocHeight(k, page) == IF Turned90(k) THEN ViewWidth ELSE ViewHeights[k.v.doc][page + 1]
DocWidth(k, page) == IF Turned90(k) THEN ViewHeights[k.v.doc][page + 1] ELSE ViewWidth
Scaled(k, length) == (length * k.m.scale + 2) \div 4
Height(k, page) == Scaled(k, DocHeight(k, page))

\* In a row of two, a page on the left has the other one after it.
OnLeft(k, page) == (page % 2 = 0) = k.m.oddLeft
Even(k) == IF k.m.oddLeft THEN 0 ELSE 1
RowOf(k, page) == (page + Even(k)) \div 2
Pair(k, page) == {other \in Pages(k) : RowOf(k, other) = RowOf(k, page)}
RowHeight(k, row) ==
  Max({0} \cup {DocHeight(k, page) : page \in {p \in Pages(k) : RowOf(k, p) = row}})

\* ev_view_build_height_to_page_cache, get_page_y_offset
HeightToPage(k, page) ==
  IF k.m.dual THEN MapThenSumSet(LAMBDA row : RowHeight(k, row), 0 .. RowOf(k, page) - 1)
  ELSE MapThenSumSet(LAMBDA p : DocHeight(k, p), {p \in Pages(k) : p < page})
Offset(k, page) ==
  LET above == IF k.m.dual THEN RowOf(k, page) ELSE page
  IN Scaled(k, HeightToPage(k, page)) + (above + 1) * Spacing + above * Border

\* The page at the top of a view that is not continuous stands in its middle.  In a row
\* the border is forgotten.
Top(k, page) ==
  IF k.m.continuous THEN Offset(k, page)
  ELSE LET tallest == Max({Height(k, other) : other \in Pair(k, page)})
           own == Height(k, page) + (IF k.m.dual THEN 0 ELSE Border)
       IN Spacing + (IF k.m.dual THEN (tallest - Height(k, page)) \div 2 ELSE 0)
            + Larger(0, k.v.alloc - (own + 2 * Spacing)) \div 2

\* How much of a page is in view.
Overlap(k, top, height) ==
  Smaller(top + height + Border, k.a.value + k.a.size) - Larger(top, k.a.value)
Inside(k, page) == Overlap(k, Top(k, page), Height(k, page))

\* ev_view_size_request.  In a row the one after the current page is looked at.
Request(k) ==
  IF k.m.continuous THEN Offset(k, PageCount(k) + (IF k.m.dual THEN 1 ELSE 0))
  ELSE IF k.m.mode = "fit_page" THEN 1
  ELSE LET wider == k.m.dual /\ k.v.page + 1 \in Pages(k)
                      /\ DocWidth(k, k.v.page + 1) > DocWidth(k, k.v.page)
       IN Height(k, IF wider THEN k.v.page + 1 ELSE k.v.page) + Border + 2 * Spacing

-----------------------------------------------------------------------------
(* The adjustment and the current page.                                    *)

\* view_update_range_and_current_page.  Only a view that keeps its position may take
\* another page for the current one.
WithRange(k, seen) ==
  IF seen = {} THEN k ELSE [k EXCEPT !.v.start = Min(seen), !.v.end = Max(seen)]
WithCurrent(k, page) ==
  IF k.v.pending \notin {"keep", "find"} THEN k
  ELSE [k EXCEPT !.v.page = page, !.m.page = page, !.v.centred = FALSE]
MostInView(seen, area) ==
  Min({page \in seen : \A other \in seen : area[other] <= area[page]})
WithSeen(k, seen) ==
  WithCurrent(WithRange(k, seen),
          IF seen = {} THEN k.v.start
          ELSE MostInView(seen, [page \in seen |->
                                   Inside(k, page) * Scaled(k, DocWidth(k, page))]))
UpdateRangeAndPage(k) ==
  IF k.m.continuous THEN WithSeen(k, {page \in Pages(k) : Inside(k, page) > 0})
  ELSE WithRange(k, IF k.m.dual THEN Pair(k, k.v.page) ELSE {k.v.page})

\* gtk_adjustment_set_value, on_adjustment_value_changed
SetValue(k, value) ==
  LET v == Between(value, 0, Larger(0, k.a.upper - k.a.size))
  IN IF v = k.a.value THEN k ELSE UpdateRangeAndPage([k EXCEPT !.a.value = v])

\* gtk_adjustment_clamp_page
ClampPage(k, lower, upper) ==
  LET low == Between(lower, 0, k.a.upper)
      up == Between(upper, 0, k.a.upper)
      v == IF k.a.value + k.a.size < up THEN up - k.a.size ELSE k.a.value
  IN SetValue(k, IF v > low THEN low ELSE v)

\* ev_view_scroll_to_page_position, scroll_to_point
ScrollToPagePosition(k) ==
  LET y == IF k.v.point = 0 THEN Top(k, k.v.page)
           ELSE Top(k, k.v.page) + Border \div 2
                  + (IF Turned90(k) THEN 0
                     ELSE Smaller(Scaled(k, k.v.point), Height(k, k.v.page) + Border))
  IN IF k.m.continuous THEN ClampPage(k, y - Spacing \div 2, y + k.a.size)
     ELSE SetValue(k, y)

\* ev_view_set_adjustment_values
SetAdjustmentValues(k) ==
  LET upper == Larger(k.v.alloc, k.v.requisition)
      sized == [k EXCEPT !.a.upper = upper, !.a.size = k.v.alloc]
      ratio(twice) == (2 * upper * twice + 2 * k.a.upper) \div (4 * k.a.upper)
  IN CASE k.v.pending \in {"keep", "find"} -> SetValue(sized, ratio(2 * k.a.value))
       [] k.v.pending = "page" -> ScrollToPagePosition(sized)
       [] k.v.pending = "center" ->
            SetValue(sized, ratio(2 * k.a.value + k.a.size) - k.v.alloc \div 2)

-----------------------------------------------------------------------------
(* The layout.                                                             *)

\* ev_document_model_set_scale; ev_view_scale_changed_cb
SetScale(k, scale) ==
  LET s == Between(scale, IF k.m.mode = "free" THEN Min(ViewScales) ELSE 0, Max(ViewScales))
  IN IF s = k.m.scale THEN k
     ELSE [k EXCEPT !.m.scale = s, !.v.relayout = @ \/ k.m.mode = "free"]

\* zoom_for_size_fit_width, _fit_page and _automatic
FitWidth(k, width) == (4 * (ViewAcross - (IF k.m.dual THEN 2 ELSE 1) * (Border + Spacing) - Spacing))
                         \div ((IF k.m.dual THEN 2 ELSE 1) * width)
FitHeight(k, height) == (4 * (k.v.alloc - Border - 2 * Spacing)) \div height

\* ev_view_zoom_for_size: the largest page, or the current page and the one whose number
\* differs in the last bit.
ScaleToFit(k, width, height) ==
  CASE k.m.mode = "free" -> k.m.scale
    [] k.m.mode = "fit_width" -> FitWidth(k, width)
    [] k.m.mode = "automatic" /\ height >= width -> Smaller(FitWidth(k, width), 4)
    [] OTHER -> Smaller(FitWidth(k, width), FitHeight(k, height))
ZoomForSize(k) ==
  LET other == IF k.v.page % 2 = 0 THEN k.v.page + 1 ELSE k.v.page - 1
      sized == IF k.m.continuous THEN Pages(k)
               ELSE Pages(k) \cap (IF k.m.dual THEN {k.v.page, other} ELSE {k.v.page})
  IN SetScale(k, ScaleToFit(k, Max({DocWidth(k, page) : page \in sized}),
                            Max({DocHeight(k, page) : page \in sized})))

\* ev_view_size_request and ev_view_size_allocate
Requested(k) == [k EXCEPT !.v.requisition = Request(k)]
Granted(k) == [k EXCEPT !.v.alloc = k.v.granted]
Fitted(k) == IF k.m.mode = "free" THEN k ELSE Requested(ZoomForSize(k))
Laid(k) ==
  [UpdateRangeAndPage(SetAdjustmentValues(Fitted(Granted(Requested(ZoomForSize(k)))))) EXCEPT
     !.v.pending = "keep", !.v.relayout = FALSE, !.v.point = 0]

AllocateView ==
  /\ view.relayout
  /\ ViewIs([Laid(Viewed) EXCEPT !.v.centred = (view.pending = "center")])
  /\ UNCHANGED viewCalls

-----------------------------------------------------------------------------
(* The handlers of the model: they ask for a new layout.                   *)

Resizing(k) == [k EXCEPT !.v.relayout = TRUE]

\* Mutant: the page that was asked for does not outlive the next layout.
ChangePageKeeping(k, page) ==
  Resizing([k EXCEPT !.v.page = page, !.m.page = page, !.v.asked = page])

\* ev_view_change_page
ChangePage(k, page) ==
  Resizing([k EXCEPT !.v.page = page, !.m.page = page, !.v.pending = "page",
                     !.v.asked = page])

\* ev_document_model_set_page, ev_view_page_changed_cb
ViewToPage(k, page) ==
  IF page = k.m.page \/ page \notin Pages(k) THEN k ELSE ChangePage(k, page)

\* What was asked for before is no longer wanted once the layout was made, or when
\* another place is.
ViewCall(wanted) ==
  /\ viewCalls < ViewCalls /\ viewCalls' = viewCalls + 1
  /\ ViewIs(wanted)
Now == IF view.relayout THEN Viewed ELSE [Viewed EXCEPT !.v.asked = NoPage]
Elsewhere == [Viewed EXCEPT !.v.asked = NoPage]

\* ev_document_model_set_sizing_mode, ev_view_sizing_mode_changed_cb
SetSizingMode(k, mode) ==
  IF mode = k.m.mode THEN k
  ELSE [k EXCEPT !.m.mode = mode, !.v.relayout = @ \/ mode # "free"]

AtPage(k) == Resizing([k EXCEPT !.v.pending = "page"])

ChangeSizingMode(mode) == mode # viewModel.mode /\ ViewCall(SetSizingMode(Now, mode))
ChangeContinuous ==
  ViewCall(AtPage([Now EXCEPT !.m.continuous = ~@, !.v.asked = view.page]))
ChangePageLayout ==
  ViewCall(AtPage([Now EXCEPT !.m.dual = ~@, !.v.asked = view.page]))
ChangeDualOddLeft ==
  ViewCall(AtPage([Now EXCEPT !.m.oddLeft = ~@, !.v.asked = view.page]))

\* ev_view_rotation_changed_cb: pages of one size keep the position.
Uniform(k) == \A page \in Pages(k) : ViewHeights[k.v.doc][page + 1] = ViewHeights[k.v.doc][1]
ChangeRotation ==
  ViewCall(LET turned == [Now EXCEPT !.m.rotation = 90 - @]
           IN IF Uniform(turned) THEN Resizing(turned)
              ELSE AtPage([turned EXCEPT !.v.asked = view.page]))

\* The window gets another size.
Resize(size) ==
  /\ size # view.granted
  /\ ViewCall(Resizing([Now EXCEPT !.v.granted = size]))

\* ev_document_model_set_document: the page first, of the document before, then
\* ev_view_document_changed_cb, which keeps the position.
ChangeDocument(doc) ==
  /\ doc # view.doc
  /\ ViewCall(LET last == Len(ViewHeights[doc]) - 1
                  paged == ViewToPage(Viewed, Smaller(viewModel.page, last))
              IN Resizing([paged EXCEPT !.v.doc = doc, !.v.pending = "keep",
                                        !.v.asked = NoPage]))

-----------------------------------------------------------------------------
(* The user moves about.                                                   *)

\* go_to_next_page and go_to_previous_page
NextOf(k) ==
  LET page == k.v.page + (IF k.m.dual THEN 2 ELSE 1)
  IN IF page < PageCount(k) THEN page
     ELSE IF k.m.dual /\ page = PageCount(k) THEN page - 1 ELSE NoPage
PreviousOf(k) ==
  LET page == k.v.page - (IF k.m.dual THEN 2 ELSE 1)
  IN IF page >= 0 THEN page ELSE IF k.m.dual /\ page = -1 THEN 0 ELSE NoPage

\* ev_view_next_page, ev_view_previous_page; a page of the sidebar or of the page selector
TurnPage(forward) ==
  ViewCall(ViewToPage(Now, IF forward THEN NextOf(Viewed) ELSE PreviousOf(Viewed)))
GoToPage(page) == page \in Pages(Viewed) /\ ViewCall(ViewToPage(Now, page))

\* ev_view_goto_dest: goto_xyz_dest with and without a scale, goto_fit_dest and
\* goto_fith_dest.  ev_document_model_set_page tells the others of the page.
GotoDest(page, kind, point) ==
  /\ page \in Pages(Viewed)
  /\ ViewCall(LET sized == CASE kind = "xyz" -> Now
                             [] kind = "zoom" -> SetScale(SetSizingMode(Now, "free"), 8)
                             [] kind = "fith" -> SetSizingMode(Now, "fit_width")
                             [] kind = "fit" -> SetSizingMode(Now, "fit_page")
              IN ChangePage([sized EXCEPT !.v.point = IF kind = "fit" THEN @ ELSE point], page))

\* ev_view_scroll with the page keys: to the next page at the end of this one.  A line
\* that the view would cut is shown again.
ScrollPage(forward, line) ==
  LET last == Larger(0, vadjustment.upper - vadjustment.size)
      step == vadjustment.size - line
  IN IF viewModel.mode = "fit_page" THEN TurnPage(forward)
     ELSE ViewCall(
       CASE forward /\ vadjustment.value # last -> SetValue(Now, vadjustment.value + step)
         [] forward /\ vadjustment.value = last /\ view.page # PageCount(Viewed) - 1 ->
              SetValue(ViewToPage(Now, NextOf(Viewed)), 0)
         [] ~forward /\ vadjustment.value # 0 -> SetValue(Now, vadjustment.value - step)
         [] ~forward /\ vadjustment.value = 0 /\ view.page # 0 ->
              SetValue(ViewToPage(Now, PreviousOf(Viewed)), last)
         [] OTHER -> Now)

\* The scroll bar, the wheel, a drag, autoscroll
DragTo(quarter) ==
  ViewCall(SetValue(Now, ((vadjustment.upper - vadjustment.size) * quarter) \div 4))

\* ev_window_cmd_view_zoom_in, _out and ev_view_zoom
CanZoomIn == viewModel.scale * 2 <= Max(ViewScales)
CanZoomOut == viewModel.scale \div 2 > Min(ViewScales)
ZoomStep(in) ==
  /\ IF in THEN CanZoomIn ELSE CanZoomOut
  /\ ViewCall(SetScale([SetSizingMode(Elsewhere, "free") EXCEPT !.v.pending = "center"],
                       IF in THEN viewModel.scale * 2 ELSE viewModel.scale \div 2))

\* ev_view_find_set_result, jump_to_find_result and ensure_rectangle_is_visible, with a
\* result that is at the top of its page or at the end of it
FindResult(page, atEnd) ==
  /\ page \in Pages(Viewed)
  /\ ViewCall(LET k == ViewToPage(Elsewhere, page)
                  y == Top(k, page) + (IF atEnd THEN Height(k, page) ELSE 0)
                  found == [k EXCEPT !.v.pending = "find", !.v.asked = NoPage]
              IN IF y < k.a.value THEN SetValue(found, y - Spacing)
                 ELSE IF y + 1 > k.a.value + k.v.alloc
                   THEN SetValue(found, y + 1 - k.v.alloc + Spacing)
                 ELSE found)

-----------------------------------------------------------------------------
Closed(doc, continuous, dual, mode) ==
  [m |-> [page |-> 0, scale |-> 4, mode |-> mode, continuous |-> continuous,
          dual |-> dual, oddLeft |-> FALSE, rotation |-> 0],
   v |-> [doc |-> doc, page |-> 0, start |-> NoPage, end |-> NoPage, pending |-> "keep",
          point |-> 0, relayout |-> TRUE, requisition |-> 1, alloc |-> Max(ViewSizes),
          granted |-> Max(ViewSizes), asked |-> NoPage, centred |-> FALSE],
   a |-> [value |-> 0, upper |-> Max(ViewSizes), size |-> Max(ViewSizes)]]

ViewInit ==
  \E doc \in DOMAIN ViewHeights, continuous, dual \in BOOLEAN, mode \in {"free", "fit_width"} :
    LET k == Laid(Closed(doc, continuous, dual, mode))
    IN viewModel = k.m /\ view = k.v /\ vadjustment = k.a /\ viewCalls = 0

Moves ==
  \/ \E forward \in BOOLEAN : TurnPage(forward)
  \/ \E forward \in BOOLEAN, line \in {0, 2} : ScrollPage(forward, line)
  \/ \E page \in {1, 3} : GoToPage(page)
  \/ \E page \in {2}, kind \in {"xyz", "zoom", "fith", "fit"} : GotoDest(page, kind, 6)
  \/ \E quarter \in {1, 3} : DragTo(quarter)
  \/ \E page \in {1}, atEnd \in BOOLEAN : FindResult(page, atEnd)
Layouts ==
  \/ \E mode \in SizingModes : ChangeSizingMode(mode)
  \/ ChangeContinuous \/ ChangePageLayout \/ ChangeDualOddLeft \/ ChangeRotation
  \/ \E size \in ViewSizes : Resize(size)
  \/ \E doc \in DOMAIN ViewHeights : ChangeDocument(doc)
  \/ \E in \in BOOLEAN : ZoomStep(in)

ViewNext == AllocateView \/ Moves \/ Layouts
ViewSpec == ViewInit /\ [][ViewNext]_viewVars

-----------------------------------------------------------------------------
(* Properties.                                                             *)

ViewTypeOK ==
  /\ viewModel.scale \in 1 .. Max(ViewScales) /\ viewModel.mode \in SizingModes
  /\ view.page \in Int /\ view.pending \in {"keep", "page", "center", "find"}
  /\ vadjustment.value \in 0 .. vadjustment.upper /\ viewCalls \in 0 .. ViewCalls

\* The page of the model is the one the view has for its current page, in whatever
\* order the two tell each other of a page.
ViewFollowsModel == viewModel.page = view.page

\* When no layout is wanted any more, what can be scrolled to is what the present scale,
\* rotation, sizing and page layout need: whoever changes one of them asks for a layout.
LayoutIsCurrent ==
  ~view.relayout => vadjustment.upper = Larger(view.alloc, Request(Viewed))

\* Then the pages in view are pages of the document, the current page is one of them
\* (unless the scale was changed about the centre and nothing was scrolled since), and a
\* page that was asked for is still the current one, whatever came before its layout.
CurrentPageInView ==
  ~view.relayout =>
    /\ 0 <= view.start /\ view.start <= view.end /\ view.end < PageCount(Viewed)
    /\ ~view.centred => view.page \in view.start .. view.end
    /\ view.asked # NoPage => view.page = view.asked

ViewShowsPage == ViewFollowsModel /\ LayoutIsCurrent /\ CurrentPageInView
===============================================================================
