------------------------- MODULE EvSidebarThumbnails -------------------------
(***************************************************************************)
(* The thumbnails of the sidebar, shell/ev-sidebar-thumbnails.c: a row for *)
(* every page, whose picture is rendered by a job while the row is         *)
(* visible.  A job belongs to its row and is forgotten when it is          *)
(* cancelled and its handler disconnected.                                 *)
(*                                                                         *)
(* The sidebar hears the notifications of the document model at once, in  *)
(* the call that changes it.                                               *)
(***************************************************************************)
EXTENDS Integers, FiniteSets

CONSTANTS
  ThumbPages,  \* bound: pages of a document
  ThumbRows,   \* rows that fit in the sidebar
  ThumbDocs,   \* bound: versions of the document; 0 is one without pages
  ThumbCalls   \* bound: calls of the user

ASSUME ThumbAssumption ==
  /\ ThumbRows \in Nat \ {0} /\ ThumbPages \in Nat /\ ThumbPages >= ThumbRows
  /\ ThumbDocs \in Nat \ {0} /\ ThumbCalls \in Nat

VARIABLES
  thumbs,    \* priv: document, rotation, inverted, the range, the refreshes pending
  thumbRows, \* list_store: COLUMN_JOB, COLUMN_THUMBNAIL_SET and COLUMN_PIXBUF
  thumbPane  \* the widget (mapped, first row shown), the document model, calls made

thumbVars == <<thumbs, thumbRows, thumbPane>>

ThumbPage == 0 .. (ThumbPages - 1)
ThumbTops == 0 .. (ThumbPages - ThumbRows)
LoadingIcon == [doc |-> 0, rotation |-> 0, inverted |-> FALSE]
NoThumb == [at |-> "none", doc |-> 0, rotation |-> 0]
EmptyRow == [job |-> NoThumb, set |-> FALSE, pixbuf |-> LoadingIcon]

Sidebar == [t |-> thumbs, r |-> thumbRows, p |-> thumbPane]
SidebarIs(w) == thumbs' = w.t /\ thumbRows' = w.r /\ thumbPane' = w.p
ThumbsInSight(w) == w.p.top .. (w.p.top + ThumbRows - 1)

-----------------------------------------------------------------------------
\* clear_range: the jobs are disconnected and cancelled.
ClearThumbs(w, first, last) ==
  [w EXCEPT !.r = [p \in ThumbPage |-> IF p \in first .. last THEN EmptyRow ELSE @[p]]]

\* add_range
AddThumbs(w, first, last) ==
  [w EXCEPT !.r = [p \in ThumbPage |->
     IF p \in first .. last /\ @[p].job = NoThumb /\ ~@[p].set
       THEN [@[p] EXCEPT !.job = [at |-> "waiting", doc |-> w.t.doc,
                                  rotation |-> w.t.rotation]]
       ELSE @[p]]]

\* update_visible_range
UpdateVisibleRange(w, start, end) ==
  LET old == w.t
      low == IF old.start >= 0 /\ old.start < start
               THEN ClearThumbs(w, old.start, IF start - 1 < old.end THEN start - 1 ELSE old.end)
               ELSE w
      high == IF old.end > 0 /\ old.end > end
                THEN ClearThumbs(low, IF end + 1 > old.start THEN end + 1 ELSE old.start, old.end)
                ELSE low
  IN IF start = old.start /\ end = old.end THEN w
     ELSE [AddThumbs(high, start, end) EXCEPT !.t.start = start, !.t.end = end]

\* adjustment_changed_cb: nothing is done for a sidebar that is not seen.
AdjustmentChanged(w) ==
  IF ~w.p.mapped THEN w
  ELSE UpdateVisibleRange(w, w.p.top, w.p.top + ThumbRows - 1)

\* ev_sidebar_thumbnails_set_current_page: the view scrolls as little as it can,
\* and tells so ("value-changed") when it does.
ScrollTo(w, page) ==
  LET top == IF page < w.p.top THEN page
             ELSE IF page \in ThumbsInSight(w) THEN w.p.top ELSE page - ThumbRows + 1
  IN IF top = w.p.top THEN w ELSE AdjustmentChanged([w EXCEPT !.p.top = top])

\* ev_sidebar_thumbnails_clear_model and fill_model, and the range forgotten
ThumbsRefilled(w) ==
  [w EXCEPT !.r = [p \in ThumbPage |-> EmptyRow], !.t.start = -1, !.t.end = -1]

\* ev_sidebar_thumbnails_reload, as often as its handler is connected: once for
\* every document that has been shown
ReloadThumbs(w) ==
  [ScrollTo(ThumbsRefilled(w), w.p.page) EXCEPT !.t.refresh = @ + w.t.handlers]

-----------------------------------------------------------------------------
(* The user and the window.                                                *)

MayUseThumbs == thumbPane.calls < ThumbCalls
ThumbsUsed == [Sidebar EXCEPT !.p.calls = @ + 1]
ThumbsShown == thumbs.doc # 0 /\ thumbPane.doc # 0

\* ev_sidebar_thumbnails_map; hiding the sidebar tells nothing.
MapSidebar == MayUseThumbs /\ ~thumbPane.mapped /\ ThumbsShown
              /\ SidebarIs(AdjustmentChanged([ThumbsUsed EXCEPT !.p.mapped = TRUE]))
UnmapSidebar == MayUseThumbs /\ thumbPane.mapped
                /\ SidebarIs([ThumbsUsed EXCEPT !.p.mapped = FALSE])

ScrollSidebar(top) ==
  /\ MayUseThumbs /\ ThumbsShown /\ top # thumbPane.top
  /\ SidebarIs(AdjustmentChanged([ThumbsUsed EXCEPT !.p.top = top]))

\* page_changed_cb, for a page chosen elsewhere or by a click on its thumbnail
\* (ev_sidebar_tree_selection_changed, ev_sidebar_icon_selection_changed)
ThumbsPage(page) ==
  /\ MayUseThumbs /\ ThumbsShown /\ page # thumbPane.page
  /\ SidebarIs(ScrollTo([ThumbsUsed EXCEPT !.p.page = page], page))

\* ev_sidebar_thumbnails_rotation_changed_cb, inverted_colors_changed_cb
RotateThumbs ==
  /\ MayUseThumbs /\ ThumbsShown
  /\ SidebarIs(ReloadThumbs([ThumbsUsed EXCEPT !.p.rotation = 90 - @, !.t.rotation = 90 - @]))
InvertThumbs ==
  /\ MayUseThumbs /\ ThumbsShown
  /\ SidebarIs(ReloadThumbs([ThumbsUsed EXCEPT !.p.inverted = ~@, !.t.inverted = ~@]))

\* ev_sidebar_thumbnails_document_changed_cb: one that has no pages is not shown,
\* and the rows of the one before stay.
ThumbsDocument(doc) ==
  /\ MayUseThumbs /\ doc # thumbPane.doc
  /\ LET w == [ThumbsUsed EXCEPT !.p.doc = doc, !.p.page = 0]
         t == [thumbs EXCEPT !.doc = doc, !.rotation = w.p.rotation, !.inverted = w.p.inverted,
                             !.handlers = @ + 1]
         taken == [w EXCEPT !.t = t]
     IN SidebarIs(IF doc = 0 THEN w ELSE AdjustmentChanged(ScrollTo(ThumbsRefilled(taken), 0)))

-----------------------------------------------------------------------------
(* The main loop and the worker.                                           *)

RefreshThumbs ==
  /\ thumbs.refresh > 0 /\ ThumbsShown
  /\ SidebarIs(AdjustmentChanged([Sidebar EXCEPT !.t.refresh = @ - 1]))

\* ev_job_thumbnail_run
RenderThumb(p) ==
  /\ thumbRows[p].job.at = "waiting"
  /\ SidebarIs([Sidebar EXCEPT !.r[p].job.at = "rendered"])

\* thumbnail_job_completed_callback: inverted by what the sidebar says now
ThumbCompleted(p) ==
  /\ thumbRows[p].job.at = "rendered"
  /\ SidebarIs([Sidebar EXCEPT
       !.r[p] = [job |-> NoThumb, set |-> TRUE,
                 pixbuf |-> [doc |-> thumbRows[p].job.doc, rotation |-> thumbRows[p].job.rotation,
                             inverted |-> thumbs.inverted]]])

ThumbInit ==
  /\ thumbs = [doc |-> 0, rotation |-> 0, inverted |-> FALSE, start |-> -1, end |-> -1,
               refresh |-> 0, handlers |-> 0]
  /\ thumbRows = [p \in ThumbPage |-> EmptyRow]
  /\ thumbPane = [mapped |-> FALSE, top |-> 0, page |-> 0, doc |-> 0, rotation |-> 0,
             inverted |-> FALSE, calls |-> 0]

ThumbNext ==
  \/ MapSidebar \/ UnmapSidebar \/ RotateThumbs \/ InvertThumbs \/ RefreshThumbs
  \/ \E top \in ThumbTops : ScrollSidebar(top)
  \/ \E d \in 0 .. ThumbDocs : ThumbsDocument(d)
  \/ \E p \in ThumbPage : ThumbsPage(p) \/ RenderThumb(p) \/ ThumbCompleted(p)

ThumbSpec == ThumbInit /\ [][ThumbNext]_thumbVars

-----------------------------------------------------------------------------
ThumbTypeOK ==
  /\ thumbs.doc \in 0 .. ThumbDocs /\ thumbs.rotation \in {0, 90}
  /\ thumbs.start \in -1 .. (ThumbPages - 1) /\ thumbs.end \in -1 .. (ThumbPages - 1)
  /\ \A p \in ThumbPage : thumbRows[p].set \in BOOLEAN
                          /\ thumbRows[p].job.at \in {"none", "waiting", "rendered"}
  /\ thumbPane.top \in ThumbTops /\ thumbPane.page \in ThumbPage /\ thumbPane.mapped \in BOOLEAN

\* Every row that the user sees has its picture or a job that makes it, and no
\* other row costs a job or a picture, however the sidebar was scrolled, hidden,
\* turned or given another document.
ThumbsServed ==
  /\ \A p \in ThumbPage :
       (thumbRows[p].set \/ thumbRows[p].job # NoThumb) => p \in thumbs.start .. thumbs.end
  /\ (thumbPane.mapped /\ ThumbsShown /\ thumbs.refresh = 0) =>
       \A p \in ThumbsInSight(Sidebar) : thumbRows[p].set \/ thumbRows[p].job # NoThumb

\* A picture is of the document, the rotation and the colours of now.
ThumbsCurrent ==
  \A p \in ThumbPage :
    (thumbRows[p].set /\ thumbPane.doc # 0) =>
      thumbRows[p].pixbuf = [doc |-> thumbPane.doc, rotation |-> thumbPane.rotation,
                             inverted |-> thumbPane.inverted]
===============================================================================
