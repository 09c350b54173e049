----------------------------- MODULE ClientsProofs -----------------------------
(***************************************************************************)
(* Theorems about the clients of the job scheduler, for every value of the *)
(* constants: what the user sees has its picture or a job that makes it,   *)
(* and is that of the document, the rotation and the colours of now; and   *)
(* no data of a page and no bookmark gets lost.                            *)
(***************************************************************************)
EXTENDS MCClients, EvPixbufCacheProofs, SequenceTheorems

-----------------------------------------------------------------------------
(* The thumbnails.  The invariant is about the record of the sidebar.      *)

ThumbPanel ==
  [doc : 0 .. ThumbDocs, rotation : {0, 90}, inverted : BOOLEAN,
   start : -1 .. (ThumbPages - 1), end : -1 .. (ThumbPages - 1), refresh : Nat, handlers : Nat]
ThumbRow ==
  [job : [at : {"none", "waiting", "rendered"}, doc : 0 .. ThumbDocs, rotation : {0, 90}],
   set : BOOLEAN, pixbuf : [doc : 0 .. ThumbDocs, rotation : {0, 90}, inverted : BOOLEAN]]
ThumbWidget ==
  [mapped : BOOLEAN, top : ThumbTops, page : ThumbPage, doc : 0 .. ThumbDocs,
   rotation : {0, 90}, inverted : BOOLEAN, calls : Nat]
ThumbWorld == [t : ThumbPanel, r : [ThumbPage -> ThumbRow], p : ThumbWidget]

\* The range is none, or as many rows as the sidebar shows.
RangeFits(t) == \/ t.start = -1 /\ t.end = -1
                \/ t.start >= 0 /\ t.end = t.start + ThumbRows - 1
\* A row has a picture or a job exactly when it is in the range, and both are of the
\* document, the rotation and the colours that the sidebar has.
RowTells(t, row) ==
  /\ row.set => row.pixbuf = [doc |-> t.doc, rotation |-> t.rotation, inverted |-> t.inverted]
  /\ row.job # NoThumb =>
       row.job.at # "none" /\ row.job.doc = t.doc /\ row.job.rotation = t.rotation
RowFits(t, p, row) == (row.set \/ row.job # NoThumb) <=> p \in t.start .. t.end
RowsGood(w) == RangeFits(w.t) /\ \A p \in ThumbPage : RowTells(w.t, w.r[p]) /\ RowFits(w.t, p, w.r[p])
\* The sidebar has what the document model has, and one handler for each document.
PanelAgrees(w) ==
  /\ w.t.rotation = w.p.rotation /\ w.t.inverted = w.p.inverted
  /\ w.p.doc # 0 => w.t.doc = w.p.doc
  /\ w.t.doc # 0 => w.t.handlers > 0
\* The range is what is seen, unless it is to be refreshed.
RangeSeen(w) == (w.p.mapped /\ w.t.doc # 0 /\ w.t.refresh = 0) => w.t.start = w.p.top
ThumbGood(w) == w \in ThumbWorld /\ RowsGood(w) /\ PanelAgrees(w) /\ RangeSeen(w)

\* A row that is added to the range, or is there, has what it needs.
LEMMA RowAdded ==
  ASSUME NEW t \in ThumbPanel, NEW row \in ThumbRow, RowTells(t, row),
         NEW new, new = IF row.job = NoThumb /\ ~row.set
                          THEN [row EXCEPT !.job = [at |-> "waiting", doc |-> t.doc,
                                                    rotation |-> t.rotation]]
                          ELSE row
  PROVE  new \in ThumbRow /\ RowTells(t, new) /\ (new.set \/ new.job # NoThumb)
<1>1. CASE row.job = NoThumb /\ ~row.set
  <2>1. new.job = [at |-> "waiting", doc |-> t.doc, rotation |-> t.rotation]
        /\ ~new.set /\ new.pixbuf = row.pixbuf /\ new \in ThumbRow
    BY <1>1 DEF ThumbRow, ThumbPanel
  <2>2. new.job # NoThumb
    BY <2>1 DEF NoThumb
  <2> QED
    BY <2>1, <2>2 DEF RowTells
<1>2. CASE ~(row.job = NoThumb /\ ~row.set)
  BY <1>2
<1> QED
  BY <1>1, <1>2

\* An empty row has nothing.
LEMMA RowEmpty ==
  /\ EmptyRow \in ThumbRow /\ ~EmptyRow.set /\ EmptyRow.job = NoThumb
  /\ \A t : RowTells(t, EmptyRow)
BY ThumbAssumption DEF EmptyRow, ThumbRow, RowTells, NoThumb, LoadingIcon

\* Whatever the range was, the new one is filled and the others are emptied.
LEMMA RangeUpdated ==
  ASSUME NEW w \in ThumbWorld, RowsGood(w), NEW top \in ThumbTops,
         NEW v, v = UpdateVisibleRange(w, top, top + ThumbRows - 1)
  PROVE  /\ v \in ThumbWorld /\ RowsGood(v) /\ v.p = w.p
         /\ v.t = [w.t EXCEPT !.start = top, !.end = top + ThumbRows - 1]
<1> DEFINE last == top + ThumbRows - 1
           old == w.t
<1>1. /\ top \in Nat /\ last \in 0 .. (ThumbPages - 1) /\ top <= last /\ last >= 0
      /\ top \in -1 .. (ThumbPages - 1) /\ last \in -1 .. (ThumbPages - 1)
  BY ThumbAssumption DEF ThumbTops
<1>2. old \in ThumbPanel /\ w.r \in [ThumbPage -> ThumbRow] /\ w.p \in ThumbWidget
  BY DEF ThumbWorld
<1>3. old.start \in Int /\ old.end \in Int
  BY <1>2 DEF ThumbPanel
<1>4. CASE top = old.start /\ last = old.end
  <2>1. v = w
    BY <1>4 DEF UpdateVisibleRange
  <2>2. w.t = [w.t EXCEPT !.start = top, !.end = last]
    BY <1>2, <1>4 DEF ThumbPanel
  <2> QED
    BY <2>1, <2>2
<1>5. CASE ~(top = old.start /\ last = old.end)
  <2> DEFINE low == IF old.start >= 0 /\ old.start < top
                      THEN ClearThumbs(w, old.start, IF top - 1 < old.end THEN top - 1 ELSE old.end)
                      ELSE w
             high == IF old.end > 0 /\ old.end > last
                       THEN ClearThumbs(low, IF last + 1 > old.start THEN last + 1 ELSE old.start,
                                        old.end)
                       ELSE low
             added == AddThumbs(high, top, last)
  <2>1. v = [added EXCEPT !.t.start = top, !.t.end = last]
    BY <1>5 DEF UpdateVisibleRange
  <2>2. low \in ThumbWorld /\ low.t = w.t /\ low.p = w.p
        /\ \A p \in ThumbPage :
             low.r[p] = IF /\ old.start >= 0 /\ old.start < top
                           /\ p \in old.start .. (IF top - 1 < old.end THEN top - 1 ELSE old.end)
                          THEN EmptyRow ELSE w.r[p]
    BY RowEmpty, <1>2 DEF ClearThumbs, ThumbWorld
  <2>3. high \in ThumbWorld /\ high.t = w.t /\ high.p = w.p
        /\ \A p \in ThumbPage :
             high.r[p] = IF /\ old.end > 0 /\ old.end > last
                            /\ p \in (IF last + 1 > old.start THEN last + 1 ELSE old.start) .. old.end
                           THEN EmptyRow ELSE low.r[p]
    <3> HIDE DEF low
    <3> QED
      BY RowEmpty, <1>2, <2>2 DEF ClearThumbs, ThumbWorld
  <2> HIDE DEF low, high, added
  <2>4. \A p \in ThumbPage : p \in top .. last => high.r[p] = w.r[p]
    BY <1>1, <1>3, <2>2, <2>3 DEF ThumbPage
  <2>5. \A p \in ThumbPage : p \notin top .. last =>
          /\ high.r[p] = EmptyRow \/ high.r[p] = w.r[p]
          /\ ~high.r[p].set /\ high.r[p].job = NoThumb
    <3> SUFFICES ASSUME NEW p \in ThumbPage, p \notin top .. last
                 PROVE  /\ high.r[p] = EmptyRow \/ high.r[p] = w.r[p]
                        /\ ~high.r[p].set /\ high.r[p].job = NoThumb
      OBVIOUS
    <3>1. high.r[p] = EmptyRow \/ high.r[p] = w.r[p]
      BY <2>2, <2>3
    <3>2. CASE high.r[p] = EmptyRow
      BY <3>2, RowEmpty
    <3>3. CASE high.r[p] # EmptyRow
      <4>1. high.r[p] = w.r[p] /\ p \notin old.start .. old.end
        BY <3>1, <3>3, <1>1, <1>3, <2>2, <2>3 DEF ThumbPage, RowsGood, RangeFits
      <4> QED
        BY <4>1, <1>2 DEF RowsGood, RowFits, ThumbRow
    <3> QED
      BY <3>2, <3>3
  <2>6. added \in ThumbWorld /\ added.t = w.t /\ added.p = w.p
        /\ \A p \in ThumbPage :
             /\ RowTells(w.t, added.r[p])
             /\ (added.r[p].set \/ added.r[p].job # NoThumb) <=> p \in top .. last
    <3> DEFINE new(p) ==
          IF p \in top .. last /\ high.r[p].job = NoThumb /\ ~high.r[p].set
            THEN [high.r[p] EXCEPT !.job = [at |-> "waiting", doc |-> high.t.doc,
                                            rotation |-> high.t.rotation]]
            ELSE high.r[p]
    <3>1. added = [high EXCEPT !.r = [p \in ThumbPage |-> new(p)]]
      BY DEF added, AddThumbs
    <3>2. ASSUME NEW p \in ThumbPage
          PROVE  /\ new(p) \in ThumbRow /\ RowTells(w.t, new(p))
                 /\ (new(p).set \/ new(p).job # NoThumb) <=> p \in top .. last
      <4>1. high.r[p] \in ThumbRow /\ w.r[p] \in ThumbRow
        BY <2>3 DEF ThumbWorld
      <4>2. RowTells(w.t, high.r[p])
        BY <2>4, <2>5, RowEmpty DEF RowsGood
      <4>3. CASE p \in top .. last
        BY <4>1, <4>2, <4>3, <1>2, <2>3, RowAdded
      <4>4. CASE p \notin top .. last
        BY <4>1, <4>2, <4>4, <2>5
      <4> QED
        BY <4>3, <4>4
    <3> HIDE DEF new
    <3>3. added.t = high.t /\ added.p = high.p /\ added.r = [p \in ThumbPage |-> new(p)]
          /\ added = [t |-> high.t, r |-> added.r, p |-> high.p]
      BY <3>1, <2>3 DEF ThumbWorld
    <3> QED
      BY <3>2, <3>3, <2>3 DEF ThumbWorld
  <2> DEFINE t == [w.t EXCEPT !.start = top, !.end = last]
  <2>7. v.t = t /\ v.r = added.r /\ v.p = w.p /\ v = [t |-> t, r |-> added.r, p |-> w.p]
    BY <2>1, <2>6 DEF ThumbWorld
  <2>8. /\ t \in ThumbPanel /\ t.start = top /\ t.end = last /\ t.doc = w.t.doc
        /\ t.rotation = w.t.rotation /\ t.inverted = w.t.inverted
    BY <1>1, <1>2 DEF ThumbPanel
  <2> HIDE DEF t, last
  <2>9. v \in ThumbWorld
    BY <2>6, <2>7, <2>8 DEF ThumbWorld
  <2>10. RangeFits(v.t)
    BY <1>1, <2>7, <2>8 DEF RangeFits, last
  <2>11. \A p \in ThumbPage : RowTells(v.t, v.r[p]) /\ RowFits(v.t, p, v.r[p])
    BY <2>6, <2>7, <2>8 DEF RowTells, RowFits
  <2> QED
    BY <2>7, <2>9, <2>10, <2>11 DEF RowsGood, t, last
<1> QED
  BY <1>4, <1>5

\* What the handlers may leave of a sidebar: its rows and its range.
SamePanel(v, w) ==
  /\ v.t.doc = w.t.doc /\ v.t.rotation = w.t.rotation /\ v.t.inverted = w.t.inverted
  /\ v.t.refresh = w.t.refresh /\ v.t.handlers = w.t.handlers
SameWidget(v, w) ==
  /\ v.p.mapped = w.p.mapped /\ v.p.doc = w.p.doc /\ v.p.rotation = w.p.rotation
  /\ v.p.inverted = w.p.inverted
ThumbHandled(w) == w \in ThumbWorld /\ RowsGood(w) /\ PanelAgrees(w)

\* A sidebar that is seen has the range of what is seen when it has adjusted.
LEMMA Adjusted ==
  ASSUME NEW w, ThumbHandled(w), NEW v, v = AdjustmentChanged(w)
  PROVE  /\ ThumbHandled(v) /\ v.p = w.p /\ SamePanel(v, w)
         /\ v.p.mapped => v.t.start = v.p.top
<1>1. CASE ~w.p.mapped
  BY <1>1 DEF AdjustmentChanged, SamePanel
<1>2. CASE w.p.mapped
  <2> DEFINE top == w.p.top
  <2>1. v = UpdateVisibleRange(w, top, top + ThumbRows - 1)
    BY <1>2 DEF AdjustmentChanged
  <2>2. w \in ThumbWorld /\ RowsGood(w) /\ top \in ThumbTops /\ w.t \in ThumbPanel
    BY DEF ThumbHandled, ThumbWorld, ThumbWidget
  <2> HIDE DEF top
  <2>3. /\ v \in ThumbWorld /\ RowsGood(v) /\ v.p = w.p
        /\ v.t = [w.t EXCEPT !.start = top, !.end = top + ThumbRows - 1]
    BY <2>1, <2>2, RangeUpdated
  <2>4. SamePanel(v, w) /\ v.t.start = top
    BY <2>2, <2>3 DEF SamePanel, ThumbPanel
  <2>5. PanelAgrees(v)
    BY <2>3, <2>4 DEF PanelAgrees, SamePanel, ThumbHandled
  <2> QED
    BY <2>3, <2>4, <2>5 DEF ThumbHandled, top
<1> QED
  BY <1>1, <1>2

\* Scrolling to a page leaves all as it is, or adjusts the range.
LEMMA Scrolled ==
  ASSUME NEW w, ThumbHandled(w), NEW page \in ThumbPage, NEW v, v = ScrollTo(w, page)
  PROVE  /\ ThumbHandled(v) /\ SameWidget(v, w) /\ SamePanel(v, w)
         /\ v = w \/ (v.p.mapped => v.t.start = v.p.top)
<1> DEFINE top == IF page < w.p.top THEN page
                  ELSE IF page \in ThumbsInSight(w) THEN w.p.top ELSE page - ThumbRows + 1
           there == [w EXCEPT !.p.top = top]
<1>1. w \in ThumbWorld /\ w.p \in ThumbWidget /\ w.t \in ThumbPanel /\ w.p.top \in ThumbTops
  BY DEF ThumbHandled, ThumbWorld, ThumbWidget
<1>2. top \in ThumbTops
  BY <1>1, ThumbAssumption DEF ThumbTops, ThumbPage, ThumbsInSight
<1>3. v = IF top = w.p.top THEN w ELSE AdjustmentChanged(there)
  BY DEF ScrollTo
<1>4. CASE top = w.p.top
  BY <1>3, <1>4 DEF SameWidget, SamePanel
<1>5. CASE top # w.p.top
  <2> HIDE DEF top
  <2>1. there \in ThumbWorld /\ there.t = w.t /\ there.r = w.r /\ SameWidget(there, w)
    BY <1>1, <1>2 DEF ThumbWorld, ThumbWidget, SameWidget
  <2>2. v = AdjustmentChanged(there)
    BY <1>3, <1>5
  <2> HIDE DEF there
  <2>3. RowsGood(there) /\ PanelAgrees(there)
    BY <2>1 DEF ThumbHandled, RowsGood, PanelAgrees, SameWidget
  <2>4. ThumbHandled(v) /\ v.p = there.p /\ SamePanel(v, there) /\ (v.p.mapped => v.t.start = v.p.top)
    BY <2>1, <2>2, <2>3, Adjusted DEF ThumbHandled
  <2> QED
    BY <2>1, <2>4 DEF SameWidget, SamePanel
<1> QED
  BY <1>4, <1>5

\* A list that was cleared and filled again has no range and no pictures.
LEMMA RefilledThumbs ==
  ASSUME NEW w \in ThumbWorld, PanelAgrees(w), NEW v, v = ThumbsRefilled(w)
  PROVE  ThumbHandled(v) /\ v.p = w.p /\ SamePanel(v, w)
<1> DEFINE t == [w.t EXCEPT !.start = -1, !.end = -1]
           rows == [p \in ThumbPage |-> EmptyRow]
<1>1. w.t \in ThumbPanel /\ w.p \in ThumbWidget
  BY DEF ThumbWorld
<1>2. v = [t |-> t, r |-> rows, p |-> w.p]
  BY DEF ThumbsRefilled, ThumbWorld
<1>3. /\ t \in ThumbPanel /\ t.start = -1 /\ t.end = -1
      /\ t.doc = w.t.doc /\ t.rotation = w.t.rotation /\ t.inverted = w.t.inverted
      /\ t.refresh = w.t.refresh /\ t.handlers = w.t.handlers
  <2>1. -1 \in -1 .. (ThumbPages - 1)
    BY ThumbAssumption
  <2> QED
    BY <1>1, <2>1 DEF ThumbPanel
<1>4. rows \in [ThumbPage -> ThumbRow] /\ \A p \in ThumbPage : rows[p] = EmptyRow
  BY RowEmpty
<1> HIDE DEF t, rows
<1>5. v \in ThumbWorld /\ v.t = t /\ v.r = rows /\ v.p = w.p
  BY <1>1, <1>2, <1>3, <1>4 DEF ThumbWorld
<1>6. RowsGood(v)
  BY <1>3, <1>4, <1>5, RowEmpty DEF RowsGood, RangeFits, RowFits, ThumbPage
<1>7. PanelAgrees(v) /\ SamePanel(v, w)
  BY <1>3, <1>5 DEF PanelAgrees, SamePanel
<1> QED
  BY <1>5, <1>6, <1>7 DEF ThumbHandled

\* A reload leaves refreshes to be done, one for each handler.
LEMMA ReloadedThumbs ==
  ASSUME NEW w \in ThumbWorld, PanelAgrees(w), w.t.doc # 0, NEW v, v = ReloadThumbs(w)
  PROVE  ThumbGood(v)
<1> DEFINE clear == ThumbsRefilled(w)
           there == ScrollTo(clear, w.p.page)
<1>1. v = [there EXCEPT !.t.refresh = @ + w.t.handlers]
  BY DEF ReloadThumbs
<1>2. w.p.page \in ThumbPage /\ w.t.handlers \in Nat
  BY DEF ThumbWorld, ThumbWidget, ThumbPanel
<1>3. ThumbHandled(clear) /\ clear.p = w.p /\ SamePanel(clear, w)
  BY RefilledThumbs
<1> HIDE DEF clear
<1>4. ThumbHandled(there) /\ SamePanel(there, clear)
  BY <1>2, <1>3, Scrolled
<1> HIDE DEF there
<1> DEFINE t == [there.t EXCEPT !.refresh = @ + w.t.handlers]
<1>5. there \in ThumbWorld /\ there.t \in ThumbPanel /\ there.p \in ThumbWidget
      /\ there.r \in [ThumbPage -> ThumbRow]
  BY <1>4 DEF ThumbHandled, ThumbWorld
<1>6. /\ t \in ThumbPanel /\ t.start = there.t.start /\ t.end = there.t.end /\ t.doc = there.t.doc
      /\ t.rotation = there.t.rotation /\ t.inverted = there.t.inverted
      /\ t.refresh = there.t.refresh + w.t.handlers /\ t.handlers = there.t.handlers
      /\ there.t.refresh \in Nat
  BY <1>2, <1>5 DEF ThumbPanel
<1>7. v = [t |-> t, r |-> there.r, p |-> there.p]
  BY <1>1, <1>5 DEF ThumbWorld
<1> HIDE DEF t
<1>8. v \in ThumbWorld /\ v.t = t /\ v.r = there.r /\ v.p = there.p
  BY <1>5, <1>6, <1>7 DEF ThumbWorld
<1>9. RowsGood(v)
  BY <1>4, <1>6, <1>8 DEF ThumbHandled, RowsGood, RangeFits, RowFits, RowTells
<1>10. PanelAgrees(v)
  BY <1>4, <1>6, <1>8 DEF ThumbHandled, PanelAgrees
<1>11. v.t.refresh # 0
  BY <1>2, <1>3, <1>4, <1>6, <1>8 DEF PanelAgrees, SamePanel
<1> QED
  BY <1>8, <1>9, <1>10, <1>11 DEF ThumbGood, RangeSeen

\* The invariant is about the variables.
LEMMA ThumbGoodIs ==
  ASSUME NEW w, ThumbGood(w), SidebarIs(w)
  PROVE  ThumbGood(Sidebar)'
<1>1. w = [t |-> w.t, r |-> w.r, p |-> w.p]
  BY DEF ThumbGood, ThumbWorld
<1>2. Sidebar' = w
  BY <1>1 DEF Sidebar, SidebarIs
<1> QED
  BY <1>2 DEF ThumbGood, RowsGood, RangeFits, RowTells, RowFits, PanelAgrees, RangeSeen

\* A job that moves on, or is done, leaves its row with it or with its picture.
LEMMA RowMoved ==
  ASSUME NEW w, ThumbGood(w), NEW p \in ThumbPage, NEW row \in ThumbRow, RowTells(w.t, row),
         row.set \/ row.job # NoThumb, w.r[p].job # NoThumb
  PROVE  ThumbGood([w EXCEPT !.r[p] = row])
<1> DEFINE v == [w EXCEPT !.r[p] = row]
<1>1. w.r \in [ThumbPage -> ThumbRow] /\ w \in ThumbWorld
  BY DEF ThumbGood, ThumbWorld
<1>2. /\ v \in ThumbWorld /\ v.t = w.t /\ v.p = w.p
      /\ \A q \in ThumbPage : v.r[q] = IF q = p THEN row ELSE w.r[q]
  BY <1>1 DEF ThumbWorld
<1> HIDE DEF v
<1>3. RowsGood(v)
  BY <1>2 DEF ThumbGood, RowsGood, RowFits
<1>4. PanelAgrees(v) /\ RangeSeen(v)
  BY <1>2 DEF ThumbGood, PanelAgrees, RangeSeen
<1> QED
  BY <1>2, <1>3, <1>4 DEF ThumbGood, v

\* A call of the user.
LEMMA ThumbsCalled ==
  ASSUME ThumbGood(Sidebar)
  PROVE  ThumbGood(ThumbsUsed) /\ ThumbsUsed.t = thumbs /\ SameWidget(ThumbsUsed, Sidebar)
         /\ ThumbsUsed.p.top = thumbPane.top /\ ThumbsUsed.p \in ThumbWidget
<1>1. thumbPane \in ThumbWidget /\ Sidebar \in ThumbWorld /\ thumbPane.calls \in Nat
  BY DEF ThumbGood, ThumbWorld, Sidebar, ThumbWidget
<1> DEFINE p == [thumbPane EXCEPT !.calls = @ + 1]
<1>2. /\ p \in ThumbWidget /\ p.mapped = thumbPane.mapped /\ p.top = thumbPane.top
      /\ p.doc = thumbPane.doc /\ p.rotation = thumbPane.rotation
      /\ p.inverted = thumbPane.inverted
  BY <1>1 DEF ThumbWidget
<1>3. ThumbsUsed = [t |-> thumbs, r |-> thumbRows, p |-> p]
  BY DEF ThumbsUsed, Sidebar
<1> HIDE DEF p
<1>4. ThumbsUsed \in ThumbWorld
  BY <1>1, <1>2, <1>3 DEF ThumbWorld, Sidebar
<1>5. RowsGood(ThumbsUsed) /\ PanelAgrees(ThumbsUsed) /\ RangeSeen(ThumbsUsed)
  BY <1>2, <1>3 DEF ThumbGood, RowsGood, PanelAgrees, RangeSeen, Sidebar
<1> QED
  BY <1>2, <1>3, <1>4, <1>5 DEF ThumbGood, SameWidget, Sidebar

\* The invariant holds at first.
LEMMA ThumbsBegin == ThumbInit => ThumbGood(Sidebar)
<1> SUFFICES ASSUME ThumbInit PROVE ThumbGood(Sidebar)
  OBVIOUS
<1>1. -1 \in -1 .. (ThumbPages - 1) /\ 0 \in ThumbTops /\ 0 \in ThumbPage /\ 0 \in 0 .. ThumbDocs
  BY ThumbAssumption DEF ThumbTops, ThumbPage
<1>2. thumbs \in ThumbPanel /\ thumbPane \in ThumbWidget
  BY <1>1 DEF ThumbInit, ThumbPanel, ThumbWidget
<1>3. thumbRows \in [ThumbPage -> ThumbRow]
  BY RowEmpty DEF ThumbInit
<1>4. Sidebar \in ThumbWorld
  BY <1>2, <1>3 DEF Sidebar, ThumbWorld
<1>5. thumbs.start = -1 /\ thumbs.end = -1 /\ \A p \in ThumbPage : thumbRows[p] = EmptyRow
  BY DEF ThumbInit
<1>6. RowsGood(Sidebar)
  BY <1>5, RowEmpty DEF RowsGood, RangeFits, RowFits, ThumbPage, Sidebar
<1>7. PanelAgrees(Sidebar) /\ RangeSeen(Sidebar)
  BY DEF ThumbInit, PanelAgrees, RangeSeen, Sidebar
<1> QED
  BY <1>4, <1>6, <1>7 DEF ThumbGood

\* What the user and the window do to the widget.
LEMMA ThumbsByUser ==
  ASSUME ThumbGood(Sidebar),
         \/ MapSidebar \/ UnmapSidebar \/ RotateThumbs \/ InvertThumbs
         \/ \E top \in ThumbTops : ScrollSidebar(top)
         \/ \E p \in ThumbPage : ThumbsPage(p)
  PROVE  ThumbGood(Sidebar)'
<1> DEFINE u == ThumbsUsed
<1>1. /\ ThumbGood(u) /\ u.t = thumbs /\ SameWidget(u, Sidebar) /\ u.p.top = thumbPane.top
      /\ u.p \in ThumbWidget /\ u \in ThumbWorld /\ u.t \in ThumbPanel
  BY ThumbsCalled DEF ThumbGood, ThumbWorld
<1> HIDE DEF u
<1>2. ASSUME NEW w \in ThumbWorld, w.t = u.t, w.r = u.r, w.p.doc = u.p.doc,
             w.p.rotation = u.p.rotation, w.p.inverted = u.p.inverted
      PROVE  ThumbHandled(w)
  BY <1>1, <1>2 DEF ThumbHandled, ThumbGood, RowsGood, PanelAgrees
<1>3. CASE MapSidebar
  <2> DEFINE w == [u EXCEPT !.p.mapped = TRUE]
             v == AdjustmentChanged(w)
  <2>1. w \in ThumbWorld /\ w.t = u.t /\ w.r = u.r /\ w.p.doc = u.p.doc
        /\ w.p.rotation = u.p.rotation /\ w.p.inverted = u.p.inverted
    BY <1>1 DEF ThumbWorld, ThumbWidget
  <2>2. SidebarIs(v)
    BY <1>3 DEF MapSidebar, u
  <2> HIDE DEF w
  <2>3. ThumbHandled(v) /\ (v.p.mapped => v.t.start = v.p.top)
    BY <1>2, <2>1, Adjusted
  <2> HIDE DEF v
  <2>4. ThumbGood(v)
    BY <2>3 DEF ThumbGood, ThumbHandled, RangeSeen
  <2> QED
    BY <2>2, <2>4, ThumbGoodIs
<1>4. CASE UnmapSidebar
  <2> DEFINE w == [u EXCEPT !.p.mapped = FALSE]
  <2>1. w \in ThumbWorld /\ w.t = u.t /\ w.r = u.r /\ w.p.doc = u.p.doc
        /\ w.p.rotation = u.p.rotation /\ w.p.inverted = u.p.inverted /\ ~w.p.mapped
    BY <1>1 DEF ThumbWorld, ThumbWidget
  <2>2. SidebarIs(w)
    BY <1>4 DEF UnmapSidebar, u
  <2> HIDE DEF w
  <2>3. ThumbGood(w)
    BY <1>2, <2>1 DEF ThumbGood, ThumbHandled, RangeSeen
  <2> QED
    BY <2>2, <2>3, ThumbGoodIs
<1>5. ASSUME NEW top \in ThumbTops, ScrollSidebar(top)
      PROVE  ThumbGood(Sidebar)'
  <2> DEFINE w == [u EXCEPT !.p.top = top]
             v == AdjustmentChanged(w)
  <2>1. w \in ThumbWorld /\ w.t = u.t /\ w.r = u.r /\ w.p.doc = u.p.doc
        /\ w.p.rotation = u.p.rotation /\ w.p.inverted = u.p.inverted
    BY <1>1 DEF ThumbWorld, ThumbWidget
  <2>2. SidebarIs(v)
    BY <1>5 DEF ScrollSidebar, u
  <2> HIDE DEF w
  <2>3. ThumbHandled(v) /\ (v.p.mapped => v.t.start = v.p.top)
    BY <1>2, <2>1, Adjusted
  <2> HIDE DEF v
  <2>4. ThumbGood(v)
    BY <2>3 DEF ThumbGood, ThumbHandled, RangeSeen
  <2> QED
    BY <2>2, <2>4, ThumbGoodIs
<1>6. ASSUME NEW p \in ThumbPage, ThumbsPage(p)
      PROVE  ThumbGood(Sidebar)'
  <2> DEFINE w == [u EXCEPT !.p.page = p]
             v == ScrollTo(w, p)
  <2>1. w \in ThumbWorld /\ w.t = u.t /\ w.r = u.r /\ w.p.doc = u.p.doc
        /\ w.p.rotation = u.p.rotation /\ w.p.inverted = u.p.inverted
        /\ w.p.mapped = u.p.mapped /\ w.p.top = u.p.top
    BY <1>1 DEF ThumbWorld, ThumbWidget
  <2>2. SidebarIs(v)
    BY <1>6 DEF ThumbsPage, u
  <2> HIDE DEF w
  <2>3. ThumbHandled(w) /\ RangeSeen(w)
    BY <1>1, <1>2, <2>1 DEF ThumbGood, RangeSeen
  <2>4. ThumbHandled(v) /\ (v = w \/ (v.p.mapped => v.t.start = v.p.top))
    BY <2>3, Scrolled
  <2> HIDE DEF v
  <2>5. ThumbGood(v)
    BY <2>3, <2>4 DEF ThumbGood, ThumbHandled, RangeSeen
  <2> QED
    BY <2>2, <2>5, ThumbGoodIs
<1>7. CASE RotateThumbs
  <2> DEFINE w == [u EXCEPT !.p.rotation = 90 - @, !.t.rotation = 90 - @]
             v == ReloadThumbs(w)
  <2>1. u.t.rotation \in {0, 90} /\ u.p.rotation \in {0, 90} /\ u.t.doc # 0
    BY <1>1, <1>7 DEF ThumbPanel, ThumbWidget, RotateThumbs, ThumbsShown
  <2> DEFINE t == [u.t EXCEPT !.rotation = 90 - @]
             pane == [u.p EXCEPT !.rotation = 90 - @]
  <2>2. /\ t \in ThumbPanel /\ t.doc = u.t.doc /\ t.handlers = u.t.handlers
        /\ t.rotation = 90 - u.t.rotation /\ t.inverted = u.t.inverted
    BY <1>1, <2>1 DEF ThumbPanel
  <2>3. /\ pane \in ThumbWidget /\ pane.doc = u.p.doc
        /\ pane.rotation = 90 - u.p.rotation /\ pane.inverted = u.p.inverted
    BY <1>1, <2>1 DEF ThumbWidget
  <2>4. w = [t |-> t, r |-> u.r, p |-> pane]
    <3> DEFINE a == 90 - u.p.rotation
               b == 90 - u.t.rotation
    <3>1. t = [u.t EXCEPT !.rotation = b] /\ pane = [u.p EXCEPT !.rotation = a]
      OBVIOUS
    <3>2. w = [u EXCEPT !.p.rotation = a, !.t.rotation = b]
      OBVIOUS
    <3> HIDE DEF a, b, t, pane, w
    <3> QED
      BY <1>1, <3>1, <3>2 DEF ThumbWorld
  <2>5. SidebarIs(v)
    BY <1>7 DEF RotateThumbs, u
  <2> HIDE DEF t, pane, w
  <2>6. w \in ThumbWorld /\ PanelAgrees(w) /\ w.t.doc # 0
    BY <1>1, <2>1, <2>2, <2>3, <2>4 DEF ThumbWorld, ThumbGood, PanelAgrees
  <2> QED
    BY <2>5, <2>6, ReloadedThumbs, ThumbGoodIs
<1>8. CASE InvertThumbs
  <2> DEFINE w == [u EXCEPT !.p.inverted = ~@, !.t.inverted = ~@]
             v == ReloadThumbs(w)
  <2>1. u.t.inverted \in BOOLEAN /\ u.p.inverted \in BOOLEAN /\ u.t.doc # 0
    BY <1>1, <1>8 DEF ThumbPanel, ThumbWidget, InvertThumbs, ThumbsShown
  <2> DEFINE t == [u.t EXCEPT !.inverted = ~@]
             pane == [u.p EXCEPT !.inverted = ~@]
  <2>2. /\ t \in ThumbPanel /\ t.doc = u.t.doc /\ t.handlers = u.t.handlers
        /\ t.rotation = u.t.rotation /\ t.inverted = ~u.t.inverted
    BY <1>1, <2>1 DEF ThumbPanel
  <2>3. /\ pane \in ThumbWidget /\ pane.doc = u.p.doc
        /\ pane.rotation = u.p.rotation /\ pane.inverted = ~u.p.inverted
    BY <1>1, <2>1 DEF ThumbWidget
  <2>4. w = [t |-> t, r |-> u.r, p |-> pane]
    <3> DEFINE a == ~u.p.inverted
               b == ~u.t.inverted
    <3>1. t = [u.t EXCEPT !.inverted = b] /\ pane = [u.p EXCEPT !.inverted = a]
      OBVIOUS
    <3>2. w = [u EXCEPT !.p.inverted = a, !.t.inverted = b]
      OBVIOUS
    <3> HIDE DEF a, b, t, pane, w
    <3> QED
      BY <1>1, <3>1, <3>2 DEF ThumbWorld
  <2>5. SidebarIs(v)
    BY <1>8 DEF InvertThumbs, u
  <2> HIDE DEF t, pane, w
  <2>6. w \in ThumbWorld /\ PanelAgrees(w) /\ w.t.doc # 0
    BY <1>1, <2>1, <2>2, <2>3, <2>4 DEF ThumbWorld, ThumbGood, PanelAgrees
  <2> QED
    BY <2>5, <2>6, ReloadedThumbs, ThumbGoodIs
<1> QED
  BY <1>3, <1>4, <1>5, <1>6, <1>7, <1>8

\* Another document.
LEMMA ThumbDocuments ==
  ASSUME ThumbGood(Sidebar), NEW doc \in 0 .. ThumbDocs, ThumbsDocument(doc)
  PROVE  ThumbGood(Sidebar)'
<1> DEFINE u == ThumbsUsed
           w == [u EXCEPT !.p.doc = doc, !.p.page = 0]
           panel == [thumbs EXCEPT !.doc = doc, !.rotation = w.p.rotation,
                                   !.inverted = w.p.inverted, !.handlers = @ + 1]
           taken == [w EXCEPT !.t = panel]
           clear == ThumbsRefilled(taken)
           there == ScrollTo(clear, 0)
           v == AdjustmentChanged(there)
<1>1. /\ ThumbGood(u) /\ u.t = thumbs /\ SameWidget(u, Sidebar) /\ u.p.top = thumbPane.top
      /\ u.p \in ThumbWidget /\ u \in ThumbWorld /\ u.t \in ThumbPanel
  BY ThumbsCalled DEF ThumbGood, ThumbWorld
<1>2. SidebarIs(IF doc = 0 THEN w ELSE v)
  BY DEF ThumbsDocument
<1> HIDE DEF u
<1>3. 0 \in ThumbPage
  BY ThumbAssumption DEF ThumbPage
<1>4. /\ w \in ThumbWorld /\ w.t = u.t /\ w.r = u.r /\ w.p.doc = doc /\ w.p.rotation = u.p.rotation
      /\ w.p.inverted = u.p.inverted /\ w.p.mapped = u.p.mapped /\ w.p.top = u.p.top
  BY <1>1, <1>3 DEF ThumbWorld, ThumbWidget
<1> HIDE DEF w
<1>5. CASE doc = 0
  <2>1. RowsGood(w) /\ PanelAgrees(w) /\ RangeSeen(w)
    BY <1>1, <1>4, <1>5 DEF ThumbGood, RowsGood, PanelAgrees, RangeSeen
  <2> QED
    BY <1>2, <1>4, <1>5, <2>1, ThumbGoodIs DEF ThumbGood
<1>6. CASE doc # 0
  <2>1. w.p.rotation \in {0, 90} /\ w.p.inverted \in BOOLEAN /\ u.t.handlers \in Nat
    BY <1>1, <1>4 DEF ThumbWidget, ThumbPanel
  <2>2. /\ panel \in ThumbPanel /\ panel.doc = doc /\ panel.rotation = w.p.rotation
        /\ panel.inverted = w.p.inverted /\ panel.handlers = u.t.handlers + 1
    <3> DEFINE rotation == w.p.rotation
               inverted == w.p.inverted
               n == u.t.handlers + 1
    <3>1. panel = [u.t EXCEPT !.doc = doc, !.rotation = rotation, !.inverted = inverted,
                              !.handlers = n]
      BY <1>1
    <3>2. rotation \in {0, 90} /\ inverted \in BOOLEAN /\ n \in Nat
      BY <2>1
    <3> HIDE DEF rotation, inverted, n, panel
    <3>3. /\ panel \in ThumbPanel /\ panel.doc = doc /\ panel.rotation = rotation
          /\ panel.inverted = inverted /\ panel.handlers = n
      BY <1>1, <3>1, <3>2 DEF ThumbPanel
    <3> QED
      BY <3>3 DEF rotation, inverted, n
  <2> HIDE DEF panel
  <2>3. taken \in ThumbWorld /\ taken.t = panel /\ taken.p = w.p
    BY <1>4, <2>2 DEF ThumbWorld
  <2> HIDE DEF taken
  <2>4. PanelAgrees(taken)
    BY <1>4, <2>1, <2>2, <2>3 DEF PanelAgrees
  <2>5. ThumbHandled(clear)
    BY <2>3, <2>4, RefilledThumbs
  <2> HIDE DEF clear
  <2>6. ThumbHandled(there)
    BY <1>3, <2>5, Scrolled
  <2> HIDE DEF there
  <2>7. ThumbHandled(v) /\ (v.p.mapped => v.t.start = v.p.top)
    BY <2>6, Adjusted
  <2> HIDE DEF v
  <2>8. ThumbGood(v)
    BY <2>7 DEF ThumbGood, ThumbHandled, RangeSeen
  <2> QED
    BY <1>2, <1>6, <2>8, ThumbGoodIs
<1> QED
  BY <1>5, <1>6

\* A refresh, a job that runs and a job that is done.
LEMMA ThumbWorks ==
  ASSUME ThumbGood(Sidebar),
         RefreshThumbs \/ \E p \in ThumbPage : RenderThumb(p) \/ ThumbCompleted(p)
  PROVE  ThumbGood(Sidebar)'
<1>1. /\ Sidebar \in ThumbWorld /\ thumbs \in ThumbPanel /\ thumbRows \in [ThumbPage -> ThumbRow]
      /\ thumbPane \in ThumbWidget
  BY DEF ThumbGood, ThumbWorld, Sidebar
<1>2. CASE RefreshThumbs
  <2> DEFINE t == [thumbs EXCEPT !.refresh = @ - 1]
             w == [Sidebar EXCEPT !.t.refresh = @ - 1]
             v == AdjustmentChanged(w)
  <2>1. thumbs.refresh \in Nat \ {0}
    BY <1>1, <1>2 DEF RefreshThumbs, ThumbPanel
  <2>2. /\ t \in ThumbPanel /\ t.start = thumbs.start /\ t.end = thumbs.end /\ t.doc = thumbs.doc
        /\ t.rotation = thumbs.rotation /\ t.inverted = thumbs.inverted
        /\ t.handlers = thumbs.handlers
    BY <1>1, <2>1 DEF ThumbPanel
  <2>3. SidebarIs(v)
    BY <1>2 DEF RefreshThumbs
  <2>4. w = [t |-> t, r |-> thumbRows, p |-> thumbPane]
    BY DEF Sidebar
  <2> HIDE DEF t, w
  <2>5. w \in ThumbWorld
    BY <1>1, <2>2, <2>4 DEF ThumbWorld
  <2>6. RowsGood(w) /\ PanelAgrees(w)
    BY <2>2, <2>4 DEF ThumbGood, Sidebar, RowsGood, RangeFits, RowFits, RowTells, PanelAgrees
  <2>7. ThumbHandled(v) /\ (v.p.mapped => v.t.start = v.p.top)
    BY <2>5, <2>6, Adjusted DEF ThumbHandled
  <2> HIDE DEF v
  <2>8. ThumbGood(v)
    BY <2>7 DEF ThumbGood, ThumbHandled, RangeSeen
  <2> QED
    BY <2>3, <2>8, ThumbGoodIs
<1>3. ASSUME NEW p \in ThumbPage, RenderThumb(p)
      PROVE  ThumbGood(Sidebar)'
  <2> DEFINE row == [thumbRows[p] EXCEPT !.job.at = "rendered"]
             job == [thumbRows[p].job EXCEPT !.at = "rendered"]
  <2>1. thumbRows[p] \in ThumbRow /\ thumbRows[p].job.at = "waiting"
    BY <1>1, <1>3 DEF RenderThumb
  <2>2. /\ row \in ThumbRow /\ row.set = thumbRows[p].set /\ row.pixbuf = thumbRows[p].pixbuf
        /\ row.job = job /\ job.at = "rendered" /\ job.doc = thumbRows[p].job.doc
        /\ job.rotation = thumbRows[p].job.rotation
    BY <2>1 DEF ThumbRow
  <2>3. thumbRows[p].job # NoThumb /\ job # NoThumb
    BY <2>1, <2>2 DEF NoThumb
  <2>4. SidebarIs([Sidebar EXCEPT !.r[p] = row])
    BY <1>1, <1>3 DEF RenderThumb, Sidebar, SidebarIs
  <2> HIDE DEF row, job
  <2>5. RowTells(thumbs, thumbRows[p])
    BY DEF ThumbGood, RowsGood, Sidebar
  <2>6. RowTells(thumbs, row)
    BY <2>2, <2>3, <2>5 DEF RowTells
  <2>7. Sidebar.t = thumbs /\ Sidebar.r = thumbRows
    BY DEF Sidebar
  <2> QED
    BY <2>2, <2>3, <2>4, <2>6, <2>7, RowMoved, ThumbGoodIs
<1>4. ASSUME NEW p \in ThumbPage, ThumbCompleted(p)
      PROVE  ThumbGood(Sidebar)'
  <2> DEFINE row == [job |-> NoThumb, set |-> TRUE,
                     pixbuf |-> [doc |-> thumbRows[p].job.doc, rotation |-> thumbRows[p].job.rotation,
                                 inverted |-> thumbs.inverted]]
  <2>1. thumbRows[p] \in ThumbRow /\ thumbRows[p].job.at = "rendered" /\ thumbs.inverted \in BOOLEAN
    BY <1>1, <1>4 DEF ThumbCompleted, ThumbPanel
  <2>2. thumbRows[p].job # NoThumb
    BY <2>1 DEF NoThumb
  <2>3. row \in ThumbRow /\ row.set /\ row.job = NoThumb
    BY <2>1, RowEmpty DEF ThumbRow, EmptyRow
  <2>4. RowTells(thumbs, thumbRows[p])
    BY DEF ThumbGood, RowsGood, Sidebar
  <2>5. RowTells(thumbs, row)
    BY <2>2, <2>4 DEF RowTells
  <2>6. SidebarIs([Sidebar EXCEPT !.r[p] = row])
    BY <1>4 DEF ThumbCompleted
  <2>7. Sidebar.t = thumbs /\ Sidebar.r = thumbRows
    BY DEF Sidebar
  <2> HIDE DEF row
  <2> QED
    BY <2>2, <2>3, <2>5, <2>6, <2>7, RowMoved, ThumbGoodIs
<1> QED
  BY <1>2, <1>3, <1>4

LEMMA ThumbStep == ThumbGood(Sidebar) /\ [ThumbNext]_thumbVars => ThumbGood(Sidebar)'
<1> SUFFICES ASSUME ThumbGood(Sidebar), [ThumbNext]_thumbVars PROVE ThumbGood(Sidebar)'
  OBVIOUS
<1>1. CASE UNCHANGED thumbVars
  <2>1. Sidebar' = Sidebar
    BY <1>1 DEF thumbVars, Sidebar
  <2> QED
    BY <2>1 DEF ThumbGood, RowsGood, RangeFits, RowTells, RowFits, PanelAgrees, RangeSeen
<1> QED
  BY <1>1, ThumbsByUser, ThumbDocuments, ThumbWorks DEF ThumbNext

\* What the invariant says of what is seen.
LEMMA ThumbsShow ==
  ASSUME ThumbGood(Sidebar)
  PROVE  ThumbsServed /\ ThumbsCurrent
<1>1. /\ RangeFits(thumbs) /\ \A p \in ThumbPage : RowTells(thumbs, thumbRows[p])
                                                   /\ RowFits(thumbs, p, thumbRows[p])
      /\ thumbs.rotation = thumbPane.rotation /\ thumbs.inverted = thumbPane.inverted
      /\ thumbPane.doc # 0 => thumbs.doc = thumbPane.doc
      /\ (thumbPane.mapped /\ thumbs.doc # 0 /\ thumbs.refresh = 0) => thumbs.start = thumbPane.top
      /\ thumbPane.top \in ThumbTops /\ Sidebar.p = thumbPane
  BY DEF ThumbGood, RowsGood, PanelAgrees, RangeSeen, Sidebar, ThumbWorld, ThumbWidget
<1>2. ThumbsCurrent
  BY <1>1 DEF ThumbsCurrent, RowTells
<1>3. ASSUME thumbPane.mapped, ThumbsShown, thumbs.refresh = 0, NEW p \in ThumbsInSight(Sidebar)
      PROVE  thumbRows[p].set \/ thumbRows[p].job # NoThumb
  <2>1. thumbs.start = thumbPane.top /\ thumbs.end = thumbPane.top + ThumbRows - 1
    BY <1>1, <1>3, ThumbAssumption DEF RangeFits, ThumbsShown, ThumbTops
  <2>2. p \in thumbs.start .. thumbs.end /\ p \in ThumbPage
    BY <1>1, <1>3, <2>1, ThumbAssumption DEF ThumbsInSight, ThumbTops, ThumbPage
  <2> QED
    BY <1>1, <2>2 DEF RowFits
<1>4. ThumbsServed
  BY <1>1, <1>3 DEF ThumbsServed, RowFits
<1> QED
  BY <1>2, <1>4

\* For a sidebar of any height and documents of any number of pages: every row that the
\* user sees has its picture or a job that makes it, no other row costs a job, and a
\* picture is of the document, the rotation and the colours of now.
THEOREM ThumbsAlwaysServed == ThumbSpec => [](ThumbsServed /\ ThumbsCurrent)
<1>1. ThumbGood(Sidebar) => ThumbsServed /\ ThumbsCurrent
  BY ThumbsShow
<1> QED
  BY <1>1, ThumbsBegin, ThumbStep, PTL DEF ThumbSpec

-----------------------------------------------------------------------------
(* The presentation.  The invariant is about the record of the view, its   *)
(* three jobs and the window.                                              *)

SlidePlace == {"prev", "curr", "next"}
SlideOrNone == SlidePage \union {NoSlidePage}
SlideJob ==
  [page : SlideOrNone, rotation : {0, 90}, prio : 0 .. 2,
   at : {"none", "waiting", "rendered", "finished"}, inverted : BOOLEAN]
SlideView ==
  [up : {"absent", "realized", "ready"}, page : SlidePage,
   state : {"normal", "black", "white", "end"}, rotation : {0, 90}, inverted : BOOLEAN,
   animation : [on : BOOLEAN, origin : SlideOrNone, dest : SlideOrNone], current : SlideOrNone,
   timer : BOOLEAN, hide : BOOLEAN, goto : {"hidden", "shown"}]
SlideDeck ==
  [page : SlidePage, rotation : {0, 90}, inverted : BOOLEAN, inhibited : BOOLEAN, calls : Nat]
SlideWorld == [v : SlideView, s : [SlidePlace -> SlideJob], m : SlideDeck]

\* The job of a place is that of its page, if there is such a page: in the rotation of
\* the view, urgent in the middle only, and in the colours of the view when it is done.
JobFor(job, page, v, x) ==
  /\ job \in SlideJob
  /\ page \notin SlidePage => job = NoSlide
  /\ page \in SlidePage =>
       /\ job.page = page /\ job.rotation = v.rotation /\ job.at # "none"
       /\ job.at = "waiting" => (job.prio = SlideUrgent <=> x = "curr")
       /\ job.at = "finished" => job.inverted = v.inverted
JobsAround(s, page, v) ==
  /\ JobFor(s["prev"], page - 1, v, "prev")
  /\ JobFor(s["curr"], page, v, "curr")
  /\ JobFor(s["next"], page + 1, v, "next")

\* A view that is not ready has nothing that could call it.
AtRestSlides(w) ==
  w.s = NoSlides /\ ~w.v.timer /\ ~w.v.hide /\ w.v.animation = NoAnimation
SlidesGood(w) ==
  /\ w \in SlideWorld
  /\ w.v.up = "ready" => JobsAround(w.s, w.v.page, w.v)
  /\ w.v.up # "ready" => AtRestSlides(w)
  /\ w.v.up = "absent" => ~w.m.inhibited

\* A new job, or none outside the document
LEMMA ScheduledSlide ==
  ASSUME NEW w \in SlideWorld, NEW page \in Int, NEW prio \in 0 .. 2, NEW x \in SlidePlace,
         prio = SlideUrgent <=> x = "curr"
  PROVE  JobFor(ScheduleSlide(w, page, prio), page, w.v, x)
<1>1. w.v.rotation \in {0, 90} /\ NoSlidePage \notin SlidePage
  BY DEF SlideWorld, SlideView, NoSlidePage, SlidePage
<1>2. NoSlide \in SlideJob
  BY DEF NoSlide, SlideJob, SlideOrNone, SlideLow
<1> QED
  BY <1>1, <1>2 DEF ScheduleSlide, JobFor, SlideJob, SlideOrNone

\* A job keeps what it is when its priority changes.
LEMMA ReprioritisedSlide ==
  ASSUME NEW v, NEW job, NEW page, NEW x, JobFor(job, page, v, x), NEW prio \in 0 .. 2,
         NEW y \in SlidePlace, prio = SlideUrgent <=> y = "curr"
  PROVE  JobFor(Reprioritised(job, prio), page, v, y)
<1>1. CASE job.at = "waiting"
  <2>1. page \in SlidePage
    BY <1>1 DEF JobFor, NoSlide
  <2>2. Reprioritised(job, prio) = [job EXCEPT !.prio = prio]
    BY <1>1 DEF Reprioritised
  <2> QED
    BY <1>1, <2>1, <2>2 DEF JobFor, SlideJob
<1>2. CASE job.at # "waiting"
  BY <1>2 DEF Reprioritised, JobFor
<1> QED
  BY <1>1, <1>2

LEMMA SlideOrFits ==
  ASSUME NEW w \in SlideWorld, NEW job, NEW page \in SlidePage, NEW x, JobFor(job, page, w.v, x),
         NEW prio \in 0 .. 2, NEW y \in SlidePlace, prio = SlideUrgent <=> y = "curr"
  PROVE  JobFor(SlideOr(w, job, page, prio), page, w.v, y)
<1>1. job # NoSlide
  BY DEF JobFor, NoSlide
<1> QED
  BY <1>1, ReprioritisedSlide DEF SlideOr

\* The jobs after a jump of any distance are those of the new page and its neighbours.
LEMMA SlidesAfterJump ==
  ASSUME NEW w \in SlideWorld, NEW page \in SlidePage,
         \/ JobsAround(w.s, w.v.page, w.v)
         \/ w.s = NoSlides /\ page = w.v.page,
         NEW s, s = SlidesFor(w, page)
  PROVE  s \in [SlidePlace -> SlideJob] /\ JobsAround(s, page, w.v)
<1> DEFINE New(d, prio) == ScheduleSlide(w, page + d, prio)
           jump == page - w.v.page
<1>1. w.v.page \in SlidePage /\ page \in Int /\ w.v.page \in Int /\ jump \in Int
      /\ page \in Nat /\ w.v.page \in Nat
  BY DEF SlideWorld, SlideView, SlidePage
<1>2. DOMAIN NoSlides = SlidePlace
  BY DEF NoSlides, SlidePlace
<1>3. /\ SlideUrgent \in 0 .. 2 /\ SlideHigh \in 0 .. 2 /\ SlideLow \in 0 .. 2
      /\ SlideHigh # SlideUrgent /\ SlideLow # SlideUrgent
  BY DEF SlideUrgent, SlideHigh, SlideLow
<1>4. \A prio \in {SlideHigh, SlideLow} :
        JobFor(New(-1, prio), page - 1, w.v, "prev") /\ JobFor(New(1, prio), page + 1, w.v, "next")
  <2> SUFFICES ASSUME NEW prio \in {SlideHigh, SlideLow}
               PROVE  /\ JobFor(New(-1, prio), page - 1, w.v, "prev")
                      /\ JobFor(New(1, prio), page + 1, w.v, "next")
    OBVIOUS
  <2>1. page + (-1) = page - 1 /\ page - 1 \in Int /\ page + 1 \in Int /\ prio \in 0 .. 2
    BY <1>1, <1>3
  <2>2. JobFor(ScheduleSlide(w, page - 1, prio), page - 1, w.v, "prev")
    BY <1>3, <2>1, ScheduledSlide DEF SlidePlace
  <2>3. JobFor(ScheduleSlide(w, page + 1, prio), page + 1, w.v, "next")
    BY <1>3, <2>1, ScheduledSlide DEF SlidePlace
  <2> QED
    BY <2>1, <2>2, <2>3
<1>5. JobFor(New(0, SlideUrgent), page, w.v, "curr")
  <2>1. page + 0 = page
    BY <1>1
  <2> QED
    BY <1>1, <1>3, <2>1, ScheduledSlide DEF SlidePlace
<1> HIDE DEF New
<1>6. ASSUME NEW prev, NEW curr, NEW next, JobFor(prev, page - 1, w.v, "prev"),
             JobFor(curr, page, w.v, "curr"), JobFor(next, page + 1, w.v, "next"),
             s = [x \in SlidePlace |-> CASE x = "prev" -> prev [] x = "curr" -> curr
                                         [] OTHER -> next]
      PROVE  s \in [SlidePlace -> SlideJob] /\ JobsAround(s, page, w.v)
  BY <1>6 DEF SlidePlace, JobsAround, JobFor
<1>7. CASE jump = 0
  <2>1. page = w.v.page
    BY <1>1, <1>7
  <2> DEFINE prev == IF w.s["prev"] # NoSlide THEN w.s["prev"] ELSE New(-1, SlideLow)
             curr == IF w.s["curr"] # NoSlide THEN w.s["curr"] ELSE New(0, SlideUrgent)
             next == IF w.s["next"] # NoSlide THEN w.s["next"] ELSE New(1, SlideHigh)
  <2>2. s = [x \in SlidePlace |-> CASE x = "prev" -> prev [] x = "curr" -> curr [] OTHER -> next]
    BY <1>2, <1>7 DEF SlidesFor, SlidePlace, New
  <2>3. CASE JobsAround(w.s, w.v.page, w.v)
    BY <1>4, <1>5, <1>6, <2>1, <2>2, <2>3 DEF JobsAround
  <2>4. CASE w.s = NoSlides
    <3>1. w.s["prev"] = NoSlide /\ w.s["curr"] = NoSlide /\ w.s["next"] = NoSlide
      BY <2>4 DEF NoSlides
    <3> QED
      BY <1>4, <1>5, <1>6, <2>2, <3>1
  <2> QED
    BY <2>3, <2>4
<1>8. CASE jump # 0
  <2>0. JobsAround(w.s, w.v.page, w.v)
    BY <1>1, <1>8
  <2> USE <1>2, <1>3 DEF SlidePlace
  <2>1. CASE jump = -1
    <3> DEFINE curr == SlideOr(w, w.s["prev"], page, SlideUrgent)
               next == Reprioritised(w.s["curr"], SlideLow)
    <3>1. w.v.page - 1 = page /\ w.v.page = page + 1
      BY <1>1, <2>1
    <3>2. JobFor(w.s["prev"], page, w.v, "prev") /\ JobFor(w.s["curr"], page + 1, w.v, "curr")
      BY <2>0, <3>1 DEF JobsAround
    <3>3. JobFor(curr, page, w.v, "curr") /\ JobFor(next, page + 1, w.v, "next")
      BY <3>2, SlideOrFits, ReprioritisedSlide
    <3>4. s = [x \in SlidePlace |-> CASE x = "prev" -> New(-1, SlideHigh) [] x = "curr" -> curr
                                      [] OTHER -> next]
      BY <2>1, <1>1 DEF SlidesFor, New
    <3> HIDE DEF curr, next
    <3> QED
      BY <1>4, <1>6, <3>3, <3>4
  <2>2. CASE jump = 1
    <3> DEFINE prev == Reprioritised(w.s["curr"], SlideLow)
               curr == SlideOr(w, w.s["next"], page, SlideUrgent)
    <3>1. w.v.page + 1 = page /\ w.v.page = page - 1
      BY <1>1, <2>2
    <3>2. JobFor(w.s["next"], page, w.v, "next") /\ JobFor(w.s["curr"], page - 1, w.v, "curr")
      BY <2>0, <3>1 DEF JobsAround
    <3>3. JobFor(curr, page, w.v, "curr") /\ JobFor(prev, page - 1, w.v, "prev")
      BY <3>2, SlideOrFits, ReprioritisedSlide
    <3>4. s = [x \in SlidePlace |-> CASE x = "prev" -> prev [] x = "curr" -> curr
                                      [] OTHER -> New(1, SlideHigh)]
      BY <2>2, <1>1 DEF SlidesFor, New
    <3> HIDE DEF curr, prev
    <3> QED
      BY <1>4, <1>6, <3>3, <3>4
  <2>3. CASE jump = -2
    <3> DEFINE next == SlideOr(w, w.s["prev"], page + 1, SlideLow)
    <3>1. w.v.page - 1 = page + 1 /\ page + 1 \in SlidePage
      <4> DEFINE p == w.v.page
      <4>1. p \in 0 .. (SlidePages - 1) /\ page \in 0 .. (SlidePages - 1) /\ page - p = -2
        BY <1>1, <2>3 DEF SlidePage
      <4> HIDE DEF p
      <4>2. p - 1 = page + 1 /\ page + 1 \in 0 .. (SlidePages - 1)
        BY <4>1, SlideAssumption
      <4> QED
        BY <4>2 DEF p, SlidePage
    <3>2. JobFor(w.s["prev"], page + 1, w.v, "prev")
      BY <2>0, <3>1 DEF JobsAround
    <3>3. JobFor(next, page + 1, w.v, "next")
      BY <3>1, <3>2, SlideOrFits
    <3>4. s = [x \in SlidePlace |-> CASE x = "prev" -> New(-1, SlideHigh)
                                      [] x = "curr" -> New(0, SlideUrgent) [] OTHER -> next]
      BY <2>3, <1>1 DEF SlidesFor, New
    <3> HIDE DEF next
    <3> QED
      BY <1>4, <1>5, <1>6, <3>3, <3>4
  <2>4. CASE jump = 2
    <3> DEFINE prev == SlideOr(w, w.s["next"], page - 1, SlideLow)
    <3>1. w.v.page + 1 = page - 1 /\ page - 1 \in SlidePage
      <4> DEFINE p == w.v.page
      <4>1. p \in 0 .. (SlidePages - 1) /\ page \in 0 .. (SlidePages - 1) /\ page - p = 2
        BY <1>1, <2>4 DEF SlidePage
      <4> HIDE DEF p
      <4>2. p + 1 = page - 1 /\ page - 1 \in 0 .. (SlidePages - 1)
        BY <4>1, SlideAssumption
      <4> QED
        BY <4>2 DEF p, SlidePage
    <3>2. JobFor(w.s["next"], page - 1, w.v, "next")
      BY <2>0, <3>1 DEF JobsAround
    <3>3. JobFor(prev, page - 1, w.v, "prev")
      BY <3>1, <3>2, SlideOrFits
    <3>4. s = [x \in SlidePlace |-> CASE x = "prev" -> prev
                                      [] x = "curr" -> New(0, SlideUrgent)
                                      [] OTHER -> New(1, SlideHigh)]
      BY <2>4, <1>1 DEF SlidesFor, New, NeighbourOfJump
    <3> HIDE DEF prev
    <3> QED
      BY <1>4, <1>5, <1>6, <3>3, <3>4
  <2>5. CASE jump > 2
    <3>1. s = [x \in SlidePlace |-> CASE x = "prev" -> New(-1, SlideLow)
                                      [] x = "curr" -> New(0, SlideUrgent)
                                      [] OTHER -> New(1, SlideHigh)]
      BY <2>5, <1>1 DEF SlidesFor, New
    <3> QED
      BY <1>4, <1>5, <1>6, <3>1
  <2>6. CASE jump < -2
    <3>1. s = [x \in SlidePlace |-> CASE x = "prev" -> New(-1, SlideHigh)
                                      [] x = "curr" -> New(0, SlideUrgent)
                                      [] OTHER -> New(1, SlideLow)]
      BY <2>6, <1>1 DEF SlidesFor, New
    <3> QED
      BY <1>4, <1>5, <1>6, <3>1
  <2> QED
    BY <1>1, <1>8, <2>1, <2>2, <2>3, <2>4, <2>5, <2>6
<1> QED
  BY <1>7, <1>8

\* What the jobs are does not depend on the rest of the view.
LEMMA JobsOfView ==
  ASSUME NEW s, NEW page, NEW v, NEW u, u.rotation = v.rotation, u.inverted = v.inverted,
         JobsAround(s, page, v)
  PROVE  JobsAround(s, page, u)
BY DEF JobsAround, JobFor

\* A presentation that is ready stays good when the rest of it changes.
ReadySlides(w) == SlidesGood(w) /\ w.v.up = "ready"
LEMMA ViewChanged ==
  ASSUME NEW w, ReadySlides(w), NEW v \in SlideView, NEW m \in SlideDeck, v.up = "ready",
         v.page = w.v.page, v.rotation = w.v.rotation, v.inverted = w.v.inverted,
         NEW u, u = [v |-> v, s |-> w.s, m |-> m]
  PROVE  ReadySlides(u)
<1>1. u.v = v /\ u.s = w.s /\ u.m = m
  OBVIOUS
<1>2. u \in SlideWorld
  BY DEF SlideWorld, ReadySlides, SlidesGood
<1>3. JobsAround(u.s, u.v.page, u.v)
  BY <1>1, JobsOfView DEF ReadySlides, SlidesGood
<1> QED
  BY <1>1, <1>2, <1>3 DEF ReadySlides, SlidesGood

\* An animation goes from one page of the document, or none, to another, or none.
LEMMA AnimationChanged ==
  ASSUME NEW w \in SlideWorld, NEW page \in SlidePage, NEW a, a = AnimationChange(w, page)
  PROVE  /\ a \in SlideWorld /\ a.s = w.s /\ a.m = w.m
         /\ a.v.up = w.v.up /\ a.v.page = w.v.page /\ a.v.rotation = w.v.rotation
         /\ a.v.inverted = w.v.inverted
<1> DEFINE b == [w EXCEPT !.v.animation = NoAnimation]
           neighbour == CASE page = b.v.page - 1 -> b.s["prev"]
                          [] page = b.v.page + 1 -> b.s["next"]
                          [] OTHER -> NoSlide
           origin == IF SlideRendered(b.s["curr"]) THEN b.s["curr"].page ELSE b.v.current
           dest == IF SlideRendered(neighbour) THEN page ELSE NoSlidePage
           moving == [on |-> TRUE, origin |-> origin, dest |-> dest]
<1>1. a = IF page = b.v.page \/ page \notin SlideEffects THEN b
          ELSE [b EXCEPT !.v.animation = moving]
  BY DEF AnimationChange, AnimationStart
<1>2. w.v \in SlideView /\ w.s \in [SlidePlace -> SlideJob] /\ w.m \in SlideDeck
  BY DEF SlideWorld
<1>3. NoAnimation \in [on : BOOLEAN, origin : SlideOrNone, dest : SlideOrNone]
  BY DEF NoAnimation, SlideOrNone
<1>4. /\ b \in SlideWorld /\ b.s = w.s /\ b.m = w.m /\ b.v \in SlideView
      /\ b.v.up = w.v.up /\ b.v.page = w.v.page /\ b.v.rotation = w.v.rotation
      /\ b.v.inverted = w.v.inverted /\ b.v.current \in SlideOrNone
  BY <1>2, <1>3 DEF SlideWorld, SlideView
<1> HIDE DEF b
<1>5. origin \in SlideOrNone /\ dest \in SlideOrNone
  <2>1. b.s["curr"] \in SlideJob
    BY <1>2, <1>4 DEF SlidePlace
  <2> QED
    BY <1>4, <2>1 DEF SlideJob, SlideOrNone
<1> HIDE DEF origin, dest
<1>6. moving \in [on : BOOLEAN, origin : SlideOrNone, dest : SlideOrNone]
  BY <1>5
<1> HIDE DEF moving
<1>7. CASE a = b
  BY <1>4, <1>7
<1>8. CASE a = [b EXCEPT !.v.animation = moving]
  BY <1>4, <1>6, <1>8 DEF SlideWorld, SlideView
<1> QED
  BY <1>1, <1>7, <1>8

\* The page changes, and the jobs with it; outside the document nothing happens.
LEMMA PageUpdated ==
  ASSUME NEW w \in SlideWorld, w.v.up = "ready", NEW page,
         \/ JobsAround(w.s, w.v.page, w.v)
         \/ w.s = NoSlides /\ page = w.v.page,
         NEW u, u = UpdateCurrentPage(w, page)
  PROVE  ReadySlides(u)
<1>1. CASE page \notin SlidePage
  <2>1. u = w /\ page # w.v.page
    BY <1>1 DEF UpdateCurrentPage, SlideWorld, SlideView
  <2> QED
    BY <2>1 DEF ReadySlides, SlidesGood
<1>2. CASE page \in SlidePage
  <2> DEFINE a == AnimationChange(w, page)
             s == SlidesFor(a, page)
             v == [a.v EXCEPT !.page = page]
  <2>1. u = [a EXCEPT !.s = s, !.v.page = page]
    BY <1>2 DEF UpdateCurrentPage
  <2>2. /\ a \in SlideWorld /\ a.s = w.s /\ a.m = w.m
        /\ a.v.up = w.v.up /\ a.v.page = w.v.page /\ a.v.rotation = w.v.rotation
        /\ a.v.inverted = w.v.inverted
    BY <1>2, AnimationChanged
  <2> HIDE DEF a
  <2>3. JobsAround(a.s, a.v.page, a.v) \/ (a.s = NoSlides /\ page = a.v.page)
    BY <2>2, JobsOfView
  <2>4. s \in [SlidePlace -> SlideJob] /\ JobsAround(s, page, a.v)
    BY <1>2, <2>2, <2>3, SlidesAfterJump
  <2> HIDE DEF s
  <2>5. /\ v \in SlideView /\ v.up = "ready" /\ v.page = page
        /\ v.rotation = a.v.rotation /\ v.inverted = a.v.inverted /\ a.m \in SlideDeck
    BY <1>2, <2>2 DEF SlideWorld, SlideView
  <2>6. u = [v |-> v, s |-> s, m |-> a.m]
    BY <2>1, <2>2 DEF SlideWorld
  <2> HIDE DEF v
  <2>7. u.v = v /\ u.s = s /\ u.m = a.m /\ u \in SlideWorld
    BY <2>4, <2>5, <2>6 DEF SlideWorld
  <2>8. JobsAround(u.s, u.v.page, u.v)
    BY <2>4, <2>5, <2>7, JobsOfView
  <2> QED
    BY <2>5, <2>7, <2>8 DEF ReadySlides, SlidesGood
<1> QED
  BY <1>1, <1>2

\* On and back, from a page, a blank screen or the end.
LEMMA SlideStateSet ==
  ASSUME NEW w, ReadySlides(w), NEW state \in {"normal", "black", "white", "end"}
  PROVE  ReadySlides([w EXCEPT !.v.state = state])
<1> DEFINE v == [w.v EXCEPT !.state = state]
<1>1. w \in SlideWorld /\ w.v \in SlideView /\ w.m \in SlideDeck /\ w.v.up = "ready"
  BY DEF ReadySlides, SlidesGood, SlideWorld
<1>2. [w EXCEPT !.v.state = state] = [v |-> v, s |-> w.s, m |-> w.m]
  BY <1>1 DEF SlideWorld
<1>3. /\ v \in SlideView /\ v.up = "ready" /\ v.page = w.v.page /\ v.rotation = w.v.rotation
      /\ v.inverted = w.v.inverted
  BY <1>1 DEF SlideView
<1> HIDE DEF v
<1>4. \A u : u = [v |-> v, s |-> w.s, m |-> w.m] => ReadySlides(u)
  BY <1>1, <1>3, ViewChanged
<1> QED
  BY <1>2, <1>4

LEMMA TurnedSlides ==
  ASSUME NEW w, ReadySlides(w), NEW forward \in BOOLEAN
  PROVE  ReadySlides(Turned(w, forward))
<1>1. \A page : ReadySlides(UpdateCurrentPage(w, page))
  BY PageUpdated DEF ReadySlides, SlidesGood
<1>2. ReadySlides([w EXCEPT !.v.state = "normal"]) /\ ReadySlides([w EXCEPT !.v.state = "end"])
  BY SlideStateSet
<1> DEFINE normal == [w EXCEPT !.v.state = "normal"]
<1>3. \A page : ReadySlides(UpdateCurrentPage(normal, page))
  <2> HIDE DEF normal
  <2> QED
    BY <1>2, PageUpdated DEF ReadySlides, SlidesGood, normal
<1>4. ReadySlides(NextSlide(w))
  BY <1>1, <1>2 DEF NextSlide
<1>5. ReadySlides(PreviousSlide(w))
  BY <1>1, <1>2, <1>3 DEF PreviousSlide
<1> QED
  BY <1>4, <1>5 DEF Turned

\* The invariant is about the variables.
LEMMA SlidesGoodIs ==
  ASSUME NEW w, SlidesGood(w), SlideshowIs(w)
  PROVE  SlidesGood(Slideshow)'
<1>1. w = [v |-> w.v, s |-> w.s, m |-> w.m]
  BY DEF SlidesGood, SlideWorld
<1>2. Slideshow' = w
  BY <1>1 DEF Slideshow, SlideshowIs
<1> QED
  BY <1>2 DEF SlidesGood, AtRestSlides, JobsAround, JobFor

\* A call of the user.
LEMMA SlidesCalled ==
  ASSUME SlidesGood(Slideshow)
  PROVE  /\ SlidesGood(SlideCall) /\ SlideCall.v = pview /\ SlideCall.s = slides
         /\ SlideCall.m \in SlideDeck
         /\ pview.up = "ready" => ReadySlides(SlideCall)
<1> DEFINE m == [deck EXCEPT !.calls = @ + 1]
<1>1. deck \in SlideDeck /\ Slideshow \in SlideWorld /\ deck.calls \in Nat
  BY DEF SlidesGood, SlideWorld, Slideshow, SlideDeck
<1>2. m \in SlideDeck /\ m.inhibited = deck.inhibited
  BY <1>1 DEF SlideDeck
<1>3. SlideCall = [v |-> pview, s |-> slides, m |-> m]
  BY DEF SlideCall, Slideshow
<1> HIDE DEF m
<1>4. SlideCall \in SlideWorld
  BY <1>1, <1>2, <1>3 DEF SlideWorld, Slideshow
<1>5. SlidesGood(SlideCall)
  BY <1>2, <1>3, <1>4 DEF SlidesGood, AtRestSlides, Slideshow
<1> QED
  BY <1>2, <1>3, <1>5 DEF ReadySlides

\* One part of the record changes.
LEMMA InhibitedSet ==
  ASSUME NEW v, NEW s, NEW m, NEW w, w = [v |-> v, s |-> s, m |-> m], NEW x
  PROVE  [w EXCEPT !.m.inhibited = x] = [v |-> v, s |-> s, m |-> [m EXCEPT !.inhibited = x]]
OBVIOUS
LEMMA HideSet ==
  ASSUME NEW w, w = [v |-> w.v, s |-> w.s, m |-> w.m], NEW x
  PROVE  [w EXCEPT !.v.hide = x] = [v |-> [w.v EXCEPT !.hide = x], s |-> w.s, m |-> w.m]
OBVIOUS
LEMMA ViewAndJobsSet ==
  ASSUME NEW w, w = [v |-> w.v, s |-> w.s, m |-> w.m], NEW v, NEW s
  PROVE  [w EXCEPT !.v = v, !.s = s] = [v |-> v, s |-> s, m |-> w.m]
<1> DEFINE w1 == [w EXCEPT !.v = v]
<1>1. w1 = [v |-> v, s |-> w.s, m |-> w.m]
  OBVIOUS
<1> HIDE DEF w1
<1>2. [w1 EXCEPT !.s = s] = [v |-> v, s |-> s, m |-> w.m]
  BY <1>1
<1> QED
  BY <1>2 DEF w1

\* What the user does in a presentation that is ready.
LEMMA SlidesByUser ==
  ASSUME SlidesGood(Slideshow),
         \/ \E b \in {"black", "white"} : KeyBlank(b)
         \/ \E p \in SlidePage : KeyHomeOrEnd(p) \/ SlideLink(p)
         \/ KeyDigit \/ GotoWindowHide
         \/ \E p \in -1 .. SlidePages : GotoEntryActivate(p)
         \/ \E forward \in BOOLEAN : KeyChangePage(forward) \/ SlideScroll(forward)
         \/ SlideMotion \/ RotateSlides
         \/ \E in \in BOOLEAN : SlideFocus(in)
  PROVE  SlidesGood(Slideshow)'
<1> DEFINE u == SlideCall
<1>1. /\ SlidesGood(u) /\ u.v = pview /\ u.s = slides /\ u.m \in SlideDeck
      /\ pview.up = "ready" => ReadySlides(u)
  BY SlidesCalled
<1>2. u \in SlideWorld /\ u.v \in SlideView /\ u.s \in [SlidePlace -> SlideJob] /\ pview \in SlideView
      /\ Slideshow \in SlideWorld /\ slides \in [SlidePlace -> SlideJob] /\ deck \in SlideDeck
  BY <1>1 DEF SlidesGood, SlideWorld, Slideshow
<1> HIDE DEF u
<1>3. ASSUME NEW w, ReadySlides(w), NEW page
      PROVE  ReadySlides(UpdateCurrentPage(w, page))
  BY <1>3, PageUpdated DEF ReadySlides, SlidesGood
<1>4. ASSUME NEW w, ReadySlides(w), SlideshowIs(w)
      PROVE  SlidesGood(Slideshow)'
  BY <1>4, SlidesGoodIs DEF ReadySlides
<1>5. ASSUME NEW b \in {"black", "white"}, KeyBlank(b)
      PROVE  SlidesGood(Slideshow)'
  <2> DEFINE state == IF u.v.state = b THEN "normal" ELSE b
  <2>1. ReadySlides(u) /\ SlideshowIs([u EXCEPT !.v.state = state])
    BY <1>1, <1>5 DEF KeyBlank, MayPresent, u
  <2>2. state \in {"normal", "black", "white", "end"}
    OBVIOUS
  <2> HIDE DEF state
  <2>3. ReadySlides([u EXCEPT !.v.state = state])
    BY <2>1, <2>2, SlideStateSet
  <2> QED
    BY <1>4, <2>1, <2>3
<1>6. ASSUME NEW p \in SlidePage, KeyHomeOrEnd(p) \/ SlideLink(p)
      PROVE  SlidesGood(Slideshow)'
  <2>1. ReadySlides(u) /\ SlideshowIs(UpdateCurrentPage(u, p))
    BY <1>1, <1>6 DEF KeyHomeOrEnd, SlideLink, MayPresent, u
  <2> QED
    BY <1>3, <1>4, <2>1
<1>7. CASE KeyDigit
  <2> DEFINE w == [u EXCEPT !.v.state = "normal", !.v.goto = "shown"]
             v == [u.v EXCEPT !.state = "normal", !.goto = "shown"]
  <2>1. ReadySlides(u) /\ SlideshowIs(w)
    BY <1>1, <1>7 DEF KeyDigit, MayPresent, u
  <2>2. /\ v \in SlideView /\ v.up = u.v.up /\ v.page = u.v.page /\ v.rotation = u.v.rotation
        /\ v.inverted = u.v.inverted
    BY <1>2 DEF SlideView
  <2>4. w = [v |-> v, s |-> u.s, m |-> u.m]
    <3> DEFINE v1 == [u.v EXCEPT !.state = "normal"]
               w1 == [u EXCEPT !.v.state = "normal"]
    <3>1. w1 = [v |-> v1, s |-> u.s, m |-> u.m]
      BY <1>2 DEF SlideWorld
    <3>2. w = [w1 EXCEPT !.v.goto = "shown"] /\ v = [v1 EXCEPT !.goto = "shown"]
      OBVIOUS
    <3> HIDE DEF v1, w1, v, w
    <3> QED
      BY <3>1, <3>2
  <2> HIDE DEF v, w
  <2>3. ReadySlides(w)
    BY <1>1, <2>1, <2>2, <2>4, ViewChanged DEF ReadySlides
  <2> QED
    BY <1>4, <2>1, <2>3
<1>8. ASSUME pview.up = "ready", NEW w, w = [Slideshow EXCEPT !.v.goto = "hidden"]
      PROVE  ReadySlides(w)
  <2> DEFINE v == [pview EXCEPT !.goto = "hidden"]
  <2>1. /\ v \in SlideView /\ v.up = "ready" /\ v.page = pview.page /\ v.rotation = pview.rotation
        /\ v.inverted = pview.inverted
    BY <1>2, <1>8 DEF SlideView
  <2>2. w = [v |-> v, s |-> slides, m |-> deck]
    BY <1>8 DEF Slideshow
  <2>3. ReadySlides(Slideshow) /\ Slideshow.v = pview /\ Slideshow.s = slides
    BY <1>8 DEF ReadySlides, Slideshow
  <2> HIDE DEF v
  <2> QED
    BY <1>2, <2>1, <2>2, <2>3, ViewChanged
<1>9. CASE GotoWindowHide
  <2>1. pview.up = "ready" /\ SlideshowIs([Slideshow EXCEPT !.v.goto = "hidden"])
    BY <1>9 DEF GotoWindowHide
  <2> QED
    BY <1>4, <1>8, <2>1
<1>10. ASSUME NEW p \in -1 .. SlidePages, GotoEntryActivate(p)
       PROVE  SlidesGood(Slideshow)'
  <2> DEFINE w == [Slideshow EXCEPT !.v.goto = "hidden"]
  <2>1. pview.up = "ready" /\ SlideshowIs(UpdateCurrentPage(w, p))
    BY <1>10 DEF GotoEntryActivate
  <2>2. ReadySlides(w)
    BY <1>8, <2>1
  <2> HIDE DEF w
  <2> QED
    BY <1>3, <1>4, <2>1, <2>2
<1>11. ASSUME NEW forward \in BOOLEAN, KeyChangePage(forward)
       PROVE  SlidesGood(Slideshow)'
  <2> DEFINE state == IF u.v.state = "end" THEN u.v.state ELSE "normal"
             w == [u EXCEPT !.v.state = state]
  <2>1. ReadySlides(u) /\ SlideshowIs(Turned(w, forward))
    BY <1>1, <1>11 DEF KeyChangePage, MayPresent, u
  <2>2. state \in {"normal", "black", "white", "end"}
    OBVIOUS
  <2> HIDE DEF state
  <2>3. ReadySlides(w)
    BY <2>1, <2>2, SlideStateSet
  <2> HIDE DEF w
  <2> QED
    BY <1>4, <2>1, <2>3, TurnedSlides
<1>12. ASSUME NEW forward \in BOOLEAN, SlideScroll(forward)
       PROVE  SlidesGood(Slideshow)'
  <2>1. ReadySlides(u) /\ SlideshowIs(Turned(u, forward))
    BY <1>1, <1>12 DEF SlideScroll, MayPresent, u
  <2> QED
    BY <1>4, <2>1, TurnedSlides
<1>13. CASE SlideMotion
  <2> DEFINE w == [u EXCEPT !.v.hide = TRUE]
             v == [u.v EXCEPT !.hide = TRUE]
  <2>1. ReadySlides(u) /\ SlideshowIs(w)
    BY <1>1, <1>13 DEF SlideMotion, MayPresent, u
  <2>2. /\ v \in SlideView /\ v.up = u.v.up /\ v.page = u.v.page /\ v.rotation = u.v.rotation
        /\ v.inverted = u.v.inverted
    BY <1>2 DEF SlideView
  <2>4. w = [v |-> v, s |-> u.s, m |-> u.m]
    <3> DEFINE yes == TRUE
    <3>1. u = [v |-> u.v, s |-> u.s, m |-> u.m]
      BY <1>2 DEF SlideWorld
    <3> HIDE DEF yes, v, w
    <3>2. [u EXCEPT !.v.hide = yes] = [v |-> [u.v EXCEPT !.hide = yes], s |-> u.s, m |-> u.m]
      BY <3>1, HideSet
    <3> QED
      BY <3>2 DEF yes, v, w
  <2> HIDE DEF v, w
  <2>3. ReadySlides(w)
    BY <1>1, <2>1, <2>2, <2>4, ViewChanged DEF ReadySlides
  <2> QED
    BY <1>4, <2>1, <2>3
<1>14. ASSUME NEW in \in BOOLEAN, SlideFocus(in)
       PROVE  SlidesGood(Slideshow)'
  <2> DEFINE w == [u EXCEPT !.m.inhibited = in]
             m == [u.m EXCEPT !.inhibited = in]
  <2>1. ReadySlides(u) /\ SlideshowIs(w)
    BY <1>1, <1>14 DEF SlideFocus, MayPresent, u
  <2>2. m \in SlideDeck /\ w = [v |-> u.v, s |-> u.s, m |-> m]
    BY <1>1, <1>2 DEF SlideDeck, SlideWorld
  <2> HIDE DEF m, w
  <2>3. ReadySlides(w)
    BY <1>2, <2>1, <2>2, ViewChanged DEF ReadySlides
  <2> QED
    BY <1>4, <2>1, <2>3
<1>15. CASE RotateSlides
  <2> DEFINE w == [u EXCEPT !.v.rotation = 90 - @, !.s = NoSlides]
             rotation == 90 - u.v.rotation
             v == [u.v EXCEPT !.rotation = rotation]
  <2>1. ReadySlides(u) /\ SlideshowIs(UpdateCurrentPage(w, w.v.page))
    BY <1>1, <1>15 DEF RotateSlides, MayPresent, u
  <2>2. rotation \in {0, 90}
    BY <1>2 DEF SlideView
  <2>3. w = [u EXCEPT !.v.rotation = rotation, !.s = NoSlides]
    OBVIOUS
  <2>4. NoSlides \in [SlidePlace -> SlideJob]
    BY DEF NoSlides, SlidePlace, NoSlide, SlideJob, SlideOrNone, SlideLow
  <2> HIDE DEF rotation, w
  <2>5. v \in SlideView /\ v.up = u.v.up /\ w = [v |-> v, s |-> NoSlides, m |-> u.m]
    BY <1>2, <2>2, <2>3 DEF SlideView, SlideWorld
  <2> HIDE DEF v
  <2>6. w \in SlideWorld /\ w.s = NoSlides /\ w.v.up = "ready"
    BY <1>1, <2>1, <2>4, <2>5 DEF SlideWorld, ReadySlides
  <2> DEFINE p == w.v.page
  <2>7. w.s = NoSlides /\ p = w.v.page
    BY <2>6
  <2> HIDE DEF p
  <2>8. ReadySlides(UpdateCurrentPage(w, p))
    BY <2>6, <2>7, PageUpdated
  <2> QED
    BY <1>4, <2>1, <2>8 DEF p
<1> QED
  BY <1>5, <1>6, <1>7, <1>9, <1>10, <1>11, <1>12, <1>13, <1>14, <1>15

\* No view, and one that has just been made, have nothing.
LEMMA SlidesAtRest ==
  ASSUME NEW m \in SlideDeck, NEW v \in SlideView, v.up # "ready", ~v.timer, ~v.hide,
         v.animation = NoAnimation, v.up = "absent" => ~m.inhibited,
         NEW w, w = [v |-> v, s |-> NoSlides, m |-> m]
  PROVE  SlidesGood(w)
<1>1. NoSlides \in [SlidePlace -> SlideJob]
  BY DEF NoSlides, SlidePlace, NoSlide, SlideJob, SlideOrNone, SlideLow
<1>2. w.v = v /\ w.s = NoSlides /\ w.m = m /\ w \in SlideWorld
  BY <1>1 DEF SlideWorld
<1> QED
  BY <1>2 DEF SlidesGood, AtRestSlides

\* The view of a page that is absent or just realized
LEMMA PresentationMade ==
  ASSUME NEW up \in {"absent", "realized"}, NEW page \in SlidePage, NEW rotation \in {0, 90},
         NEW inverted \in BOOLEAN,
         NEW v, v = [up |-> up, page |-> page, state |-> "normal", rotation |-> rotation,
                     inverted |-> inverted, animation |-> NoAnimation, current |-> NoSlidePage,
                     timer |-> FALSE, hide |-> FALSE, goto |-> "hidden"]
  PROVE  v \in SlideView /\ v.up = up /\ ~v.timer /\ ~v.hide /\ v.animation = NoAnimation
<1>1. NoAnimation \in [on : BOOLEAN, origin : SlideOrNone, dest : SlideOrNone]
  BY DEF NoAnimation, SlideOrNone
<1>2. NoSlidePage \in SlideOrNone
  BY DEF SlideOrNone
<1>3. v \in SlideView
  BY <1>1, <1>2 DEF SlideView
<1>4. v.up = up /\ v.animation = NoAnimation
  OBVIOUS
<1>5. ~v.timer /\ ~v.hide
  OBVIOUS
<1> QED
  BY <1>3, <1>4, <1>5

LEMMA ViewPresenting ==
  ASSUME NEW page, NEW rotation, NEW inverted,
         NEW v, v = [NoPresentation EXCEPT !.up = "realized", !.page = page,
                                           !.rotation = rotation, !.inverted = inverted]
  PROVE  v = [up |-> "realized", page |-> page, state |-> "normal", rotation |-> rotation,
              inverted |-> inverted, animation |-> NoAnimation, current |-> NoSlidePage,
              timer |-> FALSE, hide |-> FALSE, goto |-> "hidden"]
BY DEF NoPresentation
LEMMA ViewDisposed ==
  ASSUME NEW page, NEW rotation,
         NEW v, v = [NoPresentation EXCEPT !.page = page, !.rotation = rotation]
  PROVE  v = [up |-> "absent", page |-> page, state |-> "normal", rotation |-> rotation,
              inverted |-> FALSE, animation |-> NoAnimation, current |-> NoSlidePage,
              timer |-> FALSE, hide |-> FALSE, goto |-> "hidden"]
BY DEF NoPresentation

LEMMA SlidesBegin == SlideInit => SlidesGood(Slideshow)
<1> SUFFICES ASSUME SlideInit PROVE SlidesGood(Slideshow)
  OBVIOUS
<1>1. 0 \in SlidePage
  BY SlideAssumption DEF SlidePage
<1>2. pview = [up |-> "absent", page |-> 0, state |-> "normal", rotation |-> 0,
               inverted |-> FALSE, animation |-> NoAnimation, current |-> NoSlidePage,
               timer |-> FALSE, hide |-> FALSE, goto |-> "hidden"]
  BY DEF SlideInit, NoPresentation
<1>3. /\ pview \in SlideView /\ pview.up = "absent" /\ ~pview.timer /\ ~pview.hide
      /\ pview.animation = NoAnimation
  BY <1>1, <1>2, PresentationMade
<1>4. deck \in SlideDeck /\ ~deck.inhibited
  BY <1>1 DEF SlideInit, SlideDeck
<1>5. Slideshow = [v |-> pview, s |-> NoSlides, m |-> deck]
  BY DEF Slideshow, SlideInit
<1> QED
  BY <1>3, <1>4, <1>5, SlidesAtRest

\* What the window does with a presentation: it starts, stops and is made again.
LEMMA SlidesByWindow ==
  ASSUME SlidesGood(Slideshow),
         \/ \E p \in SlidePage, i \in BOOLEAN : SlideBrowse(p, i)
         \/ RunPresentation \/ StopPresentation \/ ReloadPresentation \/ InitPresentation
  PROVE  SlidesGood(Slideshow)'
<1>1. /\ Slideshow \in SlideWorld /\ pview \in SlideView /\ slides \in [SlidePlace -> SlideJob]
      /\ deck \in SlideDeck
      /\ Slideshow.v = pview /\ Slideshow.s = slides /\ Slideshow.m = deck
  BY DEF SlidesGood, SlideWorld, Slideshow
<1>2. ASSUME NEW w, SlidesGood(w), SlideshowIs(w)
      PROVE  SlidesGood(Slideshow)'
  BY <1>2, SlidesGoodIs
<1>3. pview.up # "ready" =>
        slides = NoSlides /\ ~pview.timer /\ ~pview.hide /\ pview.animation = NoAnimation
  BY <1>1 DEF SlidesGood, AtRestSlides
<1>4. pview.up = "absent" => ~deck.inhibited
  BY <1>1 DEF SlidesGood
<1>5. ASSUME NEW p \in SlidePage, NEW i \in BOOLEAN, SlideBrowse(p, i)
      PROVE  SlidesGood(Slideshow)'
  <2> DEFINE calls == IF i THEN 1 ELSE 0
             m == [deck EXCEPT !.page = p, !.inverted = i, !.calls = calls]
  <2>1. pview.up = "absent"
        /\ SlideshowIs([Slideshow EXCEPT !.m.page = p, !.m.inverted = i, !.m.calls = calls])
    BY <1>5 DEF SlideBrowse
  <2>2. calls \in Nat
    OBVIOUS
  <2> HIDE DEF calls
  <2>3. m \in SlideDeck /\ m.inhibited = deck.inhibited
    BY <1>1, <2>2 DEF SlideDeck
  <2>4. [Slideshow EXCEPT !.m.page = p, !.m.inverted = i, !.m.calls = calls]
          = [v |-> pview, s |-> NoSlides, m |-> m]
    <3> DEFINE m1 == [deck EXCEPT !.page = p]
               w1 == [Slideshow EXCEPT !.m.page = p]
               m2 == [m1 EXCEPT !.inverted = i]
               w2 == [w1 EXCEPT !.m.inverted = i]
               w3 == [w2 EXCEPT !.m.calls = calls]
    <3>1. w1 = [v |-> pview, s |-> NoSlides, m |-> m1]
      BY <1>3, <2>1 DEF Slideshow
    <3>2. w3 = [Slideshow EXCEPT !.m.page = p, !.m.inverted = i, !.m.calls = calls]
          /\ m = [m2 EXCEPT !.calls = calls]
      OBVIOUS
    <3> HIDE DEF w1, m1, m
    <3>3. w2 = [v |-> pview, s |-> NoSlides, m |-> m2]
      BY <3>1
    <3> HIDE DEF w2, m2
    <3>4. w3 = [v |-> pview, s |-> NoSlides, m |-> m]
      BY <3>2, <3>3
    <3> QED
      BY <3>2, <3>4
  <2> HIDE DEF m
  <2>5. \A w : w = [v |-> pview, s |-> NoSlides, m |-> m] => SlidesGood(w)
    BY <1>1, <1>3, <1>4, <2>1, <2>3, SlidesAtRest
  <2> QED
    BY <1>2, <2>1, <2>4, <2>5
<1>6. ASSUME NEW w, w.m \in SlideDeck, w.s \in [SlidePlace -> SlideJob],
             w = [v |-> w.v, s |-> w.s, m |-> w.m]
      PROVE  SlidesGood(Presenting(w))
  <2> DEFINE page == w.m.page
             rotation == w.m.rotation
             inverted == w.m.inverted
             v == [NoPresentation EXCEPT !.up = "realized", !.page = page, !.rotation = rotation,
                                         !.inverted = inverted]
             m == [w.m EXCEPT !.inhibited = TRUE]
  <2>1. m \in SlideDeck /\ w.m.page \in SlidePage /\ w.m.rotation \in {0, 90}
        /\ w.m.inverted \in BOOLEAN
    BY <1>6 DEF SlideDeck
  <2>2. v \in SlideView /\ v.up = "realized" /\ ~v.timer /\ ~v.hide /\ v.animation = NoAnimation
    <3> HIDE DEF page, rotation, inverted
    <3>0. v = [NoPresentation EXCEPT !.up = "realized", !.page = page, !.rotation = rotation,
                               !.inverted = inverted]
      OBVIOUS
    <3> HIDE DEF v
    <3>1. v = [up |-> "realized", page |-> page, state |-> "normal", rotation |-> rotation,
               inverted |-> inverted, animation |-> NoAnimation, current |-> NoSlidePage,
               timer |-> FALSE, hide |-> FALSE, goto |-> "hidden"]
      BY <3>0, ViewPresenting
    <3>2. page \in SlidePage /\ rotation \in {0, 90} /\ inverted \in BOOLEAN
      BY <2>1 DEF page, rotation, inverted
    <3> QED
      BY <3>1, <3>2, PresentationMade
  <2>3. Presenting(w) = [w EXCEPT !.v = v, !.s = NoSlides, !.m.inhibited = TRUE]
    BY DEF Presenting
  <2> HIDE DEF v
  <2>4. [w EXCEPT !.v = v, !.s = NoSlides, !.m.inhibited = TRUE]
          = [v |-> v, s |-> NoSlides, m |-> m]
    <3> DEFINE w1 == [w EXCEPT !.v = v, !.s = NoSlides]
               w2 == [w1 EXCEPT !.m.inhibited = TRUE]
               yes == TRUE
    <3>1. w1 = [v |-> v, s |-> NoSlides, m |-> w.m]
      BY <1>6, ViewAndJobsSet
    <3>2. w2 = [w EXCEPT !.v = v, !.s = NoSlides, !.m.inhibited = TRUE]
      OBVIOUS
    <3> HIDE DEF w1, yes
    <3>3. [w1 EXCEPT !.m.inhibited = yes]
            = [v |-> v, s |-> NoSlides, m |-> [w.m EXCEPT !.inhibited = yes]]
      BY <3>1, InhibitedSet
    <3> QED
      BY <3>2, <3>3 DEF yes
  <2> HIDE DEF m
  <2>5. \A u : u = [v |-> v, s |-> NoSlides, m |-> m] => SlidesGood(u)
    BY <2>1, <2>2, SlidesAtRest
  <2> QED
    BY <2>3, <2>4, <2>5
<1>7. CASE RunPresentation
  <2>1. SlideshowIs(Presenting(Slideshow)) /\ Slideshow = [v |-> pview, s |-> slides, m |-> deck]
    BY <1>7 DEF RunPresentation, Slideshow
  <2>2. SlidesGood(Presenting(Slideshow))
    BY <1>1, <1>6, <2>1
  <2> QED
    BY <1>2, <2>1, <2>2
<1>8. ASSUME NEW w, w \in SlideWorld, NEW d, d = DisposePresentation(w)
      PROVE  /\ d.v \in SlideView /\ d.v.up = "absent" /\ ~d.v.timer /\ ~d.v.hide
             /\ d.v.animation = NoAnimation
             /\ d = [v |-> d.v, s |-> NoSlides, m |-> w.m]
  <2> DEFINE page == w.v.page
             rotation == w.v.rotation
             v == [NoPresentation EXCEPT !.page = page, !.rotation = rotation]
  <2>1. w.v.page \in SlidePage /\ w.v.rotation \in {0, 90}
    BY <1>8 DEF SlideWorld, SlideView
  <2>3. v \in SlideView /\ v.up = "absent" /\ ~v.timer /\ ~v.hide /\ v.animation = NoAnimation
    <3> HIDE DEF page, rotation
    <3>0. v = [NoPresentation EXCEPT !.page = page, !.rotation = rotation]
      OBVIOUS
    <3> HIDE DEF v
    <3>1. v = [up |-> "absent", page |-> page, state |-> "normal", rotation |-> rotation,
               inverted |-> FALSE, animation |-> NoAnimation, current |-> NoSlidePage,
               timer |-> FALSE, hide |-> FALSE, goto |-> "hidden"]
      BY <3>0, ViewDisposed
    <3>2. page \in SlidePage /\ rotation \in {0, 90}
      BY <2>1 DEF page, rotation
    <3> QED
      BY <3>1, <3>2, PresentationMade
  <2>4. d = [w EXCEPT !.v = v, !.s = NoSlides]
    BY <1>8 DEF DisposePresentation
  <2> HIDE DEF v
  <2>5. d = [v |-> v, s |-> NoSlides, m |-> w.m]
    BY <1>8, <2>4 DEF SlideWorld
  <2> QED
    BY <2>3, <2>5
<1>9. CASE StopPresentation
  <2> DEFINE d == DisposePresentation(Slideshow)
             m == [deck EXCEPT !.page = pview.page, !.rotation = pview.rotation,
                               !.inhibited = FALSE]
  <2>1. SlideshowIs([d EXCEPT !.m.page = pview.page, !.m.rotation = pview.rotation,
                              !.m.inhibited = FALSE])
    BY <1>9 DEF StopPresentation
  <2>2. /\ d.v \in SlideView /\ d.v.up = "absent" /\ ~d.v.timer /\ ~d.v.hide
        /\ d.v.animation = NoAnimation /\ d = [v |-> d.v, s |-> NoSlides, m |-> deck]
    BY <1>1, <1>8
  <2> HIDE DEF d
  <2>3. m \in SlideDeck /\ ~m.inhibited
    BY <1>1 DEF SlideDeck, SlideView
  <2>4. [d EXCEPT !.m.page = pview.page, !.m.rotation = pview.rotation, !.m.inhibited = FALSE]
          = [v |-> d.v, s |-> NoSlides, m |-> m]
    <3> DEFINE m1 == [deck EXCEPT !.page = pview.page]
               d1 == [d EXCEPT !.m.page = pview.page]
               m2 == [m1 EXCEPT !.rotation = pview.rotation]
               d2 == [d1 EXCEPT !.m.rotation = pview.rotation]
               d3 == [d2 EXCEPT !.m.inhibited = FALSE]
    <3>1. d1 = [v |-> d.v, s |-> NoSlides, m |-> m1]
      BY <2>2
    <3>2. d3 = [d EXCEPT !.m.page = pview.page, !.m.rotation = pview.rotation,
                         !.m.inhibited = FALSE]
          /\ m = [m2 EXCEPT !.inhibited = FALSE]
      OBVIOUS
    <3> HIDE DEF d1, m1, m
    <3>3. d2 = [v |-> d.v, s |-> NoSlides, m |-> m2]
      BY <3>1
    <3> DEFINE no == FALSE
    <3> HIDE DEF d2, m2, no
    <3>4. [d2 EXCEPT !.m.inhibited = no]
            = [v |-> d.v, s |-> NoSlides, m |-> [m2 EXCEPT !.inhibited = no]]
      BY <3>3, InhibitedSet
    <3>5. d3 = [v |-> d.v, s |-> NoSlides, m |-> [m2 EXCEPT !.inhibited = FALSE]]
      BY <3>4 DEF no
    <3> HIDE DEF d3
    <3> QED
      BY <3>2, <3>5
  <2> HIDE DEF m
  <2>5. \A u : u = [v |-> d.v, s |-> NoSlides, m |-> m] => SlidesGood(u)
    BY <2>2, <2>3, SlidesAtRest
  <2> QED
    BY <1>2, <2>1, <2>4, <2>5
<1>10. CASE ReloadPresentation
  <2> DEFINE d == DisposePresentation(SlideCall)
             r == [d EXCEPT !.m.page = pview.page]
             m == [SlideCall.m EXCEPT !.page = pview.page]
  <2>1. SlideshowIs(Presenting(r))
    BY <1>10 DEF ReloadPresentation
  <2>2. SlideCall \in SlideWorld /\ SlideCall.m \in SlideDeck
    BY SlidesCalled DEF SlidesGood
  <2>3. d = [v |-> d.v, s |-> NoSlides, m |-> SlideCall.m]
    BY <1>8, <2>2
  <2> HIDE DEF d
  <2>4. r = [v |-> d.v, s |-> NoSlides, m |-> m] /\ m \in SlideDeck
    BY <1>1, <2>2, <2>3 DEF SlideDeck, SlideView
  <2> HIDE DEF r, m
  <2>5. NoSlides \in [SlidePlace -> SlideJob]
    BY DEF NoSlides, SlidePlace, NoSlide, SlideJob, SlideOrNone, SlideLow
  <2>6. r.m \in SlideDeck /\ r.s \in [SlidePlace -> SlideJob] /\ r = [v |-> r.v, s |-> r.s, m |-> r.m]
    BY <2>4, <2>5
  <2>7. SlidesGood(Presenting(r))
    BY <1>6, <2>6
  <2> QED
    BY <1>2, <2>1, <2>7
<1>11. CASE InitPresentation
  <2> DEFINE w == [Slideshow EXCEPT !.v.up = "ready", !.v.hide = TRUE]
             v == [pview EXCEPT !.up = "ready", !.hide = TRUE]
             p == pview.page
  <2>1. pview.up = "realized" /\ SlideshowIs(UpdateCurrentPage(w, p))
    BY <1>11 DEF InitPresentation
  <2>2. v \in SlideView /\ v.up = "ready" /\ v.page = p
    BY <1>1 DEF SlideView
  <2>3. w = [v |-> v, s |-> NoSlides, m |-> deck]
    <3> DEFINE v1 == [pview EXCEPT !.up = "ready"]
               w1 == [Slideshow EXCEPT !.v.up = "ready"]
    <3>1. w1 = [v |-> v1, s |-> NoSlides, m |-> deck]
      BY <1>3, <2>1 DEF Slideshow
    <3>2. w = [w1 EXCEPT !.v.hide = TRUE] /\ v = [v1 EXCEPT !.hide = TRUE]
      OBVIOUS
    <3> HIDE DEF v1, w1, v, w
    <3> QED
      BY <3>1, <3>2
  <2>4. NoSlides \in [SlidePlace -> SlideJob]
    BY DEF NoSlides, SlidePlace, NoSlide, SlideJob, SlideOrNone, SlideLow
  <2> HIDE DEF v, w, p
  <2>5. w \in SlideWorld /\ w.s = NoSlides /\ w.v.up = "ready" /\ w.v.page = p
    BY <1>1, <2>2, <2>3, <2>4 DEF SlideWorld
  <2>6. ReadySlides(UpdateCurrentPage(w, p))
    BY <2>5, PageUpdated
  <2> QED
    BY <1>2, <2>1, <2>6 DEF ReadySlides
<1> QED
  BY <1>5, <1>7, <1>9, <1>10, <1>11

\* A job that is there goes on to be rendered or finished.
LEMMA JobMoved ==
  ASSUME NEW w, ReadySlides(w), NEW x \in SlidePlace, w.s[x].at # "none", NEW job \in SlideJob,
         job.page = w.s[x].page, job.rotation = w.s[x].rotation, job.at \in {"rendered", "finished"},
         job.at = "finished" => job.inverted = w.v.inverted,
         NEW u, u = [v |-> w.v, s |-> [w.s EXCEPT ![x] = job], m |-> w.m]
  PROVE  ReadySlides(u)
<1> DEFINE s == [w.s EXCEPT ![x] = job]
<1>1. w \in SlideWorld /\ w.s \in [SlidePlace -> SlideJob] /\ w.v \in SlideView /\ w.m \in SlideDeck
      /\ w.v.up = "ready" /\ JobsAround(w.s, w.v.page, w.v)
  BY DEF ReadySlides, SlidesGood, SlideWorld
<1>2. s \in [SlidePlace -> SlideJob] /\ s[x] = job /\ \A y \in SlidePlace : y # x => s[y] = w.s[y]
  BY <1>1
<1> HIDE DEF s
<1>3. w.s[x] # NoSlide
  BY DEF NoSlide
<1>4. ASSUME NEW page, JobFor(w.s[x], page, w.v, x)
      PROVE  JobFor(s[x], page, w.v, x)
  BY <1>2, <1>3, <1>4 DEF JobFor
<1>5. /\ JobFor(w.s["prev"], w.v.page - 1, w.v, "prev") /\ JobFor(w.s["curr"], w.v.page, w.v, "curr")
      /\ JobFor(w.s["next"], w.v.page + 1, w.v, "next")
  BY <1>1 DEF JobsAround
<1>6. JobFor(s["prev"], w.v.page - 1, w.v, "prev")
  BY <1>2, <1>4, <1>5 DEF SlidePlace
<1>7. JobFor(s["curr"], w.v.page, w.v, "curr")
  BY <1>2, <1>4, <1>5 DEF SlidePlace
<1>8. JobFor(s["next"], w.v.page + 1, w.v, "next")
  BY <1>2, <1>4, <1>5 DEF SlidePlace
<1>9. u.v = w.v /\ u.s = s /\ u.m = w.m /\ u \in SlideWorld
  BY <1>1, <1>2 DEF SlideWorld, s
<1>10. JobsAround(u.s, u.v.page, u.v)
  BY <1>6, <1>7, <1>8, <1>9 DEF JobsAround
<1> QED
  BY <1>1, <1>9, <1>10 DEF ReadySlides, SlidesGood

\* A view with another timer or without an animation is as good.
LEMMA TransitionStarted ==
  ASSUME NEW w, ReadySlides(w)
  PROVE  ReadySlides(TransitionStart(w))
<1> DEFINE timer == w.v.page \in SlideTimed
           v == [w.v EXCEPT !.timer = timer]
<1>1. w \in SlideWorld /\ w.v \in SlideView /\ w.m \in SlideDeck /\ w.v.up = "ready" /\ timer \in BOOLEAN
  BY DEF ReadySlides, SlidesGood, SlideWorld
<1>2. TransitionStart(w) = [w EXCEPT !.v.timer = timer]
  BY DEF TransitionStart
<1> HIDE DEF timer
<1>3. [w EXCEPT !.v.timer = timer] = [v |-> v, s |-> w.s, m |-> w.m]
  BY <1>1 DEF SlideWorld
<1>4. /\ v \in SlideView /\ v.up = "ready" /\ v.page = w.v.page /\ v.rotation = w.v.rotation
      /\ v.inverted = w.v.inverted
  BY <1>1 DEF SlideView
<1> HIDE DEF v
<1>5. \A u : u = [v |-> v, s |-> w.s, m |-> w.m] => ReadySlides(u)
  BY <1>1, <1>4, ViewChanged
<1> QED
  BY <1>2, <1>3, <1>5

LEMMA NextSlideGood ==
  ASSUME NEW w, ReadySlides(w)
  PROVE  ReadySlides(NextSlide(w))
<1>1. ReadySlides(Turned(w, 0 = 0))
  BY TurnedSlides
<1> QED
  BY <1>1 DEF Turned

\* The worker and the main loop
LEMMA SlidesByWork ==
  ASSUME SlidesGood(Slideshow),
         \/ \E x \in DOMAIN slides : RenderSlide(x) \/ SlideFinished(x)
         \/ AnimationFinish \/ TimerNextPage \/ HideCursor \/ DrawSlide
  PROVE  SlidesGood(Slideshow)'
<1> DEFINE u == Slideshow
<1>1. /\ u \in SlideWorld /\ u.v \in SlideView /\ u.s \in [SlidePlace -> SlideJob] /\ u.m \in SlideDeck
      /\ u = [v |-> u.v, s |-> u.s, m |-> u.m] /\ u.v = pview /\ u.s = slides /\ u.m = deck
      /\ DOMAIN slides = SlidePlace
  BY DEF SlidesGood, SlideWorld, Slideshow
<1>2. u.v.up = "ready" => ReadySlides(u)
  BY DEF ReadySlides
<1>3. u.v.up # "ready" =>
        u.s = NoSlides /\ ~u.v.timer /\ ~u.v.hide /\ u.v.animation = NoAnimation
  BY DEF SlidesGood, AtRestSlides
<1> HIDE DEF u
<1>4. ASSUME NEW w, ReadySlides(w), SlideshowIs(w)
      PROVE  SlidesGood(Slideshow)'
  BY <1>4, SlidesGoodIs DEF ReadySlides
<1>5. ASSUME NEW x \in SlidePlace, slides[x].at # "none"
      PROVE  ReadySlides(u)
  <2>1. u.s # NoSlides
    BY <1>1, <1>5 DEF NoSlides, NoSlide, SlidePlace
  <2> QED
    BY <1>2, <1>3, <2>1
<1>6. ASSUME NEW x \in SlidePlace, RenderSlide(x)
      PROVE  SlidesGood(Slideshow)'
  <2> DEFINE job == [slides[x] EXCEPT !.at = "rendered"]
             w == [u EXCEPT !.s[x].at = "rendered"]
  <2>1. slides[x].at = "waiting" /\ SlideshowIs(w)
    BY <1>6 DEF RenderSlide, u
  <2>2. ReadySlides(u)
    BY <1>5, <2>1
  <2>3. slides[x] \in SlideJob
    BY <1>1
  <2>4. job \in SlideJob /\ job.page = slides[x].page /\ job.rotation = slides[x].rotation
        /\ job.at = "rendered"
    BY <2>3 DEF SlideJob
  <2>5. w = [v |-> u.v, s |-> [u.s EXCEPT ![x] = job], m |-> u.m]
    BY <1>1
  <2> HIDE DEF job, w
  <2>6. ReadySlides(w)
    BY <1>1, <2>1, <2>2, <2>4, <2>5, JobMoved
  <2> QED
    BY <1>4, <2>1, <2>6
<1>7. ASSUME NEW x \in SlidePlace, SlideFinished(x)
      PROVE  SlidesGood(Slideshow)'
  <2> DEFINE colour == u.v.inverted
             done == [u EXCEPT !.s[x].at = "finished", !.s[x].inverted = colour]
             first == [u EXCEPT !.s[x].at = "finished"]
             half == [slides[x] EXCEPT !.at = "finished"]
             job == [half EXCEPT !.inverted = colour]
             dest == u.s[x].page
  <2>1. slides[x].at = "rendered" /\ SlideshowIs(SlideDone(u, x))
    BY <1>7 DEF SlideFinished, u
  <2>2. ReadySlides(u)
    BY <1>5, <2>1
  <2>3. slides[x] \in SlideJob /\ colour \in BOOLEAN
    BY <1>1 DEF SlideView
  <2>4. SlideDone(u, x) = CASE x # "curr" -> done
                            [] x = "curr" /\ u.v.animation.on -> [done EXCEPT !.v.animation.dest = dest]
                            [] OTHER -> TransitionStart(done)
    BY DEF SlideDone
  <2>5. dest \in SlideOrNone
    BY <1>1, <2>3 DEF SlideJob
  <2> HIDE DEF dest
  <2>6. first = [v |-> u.v, s |-> [u.s EXCEPT ![x] = half], m |-> u.m]
    BY <1>1
  <2>7. done = [first EXCEPT !.s[x].inverted = colour]
    OBVIOUS
  <2> HIDE DEF first, done, colour
  <2>8. half \in SlideJob /\ half.page = slides[x].page /\ half.rotation = slides[x].rotation
        /\ half.at = "finished"
    BY <2>3 DEF SlideJob
  <2> HIDE DEF half
  <2>9. /\ job \in SlideJob /\ job.page = slides[x].page /\ job.rotation = slides[x].rotation
        /\ job.at = "finished" /\ job.inverted = colour
    BY <2>3, <2>8 DEF SlideJob
  <2>10. done = [v |-> u.v, s |-> [u.s EXCEPT ![x] = job], m |-> u.m]
    <3> DEFINE s == [u.s EXCEPT ![x] = half]
    <3>1. s \in [SlidePlace -> SlideJob] /\ s[x] = half
      BY <1>1, <2>8
    <3>2. [s EXCEPT ![x] = job] = [u.s EXCEPT ![x] = job]
      <4> HIDE DEF job
      <4> QED
        BY <1>1
    <3>3. first = [v |-> u.v, s |-> s, m |-> u.m]
      BY <2>6
    <3> HIDE DEF s
    <3>4. done = [v |-> u.v, s |-> [s EXCEPT ![x] = job], m |-> u.m]
      BY <2>7, <3>1, <3>3
    <3> HIDE DEF job
    <3> QED
      BY <3>2, <3>4
  <2> HIDE DEF job
  <2>11. ReadySlides(done)
    BY <1>1, <2>1, <2>2, <2>9, <2>10, JobMoved DEF colour
  <2>12. ReadySlides([done EXCEPT !.v.animation.dest = dest])
    <3> DEFINE v == [done.v EXCEPT !.animation.dest = dest]
    <3>1. done \in SlideWorld /\ done.v \in SlideView /\ done.m \in SlideDeck /\ done.v.up = "ready"
      BY <2>11 DEF ReadySlides, SlidesGood, SlideWorld
    <3>2. [done EXCEPT !.v.animation.dest = dest] = [v |-> v, s |-> done.s, m |-> done.m]
      BY <3>1 DEF SlideWorld
    <3>3. /\ v \in SlideView /\ v.up = "ready" /\ v.page = done.v.page
          /\ v.rotation = done.v.rotation /\ v.inverted = done.v.inverted
      BY <2>5, <3>1 DEF SlideView
    <3> HIDE DEF v
    <3>4. \A w : w = [v |-> v, s |-> done.s, m |-> done.m] => ReadySlides(w)
      BY <2>11, <3>1, <3>3, ViewChanged
    <3> QED
      BY <3>2, <3>4
  <2>13. ReadySlides(TransitionStart(done))
    BY <2>11, TransitionStarted
  <2>14. ReadySlides(SlideDone(u, x))
    BY <2>4, <2>11, <2>12, <2>13
  <2> QED
    BY <1>4, <2>1, <2>14
<1>8. CASE AnimationFinish
  <2> DEFINE w == [u EXCEPT !.v.animation = NoAnimation]
             v == [pview EXCEPT !.animation = NoAnimation]
  <2>1. pview.animation.origin # NoSlidePage /\ SlideshowIs(TransitionStart(w))
    BY <1>8 DEF AnimationFinish, u
  <2>2. pview.animation # NoAnimation
    BY <2>1 DEF NoAnimation
  <2>3. ReadySlides(u)
    BY <1>1, <1>2, <1>3, <2>2
  <2>4. NoAnimation \in [on : BOOLEAN, origin : SlideOrNone, dest : SlideOrNone]
    BY DEF NoAnimation, SlideOrNone
  <2>5. /\ v \in SlideView /\ v.up = pview.up /\ v.page = pview.page
        /\ v.rotation = pview.rotation /\ v.inverted = pview.inverted
    BY <1>1, <2>4 DEF SlideView
  <2>6. w = [v |-> v, s |-> u.s, m |-> u.m]
    BY <1>1
  <2> HIDE DEF v, w
  <2>7. ReadySlides(w)
    BY <1>1, <2>3, <2>5, <2>6, ViewChanged DEF ReadySlides
  <2>8. ReadySlides(TransitionStart(w))
    BY <2>7, TransitionStarted
  <2> QED
    BY <1>4, <2>1, <2>8
<1>9. CASE TimerNextPage
  <2> DEFINE no == FALSE
             w == [u EXCEPT !.v.timer = no]
             v == [pview EXCEPT !.timer = no]
  <2>1. pview.timer /\ SlideshowIs(NextSlide(w))
    BY <1>9 DEF TimerNextPage, u
  <2>2. ReadySlides(u) /\ no \in BOOLEAN
    BY <1>1, <1>2, <1>3, <2>1
  <2> HIDE DEF no
  <2>3. /\ v \in SlideView /\ v.up = pview.up /\ v.page = pview.page
        /\ v.rotation = pview.rotation /\ v.inverted = pview.inverted
    BY <1>1, <2>2 DEF SlideView
  <2>4. w = [v |-> v, s |-> u.s, m |-> u.m]
    BY <1>1
  <2> HIDE DEF v, w
  <2>5. ReadySlides(w)
    BY <1>1, <2>2, <2>3, <2>4, ViewChanged DEF ReadySlides
  <2>6. ReadySlides(NextSlide(w))
    BY <2>5, NextSlideGood
  <2> QED
    BY <1>4, <2>1, <2>6
<1>10. CASE HideCursor
  <2> DEFINE no == FALSE
             w == [u EXCEPT !.v.hide = no]
             v == [pview EXCEPT !.hide = no]
  <2>1. pview.hide /\ SlideshowIs(w)
    BY <1>10 DEF HideCursor, u
  <2>2. ReadySlides(u) /\ no \in BOOLEAN
    BY <1>1, <1>2, <1>3, <2>1
  <2> HIDE DEF no
  <2>3. /\ v \in SlideView /\ v.up = pview.up /\ v.page = pview.page
        /\ v.rotation = pview.rotation /\ v.inverted = pview.inverted
    BY <1>1, <2>2 DEF SlideView
  <2>4. w = [v |-> v, s |-> u.s, m |-> u.m]
    BY <1>1
  <2> HIDE DEF v, w
  <2>5. ReadySlides(w)
    BY <1>1, <2>2, <2>3, <2>4, ViewChanged DEF ReadySlides
  <2> QED
    BY <1>4, <2>1, <2>5
<1>11. CASE DrawSlide
  <2> DEFINE current == slides["curr"].page
             w == [u EXCEPT !.v.current = current]
             v == [pview EXCEPT !.current = current]
  <2>1. pview.up = "ready" /\ SlideshowIs(w)
    BY <1>11 DEF DrawSlide, u
  <2>2. ReadySlides(u)
    BY <1>1, <1>2, <2>1
  <2>3. current \in SlideOrNone
    BY <1>1 DEF SlidePlace, SlideJob
  <2> HIDE DEF current
  <2>4. /\ v \in SlideView /\ v.up = pview.up /\ v.page = pview.page
        /\ v.rotation = pview.rotation /\ v.inverted = pview.inverted
    BY <1>1, <2>3 DEF SlideView
  <2>5. w = [v |-> v, s |-> u.s, m |-> u.m]
    BY <1>1
  <2> HIDE DEF v, w
  <2>6. ReadySlides(w)
    BY <1>1, <2>1, <2>2, <2>4, <2>5, ViewChanged DEF ReadySlides
  <2> QED
    BY <1>4, <2>1, <2>6
<1> QED
  BY <1>1, <1>6, <1>7, <1>8, <1>9, <1>10, <1>11

LEMMA SlideStep == SlidesGood(Slideshow) /\ [SlideNext]_slideVars => SlidesGood(Slideshow)'
<1> SUFFICES ASSUME SlidesGood(Slideshow), [SlideNext]_slideVars PROVE SlidesGood(Slideshow)'
  OBVIOUS
<1>1. CASE UNCHANGED slideVars
  <2>1. Slideshow' = Slideshow
    BY <1>1 DEF slideVars, Slideshow
  <2> QED
    BY <2>1 DEF SlidesGood, AtRestSlides, JobsAround, JobFor
<1> QED
  BY <1>1, SlidesByUser, SlidesByWindow, SlidesByWork DEF SlideNext

\* What the invariant says of what is shown.
LEMMA SlidesShow ==
  ASSUME SlidesGood(Slideshow)
  PROVE  SlideTypeOK /\ SlidesAroundPage /\ SlideColours
<1>1. /\ pview \in SlideView /\ slides \in [SlidePlace -> SlideJob] /\ deck \in SlideDeck
      /\ DOMAIN slides = SlidePlace
      /\ pview.up = "ready" => JobsAround(slides, pview.page, pview)
      /\ pview.up # "ready" =>
           slides = NoSlides /\ ~pview.timer /\ ~pview.hide /\ pview.animation = NoAnimation
      /\ pview.up = "absent" => ~deck.inhibited
  BY DEF SlidesGood, SlideWorld, Slideshow, AtRestSlides
<1>2. SlideTypeOK
  <2>1. \A x \in SlidePlace : slides[x] \in SlideJob
    BY <1>1
  <2>2. /\ pview.up \in {"absent", "realized", "ready"} /\ pview.page \in SlidePage
        /\ pview.state \in {"normal", "black", "white", "end"}
        /\ pview.animation \in [on : BOOLEAN, origin : SlideOrNone, dest : SlideOrNone]
    BY <1>1 DEF SlideView
  <2>3. deck.page \in SlidePage /\ deck.inhibited \in BOOLEAN
    BY <1>1 DEF SlideDeck
  <2>4. \A x \in SlidePlace : slides[x].page \in SlideOrNone
                              /\ slides[x].at \in {"none", "waiting", "rendered", "finished"}
    BY <2>1 DEF SlideJob
  <2>5. pview.animation.origin \in SlideOrNone /\ pview.animation.dest \in SlideOrNone
    BY <2>2
  <2> QED
    BY <1>1, <2>2, <2>3, <2>4, <2>5 DEF SlideTypeOK, SlideOrNone
<1>3. \A x \in SlidePlace : NoSlides[x] = NoSlide
  BY DEF NoSlides, SlidePlace
<1>4. pview.page \in Nat /\ pview.page < SlidePages
  BY <1>1, SlideAssumption DEF SlideView, SlidePage
<1>5. NoSlide.page = NoSlidePage /\ NoSlide.at = "none"
  BY DEF NoSlide
<1>6. ASSUME pview.up = "ready"
      PROVE  /\ slides["curr"].page = pview.page
             /\ slides["prev"].page = IF pview.page = 0 THEN NoSlidePage ELSE pview.page - 1
             /\ slides["next"].page = IF pview.page + 1 = SlidePages THEN NoSlidePage
                                      ELSE pview.page + 1
             /\ \A x \in SlidePlace : slides[x] # NoSlide =>
                  /\ slides[x].rotation = pview.rotation
                  /\ slides[x].at = "waiting" => (slides[x].prio = SlideUrgent <=> x = "curr")
  <2> DEFINE p == pview.page
  <2>1. /\ JobFor(slides["prev"], p - 1, pview, "prev") /\ JobFor(slides["curr"], p, pview, "curr")
        /\ JobFor(slides["next"], p + 1, pview, "next")
    BY <1>1, <1>6 DEF JobsAround
  <2>2. p \in Nat /\ p < SlidePages
    BY <1>4
  <2> HIDE DEF p
  <2>3. /\ p \in SlidePage /\ (p - 1 \in SlidePage <=> p # 0)
        /\ (p + 1 \in SlidePage <=> p + 1 # SlidePages)
    BY <2>2, SlideAssumption DEF SlidePage
  <2>4. slides["curr"].page = p
    BY <2>1, <2>3 DEF JobFor
  <2>5. slides["prev"].page = IF p = 0 THEN NoSlidePage ELSE p - 1
    BY <1>5, <2>1, <2>3 DEF JobFor
  <2>6. slides["next"].page = IF p + 1 = SlidePages THEN NoSlidePage ELSE p + 1
    BY <1>5, <2>1, <2>3 DEF JobFor
  <2>7. ASSUME NEW x \in SlidePlace, slides[x] # NoSlide
        PROVE  /\ slides[x].rotation = pview.rotation
               /\ slides[x].at = "waiting" => (slides[x].prio = SlideUrgent <=> x = "curr")
    BY <2>1, <2>7 DEF JobFor, SlidePlace
  <2> QED
    BY <2>4, <2>5, <2>6, <2>7 DEF p
<1>7. pview.up = "absent" =>
        slides = NoSlides /\ ~pview.timer /\ ~pview.hide /\ ~pview.animation.on /\ ~deck.inhibited
  BY <1>1 DEF NoAnimation
<1>8. SlidesAroundPage
  BY <1>1, <1>6, <1>7 DEF SlidesAroundPage
<1>9. ASSUME NEW x \in SlidePlace, slides[x].at = "finished"
      PROVE  slides[x].inverted = pview.inverted
  <2>1. pview.up = "ready"
    BY <1>1, <1>3, <1>5, <1>9
  <2>2. slides[x] # NoSlide
    BY <1>5, <1>9
  <2> QED
    BY <1>1, <1>9, <2>1, <2>2 DEF JobsAround, JobFor, SlidePlace
<1>10. SlideColours
  BY <1>1, <1>9 DEF SlideColours
<1> QED
  BY <1>2, <1>8, <1>10

\* For a document of any number of pages, with any effects and durations: after any jumps
\* the three jobs of a presentation are those of the page shown and its neighbours, in the
\* rotation of the view and the page shown first, what is finished has the colours that the
\* user chose, and nothing is left of a presentation that is over.
THEOREM SlidesAlwaysRight == SlideSpec => [](SlideTypeOK /\ SlidesAroundPage /\ SlideColours)
<1>1. SlidesGood(Slideshow) => SlideTypeOK /\ SlidesAroundPage /\ SlideColours
  BY SlidesShow
<1> QED
  BY <1>1, SlidesBegin, SlideStep, PTL DEF SlideSpec

-----------------------------------------------------------------------------
(* The lists of the sidebar.  Each list has a part of the invariant, about *)
(* the jobs that it waits for and its rows.                                *)

SideRows == Seq([of : SideVersion, what : SUBSET (Nat \union Layers)])
SideJob == [list : Lists, of : SideVersion, heard : BOOLEAN, ran : BOOLEAN, rows : SideRows]
SideList == [of : 0 .. SideVersions, rows : SideRows, row : {-1} \union SidePage, missed : BOOLEAN]
SideModel ==
  [doc : 0 .. SideVersions, page : SidePage, full : [SideVersion -> BOOLEAN],
   annots : [SideVersion -> Nat], seen : [SideVersion -> SUBSET Layers],
   adding : BOOLEAN, calls : Nat]
SidePanel == [page : SidebarPages, visible : BOOLEAN, sensitive : SUBSET SidebarPages]

Tree(v, what) == <<[of |-> v, what |-> what]>>
Waits(jobs, s) == \E i \in DOMAIN jobs : jobs[i].list = s /\ jobs[i].heard

\* The outline and the attachments take only documents that have them.  The job that
\* the outline hears is for the document it has.
LinksPart(m, l, jobs) ==
  /\ l.of # 0 => m.full[l.of]
  /\ \A i \in DOMAIN jobs : jobs[i].list = "links" =>
       /\ m.full[jobs[i].of]
       /\ jobs[i].heard => jobs[i].of = l.of
       /\ jobs[i].ran => jobs[i].rows = Tree(jobs[i].of, SideTargets)
  /\ (l.of # 0 /\ ~Waits(jobs, "links")) => l.rows = Tree(l.of, SideTargets)
\* Every job for the attachments is heard; the last one is for the document of now.
FilesPart(m, l, jobs) ==
  /\ l.of # 0 => m.full[l.of]
  /\ \A i \in DOMAIN jobs : jobs[i].list = "files" =>
       /\ m.full[jobs[i].of] /\ jobs[i].heard
       /\ jobs[i].ran => jobs[i].rows = Tree(jobs[i].of, SideTargets)
       /\ (\A k \in DOMAIN jobs : k > i => jobs[k].list # "files") => jobs[i].of = l.of
  /\ (l.of # 0 /\ ~Waits(jobs, "files")) =>
       l.rows # <<>> /\ l.rows[Len(l.rows)] = [of |-> l.of, what |-> SideTargets]
\* A job that is heard has run after the last annotation was added.
AnnotsPart(m, l, jobs) ==
  /\ \A i \in DOMAIN jobs : (jobs[i].list = "annots" /\ jobs[i].heard) =>
       /\ jobs[i].of = l.of
       /\ jobs[i].ran => jobs[i].rows = Tree(jobs[i].of, 1 .. m.annots[jobs[i].of])
  /\ (l.of # 0 /\ ~Waits(jobs, "annots")) => l.rows = Tree(l.of, 1 .. m.annots[l.of])
\* The layers of a document, those seen now unless a change was missed
LayerTree(m, v, rows, missed) ==
  IF m.full[v] THEN \E what \in SUBSET Layers : rows = Tree(v, what) /\ (missed \/ what = m.seen[v])
  ELSE rows = <<>>
\* One job at most is heard, and the list is empty until it ends.
LayersPart(m, l, jobs) ==
  /\ \A i \in DOMAIN jobs : (jobs[i].list = "layers" /\ jobs[i].heard) =>
       /\ jobs[i].of = l.of /\ l.rows = <<>>
       /\ jobs[i].ran => LayerTree(m, jobs[i].of, jobs[i].rows, l.missed)
       /\ \A k \in DOMAIN jobs : (jobs[k].list = "layers" /\ jobs[k].heard) => k = i
  /\ l.of = 0 => l.rows = <<>>
  /\ (l.of # 0 /\ ~Waits(jobs, "layers")) => LayerTree(m, l.of, l.rows, l.missed)

SideTyped(m, f, lists, jobs) ==
  /\ m \in SideModel /\ f \in SidePanel /\ lists \in [Lists -> SideList] /\ jobs \in Seq(SideJob)
SideParts(m, lists, jobs) ==
  /\ LinksPart(m, lists["links"], jobs) /\ FilesPart(m, lists["files"], jobs)
  /\ AnnotsPart(m, lists["annots"], jobs) /\ LayersPart(m, lists["layers"], jobs)
\* The lists have the document of the window if they take it at all.
SideAgrees(m, lists) ==
  /\ lists["annots"].of = m.doc /\ lists["layers"].of = m.doc
  /\ \A s \in {"links", "files"} :
       lists[s].of \in 0 .. m.doc /\ ((m.doc # 0 /\ m.full[m.doc]) => lists[s].of = m.doc)
  /\ m.adding => m.doc # 0
EntryShown(m, f, lists) ==
  (f.visible /\ f.page = "links" /\ lists["links"].rows # <<>> /\ m.page \in SideTargets)
    => lists["links"].row = m.page
SideGood(m, f, lists, jobs) ==
  /\ SideTyped(m, f, lists, jobs) /\ SideParts(m, lists, jobs) /\ SideAgrees(m, lists)
  /\ EntryShown(m, f, lists)

\* The parts do not depend on the page, the frame or the entry that is selected.
LEMMA PartsSame ==
  ASSUME NEW m, NEW n, n.full = m.full, n.annots = m.annots, n.seen = m.seen,
         NEW lists, NEW new, NEW jobs,
         \A s \in Lists : /\ new[s].of = lists[s].of /\ new[s].rows = lists[s].rows
                          /\ new[s].missed = lists[s].missed,
         SideParts(m, lists, jobs)
  PROVE  SideParts(n, new, jobs)
<1>1. LinksPart(n, new["links"], jobs)
  BY DEF SideParts, LinksPart, Lists
<1>2. FilesPart(n, new["files"], jobs)
  BY DEF SideParts, FilesPart, Lists
<1>3. AnnotsPart(n, new["annots"], jobs)
  BY DEF SideParts, AnnotsPart, Lists
<1>4. LayersPart(n, new["layers"], jobs)
  BY DEF SideParts, LayersPart, LayerTree, Lists
<1> QED
  BY <1>1, <1>2, <1>3, <1>4 DEF SideParts

\* What a push leaves of the jobs before: those of the same list are not heard any more.
SidePushed(jobs, s, v, new) ==
  /\ new \in Seq(SideJob) /\ Len(new) = Len(jobs) + 1
  /\ new[Len(new)].list = s /\ new[Len(new)].of = v /\ new[Len(new)].heard /\ ~new[Len(new)].ran
  /\ \A i \in DOMAIN jobs :
       /\ i \in DOMAIN new /\ new[i].list = jobs[i].list /\ new[i].of = jobs[i].of
       /\ new[i].ran = jobs[i].ran /\ new[i].rows = jobs[i].rows
       /\ new[i].heard <=> (jobs[i].heard /\ (s = "files" \/ jobs[i].list # s))
  /\ \A i \in DOMAIN new : i \in DOMAIN jobs \/ i = Len(new)
LEMMA JobPushed ==
  ASSUME NEW jobs \in Seq(SideJob), NEW s \in Lists, NEW v \in SideVersion
  PROVE  SidePushed(jobs, s, v, PushFor(jobs, s, v))
<1> DEFINE job == [list |-> s, of |-> v, heard |-> TRUE, ran |-> FALSE, rows |-> <<>>]
           old == [i \in DOMAIN jobs |->
                     IF s # "files" /\ jobs[i].list = s THEN [jobs[i] EXCEPT !.heard = FALSE]
                     ELSE jobs[i]]
           new == Append(old, job)
<1>1. PushFor(jobs, s, v) = new
  BY DEF PushFor
<1>2. /\ job \in SideJob /\ job.list = s /\ job.of = v
  BY DEF SideJob, SideRows
<1>3. job.heard /\ ~job.ran
  OBVIOUS
<1>4. \A i \in DOMAIN jobs :
        /\ old[i] \in SideJob /\ old[i].list = jobs[i].list /\ old[i].of = jobs[i].of
        /\ old[i].rows = jobs[i].rows
  <2> SUFFICES ASSUME NEW i \in DOMAIN jobs
               PROVE  /\ old[i] \in SideJob /\ old[i].list = jobs[i].list /\ old[i].of = jobs[i].of
                      /\ old[i].rows = jobs[i].rows
    OBVIOUS
  <2>1. jobs[i] \in SideJob
    OBVIOUS
  <2> DEFINE j == jobs[i]
             no == FALSE
  <2>2. old[i] = IF s # "files" /\ j.list = s THEN [j EXCEPT !.heard = no] ELSE j
    OBVIOUS
  <2>3. no \in BOOLEAN
    OBVIOUS
  <2> HIDE DEF j, no, old
  <2> QED
    BY <2>1, <2>2, <2>3 DEF SideJob, j
<1>5. \A i \in DOMAIN jobs :
        /\ old[i].ran = jobs[i].ran
        /\ old[i].heard <=> (jobs[i].heard /\ (s = "files" \/ jobs[i].list # s))
  <2> SUFFICES ASSUME NEW i \in DOMAIN jobs
               PROVE  /\ old[i].ran = jobs[i].ran
                      /\ old[i].heard <=> (jobs[i].heard /\ (s = "files" \/ jobs[i].list # s))
    OBVIOUS
  <2>1. jobs[i] \in SideJob
    OBVIOUS
  <2> DEFINE j == jobs[i]
  <2>2. old[i] = IF s # "files" /\ j.list = s THEN [j EXCEPT !.heard = FALSE] ELSE j
    OBVIOUS
  <2> HIDE DEF j, old
  <2> QED
    BY <2>1, <2>2 DEF SideJob, j
<1>6. DOMAIN old = 1 .. Len(jobs) /\ Len(jobs) \in Nat /\ DOMAIN jobs = 1 .. Len(jobs)
      /\ old = [i \in 1 .. Len(jobs) |-> old[i]]
  OBVIOUS
<1> HIDE DEF job, old
<1>7. old \in Seq(SideJob) /\ Len(old) = Len(jobs)
  <2>1. old \in [1 .. Len(jobs) -> SideJob]
    BY <1>4, <1>6
  <2>2. old \in Seq(SideJob)
    BY <1>6, <2>1, SeqDef
  <2>3. Len(old) \in Nat /\ DOMAIN old = 1 .. Len(old)
    BY <2>2
  <2> QED
    BY <1>6, <2>2, <2>3
<1>8. /\ new \in Seq(SideJob) /\ Len(new) = Len(jobs) + 1 /\ new[Len(new)] = job
      /\ DOMAIN new = 1 .. (Len(jobs) + 1)
      /\ \A i \in DOMAIN jobs : new[i] = old[i]
  BY <1>2, <1>6, <1>7
<1> HIDE DEF new
<1>9. \A i \in DOMAIN new : i \in DOMAIN jobs \/ i = Len(new)
  BY <1>6, <1>8
<1>10. \A i \in DOMAIN jobs : i \in DOMAIN new
  BY <1>6, <1>8
<1> QED
  BY <1>1, <1>2, <1>3, <1>4, <1>5, <1>8, <1>9, <1>10 DEF SidePushed

\* A push for another list leaves the part of a list alone; one for the list itself,
\* with the document and the rows that the list then has, makes it good.
LEMMA LinksKept ==
  ASSUME NEW jobs \in Seq(SideJob), NEW s, s # "links", NEW v, NEW new,
         SidePushed(jobs, s, v, new), NEW m, NEW l, LinksPart(m, l, jobs)
  PROVE  LinksPart(m, l, new)
<1>1. Waits(jobs, "links") => Waits(new, "links")
  BY DEF SidePushed, Waits
<1> QED
  BY <1>1 DEF LinksPart, SidePushed
LEMMA LinksPushed ==
  ASSUME NEW jobs \in Seq(SideJob), NEW v, NEW new, SidePushed(jobs, "links", v, new),
         NEW m, NEW l, LinksPart(m, l, jobs), NEW k, k.of = v, m.full[v]
  PROVE  LinksPart(m, k, new)
<1>1. Waits(new, "links")
  BY DEF SidePushed, Waits
<1> QED
  BY <1>1 DEF LinksPart, SidePushed
LEMMA FilesKept ==
  ASSUME NEW jobs \in Seq(SideJob), NEW s, s # "files", NEW v, NEW new,
         SidePushed(jobs, s, v, new), NEW m, NEW l, FilesPart(m, l, jobs)
  PROVE  FilesPart(m, l, new)
<1>1. Waits(jobs, "files") => Waits(new, "files")
  BY DEF SidePushed, Waits
<1>2. ASSUME NEW i \in DOMAIN new, new[i].list = "files"
      PROVE  /\ i \in DOMAIN jobs /\ m.full[new[i].of] /\ new[i].heard
             /\ new[i].ran => new[i].rows = Tree(new[i].of, SideTargets)
  BY <1>2 DEF FilesPart, SidePushed
<1>3. ASSUME NEW i \in DOMAIN new, new[i].list = "files",
             \A j \in DOMAIN new : j > i => new[j].list # "files"
      PROVE  new[i].of = l.of
  <2>1. i \in DOMAIN jobs /\ jobs[i].list = "files" /\ new[i].of = jobs[i].of
    BY <1>2, <1>3 DEF SidePushed
  <2>2. \A j \in DOMAIN jobs : j > i => jobs[j].list # "files"
    BY <1>3 DEF SidePushed
  <2> QED
    BY <2>1, <2>2 DEF FilesPart
<1>4. /\ l.of # 0 => m.full[l.of]
      /\ (l.of # 0 /\ ~Waits(new, "files")) =>
           l.rows # <<>> /\ l.rows[Len(l.rows)] = [of |-> l.of, what |-> SideTargets]
  BY <1>1 DEF FilesPart
<1> QED
  BY <1>2, <1>3, <1>4 DEF FilesPart
LEMMA FilesPushed ==
  ASSUME NEW jobs \in Seq(SideJob), NEW v, NEW new, SidePushed(jobs, "files", v, new),
         NEW m, NEW l, FilesPart(m, l, jobs), NEW k, k.of = v, m.full[v]
  PROVE  FilesPart(m, k, new)
<1>1. /\ \A i \in DOMAIN jobs : i < Len(new)
      /\ Len(new) \in DOMAIN new /\ DOMAIN jobs \subseteq DOMAIN new
  BY DEF SidePushed
<1>2. Waits(new, "files")
  BY <1>1 DEF SidePushed, Waits
<1> QED
  BY <1>1, <1>2 DEF FilesPart, SidePushed
LEMMA AnnotsKept ==
  ASSUME NEW jobs \in Seq(SideJob), NEW s, s # "annots", NEW v, NEW new,
         SidePushed(jobs, s, v, new), NEW m, NEW l, AnnotsPart(m, l, jobs)
  PROVE  AnnotsPart(m, l, new)
<1>1. Waits(jobs, "annots") => Waits(new, "annots")
  BY DEF SidePushed, Waits
<1> QED
  BY <1>1 DEF AnnotsPart, SidePushed
LEMMA AnnotsPushed ==
  ASSUME NEW jobs \in Seq(SideJob), NEW v, NEW new, SidePushed(jobs, "annots", v, new),
         NEW m, NEW k, k.of = v
  PROVE  AnnotsPart(m, k, new)
<1>1. Waits(new, "annots")
  BY DEF SidePushed, Waits
<1> QED
  BY <1>1 DEF AnnotsPart, SidePushed
LEMMA LayersKept ==
  ASSUME NEW jobs \in Seq(SideJob), NEW s, s # "layers", NEW v, NEW new,
         SidePushed(jobs, s, v, new), NEW m, NEW l, LayersPart(m, l, jobs)
  PROVE  LayersPart(m, l, new)
<1>1. Waits(jobs, "layers") => Waits(new, "layers")
  BY DEF SidePushed, Waits
<1> QED
  BY <1>1 DEF LayersPart, SidePushed
LEMMA LayersPushed ==
  ASSUME NEW jobs \in Seq(SideJob), NEW v \in SideVersion, NEW new,
         SidePushed(jobs, "layers", v, new),
         NEW m, NEW l, LayersPart(m, l, jobs), NEW k, k.of = v, k.rows = <<>>
  PROVE  LayersPart(m, k, new)
<1>1. Waits(new, "layers") /\ v # 0
  BY DEF SidePushed, Waits, SideVersion
<1> QED
  BY <1>1 DEF LayersPart, SidePushed

\* The first job leaves the queue.
SidePopped(jobs, new) ==
  /\ new \in Seq(SideJob) /\ 1 \in DOMAIN jobs
  /\ \A i \in DOMAIN new : i + 1 \in DOMAIN jobs /\ new[i] = jobs[i + 1]
  /\ \A i \in DOMAIN jobs : i # 1 => i - 1 \in DOMAIN new /\ new[i - 1] = jobs[i]
LEMMA JobPopped ==
  ASSUME NEW jobs \in Seq(SideJob), jobs # <<>>
  PROVE  SidePopped(jobs, Tail(jobs)) /\ Head(jobs) = jobs[1] /\ jobs[1] \in SideJob
<1> DEFINE new == Tail(jobs)
<1>1. Len(jobs) \in Nat /\ Len(jobs) > 0 /\ DOMAIN jobs = 1 .. Len(jobs)
  OBVIOUS
<1>2. new \in Seq(SideJob) /\ Len(new) = Len(jobs) - 1 /\ Head(jobs) = jobs[1]
      /\ \A i \in 1 .. Len(new) : new[i] = jobs[i + 1]
  BY <1>1
<1>3. DOMAIN new = 1 .. Len(new)
  BY <1>2
<1> HIDE DEF new
<1> QED
  BY <1>1, <1>2, <1>3 DEF SidePopped

\* A list that the job was for has its rows, if it hears it; the others stay as they are.
LEMMA LinksPopped ==
  ASSUME NEW jobs \in Seq(SideJob), NEW new, SidePopped(jobs, new), jobs[1].ran,
         NEW m, NEW l, LinksPart(m, l, jobs), NEW k, k.of = l.of,
         k.rows = IF jobs[1].list = "links" /\ jobs[1].heard THEN jobs[1].rows ELSE l.rows
  PROVE  LinksPart(m, k, new)
<1>1. \A i \in DOMAIN new : i + 1 \in DOMAIN jobs /\ new[i] = jobs[i + 1]
  BY DEF SidePopped
<1>2. ASSUME Waits(jobs, "links"), ~(jobs[1].list = "links" /\ jobs[1].heard)
      PROVE  Waits(new, "links")
  BY <1>2 DEF Waits, SidePopped
<1>3. ASSUME k.of # 0, ~Waits(new, "links")
      PROVE  k.rows = Tree(k.of, SideTargets)
  BY <1>2, <1>3 DEF LinksPart, SidePopped
<1>4. \A i \in DOMAIN new : new[i].list = "links" =>
        /\ m.full[new[i].of] /\ (new[i].heard => new[i].of = k.of)
        /\ new[i].ran => new[i].rows = Tree(new[i].of, SideTargets)
  BY <1>1 DEF LinksPart
<1>5. k.of # 0 => m.full[k.of]
  BY DEF LinksPart
<1> QED
  BY <1>3, <1>4, <1>5 DEF LinksPart
LEMMA AnnotsPopped ==
  ASSUME NEW jobs \in Seq(SideJob), NEW new, SidePopped(jobs, new), jobs[1].ran,
         NEW m, NEW l, AnnotsPart(m, l, jobs), NEW k, k.of = l.of,
         k.rows = IF jobs[1].list = "annots" /\ jobs[1].heard THEN jobs[1].rows ELSE l.rows
  PROVE  AnnotsPart(m, k, new)
<1>1. \A i \in DOMAIN new : i + 1 \in DOMAIN jobs /\ new[i] = jobs[i + 1]
  BY DEF SidePopped
<1>2. ASSUME Waits(jobs, "annots"), ~(jobs[1].list = "annots" /\ jobs[1].heard)
      PROVE  Waits(new, "annots")
  BY <1>2 DEF Waits, SidePopped
<1>3. ASSUME k.of # 0, ~Waits(new, "annots")
      PROVE  k.rows = Tree(k.of, 1 .. m.annots[k.of])
  BY <1>2, <1>3 DEF AnnotsPart, SidePopped
<1>4. \A i \in DOMAIN new : (new[i].list = "annots" /\ new[i].heard) =>
        /\ new[i].of = k.of
        /\ new[i].ran => new[i].rows = Tree(new[i].of, 1 .. m.annots[new[i].of])
  BY <1>1 DEF AnnotsPart
<1> QED
  BY <1>3, <1>4 DEF AnnotsPart
LEMMA LayersPopped ==
  ASSUME NEW jobs \in Seq(SideJob), NEW new, SidePopped(jobs, new), jobs[1].ran,
         \A i \in DOMAIN jobs : jobs[i].of # 0,
         NEW m, NEW l, LayersPart(m, l, jobs), NEW k, k.of = l.of, k.missed = l.missed,
         k.rows = IF jobs[1].list = "layers" /\ jobs[1].heard THEN jobs[1].rows ELSE l.rows
  PROVE  LayersPart(m, k, new)
<1>1. \A i \in DOMAIN new : i + 1 \in DOMAIN jobs /\ new[i] = jobs[i + 1]
  BY DEF SidePopped
<1>2. ASSUME Waits(jobs, "layers"), ~(jobs[1].list = "layers" /\ jobs[1].heard)
      PROVE  Waits(new, "layers")
  BY <1>2 DEF Waits, SidePopped
<1>3. ASSUME k.of # 0, ~Waits(new, "layers")
      PROVE  LayerTree(m, k.of, k.rows, k.missed)
  BY <1>2, <1>3 DEF LayersPart, SidePopped
<1>4. k.of = 0 => k.rows = <<>>
  BY DEF LayersPart, SidePopped
<1>5. ASSUME NEW i \in DOMAIN new, new[i].list = "layers", new[i].heard
      PROVE  /\ new[i].of = k.of /\ k.rows = <<>>
             /\ new[i].ran => LayerTree(m, new[i].of, new[i].rows, k.missed)
             /\ \A j \in DOMAIN new : (new[j].list = "layers" /\ new[j].heard) => j = i
  <2>1. i + 1 \in DOMAIN jobs /\ new[i] = jobs[i + 1] /\ i + 1 # 1
    BY <1>1 DEF SidePopped
  <2>2. ~(jobs[1].list = "layers" /\ jobs[1].heard)
    BY <1>5, <2>1 DEF LayersPart, SidePopped
  <2>3. \A j \in DOMAIN new : (new[j].list = "layers" /\ new[j].heard) => j + 1 = i + 1
    BY <1>1, <1>5, <2>1 DEF LayersPart
  <2>4. \A j \in DOMAIN new : j + 1 = i + 1 => j = i
    BY DEF SidePopped
  <2> QED
    BY <1>5, <2>1, <2>2, <2>3, <2>4 DEF LayersPart
<1> QED
  BY <1>3, <1>4, <1>5 DEF LayersPart
LEMMA FilesPopped ==
  ASSUME NEW jobs \in Seq(SideJob), NEW new, SidePopped(jobs, new), jobs[1].ran,
         NEW m, NEW l, l.rows \in SideRows, FilesPart(m, l, jobs), NEW k, k.of = l.of,
         k.rows = IF jobs[1].list = "files" THEN l.rows \o jobs[1].rows ELSE l.rows
  PROVE  FilesPart(m, k, new)
<1>1. \A i \in DOMAIN new : i \in Nat /\ i + 1 \in DOMAIN jobs /\ new[i] = jobs[i + 1]
  BY DEF SidePopped
<1>2. ASSUME Waits(jobs, "files"), jobs[1].list # "files"
      PROVE  Waits(new, "files")
  BY <1>2 DEF Waits, SidePopped
<1>3. ASSUME k.of # 0, ~Waits(new, "files")
      PROVE  k.rows # <<>> /\ k.rows[Len(k.rows)] = [of |-> k.of, what |-> SideTargets]
  <2>1. CASE jobs[1].list # "files"
    BY <1>2, <1>3, <2>1 DEF FilesPart
  <2>2. CASE jobs[1].list = "files"
    <3>1. ASSUME NEW i \in DOMAIN jobs, i > 1
          PROVE  jobs[i].list # "files"
      <4>1. i - 1 \in DOMAIN new /\ new[i - 1] = jobs[i]
        BY <3>1 DEF SidePopped
      <4> QED
        BY <1>3, <4>1 DEF FilesPart, Waits
    <3>2. 1 \in DOMAIN jobs
      BY DEF SidePopped
    <3>3. jobs[1].of = l.of /\ jobs[1].rows = Tree(l.of, SideTargets)
      BY <2>2, <3>1, <3>2 DEF FilesPart
    <3> DEFINE row == [of |-> l.of, what |-> SideTargets]
               rows == l.rows
    <3>4. k.rows = rows \o <<row>>
      BY <2>2, <3>3 DEF Tree
    <3> HIDE DEF row
    <3>5. rows \in Seq([of : SideVersion, what : SUBSET (Nat \union Layers)])
      BY DEF SideRows
    <3> HIDE DEF rows
    <3>6. (rows \o <<row>>)[Len(rows \o <<row>>)] = row /\ rows \o <<row>> # <<>>
      BY <3>5
    <3> QED
      BY <3>4, <3>6 DEF row
  <2> QED
    BY <2>1, <2>2
<1>4. ASSUME NEW i \in DOMAIN new, new[i].list = "files"
      PROVE  /\ m.full[new[i].of] /\ new[i].heard
             /\ new[i].ran => new[i].rows = Tree(new[i].of, SideTargets)
  BY <1>1, <1>4 DEF FilesPart
<1>5. ASSUME NEW i \in DOMAIN new, new[i].list = "files",
             \A j \in DOMAIN new : j > i => new[j].list # "files"
      PROVE  new[i].of = k.of
  <2>1. i + 1 \in DOMAIN jobs /\ new[i] = jobs[i + 1] /\ i \in Nat
    BY <1>1
  <2>2. ASSUME NEW j \in DOMAIN jobs, j > i + 1
        PROVE  jobs[j].list # "files"
    <3>1. j \in Nat /\ j # 1 /\ j - 1 > i
      BY <2>1, <2>2
    <3>2. j - 1 \in DOMAIN new /\ new[j - 1] = jobs[j]
      BY <3>1 DEF SidePopped
    <3> QED
      BY <1>5, <3>1, <3>2
  <2> QED
    BY <1>5, <2>1, <2>2 DEF FilesPart
<1>6. k.of # 0 => m.full[k.of]
  BY DEF FilesPart
<1> QED
  BY <1>3, <1>4, <1>5, <1>6 DEF FilesPart

\* A job runs: nothing but that and its rows changes.
SideRan(jobs, i, rows, new) ==
  /\ new \in Seq(SideJob) /\ DOMAIN new = DOMAIN jobs /\ i \in DOMAIN jobs
  /\ new[i].ran /\ new[i].rows = rows
  /\ \A k \in DOMAIN jobs :
       /\ new[k].list = jobs[k].list /\ new[k].of = jobs[k].of /\ new[k].heard = jobs[k].heard
       /\ k # i => new[k] = jobs[k]
LEMMA JobRan ==
  ASSUME NEW jobs \in Seq(SideJob), NEW i \in DOMAIN jobs, NEW rows \in SideRows
  PROVE  SideRan(jobs, i, rows, [jobs EXCEPT ![i].ran = TRUE, ![i].rows = rows])
<1> DEFINE yes == TRUE
           first == [jobs EXCEPT ![i].ran = yes]
           new == [first EXCEPT ![i].rows = rows]
           half == [jobs[i] EXCEPT !.ran = yes]
           job == [half EXCEPT !.rows = rows]
<1>1. [jobs EXCEPT ![i].ran = TRUE, ![i].rows = rows] = new
  OBVIOUS
<1>2. jobs[i] \in SideJob /\ yes \in BOOLEAN /\ DOMAIN jobs = 1 .. Len(jobs) /\ Len(jobs) \in Nat
  OBVIOUS
<1>3. half \in SideJob /\ half.list = jobs[i].list /\ half.of = jobs[i].of
      /\ half.heard = jobs[i].heard /\ half.ran = yes
  <2> HIDE DEF yes
  <2> QED
    BY <1>2 DEF SideJob
<1>4. first = [jobs EXCEPT ![i] = half]
  OBVIOUS
<1>5. yes
  OBVIOUS
<1> HIDE DEF half, first, yes
<1>6. job \in SideJob /\ job.list = jobs[i].list /\ job.of = jobs[i].of
      /\ job.heard = jobs[i].heard /\ job.ran = yes /\ job.rows = rows
  BY <1>2, <1>3 DEF SideJob
<1>7. DOMAIN first = DOMAIN jobs /\ first[i] = half
      /\ \A k \in DOMAIN jobs : k # i => first[k] = jobs[k]
  BY <1>2, <1>4
<1>8. new = [first EXCEPT ![i] = job]
  BY <1>7
<1> HIDE DEF new, job
<1>9. /\ DOMAIN new = DOMAIN jobs /\ new[i] = job
      /\ \A k \in DOMAIN jobs : k # i => new[k] = jobs[k]
  BY <1>2, <1>7, <1>8
<1>10. new \in Seq(SideJob)
  <2>1. new = [k \in DOMAIN jobs |-> new[k]]
    BY <1>7, <1>8
  <2>2. \A k \in DOMAIN jobs : new[k] \in SideJob
    BY <1>6, <1>9
  <2>3. new \in [1 .. Len(jobs) -> SideJob]
    BY <1>2, <2>1, <2>2
  <2> QED
    BY <1>2, <2>3, SeqDef
<1> QED
  BY <1>1, <1>5, <1>6, <1>9, <1>10 DEF SideRan

\* What a job reads, by the model
Listing(m, v, s) ==
  IF ~(m.full[v] \/ s = "annots") THEN <<>>
  ELSE Tree(v, IF s = "annots" THEN 1 .. m.annots[v] ELSE IF s = "layers" THEN m.seen[v]
               ELSE SideTargets)
LEMMA ListingIsContents ==
  ASSUME NEW v, NEW s \in Lists
  PROVE  Contents(v, s) = Listing(sideView, v, s)
<1>1. Supports(v, s) <=> (sideView.full[v] \/ s = "annots")
  BY DEF Supports, Lists
<1> QED
  BY <1>1 DEF Contents, Listing, Tree, Lists

LEMMA ListingTyped ==
  ASSUME NEW m \in SideModel, NEW v \in SideVersion, NEW s \in Lists
  PROVE  Listing(m, v, s) \in SideRows
<1> DEFINE what == IF s = "annots" THEN 1 .. m.annots[v] ELSE IF s = "layers" THEN m.seen[v]
                   ELSE SideTargets
<1>1. what \in SUBSET (Nat \union Layers)
  BY SideAssumption DEF SideModel
<1> HIDE DEF what
<1>2. Tree(v, what) \in SideRows
  BY <1>1 DEF Tree, SideRows
<1>3. <<>> \in SideRows
  BY DEF SideRows
<1> QED
  BY <1>2, <1>3 DEF Listing, what

LEMMA PartsRan ==
  ASSUME NEW m \in SideModel, NEW lists, NEW jobs \in Seq(SideJob), SideParts(m, lists, jobs),
         NEW i \in DOMAIN jobs, NEW new, SideRan(jobs, i, Listing(m, jobs[i].of, jobs[i].list), new)
  PROVE  SideParts(m, lists, new)
<1>1. \A s : Waits(new, s) <=> Waits(jobs, s)
  BY DEF SideRan, Waits
<1>2. jobs[i].of \in SideVersion
  <2>1. jobs[i] \in SideJob
    OBVIOUS
  <2> QED
    BY <2>1 DEF SideJob
<1>3. LinksPart(m, lists["links"], new)
  BY <1>1 DEF SideParts, LinksPart, SideRan, Listing
<1>4. FilesPart(m, lists["files"], new)
  BY <1>1 DEF SideParts, FilesPart, SideRan, Listing
<1>5. AnnotsPart(m, lists["annots"], new)
  BY <1>1 DEF SideParts, AnnotsPart, SideRan, Listing
<1>6. LayersPart(m, lists["layers"], new)
  <2>1. m.seen[jobs[i].of] \in SUBSET Layers
    BY <1>2 DEF SideModel
  <2>2. jobs[i].list = "layers" => LayerTree(m, jobs[i].of, new[i].rows, lists["layers"].missed)
    BY <2>1 DEF LayerTree, Listing, SideRan
  <2>3. LayersPart(m, lists["layers"], jobs)
    BY DEF SideParts
  <2> DEFINE l == lists["layers"]
  <2> HIDE DEF l
  <2>4. ASSUME NEW k \in DOMAIN new, new[k].list = "layers", new[k].heard
        PROVE  /\ new[k].of = l.of /\ l.rows = <<>>
               /\ new[k].ran => LayerTree(m, new[k].of, new[k].rows, l.missed)
               /\ \A j \in DOMAIN new : (new[j].list = "layers" /\ new[j].heard) => j = k
    <3>1. k \in DOMAIN jobs /\ jobs[k].list = "layers" /\ jobs[k].heard /\ new[k].of = jobs[k].of
      BY <2>4 DEF SideRan
    <3>2. \A j \in DOMAIN new : (new[j].list = "layers" /\ new[j].heard) => j = k
      BY <2>3, <3>1 DEF LayersPart, SideRan
    <3>3. new[k].ran => LayerTree(m, new[k].of, new[k].rows, l.missed)
      <4>1. CASE k = i
        BY <2>2, <3>1, <4>1 DEF l
      <4>2. CASE k # i
        BY <2>3, <3>1, <4>2 DEF LayersPart, SideRan, l
      <4> QED
        BY <4>1, <4>2
    <3> QED
      BY <2>3, <3>1, <3>2, <3>3 DEF LayersPart, l
  <2>5. (l.of = 0 => l.rows = <<>>)
        /\ ((l.of # 0 /\ ~Waits(new, "layers")) => LayerTree(m, l.of, l.rows, l.missed))
    BY <1>1, <2>3 DEF LayersPart, l
  <2> QED
    BY <2>4, <2>5 DEF LayersPart, l
<1> QED
  BY <1>3, <1>4, <1>5, <1>6 DEF SideParts

-----------------------------------------------------------------------------
(* The steps of the sidebar.                                               *)

SideIs == SideGood(sideView, sideFrame, sideLists, sideJobs)

LEMMA SideUsed ==
  ASSUME NEW m \in SideModel, NEW n, n = [m EXCEPT !.calls = @ + 1]
  PROVE  /\ n \in SideModel /\ n.doc = m.doc /\ n.page = m.page /\ n.full = m.full
         /\ n.annots = m.annots /\ n.seen = m.seen /\ n.adding = m.adding
BY DEF SideModel

\* The list of the outline with another entry selected
LEMMA OutlineRow ==
  ASSUME NEW lists \in [Lists -> SideList], NEW page \in SidePage, NEW new,
         new = lists \/ new = [lists EXCEPT !["links"].row = page]
  PROVE  /\ new \in [Lists -> SideList]
         /\ \A s \in Lists : /\ new[s].of = lists[s].of /\ new[s].rows = lists[s].rows
                             /\ new[s].missed = lists[s].missed
<1>1. CASE new = lists
  BY <1>1
<1>2. CASE new = [lists EXCEPT !["links"].row = page]
  <2> DEFINE l == lists["links"]
             k == [l EXCEPT !.row = page]
  <2>1. l \in SideList
    BY DEF Lists
  <2>2. new = [lists EXCEPT !["links"] = k]
    BY <1>2
  <2> HIDE DEF l
  <2>3. k \in SideList /\ k.of = l.of /\ k.rows = l.rows /\ k.missed = l.missed /\ k.row = page
    BY <2>1 DEF SideList
  <2> HIDE DEF k
  <2> QED
    BY <2>2, <2>3 DEF Lists, l
<1> QED
  BY <1>1, <1>2

\* A page is turned, or an entry chosen, in the outline.
LEMMA SideTurned ==
  ASSUME SideIs, NEW n \in SideModel, n.doc = sideView.doc, n.full = sideView.full,
         n.annots = sideView.annots, n.seen = sideView.seen, n.adding = sideView.adding,
         NEW f \in SidePanel, NEW lists,
         lists = sideLists \/ lists = [sideLists EXCEPT !["links"].row = n.page],
         EntryShown(n, f, lists)
  PROVE  SideGood(n, f, lists, sideJobs)
<1>1. SideTyped(sideView, sideFrame, sideLists, sideJobs) /\ SideParts(sideView, sideLists, sideJobs)
      /\ SideAgrees(sideView, sideLists)
  BY DEF SideIs, SideGood
<1>2. n.page \in SidePage
  BY DEF SideModel
<1>3. /\ lists \in [Lists -> SideList]
      /\ \A s \in Lists : /\ lists[s].of = sideLists[s].of /\ lists[s].rows = sideLists[s].rows
                          /\ lists[s].missed = sideLists[s].missed
  BY <1>1, <1>2, OutlineRow DEF SideTyped
<1>4. SideParts(n, lists, sideJobs)
  BY <1>1, <1>3, PartsSame
<1>5. SideAgrees(n, lists)
  BY <1>1, <1>3 DEF SideAgrees, Lists
<1> QED
  BY <1>1, <1>3, <1>4, <1>5 DEF SideGood, SideTyped

\* What the user does with the outline, the frame and the bookmarks.
LEMMA SideByUser ==
  ASSUME SideIs,
         \/ ShowSidebar \/ ToggleAdding \/ AddBookmark \/ DeleteBookmark
         \/ \E p \in SidePage : TurnTo(p) \/ ChooseEntry(p) \/ SelectBookmark(p)
                                \/ \E t \in SideTitles : RenameBookmark(p, t)
         \/ \E s \in SidebarPages : ChooseSidebarPage(s)
  PROVE  SideIs'
<1>1. /\ sideView \in SideModel /\ sideFrame \in SidePanel /\ sideLists \in [Lists -> SideList]
      /\ EntryShown(sideView, sideFrame, sideLists)
  BY DEF SideIs, SideGood, SideTyped
<1>2. /\ UsedSidebar \in SideModel /\ UsedSidebar.doc = sideView.doc /\ UsedSidebar.page = sideView.page
      /\ UsedSidebar.full = sideView.full /\ UsedSidebar.annots = sideView.annots
      /\ UsedSidebar.seen = sideView.seen /\ UsedSidebar.adding = sideView.adding
  BY <1>1, SideUsed DEF UsedSidebar
<1>3. ASSUME sideView' = UsedSidebar, UNCHANGED <<sideFrame, sideLists, sideJobs>>
      PROVE  SideIs'
  <2>1. EntryShown(UsedSidebar, sideFrame, sideLists)
    BY <1>1, <1>2 DEF EntryShown
  <2>2. SideGood(UsedSidebar, sideFrame, sideLists, sideJobs)
    BY <1>1, <1>2, <2>1, SideTurned
  <2> QED
    BY <1>3, <2>2 DEF SideIs
<1>4. ASSUME NEW page \in SidePage, NEW n, n = [UsedSidebar EXCEPT !.page = page]
      PROVE  /\ n \in SideModel /\ n.doc = sideView.doc /\ n.page = page /\ n.full = sideView.full
             /\ n.annots = sideView.annots /\ n.seen = sideView.seen /\ n.adding = sideView.adding
  <2> HIDE DEF UsedSidebar
  <2> QED
    BY <1>2, <1>4 DEF SideModel
<1>5. ASSUME NEW page \in SidePage, sideView' = [UsedSidebar EXCEPT !.page = page],
             sideLists' = OutlineFollows(sideLists, page), UNCHANGED <<sideFrame, sideJobs>>
      PROVE  SideIs'
  <2> DEFINE n == [UsedSidebar EXCEPT !.page = page]
             lists == OutlineFollows(sideLists, page)
  <2>1. /\ n \in SideModel /\ n.doc = sideView.doc /\ n.page = page /\ n.full = sideView.full
        /\ n.annots = sideView.annots /\ n.seen = sideView.seen /\ n.adding = sideView.adding
    BY <1>4
  <2> HIDE DEF n
  <2>2. lists = sideLists \/ lists = [sideLists EXCEPT !["links"].row = n.page]
    BY <2>1 DEF OutlineFollows
  <2>3. EntryShown(n, sideFrame, lists)
    <3>1. CASE OutlineMapped /\ sideLists["links"].rows # <<>> /\ page \in SideTargets
      <4> DEFINE l == sideLists["links"]
                 k == [l EXCEPT !.row = page]
      <4>1. l \in SideList
        BY <1>1 DEF Lists
      <4>2. lists = [sideLists EXCEPT !["links"] = k]
        BY <3>1 DEF OutlineFollows
      <4> HIDE DEF l, lists
      <4>3. k.row = page
        BY <4>1 DEF SideList
      <4> HIDE DEF k
      <4>4. lists["links"] = k
        BY <1>1, <4>2 DEF Lists
      <4> QED
        BY <2>1, <4>3, <4>4 DEF EntryShown
    <3>2. CASE ~(OutlineMapped /\ sideLists["links"].rows # <<>> /\ page \in SideTargets)
      <4>1. lists = sideLists
        BY <3>2 DEF OutlineFollows
      <4> QED
        BY <2>1, <3>2, <4>1 DEF EntryShown, OutlineMapped
    <3> QED
      BY <3>1, <3>2
  <2>4. SideGood(n, sideFrame, lists, sideJobs)
    <3> HIDE DEF lists
    <3> QED
      BY <1>1, <2>1, <2>2, <2>3, SideTurned
  <2> QED
    BY <1>5, <2>4 DEF SideIs, n
<1>6. ASSUME NEW f \in SidePanel, sideFrame' = f, sideView' = UsedSidebar, UNCHANGED sideJobs,
             NEW shows, shows \in BOOLEAN,
             sideLists' = IF shows /\ sideLists["links"].rows # <<>> /\ sideView.page \in SideTargets
                            THEN [sideLists EXCEPT !["links"].row = sideView.page] ELSE sideLists,
             (f.visible /\ f.page = "links") =>
               shows \/ (sideFrame.visible /\ sideFrame.page = "links")
      PROVE  SideIs'
  <2> DEFINE lists == IF shows /\ sideLists["links"].rows # <<>> /\ sideView.page \in SideTargets
                        THEN [sideLists EXCEPT !["links"].row = sideView.page] ELSE sideLists
             n == UsedSidebar
  <2>1. lists = sideLists \/ lists = [sideLists EXCEPT !["links"].row = n.page]
    BY <1>2
  <2>2. EntryShown(n, f, lists)
    <3>1. CASE shows /\ sideLists["links"].rows # <<>> /\ sideView.page \in SideTargets
      <4> DEFINE l == sideLists["links"]
                 k == [l EXCEPT !.row = sideView.page]
      <4>1. l \in SideList
        BY <1>1 DEF Lists
      <4>2. lists = [sideLists EXCEPT !["links"] = k]
        BY <3>1
      <4> HIDE DEF l, lists
      <4>3. k.row = sideView.page
        BY <4>1 DEF SideList
      <4> HIDE DEF k
      <4>4. lists["links"] = k
        BY <1>1, <4>2 DEF Lists
      <4> QED
        BY <1>2, <4>3, <4>4 DEF EntryShown
    <3>2. CASE ~(shows /\ sideLists["links"].rows # <<>> /\ sideView.page \in SideTargets)
      <4>1. lists = sideLists
        BY <3>2
      <4> HIDE DEF lists
      <4> QED
        BY <1>1, <1>2, <1>6, <3>2, <4>1 DEF EntryShown
    <3> QED
      BY <3>1, <3>2
  <2>3. SideGood(n, f, lists, sideJobs)
    <3> HIDE DEF lists, n
    <3> QED
      BY <1>1, <1>2, <1>6, <2>1, <2>2, SideTurned DEF n
  <2> QED
    BY <1>6, <2>3 DEF SideIs
<1>7. ASSUME NEW p \in SidePage, TurnTo(p) \/ SelectBookmark(p)
      PROVE  SideIs'
  BY <1>5, <1>7 DEF TurnTo, SelectBookmark
<1>8. ASSUME NEW p \in SidePage, ChooseEntry(p)
      PROVE  SideIs'
  <2>1. sideLists' = OutlineFollows(sideLists, p)
    BY <1>8 DEF ChooseEntry, OutlineFollows
  <2> QED
    BY <1>5, <1>8, <2>1 DEF ChooseEntry
<1>9. ASSUME NEW s \in SidebarPages, ChooseSidebarPage(s)
      PROVE  SideIs'
  <2> DEFINE f == [sideFrame EXCEPT !.page = s]
             shows == (s = "links")
  <2>1. f \in SidePanel /\ f.page = s
    BY <1>1 DEF SidePanel
  <2>2. /\ sideFrame' = f /\ sideView' = UsedSidebar /\ UNCHANGED sideJobs /\ shows \in BOOLEAN
        /\ sideLists' = IF shows /\ sideLists["links"].rows # <<>> /\ sideView.page \in SideTargets
                          THEN [sideLists EXCEPT !["links"].row = sideView.page] ELSE sideLists
    BY <1>9 DEF ChooseSidebarPage
  <2>3. f.page = "links" => shows
    BY <2>1
  <2> HIDE DEF f, shows
  <2> QED
    BY <1>6, <2>1, <2>2, <2>3
<1>10. CASE ShowSidebar
  <2> DEFINE f == [sideFrame EXCEPT !.visible = ~@]
             shows == (~sideFrame.visible /\ sideFrame.page = "links")
  <2>1. f \in SidePanel /\ f.page = sideFrame.page /\ (f.visible <=> ~sideFrame.visible)
    BY <1>1 DEF SidePanel
  <2>2. /\ sideFrame' = f /\ sideView' = UsedSidebar /\ UNCHANGED sideJobs /\ shows \in BOOLEAN
        /\ sideLists' = IF shows /\ sideLists["links"].rows # <<>> /\ sideView.page \in SideTargets
                          THEN [sideLists EXCEPT !["links"].row = sideView.page] ELSE sideLists
    BY <1>10 DEF ShowSidebar
  <2>3. (f.visible /\ f.page = "links") => shows
    BY <2>1
  <2> HIDE DEF f, shows
  <2> QED
    BY <1>6, <2>1, <2>2, <2>3
<1>11. CASE ToggleAdding
  <2> DEFINE n == [UsedSidebar EXCEPT !.adding = ~@]
  <2>1. /\ sideView.doc # 0 /\ sideView' = n
        /\ UNCHANGED <<sideFrame, sideLists, sideJobs>>
    BY <1>11 DEF ToggleAdding
  <2>2. /\ n \in SideModel /\ n.doc = sideView.doc /\ n.page = sideView.page
        /\ n.full = sideView.full /\ n.annots = sideView.annots /\ n.seen = sideView.seen
    <3> HIDE DEF UsedSidebar
    <3> QED
      BY <1>2 DEF SideModel
  <2> HIDE DEF n
  <2>3. SideParts(n, sideLists, sideJobs)
    BY <2>2, PartsSame DEF SideIs, SideGood
  <2>4. SideAgrees(n, sideLists) /\ EntryShown(n, sideFrame, sideLists)
    BY <1>1, <2>1, <2>2 DEF SideIs, SideGood, SideAgrees, EntryShown
  <2>5. SideGood(n, sideFrame, sideLists, sideJobs)
    BY <2>2, <2>3, <2>4 DEF SideIs, SideGood, SideTyped
  <2> QED
    BY <2>1, <2>5 DEF SideIs
<1>12. CASE AddBookmark \/ DeleteBookmark
  BY <1>3, <1>12 DEF AddBookmark, DeleteBookmark
<1>13. ASSUME NEW p, NEW t, RenameBookmark(p, t)
       PROVE  SideIs'
  BY <1>3, <1>13 DEF RenameBookmark
<1> QED
  BY <1>7, <1>8, <1>9, <1>10, <1>11, <1>12, <1>13

\* A window without document
LEMMA SideEmpty ==
  ASSUME NEW full \in [SideVersion -> BOOLEAN], NEW calls \in Nat
  PROVE  SideGood(NewView(full, calls), NewFrame, NewLists, <<>>)
<1> DEFINE m == NewView(full, calls)
<1>1. /\ m \in SideModel /\ m.doc = 0
  BY SideAssumption DEF NewView, SideModel, SidePage, Layers
<1>2. ~m.adding
  BY DEF NewView
<1>3. NewFrame \in SidePanel /\ NewFrame.page # "links"
  BY DEF NewFrame, SidePanel, SidebarPages
<1>4. NewLists \in [Lists -> SideList]
  BY SideAssumption DEF NewLists, SideList, SideRows
<1>5. \A s \in Lists : NewLists[s].of = 0 /\ NewLists[s].rows = <<>>
  BY DEF NewLists
<1> DEFINE jobs == <<>>
<1>6. jobs \in Seq(SideJob) /\ DOMAIN jobs = {}
  OBVIOUS
<1> HIDE DEF m, jobs
<1>7. SideParts(m, NewLists, jobs)
  BY <1>5, <1>6 DEF SideParts, LinksPart, FilesPart, AnnotsPart, LayersPart, Lists
<1>8. SideAgrees(m, NewLists) /\ EntryShown(m, NewFrame, NewLists)
  BY <1>1, <1>2, <1>3, <1>5 DEF SideAgrees, EntryShown, Lists
<1> QED
  BY <1>1, <1>3, <1>4, <1>6, <1>7, <1>8 DEF SideGood, SideTyped, m, jobs

\* A job runs, or its end is heard.
LEMMA SideByWork ==
  ASSUME SideIs, SideJobRuns \/ SideJobFinished
  PROVE  SideIs'
<1>1. /\ sideView \in SideModel /\ sideFrame \in SidePanel /\ sideLists \in [Lists -> SideList]
      /\ sideJobs \in Seq(SideJob) /\ SideParts(sideView, sideLists, sideJobs)
      /\ SideAgrees(sideView, sideLists) /\ EntryShown(sideView, sideFrame, sideLists)
  BY DEF SideIs, SideGood, SideTyped
<1>2. \A i \in DOMAIN sideJobs : sideJobs[i] \in SideJob
  BY <1>1
<1>3. CASE SideJobRuns
  <2>1. PICK i \in DOMAIN sideJobs :
          /\ sideJobs' = [sideJobs EXCEPT ![i].ran = TRUE,
                                          ![i].rows = Contents(sideJobs[i].of, sideJobs[i].list)]
          /\ UNCHANGED <<sideView, sideFrame, sideLists>>
    BY <1>3 DEF SideJobRuns
  <2> DEFINE rows == Listing(sideView, sideJobs[i].of, sideJobs[i].list)
  <2>2. sideJobs[i].of \in SideVersion /\ sideJobs[i].list \in Lists
    BY <1>2 DEF SideJob
  <2>3. Contents(sideJobs[i].of, sideJobs[i].list) = rows
    BY <2>2, ListingIsContents
  <2>4. rows \in SideRows
    BY <1>1, <2>2, ListingTyped
  <2>5. sideJobs' = [sideJobs EXCEPT ![i].ran = TRUE, ![i].rows = rows]
    BY <2>1, <2>3
  <2> HIDE DEF rows
  <2>6. SideRan(sideJobs, i, rows, sideJobs')
    BY <1>1, <2>4, <2>5, JobRan
  <2>7. SideParts(sideView, sideLists, sideJobs')
    BY <1>1, <2>6, PartsRan DEF rows
  <2>8. sideJobs' \in Seq(SideJob)
    BY <2>6 DEF SideRan
  <2> QED
    BY <1>1, <2>1, <2>7, <2>8 DEF SideIs, SideGood, SideTyped
<1>4. CASE SideJobFinished
  <2> DEFINE job == Head(sideJobs)
             new == Tail(sideJobs)
             rows == IF job.list = "files" THEN sideLists["files"].rows \o job.rows ELSE job.rows
             l == sideLists[job.list]
             row == IF job.list = "files" THEN l.row ELSE -1
             k == [l EXCEPT !.rows = rows, !.row = row]
             set == [sideLists EXCEPT ![job.list] = k]
  <2>1. sideJobs # <<>> /\ Head(sideJobs).ran /\ sideJobs' = new /\ UNCHANGED <<sideView, sideFrame>>
    BY <1>4 DEF SideJobFinished
  <2>2. SidePopped(sideJobs, new) /\ job = sideJobs[1] /\ job \in SideJob /\ job.ran
    BY <1>1, <2>1, JobPopped
  <2>3. job.list \in Lists /\ job.rows \in SideRows /\ l \in SideList
    BY <1>1, <2>2 DEF SideJob
  <2>4. rows \in SideRows
    <3>1. sideLists["files"].rows \in SideRows
      BY <1>1 DEF SideList, Lists
    <3> DEFINE a == sideLists["files"].rows
               b == job.rows
    <3>2. a \in SideRows /\ b \in SideRows
      BY <2>3, <3>1
    <3> HIDE DEF a, b
    <3>3. a \o b \in SideRows
      BY <3>2 DEF SideRows
    <3> QED
      BY <2>3, <3>3 DEF a, b
  <2>5. row \in {-1} \union SidePage
    BY <2>3 DEF SideList
  <2>6. [sideLists EXCEPT ![job.list].rows = rows,
                          ![job.list].row = IF job.list = "files" THEN @ ELSE -1] = set
    <3> DEFINE h == [l EXCEPT !.rows = rows]
               half == [sideLists EXCEPT ![job.list] = h]
    <3> HIDE DEF rows, job
    <3>0. l \in SideList
      BY <2>3
    <3>1. half \in [Lists -> SideList] /\ half[job.list] = h /\ h.row = l.row /\ h \in SideList
          /\ \A s \in Lists : s # job.list => half[s] = sideLists[s]
      BY <1>1, <2>3, <2>4, <3>0 DEF SideList
    <3>2. [half EXCEPT ![job.list].row = IF job.list = "files" THEN @ ELSE -1]
            = [half EXCEPT ![job.list] = [h EXCEPT !.row = row]]
      BY <1>1, <2>3, <3>1
    <3>3. [half EXCEPT ![job.list] = [h EXCEPT !.row = row]] = set
      BY <1>1, <2>3
    <3>4. [sideLists EXCEPT ![job.list].rows = rows,
                            ![job.list].row = IF job.list = "files" THEN @ ELSE -1]
            = [half EXCEPT ![job.list].row = IF job.list = "files" THEN @ ELSE -1]
      BY <1>1, <2>3
    <3> QED
      BY <3>2, <3>3, <3>4
  <2>7. sideLists' = IF ~job.heard THEN sideLists
                     ELSE IF job.list = "links" THEN OutlineFollows(set, sideView.page) ELSE set
    <3> DEFINE big == [sideLists EXCEPT ![job.list].rows = rows,
                                        ![job.list].row = IF job.list = "files" THEN @ ELSE -1]
    <3>1. sideLists' = IF ~job.heard THEN sideLists
                       ELSE IF job.list = "links" THEN OutlineFollows(big, sideView.page) ELSE big
      BY <1>4 DEF SideJobFinished
    <3>2. big = set
      BY <2>6
    <3> HIDE DEF big, set, job
    <3> QED
      BY <3>1, <3>2
  <2> HIDE DEF job, new, rows, row
  <2>8. k \in SideList /\ k.of = l.of /\ k.rows = rows /\ k.missed = l.missed /\ k.row = row
    BY <2>3, <2>4, <2>5 DEF SideList
  <2> HIDE DEF k
  <2>9. set \in [Lists -> SideList] /\ set[job.list] = k
        /\ \A s \in Lists : s # job.list => set[s] = sideLists[s]
    BY <1>1, <2>3, <2>8
  <2> HIDE DEF set
  <2> DEFINE heard == IF job.heard THEN set ELSE sideLists
  <2>10. /\ heard \in [Lists -> SideList]
         /\ \A s \in Lists : /\ heard[s].of = sideLists[s].of
                             /\ heard[s].missed = sideLists[s].missed
                             /\ heard[s].rows = IF job.list = s /\ job.heard THEN rows
                                                ELSE sideLists[s].rows
    BY <1>1, <2>8, <2>9
  <2>11. /\ sideLists' = heard \/ sideLists' = [heard EXCEPT !["links"].row = sideView.page]
    BY <2>7 DEF OutlineFollows
  <2> HIDE DEF heard
  <2>12. job.list = "files" => job.heard
    BY <1>1, <2>2 DEF SideParts, FilesPart, SidePopped
  <2>13. SideParts(sideView, heard, new)
    <3>1. LinksPart(sideView, heard["links"], new)
      <4>1. heard["links"].of = sideLists["links"].of
            /\ heard["links"].rows = IF sideJobs[1].list = "links" /\ sideJobs[1].heard
                                       THEN sideJobs[1].rows ELSE sideLists["links"].rows
        BY <2>2, <2>10 DEF Lists, rows
      <4>2. LinksPart(sideView, sideLists["links"], sideJobs) /\ sideJobs[1].ran
        BY <1>1, <2>2 DEF SideParts
      <4> QED
        BY <1>1, <2>2, <4>1, <4>2, LinksPopped
    <3>2. AnnotsPart(sideView, heard["annots"], new)
      <4>1. heard["annots"].of = sideLists["annots"].of
            /\ heard["annots"].rows = IF sideJobs[1].list = "annots" /\ sideJobs[1].heard
                                        THEN sideJobs[1].rows ELSE sideLists["annots"].rows
        BY <2>2, <2>10 DEF Lists, rows
      <4>2. AnnotsPart(sideView, sideLists["annots"], sideJobs) /\ sideJobs[1].ran
        BY <1>1, <2>2 DEF SideParts
      <4> QED
        BY <1>1, <2>2, <4>1, <4>2, AnnotsPopped
    <3>3. LayersPart(sideView, heard["layers"], new)
      <4>1. heard["layers"].of = sideLists["layers"].of
            /\ heard["layers"].missed = sideLists["layers"].missed
            /\ heard["layers"].rows = IF sideJobs[1].list = "layers" /\ sideJobs[1].heard
                                        THEN sideJobs[1].rows ELSE sideLists["layers"].rows
        BY <2>2, <2>10 DEF Lists, rows
      <4>2. LayersPart(sideView, sideLists["layers"], sideJobs) /\ sideJobs[1].ran
        BY <1>1, <2>2 DEF SideParts
      <4>3. \A i \in DOMAIN sideJobs : sideJobs[i].of # 0
        BY <1>2 DEF SideJob, SideVersion
      <4> QED
        BY <1>1, <2>2, <4>1, <4>2, <4>3, LayersPopped
    <3>4. FilesPart(sideView, heard["files"], new)
      <4>1. heard["files"].of = sideLists["files"].of
            /\ heard["files"].rows = IF sideJobs[1].list = "files"
                                       THEN sideLists["files"].rows \o sideJobs[1].rows
                                       ELSE sideLists["files"].rows
        BY <2>2, <2>10, <2>12 DEF Lists, rows
      <4>2. FilesPart(sideView, sideLists["files"], sideJobs) /\ sideJobs[1].ran
        BY <1>1, <2>2 DEF SideParts
      <4>3. sideLists["files"].rows \in SideRows
        BY <1>1 DEF SideList, Lists
      <4> QED
        BY <1>1, <2>2, <4>1, <4>2, <4>3, FilesPopped
    <3> QED
      BY <3>1, <3>2, <3>3, <3>4 DEF SideParts
  <2>14. sideView.page \in SidePage
    BY <1>1 DEF SideModel
  <2>15. /\ sideLists' \in [Lists -> SideList]
         /\ \A s \in Lists : /\ sideLists'[s].of = heard[s].of /\ sideLists'[s].rows = heard[s].rows
                             /\ sideLists'[s].missed = heard[s].missed
    BY <2>10, <2>11, <2>14, OutlineRow
  <2>16. SideParts(sideView, sideLists', new)
    BY <2>13, <2>15, PartsSame
  <2>17. SideAgrees(sideView, sideLists')
    BY <1>1, <2>10, <2>15 DEF SideAgrees, Lists
  <2>18. EntryShown(sideView, sideFrame, sideLists')
    <3>1. CASE job.heard /\ job.list = "links"
      <4>1. sideLists' = OutlineFollows(set, sideView.page) /\ heard = set
        BY <2>7, <3>1 DEF heard
      <4>2. CASE OutlineMapped /\ set["links"].rows # <<>> /\ sideView.page \in SideTargets
        <5> DEFINE o == set["links"]
                   q == [o EXCEPT !.row = sideView.page]
        <5>1. sideLists' = [set EXCEPT !["links"] = q]
          BY <4>1, <4>2 DEF OutlineFollows
        <5>2. o \in SideList
          BY <2>9 DEF Lists
        <5> HIDE DEF o
        <5>3. q.row = sideView.page
          BY <5>2 DEF SideList
        <5> HIDE DEF q
        <5>4. sideLists'["links"] = q
          BY <2>9, <5>1 DEF Lists
        <5> QED
          BY <5>3, <5>4 DEF EntryShown
      <4>3. CASE ~(OutlineMapped /\ set["links"].rows # <<>> /\ sideView.page \in SideTargets)
        <5>1. sideLists' = set
          BY <4>1, <4>3 DEF OutlineFollows
        <5> QED
          BY <4>3, <5>1 DEF EntryShown, OutlineMapped
      <4> QED
        BY <4>2, <4>3
    <3>2. CASE ~(job.heard /\ job.list = "links")
      <4>1. sideLists' = heard /\ heard["links"] = sideLists["links"]
        BY <2>7, <2>9, <3>2 DEF heard, Lists
      <4> QED
        BY <1>1, <4>1 DEF EntryShown
    <3> QED
      BY <3>1, <3>2
  <2>19. new \in Seq(SideJob)
    BY <2>2 DEF SidePopped
  <2> QED
    BY <1>1, <2>1, <2>15, <2>16, <2>17, <2>18, <2>19 DEF SideIs, SideGood, SideTyped
<1> QED
  BY <1>3, <1>4

\* Another document: the lists that take it empty themselves and push a job, one
\* after the other.
LEMMA SideReloads ==
  ASSUME SideIs, ReloadForSidebar
  PROVE  SideIs'
<1> DEFINE v == sideView.doc + 1
           n == [UsedSidebar EXCEPT !.doc = v]
           takes(s) == s \in {"annots", "layers"} \/ sideView.full[v]
           lists == [s \in Lists |-> IF takes(s) THEN TakeDocument(s, v) ELSE sideLists[s]]
           f == [sideFrame EXCEPT !.sensitive = {s \in sideFrame.sensitive : Supports(v, s)}]
<1>1. /\ sideView \in SideModel /\ sideFrame \in SidePanel /\ sideLists \in [Lists -> SideList]
      /\ sideJobs \in Seq(SideJob) /\ SideParts(sideView, sideLists, sideJobs)
      /\ SideAgrees(sideView, sideLists) /\ EntryShown(sideView, sideFrame, sideLists)
  BY DEF SideIs, SideGood, SideTyped
<1>2. /\ UsedSidebar \in SideModel /\ UsedSidebar.doc = sideView.doc /\ UsedSidebar.page = sideView.page
      /\ UsedSidebar.full = sideView.full /\ UsedSidebar.annots = sideView.annots
      /\ UsedSidebar.seen = sideView.seen /\ UsedSidebar.adding = sideView.adding
  BY <1>1, SideUsed DEF UsedSidebar
<1>3. sideView.doc \in 0 .. SideVersions /\ sideView.doc < SideVersions
  BY <1>1 DEF SideModel, ReloadForSidebar
<1>4. v \in SideVersion /\ v \in 0 .. SideVersions /\ v # 0 /\ 0 .. sideView.doc \subseteq 0 .. v
  BY <1>3, SideAssumption DEF SideVersion
<1>5. sideView' = n
  BY <1>2 DEF ReloadForSidebar
<1> HIDE DEF v
<1>6. /\ n \in SideModel /\ n.doc = v /\ n.page = sideView.page /\ n.full = sideView.full
      /\ n.annots = sideView.annots /\ n.seen = sideView.seen /\ n.adding = sideView.adding
  <2> HIDE DEF UsedSidebar
  <2> QED
    BY <1>2, <1>4 DEF SideModel
<1> HIDE DEF n
<1>7. \A s \in Lists : Reads(s) <=> takes(s)
  BY <1>5, <1>6 DEF Reads, Supports, Lists
<1>8. sideLists' = lists
  BY <1>5, <1>6, <1>7 DEF ReloadForSidebar
<1>9. sideFrame' = f /\ f \in SidePanel /\ f.page = sideFrame.page /\ f.visible = sideFrame.visible
  <2>1. sideFrame' = f
    BY <1>5, <1>6 DEF ReloadForSidebar
  <2> QED
    BY <1>1, <2>1 DEF SidePanel
<1>10. \A s \in Lists :
         /\ TakeDocument(s, v) \in SideList /\ TakeDocument(s, v).of = v
         /\ s # "annots" => TakeDocument(s, v).rows = <<>>
  <2> SUFFICES ASSUME NEW s \in Lists
               PROVE  /\ TakeDocument(s, v) \in SideList /\ TakeDocument(s, v).of = v
                      /\ s # "annots" => TakeDocument(s, v).rows = <<>>
    OBVIOUS
  <2> DEFINE l == sideLists[s]
             rows == IF s = "annots" THEN l.rows ELSE <<>>
             no == FALSE
             k == [l EXCEPT !.of = v, !.rows = rows, !.missed = no]
  <2>1. l \in SideList /\ no \in BOOLEAN
    BY <1>1
  <2>2. TakeDocument(s, v) = k
    <3> DEFINE h == [l EXCEPT !.of = v]
    <3>1. h.rows = l.rows
      BY <2>1 DEF SideList
    <3>2. TakeDocument(s, v) = [[h EXCEPT !.rows = IF s = "annots" THEN h.rows ELSE <<>>]
                                  EXCEPT !.missed = no]
      BY DEF TakeDocument
    <3>3. k = [[h EXCEPT !.rows = rows] EXCEPT !.missed = no]
      OBVIOUS
    <3> HIDE DEF h, l, no
    <3> QED
      BY <3>1, <3>2, <3>3
  <2>3. rows \in SideRows
    BY <2>1 DEF SideList, SideRows
  <2> HIDE DEF l, no
  <2>4. (s # "annots") => rows = <<>>
    OBVIOUS
  <2> HIDE DEF rows
  <2>5. k \in SideList /\ k.of = v /\ k.rows = rows
    BY <1>4, <2>1, <2>3 DEF SideList
  <2> QED
    BY <2>2, <2>4, <2>5
<1>11. lists \in [Lists -> SideList]
       /\ \A s \in Lists : /\ takes(s) => lists[s].of = v /\ (s # "annots" => lists[s].rows = <<>>)
                           /\ ~takes(s) => lists[s] = sideLists[s]
  BY <1>1, <1>10
<1> HIDE DEF lists, f
<1>12. SideParts(n, sideLists, sideJobs)
  BY <1>1, <1>6, PartsSame
<1> DEFINE J(jobs, s) == IF takes(s) THEN PushFor(jobs, s, v) ELSE jobs
           j1 == J(sideJobs, "links")
           j2 == J(j1, "files")
           j3 == J(j2, "layers")
           j4 == J(j3, "annots")
<1>13. sideJobs' = j4
  <2>1. "links" \in Lists /\ "files" \in Lists /\ "layers" \in Lists /\ "annots" \in Lists
    BY DEF Lists
  <2> QED
    BY <1>5, <1>6, <1>7, <2>1 DEF ReloadForSidebar
<1> HIDE DEF J, j1, j2, j3, j4
<1>14. ASSUME NEW jobs \in Seq(SideJob), NEW s \in Lists, NEW new, new = J(jobs, s)
       PROVE  new \in Seq(SideJob)
              /\ IF takes(s) THEN SidePushed(jobs, s, v, new) ELSE new = jobs
  <2>1. CASE takes(s)
    BY <1>4, <1>14, <2>1, JobPushed DEF J, SidePushed
  <2>2. CASE ~takes(s)
    BY <1>14, <2>2 DEF J
  <2> QED
    BY <2>1, <2>2
<1>15. /\ j1 \in Seq(SideJob) /\ j2 \in Seq(SideJob) /\ j3 \in Seq(SideJob) /\ j4 \in Seq(SideJob)
       /\ IF takes("links") THEN SidePushed(sideJobs, "links", v, j1) ELSE j1 = sideJobs
       /\ IF takes("files") THEN SidePushed(j1, "files", v, j2) ELSE j2 = j1
       /\ IF takes("layers") THEN SidePushed(j2, "layers", v, j3) ELSE j3 = j2
       /\ IF takes("annots") THEN SidePushed(j3, "annots", v, j4) ELSE j4 = j3
  <2>0. "links" \in Lists /\ "files" \in Lists /\ "layers" \in Lists /\ "annots" \in Lists
    BY DEF Lists
  <2> HIDE DEF takes
  <2>1. j1 \in Seq(SideJob)
        /\ IF takes("links") THEN SidePushed(sideJobs, "links", v, j1) ELSE j1 = sideJobs
    BY <1>1, <1>14, <2>0 DEF j1
  <2>2. j2 \in Seq(SideJob)
        /\ IF takes("files") THEN SidePushed(j1, "files", v, j2) ELSE j2 = j1
    BY <1>14, <2>0, <2>1 DEF j2
  <2>3. j3 \in Seq(SideJob)
        /\ IF takes("layers") THEN SidePushed(j2, "layers", v, j3) ELSE j3 = j2
    BY <1>14, <2>0, <2>2 DEF j3
  <2>4. j4 \in Seq(SideJob)
        /\ IF takes("annots") THEN SidePushed(j3, "annots", v, j4) ELSE j4 = j3
    BY <1>14, <2>0, <2>3 DEF j4
  <2> QED
    BY <2>1, <2>2, <2>3, <2>4
<1>16. takes("annots") /\ takes("layers") /\ (takes("links") <=> n.full[v])
       /\ (takes("files") <=> n.full[v])
  BY <1>6
<1>17. /\ takes("links") => lists["links"].of = v
       /\ ~takes("links") => lists["links"] = sideLists["links"]
       /\ takes("files") => lists["files"].of = v
       /\ ~takes("files") => lists["files"] = sideLists["files"]
       /\ lists["annots"].of = v /\ lists["layers"].of = v /\ lists["layers"].rows = <<>>
       /\ takes("links") => lists["links"].rows = <<>>
  BY <1>11 DEF Lists
<1> HIDE DEF takes
<1>18. LinksPart(n, lists["links"], j4)
  <2> DEFINE l == lists["links"]
  <2>1. LinksPart(n, sideLists["links"], sideJobs)
    BY <1>12 DEF SideParts
  <2> HIDE DEF l
  <2>2. LinksPart(n, l, j1)
    <3>1. CASE takes("links")
      BY <1>1, <1>15, <1>16, <1>17, <2>1, <3>1, LinksPushed DEF l
    <3>2. CASE ~takes("links")
      BY <1>15, <1>17, <2>1, <3>2 DEF l
    <3> QED
      BY <3>1, <3>2
  <2>3. LinksPart(n, l, j2)
    BY <1>15, <2>2, LinksKept
  <2>4. LinksPart(n, l, j3)
    BY <1>15, <2>3, LinksKept
  <2> QED
    BY <1>15, <2>4, LinksKept DEF l
<1>19. FilesPart(n, lists["files"], j4)
  <2> DEFINE l == lists["files"]
  <2> HIDE DEF l
  <2>1. FilesPart(n, sideLists["files"], sideJobs)
    BY <1>12 DEF SideParts
  <2>2. FilesPart(n, sideLists["files"], j1)
    BY <1>1, <1>15, <2>1, FilesKept
  <2>3. FilesPart(n, l, j2)
    <3>1. CASE takes("files")
      BY <1>15, <1>16, <1>17, <2>2, <3>1, FilesPushed DEF l
    <3>2. CASE ~takes("files")
      BY <1>15, <1>17, <2>2, <3>2 DEF l
    <3> QED
      BY <3>1, <3>2
  <2>4. FilesPart(n, l, j3)
    BY <1>15, <2>3, FilesKept
  <2> QED
    BY <1>15, <2>4, FilesKept DEF l
<1>20. LayersPart(n, lists["layers"], j4)
  <2> DEFINE l == lists["layers"]
  <2> HIDE DEF l
  <2>0. l.of = v /\ l.rows = <<>>
    BY <1>17 DEF l
  <2>1. LayersPart(n, sideLists["layers"], sideJobs)
    BY <1>12 DEF SideParts
  <2>2. LayersPart(n, sideLists["layers"], j1)
    BY <1>1, <1>15, <2>1, LayersKept
  <2>3. LayersPart(n, sideLists["layers"], j2)
    BY <1>15, <2>2, LayersKept
  <2>4. LayersPart(n, l, j3)
    BY <1>4, <1>15, <1>16, <2>0, <2>3, LayersPushed
  <2> QED
    BY <1>15, <1>16, <2>4, LayersKept DEF l
<1>21. AnnotsPart(n, lists["annots"], j4)
  BY <1>15, <1>16, <1>17, AnnotsPushed
<1>22. SideAgrees(n, lists)
  <2>1. \A s \in {"links", "files"} :
          lists[s].of \in 0 .. v /\ ((v # 0 /\ n.full[v]) => lists[s].of = v)
    BY <1>1, <1>4, <1>16, <1>17 DEF SideAgrees
  <2> QED
    BY <1>4, <1>6, <1>17, <2>1 DEF SideAgrees
<1>23. EntryShown(n, f, lists)
  <2>1. CASE takes("links")
    BY <1>17, <2>1 DEF EntryShown
  <2>2. CASE ~takes("links")
    BY <1>1, <1>6, <1>9, <1>17, <2>2 DEF EntryShown
  <2> QED
    BY <2>1, <2>2
<1>24. SideGood(n, f, lists, j4)
  BY <1>6, <1>9, <1>11, <1>15, <1>18, <1>19, <1>20, <1>21, <1>22, <1>23
     DEF SideGood, SideTyped, SideParts
<1> QED
  BY <1>5, <1>8, <1>9, <1>13, <1>24 DEF SideIs

\* An annotation is added: the job that reads them again takes the place of the one
\* before, which may have read too few.
LEMMA SideAnnotated ==
  ASSUME SideIs, AnnotAdded
  PROVE  SideIs'
<1>1. /\ sideView \in SideModel /\ sideFrame \in SidePanel /\ sideLists \in [Lists -> SideList]
      /\ sideJobs \in Seq(SideJob) /\ SideParts(sideView, sideLists, sideJobs)
      /\ SideAgrees(sideView, sideLists) /\ EntryShown(sideView, sideFrame, sideLists)
  BY DEF SideIs, SideGood, SideTyped
<1>2. /\ UsedSidebar \in SideModel /\ UsedSidebar.doc = sideView.doc /\ UsedSidebar.page = sideView.page
      /\ UsedSidebar.full = sideView.full /\ UsedSidebar.annots = sideView.annots
      /\ UsedSidebar.seen = sideView.seen /\ UsedSidebar.adding = sideView.adding
  BY <1>1, SideUsed DEF UsedSidebar
<1> DEFINE v == sideView.doc
           no == FALSE
           annots == [sideView.annots EXCEPT ![v] = @ + 1]
           w == [UsedSidebar EXCEPT !.adding = no]
           n == [w EXCEPT !.annots = annots]
           jobs == PushFor(sideJobs, "annots", v)
<1>3. v \in SideVersion /\ sideLists["annots"].of = v
  BY <1>1 DEF AnnotAdded, SideAgrees, SideModel, SideVersion
<1>4. UsedSidebar.annots \in [SideVersion -> Nat] /\ annots \in [SideVersion -> Nat]
  BY <1>1, <1>2, <1>3 DEF SideModel
<1>5. sideView' = n /\ sideJobs' = jobs /\ UNCHANGED <<sideFrame, sideLists>>
  <2>1. sideView' = [UsedSidebar EXCEPT !.adding = FALSE, !.annots[v] = @ + 1]
    BY DEF AnnotAdded
  <2>2. [UsedSidebar EXCEPT !.adding = FALSE, !.annots[v] = @ + 1]
          = [w EXCEPT !.annots[v] = @ + 1]
    OBVIOUS
  <2>3. w.annots = sideView.annots
    <3> HIDE DEF UsedSidebar, no
    <3> QED
      BY <1>2 DEF SideModel
  <2>4. [w EXCEPT !.annots[v] = @ + 1] = [w EXCEPT !.annots = [w.annots EXCEPT ![v] = @ + 1]]
    OBVIOUS
  <2>5. sideView' = n
    <3> HIDE DEF w, UsedSidebar
    <3> QED
      BY <2>1, <2>2, <2>3, <2>4
  <2> QED
    BY <1>3, <2>5 DEF AnnotAdded
<1>6. no \in BOOLEAN /\ ~no
  OBVIOUS
<1> HIDE DEF no, annots
<1>7. /\ w \in SideModel /\ w.doc = v /\ w.page = sideView.page
      /\ w.full = sideView.full /\ w.seen = sideView.seen /\ w.adding = no
  <2> HIDE DEF UsedSidebar
  <2> QED
    BY <1>2, <1>6 DEF SideModel
<1> HIDE DEF w
<1>8. /\ n \in SideModel /\ n.doc = v /\ n.page = sideView.page
      /\ n.full = sideView.full /\ n.seen = sideView.seen /\ n.adding = no
  BY <1>4, <1>7 DEF SideModel
<1> HIDE DEF n
<1>9. SidePushed(sideJobs, "annots", v, jobs)
  BY <1>1, <1>3, JobPushed DEF Lists
<1> HIDE DEF jobs, v
<1>10. LinksPart(n, sideLists["links"], sideJobs)
  BY <1>1, <1>8 DEF SideParts, LinksPart
<1>11. FilesPart(n, sideLists["files"], sideJobs)
  BY <1>1, <1>8 DEF SideParts, FilesPart
<1>12. LayersPart(n, sideLists["layers"], sideJobs)
  BY <1>1, <1>8 DEF SideParts, LayersPart, LayerTree
<1>13. /\ LinksPart(n, sideLists["links"], jobs) /\ FilesPart(n, sideLists["files"], jobs)
       /\ LayersPart(n, sideLists["layers"], jobs)
  BY <1>1, <1>9, <1>10, <1>11, <1>12, LinksKept, FilesKept, LayersKept
<1>14. AnnotsPart(n, sideLists["annots"], jobs)
  BY <1>1, <1>3, <1>9, AnnotsPushed
<1>15. SideAgrees(n, sideLists) /\ EntryShown(n, sideFrame, sideLists)
  BY <1>1, <1>6, <1>8 DEF SideAgrees, EntryShown, v
<1>16. jobs \in Seq(SideJob)
  BY <1>9 DEF SidePushed
<1>17. SideGood(n, sideFrame, sideLists, jobs)
  BY <1>1, <1>8, <1>13, <1>14, <1>15, <1>16 DEF SideGood, SideTyped, SideParts
<1> QED
  BY <1>5, <1>17 DEF SideIs

\* What the layers of the document are, and what its list shows, when one of them
\* is shown or hidden: the rest is as it was.
LEMMA SideLayered ==
  ASSUME SideIs, NEW v \in SideVersion, NEW what \in SUBSET Layers, NEW n,
         n = [UsedSidebar EXCEPT !.seen = [sideView.seen EXCEPT ![v] = what]],
         NEW l \in SideList, l.of = v, sideLists["layers"].of = v,
         NEW lists, lists = [sideLists EXCEPT !["layers"] = l],
         n \in SideModel /\ n.seen[v] = what /\ n.full = sideView.full => LayersPart(n, l, sideJobs)
  PROVE  SideGood(n, sideFrame, lists, sideJobs)
<1>1. /\ sideView \in SideModel /\ sideFrame \in SidePanel /\ sideLists \in [Lists -> SideList]
      /\ sideJobs \in Seq(SideJob) /\ SideParts(sideView, sideLists, sideJobs)
      /\ SideAgrees(sideView, sideLists) /\ EntryShown(sideView, sideFrame, sideLists)
  BY DEF SideIs, SideGood, SideTyped
<1>2. /\ UsedSidebar \in SideModel /\ UsedSidebar.doc = sideView.doc /\ UsedSidebar.page = sideView.page
      /\ UsedSidebar.full = sideView.full /\ UsedSidebar.annots = sideView.annots
      /\ UsedSidebar.seen = sideView.seen /\ UsedSidebar.adding = sideView.adding
  BY <1>1, SideUsed DEF UsedSidebar
<1> DEFINE seen == [sideView.seen EXCEPT ![v] = what]
<1>3. seen \in [SideVersion -> SUBSET Layers] /\ seen[v] = what
  BY <1>1 DEF SideModel
<1>4. n = [UsedSidebar EXCEPT !.seen = seen]
  OBVIOUS
<1> HIDE DEF seen
<1>5. /\ n \in SideModel /\ n.doc = sideView.doc /\ n.page = sideView.page /\ n.full = sideView.full
      /\ n.annots = sideView.annots /\ n.seen = seen /\ n.adding = sideView.adding
  <2> HIDE DEF UsedSidebar
  <2> QED
    BY <1>2, <1>3, <1>4 DEF SideModel
<1>6. LayersPart(n, l, sideJobs)
  BY <1>3, <1>5
<1>7. /\ lists \in [Lists -> SideList] /\ lists["layers"] = l /\ lists["links"] = sideLists["links"]
      /\ lists["files"] = sideLists["files"] /\ lists["annots"] = sideLists["annots"]
  BY <1>1 DEF Lists
<1>8. LinksPart(n, lists["links"], sideJobs)
  BY <1>1, <1>5, <1>7 DEF SideParts, LinksPart
<1>9. FilesPart(n, lists["files"], sideJobs)
  BY <1>1, <1>5, <1>7 DEF SideParts, FilesPart
<1>10. AnnotsPart(n, lists["annots"], sideJobs)
  BY <1>1, <1>5, <1>7 DEF SideParts, AnnotsPart
<1>11. SideAgrees(n, lists) /\ EntryShown(n, sideFrame, lists)
  BY <1>1, <1>5, <1>7 DEF SideAgrees, EntryShown
<1> QED
  BY <1>1, <1>5, <1>6, <1>7, <1>8, <1>9, <1>10, <1>11 DEF SideGood, SideTyped, SideParts

LEMMA OneTree ==
  ASSUME NEW v \in SideVersion, NEW what \in SUBSET Layers
  PROVE  Tree(v, what) \in SideRows /\ Tree(v, what) # <<>> /\ Tree(v, what)[1].what = what
BY DEF Tree, SideRows

\* The user clicks on a row: then no job of the list is to come.
LEMMA SideToggled ==
  ASSUME SideIs, NEW layer \in Layers, ToggleLayer(layer)
  PROVE  SideIs'
<1> DEFINE old == sideLists["layers"]
           v == old.of
           rows == old.rows
           ticked == layer \in rows[1].what
           New(s) == IF ticked THEN s \ {layer} ELSE WithLayer(s, layer)
<1>1. /\ sideView \in SideModel /\ sideLists \in [Lists -> SideList]
      /\ LayersPart(sideView, old, sideJobs)
  BY DEF SideIs, SideGood, SideTyped, SideParts
<1>2. old \in SideList /\ v \in 0 .. SideVersions /\ rows # <<>>
  <2>1. old \in SideList
    BY <1>1 DEF Lists
  <2> QED
    BY <2>1 DEF ToggleLayer, SideList
<1>3. ~Waits(sideJobs, "layers") /\ v # 0
  BY <1>1, <1>2 DEF LayersPart, Waits
<1>4. v \in SideVersion
  BY <1>2, <1>3 DEF SideVersion
<1>5. sideView.full[v] /\ LayerTree(sideView, v, rows, old.missed)
  BY <1>1, <1>2, <1>3 DEF LayersPart, LayerTree
<1>6. PICK what \in SUBSET Layers : rows = Tree(v, what) /\ (old.missed \/ what = sideView.seen[v])
  BY <1>5 DEF LayerTree
<1>7. rows[1].what = what
  BY <1>4, <1>6, OneTree
<1>8. sideView.seen[v] \in SUBSET Layers
  BY <1>1, <1>4 DEF SideModel
<1>9. \A s \in SUBSET Layers : New(s) \in SUBSET Layers
  BY DEF WithLayer
<1> DEFINE seen2 == New(sideView.seen[v])
           what2 == New(what)
           n == [UsedSidebar EXCEPT !.seen = [sideView.seen EXCEPT ![v] = seen2]]
           l == [old EXCEPT !.rows = Tree(v, what2)]
           lists == [sideLists EXCEPT !["layers"] = l]
<1>10. UsedSidebar.seen = sideView.seen
  BY <1>1, SideUsed DEF UsedSidebar
<1>11. sideView' = n /\ UNCHANGED <<sideFrame, sideJobs>>
  <2>1. sideView' = [UsedSidebar EXCEPT !.seen[v] = New(@)]
    BY DEF ToggleLayer
  <2>2. sideView' = [UsedSidebar EXCEPT !.seen = [UsedSidebar.seen EXCEPT ![v] = New(@)]]
    BY <2>1
  <2>3. [UsedSidebar.seen EXCEPT ![v] = New(@)] = [sideView.seen EXCEPT ![v] = seen2]
    BY <1>10
  <2> QED
    BY <2>2, <2>3 DEF ToggleLayer
<1>12. sideLists' = lists
  <2>1. sideLists' = [sideLists EXCEPT !["layers"].rows = ToggleRow(@, layer)]
    BY DEF ToggleLayer
  <2>2. sideLists' = [sideLists EXCEPT !["layers"] = [old EXCEPT !.rows = ToggleRow(rows, layer)]]
    BY <2>1
  <2>3. ToggleRow(rows, layer) = Tree(v, what2)
    <3>1. ToggleRow(rows, layer)
            = [rows EXCEPT ![1].what = IF layer \in rows[1].what THEN rows[1].what \ {layer}
                                       ELSE WithLayer(rows[1].what, layer)]
      BY DEF ToggleRow
    <3>2. ToggleRow(rows, layer) = [rows EXCEPT ![1].what = what2]
      BY <1>7, <3>1
    <3> HIDE DEF rows, what2, v
    <3>3. [Tree(v, what) EXCEPT ![1].what = what2] = Tree(v, what2)
      BY DEF Tree
    <3> QED
      BY <1>6, <3>2, <3>3
  <2> QED
    BY <2>2, <2>3
<1>13. Tree(v, what2) \in SideRows /\ seen2 \in SUBSET Layers /\ what2 \in SUBSET Layers
  BY <1>4, <1>8, <1>9, OneTree
<1>14. old.missed \/ what2 = seen2
  BY <1>6
<1> HIDE DEF what2, seen2, New
<1>15. l \in SideList /\ l.of = v /\ l.rows = Tree(v, what2) /\ l.missed = old.missed
  BY <1>2, <1>13 DEF SideList
<1> HIDE DEF l, lists, n
<1>16. ASSUME n.seen[v] = seen2, n.full = sideView.full
       PROVE  LayersPart(n, l, sideJobs)
  BY <1>3, <1>5, <1>13, <1>14, <1>15, <1>16 DEF LayersPart, LayerTree, Waits
<1>17. SideGood(n, sideFrame, lists, sideJobs)
  BY <1>4, <1>13, <1>15, <1>16, SideLayered DEF n, lists
<1> QED
  BY <1>11, <1>12, <1>17 DEF SideIs

\* A link of the document shows or hides a layer: the rows follow, or the list has
\* none yet, and misses the change if its job has read the layers.
LEMMA SideLinked ==
  ASSUME SideIs, NEW layer \in Layers, LinkSetsLayers(layer)
  PROVE  SideIs'
<1> DEFINE old == sideLists["layers"]
           v == sideView.doc
           what == IF layer \in sideView.seen[v] THEN sideView.seen[v] \ {layer}
                   ELSE WithLayer(sideView.seen[v], layer)
           missed == MissesChange(v)
           n == [UsedSidebar EXCEPT !.seen = [sideView.seen EXCEPT ![v] = what]]
           rows == IF old.rows = <<>> THEN old.rows ELSE Tree(v, what)
           l == [old EXCEPT !.missed = missed, !.rows = rows]
           lists == [sideLists EXCEPT !["layers"] = l]
<1>1. /\ sideView \in SideModel /\ sideLists \in [Lists -> SideList]
      /\ LayersPart(sideView, old, sideJobs) /\ old.of = v
  BY DEF SideIs, SideGood, SideTyped, SideParts, SideAgrees
<1>2. old \in SideList
  BY <1>1 DEF Lists
<1>3. v \in SideVersion /\ v # 0 /\ sideView.full[v]
  BY <1>1 DEF LinkSetsLayers, SideModel, SideVersion
<1>4. what \in SUBSET Layers /\ missed \in BOOLEAN
  BY <1>1, <1>3 DEF SideModel, WithLayer, MissesChange
<1>5. UsedSidebar.seen = sideView.seen
  BY <1>1, SideUsed DEF UsedSidebar
<1>6. sideView' = n /\ UNCHANGED <<sideFrame, sideJobs>>
  <2>1. sideView' = [UsedSidebar EXCEPT !.seen[v] = what]
    BY DEF LinkSetsLayers
  <2>2. sideView' = [UsedSidebar EXCEPT !.seen = [UsedSidebar.seen EXCEPT ![v] = what]]
    BY <2>1
  <2> QED
    BY <1>5, <2>2 DEF LinkSetsLayers
<1>7. sideLists' = lists
  <2>1. sideLists' = [sideLists EXCEPT !["layers"] = LayersUpdated(old, what, missed)]
    BY DEF LinkSetsLayers
  <2> DEFINE k == [old EXCEPT !.missed = missed]
  <2>2. LayersUpdated(old, what, missed)
          = [k EXCEPT !.rows = IF k.rows = <<>> THEN k.rows ELSE Tree(old.of, what)]
    BY DEF LayersUpdated, Tree
  <2> HIDE DEF missed, what
  <2>3. k.rows = old.rows
    BY <1>2 DEF SideList
  <2>4. l = [k EXCEPT !.rows = rows]
    OBVIOUS
  <2> QED
    BY <1>1, <2>1, <2>2, <2>3, <2>4
<1>8. missed <=> \E i \in DOMAIN sideJobs : /\ sideJobs[i].list = "layers" /\ sideJobs[i].heard
                                            /\ sideJobs[i].ran /\ sideJobs[i].of = v
  BY DEF MissesChange, Awaited
<1> HIDE DEF what, missed
<1>9. Tree(v, what) \in SideRows /\ Tree(v, what) # <<>>
  BY <1>3, <1>4, OneTree
<1>10. rows \in SideRows /\ (old.rows = <<>> => rows = <<>>) /\ (old.rows # <<>> => rows = Tree(v, what))
  <2>1. old.rows \in SideRows
    BY <1>2 DEF SideList
  <2> HIDE DEF old
  <2> QED
    BY <1>9, <2>1
<1> HIDE DEF rows
<1>11. l \in SideList /\ l.of = v /\ l.rows = rows /\ l.missed = missed
  BY <1>1, <1>2, <1>4, <1>10 DEF SideList
<1> HIDE DEF l, n, lists
<1>12. ASSUME n.seen[v] = what, n.full = sideView.full
       PROVE  LayersPart(n, l, sideJobs)
  <2>1. \A i \in DOMAIN sideJobs : (sideJobs[i].list = "layers" /\ sideJobs[i].heard) =>
          /\ sideJobs[i].of = v /\ old.rows = <<>>
          /\ sideJobs[i].ran => LayerTree(sideView, v, sideJobs[i].rows, old.missed)
          /\ \A k \in DOMAIN sideJobs : (sideJobs[k].list = "layers" /\ sideJobs[k].heard) => k = i
    BY <1>1 DEF LayersPart
  <2>2. \A i \in DOMAIN sideJobs : (sideJobs[i].list = "layers" /\ sideJobs[i].heard) =>
          (sideJobs[i].ran => LayerTree(n, v, sideJobs[i].rows, l.missed))
    BY <1>3, <1>8, <1>11, <1>12, <2>1 DEF LayerTree
  <2>3. ~Waits(sideJobs, "layers") => old.rows # <<>>
    <3>1. ~Waits(sideJobs, "layers") => LayerTree(sideView, v, old.rows, old.missed)
      BY <1>1, <1>3 DEF LayersPart
    <3>2. LayerTree(sideView, v, old.rows, old.missed) =>
            \E w \in SUBSET Layers : old.rows = Tree(v, w)
      BY <1>3 DEF LayerTree
    <3> QED
      BY <1>3, <3>1, <3>2, OneTree
  <2>4. ~Waits(sideJobs, "layers") => LayerTree(n, v, l.rows, l.missed)
    BY <1>3, <1>4, <1>10, <1>11, <1>12, <2>3 DEF LayerTree
  <2> QED
    BY <1>3, <1>10, <1>11, <2>1, <2>2, <2>4 DEF LayersPart
<1>13. SideGood(n, sideFrame, lists, sideJobs)
  BY <1>1, <1>3, <1>4, <1>11, <1>12, SideLayered DEF n, lists
<1> QED
  BY <1>6, <1>7, <1>13 DEF SideIs

LEMMA SideStep ==
  ASSUME SideIs, [SideNext]_sideVars
  PROVE  SideIs'
<1>1. CASE UNCHANGED sideVars
  BY <1>1 DEF sideVars, SideIs
<1>2. CASE SideJobRuns \/ SideJobFinished
  BY <1>2, SideByWork
<1>3. CASE ReloadForSidebar
  BY <1>3, SideReloads
<1>4. CASE AnnotAdded
  BY <1>4, SideAnnotated
<1>5. CASE ReopenWindow
  <2>1. sideView.full \in [SideVersion -> BOOLEAN] /\ sideView.calls + 1 \in Nat
    BY DEF SideIs, SideGood, SideTyped, SideModel
  <2>2. SideGood(NewView(sideView.full, sideView.calls + 1), NewFrame, NewLists, <<>>)
    BY <2>1, SideEmpty
  <2> QED
    BY <1>5, <2>2 DEF ReopenWindow, SideIs
<1>6. ASSUME NEW l \in Layers, ToggleLayer(l) \/ LinkSetsLayers(l)
      PROVE  SideIs'
  BY <1>6, SideToggled, SideLinked
<1>7. CASE \/ ShowSidebar \/ ToggleAdding \/ AddBookmark \/ DeleteBookmark
           \/ \E p \in SidePage : TurnTo(p) \/ ChooseEntry(p) \/ SelectBookmark(p)
                                  \/ \E t \in SideTitles : RenameBookmark(p, t)
           \/ \E s \in SidebarPages : ChooseSidebarPage(s)
  BY <1>7, SideByUser
<1> QED
  BY <1>1, <1>2, <1>3, <1>4, <1>5, <1>6, <1>7 DEF SideNext

\* The invariant says what the lists show.
LEMMA SideShows ==
  ASSUME SideIs
  PROVE  ListsShowDocument /\ OutlineShowsPage
<1>1. /\ sideView \in SideModel /\ sideLists \in [Lists -> SideList] /\ sideJobs \in Seq(SideJob)
      /\ SideParts(sideView, sideLists, sideJobs)
      /\ SideAgrees(sideView, sideLists) /\ EntryShown(sideView, sideFrame, sideLists)
  BY DEF SideIs, SideGood, SideTyped
<1>2. OutlineShowsPage
  BY <1>1 DEF EntryShown, OutlineShowsPage, OutlineMapped
<1>3. ASSUME sideView.doc # 0, NEW s \in Lists, Supports(sideView.doc, s)
      PROVE  sideLists[s].of = sideView.doc
  BY <1>1, <1>3 DEF SideAgrees, Supports, Lists
<1>4. ASSUME NEW s \in Lists, Awaited(s) = {}
      PROVE  ~Waits(sideJobs, s)
  BY <1>4 DEF Awaited, Waits
<1>5. ASSUME NEW s \in Lists, Awaited(s) = {}, ~sideLists[s].missed, sideLists[s].of # 0,
             NEW top,
             top = IF s = "files" /\ sideLists[s].rows # <<>> THEN <<Last(sideLists[s].rows)>>
                     ELSE sideLists[s].rows
      PROVE  top = Contents(sideLists[s].of, s)
  <2> DEFINE l == sideLists[s]
             v == l.of
  <2>1. ~Waits(sideJobs, s)
    BY <1>4, <1>5
  <2>2. Contents(v, s) = Listing(sideView, v, s)
    BY ListingIsContents
  <2>3. CASE s = "links"
    <3>1. sideView.full[v] /\ l.rows = Tree(v, SideTargets)
      BY <1>1, <1>5, <2>1, <2>3 DEF SideParts, LinksPart
    <3> QED
      BY <1>5, <2>2, <2>3, <3>1 DEF Listing
  <2>4. CASE s = "files"
    <3>1. /\ sideView.full[v] /\ l.rows # <<>>
          /\ l.rows[Len(l.rows)] = [of |-> v, what |-> SideTargets]
      BY <1>1, <1>5, <2>1, <2>4 DEF SideParts, FilesPart
    <3>2. top = <<l.rows[Len(l.rows)]>>
      BY <1>5, <2>4, <3>1 DEF Last
    <3> QED
      BY <2>2, <2>4, <3>1, <3>2 DEF Listing, Tree
  <2>5. CASE s = "annots"
    <3>1. l.rows = Tree(v, 1 .. sideView.annots[v])
      BY <1>1, <1>5, <2>1, <2>5 DEF SideParts, AnnotsPart
    <3> QED
      BY <1>5, <2>2, <2>5, <3>1 DEF Listing
  <2>6. CASE s = "layers"
    <3>1. LayerTree(sideView, v, l.rows, l.missed)
      BY <1>1, <1>5, <2>1, <2>6 DEF SideParts, LayersPart
    <3> QED
      BY <1>5, <2>2, <2>6, <3>1 DEF Listing, LayerTree
  <2> QED
    BY <2>3, <2>4, <2>5, <2>6 DEF Lists
<1> QED
  BY <1>2, <1>3, <1>5 DEF ListsShowDocument

LEMMA SideBegins == SideInit => SideIs
<1>1. 0 \in Nat
  OBVIOUS
<1> QED
  BY <1>1, SideEmpty DEF SideInit, SideIs

\* For any number of versions, pages and calls: the lists that wait for no job show
\* what the document of the window has, and the entry selected in the outline is for
\* the page shown, however reloads, additions and layers come between the jobs.
THEOREM ListsAlwaysRight ==
  SideInit /\ [][SideNext]_sideVars => [](ListsShowDocument /\ OutlineShowsPage)
<1>1. SideInit => SideIs
  BY SideBegins
<1>2. SideIs /\ [SideNext]_sideVars => SideIs'
  BY SideStep
<1>3. SideIs => ListsShowDocument /\ OutlineShowsPage
  BY SideShows
<1> QED
  BY <1>1, <1>2, <1>3, PTL

-----------------------------------------------------------------------------
(* The data of the pages.  The invariant is about the record of the cache, *)
(* the contents of the document, and the pages X that have changed and     *)
(* that the cache does not yet know of.                                    *)

DataSlot == [job : 0 .. DataJobs, done : BOOLEAN, dirty : BOOLEAN,
             flags : SUBSET Kinds, have : SUBSET Kinds]
DataWork == [page : -1 .. (DataPages - 1), flags : SUBSET Kinds, got : SUBSET Kinds]
DataRange == [start : DataPage, end : DataPage, flags : SUBSET Kinds, calls : Nat]
DataLine == [waiting : Seq(1 .. DataJobs), running : 0 .. DataJobs, idle : Seq(1 .. DataJobs)]
DataPageList == [DataPage -> DataSlot]
DataWorkList == [1 .. DataJobs -> DataWork]
DataWorld == [data : DataPageList, wanted : DataRange, job : DataWorkList, queue : DataLine]

Before(seq, i, j) == \E k, n \in DOMAIN seq : k < n /\ seq[k] = i /\ seq[n] = j
Distinct(seq) == \A i \in ToSet(seq) : ~Before(seq, i, i)

\* Every job that is alive is in one place.
Placed(s) ==
  LET q == s.queue
      W == ToSet(q.waiting)
      I == ToSet(q.idle)
  IN /\ Distinct(q.waiting) /\ Distinct(q.idle)
     /\ W \intersect I = {} /\ q.running \notin W /\ q.running \notin I
     /\ \A j \in 1 .. DataJobs : s.job[j].page # -1 <=> (j \in W \/ j \in I \/ j = q.running)

SlotFits(s, c, p) ==
  LET d == s.data[p]
  IN /\ d.job # 0 => s.job[d.job].page = p
     /\ d.have \subseteq c[p] \intersect d.flags /\ d.flags \subseteq s.wanted.flags

\* What a job that has run brings of its page replaces less.
WorkFits(s, c, j) ==
  LET w == s.job[j]
      d == s.data[w.page]
  IN w.page # -1 =>
       /\ w.flags \subseteq d.flags /\ w.got \subseteq w.flags \intersect c[w.page]
       /\ IF j \in ToSet(s.queue.waiting) THEN w.got = {}
          ELSE d.have \intersect w.flags \subseteq w.got

\* The later of two jobs that have run knows what the earlier one has found.
Ahead(s, i, j) == \/ Before(s.queue.idle, i, j)
                  \/ i \in ToSet(s.queue.idle) /\ j = s.queue.running
OrderFits(s) ==
  \A i, j \in 1 .. DataJobs :
    Ahead(s, i, j) /\ s.job[i].page = s.job[j].page
      => s.job[i].got \intersect s.job[j].flags \subseteq s.job[j].got

\* The page has k, or a job will bring it.
WillHave(s, p, k) ==
  \/ k \in s.data[p].have
  \/ \E j \in 1 .. DataJobs :
       /\ s.job[j].page = p
       /\ k \in IF j \in ToSet(s.queue.waiting) THEN s.job[j].flags ELSE s.job[j].got
Attended(s, p) == s.data[p].done \/ \E j \in 1 .. DataJobs : s.job[j].page = p
PageFits(s, c, p) ==
  Attended(s, p) => \A k \in c[p] \intersect s.data[p].flags : WillHave(s, p, k)

DataFits(s, c, X) ==
  /\ s \in DataWorld /\ c \in [DataPage -> SUBSET Kinds]
  /\ s.wanted.end - s.wanted.start \in {0, 1} /\ DefaultFlags \subseteq s.wanted.flags
  /\ Placed(s) /\ OrderFits(s)
  /\ \A p \in DataPage : SlotFits(s, c, p)
  /\ \A j \in 1 .. DataJobs : WorkFits(s, c, j)
  /\ \A p \in DataPage : p \in X \/ PageFits(s, c, p)

LEMMA DataAppended ==
  ASSUME NEW S, NEW seq \in Seq(S), Distinct(seq), NEW x \in S, x \notin ToSet(seq)
  PROVE  /\ Append(seq, x) \in Seq(S) /\ ToSet(Append(seq, x)) = ToSet(seq) \union {x}
         /\ Distinct(Append(seq, x))
         /\ \A i, j : Before(Append(seq, x), i, j)
                        => Before(seq, i, j) \/ (i \in ToSet(seq) /\ j = x)
<1> DEFINE t == Append(seq, x)
           n == Len(seq)
<1>1. /\ t \in Seq(S) /\ DOMAIN t = 1 .. (n + 1) /\ n \in Nat /\ DOMAIN seq = 1 .. n
      /\ \A k \in 1 .. n : t[k] = seq[k]
      /\ t[n + 1] = x
  OBVIOUS
<1> HIDE DEF t, n
<1>2. ToSet(t) = ToSet(seq) \union {x}
  <2>1. ASSUME NEW y \in ToSet(t) PROVE y \in ToSet(seq) \union {x}
    <3>1. PICK k \in 1 .. (n + 1) : y = t[k]
      BY <1>1 DEF ToSet
    <3>2. k \in 1 .. n \/ k = n + 1
      BY <1>1
    <3> QED
      BY <1>1, <3>1, <3>2 DEF ToSet
  <2>2. ASSUME NEW y \in ToSet(seq) PROVE y \in ToSet(t)
    <3>1. PICK k \in 1 .. n : y = seq[k]
      BY <1>1 DEF ToSet
    <3>2. k \in 1 .. (n + 1) /\ t[k] = y
      BY <1>1, <3>1
    <3> QED
      BY <1>1, <3>2 DEF ToSet
  <2>3. x \in ToSet(t)
    <3>1. n + 1 \in 1 .. (n + 1)
      BY <1>1
    <3> QED
      BY <1>1, <3>1 DEF ToSet
  <2> QED
    BY <2>1, <2>2, <2>3
<1>3. ASSUME NEW i, NEW j, Before(t, i, j)
      PROVE  Before(seq, i, j) \/ (i \in ToSet(seq) /\ j = x)
  <2>1. PICK k \in 1 .. (n + 1), m \in 1 .. (n + 1) : k < m /\ t[k] = i /\ t[m] = j
    BY <1>1, <1>3 DEF Before
  <2>2. k \in 1 .. n /\ i = seq[k]
    BY <1>1, <2>1
  <2>3. m \in 1 .. n \/ m = n + 1
    BY <1>1
  <2>4. CASE m \in 1 .. n
    BY <1>1, <2>1, <2>2, <2>4 DEF Before
  <2>5. CASE m = n + 1
    BY <1>1, <2>1, <2>2, <2>5 DEF ToSet
  <2> QED
    BY <2>3, <2>4, <2>5
<1>4. Distinct(t)
  <2>1. SUFFICES ASSUME NEW i \in ToSet(t), Before(t, i, i) PROVE FALSE
    BY DEF Distinct
  <2>2. Before(seq, i, i) \/ (i \in ToSet(seq) /\ i = x)
    BY <1>3, <2>1
  <2>3. i \in ToSet(seq)
    BY <1>1, <2>2 DEF Before, ToSet
  <2> QED
    BY <2>2, <2>3 DEF Distinct
<1> QED
  BY <1>1, <1>2, <1>3, <1>4 DEF t

LEMMA DataTaken ==
  ASSUME NEW S, NEW seq \in Seq(S), Distinct(seq), seq # <<>>
  PROVE  /\ Tail(seq) \in Seq(S) /\ Head(seq) \in S /\ Head(seq) \in ToSet(seq)
         /\ ToSet(Tail(seq)) = ToSet(seq) \ {Head(seq)} /\ Distinct(Tail(seq))
         /\ \A i, j : Before(Tail(seq), i, j) => Before(seq, i, j)
         /\ \A j \in ToSet(Tail(seq)) : Before(seq, Head(seq), j)
<1> DEFINE t == Tail(seq)
           n == Len(seq)
           h == Head(seq)
<1>1. /\ t \in Seq(S) /\ DOMAIN t = 1 .. (n - 1) /\ n \in Nat /\ n # 0 /\ DOMAIN seq = 1 .. n
      /\ \A k \in 1 .. (n - 1) : t[k] = seq[k + 1]
      /\ h = seq[1] /\ h \in S
  OBVIOUS
<1> HIDE DEF t, n, h
<1>2. ASSUME NEW i, NEW j, Before(t, i, j) PROVE Before(seq, i, j)
  <2>1. PICK k \in 1 .. (n - 1), m \in 1 .. (n - 1) : k < m /\ t[k] = i /\ t[m] = j
    BY <1>1, <1>2 DEF Before
  <2>2. k + 1 \in 1 .. n /\ m + 1 \in 1 .. n /\ k + 1 < m + 1 /\ seq[k + 1] = i /\ seq[m + 1] = j
    BY <1>1, <2>1
  <2> QED
    BY <1>1, <2>2 DEF Before
<1>3. ASSUME NEW j \in ToSet(t) PROVE Before(seq, h, j) /\ j \in ToSet(seq)
  <2>1. PICK k \in 1 .. (n - 1) : j = t[k]
    BY <1>1 DEF ToSet
  <2>2. k + 1 \in 1 .. n /\ 1 \in 1 .. n /\ 1 < k + 1 /\ seq[k + 1] = j
    BY <1>1, <2>1
  <2> QED
    BY <1>1, <2>2 DEF Before, ToSet
<1>4. h \in ToSet(seq)
  BY <1>1 DEF ToSet
<1>5. ToSet(t) = ToSet(seq) \ {h}
  <2>1. h \notin ToSet(t)
    BY <1>3, <1>4 DEF Distinct
  <2>2. ASSUME NEW y \in ToSet(seq), y # h PROVE y \in ToSet(t)
    <3>1. PICK k \in 1 .. n : y = seq[k]
      BY <1>1 DEF ToSet
    <3>2. k - 1 \in 1 .. (n - 1) /\ t[k - 1] = y
      BY <1>1, <2>2, <3>1
    <3> QED
      BY <1>1, <3>2 DEF ToSet
  <2> QED
    BY <1>3, <2>1, <2>2
<1>6. Distinct(t)
  BY <1>2, <1>5 DEF Distinct
<1> QED
  BY <1>1, <1>2, <1>3, <1>4, <1>5, <1>6 DEF t, h

LEMMA FirstOfThese ==
  ASSUME NEW S, NEW seq \in Seq(S), NEW x, x \in ToSet(seq)
  PROVE  \E k \in DOMAIN seq : seq[k] = x /\ RemoveFirst(seq, x) = RemoveAt(seq, k)
<1> DEFINE I == {k \in 1 .. Len(seq) : seq[k] = x}
<1>1. Len(seq) \in Nat /\ DOMAIN seq = 1 .. Len(seq)
  OBVIOUS
<1>2. I \in SUBSET Nat /\ I # {}
  BY <1>1 DEF ToSet
<1>3. Min(I) \in I
  <2>1. \E m \in I : \A y \in I : m <= y
    BY <1>2, PixLeast
  <2> QED
    BY <2>1 DEF Min
<1>4. SelectInSeq(seq, LAMBDA v : v = x) = Min(I)
  BY <1>2 DEF SelectInSeq
<1>5. RemoveFirst(seq, x) = RemoveAt(seq, Min(I))
  BY <1>2, <1>4 DEF RemoveFirst
<1> QED
  BY <1>1, <1>3, <1>5

\* What is left when an entry is taken out of a sequence
LEMMA RemovedAt ==
  ASSUME NEW S, NEW seq \in Seq(S), NEW k \in DOMAIN seq
  PROVE  LET t == RemoveAt(seq, k)
             n == Len(seq)
         IN /\ t \in Seq(S) /\ DOMAIN t = 1 .. (n - 1) /\ n \in Nat /\ DOMAIN seq = 1 .. n
            /\ k \in 1 .. n /\ Len(t) = n - 1
            /\ \A m \in 1 .. (n - 1) : t[m] = seq[IF m < k THEN m ELSE m + 1]
<1> DEFINE t == RemoveAt(seq, k)
           n == Len(seq)
           From(m) == IF m < k THEN m ELSE m + 1
<1> DEFINE a == SubSeq(seq, 1, k - 1)
           b == SubSeq(seq, k + 1, n)
<1>1. n \in Nat /\ DOMAIN seq = 1 .. n /\ k \in 1 .. n
  OBVIOUS
<1>2. a \in Seq(S) /\ Len(a) = k - 1 /\ \A m \in 1 .. (k - 1) : a[m] = seq[m]
  OBVIOUS
<1>3. b \in Seq(S) /\ Len(b) = n - k /\ \A m \in 1 .. (n - k) : b[m] = seq[m + k]
  OBVIOUS
<1>4. t = a \o b
  BY DEF RemoveAt
<1> HIDE DEF a, b, t, n
<1>5. t \in Seq(S) /\ Len(t) = n - 1 /\ DOMAIN t = 1 .. (n - 1)
  BY <1>1, <1>2, <1>3, <1>4
<1>6. ASSUME NEW m \in 1 .. (n - 1) PROVE t[m] = seq[From(m)]
  <2>1. CASE m < k
    BY <1>1, <1>2, <1>3, <1>4, <1>6, <2>1
  <2>2. CASE ~(m < k)
    <3>1. m - (k - 1) \in 1 .. (n - k) /\ m - (k - 1) + k = m + 1
      BY <1>1, <1>6, <2>2
    <3>2. t[m] = b[m - (k - 1)]
      BY <1>1, <1>2, <1>3, <1>4, <1>6, <2>2
    <3> QED
      BY <1>3, <2>2, <3>1, <3>2
  <2> QED
    BY <2>1, <2>2
<1> QED
  BY <1>1, <1>5, <1>6 DEF t, n

LEMMA DataRemoved ==
  ASSUME NEW S, NEW seq \in Seq(S), Distinct(seq), NEW x
  PROVE  /\ RemoveFirst(seq, x) \in Seq(S) /\ ToSet(RemoveFirst(seq, x)) = ToSet(seq) \ {x}
         /\ Distinct(RemoveFirst(seq, x))
         /\ \A i, j : Before(RemoveFirst(seq, x), i, j) => Before(seq, i, j)
<1>1. CASE x \notin ToSet(seq)
  <2>1. RemoveFirst(seq, x) = seq
    BY <1>1 DEF RemoveFirst, ToSet
  <2> QED
    BY <1>1, <2>1
<1>2. CASE x \in ToSet(seq)
  <2>1. PICK k \in DOMAIN seq : seq[k] = x /\ RemoveFirst(seq, x) = RemoveAt(seq, k)
    BY <1>2, FirstOfThese
  <2> DEFINE t == RemoveAt(seq, k)
             n == Len(seq)
             From(m) == IF m < k THEN m ELSE m + 1
  <2>2. /\ t \in Seq(S) /\ DOMAIN t = 1 .. (n - 1) /\ n \in Nat /\ DOMAIN seq = 1 .. n
        /\ k \in 1 .. n /\ \A m \in 1 .. (n - 1) : t[m] = seq[From(m)]
    BY RemovedAt
  <2> HIDE DEF t, n
  <2>3. ASSUME NEW i, NEW j, Before(t, i, j) PROVE Before(seq, i, j)
    <3>1. PICK m \in 1 .. (n - 1), l \in 1 .. (n - 1) : m < l /\ t[m] = i /\ t[l] = j
      BY <2>2, <2>3 DEF Before
    <3>2. From(m) \in 1 .. n /\ From(l) \in 1 .. n /\ From(m) < From(l)
      BY <2>2, <3>1
    <3>3. seq[From(m)] = i /\ seq[From(l)] = j
      BY <2>2, <3>1
    <3> QED
      BY <2>2, <3>2, <3>3 DEF Before
  <2>4. ASSUME NEW m \in 1 .. n, m # k PROVE ~(seq[m] = x)
    <3>1. m < k \/ k < m
      BY <2>2, <2>4
    <3>2. seq[m] = x => Before(seq, x, x)
      BY <2>1, <2>2, <3>1 DEF Before
    <3> QED
      BY <1>2, <3>2 DEF Distinct
  <2>5. ToSet(t) = ToSet(seq) \ {x}
    <3>1. ASSUME NEW y \in ToSet(t) PROVE y \in ToSet(seq) /\ y # x
      <4>1. PICK m \in 1 .. (n - 1) : y = t[m]
        BY <2>2 DEF ToSet
      <4>2. From(m) \in 1 .. n /\ From(m) # k /\ y = seq[From(m)]
        BY <2>2, <4>1
      <4> HIDE DEF From
      <4> QED
        BY <2>2, <2>4, <4>2 DEF ToSet
    <3>2. ASSUME NEW y \in ToSet(seq), y # x PROVE y \in ToSet(t)
      <4>1. PICK l \in 1 .. n : y = seq[l]
        BY <2>2 DEF ToSet
      <4> DEFINE m == IF l < k THEN l ELSE l - 1
      <4>2. l # k
        BY <2>1, <3>2, <4>1
      <4>3. m \in 1 .. (n - 1) /\ From(m) = l
        BY <2>2, <4>2
      <4>4. t[m] = y
        BY <2>2, <4>1, <4>3
      <4> HIDE DEF m
      <4> QED
        BY <2>2, <4>3, <4>4 DEF ToSet
    <3> QED
      BY <3>1, <3>2
  <2>6. Distinct(t)
    BY <2>3, <2>5 DEF Distinct
  <2> QED
    BY <2>1, <2>2, <2>3, <2>5, <2>6 DEF t
<1> QED
  BY <1>1, <1>2

LEMMA DataTyped ==
  ASSUME NEW s \in DataWorld
  PROVE  /\ s.data \in [DataPage -> DataSlot] /\ s.wanted \in DataRange
         /\ s.job \in [1 .. DataJobs -> DataWork] /\ s.queue \in DataLine
         /\ s.queue.waiting \in Seq(1 .. DataJobs) /\ s.queue.idle \in Seq(1 .. DataJobs)
         /\ s.queue.running \in 0 .. DataJobs
         /\ ToSet(s.queue.waiting) \subseteq 1 .. DataJobs
         /\ ToSet(s.queue.idle) \subseteq 1 .. DataJobs
         /\ DataJobs \in Nat /\ DataPages \in Nat
<1>1. /\ s.data \in [DataPage -> DataSlot] /\ s.wanted \in DataRange
      /\ s.job \in [1 .. DataJobs -> DataWork] /\ s.queue \in DataLine
  BY DEF DataWorld, DataPageList, DataWorkList
<1>2. /\ s.queue.waiting \in Seq(1 .. DataJobs) /\ s.queue.idle \in Seq(1 .. DataJobs)
      /\ s.queue.running \in 0 .. DataJobs
  BY <1>1 DEF DataLine
<1>3. ASSUME NEW q \in Seq(1 .. DataJobs) PROVE ToSet(q) \subseteq 1 .. DataJobs
  <2>1. \A i \in DOMAIN q : q[i] \in 1 .. DataJobs
    BY SeqEntry
  <2> QED
    BY <2>1 DEF ToSet
<1> QED
  BY <1>1, <1>2, <1>3, PageCacheAssumption

LEMMA DataSlots ==
  ASSUME NEW d \in DataSlot
  PROVE  /\ d.job \in 0 .. DataJobs /\ d.flags \subseteq Kinds /\ d.have \subseteq Kinds
         /\ [d EXCEPT !.job = 0] \in DataSlot /\ [d EXCEPT !.job = 0].job = 0
         /\ [d EXCEPT !.job = 0].have = d.have /\ [d EXCEPT !.job = 0].flags = d.flags
         /\ [d EXCEPT !.job = 0].dirty = d.dirty
<1>1. 0 \in 0 .. DataJobs
  BY PageCacheAssumption
<1> QED
  BY <1>1 DEF DataSlot

LEMMA NoWork == NoDataJob \in DataWork /\ NoDataJob.page = -1
BY PageCacheAssumption DEF NoDataJob, DataWork

\* The cache after the job of p is cancelled.
LEMMA DataCancelled ==
  ASSUME NEW s, NEW c, NEW X, DataFits(s, c, X), NEW p \in DataPage,
         NEW v, v = CancelData(s, p)
  PROVE  /\ DataFits(v, c, X \union {p}) /\ v.wanted = s.wanted
         /\ v.data[p].have = s.data[p].have /\ v.data[p].flags = s.data[p].flags
         /\ \A r \in DataPage : v.data[r].dirty = s.data[r].dirty
         /\ \A i \in 1 .. DataJobs : s.job[i].page = -1 => v.job[i].page = -1
<1> DEFINE j == s.data[p].job
           Y == X \union {p}
<1>0. /\ s \in DataWorld /\ c \in [DataPage -> SUBSET Kinds]
      /\ s.wanted.end - s.wanted.start \in {0, 1} /\ DefaultFlags \subseteq s.wanted.flags
      /\ Placed(s) /\ OrderFits(s)
      /\ \A r \in DataPage : SlotFits(s, c, r)
      /\ \A i \in 1 .. DataJobs : WorkFits(s, c, i)
      /\ \A r \in DataPage : r \in X \/ PageFits(s, c, r)
  BY DEF DataFits
<1>1. CASE j = 0 \/ s.queue.running = j
  <2>1. v = s
    BY <1>1 DEF CancelData
  <2>2. \A r \in DataPage : r \in Y \/ PageFits(s, c, r)
    BY <1>0
  <2> HIDE DEF Y
  <2>3. DataFits(s, c, Y)
    BY <1>0, <2>2 DEF DataFits
  <2> QED
    BY <2>1, <2>3 DEF Y
<1>2. CASE ~(j = 0 \/ s.queue.running = j)
  <2> DEFINE W2 == RemoveFirst(s.queue.waiting, j)
             I2 == RemoveFirst(s.queue.idle, j)
             d == [s.data[p] EXCEPT !.job = 0]
             q == [s.queue EXCEPT !.waiting = W2, !.idle = I2]
             data2 == [s.data EXCEPT ![p] = d]
             job2 == [s.job EXCEPT ![j] = NoDataJob]
  <2>1. v = [s EXCEPT !.data = data2, !.job = job2, !.queue = q]
    BY <1>2 DEF CancelData
  <2>2. /\ s.data[p] \in DataSlot /\ s.queue \in DataLine
        /\ s.queue.waiting \in Seq(1 .. DataJobs) /\ s.queue.idle \in Seq(1 .. DataJobs)
        /\ s.queue.running \in 0 .. DataJobs /\ DataJobs \in Nat
        /\ ToSet(s.queue.waiting) \subseteq 1 .. DataJobs
        /\ ToSet(s.queue.idle) \subseteq 1 .. DataJobs
    BY <1>0, DataTyped
  <2>3. j \in 1 .. DataJobs
    BY <1>2, <2>2 DEF DataSlot
  <2>4. /\ d \in DataSlot /\ d.job = 0 /\ d.have = s.data[p].have /\ d.flags = s.data[p].flags
        /\ d.dirty = s.data[p].dirty
    BY <2>2, DataSlots
  <2>5. Distinct(s.queue.waiting) /\ Distinct(s.queue.idle)
    BY <1>0 DEF Placed
  <2>6. /\ W2 \in Seq(1 .. DataJobs) /\ ToSet(W2) = ToSet(s.queue.waiting) \ {j} /\ Distinct(W2)
        /\ I2 \in Seq(1 .. DataJobs) /\ ToSet(I2) = ToSet(s.queue.idle) \ {j} /\ Distinct(I2)
        /\ \A a, b : Before(I2, a, b) => Before(s.queue.idle, a, b)
    BY <2>2, <2>5, DataRemoved
  <2> HIDE DEF W2, I2, d, j
  <2>7. q \in DataLine /\ q.waiting = W2 /\ q.idle = I2 /\ q.running = s.queue.running
    BY <2>2, <2>6 DEF DataLine
  <2> HIDE DEF q
  <2>8. /\ v \in DataWorld /\ v.wanted = s.wanted /\ v.queue = q
        /\ v.data[p] = d /\ \A r \in DataPage : r # p => v.data[r] = s.data[r]
        /\ v.job[j] = NoDataJob /\ \A i \in 1 .. DataJobs : i # j => v.job[i] = s.job[i]
    <3>1. NoDataJob \in DataWork
      BY NoWork
    <3>2. s.data \in [DataPage -> DataSlot] /\ s.job \in [1 .. DataJobs -> DataWork]
      BY <1>0, DataTyped
    <3>3. /\ data2 \in DataPageList /\ data2[p] = d
          /\ \A r \in DataPage : r # p => data2[r] = s.data[r]
      BY <2>4, <3>2 DEF DataPageList
    <3>4. /\ job2 \in DataWorkList /\ job2[j] = NoDataJob
          /\ \A i \in 1 .. DataJobs : i # j => job2[i] = s.job[i]
      BY <2>3, <3>1, <3>2 DEF DataWorkList
    <3> HIDE DEF data2, job2
    <3>5. v \in DataWorld /\ v.data = data2 /\ v.wanted = s.wanted /\ v.job = job2 /\ v.queue = q
      <4>1. s \in DataWorld
        BY <1>0
      <4> QED
        BY <2>1, <2>7, <3>3, <3>4, <4>1 DEF DataWorld
    <3> QED
      BY <3>3, <3>4, <3>5
  <2>9. Placed(v)
    BY <1>0, <2>3, <2>6, <2>7, <2>8, NoWork, <1>2 DEF Placed, j
  <2>10. OrderFits(v)
    <3>1. SUFFICES ASSUME NEW a \in 1 .. DataJobs, NEW b \in 1 .. DataJobs,
                          Ahead(v, a, b), v.job[a].page = v.job[b].page
                   PROVE  v.job[a].got \intersect v.job[b].flags \subseteq v.job[b].got
      BY DEF OrderFits
    <3>2. Ahead(s, a, b)
      BY <2>6, <2>7, <2>8, <3>1 DEF Ahead
    <3>3. a # j
      <4>1. Ahead(v, a, b) => a \in ToSet(I2)
        BY <2>6, <2>7, <2>8 DEF Ahead, Before, ToSet
      <4> QED
        BY <2>6, <3>1, <4>1
    <3>4. CASE b # j
      BY <1>0, <2>8, <3>1, <3>2, <3>3, <3>4 DEF OrderFits
    <3>5. CASE b = j
      BY <2>8, <3>5, NoWork DEF NoDataJob
    <3> QED
      BY <3>4, <3>5
  <2>11. s.job[j].page = p
    BY <1>0, <1>2 DEF SlotFits, j
  <2>12. ASSUME NEW r \in DataPage PROVE SlotFits(v, c, r)
    <3>1. SlotFits(s, c, r)
      BY <1>0
    <3>2. CASE r = p
      BY <2>4, <2>8, <3>1, <3>2 DEF SlotFits
    <3>3. CASE r # p
      <4>1. v.data[r] = s.data[r] /\ s.data[r] \in DataSlot
        BY <1>0, <2>8, <3>3, DataTyped
      <4>2. s.data[r].job # 0 => s.data[r].job \in 1 .. DataJobs /\ s.data[r].job # j
        BY <2>2, <2>11, <3>1, <3>3, <4>1 DEF SlotFits, DataSlot
      <4> QED
        BY <2>8, <3>1, <4>1, <4>2 DEF SlotFits
    <3> QED
      BY <3>2, <3>3
  <2>13. ASSUME NEW i \in 1 .. DataJobs PROVE WorkFits(v, c, i)
    <3>1. CASE i = j
      BY <2>8, <3>1, NoWork DEF WorkFits
    <3>2. CASE i # j
      <4>1. WorkFits(s, c, i) /\ v.job[i] = s.job[i] /\ s.job[i] \in DataWork
        BY <1>0, <2>8, <3>2, DataTyped
      <4>2. i \in ToSet(v.queue.waiting) <=> i \in ToSet(s.queue.waiting)
        BY <2>6, <2>7, <2>8, <3>2
      <4>3. s.job[i].page # -1 => s.job[i].page \in DataPage
        BY <4>1, PageCacheAssumption DEF DataWork, DataPage
      <4>4. s.job[i].page # -1 => /\ v.data[s.job[i].page].flags = s.data[s.job[i].page].flags
                                  /\ v.data[s.job[i].page].have = s.data[s.job[i].page].have
        BY <2>4, <2>8, <4>3
      <4> QED
        BY <4>1, <4>2, <4>4 DEF WorkFits
    <3> QED
      BY <3>1, <3>2
  <2>14. ASSUME NEW r \in DataPage PROVE r \in Y \/ PageFits(v, c, r)
    <3>1. CASE r \in X \union {p}
      BY <3>1
    <3>2. CASE r \notin X \union {p}
      <4>1. v.data[r] = s.data[r] /\ PageFits(s, c, r)
        BY <1>0, <2>8, <3>2
      <4>2. \A i \in 1 .. DataJobs : s.job[i].page = r => v.job[i] = s.job[i] /\ i # j
        BY <2>8, <2>11, <3>2
      <4>3. \A i \in 1 .. DataJobs : v.job[i].page = r => s.job[i].page = r
        BY <2>8, NoWork, PageCacheAssumption DEF DataPage
      <4>4. \A i \in 1 .. DataJobs : i # j =>
              (i \in ToSet(v.queue.waiting) <=> i \in ToSet(s.queue.waiting))
        BY <2>6, <2>7, <2>8
      <4>5. Attended(v, r) => Attended(s, r)
        BY <4>1, <4>3 DEF Attended
      <4>6. \A k : WillHave(s, r, k) => WillHave(v, r, k)
        BY <4>1, <4>2, <4>4 DEF WillHave
      <4> QED
        BY <4>1, <4>5, <4>6 DEF PageFits
    <3> QED
      BY <3>1, <3>2
  <2> HIDE DEF Y
  <2>15. DataFits(v, c, Y)
    BY <1>0, <2>8, <2>9, <2>10, <2>12, <2>13, <2>14 DEF DataFits
  <2>16. \A i \in 1 .. DataJobs : s.job[i].page = -1 => v.job[i].page = -1
    BY <2>8, NoWork
  <2>17. \A r \in DataPage : v.data[r].dirty = s.data[r].dirty
    BY <2>4, <2>8
  <2> QED
    BY <2>4, <2>8, <2>15, <2>16, <2>17 DEF Y
<1> QED
  BY <1>1, <1>2

\* A page is scheduled, if need be: what is missing of it will come.
LEMMA DataScheduled ==
  ASSUME NEW s, NEW c, NEW X, DataFits(s, c, X), NEW p \in DataPage,
         p \in X => s.data[p].dirty, \E i \in 1 .. DataJobs : s.job[i].page = -1,
         NEW v, v = ScheduleJobIfNeeded(s, p)
  PROVE  /\ DataFits(v, c, X \ {p}) /\ v.wanted = s.wanted
         /\ \A r \in DataPage : v.data[r].dirty = s.data[r].dirty
         /\ \E j \in 1 .. DataJobs : \A i \in 1 .. DataJobs :
              i # j /\ s.job[i].page = -1 => v.job[i].page = -1
<1> DEFINE F == FlagsForData(s, p)
           u == CancelData(s, p)
           j == UnusedJob(u)
           settled == /\ s.data[p].flags = s.wanted.flags /\ ~s.data[p].dirty
                      /\ s.data[p].done \/ s.data[p].job # 0
           Y == X \ {p}
<1>1. CASE settled
  <2>1. v = s
    BY <1>1 DEF ScheduleJobIfNeeded
  <2>2. Y = X
    BY <1>1
  <2>3. 1 \in 1 .. DataJobs
    BY PageCacheAssumption
  <2> QED
    BY <2>1, <2>2, <2>3
<1>2. CASE ~settled
  <2> DEFINE d == [u.data[p] EXCEPT !.flags = s.wanted.flags, !.job = j]
             w == [page |-> p, flags |-> F, got |-> {}]
             W2 == Append(u.queue.waiting, j)
             q == [u.queue EXCEPT !.waiting = W2]
             data2 == [u.data EXCEPT ![p] = d]
             job2 == [u.job EXCEPT ![j] = w]
             Z == X \union {p}
  <2>1. v = [u EXCEPT !.data = data2, !.job = job2, !.queue = q]
    BY <1>2 DEF ScheduleJobIfNeeded
  <2>2. /\ DataFits(u, c, Z) /\ u.wanted = s.wanted
        /\ u.data[p].have = s.data[p].have /\ u.data[p].flags = s.data[p].flags
        /\ \A r \in DataPage : u.data[r].dirty = s.data[r].dirty
        /\ \A i \in 1 .. DataJobs : s.job[i].page = -1 => u.job[i].page = -1
    BY DataCancelled
  <2>3. F \subseteq s.wanted.flags /\ s.wanted.flags \subseteq F \union s.data[p].have
    BY DEF FlagsForData
  <2> HIDE DEF u, F
  <2>4. /\ u \in DataWorld /\ c \in [DataPage -> SUBSET Kinds]
        /\ u.wanted.end - u.wanted.start \in {0, 1} /\ DefaultFlags \subseteq u.wanted.flags
        /\ Placed(u) /\ OrderFits(u)
        /\ \A r \in DataPage : SlotFits(u, c, r)
        /\ \A i \in 1 .. DataJobs : WorkFits(u, c, i)
        /\ \A r \in DataPage : r \in Z \/ PageFits(u, c, r)
    BY <2>2 DEF DataFits
  <2>5. j \in 1 .. DataJobs /\ u.job[j].page = -1
    <3> DEFINE T == {i \in 1 .. DataJobs : u.job[i].page = -1}
    <3>1. T \in SUBSET Nat /\ T # {}
      BY <2>2
    <3>2. PICK m \in T : \A n \in T : m <= n
      BY <3>1, PixLeast
    <3>3. \A i \in 1 .. (m - 1) : u.job[i].page # -1
      BY <3>2, PageCacheAssumption
    <3>4. \E i \in 1 .. DataJobs : /\ u.job[i].page = -1
                                   /\ \A n \in 1 .. (i - 1) : u.job[n].page # -1
      BY <3>2, <3>3
    <3> QED
      BY <3>4 DEF UnusedJob
  <2> HIDE DEF j
  <2>6. /\ u.data \in [DataPage -> DataSlot] /\ u.job \in [1 .. DataJobs -> DataWork]
        /\ u.queue \in DataLine /\ u.queue.waiting \in Seq(1 .. DataJobs)
        /\ u.wanted \in DataRange /\ u.wanted.flags \subseteq Kinds
    BY <2>4, DataTyped DEF DataRange
  <2>7. /\ d \in DataSlot /\ d.job = j /\ d.have = s.data[p].have /\ d.flags = s.wanted.flags
        /\ d.dirty = s.data[p].dirty
    <3>1. u.data[p] \in DataSlot /\ j \in 0 .. DataJobs
      BY <2>5, <2>6
    <3> QED
      BY <2>2, <2>6, <3>1 DEF DataSlot
  <2>8. w \in DataWork /\ w.page = p /\ w.flags = F /\ w.got = {}
    <3>1. p \in -1 .. (DataPages - 1) /\ p # -1
      BY DEF DataPage
    <3> QED
      BY <2>2, <2>3, <2>6, <3>1 DEF DataWork
  <2>9. /\ Distinct(u.queue.waiting) /\ j \notin ToSet(u.queue.waiting)
        /\ j \notin ToSet(u.queue.idle) /\ j # u.queue.running
    BY <2>4, <2>5 DEF Placed
  <2>10. /\ W2 \in Seq(1 .. DataJobs) /\ ToSet(W2) = ToSet(u.queue.waiting) \union {j}
         /\ Distinct(W2)
    <3> DEFINE N == 1 .. DataJobs
               seq == u.queue.waiting
    <3>1. seq \in Seq(N) /\ Distinct(seq) /\ j \in N /\ j \notin ToSet(seq)
      BY <2>5, <2>6, <2>9
    <3>2. W2 = Append(seq, j)
      OBVIOUS
    <3> HIDE DEF N, seq, W2
    <3>3. W2 \in Seq(N) /\ ToSet(W2) = ToSet(seq) \union {j} /\ Distinct(W2)
      BY <3>1, <3>2, DataAppended
    <3> QED
      BY <3>3 DEF N, seq
  <2> HIDE DEF d, w, W2
  <2>11. /\ q \in DataLine /\ q.waiting = W2 /\ q.idle = u.queue.idle
         /\ q.running = u.queue.running
    BY <2>6, <2>10 DEF DataLine
  <2>12. /\ data2 \in DataPageList /\ data2[p] = d
         /\ \A r \in DataPage : r # p => data2[r] = u.data[r]
    BY <2>6, <2>7 DEF DataPageList
  <2>13. /\ job2 \in DataWorkList /\ job2[j] = w
         /\ \A i \in 1 .. DataJobs : i # j => job2[i] = u.job[i]
    BY <2>5, <2>6, <2>8 DEF DataWorkList
  <2> HIDE DEF q, data2, job2
  <2>14. v \in DataWorld /\ v.data = data2 /\ v.wanted = u.wanted /\ v.job = job2 /\ v.queue = q
    <3>1. u \in DataWorld
      BY <2>4
    <3> QED
      BY <2>1, <2>11, <2>12, <2>13, <3>1 DEF DataWorld
  <2>15. \A i \in 1 .. DataJobs : i # j =>
           /\ v.job[i] = u.job[i]
           /\ i \in ToSet(v.queue.waiting) <=> i \in ToSet(u.queue.waiting)
    BY <2>10, <2>11, <2>13, <2>14
  <2>16. p # -1
    BY DEF DataPage
  <2>17. Placed(v)
    BY <2>4, <2>5, <2>8, <2>9, <2>10, <2>11, <2>13, <2>14, <2>16 DEF Placed
  <2>18. OrderFits(v)
    <3>1. SUFFICES ASSUME NEW a \in 1 .. DataJobs, NEW b \in 1 .. DataJobs,
                          Ahead(v, a, b), v.job[a].page = v.job[b].page
                   PROVE  v.job[a].got \intersect v.job[b].flags \subseteq v.job[b].got
      BY DEF OrderFits
    <3>2. Ahead(u, a, b)
      BY <2>11, <2>14, <3>1 DEF Ahead
    <3>3. a # j /\ b # j
      <4>1. /\ Ahead(u, a, b) => a \in ToSet(u.queue.idle)
            /\ Ahead(u, a, b) => b \in ToSet(u.queue.idle) \/ b = u.queue.running
        BY DEF Ahead, Before, ToSet
      <4> QED
        BY <2>9, <3>2, <4>1
    <3> QED
      BY <2>4, <2>15, <3>1, <3>2, <3>3 DEF OrderFits
  <2>19. ASSUME NEW r \in DataPage PROVE SlotFits(v, c, r)
    <3>1. SlotFits(u, c, r)
      BY <2>4
    <3>2. CASE r = p
      BY <2>2, <2>7, <2>8, <2>12, <2>13, <2>14, <3>1, <3>2 DEF SlotFits
    <3>3. CASE r # p
      <4>1. v.data[r] = u.data[r]
        BY <2>12, <2>14, <3>3
      <4>2. u.data[r].job # 0 => u.data[r].job \in 1 .. DataJobs
        <5>1. u.data[r] \in DataSlot
          BY <2>6
        <5>2. u.data[r].job \in 0 .. DataJobs
          BY <5>1 DEF DataSlot
        <5> QED
          BY <5>2, PageCacheAssumption
      <4>3. u.data[r].job # 0 => u.data[r].job # j
        BY <2>5, <3>1 DEF SlotFits, DataPage
      <4> QED
        BY <2>14, <2>15, <3>1, <4>1, <4>2, <4>3 DEF SlotFits
    <3> QED
      BY <3>2, <3>3
  <2>20. ASSUME NEW i \in 1 .. DataJobs PROVE WorkFits(v, c, i)
    <3>1. CASE i = j
      <4>1. i \in ToSet(v.queue.waiting)
        BY <2>10, <2>11, <2>14, <3>1
      <4> QED
        BY <2>3, <2>7, <2>8, <2>12, <2>13, <2>14, <3>1, <4>1 DEF WorkFits
    <3>2. CASE i # j
      <4>1. WorkFits(u, c, i) /\ v.job[i] = u.job[i] /\ u.job[i] \in DataWork
        BY <2>4, <2>6, <2>15, <3>2
      <4>2. i \in ToSet(v.queue.waiting) <=> i \in ToSet(u.queue.waiting)
        BY <2>15, <3>2
      <4>3. u.job[i].page # -1 => u.job[i].page \in DataPage
        BY <4>1, PageCacheAssumption DEF DataWork, DataPage
      <4>4. u.job[i].page # -1 =>
              /\ u.data[u.job[i].page].flags \subseteq v.data[u.job[i].page].flags
              /\ v.data[u.job[i].page].have = u.data[u.job[i].page].have
        <5>1. u.data[p].flags \subseteq d.flags
          BY <2>2, <2>4, <2>7 DEF SlotFits
        <5> QED
          BY <2>2, <2>7, <2>12, <2>14, <4>3, <5>1
      <4> QED
        BY <4>1, <4>2, <4>4 DEF WorkFits
    <3> QED
      BY <3>1, <3>2
  <2>21. ASSUME NEW r \in DataPage PROVE r \in Y \/ PageFits(v, c, r)
    <3>1. CASE r = p
      <4>1. j \in ToSet(v.queue.waiting) /\ v.job[j].page = p /\ v.job[j].flags = F
        BY <2>8, <2>10, <2>11, <2>13, <2>14
      <4>2. v.data[p].have = s.data[p].have /\ v.data[p].flags = s.wanted.flags
        BY <2>7, <2>12, <2>14
      <4>3. \A k \in v.data[p].flags : WillHave(v, p, k)
        BY <2>3, <2>5, <4>1, <4>2 DEF WillHave
      <4> QED
        BY <3>1, <4>3 DEF PageFits
    <3>2. CASE r # p /\ r \notin X
      <4>1. v.data[r] = u.data[r] /\ PageFits(u, c, r)
        BY <2>4, <2>12, <2>14, <3>2
      <4>2. \A i \in 1 .. DataJobs : u.job[i].page = r => i # j
        BY <2>5 DEF DataPage
      <4>3. \A i \in 1 .. DataJobs : v.job[i].page = r => i # j
        BY <2>8, <2>13, <2>14, <3>2
      <4>4. Attended(v, r) => Attended(u, r)
        BY <2>15, <4>1, <4>3 DEF Attended
      <4>5. \A k : WillHave(u, r, k) => WillHave(v, r, k)
        BY <2>15, <4>1, <4>2 DEF WillHave
      <4> QED
        BY <4>1, <4>4, <4>5 DEF PageFits
    <3> QED
      BY <3>1, <3>2
  <2> HIDE DEF Y
  <2>22. DataFits(v, c, Y)
    BY <2>4, <2>14, <2>17, <2>18, <2>19, <2>20, <2>21 DEF DataFits
  <2>23. \A r \in DataPage : v.data[r].dirty = s.data[r].dirty
    BY <2>2, <2>7, <2>12, <2>14
  <2>24. \A i \in 1 .. DataJobs : i # j /\ s.job[i].page = -1 => v.job[i].page = -1
    BY <2>2, <2>15
  <2> QED
    BY <2>2, <2>5, <2>14, <2>22, <2>23, <2>24 DEF Y
<1> QED
  BY <1>1, <1>2

\* The pages around the range, one distance more at every turn
AfterPage(end, i) == IF end + i < DataPages THEN <<end + i>> ELSE <<>>
BeforePage(start, i) == IF start - i > 0 THEN <<start - i>> ELSE <<>>
AroundSolves(f, n, start, end) ==
  f = [i \in 0 .. n |-> IF i = 0 THEN <<>>
                        ELSE f[i - 1] \o AfterPage(end, i) \o BeforePage(start, i)]

LEMMA AroundExists ==
  ASSUME NEW n \in Nat, NEW start, NEW end
  PROVE  \E f : AroundSolves(f, n, start, end)
<1> DEFINE T == {k \in 0 .. n : \E f : AroundSolves(f, k, start, end)}
<1>1. 0 \in T
  <2> DEFINE f == [i \in 0 .. 0 |-> <<>>]
  <2>1. AroundSolves(f, 0, start, end)
    BY DEF AroundSolves
  <2> QED
    BY <2>1
<1>2. ASSUME NEW k \in 1 .. n, k - 1 \in T
      PROVE  k \in T
  <2>1. PICK f : AroundSolves(f, k - 1, start, end)
    BY <1>2
  <2> DEFINE g == [i \in 0 .. k |-> IF i = 0 THEN <<>>
                     ELSE f[i - 1] \o AfterPage(end, i) \o BeforePage(start, i)]
  <2>2. \A i \in 0 .. k - 1 : i \in 0 .. k /\ f[i] = g[i]
    <3>1. \A i \in 0 .. k - 1 : i \in 0 .. k
      OBVIOUS
    <3>2. \A i \in 0 .. k - 1 :
            f[i] = IF i = 0 THEN <<>> ELSE f[i - 1] \o AfterPage(end, i) \o BeforePage(start, i)
      BY <2>1, Zenon DEF AroundSolves
    <3> QED
      BY <3>1, <3>2
  <2>3. \A i \in 0 .. k : i # 0 => i - 1 \in 0 .. k - 1
    OBVIOUS
  <2>4. g = [i \in 0 .. k |-> g[i]] /\ DOMAIN g = 0 .. k
    OBVIOUS
  <2>5. \A i \in 0 .. k :
          g[i] = IF i = 0 THEN <<>> ELSE f[i - 1] \o AfterPage(end, i) \o BeforePage(start, i)
    OBVIOUS
  <2> HIDE DEF g
  <2>6. \A i \in 0 .. k :
          g[i] = IF i = 0 THEN <<>> ELSE g[i - 1] \o AfterPage(end, i) \o BeforePage(start, i)
    BY <2>2, <2>3, <2>5
  <2>7. AroundSolves(g, k, start, end)
    BY <2>4, <2>6 DEF AroundSolves
  <2> QED
    BY <2>7
<1> HIDE DEF T
<1>3. n \in T
  <2>1. T \in SUBSET (0 .. n)
    BY DEF T
  <2> QED
    BY <1>1, <1>2, <2>1, PixAll
<1> QED
  BY <1>3 DEF T

\* The range comes first, and at most two pages more than the range are scheduled.
LEMMA RangeOrderIs ==
  ASSUME NEW start \in DataPage, NEW end \in DataPage, end - start \in {0, 1}
  PROVE  LET order == RangeOrder(start, end)
         IN /\ Len(order) \in 0 .. (2 + 2 * PreCacheSize)
            /\ \A i \in 1 .. Len(order) : order[i] \in DataPage
            /\ \A p \in DataPage : start <= p /\ p <= end => \E i \in 1 .. Len(order) : order[i] = p
<1> DEFINE n == DataPages
           f == CHOOSE around : AroundSolves(around, n, start, end)
           extra == f[n]
           m == IF Len(extra) < 2 * PreCacheSize THEN Len(extra) ELSE 2 * PreCacheSize
           here == [i \in 1 .. (end - start + 1) |-> start + i - 1]
           more == SubSeq(extra, 1, m)
           order == RangeOrder(start, end)
<1>0. /\ n \in Nat /\ start \in Int /\ end \in Int /\ PreCacheSize = 1
      /\ 0 <= start /\ end < n /\ DataPage = 0 .. (n - 1)
  BY PageCacheAssumption DEF DataPage, PreCacheSize
<1>a. n \in Nat /\ start \in Int /\ end \in Int /\ PreCacheSize = 1
  BY <1>0
<1>1. order = here \o more
  BY Zenon DEF RangeOrder, AroundSolves, AfterPage, BeforePage
<1> HIDE DEF n
<1>2. AroundSolves(f, n, start, end)
  BY <1>0, AroundExists
<1> HIDE DEF f
<1>3. \A i \in 0 .. n : f[i] = IF i = 0 THEN <<>>
                               ELSE f[i - 1] \o AfterPage(end, i) \o BeforePage(start, i)
  BY <1>2, Zenon DEF AroundSolves
<1>4. extra \in Seq(DataPage)
  <2> DEFINE T == {k \in 0 .. n : f[k] \in Seq(DataPage)}
  <2>1. 0 \in T
    <3>1. 0 \in 0 .. n
      BY <1>a
    <3>2. f[0] = <<>>
      BY <1>3, <3>1
    <3>3. <<>> \in Seq(DataPage)
      OBVIOUS
    <3> QED
      BY <3>1, <3>2, <3>3, Zenon
  <2>2. ASSUME NEW k \in 1 .. n, k - 1 \in T PROVE k \in T
    <3>1. f[k] = f[k - 1] \o AfterPage(end, k) \o BeforePage(start, k) /\ k \in 0 .. n
      <4>1. k \in 0 .. n /\ k # 0
        BY <1>a
      <4> QED
        BY <1>3, <4>1, Zenon
    <3>2. f[k - 1] \in Seq(DataPage)
      BY <2>2
    <3>3. AfterPage(end, k) \in Seq(DataPage)
      <4>1. end + k < n => end + k \in DataPage
        BY <1>0
      <4> QED
        BY <4>1 DEF AfterPage, n
    <3>4. BeforePage(start, k) \in Seq(DataPage)
      <4>1. start - k > 0 => start - k \in DataPage
        BY <1>0
      <4> QED
        BY <4>1 DEF BeforePage
    <3>5. f[k - 1] \o AfterPage(end, k) \o BeforePage(start, k) \in Seq(DataPage)
      BY <3>2, <3>3, <3>4
    <3> QED
      BY <3>1, <3>5
  <2> HIDE DEF T
  <2>3. n \in T
    <3>1. T \in SUBSET (0 .. n)
      BY DEF T
    <3> QED
      BY <1>0, <2>1, <2>2, <3>1, PixAll
  <2> QED
    BY <2>3 DEF T
<1> HIDE DEF extra
<1>5. /\ more \in Seq(DataPage) /\ Len(more) \in 0 .. 2
  <2>1. Len(extra) \in Nat /\ m \in 0 .. Len(extra) /\ m \in 0 .. 2 /\ DOMAIN extra = 1 .. Len(extra)
    <3>1. Len(extra) \in Nat /\ DOMAIN extra = 1 .. Len(extra)
      BY <1>4
    <3> QED
      BY <1>a, <3>1
  <2> HIDE DEF m
  <2>2. more \in Seq(DataPage) /\ Len(more) = m
    BY <1>4, <2>1
  <2> QED
    BY <2>1, <2>2
<1> HIDE DEF more
<1>6. /\ here \in Seq(DataPage) /\ Len(here) = end - start + 1
      /\ \A i \in 1 .. (end - start + 1) : here[i] = start + i - 1
  <2>1. end - start + 1 \in Nat
    BY <1>0
  <2>2. \A i \in 1 .. (end - start + 1) : start + i - 1 \in DataPage
    BY <1>0
  <2> QED
    BY <2>1, <2>2
<1> HIDE DEF here
<1>7. order \in Seq(DataPage) /\ Len(order) = Len(here) + Len(more)
  BY <1>1, <1>5, <1>6
<1>8. \A i \in 1 .. Len(here) : order[i] = here[i]
  BY <1>1, <1>5, <1>6
<1> HIDE DEF order
<1>9. ASSUME NEW p \in DataPage, start <= p, p <= end
      PROVE  \E i \in 1 .. Len(order) : order[i] = p
  <2>1. p - start + 1 \in 1 .. Len(here) /\ p - start + 1 \in 1 .. Len(order)
    BY <1>0, <1>5, <1>6, <1>7, <1>9
  <2>2. order[p - start + 1] = p
    BY <1>0, <1>6, <1>8, <2>1
  <2> QED
    BY <2>1, <2>2
<1>10. Len(order) \in 0 .. (2 + 2 * PreCacheSize)
  <2>1. 2 + 2 * PreCacheSize = 4 /\ end - start + 1 \in 0 .. 2
    BY <1>a
  <2> QED
    BY <1>5, <1>6, <1>7, <2>1
<1>11. \A i \in 1 .. Len(order) : order[i] \in DataPage
  BY <1>7
<1> QED
  BY <1>9, <1>10, <1>11 DEF order

FreeData(s) == {j \in 1 .. DataJobs : s.job[j].page = -1}

LEMMA FreeDataFinite ==
  ASSUME NEW s
  PROVE  IsFiniteSet(FreeData(s)) /\ Cardinality(FreeData(s)) \in Nat
<1>1. IsFiniteSet(1 .. DataJobs)
  <2>1. DataJobs \in Int /\ 1 \in Int
    BY PageCacheAssumption
  <2> QED
    BY <2>1, FS_Interval
<1>2. FreeData(s) \subseteq 1 .. DataJobs
  BY DEF FreeData
<1>3. IsFiniteSet(FreeData(s))
  BY <1>1, <1>2, FS_Subset
<1> QED
  BY <1>3, FS_CardinalityType

\* At most one of the free jobs is taken.
LEMMA FreeDataLess ==
  ASSUME NEW s, NEW v, NEW j \in 1 .. DataJobs,
         \A i \in 1 .. DataJobs : i # j /\ s.job[i].page = -1 => v.job[i].page = -1
  PROVE  Cardinality(FreeData(v)) >= Cardinality(FreeData(s)) - 1
<1>1. FreeData(s) \ {j} \subseteq FreeData(v)
  BY DEF FreeData
<1>2. Cardinality(FreeData(s) \ {j}) >= Cardinality(FreeData(s)) - 1
  <2>1. CASE j \in FreeData(s)
    <3>1. Cardinality(FreeData(s) \ {j}) = Cardinality(FreeData(s)) - 1
      BY <2>1, FreeDataFinite, FS_RemoveElement
    <3>2. Cardinality(FreeData(s)) \in Nat
      BY FreeDataFinite
    <3> QED
      BY <3>1, <3>2
  <2>2. CASE j \notin FreeData(s)
    <3>1. FreeData(s) \ {j} = FreeData(s)
      BY <2>2
    <3>2. Cardinality(FreeData(s)) \in Nat
      BY FreeDataFinite
    <3> QED
      BY <3>1, <3>2
  <2> QED
    BY <2>1, <2>2
<1>3. Cardinality(FreeData(s) \ {j}) <= Cardinality(FreeData(v))
  BY <1>1, FreeDataFinite, FS_Subset
<1>4. Cardinality(FreeData(s) \ {j}) \in Nat
  <2>1. IsFiniteSet(FreeData(s) \ {j})
    BY FreeDataFinite, FS_Subset
  <2> QED
    BY <2>1, FS_CardinalityType
<1> QED
  BY <1>2, <1>3, <1>4, FreeDataFinite

SchedulesSolve(f, n, s, order) ==
  f = [i \in 0 .. n |-> IF i = 0 THEN s ELSE ScheduleJobIfNeeded(f[i - 1], order[i])]
LEMMA SchedulesExist ==
  ASSUME NEW n \in Nat, NEW s, NEW order
  PROVE  \E f : SchedulesSolve(f, n, s, order)
<1> DEFINE T == {k \in 0 .. n : \E f : SchedulesSolve(f, k, s, order)}
<1>1. 0 \in T
  <2> DEFINE f == [i \in 0 .. 0 |-> s]
  <2>1. SchedulesSolve(f, 0, s, order)
    BY DEF SchedulesSolve
  <2> QED
    BY <2>1
<1>2. ASSUME NEW k \in 1 .. n, k - 1 \in T
      PROVE  k \in T
  <2>1. PICK f : SchedulesSolve(f, k - 1, s, order)
    BY <1>2
  <2> DEFINE g == [i \in 0 .. k |-> IF i = 0 THEN s ELSE ScheduleJobIfNeeded(f[i - 1], order[i])]
  <2>2. \A i \in 0 .. k - 1 : i \in 0 .. k /\ f[i] = g[i]
    <3>1. \A i \in 0 .. k - 1 : i \in 0 .. k
      OBVIOUS
    <3>2. \A i \in 0 .. k - 1 :
            f[i] = IF i = 0 THEN s ELSE ScheduleJobIfNeeded(f[i - 1], order[i])
      BY <2>1, Zenon DEF SchedulesSolve
    <3> QED
      BY <3>1, <3>2
  <2>3. \A i \in 0 .. k : i # 0 => i - 1 \in 0 .. k - 1
    OBVIOUS
  <2>4. g = [i \in 0 .. k |-> g[i]] /\ DOMAIN g = 0 .. k
    OBVIOUS
  <2>5. \A i \in 0 .. k : g[i] = IF i = 0 THEN s ELSE ScheduleJobIfNeeded(f[i - 1], order[i])
    OBVIOUS
  <2> HIDE DEF g
  <2>6. \A i \in 0 .. k : g[i] = IF i = 0 THEN s ELSE ScheduleJobIfNeeded(g[i - 1], order[i])
    BY <2>2, <2>3, <2>5
  <2>7. SchedulesSolve(g, k, s, order)
    BY <2>4, <2>6 DEF SchedulesSolve
  <2> QED
    BY <2>7
<1> HIDE DEF T
<1>3. n \in T
  <2>1. T \in SUBSET (0 .. n)
    BY DEF T
  <2> QED
    BY <1>1, <1>2, <2>1, PixAll
<1> QED
  BY <1>3 DEF T

\* A change of the range, or of what is wanted of it, makes up for the changes of
\* its pages.
LEMMA DataRanged ==
  ASSUME NEW s, NEW c, NEW X \in SUBSET DataPage, DataFits(s, c, X),
         Cardinality(FreeData(s)) >= 2 + 2 * PreCacheSize,
         NEW start \in DataPage, NEW end \in DataPage, end - start \in {0, 1},
         \A p \in X : s.data[p].dirty /\ start <= p /\ p <= end,
         NEW v, v = SetRange(s, start, end)
  PROVE  DataFits(v, c, {})
<1> DEFINE order == RangeOrder(start, end)
           n == Len(order)
           f == CHOOSE pushed : SchedulesSolve(pushed, n, s, order)
           free == Cardinality(FreeData(s))
           Left(k) == {p \in X : \A i \in 1 .. k : order[i] # p}
           Done(k) == /\ DataFits(f[k], c, Left(k)) /\ f[k].wanted = s.wanted
                      /\ \A p \in DataPage : f[k].data[p].dirty = s.data[p].dirty
                      /\ Cardinality(FreeData(f[k])) >= free - k
           T == {k \in 0 .. n : Done(k)}
<1>1. /\ n \in 0 .. 4
      /\ \A i \in 1 .. n : order[i] \in DataPage
      /\ \A p \in DataPage : start <= p /\ p <= end => \E i \in 1 .. n : order[i] = p
  <2>1. 2 + 2 * PreCacheSize = 4
    BY DEF PreCacheSize
  <2> QED
    BY <2>1, RangeOrderIs
<1>2. ScheduleJobs(s, order) = f[n]
  BY Zenon DEF ScheduleJobs, SchedulesSolve
<1>3. v = [f[n] EXCEPT !.wanted = [f[n].wanted EXCEPT !.start = start, !.end = end]]
  <2>1. s.wanted.flags # {}
    BY DEF DataFits, DefaultFlags
  <2> HIDE DEF f
  <2>2. v = [ScheduleJobs(s, order) EXCEPT !.wanted.start = start, !.wanted.end = end]
    BY <2>1 DEF SetRange
  <2> QED
    BY <1>2, <2>2
<1> HIDE DEF order, n
<1>4. n \in Nat /\ n <= 4 /\ free \in Nat /\ free >= 4
  BY <1>1, FreeDataFinite DEF PreCacheSize
<1>5. SchedulesSolve(f, n, s, order)
  BY <1>4, SchedulesExist
<1> HIDE DEF f, free
<1>6. \A i \in 0 .. n : f[i] = IF i = 0 THEN s ELSE ScheduleJobIfNeeded(f[i - 1], order[i])
  BY <1>5, Zenon DEF SchedulesSolve
<1>7. 0 \in T
  <2>1. 0 \in 0 .. n /\ f[0] = s
    BY <1>4, <1>6
  <2>2. free >= free - 0
    BY <1>4
  <2>3. Left(0) = X
    OBVIOUS
  <2> HIDE DEF Left
  <2> QED
    BY <2>1, <2>2, <2>3 DEF free
<1>8. ASSUME NEW k \in 1 .. n, k - 1 \in T PROVE k \in T
  <2> DEFINE old == f[k - 1]
             new == f[k]
             p == order[k]
             Y == Left(k - 1)
  <2>1. new = ScheduleJobIfNeeded(old, p) /\ k \in 0 .. n
    <3>1. k \in 0 .. n /\ k # 0
      BY <1>4
    <3> QED
      BY <1>6, <3>1, Zenon
  <2>2. /\ DataFits(old, c, Y) /\ old.wanted = s.wanted
        /\ \A r \in DataPage : old.data[r].dirty = s.data[r].dirty
        /\ Cardinality(FreeData(old)) >= free - (k - 1)
    BY <1>8
  <2>3. p \in DataPage
    BY <1>1
  <2>4. Left(k) = Y \ {p} /\ Y \subseteq X
    <3>1. \A i : i \in 1 .. k <=> (i \in 1 .. (k - 1) \/ i = k)
      BY <1>4
    <3> QED
      BY <3>1
  <2> HIDE DEF old, new, p, Y, Left
  <2>5. \E i \in 1 .. DataJobs : old.job[i].page = -1
    <3>1. Cardinality(FreeData(old)) \in Nat
      BY FreeDataFinite
    <3>2. Cardinality(FreeData(old)) # 0
      BY <1>4, <2>2, <3>1
    <3>3. FreeData(old) # {}
      BY <3>2, FS_EmptySet
    <3> QED
      BY <3>3 DEF FreeData
  <2>6. p \in Y => old.data[p].dirty
    BY <2>2, <2>3, <2>4
  <2>7. /\ DataFits(new, c, Y \ {p}) /\ new.wanted = old.wanted
        /\ \A r \in DataPage : new.data[r].dirty = old.data[r].dirty
        /\ \E j \in 1 .. DataJobs : \A i \in 1 .. DataJobs :
              i # j /\ old.job[i].page = -1 => new.job[i].page = -1
    BY <2>1, <2>2, <2>3, <2>5, <2>6, DataScheduled
  <2>8. Cardinality(FreeData(new)) >= Cardinality(FreeData(old)) - 1
    <3>1. PICK j \in 1 .. DataJobs : \A i \in 1 .. DataJobs :
              i # j /\ old.job[i].page = -1 => new.job[i].page = -1
      BY <2>7
    <3> QED
      BY <3>1, FreeDataLess
  <2>9. Cardinality(FreeData(new)) >= free - k
    <3>1. Cardinality(FreeData(new)) \in Nat /\ Cardinality(FreeData(old)) \in Nat
      BY FreeDataFinite
    <3> QED
      BY <1>4, <2>2, <2>8, <3>1
  <2> QED
    BY <2>1, <2>2, <2>4, <2>7, <2>9 DEF new
<1>9. n \in T
  <2> HIDE DEF T
  <2>1. T \in SUBSET (0 .. n)
    BY DEF T
  <2> QED
    BY <1>4, <1>7, <1>8, <2>1, PixAll
<1>10. Left(n) = {}
  BY <1>1
<1>11. DataFits(f[n], c, {}) /\ f[n].wanted = s.wanted
  <2> HIDE DEF Left
  <2> QED
    BY <1>9, <1>10
<1> DEFINE u == f[n]
           wanted2 == [u.wanted EXCEPT !.start = start, !.end = end]
<1> HIDE DEF T, u
<1>12. v = [u EXCEPT !.wanted = wanted2]
  BY <1>3 DEF u
<1>13. u \in DataWorld /\ u.wanted \in DataRange
  BY <1>11, DataTyped DEF DataFits, u
<1>14. /\ wanted2 \in DataRange /\ wanted2.start = start /\ wanted2.end = end
       /\ wanted2.flags = u.wanted.flags
  BY <1>13 DEF DataRange
<1> HIDE DEF wanted2
<1>15. /\ v \in DataWorld /\ v.data = u.data /\ v.job = u.job /\ v.queue = u.queue
       /\ v.wanted = wanted2
  BY <1>12, <1>13, <1>14 DEF DataWorld
<1>16. DataFits(u, c, {})
  BY <1>11 DEF u
<1>17. Placed(v) /\ OrderFits(v)
  BY <1>15, <1>16 DEF DataFits, Placed, OrderFits, Ahead
<1>18. \A p \in DataPage : SlotFits(v, c, p)
  BY <1>14, <1>15, <1>16 DEF DataFits, SlotFits
<1>19. \A j \in 1 .. DataJobs : WorkFits(v, c, j)
  BY <1>15, <1>16 DEF DataFits, WorkFits
<1>20. \A p \in DataPage : PageFits(v, c, p)
  BY <1>15, <1>16 DEF DataFits, PageFits, Attended, WillHave
<1> QED
  BY <1>14, <1>15, <1>16, <1>17, <1>18, <1>19, <1>20 DEF DataFits

-----------------------------------------------------------------------------
(* The steps of the cache.                                                 *)

DataIs == DataFits(State, contents, {})

LEMMA DataBecomes ==
  ASSUME NEW v, DataFits(v, contents', {}), Become(v)
  PROVE  DataIs'
<1>1. v \in DataWorld
  BY DEF DataFits
<1>2. v = [data |-> v.data, wanted |-> v.wanted, job |-> v.job, queue |-> v.queue]
  BY <1>1 DEF DataWorld
<1>3. State' = v
  BY <1>2 DEF State, Become
<1> QED
  BY <1>3 DEF DataIs

\* What the user asks for is of no matter to what is there.
LEMMA DataAsked ==
  ASSUME NEW s, NEW c, DataFits(s, c, {}), NEW wanted2 \in DataRange,
         wanted2.start = s.wanted.start, wanted2.end = s.wanted.end,
         s.wanted.flags \subseteq wanted2.flags, NEW v, v = [s EXCEPT !.wanted = wanted2]
  PROVE  DataFits(v, c, {}) /\ FreeData(v) = FreeData(s) /\ v.data = s.data /\ v.wanted = wanted2
<1>1. /\ s \in DataWorld /\ c \in [DataPage -> SUBSET Kinds]
      /\ s.wanted.end - s.wanted.start \in {0, 1} /\ DefaultFlags \subseteq s.wanted.flags
      /\ Placed(s) /\ OrderFits(s)
      /\ \A p \in DataPage : SlotFits(s, c, p)
      /\ \A j \in 1 .. DataJobs : WorkFits(s, c, j)
      /\ \A p \in DataPage : PageFits(s, c, p)
  BY DEF DataFits
<1>2. /\ v \in DataWorld /\ v.data = s.data /\ v.job = s.job /\ v.queue = s.queue
      /\ v.wanted = wanted2
  BY <1>1 DEF DataWorld
<1>3. Placed(v) /\ OrderFits(v)
  BY <1>1, <1>2 DEF Placed, OrderFits, Ahead
<1>4. \A p \in DataPage : SlotFits(v, c, p)
  BY <1>1, <1>2 DEF SlotFits
<1>5. \A j \in 1 .. DataJobs : WorkFits(v, c, j)
  BY <1>1, <1>2 DEF WorkFits
<1>6. \A p \in DataPage : PageFits(v, c, p)
  BY <1>1, <1>2 DEF PageFits, Attended, WillHave
<1>7. DataFits(v, c, {})
  BY <1>1, <1>2, <1>3, <1>4, <1>5, <1>6 DEF DataFits
<1> QED
  BY <1>2, <1>7 DEF FreeData

LEMMA DataCounted ==
  ASSUME DataIs
  PROVE  DataFits(Counted, contents, {}) /\ FreeData(Counted) = FreeData(State)
         /\ Counted.data = data
         /\ Counted.wanted.start = wanted.start /\ Counted.wanted.end = wanted.end
<1> DEFINE calls2 == wanted.calls + 1
           wanted2 == [wanted EXCEPT !.calls = calls2]
<1>1. State \in DataWorld /\ State.wanted = wanted /\ State.data = data
  BY DEF DataIs, DataFits, State
<1>2. wanted \in DataRange
  BY <1>1, DataTyped
<1>3. calls2 \in Nat
  BY <1>2 DEF DataRange
<1> HIDE DEF calls2
<1>4. /\ wanted2 \in DataRange /\ wanted2.start = wanted.start /\ wanted2.end = wanted.end
      /\ wanted2.flags = wanted.flags
  BY <1>2, <1>3 DEF DataRange
<1>5. Counted = [State EXCEPT !.wanted = wanted2]
  BY DEF Counted, State, calls2
<1> HIDE DEF wanted2
<1>6. /\ DataFits(Counted, contents, {}) /\ FreeData(Counted) = FreeData(State)
      /\ Counted.data = State.data /\ Counted.wanted = wanted2
  BY <1>1, <1>4, <1>5, DataAsked DEF DataIs
<1> QED
  BY <1>1, <1>4, <1>6

LEMMA SpareIs == Spare <=> Cardinality(FreeData(State)) >= 2 + 2 * PreCacheSize
BY DEF Spare, FreeData, State

LEMMA DataByUser ==
  ASSUME DataIs, NEW start \in DataPage, NEW end \in DataPage,
         SetPageRangeData(start, end) \/ SetFlags(Kinds)
  PROVE  DataIs'
<1>1. CASE SetPageRangeData(start, end)
  <2>1. /\ DataFits(Counted, contents, {}) /\ Cardinality(FreeData(Counted)) >= 2 + 2 * PreCacheSize
        /\ end - start \in {0, 1}
    BY <1>1, DataCounted, SpareIs DEF SetPageRangeData
  <2> DEFINE none == {}
             v == SetRange(Counted, start, end)
  <2>2. none \in SUBSET DataPage /\ \A p \in none : Counted.data[p].dirty /\ start <= p /\ p <= end
    OBVIOUS
  <2>3. DataFits(v, contents, {})
    BY <2>1, <2>2, DataRanged
  <2>4. Become(v) /\ contents' = contents
    BY <1>1 DEF SetPageRangeData
  <2> HIDE DEF v
  <2> QED
    BY <2>3, <2>4, DataBecomes
<1>2. CASE SetFlags(Kinds)
  <2> DEFINE wanted2 == [wanted EXCEPT !.flags = Kinds]
             asked == [State EXCEPT !.wanted = wanted2]
             v == SetRange(asked, wanted.start, wanted.end)
             none == {}
  <2>1. /\ State \in DataWorld /\ State.wanted = wanted /\ wanted.end - wanted.start \in {0, 1}
    BY DEF DataIs, DataFits, State
  <2>2. wanted \in DataRange
    BY <2>1, DataTyped
  <2>3. /\ wanted2 \in DataRange /\ wanted2.start = wanted.start /\ wanted2.end = wanted.end
        /\ wanted.flags \subseteq wanted2.flags
        /\ wanted.start \in DataPage /\ wanted.end \in DataPage
    BY <2>2 DEF DataRange
  <2>4. [State EXCEPT !.wanted.flags = Kinds] = asked
    BY DEF State
  <2>5. Spare /\ Become(v) /\ contents' = contents
    BY <1>2, <2>4 DEF SetFlags
  <2> HIDE DEF wanted2, v
  <2>6. DataFits(asked, contents, {}) /\ FreeData(asked) = FreeData(State)
    BY <2>1, <2>3, DataAsked DEF DataIs
  <2>7. none \in SUBSET DataPage
        /\ \A p \in none : asked.data[p].dirty /\ wanted.start <= p /\ p <= wanted.end
    OBVIOUS
  <2>8. DataFits(v, contents, {})
    BY <2>1, <2>3, <2>5, <2>6, <2>7, SpareIs, DataRanged DEF v
  <2> QED
    BY <2>5, <2>8, DataBecomes
<1> QED
  BY <1>1, <1>2

\* A page has changed, and the cache is told that it is dirty.
LEMMA DataDirtied ==
  ASSUME NEW s, NEW c, DataFits(s, c, {}), NEW p \in DataPage,
         NEW c2, c2 = [c EXCEPT ![p] = @ \union {"annots"}],
         NEW v, v = [s EXCEPT !.data[p].dirty = TRUE]
  PROVE  DataFits(v, c2, {p}) /\ v.data[p].dirty /\ FreeData(v) = FreeData(s)
<1> DEFINE d == [s.data[p] EXCEPT !.dirty = TRUE]
           data2 == [s.data EXCEPT ![p] = d]
<1>1. /\ s \in DataWorld /\ c \in [DataPage -> SUBSET Kinds]
      /\ s.wanted.end - s.wanted.start \in {0, 1} /\ DefaultFlags \subseteq s.wanted.flags
      /\ Placed(s) /\ OrderFits(s)
      /\ \A r \in DataPage : SlotFits(s, c, r)
      /\ \A j \in 1 .. DataJobs : WorkFits(s, c, j)
      /\ \A r \in DataPage : PageFits(s, c, r)
  BY DEF DataFits
<1>2. v = [s EXCEPT !.data = data2]
  OBVIOUS
<1>3. s.data \in [DataPage -> DataSlot] /\ s.data[p] \in DataSlot
  BY <1>1, DataTyped
<1>4. /\ d \in DataSlot /\ d.dirty /\ d.job = s.data[p].job /\ d.done = s.data[p].done
      /\ d.flags = s.data[p].flags /\ d.have = s.data[p].have
  <2>1. TRUE \in BOOLEAN
    OBVIOUS
  <2> QED
    BY <1>3, <2>1 DEF DataSlot
<1> HIDE DEF d
<1>5. /\ data2 \in DataPageList /\ data2[p] = d
      /\ \A r \in DataPage : r # p => data2[r] = s.data[r]
  BY <1>3, <1>4 DEF DataPageList
<1> HIDE DEF data2
<1>6. /\ v \in DataWorld /\ v.data = data2 /\ v.job = s.job /\ v.queue = s.queue
      /\ v.wanted = s.wanted
  BY <1>1, <1>2, <1>5 DEF DataWorld
<1>7. /\ c2 \in [DataPage -> SUBSET Kinds] /\ c[p] \subseteq c2[p]
      /\ \A r \in DataPage : r # p => c2[r] = c[r]
  <2>1. {"annots"} \subseteq Kinds
    BY PageCacheAssumption
  <2> QED
    BY <1>1, <2>1
<1>8. Placed(v) /\ OrderFits(v)
  BY <1>1, <1>6 DEF Placed, OrderFits, Ahead
<1>9. \A r \in DataPage : /\ v.data[r].job = s.data[r].job /\ v.data[r].done = s.data[r].done
                          /\ v.data[r].flags = s.data[r].flags /\ v.data[r].have = s.data[r].have
                          /\ c[r] \subseteq c2[r]
  BY <1>4, <1>5, <1>6, <1>7
<1>10. \A r \in DataPage : SlotFits(v, c2, r)
  BY <1>1, <1>6, <1>9 DEF SlotFits
<1>11. ASSUME NEW j \in 1 .. DataJobs PROVE WorkFits(v, c2, j)
  <2>1. WorkFits(s, c, j)
    BY <1>1
  <2>2. s.job[j].page # -1 => s.job[j].page \in DataPage
    <3>1. s.job[j] \in DataWork
      BY <1>1, DataTyped
    <3> QED
      BY <3>1, PageCacheAssumption DEF DataWork, DataPage
  <2> QED
    BY <1>6, <1>9, <2>1, <2>2 DEF WorkFits
<1>12. \A r \in DataPage : r \in {p} \/ PageFits(v, c2, r)
  BY <1>1, <1>6, <1>7, <1>9 DEF PageFits, Attended, WillHave
<1>13. DataFits(v, c2, {p})
  BY <1>1, <1>6, <1>7, <1>8, <1>10, <1>11, <1>12 DEF DataFits
<1> QED
  BY <1>4, <1>5, <1>6, <1>13 DEF FreeData

\* A page whose annotations are given has some.
LEMMA GottenIsThere ==
  ASSUME DataIs, NEW p \in DataPage, Get("annots", p)
  PROVE  "annots" \in contents[p]
<1>1. /\ State \in DataWorld /\ State.data = data /\ State.job = dataJob
      /\ SlotFits(State, contents, p)
      /\ \A j \in 1 .. DataJobs : WorkFits(State, contents, j)
  BY DEF DataIs, DataFits, State
<1>2. data[p] \in DataSlot
  BY <1>1, DataTyped
<1>3. CASE data[p].done \/ data[p].job = 0
  BY <1>1, <1>3 DEF Get, SlotFits
<1>4. CASE ~(data[p].done \/ data[p].job = 0)
  <2> DEFINE j == data[p].job
  <2>1. j \in 1 .. DataJobs
    BY <1>2, <1>4 DEF DataSlot
  <2>2. "annots" \in dataJob[j].got
    BY <1>4 DEF Get
  <2>3. dataJob[j].page = p /\ p # -1
    BY <1>1, <1>4 DEF SlotFits, DataPage
  <2> HIDE DEF j
  <2> QED
    BY <1>1, <2>1, <2>2, <2>3 DEF WorkFits
<1> QED
  BY <1>3, <1>4

LEMMA DataAnnotated ==
  ASSUME DataIs, NEW p \in DataPage, AddAnnotation(p)
  PROVE  DataIs'
<1>1. /\ DataFits(Counted, contents, {}) /\ Cardinality(FreeData(Counted)) >= 2 + 2 * PreCacheSize
      /\ wanted.start <= p /\ p <= wanted.end
      /\ contents' = [contents EXCEPT ![p] = @ \union {"annots"}]
  BY DataCounted, SpareIs DEF AddAnnotation
<1>2. contents \in [DataPage -> SUBSET Kinds]
  BY DEF DataIs, DataFits
<1>3. CASE Get("annots", p)
  <2>1. contents' = contents
    BY <1>1, <1>2, <1>3, GottenIsThere
  <2>2. Become(Counted)
    BY <1>3 DEF AddAnnotation
  <2> QED
    BY <1>1, <2>1, <2>2, DataBecomes
<1>4. CASE ~Get("annots", p)
  <2> DEFINE s == Counted
             u == [s EXCEPT !.data[p].dirty = TRUE]
             v == SetRange(u, wanted.start, wanted.end)
             X == {p}
  <2>1. Become(v)
    BY <1>4 DEF AddAnnotation
  <2> HIDE DEF s
  <2>2. DataFits(u, contents', X) /\ u.data[p].dirty /\ FreeData(u) = FreeData(s)
    BY <1>1, DataDirtied DEF s
  <2>3. wanted.start \in DataPage /\ wanted.end \in DataPage /\ wanted.end - wanted.start \in {0, 1}
    <3>1. State \in DataWorld /\ State.wanted = wanted /\ wanted.end - wanted.start \in {0, 1}
      BY DEF DataIs, DataFits, State
    <3>2. wanted \in DataRange
      BY <3>1, DataTyped
    <3> QED
      BY <3>1, <3>2 DEF DataRange
  <2>4. X \in SUBSET DataPage
        /\ \A r \in X : u.data[r].dirty /\ wanted.start <= r /\ r <= wanted.end
    BY <1>1, <2>2
  <2>5. Cardinality(FreeData(u)) >= 2 + 2 * PreCacheSize
    BY <1>1, <2>2 DEF s
  <2> HIDE DEF u, X
  <2>6. DataFits(v, contents', {})
    BY <2>2, <2>3, <2>4, <2>5, DataRanged
  <2> HIDE DEF v
  <2> QED
    BY <2>1, <2>6, DataBecomes
<1> QED
  BY <1>3, <1>4

DataParts(s, c) ==
  /\ s \in DataWorld /\ c \in [DataPage -> SUBSET Kinds]
  /\ s.wanted.end - s.wanted.start \in {0, 1} /\ DefaultFlags \subseteq s.wanted.flags
  /\ Placed(s) /\ OrderFits(s)
  /\ \A p \in DataPage : SlotFits(s, c, p)
  /\ \A j \in 1 .. DataJobs : WorkFits(s, c, j)
  /\ \A p \in DataPage : PageFits(s, c, p)

LEMMA DataPartsAre ==
  /\ DataIs <=> DataParts(State, contents)
  /\ State.data = data /\ State.wanted = wanted /\ State.job = dataJob /\ State.queue = dataQueue
BY DEF DataIs, DataFits, DataParts, State

LEMMA DataRuns ==
  ASSUME DataIs, RunData
  PROVE  DataIs'
<1> DEFINE s == State
           c == contents
           j == Head(s.queue.waiting)
           p == s.job[j].page
           w == [s.job[j] EXCEPT !.got = @ \union (c[p] \intersect s.job[j].flags)]
           job2 == [s.job EXCEPT ![j] = w]
           W2 == Tail(s.queue.waiting)
           q == [s.queue EXCEPT !.waiting = W2, !.running = j]
           v == [s EXCEPT !.job = job2, !.queue = q]
<1>1. DataParts(s, c)
  BY DataPartsAre
<1>2. /\ s.queue.running = 0 /\ s.queue.waiting # <<>>
      /\ data' = s.data /\ wanted' = s.wanted /\ dataJob' = job2 /\ dataQueue' = q /\ contents' = c
  BY DataPartsAre DEF RunData
<1> HIDE DEF s, c
<1>3. /\ s.job \in [1 .. DataJobs -> DataWork] /\ s.queue \in DataLine
      /\ s.queue.waiting \in Seq(1 .. DataJobs) /\ s \in DataWorld
      /\ s.data \in [DataPage -> DataSlot]
      /\ ToSet(s.queue.idle) \subseteq 1 .. DataJobs
  BY <1>1, DataTyped DEF DataParts
<1>4. /\ Distinct(s.queue.waiting) /\ ToSet(s.queue.waiting) \intersect ToSet(s.queue.idle) = {}
  BY <1>1 DEF DataParts, Placed
<1>5. /\ W2 \in Seq(1 .. DataJobs) /\ j \in 1 .. DataJobs /\ j \in ToSet(s.queue.waiting)
      /\ ToSet(W2) = ToSet(s.queue.waiting) \ {j} /\ Distinct(W2)
  BY <1>2, <1>3, <1>4, DataTaken
<1> HIDE DEF j, W2
<1>6. p # -1 /\ p \in DataPage
  <2>1. p # -1
    BY <1>1, <1>5 DEF DataParts, Placed
  <2>2. s.job[j] \in DataWork
    BY <1>3, <1>5
  <2> QED
    BY <2>1, <2>2, PageCacheAssumption DEF DataWork, DataPage
<1>7. /\ s.job[j].got = {} /\ s.job[j].flags \subseteq s.data[p].flags
      /\ s.job[j].flags \subseteq Kinds
  <2>1. WorkFits(s, c, j)
    BY <1>1, <1>5 DEF DataParts
  <2>2. s.job[j] \in DataWork
    BY <1>3, <1>5
  <2> QED
    BY <1>5, <1>6, <2>1, <2>2 DEF WorkFits, DataWork
<1>8. /\ w \in DataWork /\ w.page = p /\ w.flags = s.job[j].flags
      /\ w.got = c[p] \intersect s.job[j].flags
  <2> DEFINE got2 == s.job[j].got \union (c[p] \intersect s.job[j].flags)
  <2>1. w = [s.job[j] EXCEPT !.got = got2]
    OBVIOUS
  <2>2. got2 = c[p] \intersect s.job[j].flags /\ got2 \subseteq Kinds
    BY <1>7
  <2> HIDE DEF got2
  <2>3. s.job[j] \in DataWork
    BY <1>3, <1>5
  <2> QED
    BY <2>1, <2>2, <2>3 DEF DataWork
<1> HIDE DEF w
<1>9. /\ job2 \in DataWorkList /\ job2[j] = w
      /\ \A i \in 1 .. DataJobs : i # j => job2[i] = s.job[i]
  BY <1>3, <1>5, <1>8 DEF DataWorkList
<1>10. /\ q \in DataLine /\ q.waiting = W2 /\ q.running = j /\ q.idle = s.queue.idle
  <2>1. j \in 0 .. DataJobs
    BY <1>5
  <2> QED
    BY <1>3, <1>5, <2>1 DEF DataLine
<1> HIDE DEF job2, q
<1>11. /\ v \in DataWorld /\ v.data = s.data /\ v.wanted = s.wanted /\ v.job = job2
       /\ v.queue = q
  BY <1>3, <1>9, <1>10 DEF DataWorld
<1> HIDE DEF v
<1>12. Become(v)
  BY <1>2, <1>11 DEF Become
<1>13. j \notin ToSet(s.queue.idle) /\ j \notin ToSet(W2)
  BY <1>4, <1>5
<1>14. Placed(v)
  BY <1>1, <1>2, <1>5, <1>6, <1>8, <1>9, <1>10, <1>11, <1>13 DEF DataParts, Placed
<1>15. ASSUME NEW i \in 1 .. DataJobs, i # j
       PROVE  /\ v.job[i] = s.job[i]
              /\ i \in ToSet(v.queue.waiting) <=> i \in ToSet(s.queue.waiting)
  BY <1>5, <1>9, <1>10, <1>11, <1>15
<1>16. OrderFits(v)
  <2>1. SUFFICES ASSUME NEW a \in 1 .. DataJobs, NEW b \in 1 .. DataJobs,
                        Ahead(v, a, b), v.job[a].page = v.job[b].page
                 PROVE  v.job[a].got \intersect v.job[b].flags \subseteq v.job[b].got
    BY DEF OrderFits
  <2>2. a \in ToSet(s.queue.idle) /\ a # j
    BY <1>10, <1>11, <1>13, <2>1 DEF Ahead, Before, ToSet
  <2>3. CASE b = j
    <3>1. s.job[a].page = p /\ v.job[a] = s.job[a]
      BY <1>8, <1>9, <1>11, <1>15, <2>1, <2>2, <2>3
    <3>2. s.job[a].got \subseteq c[p]
      BY <1>1, <1>6, <3>1 DEF DataParts, WorkFits
    <3> QED
      BY <1>8, <1>9, <1>11, <2>3, <3>1, <3>2
  <2>4. CASE b # j
    <3>1. Ahead(s, a, b)
      BY <1>10, <1>11, <2>1, <2>4 DEF Ahead
    <3> QED
      BY <1>1, <1>15, <2>1, <2>2, <2>4, <3>1 DEF DataParts, OrderFits
  <2> QED
    BY <2>3, <2>4
<1>17. ASSUME NEW r \in DataPage PROVE SlotFits(v, c, r)
  <2>1. SlotFits(s, c, r) /\ s.data[r] \in DataSlot
    BY <1>1, <1>3 DEF DataParts
  <2>2. s.data[r].job # 0 => s.data[r].job \in 1 .. DataJobs
    BY <2>1, PageCacheAssumption DEF DataSlot
  <2>3. \A i \in 1 .. DataJobs : v.job[i].page = s.job[i].page
    BY <1>8, <1>9, <1>11, <1>15
  <2> QED
    BY <1>11, <2>1, <2>2, <2>3 DEF SlotFits
<1>18. ASSUME NEW i \in 1 .. DataJobs PROVE WorkFits(v, c, i)
  <2>1. CASE i = j
    <3>1. s.data[p].have \subseteq c[p]
      BY <1>1, <1>6 DEF DataParts, SlotFits
    <3> QED
      BY <1>7, <1>8, <1>9, <1>10, <1>11, <1>13, <2>1, <3>1 DEF WorkFits
  <2>2. CASE i # j
    BY <1>1, <1>11, <1>15, <2>2 DEF DataParts, WorkFits
  <2> QED
    BY <2>1, <2>2
<1>19. ASSUME NEW r \in DataPage PROVE PageFits(v, c, r)
  <2>1. PageFits(s, c, r)
    BY <1>1 DEF DataParts
  <2>2. \A i \in 1 .. DataJobs : v.job[i].page = s.job[i].page
    BY <1>8, <1>9, <1>11, <1>15
  <2>3. Attended(v, r) => Attended(s, r)
    BY <1>11, <2>2 DEF Attended
  <2>4. ASSUME NEW k \in c[r] \intersect s.data[r].flags, WillHave(s, r, k) PROVE WillHave(v, r, k)
    <3>1. CASE k \in s.data[r].have
      BY <1>11, <3>1 DEF WillHave
    <3>2. CASE s.job[j].page = r /\ k \in s.job[j].flags
      <4>1. k \in v.job[j].got /\ v.job[j].page = r /\ j \notin ToSet(v.queue.waiting)
        BY <1>8, <1>9, <1>10, <1>11, <1>13, <2>4, <3>2
      <4> QED
        BY <1>5, <4>1 DEF WillHave
    <3>3. ASSUME NEW i \in 1 .. DataJobs, i # j, s.job[i].page = r,
                 k \in IF i \in ToSet(s.queue.waiting) THEN s.job[i].flags ELSE s.job[i].got
          PROVE  WillHave(v, r, k)
      BY <1>15, <3>3 DEF WillHave
    <3> QED
      BY <1>5, <2>4, <3>1, <3>2, <3>3 DEF WillHave
  <2> QED
    BY <1>11, <2>1, <2>3, <2>4 DEF PageFits
<1>20. DataFits(v, c, {})
  BY <1>1, <1>11, <1>14, <1>16, <1>17, <1>18, <1>19 DEF DataParts, DataFits
<1> QED
  BY <1>2, <1>12, <1>20, DataBecomes

LEMMA DataAttaches ==
  ASSUME DataIs, AttachData
  PROVE  DataIs'
<1> DEFINE s == State
           c == contents
           j == s.queue.running
           I2 == Append(s.queue.idle, j)
           q == [s.queue EXCEPT !.running = 0, !.idle = I2]
           v == [s EXCEPT !.queue = q]
<1>1. DataParts(s, c)
  BY DataPartsAre
<1>2. /\ j # 0 /\ data' = s.data /\ wanted' = s.wanted /\ dataJob' = s.job /\ dataQueue' = q
      /\ contents' = c
  BY DataPartsAre DEF AttachData
<1> HIDE DEF s, c
<1>3. /\ s.queue \in DataLine /\ s.queue.idle \in Seq(1 .. DataJobs) /\ s \in DataWorld
      /\ j \in 1 .. DataJobs
  <2>1. /\ s.queue \in DataLine /\ s.queue.idle \in Seq(1 .. DataJobs) /\ s \in DataWorld
        /\ j \in 0 .. DataJobs
    BY <1>1, DataTyped DEF DataParts
  <2> QED
    BY <1>2, <2>1, PageCacheAssumption
<1>4. /\ Distinct(s.queue.idle) /\ j \notin ToSet(s.queue.idle) /\ j \notin ToSet(s.queue.waiting)
  BY <1>1 DEF DataParts, Placed
<1> HIDE DEF j
<1>5. /\ I2 \in Seq(1 .. DataJobs) /\ ToSet(I2) = ToSet(s.queue.idle) \union {j} /\ Distinct(I2)
      /\ \A a, b : Before(I2, a, b)
                     => Before(s.queue.idle, a, b) \/ (a \in ToSet(s.queue.idle) /\ b = j)
  <2> DEFINE N == 1 .. DataJobs
             seq == s.queue.idle
  <2>1. seq \in Seq(N) /\ Distinct(seq) /\ j \in N /\ j \notin ToSet(seq)
    BY <1>3, <1>4
  <2>2. I2 = Append(seq, j)
    OBVIOUS
  <2> HIDE DEF N, seq, I2
  <2>3. /\ I2 \in Seq(N) /\ ToSet(I2) = ToSet(seq) \union {j} /\ Distinct(I2)
        /\ \A a, b : Before(I2, a, b) => Before(seq, a, b) \/ (a \in ToSet(seq) /\ b = j)
    BY <2>1, <2>2, DataAppended
  <2> QED
    BY <2>3 DEF N, seq
<1> HIDE DEF I2
<1>6. q \in DataLine /\ q.waiting = s.queue.waiting /\ q.running = 0 /\ q.idle = I2
  <2>1. 0 \in 0 .. DataJobs
    BY PageCacheAssumption
  <2> QED
    BY <1>3, <1>5, <2>1 DEF DataLine
<1> HIDE DEF q
<1>7. /\ v \in DataWorld /\ v.data = s.data /\ v.wanted = s.wanted /\ v.job = s.job
      /\ v.queue = q
  BY <1>3, <1>6 DEF DataWorld
<1> HIDE DEF v
<1>8. Become(v)
  BY <1>2, <1>7 DEF Become
<1>9. Placed(v)
  <2>1. 0 \notin ToSet(s.queue.waiting) /\ 0 \notin ToSet(I2)
    <3>1. /\ ToSet(s.queue.waiting) \subseteq 1 .. DataJobs
          /\ ToSet(s.queue.idle) \subseteq 1 .. DataJobs
      BY <1>3, DataTyped
    <3> QED
      BY <1>2, <1>5, <3>1 DEF j
  <2> QED
    BY <1>1, <1>4, <1>5, <1>6, <1>7, <2>1, PageCacheAssumption DEF DataParts, Placed, j
<1>10. OrderFits(v)
  <2>1. ASSUME NEW a \in 1 .. DataJobs, NEW b \in 1 .. DataJobs, Ahead(v, a, b) PROVE Ahead(s, a, b)
    BY <1>5, <1>6, <1>7, <2>1, PageCacheAssumption DEF Ahead, j
  <2> QED
    BY <1>1, <1>7, <2>1 DEF DataParts, OrderFits
<1>11. \A p \in DataPage : SlotFits(v, c, p)
  BY <1>1, <1>7 DEF DataParts, SlotFits
<1>12. \A i \in 1 .. DataJobs : WorkFits(v, c, i)
  BY <1>1, <1>6, <1>7 DEF DataParts, WorkFits
<1>13. \A p \in DataPage : PageFits(v, c, p)
  BY <1>1, <1>6, <1>7 DEF DataParts, PageFits, Attended, WillHave
<1>14. DataFits(v, c, {})
  BY <1>1, <1>7, <1>9, <1>10, <1>11, <1>12, <1>13 DEF DataParts, DataFits
<1> QED
  BY <1>2, <1>8, <1>14, DataBecomes

LEMMA DataFinishes ==
  ASSUME DataIs, DataFinished
  PROVE  DataIs'
<1> DEFINE s == State
           c == contents
           j == Head(s.queue.idle)
           p == s.job[j].page
           got == s.job[j].got
           have2 == (s.data[p].have \ s.job[j].flags) \union got
           d == [s.data[p] EXCEPT !.have = have2, !.done = TRUE, !.dirty = FALSE, !.job = 0]
           data2 == [s.data EXCEPT ![p] = d]
           job2 == [s.job EXCEPT ![j] = NoDataJob]
           I2 == Tail(s.queue.idle)
           q == [s.queue EXCEPT !.idle = I2]
           v == [s EXCEPT !.data = data2, !.job = job2, !.queue = q]
<1>1. DataParts(s, c)
  BY DataPartsAre
<1>2. s.queue.idle # <<>> /\ contents' = c /\ Become(Finished(s, j))
  BY DataPartsAre DEF DataFinished
<1> HIDE DEF s, c
<1>3. /\ s.job \in [1 .. DataJobs -> DataWork] /\ s.queue \in DataLine
      /\ s.queue.idle \in Seq(1 .. DataJobs) /\ s \in DataWorld
      /\ s.data \in [DataPage -> DataSlot] /\ s.wanted \in DataRange
  BY <1>1, DataTyped DEF DataParts
<1>4. /\ Distinct(s.queue.idle) /\ ToSet(s.queue.waiting) \intersect ToSet(s.queue.idle) = {}
      /\ s.queue.running \notin ToSet(s.queue.idle)
  BY <1>1 DEF DataParts, Placed
<1>5. /\ I2 \in Seq(1 .. DataJobs) /\ j \in 1 .. DataJobs /\ j \in ToSet(s.queue.idle)
      /\ ToSet(I2) = ToSet(s.queue.idle) \ {j} /\ Distinct(I2)
      /\ \A a, b : Before(I2, a, b) => Before(s.queue.idle, a, b)
      /\ \A b \in ToSet(I2) : Before(s.queue.idle, j, b)
  BY <1>2, <1>3, <1>4, DataTaken
<1> HIDE DEF j, I2
<1>6. p # -1 /\ p \in DataPage
  <2>1. p # -1
    BY <1>1, <1>5 DEF DataParts, Placed
  <2>2. s.job[j] \in DataWork
    BY <1>3, <1>5
  <2> QED
    BY <2>1, <2>2, PageCacheAssumption DEF DataWork, DataPage
<1>7. j \notin ToSet(s.queue.waiting) /\ j # s.queue.running
  BY <1>4, <1>5
<1>8. /\ got \subseteq s.job[j].flags /\ got \subseteq c[p] /\ s.job[j].flags \subseteq s.data[p].flags
      /\ s.data[p].have \intersect s.job[j].flags \subseteq got
  BY <1>1, <1>5, <1>6, <1>7 DEF DataParts, WorkFits
<1>9. s.data[p] \in DataSlot /\ s.data[p].have \subseteq c[p] \intersect s.data[p].flags
      /\ s.data[p].flags \subseteq s.wanted.flags
  BY <1>1, <1>3, <1>6 DEF DataParts, SlotFits
<1>10. /\ have2 \subseteq c[p] \intersect s.data[p].flags
       /\ \A k \in s.data[p].have : k \in have2
       /\ \A k \in got : k \in have2
       /\ \A k \in have2 : k \in got \/ k \in s.data[p].have
  BY <1>8, <1>9
<1>11. v = Finished(s, j)
  BY DEF Finished, I2
<1> HIDE DEF have2, got
<1>12. /\ d \in DataSlot /\ d.have = have2 /\ d.job = 0 /\ d.done
       /\ d.flags = s.data[p].flags
  <2>1. have2 \subseteq Kinds /\ TRUE \in BOOLEAN /\ FALSE \in BOOLEAN /\ 0 \in 0 .. DataJobs
    BY <1>9, <1>10, PageCacheAssumption DEF DataSlot
  <2> QED
    BY <1>9, <2>1 DEF DataSlot
<1> HIDE DEF d
<1>13. /\ data2 \in DataPageList /\ data2[p] = d
       /\ \A r \in DataPage : r # p => data2[r] = s.data[r]
  BY <1>3, <1>6, <1>12 DEF DataPageList
<1>14. /\ job2 \in DataWorkList /\ job2[j] = NoDataJob
       /\ \A i \in 1 .. DataJobs : i # j => job2[i] = s.job[i]
  BY <1>3, <1>5, NoWork DEF DataWorkList
<1>15. /\ q \in DataLine /\ q.waiting = s.queue.waiting /\ q.running = s.queue.running
       /\ q.idle = I2
  BY <1>3, <1>5 DEF DataLine
<1> HIDE DEF data2, job2, q
<1>16. /\ v \in DataWorld /\ v.data = data2 /\ v.wanted = s.wanted /\ v.job = job2
       /\ v.queue = q
  BY <1>3, <1>13, <1>14, <1>15 DEF DataWorld
<1> HIDE DEF v
<1>17. v.job[j].page = -1 /\ v.job[j].got = {} /\ v.job[j].flags = {}
  BY <1>14, <1>16 DEF NoDataJob
<1>18. Placed(v)
  BY <1>1, <1>5, <1>7, <1>14, <1>15, <1>16, <1>17 DEF DataParts, Placed
<1>19. OrderFits(v)
  <2>1. SUFFICES ASSUME NEW a \in 1 .. DataJobs, NEW b \in 1 .. DataJobs,
                        Ahead(v, a, b), v.job[a].page = v.job[b].page
                 PROVE  v.job[a].got \intersect v.job[b].flags \subseteq v.job[b].got
    BY DEF OrderFits
  <2>2. Ahead(s, a, b)
    BY <1>5, <1>15, <1>16, <2>1 DEF Ahead
  <2>3. CASE a = j \/ b = j
    BY <1>17, <2>3
  <2>4. CASE a # j /\ b # j
    BY <1>1, <1>14, <1>16, <2>1, <2>2, <2>4 DEF DataParts, OrderFits
  <2> QED
    BY <2>3, <2>4
<1>20. ASSUME NEW r \in DataPage PROVE SlotFits(v, c, r)
  <2>1. SlotFits(s, c, r) /\ s.data[r] \in DataSlot
    BY <1>1, <1>3 DEF DataParts
  <2>2. CASE r = p
    BY <1>9, <1>10, <1>12, <1>13, <1>16, <2>2 DEF SlotFits
  <2>3. CASE r # p
    <3>1. v.data[r] = s.data[r]
      BY <1>13, <1>16, <2>3
    <3>2. s.data[r].job # 0 => s.data[r].job \in 1 .. DataJobs /\ s.data[r].job # j
      BY <2>1, <2>3, PageCacheAssumption DEF DataSlot, SlotFits
    <3> QED
      BY <1>14, <1>16, <2>1, <3>1, <3>2 DEF SlotFits
  <2> QED
    BY <2>2, <2>3
<1>21. ASSUME NEW i \in 1 .. DataJobs PROVE WorkFits(v, c, i)
  <2>1. CASE i = j
    BY <1>17, <2>1 DEF WorkFits
  <2>2. CASE i # j
    <3>1. /\ WorkFits(s, c, i) /\ v.job[i] = s.job[i] /\ v.queue.waiting = s.queue.waiting
          /\ s.job[i] \in DataWork
      BY <1>1, <1>3, <1>14, <1>15, <1>16, <2>2 DEF DataParts
    <3>2. CASE s.job[i].page = p
      <4>1. v.data[p].have = have2 /\ v.data[p].flags = s.data[p].flags
        BY <1>12, <1>13, <1>16
      <4>2. CASE i \in ToSet(s.queue.waiting)
        BY <1>6, <3>1, <3>2, <4>1, <4>2 DEF WorkFits
      <4>3. CASE i \notin ToSet(s.queue.waiting)
        <5>1. i \in ToSet(s.queue.idle) \/ i = s.queue.running
          BY <1>1, <1>6, <3>2, <4>3 DEF DataParts, Placed
        <5>2. Ahead(s, j, i)
          BY <1>5, <2>2, <5>1 DEF Ahead
        <5>3. got \intersect s.job[i].flags \subseteq s.job[i].got
          BY <1>1, <1>5, <3>2, <5>2 DEF DataParts, OrderFits, got
        <5>4. s.data[p].have \intersect s.job[i].flags \subseteq s.job[i].got
          BY <1>6, <3>1, <3>2, <4>3 DEF WorkFits
        <5>5. have2 \intersect s.job[i].flags \subseteq s.job[i].got
          BY <1>10, <5>3, <5>4
        <5> QED
          BY <1>6, <3>1, <3>2, <4>1, <4>3, <5>5 DEF WorkFits
      <4> QED
        BY <4>2, <4>3
    <3>3. CASE s.job[i].page # p
      <4>1. s.job[i].page # -1 => s.job[i].page \in DataPage
        BY <3>1, PageCacheAssumption DEF DataWork, DataPage
      <4>2. s.job[i].page # -1 => v.data[s.job[i].page] = s.data[s.job[i].page]
        BY <1>13, <1>16, <3>3, <4>1
      <4> QED
        BY <3>1, <4>2 DEF WorkFits
    <3> QED
      BY <3>2, <3>3
  <2> QED
    BY <2>1, <2>2
<1>22. ASSUME NEW r \in DataPage PROVE PageFits(v, c, r)
  <2>1. PageFits(s, c, r)
    BY <1>1 DEF DataParts
  <2>2. v.queue.waiting = s.queue.waiting
    BY <1>15, <1>16
  <2>3. CASE r = p
    <3>1. Attended(s, p)
      BY <1>5 DEF Attended
    <3>2. v.data[p].have = have2 /\ v.data[p].flags = s.data[p].flags
      BY <1>12, <1>13, <1>16
    <3>3. ASSUME NEW k \in c[p] \intersect s.data[p].flags PROVE WillHave(v, p, k)
      <4>1. WillHave(s, p, k)
        BY <2>1, <2>3, <3>1 DEF PageFits
      <4>2. CASE k \in s.data[p].have \/ k \in got
        BY <1>10, <3>2, <4>2 DEF WillHave
      <4>3. ASSUME NEW i \in 1 .. DataJobs, i # j, s.job[i].page = p,
                   k \in IF i \in ToSet(s.queue.waiting) THEN s.job[i].flags ELSE s.job[i].got
            PROVE  WillHave(v, p, k)
        BY <1>14, <1>16, <2>2, <4>3 DEF WillHave
      <4>4. CASE k \in IF j \in ToSet(s.queue.waiting) THEN s.job[j].flags ELSE s.job[j].got
        BY <1>7, <4>2, <4>4 DEF got
      <4> QED
        BY <4>1, <4>2, <4>3, <4>4 DEF WillHave
    <3> QED
      BY <2>3, <3>2, <3>3 DEF PageFits
  <2>4. CASE r # p
    <3>1. v.data[r] = s.data[r]
      BY <1>13, <1>16, <2>4
    <3>2. r # -1
      BY DEF DataPage
    <3>3. \A i \in 1 .. DataJobs :
            v.job[i].page = r <=> (i # j /\ s.job[i].page = r)
      BY <1>14, <1>16, <1>17, <2>4, <3>2
    <3>4. \A i \in 1 .. DataJobs : i # j => v.job[i] = s.job[i]
      BY <1>14, <1>16
    <3>5. Attended(v, r) => Attended(s, r)
      BY <3>1, <3>3 DEF Attended
    <3>6. \A k : WillHave(s, r, k) => WillHave(v, r, k)
      BY <2>2, <2>4, <3>1, <3>3, <3>4 DEF WillHave
    <3> QED
      BY <2>1, <3>1, <3>5, <3>6 DEF PageFits
  <2> QED
    BY <2>3, <2>4
<1>23. DataFits(v, c, {})
  BY <1>1, <1>16, <1>18, <1>19, <1>20, <1>21, <1>22 DEF DataParts, DataFits
<1>24. Become(v)
  BY <1>2, <1>11
<1> QED
  BY <1>2, <1>23, <1>24, DataBecomes

LEMMA DataStep ==
  ASSUME DataIs, [PageNext]_pageVars
  PROVE  DataIs'
<1>1. CASE UNCHANGED pageVars
  <2>1. State' = State /\ contents' = contents
    BY <1>1 DEF pageVars, State
  <2> QED
    BY <2>1 DEF DataIs
<1>2. ASSUME NEW start \in DataPage, NEW end \in DataPage, SetPageRangeData(start, end)
      PROVE  DataIs'
  BY <1>2, DataByUser
<1>3. CASE SetFlags(Kinds)
  <2>1. 0 \in DataPage
    BY PageCacheAssumption DEF DataPage
  <2> QED
    BY <1>3, <2>1, DataByUser
<1>4. ASSUME NEW p \in DataPage, AddAnnotation(p) PROVE DataIs'
  BY <1>4, DataAnnotated
<1>5. CASE RunData
  BY <1>5, DataRuns
<1>6. CASE AttachData
  BY <1>6, DataAttaches
<1>7. CASE DataFinished
  BY <1>7, DataFinishes
<1> QED
  BY <1>1, <1>2, <1>3, <1>4, <1>5, <1>6, <1>7 DEF PageNext

LEMMA DataBegins == PageInit => DataIs
<1> SUFFICES ASSUME PageInit PROVE DataParts(State, contents)
  BY DataPartsAre
<1>1. DataJobs \in Nat /\ DataPages \in Nat \ {0} /\ DefaultFlags \subseteq Kinds /\ 0 \in DataPage
  BY PageCacheAssumption DEF DefaultFlags, DataPage
<1>2. NoData \in DataSlot /\ NoDataJob \in DataWork
  <2>1. 0 \in 0 .. DataJobs
    BY <1>1
  <2> QED
    BY <2>1, NoWork DEF NoData, DataSlot
<1>3. /\ State.data \in DataPageList /\ \A p \in DataPage : State.data[p] = NoData
  BY <1>2 DEF PageInit, State, DataPageList
<1>4. /\ State.job \in DataWorkList /\ \A j \in 1 .. DataJobs : State.job[j] = NoDataJob
  BY <1>2 DEF PageInit, State, DataWorkList
<1>5. /\ State.wanted \in DataRange /\ State.wanted.end - State.wanted.start \in {0, 1}
      /\ DefaultFlags \subseteq State.wanted.flags
  BY <1>1 DEF PageInit, State, DataRange
<1>6. /\ State.queue \in DataLine /\ State.queue.waiting = <<>> /\ State.queue.idle = <<>>
      /\ State.queue.running = 0
  <2>1. 0 \in 0 .. DataJobs /\ <<>> \in Seq(1 .. DataJobs)
    BY <1>1
  <2> QED
    BY <2>1 DEF PageInit, State, DataLine
<1>7. contents \in [DataPage -> SUBSET Kinds]
  BY DEF PageInit
<1>8. State \in DataWorld
  BY <1>3, <1>4, <1>5, <1>6 DEF DataWorld, State
<1>9. ToSet(State.queue.waiting) = {} /\ ToSet(State.queue.idle) = {}
  BY <1>6 DEF ToSet
<1>10. Placed(State)
  BY <1>1, <1>4, <1>6, <1>9, NoWork DEF Placed, Distinct
<1>11. OrderFits(State)
  BY <1>4 DEF OrderFits, NoDataJob
<1>12. \A p \in DataPage : SlotFits(State, contents, p)
  BY <1>3 DEF SlotFits, NoData
<1>13. \A j \in 1 .. DataJobs : WorkFits(State, contents, j)
  BY <1>4, NoWork DEF WorkFits
<1>14. ASSUME NEW p \in DataPage PROVE PageFits(State, contents, p)
  <2>1. ~State.data[p].done /\ \A j \in 1 .. DataJobs : State.job[j].page # p
    BY <1>3, <1>4, NoWork DEF NoData, DataPage
  <2> QED
    BY <2>1 DEF PageFits, Attended
<1> QED
  BY <1>5, <1>7, <1>8, <1>10, <1>11, <1>12, <1>13, <1>14 DEF DataParts

LEMMA DataShows == DataIs => PageTypeOK /\ DataComplete
<1> SUFFICES ASSUME DataIs PROVE PageTypeOK /\ DataComplete
  OBVIOUS
<1>1. DataParts(State, contents) /\ State.data = data /\ State.job = dataJob /\ State.queue = dataQueue
  BY DataPartsAre
<1>2. PageTypeOK
  BY <1>1, DataTyped DEF DataParts, PageTypeOK, DataSlot, DataWork
<1>3. ASSUME NEW p \in DataPage, data[p].done, AliveFor(p) = {}
      PROVE  data[p].have = contents[p] \intersect data[p].flags
  <2>1. \A j \in 1 .. DataJobs : dataJob[j].page # p
    BY <1>3 DEF AliveFor
  <2>2. \A k \in contents[p] \intersect data[p].flags : WillHave(State, p, k)
    BY <1>1, <1>3 DEF DataParts, PageFits, Attended
  <2>3. \A k \in contents[p] \intersect data[p].flags : k \in data[p].have
    BY <1>1, <2>1, <2>2 DEF WillHave
  <2> QED
    BY <1>1, <2>3 DEF DataParts, SlotFits
<1> QED
  BY <1>2, <1>3 DEF DataComplete

\* However the range moves, whatever is added to a page, and whichever jobs are
\* cancelled, replaced or forgotten in between: the data of a page that is said to be
\* complete, and for which no job is left, are all that the document has for it.
THEOREM DataAlwaysComplete == PageSpec => [](PageTypeOK /\ DataComplete)
<1>1. PageInit => DataIs
  BY DataBegins
<1>2. DataIs /\ [PageNext]_pageVars => DataIs'
  BY DataStep
<1>3. DataIs => PageTypeOK /\ DataComplete
  BY DataShows
<1> QED
  BY <1>1, <1>2, <1>3, PTL DEF PageSpec

-----------------------------------------------------------------------------
(* The bookmarks.                                                          *)

Mark == [page : SidePage, title : SideTitles \union {"Page"}]
PagesOf(items) == {items[i].page : i \in DOMAIN items}
\* Each page once
MarksRight(items) ==
  /\ items \in Seq(Mark) /\ Cardinality(PagesOf(items)) = Len(items) /\ IsFiniteSet(PagesOf(items))
  /\ \A i, k \in DOMAIN items : items[i].page = items[k].page => i = k
MarksGood ==
  /\ sideView.page \in SidePage
  /\ MarksRight(sideMarks.items)
  /\ sideMarks = [items |-> sideMarks.items, saved |-> sideMarks.items,
                  listed |-> PageSorted(sideMarks.items), selected |-> sideMarks.selected]

LEMMA MarksSet ==
  ASSUME NEW items, MarksRight(items), sideMarks' = MarksAre(items), sideView'.page \in SidePage
  PROVE  MarksGood'
BY DEF MarksGood, MarksAre

LEMMA MarkAdded ==
  ASSUME NEW items, MarksRight(items), NEW m \in Mark, m.page \notin PagesOf(items)
  PROVE  MarksRight(Append(items, m))
<1> DEFINE t == Append(items, m)
           n == Len(items)
<1>1. /\ t \in Seq(Mark) /\ DOMAIN t = 1 .. (n + 1) /\ n \in Nat /\ DOMAIN items = 1 .. n
      /\ Len(t) = n + 1 /\ \A k \in 1 .. n : t[k] = items[k]
      /\ t[n + 1] = m
  BY DEF MarksRight
<1> HIDE DEF t, n
<1>2. PagesOf(t) = PagesOf(items) \union {m.page}
  <2>1. ASSUME NEW y \in PagesOf(t) PROVE y \in PagesOf(items) \union {m.page}
    <3>1. PICK k \in 1 .. (n + 1) : y = t[k].page
      BY <1>1 DEF PagesOf
    <3>2. k \in 1 .. n \/ k = n + 1
      BY <1>1
    <3> QED
      BY <1>1, <3>1, <3>2 DEF PagesOf
  <2>2. ASSUME NEW y \in PagesOf(items) PROVE y \in PagesOf(t)
    <3>1. PICK k \in 1 .. n : y = items[k].page
      BY <1>1 DEF PagesOf
    <3>2. k \in 1 .. (n + 1) /\ t[k].page = y
      BY <1>1, <3>1
    <3> QED
      BY <1>1, <3>2 DEF PagesOf
  <2>3. m.page \in PagesOf(t)
    <3>1. n + 1 \in 1 .. (n + 1)
      BY <1>1
    <3> QED
      BY <1>1, <3>1 DEF PagesOf
  <2> QED
    BY <2>1, <2>2, <2>3
<1>3. IsFiniteSet(PagesOf(items)) /\ Cardinality(PagesOf(items)) = n
  BY DEF MarksRight, n
<1>4. IsFiniteSet(PagesOf(t)) /\ Cardinality(PagesOf(t)) = n + 1
  BY <1>2, <1>3, FS_AddElement
<1>5. ASSUME NEW i \in 1 .. (n + 1), NEW k \in 1 .. (n + 1), t[i].page = t[k].page PROVE i = k
  <2>1. \A l \in 1 .. n : t[l].page # m.page
    BY <1>1 DEF PagesOf
  <2>2. (i \in 1 .. n \/ i = n + 1) /\ (k \in 1 .. n \/ k = n + 1)
    BY <1>1
  <2>3. CASE i \in 1 .. n /\ k \in 1 .. n
    BY <1>1, <1>5, <2>3 DEF MarksRight
  <2> QED
    BY <1>1, <1>5, <2>1, <2>2, <2>3
<1> QED
  BY <1>1, <1>4, <1>5 DEF MarksRight, t

LEMMA MarkDeleted ==
  ASSUME NEW items, MarksRight(items), NEW i \in DOMAIN items
  PROVE  MarksRight(RemoveAt(items, i))
<1> DEFINE t == RemoveAt(items, i)
           n == Len(items)
           From(m) == IF m < i THEN m ELSE m + 1
<1>1. /\ t \in Seq(Mark) /\ DOMAIN t = 1 .. (n - 1) /\ n \in Nat /\ DOMAIN items = 1 .. n
      /\ i \in 1 .. n /\ Len(t) = n - 1 /\ \A m \in 1 .. (n - 1) : t[m] = items[From(m)]
  <2>1. items \in Seq(Mark)
    BY DEF MarksRight
  <2> QED
    BY <2>1, RemovedAt
<1> HIDE DEF t, n
<1>2. \A m \in 1 .. (n - 1) : From(m) \in 1 .. n /\ From(m) # i
  BY <1>1
<1>3. \A k \in 1 .. n : k # i => items[k].page # items[i].page
  BY <1>1 DEF MarksRight
<1>4. PagesOf(t) = PagesOf(items) \ {items[i].page}
  <2>1. ASSUME NEW y \in PagesOf(t) PROVE y \in PagesOf(items) /\ y # items[i].page
    <3>1. PICK m \in 1 .. (n - 1) : y = t[m].page
      BY <1>1 DEF PagesOf
    <3>2. From(m) \in 1 .. n /\ From(m) # i /\ y = items[From(m)].page
      BY <1>1, <1>2, <3>1
    <3> HIDE DEF From
    <3> QED
      BY <1>1, <1>3, <3>2 DEF PagesOf
  <2>2. ASSUME NEW y \in PagesOf(items), y # items[i].page PROVE y \in PagesOf(t)
    <3>1. PICK l \in 1 .. n : y = items[l].page
      BY <1>1 DEF PagesOf
    <3> DEFINE m == IF l < i THEN l ELSE l - 1
    <3>2. l # i
      BY <2>2, <3>1
    <3>3. m \in 1 .. (n - 1) /\ From(m) = l
      BY <1>1, <3>2
    <3>4. t[m].page = y
      BY <1>1, <3>1, <3>3
    <3> HIDE DEF m
    <3> QED
      BY <1>1, <3>3, <3>4 DEF PagesOf
  <2> QED
    BY <2>1, <2>2
<1>5. IsFiniteSet(PagesOf(t)) /\ Cardinality(PagesOf(t)) = n - 1
  <2>1. IsFiniteSet(PagesOf(items)) /\ Cardinality(PagesOf(items)) = n
    BY DEF MarksRight, n
  <2>2. items[i].page \in PagesOf(items)
    BY DEF PagesOf
  <2> QED
    BY <1>4, <2>1, <2>2, FS_RemoveElement
<1>6. ASSUME NEW k \in 1 .. (n - 1), NEW m \in 1 .. (n - 1), t[k].page = t[m].page PROVE k = m
  <2>1. From(k) \in 1 .. n /\ From(m) \in 1 .. n /\ items[From(k)].page = items[From(m)].page
    BY <1>1, <1>2, <1>6
  <2>2. From(k) = From(m)
    <3> HIDE DEF From
    <3> QED
      BY <1>1, <2>1 DEF MarksRight
  <2> QED
    BY <1>1, <2>2
<1> QED
  BY <1>1, <1>5, <1>6 DEF MarksRight, t

LEMMA MarkRenamed ==
  ASSUME NEW items, MarksRight(items), NEW i \in DOMAIN items, NEW title \in SideTitles
  PROVE  MarksRight([items EXCEPT ![i].title = title])
<1> DEFINE m == [items[i] EXCEPT !.title = title]
           t == [items EXCEPT ![i] = m]
           n == Len(items)
<1>1. n \in Nat /\ DOMAIN items = 1 .. n /\ items \in Seq(Mark) /\ items[i] \in Mark
  BY DEF MarksRight
<1>2. m \in Mark /\ m.page = items[i].page
  BY <1>1 DEF Mark
<1> HIDE DEF m, n
<1>3. /\ t \in Seq(Mark) /\ Len(t) = Len(items) /\ DOMAIN t = DOMAIN items
      /\ \A k \in DOMAIN items : t[k] = IF k = i THEN m ELSE items[k]
  BY <1>1, <1>2
<1> HIDE DEF t
<1>4. \A k \in DOMAIN items : t[k].page = items[k].page
  BY <1>2, <1>3
<1>5. PagesOf(t) = PagesOf(items)
  BY <1>3, <1>4 DEF PagesOf
<1>6. MarksRight(t)
  BY <1>3, <1>4, <1>5 DEF MarksRight
<1> QED
  BY <1>6 DEF t, m

\* What the other handlers leave of it
LEMMA MarksStay ==
  ASSUME MarksGood, UNCHANGED sideMarks, sideView'.page \in SidePage
  PROVE  MarksGood'
BY DEF MarksGood

LEMMA MarksStep ==
  ASSUME MarksGood, [SideNext]_sideVars
  PROVE  MarksGood'
<1> DEFINE items == sideMarks.items
<1>1. /\ sideView.page \in SidePage /\ MarksRight(items)
      /\ sideMarks.saved = items /\ PagesOf(items) = MarkedPages
      /\ UsedSidebar.page = sideView.page /\ 0 \in SidePage
  BY SideAssumption DEF MarksGood, PagesOf, MarkedPages, UsedSidebar, SidePage
<1>2. CASE UNCHANGED sideVars
  BY <1>1, <1>2, MarksStay DEF sideVars
<1>3. CASE SideJobRuns \/ SideJobFinished
  BY <1>1, <1>3, MarksStay DEF SideJobRuns, SideJobFinished
<1>4. CASE ReloadForSidebar
  <2>1. sideView'.page = sideView.page /\ UNCHANGED sideMarks
    BY <1>4 DEF ReloadForSidebar, UsedSidebar
  <2> QED
    BY <1>1, <2>1, MarksStay
<1>5. CASE ShowSidebar \/ ToggleAdding \/ AnnotAdded
  <2>1. sideView'.page = sideView.page /\ UNCHANGED sideMarks
    <3>1. CASE ShowSidebar
      BY <3>1 DEF ShowSidebar, UsedSidebar
    <3>2. CASE ToggleAdding
      BY <3>2 DEF ToggleAdding, UsedSidebar
    <3>3. CASE AnnotAdded
      <4>1. sideView' = [UsedSidebar EXCEPT !.adding = FALSE, !.annots[sideView.doc] = @ + 1]
        BY <3>3 DEF AnnotAdded
      <4> QED
        BY <3>3, <4>1 DEF AnnotAdded, UsedSidebar
    <3> QED
      BY <1>5, <3>1, <3>2, <3>3
  <2> QED
    BY <1>1, <2>1, MarksStay
<1>6. CASE AddBookmark
  <2> DEFINE m == [page |-> sideView.page, title |-> "Page"]
  <2>1. m \in Mark /\ m.page \notin PagesOf(items)
    BY <1>1, <1>6 DEF AddBookmark, Mark
  <2>2. MarksRight(Append(items, m))
    BY <1>1, <2>1, MarkAdded
  <2>3. sideMarks' = MarksAre(Append(items, m)) /\ sideView'.page \in SidePage
    BY <1>1, <1>6 DEF AddBookmark
  <2> QED
    BY <2>2, <2>3, MarksSet
<1>7. CASE DeleteBookmark
  <2>1. PICK i \in DOMAIN items : sideMarks' = MarksAre(RemoveAt(items, i))
    BY <1>7 DEF DeleteBookmark
  <2>2. MarksRight(RemoveAt(items, i))
    BY <1>1, MarkDeleted
  <2>3. sideView'.page \in SidePage
    BY <1>1, <1>7 DEF DeleteBookmark
  <2> QED
    BY <2>1, <2>2, <2>3, MarksSet
<1>8. CASE ReopenWindow
  <2>1. sideMarks' = MarksAre(items) /\ sideView'.page = 0
    BY <1>1, <1>8 DEF ReopenWindow, NewView
  <2> QED
    BY <1>1, <2>1, MarksSet
<1>9. ASSUME NEW p \in SidePage, TurnTo(p) \/ ChooseEntry(p)
      PROVE  MarksGood'
  <2>1. sideView'.page = p /\ UNCHANGED sideMarks
    <3>1. sideView' = [UsedSidebar EXCEPT !.page = p] /\ UNCHANGED sideMarks
      BY <1>9 DEF TurnTo, ChooseEntry
    <3> QED
      BY <3>1 DEF UsedSidebar
  <2> QED
    BY <2>1, MarksStay
<1>10. ASSUME NEW p \in SidePage, SelectBookmark(p)
       PROVE  MarksGood'
  <2>1. sideMarks' = [sideMarks EXCEPT !.selected = p] /\ sideView' = [UsedSidebar EXCEPT !.page = p]
    BY <1>10 DEF SelectBookmark
  <2>2. sideView'.page = p
    BY <2>1 DEF UsedSidebar
  <2> QED
    BY <1>1, <2>1, <2>2 DEF MarksGood
<1>11. ASSUME NEW p \in SidePage, NEW t \in SideTitles, RenameBookmark(p, t)
       PROVE  MarksGood'
  <2>1. PICK i \in DOMAIN items : sideMarks' = MarksAre([items EXCEPT ![i].title = t])
    BY <1>11 DEF RenameBookmark
  <2>2. MarksRight([items EXCEPT ![i].title = t])
    BY <1>1, MarkRenamed
  <2>3. sideView'.page \in SidePage
    BY <1>1, <1>11 DEF RenameBookmark
  <2> QED
    BY <2>1, <2>2, <2>3, MarksSet
<1>12. ASSUME NEW s \in SidebarPages, ChooseSidebarPage(s)
       PROVE  MarksGood'
  BY <1>1, <1>12, MarksStay DEF ChooseSidebarPage
<1>13. ASSUME NEW l \in Layers, ToggleLayer(l) \/ LinkSetsLayers(l)
       PROVE  MarksGood'
  <2>1. sideView'.page = sideView.page /\ UNCHANGED sideMarks
    <3>1. CASE ToggleLayer(l)
      <4>1. \E v, w : sideView' = [UsedSidebar EXCEPT !.seen[v] = w]
        BY <3>1 DEF ToggleLayer
      <4> QED
        BY <3>1, <4>1 DEF ToggleLayer, UsedSidebar
    <3>2. CASE LinkSetsLayers(l)
      <4>1. \E v, w : sideView' = [UsedSidebar EXCEPT !.seen[v] = w]
        BY <3>2 DEF LinkSetsLayers
      <4> QED
        BY <3>2, <4>1 DEF LinkSetsLayers, UsedSidebar
    <3> QED
      BY <1>13, <3>1, <3>2
  <2> QED
    BY <1>1, <2>1, MarksStay
<1> HIDE DEF items
<1> QED
  BY <1>2, <1>3, <1>4, <1>5, <1>6, <1>7, <1>8, <1>9, <1>10, <1>11, <1>12, <1>13 DEF SideNext

LEMMA MarksBegin == SideInit => MarksGood
<1> SUFFICES ASSUME SideInit PROVE MarksGood
  OBVIOUS
<1>1. sideView.page \in SidePage
  BY SideAssumption DEF SideInit, NewView, SidePage
<1>2. MarksRight(<<>>)
  <2>1. PagesOf(<<>>) = {}
    BY DEF PagesOf
  <2> QED
    BY <2>1, FS_EmptySet DEF MarksRight
<1> QED
  BY <1>1, <1>2 DEF SideInit, MarksAre, MarksGood

LEMMA MarksShow == MarksGood => BookmarksKept
BY DEF MarksGood, MarksRight, PagesOf, BookmarksKept, MarkedPages

\* Whatever is added, deleted and renamed, from whichever page, and however often the
\* window is closed and the file opened again: the bookmarks have each page once, the
\* file has them, and the list shows them in the order of the pages.
THEOREM BookmarksAlwaysKept == SideInit /\ [][SideNext]_sideVars => []BookmarksKept
<1>1. SideInit => MarksGood
  BY MarksBegin
<1>2. MarksGood /\ [SideNext]_sideVars => MarksGood'
  BY MarksStep
<1>3. MarksGood => BookmarksKept
  BY MarksShow
<1> QED
  BY <1>1, <1>2, <1>3, PTL

-----------------------------------------------------------------------------
(* The clients together.                                                   *)

ClientsAre ==
  /\ CacheIs /\ ThumbGood(Sidebar) /\ SlidesGood(Slideshow) /\ SideIs

\* Each of them keeps what it has while another one runs.
LEMMA ClientsStep ==
  ASSUME ClientsAre, [ClientsNext]_clientVars
  PROVE  ClientsAre'
<1>1. [CacheNext]_cacheVars /\ [ThumbNext]_thumbVars /\ [SlideNext]_slideVars /\ [SideNext]_sideVars
  <2>1. CASE UNCHANGED clientVars
    BY <2>1 DEF clientVars
  <2>2. CASE ClientsNext
    BY <2>2 DEF ClientsNext
  <2> QED
    BY <2>1, <2>2
<1>2. CacheIs'
  BY <1>1, CacheStep, CacheStutter DEF ClientsAre
<1>3. ThumbGood(Sidebar)'
  BY <1>1, ThumbStep DEF ClientsAre
<1>4. SlidesGood(Slideshow)'
  BY <1>1, SlideStep DEF ClientsAre
<1>5. SideIs'
  BY <1>1, SideStep DEF ClientsAre
<1> QED
  BY <1>2, <1>3, <1>4, <1>5 DEF ClientsAre

\* Whatever of the view, the thumbnails, the presentation and the sidebar runs, and
\* however the worker answers: what the user sees has its picture or a job on the way
\* to it, and what is shown is of the document, the size, the rotation and the colours
\* of now, the lists of the sidebar included.
THEOREM SeenAlwaysRight == ClientsSpec => []SeenIsServedAndCurrent
<1>1. ClientsInit => ClientsAre
  BY CacheBegins, ThumbsBegin, SlidesBegin, SideBegins DEF ClientsInit, ClientsAre
<1>2. ClientsAre /\ [ClientsNext]_clientVars => ClientsAre'
  BY ClientsStep
<1>3. ClientsAre => SeenIsServedAndCurrent
  BY CacheShows, ThumbsShow, SlidesShow, SideShows
     DEF ClientsAre, SeenIsServedAndCurrent, ShownIsCurrent, VisibleIsServed
<1> QED
  BY <1>1, <1>2, <1>3, PTL DEF ClientsSpec

\* Whatever moves, changes, cancels, deletes or closes: no data of a page and no
\* bookmark gets lost.
THEOREM DataAlwaysKept == ClientsSpec => []DataKept
<1>1. ClientsInit => DataIs /\ MarksGood
  BY DataBegins, MarksBegin DEF ClientsInit
<1>2. DataIs /\ MarksGood /\ [ClientsNext]_clientVars => DataIs' /\ MarksGood'
  <2> SUFFICES ASSUME DataIs, MarksGood, [ClientsNext]_clientVars PROVE DataIs' /\ MarksGood'
    OBVIOUS
  <2>1. [PageNext]_pageVars /\ [SideNext]_sideVars
    <3>1. CASE UNCHANGED clientVars
      BY <3>1 DEF clientVars
    <3>2. CASE ClientsNext
      BY <3>2 DEF ClientsNext
    <3> QED
      BY <3>1, <3>2
  <2> QED
    BY <2>1, DataStep, MarksStep
<1>3. DataIs /\ MarksGood => DataKept
  BY DataShows, MarksShow DEF DataKept
<1> QED
  BY <1>1, <1>2, <1>3, PTL DEF ClientsSpec
=============================================================================
