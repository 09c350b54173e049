--------------------------- MODULE AnnotationsProofs ---------------------------
(***************************************************************************)
(* Theorems about EvAnnotations for any notes in the file and any number   *)
(* of pages and of calls: what is typed or set is kept in the document,    *)
(* and the popups follow their notes.  Here are the calls that drag and    *)
(* scroll popups, make them while a page is drawn, read the annotations    *)
(* of a page, create, set and remove them and load the document again;     *)
(* the invariant and the other calls are in ViewingProofs.                 *)
(***************************************************************************)
EXTENDS ViewingProofs

-----------------------------------------------------------------------------
(* Popups that are dragged or scrolled.                                    *)

\* Where the popup is dropped, it is.
LEMMA DroppedThere ==
  ASSUME NEW d \in Desks, NEW p \in AnnotPages, NEW y \in {0, 4}, NEW parent \in {0, 2}
  PROVE  ToPage(d, p, y - parent) \in Int /\ ToView(d, p, ToPage(d, p, y - parent)) = y - parent
<1> DEFINE x == y - parent + d.scroll
<1>1. d.scroll \in {0, 4, 8} /\ d.scale \in {1, 2} /\ p \in Int
  BY DEF Desks, AnnotPages
<1>2. x \in {-2, 0, 2, 4, 6, 8, 10, 12} /\ x \in Int
  BY <1>1
<1>3. x \div d.scale \in Int /\ (x \div d.scale) * d.scale = x
  <2> HIDE DEF x
  <2>1. CASE d.scale = 1
    <3>1. x \div 1 = x
      BY <1>2
    <3> QED
      BY <2>1, <3>1, <1>2
  <2>2. CASE d.scale = 2
    <3>1. (x \div 2) * 2 = x /\ x \div 2 \in Int
      BY <1>2
    <3> QED
      BY <2>2, <3>1
  <2> QED
    BY <2>1, <2>2, <1>1
<1> DEFINE q == x \div d.scale
<1>4. q \in Int /\ q * d.scale = x
  BY <1>3
<1>5. ToPage(d, p, y - parent) = q - (p - 1) * 4
  BY DEF ToPage, PageHeight
<1> HIDE DEF q
<1>6. (p - 1) * 4 + (q - (p - 1) * 4) = q /\ q - (p - 1) * 4 \in Int
  BY <1>1, <1>4
<1>7. ToView(d, p, q - (p - 1) * 4) = q * d.scale - d.scroll
  BY <1>6 DEF ToView, PageHeight
<1>8. q * d.scale - d.scroll = y - parent
  BY <1>1, <1>4
<1> QED
  BY <1>5, <1>6, <1>7, <1>8

\* Dragging a popup keeps the invariant.
LEMMA DragKeeps ==
  ASSUME NotesInvariant, NEW i \in DOMAIN popups, NEW y \in {0, 4}, MovePopup(i, y)
  PROVE  NotesInvariant'
<1> DEFINE k == LeaveFocus(Shape)
           u == k.popups[i]
           w == [u EXCEPT !.at = y, !.last = y]
           told == popups[i].last # y
           yes == TRUE
           no == FALSE
           missed == ~told /\ w.y # y
           place == ToPage(desk, w.page, y - w.parent)
           there == [w EXCEPT !.y = y, !.moved = yes, !.missed = no, !.place = place]
           here == [w EXCEPT !.missed = missed]
           v == IF told /\ w.y # y THEN there ELSE here
           R == [k EXCEPT !.popups[i] = v]
<1>1. /\ listed' = listed /\ NoteCall /\ ShapeIs(R)
  BY Zenon DEF MovePopup, Hands
<1> HIDE DEF k
<1>2. /\ Good(k, listed) /\ k.desk \in Desks /\ k \in Things /\ k.back.number = poppler.number
      /\ TableFits(k, k.desk) /\ SameView(k.desk, k.desk) /\ k.popups = popups
      /\ k.desk.range = desk.range /\ k.desk.scroll = desk.scroll /\ k.desk.scale = desk.scale
      /\ desk \in Desks
  BY FocusLeft, NotesHold DEF k
<1>3. u \in PopupWindows
  BY <1>2, NotesHold, SeqIn
<1>4. PlacedIs(k, i)
  BY <1>2 DEF Good, AllPlaced
<1>5. /\ R.back = k.back /\ R.annots = k.annots /\ R.desk = k.desk
      /\ R.popups = [k.popups EXCEPT ![i] = v]
  <2> HIDE DEF v
  <2> QED
    BY <1>2 DEF Things
<1>6. poppler' = k.back /\ annots' = k.annots /\ popups' = [k.popups EXCEPT ![i] = v] /\ desk' = k.desk
  <2> HIDE DEF R
  <2> QED
    BY <1>1, <1>5 DEF ShapeIs
<1> HIDE DEF u, R
<1>7. /\ w \in PopupWindows /\ w.at = y /\ w.last = y /\ w.y = u.y /\ w.parent = u.parent
      /\ w.of = u.of /\ w.made = u.made /\ w.page = u.page /\ w.place = u.place
      /\ w.title = u.title /\ w.text = u.text /\ w.visible = u.visible /\ w.shown = u.shown
  <2>1. y \in Int
    OBVIOUS
  <2> QED
    BY <2>1, <1>3 DEF PopupWindows
<1> HIDE DEF w
<1>8. place \in Int /\ ToView(k.desk, w.page, place) = y - w.parent
  <2> DEFINE p == w.page
             parent == w.parent
  <2>1. p \in AnnotPages /\ parent \in {0, 2}
    BY <1>7 DEF PopupWindows
  <2> HIDE DEF p, parent
  <2>2. ToPage(desk, p, y - parent) \in Int /\ ToView(desk, p, ToPage(desk, p, y - parent)) = y - parent
    BY <2>1, <1>2, DroppedThere
  <2>3. ToView(k.desk, p, place) = ToView(desk, p, place)
    BY <1>2 DEF ToView
  <2> QED
    BY <2>2, <2>3 DEF p, parent
<1>9. yes \in BOOLEAN /\ no \in BOOLEAN /\ ~no /\ missed \in BOOLEAN
  OBVIOUS
<1> HIDE DEF place, yes, no, missed
<1>10. /\ there \in PopupWindows /\ there.at = y /\ there.last = y /\ there.y = y
       /\ there.parent = w.parent /\ there.place = place
       /\ there.of = w.of /\ there.made = w.made /\ there.page = w.page
       /\ there.title = w.title /\ there.text = w.text /\ there.visible = w.visible
       /\ there.shown = w.shown
  <2>1. y \in Int
    OBVIOUS
  <2>2. there \in PopupWindows
    BY <2>1, <1>7, <1>8, <1>9 DEF PopupWindows
  <2>3. /\ there.at = y /\ there.last = y /\ there.y = y
        /\ there.parent = w.parent /\ there.place = place
        /\ there.of = w.of /\ there.made = w.made /\ there.page = w.page
        /\ there.title = w.title /\ there.text = w.text /\ there.visible = w.visible
        /\ there.shown = w.shown
    BY <1>7 DEF PopupWindows
  <2> QED
    BY <2>2, <2>3
<1>11. /\ here \in PopupWindows /\ here.at = y /\ here.last = y /\ here.y = w.y
       /\ here.parent = w.parent /\ here.place = w.place
       /\ here.of = w.of /\ here.made = w.made /\ here.page = w.page
       /\ here.title = w.title /\ here.text = w.text /\ here.visible = w.visible
       /\ here.shown = w.shown
  BY <1>7, <1>9 DEF PopupWindows
<1> HIDE DEF there, here
<1>12. PlacedAs(k, v, k.desk) /\ v \in PopupWindows /\ v.of = u.of /\ v.made = u.made /\ v.page = u.page
         /\ v.text = u.text /\ v.shown = u.shown
  <2>1. CASE told /\ w.y # y
    <3>1. v = there
      BY <2>1
    <3> QED
      BY <3>1, <1>4, <1>7, <1>8, <1>10 DEF PlacedAs, PlacedIs, u
  <2>2. CASE ~(told /\ w.y # y)
    <3>1. v = here
      BY <2>2
    <3> QED
      BY <3>1, <1>4, <1>7, <1>11 DEF PlacedAs, PlacedIs, u
  <2> QED
    BY <2>1, <2>2
<1> HIDE DEF v
<1> DEFINE table == k.desk
<1>13. /\ IsChanged(k, i, v, table) /\ TableFits(k, table) /\ SameView(k.desk, table)
       /\ poppler' = k.back /\ annots' = k.annots /\ popups' = [k.popups EXCEPT ![i] = v]
       /\ desk' = table /\ i \in DOMAIN k.popups
  BY <1>2, <1>6, <1>12 DEF IsChanged, u
<1> HIDE DEF table
<1> QED
  BY <1>1, <1>2, <1>13, PopupEnds

\* Scrolling moves the popups along and hides those of pages that are passed.
LEMMA ScrollKeeps ==
  ASSUME NotesInvariant, NEW at \in {0, 4, 8}, ScrollView(at)
  PROVE  NotesInvariant'
<1> DEFINE to(w) == ChildMove(w, w.y + desk.scroll - at, w.parent)
           P == [i \in DOMAIN popups |-> to(popups[i])]
           table == [desk EXCEPT !.scroll = at]
           k == [back |-> poppler, annots |-> annots, popups |-> P, desk |-> table]
           K == UpdateRange(k)
<1>1. /\ Good(Shape, listed) /\ Shape \in Things /\ desk \in Desks /\ Ordered(Shape, listed)
      /\ AllStored(Shape) /\ AllTyped(Shape) /\ AllPlaced(Shape) /\ SeenWithPage(Shape)
      /\ popups \in Seq(PopupWindows) /\ OwnersKnow(Shape)
  BY ShapeHas, ThingsAre DEF NotesInvariant, Good, Ordered
<1>2. listed' = listed /\ NoteCall /\ ShapeIs(K)
  <2>1. ShapeIs(UpdateRange([Shape EXCEPT !.desk.scroll = at,
                                          !.popups = [i \in DOMAIN @ |-> to(@[i])]]))
    BY Zenon DEF ScrollView
  <2>2. [Shape EXCEPT !.desk.scroll = at, !.popups = [i \in DOMAIN @ |-> to(@[i])]] = k
    <3>1. [i \in DOMAIN Shape.popups |-> to(Shape.popups[i])] = P
      BY ShapeHas
    <3>2. [Shape.desk EXCEPT !.scroll = at] = table
      BY ShapeHas
    <3>3. [Shape EXCEPT !.desk.scroll = at, !.popups = [i \in DOMAIN @ |-> to(@[i])]]
            = [Shape EXCEPT !.desk = [Shape.desk EXCEPT !.scroll = at],
                            !.popups = [i \in DOMAIN Shape.popups |-> to(Shape.popups[i])]]
      BY <1>1 DEF Things
    <3> HIDE DEF P, table, to
    <3>4. [Shape EXCEPT !.desk.scroll = at, !.popups = [i \in DOMAIN @ |-> to(@[i])]]
            = [Shape EXCEPT !.desk = table, !.popups = P]
      BY <3>1, <3>2, <3>3
    <3>5. [Shape EXCEPT !.desk = table, !.popups = P]
            = [back |-> Shape.back, annots |-> Shape.annots, popups |-> P, desk |-> table]
      <4> DEFINE T == [Shape EXCEPT !.desk = table]
      <4>1. [Shape EXCEPT !.desk = table, !.popups = P] = [T EXCEPT !.popups = P]
        OBVIOUS
      <4>2. T = [back |-> Shape.back, annots |-> Shape.annots, popups |-> Shape.popups, desk |-> table]
        BY <1>1 DEF Things
      <4> HIDE DEF T
      <4>3. [T EXCEPT !.popups = P] = [back |-> Shape.back, annots |-> Shape.annots, popups |-> P, desk |-> table]
        BY <4>2
      <4> QED
        BY <4>1, <4>3
    <3> QED
      BY <3>4, <3>5, ShapeHas, Zenon
  <2>3. listed' = listed /\ NoteCall
    BY DEF ScrollView, Hands
  <2> QED
    BY <2>1, <2>2, <2>3
<1>3. /\ table \in Desks /\ table.scroll = at /\ table.scale = desk.scale
      /\ table.pending = desk.pending /\ table.mapped = desk.mapped /\ table.early = desk.early
      /\ table.focus = desk.focus /\ table.menu = desk.menu /\ table.dialog = desk.dialog
      /\ table.range = desk.range /\ table.left = desk.left
  BY <1>1 DEF Desks
<1> HIDE DEF table
<1>4. \A i \in DOMAIN popups : IsMoved(popups[i], popups[i].y + desk.scroll - at, popups[i].parent, P[i])
  <2> SUFFICES ASSUME NEW i \in DOMAIN popups
               PROVE  IsMoved(popups[i], popups[i].y + desk.scroll - at, popups[i].parent, P[i])
    BY Zenon
  <2> DEFINE w == popups[i]
             y == w.y + desk.scroll - at
             parent == w.parent
  <2>1. w \in PopupWindows
    BY <1>1, SeqIn
  <2>2. y \in Int /\ parent \in {0, 2}
    <3>1. w.y \in Int /\ parent \in {0, 2}
      BY <2>1 DEF PopupWindows
    <3>2. desk.scroll \in Int
      BY <1>1 DEF Desks
    <3> QED
      BY <3>1, <3>2
  <2>3. P[i] = ChildMove(w, y, parent)
    OBVIOUS
  <2> HIDE DEF P, w, y, parent
  <2>4. IsMoved(w, y, parent, P[i])
    BY <2>1, <2>2, <2>3, MoveIs
  <2> QED
    BY <2>4 DEF w, y, parent
<1>5. P = [i \in DOMAIN popups |-> P[i]]
  OBVIOUS
<1> HIDE DEF P
<1>6. SameHands(Shape, P) /\ TableFits(Shape, table)
  <2>1. SameHands(Shape, P)
    BY <1>4, <1>5, ShapeHas DEF SameHands, IsMoved
  <2>2. TableFits(Shape, table)
    BY <1>3, NotesHold, ShapeHas DEF TableFits
  <2> QED
    BY <2>1, <2>2
<1>7. k = [back |-> Shape.back, annots |-> Shape.annots, popups |-> P, desk |-> table]
  BY ShapeHas
<1> HIDE DEF k
<1>8. /\ k \in Things /\ Ordered(k, listed) /\ AllStored(k)
      /\ k.back = Shape.back /\ k.annots = Shape.annots /\ k.popups = P /\ k.desk = table
      /\ DOMAIN P = DOMAIN Shape.popups
  BY <1>1, <1>6, <1>7, ViewChanges
<1>9. AllTyped(k) /\ SeenWithPage(k)
  <2>1. AllTyped(k)
    BY <1>1, <1>3, <1>4, <1>8, ShapeHas DEF AllTyped, TypedIs, IsMoved
  <2>2. SeenWithPage(k)
    <3> SUFFICES ASSUME NEW a \in DOMAIN annots, IsCurrent(Shape, a), annots[a].window # 0,
                        P[annots[a].window].shown
                 PROVE  annots[a].page \in desk.range \cup desk.left
      BY <1>3, <1>8, ShapeHas DEF SeenWithPage, IsCurrent
    <3>1. annots[a].window \in DOMAIN popups
      BY <1>1, ThingsAre, ShapeHas DEF OwnersKnow
    <3> QED
      BY <3>1, <1>1, <1>4, ShapeHas DEF SeenWithPage, IsMoved
  <2> QED
    BY <2>1, <2>2
<1>10. AllPlaced(k)
  <2> SUFFICES ASSUME NEW i \in DOMAIN popups PROVE PlacedIs(k, i)
    BY <1>8, ShapeHas DEF AllPlaced
  <2> DEFINE w == popups[i]
             v == P[i]
             far == ((w.page - 1) * PageHeight + w.place) * desk.scale
  <2>1. PlacedIs(Shape, i) /\ IsMoved(w, w.y + desk.scroll - at, w.parent, v) /\ w \in PopupWindows
    BY <1>1, <1>4, ShapeHas, SeqIn DEF AllPlaced
  <2>2. w.y \in Int /\ w.parent \in Int /\ desk.scroll \in Int
    <3>1. w.y \in Int /\ w.parent \in Int
      BY <2>1 DEF PopupWindows
    <3>2. desk.scroll \in Int
      BY <1>1 DEF Desks
    <3> QED
      BY <3>1, <3>2
  <2>3. ~desk.pending => v.y - v.parent = ToView(table, v.page, v.place)
    <3> SUFFICES ASSUME ~desk.pending PROVE v.y - v.parent = ToView(table, v.page, v.place)
      OBVIOUS
    <3>1. w.y - w.parent = far - desk.scroll
      BY <2>1, ShapeHas DEF PlacedIs, ToView
    <3>2. ToView(table, v.page, v.place) = far - at
      BY <2>1, <1>3 DEF ToView, IsMoved
    <3>3. far \in Int
      <4>1. w.page \in Int /\ w.place \in Int /\ desk.scale \in {1, 2}
        BY <2>1, <1>1 DEF PopupWindows, AnnotPages, Desks
      <4> QED
        BY <4>1 DEF PageHeight
    <3>4. v.y = w.y + desk.scroll - at /\ v.parent = w.parent
      BY <2>1 DEF IsMoved
    <3> HIDE DEF far, w, v
    <3> QED
      BY <3>1, <3>2, <3>3, <3>4, <2>2
  <2>4. v.at = Clamp(v.y, v.parent) /\ v.title = annots[v.made].settings.label /\ (v.shown => v.visible)
    BY <2>1, ShapeHas DEF PlacedIs, IsMoved
  <2> QED
    BY <2>3, <2>4, <1>3, <1>8, ShapeHas DEF PlacedIs
<1>11. /\ K \in Things /\ Ordered(K, listed) /\ AllStored(K) /\ AllTyped(K) /\ SeenWithPage(K)
       /\ K.back = k.back /\ K.annots = k.annots /\ OwnersKept(k, K)
       /\ LikeBeforeAll(k, K) /\ TableLike(k.desk, K.desk)
  <2> HIDE DEF K
  <2> QED
    BY <1>8, <1>9, RangeUpdates DEF K
<1> HIDE DEF K
<1>12. AllPlaced(K)
  BY <1>8, <1>10, <1>11, PlacesStay
<1>13. Good(K, listed) /\ K.back.number = poppler.number
  BY <1>8, <1>11, <1>12, ShapeHas DEF Good
<1> QED
  BY <1>2, <1>13, CallEnds

-----------------------------------------------------------------------------
(* Drawing a page.                                                         *)

\* A place on a page is a place in the view.
LEMMA ViewIsInt ==
  ASSUME NEW d \in Desks, NEW p \in Int, NEW place \in Int
  PROVE  ToView(d, p, place) \in Int
<1> DEFINE x == (p - 1) * 4 + place
<1>1. d.scroll \in {0, 4, 8} /\ d.scale \in {1, 2}
  BY DEF Desks
<1>2. x \in Int
  OBVIOUS
<1>3. ToView(d, p, place) = x * d.scale - d.scroll
  BY DEF ToView, PageHeight
<1> HIDE DEF x
<1>4. CASE d.scale = 1
  BY <1>1, <1>2, <1>3, <1>4
<1>5. CASE d.scale = 2
  BY <1>1, <1>2, <1>3, <1>5
<1> QED
  BY <1>1, <1>4, <1>5

\* A popup placed again follows its parent.
LEMMA FollowKeeps ==
  ASSUME NEW k, NEW L, Good(k, L), NEW i \in DOMAIN k.popups,
         k.popups[i].page \in k.desk.range, NEW K, K = MoveWithParent(k, i)
  PROVE  Good(K, L) /\ K.back = k.back /\ K.annots = k.annots /\ K.desk = k.desk
<1> DEFINE w == k.popups[i]
           root == k.desk.origin
           y == w.y + root - w.parent
           there == IF root = w.parent THEN w ELSE ChildMove(w, y, root)
           shown == w.shown \/ w.visible
           v == [there EXCEPT !.shown = shown]
           P == [k.popups EXCEPT ![i] = v]
           table == k.desk
<1>1. k \in Things /\ OwnersKnow(k) /\ PlacedIs(k, i) /\ k.desk \in Desks /\ w \in PopupWindows
  <2>1. k \in Things /\ OwnersKnow(k) /\ PlacedIs(k, i)
    BY DEF Good, Ordered, AllPlaced
  <2> QED
    BY <2>1, ThingsAre
<1>2. K = [k EXCEPT !.popups[i] = v]
  BY Zenon DEF MoveWithParent
<1>3. root \in {0, 2} /\ y \in Int /\ shown \in BOOLEAN /\ (~k.desk.pending => w.y - w.parent \in Int)
  <2>1. root \in {0, 2}
    BY <1>1 DEF Desks
  <2>2. w.y \in Int /\ w.parent \in Int
    BY <1>1 DEF PopupWindows
  <2> HIDE DEF w, root
  <2> QED
    BY <2>1, <2>2
<1>4. K = [back |-> k.back, annots |-> k.annots, popups |-> P, desk |-> table]
  <2> HIDE DEF v
  <2> QED
    BY <1>1, <1>2 DEF Things
<1> HIDE DEF w
<1>5. there = w \/ IsMoved(w, y, root, there)
  <2>1. CASE root = w.parent
    BY <2>1
  <2>2. CASE root # w.parent
    <3> HIDE DEF root, y
    <3>1. IsMoved(w, y, root, ChildMove(w, y, root))
      BY <1>1, <1>3, MoveIs
    <3> QED
      BY <2>2, <3>1
  <2> QED
    BY <2>1, <2>2
<1>6. /\ there \in PopupWindows /\ there.y - there.parent = w.y - w.parent
      /\ there.of = w.of /\ there.made = w.made /\ there.page = w.page /\ there.place = w.place
      /\ there.last = w.last /\ there.title = w.title /\ there.text = w.text
      /\ there.visible = w.visible
      /\ \/ /\ there.at = w.at /\ there.missed = w.missed
            /\ there.y = w.y /\ there.parent = w.parent
         \/ there.at = Clamp(there.y, there.parent)
  <2>1. CASE there = w
    <3>1. w.y - w.parent = w.y - w.parent
      OBVIOUS
    <3> QED
      BY <2>1, <1>1
  <2>2. CASE IsMoved(w, y, root, there)
    <3>1. there.y = y /\ there.parent = root /\ w.y \in Int /\ w.parent \in Int /\ root \in Int
      <4>1. w.y \in Int /\ w.parent \in Int
        BY <1>1 DEF PopupWindows
      <4>2. root \in Int
        BY <1>3
      <4> QED
        BY <2>2, <4>1, <4>2 DEF IsMoved
    <3>2. y - root = w.y - w.parent
      <4> HIDE DEF root
      <4> QED
        BY <3>1
    <3> QED
      BY <3>1, <3>2, <2>2 DEF IsMoved
  <2> QED
    BY <1>5, <2>1, <2>2
<1> HIDE DEF there
<1>7. /\ v \in PopupWindows /\ v.y = there.y /\ v.parent = there.parent /\ v.at = there.at
      /\ v.of = w.of /\ v.made = w.made /\ v.page = w.page /\ v.place = w.place
      /\ v.last = w.last /\ v.title = w.title /\ v.text = w.text /\ v.missed = there.missed
      /\ v.visible = w.visible /\ v.shown = shown
  <2> DEFINE s == shown
  <2>1. there \in PopupWindows /\ s \in BOOLEAN /\ v = [there EXCEPT !.shown = s]
    BY <1>3, <1>6
  <2> HIDE DEF s, v
  <2>2. v \in PopupWindows
    BY <2>1 DEF PopupWindows
  <2>3. /\ v.y = there.y /\ v.parent = there.parent /\ v.at = there.at
        /\ v.of = there.of /\ v.made = there.made /\ v.page = there.page /\ v.place = there.place
        /\ v.last = there.last /\ v.title = there.title /\ v.text = there.text
        /\ v.missed = there.missed /\ v.visible = there.visible /\ v.shown = s
    BY <2>1 DEF PopupWindows
  <2> QED
    BY <2>2, <2>3, <1>6 DEF s
<1> HIDE DEF v
<1>8. TableFits(k, table) /\ SameView(k.desk, table)
  BY <1>1 DEF TableFits, SameView, OwnersKnow
<1>9. PlacedAs(k, v, table)
  <2>1. /\ ~k.desk.pending => w.y - w.parent = ToView(k.desk, w.page, w.place)
        /\ ~w.missed => w.at = w.last \/ w.at = Clamp(w.y, w.parent)
        /\ w.title = k.annots[w.made].settings.label
        /\ w.shown => w.visible
    BY <1>1 DEF PlacedIs, w
  <2>2. ~v.missed => v.at = v.last \/ v.at = Clamp(v.y, v.parent)
    BY <2>1, <1>6, <1>7
  <2>3. v.y - v.parent = w.y - w.parent
    BY <1>6, <1>7
  <2> QED
    BY <2>1, <2>2, <2>3, <1>7 DEF PlacedAs
<1>10. IsChanged(k, i, v, table)
  BY <1>7, <1>9 DEF IsChanged, w
<1> HIDE DEF table
<1>11. P = [k.popups EXCEPT ![i] = v]
  OBVIOUS
<1> HIDE DEF P
<1>12. /\ Good(K, L) /\ K.back = k.back /\ K.annots = k.annots /\ K.popups = P /\ K.desk = table
  BY <1>4, <1>8, <1>10, <1>11, PopupGood
<1> QED
  BY <1>12 DEF table

\* A new popup for an object that has none
LEMMA CreateKeeps ==
  ASSUME NEW k, NEW L, Good(k, L), NEW a \in DOMAIN k.annots, k.annots[a].window = 0,
         k.annots[a].page \in k.desk.range, NEW K, K = CreateWindow(k, a)
  PROVE  /\ Good(K, L) /\ K.back = k.back /\ K.desk = k.desk
         /\ Len(K.popups) = Len(k.popups) + 1 /\ K.annots[a].window = Len(k.popups) + 1
         /\ K.popups[Len(k.popups) + 1].page = k.annots[a].page /\ ObjectsKept(k, K)
<1> DEFINE e == k.annots[a]
           open == e.settings.open = 1
           no == FALSE
           yes == TRUE
           w == [of |-> a, made |-> a, page |-> e.page, place |-> e.place, moved |-> no,
                 last |-> 0, missed |-> no, title |-> e.settings.label,
                 text |-> TextOf(e.contents), visible |-> open, shown |-> open,
                 y |-> 0, parent |-> 0, at |-> 0]
           root == k.desk.origin
           y == ToView(k.desk, e.page, e.place) + root
           v == ChildMove(w, y, root)
           N == Len(k.popups) + 1
           E == [e EXCEPT !.window = N, !.heard = yes]
           windows == Append(k.popups, v)
           objects == [k.annots EXCEPT ![a] = E]
<1>1. /\ k \in Things /\ Ordered(k, L) /\ OwnersKnow(k) /\ AllStored(k) /\ AllTyped(k)
      /\ AllPlaced(k) /\ SeenWithPage(k)
  BY DEF Good, Ordered
<1>2. /\ k.back \in NoteFiles /\ k.annots \in Seq(NoteObjects)
      /\ k.popups \in Seq(PopupWindows) /\ k.desk \in Desks /\ e \in NoteObjects
      /\ DOMAIN k.popups = 1 .. Len(k.popups) /\ Len(k.popups) \in Nat
      /\ DOMAIN k.annots = 1 .. Len(k.annots) /\ Len(k.annots) \in Nat
  BY <1>1, ThingsAre
<1>3. /\ K.back = k.back /\ K.desk = k.desk /\ K.annots = objects /\ K.popups = windows
      /\ K = [back |-> k.back, annots |-> objects, popups |-> windows, desk |-> k.desk]
  <2>1. K = [k EXCEPT !.popups = Append(k.popups, v), !.annots[a].window = N, !.annots[a].heard = yes]
    BY Zenon DEF CreateWindow
  <2> HIDE DEF v, N
  <2>2. K = [k EXCEPT !.popups = windows, !.annots = objects]
    BY <2>1
  <2> HIDE DEF windows, objects
  <2>3. k = [back |-> k.back, annots |-> k.annots, popups |-> k.popups, desk |-> k.desk]
    BY <1>1 DEF Things
  <2> QED
    BY <2>2, <2>3
<1>4. /\ e.page \in AnnotPages /\ e.page \in Int /\ e.place \in Int /\ e.contents \in Nat
      /\ e.settings.label \in Nat /\ root \in {0, 2} /\ N \in Nat /\ N # 0
  <2>1. e.page \in AnnotPages /\ e.place \in Int /\ e.contents \in Nat /\ e.settings \in NoteSettings
    BY <1>2 DEF NoteObjects
  <2>2. e.settings.label \in Nat
    BY <2>1 DEF NoteSettings
  <2>3. root \in {0, 2}
    BY <1>2 DEF Desks
  <2> QED
    BY <2>1, <2>2, <2>3, <1>2 DEF AnnotPages
<1>5. w \in PopupWindows /\ y \in Int
  <2>1. TextOf(e.contents) \in Nat \ {0}
    BY <1>4 DEF TextOf, Nothing, Empty
  <2>2. a \in Nat /\ open \in BOOLEAN /\ no \in BOOLEAN
    BY <1>2
  <2>3. y \in Int
    <3>1. ToView(k.desk, e.page, e.place) \in Int
      BY <1>2, <1>4, ViewIsInt
    <3>2. root \in Int
      BY <1>4
    <3> QED
      BY <3>1, <3>2
  <2> HIDE DEF e, open, no
  <2>4. w \in PopupWindows
    BY <2>1, <2>2, <1>4 DEF PopupWindows
  <2> QED
    BY <2>3, <2>4
<1>6. /\ w.of = a /\ w.made = a /\ w.page = e.page /\ w.place = e.place
      /\ w.title = e.settings.label /\ w.text = TextOf(e.contents)
      /\ w.shown = w.visible
  OBVIOUS
<1> HIDE DEF w
<1>7. IsMoved(w, y, root, v)
  <2> HIDE DEF y, root, v
  <2>1. IsMoved(w, y, root, ChildMove(w, y, root))
    BY <1>4, <1>5, MoveIs
  <2> QED
    BY <2>1 DEF v
<1>8. /\ v \in PopupWindows /\ v.of = a /\ v.made = a /\ v.page = e.page
      /\ v.text = TextOf(e.contents) /\ v.title = e.settings.label
      /\ v.y - v.parent = ToView(k.desk, v.page, v.place) /\ v.at = Clamp(v.y, v.parent)
      /\ v.shown => v.visible
  <2>1. y - root = ToView(k.desk, e.page, e.place)
    <3> DEFINE t == ToView(k.desk, e.page, e.place)
    <3>1. t \in Int
      BY <1>2, <1>4, ViewIsInt
    <3>2. y = t + root
      OBVIOUS
    <3> HIDE DEF t, y, root
    <3>3. y - root = t
      BY <3>1, <3>2, <1>4
    <3> QED
      BY <3>3 DEF t
  <2> HIDE DEF y, root, v, e
  <2> QED
    BY <2>1, <1>6, <1>7 DEF IsMoved
<1>9. /\ E \in NoteObjects /\ E.doc = e.doc /\ E.of = e.of /\ E.page = e.page /\ E.name = e.name
      /\ E.popup = e.popup /\ E.contents = e.contents /\ E.settings = e.settings /\ E.window = N
  <2>1. yes \in BOOLEAN
    OBVIOUS
  <2> HIDE DEF yes, N
  <2> QED
    BY <2>1, <1>2, <1>4 DEF NoteObjects
<1> HIDE DEF v, E, y, root
<1>10. /\ windows \in Seq(PopupWindows) /\ Len(windows) = N /\ DOMAIN windows = 1 .. N
       /\ windows[N] = v /\ \A j \in DOMAIN k.popups : j \in DOMAIN windows /\ windows[j] = k.popups[j]
  BY <1>2, <1>8, SeqAdd
<1>11. /\ objects \in Seq(NoteObjects) /\ Len(objects) = Len(k.annots)
       /\ DOMAIN objects = DOMAIN k.annots /\ objects[a] = E
       /\ \A b \in DOMAIN k.annots : b # a => objects[b] = k.annots[b]
  BY <1>2, <1>9, SeqSet
<1> HIDE DEF windows, objects
<1>12. K \in Things
  <2>1. [back |-> k.back, annots |-> objects, popups |-> windows, desk |-> k.desk] \in Things
    BY <1>2, <1>10, <1>11 DEF Things
  <2> QED
    BY <1>3, <2>1
<1>13. NotesKept(k, K) /\ ObjectsKept(k, K)
  <2>1. NotesKept(k, K)
    BY <1>3 DEF NotesKept
  <2>2. ObjectsKept(k, K)
    BY <1>3, <1>9, <1>11 DEF ObjectsKept, ObjectKept
  <2> QED
    BY <2>1, <2>2
<1> HIDE DEF N
<1>14. N = Len(k.popups) + 1
  BY DEF N
<1>15. OwnersKnow(K)
  <2>1. ASSUME NEW j \in DOMAIN windows
        PROVE  /\ windows[j].of \in DOMAIN objects /\ windows[j].made \in DOMAIN objects
               /\ objects[windows[j].of].window = j
               /\ objects[windows[j].of].page = windows[j].page
    <3>1. CASE j = N
      BY <3>1, <1>8, <1>9, <1>10, <1>11
    <3>2. CASE j \in DOMAIN k.popups
      <4> DEFINE b == k.popups[j].of
      <4>1. /\ b \in DOMAIN k.annots /\ k.popups[j].made \in DOMAIN k.annots
            /\ k.annots[b].window = j /\ k.annots[b].page = k.popups[j].page
        BY <3>2, <1>1 DEF OwnersKnow
      <4>2. b # a
        BY <4>1, <3>2, <1>2
      <4>3. windows[j] = k.popups[j] /\ objects[b] = k.annots[b]
        BY <3>2, <4>1, <4>2, <1>10, <1>11
      <4> QED
        BY <4>1, <4>3, <1>11
    <3> QED
      BY <3>1, <3>2, <1>2, <1>10, <1>14
  <2>2. ASSUME NEW b \in DOMAIN objects
        PROVE  /\ objects[b].window \in 0 .. N /\ objects[b].doc \in 1 .. k.back.number
               /\ objects[b].doc = k.back.number /\ objects[b].window # 0 =>
                    windows[objects[b].window].of = b
    <3>1. /\ k.annots[b].window \in 0 .. Len(k.popups) /\ k.annots[b].doc \in 1 .. k.back.number
          /\ IsCurrent(k, b) /\ k.annots[b].window # 0 => k.popups[k.annots[b].window].of = b
      BY <1>1, <1>11 DEF OwnersKnow
    <3>2. CASE b = a
      BY <3>1, <3>2, <1>4, <1>8, <1>9, <1>10, <1>11
    <3>3. CASE b # a
      <4>1. objects[b] = k.annots[b]
        BY <3>3, <1>11
      <4>2. k.annots[b].window # 0 => windows[k.annots[b].window] = k.popups[k.annots[b].window]
        BY <3>1, <1>2, <1>10
      <4> QED
        BY <3>1, <4>1, <4>2, <1>2, <1>14 DEF IsCurrent
    <3> QED
      BY <3>2, <3>3
  <2>3. /\ k.desk.focus \in 0 .. Len(k.popups) /\ k.desk.menu \in 0 .. Len(k.annots)
        /\ k.desk.dialog \in 0 .. Len(k.annots)
    BY <1>1 DEF OwnersKnow
  <2>4. k.desk.focus \in 0 .. N
    BY <2>3, <1>2, <1>14
  <2> QED
    BY <2>1, <2>2, <2>3, <2>4, <1>3, <1>10, <1>11 DEF OwnersKnow, IsCurrent
<1>16. Ordered(K, L)
  <2>1. K.desk.early = k.desk.early /\ K.desk.mapped = k.desk.mapped
    BY <1>3
  <2> QED
    BY <2>1, <1>1, <1>12, <1>13, <1>15, OrderRest
<1>17. AllStored(K)
  <2> SUFFICES ASSUME NEW b \in DOMAIN k.annots PROVE StoredIs(K, b)
    BY <1>3, <1>11 DEF AllStored
  <2>1. StoredIs(k, b)
    BY <1>1 DEF AllStored
  <2>2. CASE b = a
    <3>1. /\ K.back = k.back /\ K.annots[b].doc = e.doc /\ K.annots[b].of = e.of
          /\ K.annots[b].contents = e.contents /\ K.annots[b].settings = e.settings
      BY <2>2, <1>3, <1>9, <1>11
    <3>2. k.annots[b] = e /\ e.window = 0
      BY <2>2
    <3> HIDE DEF e
    <3> QED
      BY <2>1, <3>1, <3>2 DEF StoredIs, IsCurrent
  <2>3. CASE b # a
    <3>1. K.back = k.back /\ K.annots[b] = k.annots[b]
      BY <2>3, <1>3, <1>11
    <3> QED
      BY Zenon, <2>1, <3>1 DEF StoredIs, IsCurrent
  <2> QED
    BY <2>2, <2>3
<1>18. \A b \in DOMAIN k.annots : /\ objects[b].contents = k.annots[b].contents
                                  /\ objects[b].settings = k.annots[b].settings
  BY <1>9, <1>11
<1>19. \A j \in DOMAIN windows : j = N \/ j \in DOMAIN k.popups
  BY <1>2, <1>10, <1>14
<1>20. AllTyped(K)
  <2> SUFFICES ASSUME NEW j \in DOMAIN windows PROVE TypedIs(K, j)
    BY <1>3 DEF AllTyped
  <2>1. CASE j = N
    BY <2>1, <1>3, <1>8, <1>10, <1>18 DEF TypedIs
  <2>2. CASE j \in DOMAIN k.popups
    <3>1. TypedIs(k, j) /\ k.popups[j].of \in DOMAIN k.annots /\ windows[j] = k.popups[j]
      BY <2>2, <1>1, <1>10 DEF AllTyped, OwnersKnow
    <3> QED
      BY <3>1, <1>3, <1>18 DEF TypedIs
  <2> QED
    BY <1>19, <2>1, <2>2
<1>21. AllPlaced(K)
  <2> SUFFICES ASSUME NEW j \in DOMAIN windows PROVE PlacedIs(K, j)
    BY <1>3 DEF AllPlaced
  <2>1. CASE j = N
    BY <2>1, <1>3, <1>8, <1>10, <1>18 DEF PlacedIs
  <2>2. CASE j \in DOMAIN k.popups
    <3>1. PlacedIs(k, j) /\ k.popups[j].made \in DOMAIN k.annots /\ windows[j] = k.popups[j]
      BY <2>2, <1>1, <1>10 DEF AllPlaced, OwnersKnow
    <3> QED
      BY <3>1, <1>3, <1>18 DEF PlacedIs
  <2> QED
    BY <1>19, <2>1, <2>2
<1>22. SeenWithPage(K)
  <2> SUFFICES ASSUME NEW b \in DOMAIN k.annots, IsCurrent(K, b), objects[b].window # 0,
                      windows[objects[b].window].shown
               PROVE  objects[b].page \in k.desk.range \cup k.desk.left
    BY <1>3, <1>11 DEF SeenWithPage
  <2>1. CASE b = a
    BY <2>1, <1>9, <1>11
  <2>2. CASE b # a
    <3>1. objects[b] = k.annots[b] /\ IsCurrent(k, b)
      BY <2>2, <1>3, <1>11 DEF IsCurrent
    <3>2. k.annots[b].window \in DOMAIN k.popups
      BY <3>1, <1>1, <1>2 DEF OwnersKnow
    <3> QED
      BY <3>1, <3>2, <1>1, <1>10 DEF SeenWithPage
  <2> QED
    BY <2>1, <2>2
<1>23. Good(K, L)
  BY <1>16, <1>17, <1>20, <1>21, <1>22 DEF Good
<1> QED
  BY <1>3, <1>8, <1>9, <1>10, <1>11, <1>13, <1>14, <1>23

\* The objects of a list have different names.
LEMMA NamesDiffer ==
  ASSUME NEW k, NEW L, Ordered(k, L), NEW a \in DOMAIN k.annots, IsCurrent(k, a),
         NEW b \in DOMAIN k.annots, IsCurrent(k, b),
         k.annots[a].page = k.annots[b].page, k.annots[a].name = k.annots[b].name
  PROVE  a = b
<1>1. k \in Things /\ L \in Lists /\ ListsHold(k, L)
  BY DEF Ordered
<1> DEFINE p == k.annots[a].page
<1>2. p \in AnnotPages
  BY <1>1, ThingsAre DEF NoteObjects
<1>3. PICK m \in DOMAIN L[p] : L[p][m] = a
  BY <1>1 DEF ListsHold
<1>4. PICK n \in DOMAIN L[p] : L[p][n] = b
  BY <1>1 DEF ListsHold
<1>5. /\ k.annots[a].name = m \/ (m = 1 /\ k.annots[a].name = 0)
      /\ k.annots[b].name = n \/ (n = 1 /\ k.annots[b].name = 0)
  BY <1>1, <1>2, <1>3, <1>4 DEF ListsHold
<1>6. m # 0 /\ n # 0
  <2>1. L[p] \in Seq(Nat)
    BY <1>1, <1>2 DEF Lists
  <2> QED
    BY <2>1
<1>7. m = n
  BY <1>5, <1>6
<1> QED
  BY <1>3, <1>4, <1>7

\* The popup of an object that is gone is taken for another one of that name.
LEMMA SetKeeps ==
  ASSUME NEW k, NEW L, Good(k, L), NEW a \in DOMAIN k.annots, IsCurrent(k, a),
         k.annots[a].window = 0, k.annots[a].page \in k.desk.range,
         NEW i \in WindowsFor(k, a), NEW K, K = SetAnnotation(k, i, a)
  PROVE  /\ Good(K, L) /\ K.desk = k.desk /\ K.back.number = k.back.number
         /\ ObjectsKept(k, K) /\ i \in DOMAIN K.popups
         /\ K.popups[i].page = k.annots[a].page
<1> DEFINE e == k.annots[a]
           w == k.popups[i]
           b == w.of
           W == [w EXCEPT !.of = a]
           E == [e EXCEPT !.window = i]
           windows == [k.popups EXCEPT ![i] = W]
           objects == [k.annots EXCEPT ![a] = E]
           J == [k EXCEPT !.popups[i].of = a, !.annots[a].window = i]
<1>1. /\ k \in Things /\ Ordered(k, L) /\ OwnersKnow(k) /\ AllStored(k) /\ AllTyped(k)
      /\ AllPlaced(k) /\ SeenWithPage(k) /\ ListsHold(k, L)
  BY DEF Good, Ordered
<1>2. i \in DOMAIN k.popups /\ w.page = e.page /\ k.annots[b].name = e.name
  BY DEF WindowsFor
<1>3. /\ k.back \in NoteFiles /\ k.annots \in Seq(NoteObjects)
      /\ k.popups \in Seq(PopupWindows) /\ k.desk \in Desks
      /\ e \in NoteObjects /\ w \in PopupWindows
      /\ DOMAIN k.popups = 1 .. Len(k.popups) /\ Len(k.popups) \in Nat
      /\ DOMAIN k.annots = 1 .. Len(k.annots) /\ Len(k.annots) \in Nat
      /\ a \in Nat /\ i \in Nat /\ i # 0
  BY <1>1, <1>2, ThingsAre
<1>4. b \in DOMAIN k.annots /\ k.annots[b].window = i /\ k.annots[b].page = w.page /\ b # a
  BY <1>1, <1>2, <1>3 DEF OwnersKnow
<1>5. ~IsCurrent(k, b)
  <2> SUFFICES ASSUME IsCurrent(k, b) PROVE FALSE
    OBVIOUS
  <2>1. k.annots[a].page = k.annots[b].page /\ k.annots[a].name = k.annots[b].name
    BY <1>2, <1>4
  <2> HIDE DEF b
  <2> QED
    BY <2>1, <1>1, <1>4, NamesDiffer
<1>6. /\ W \in PopupWindows /\ W.of = a /\ W.made = w.made /\ W.page = w.page /\ W.place = w.place
      /\ W.y = w.y /\ W.parent = w.parent /\ W.at = w.at /\ W.last = w.last
      /\ W.missed = w.missed /\ W.title = w.title /\ W.text = w.text
      /\ W.visible = w.visible /\ W.shown = w.shown
  <2> HIDE DEF w
  <2> QED
    BY <1>3 DEF PopupWindows
<1>7. /\ E \in NoteObjects /\ E.doc = e.doc /\ E.of = e.of /\ E.page = e.page /\ E.name = e.name
      /\ E.popup = e.popup /\ E.contents = e.contents /\ E.settings = e.settings
      /\ E.heard = e.heard /\ E.window = i
  <2> HIDE DEF e
  <2> QED
    BY <1>3 DEF NoteObjects
<1>8. /\ J.back = k.back /\ J.desk = k.desk /\ J.popups = windows /\ J.annots = objects
      /\ J = [back |-> k.back, annots |-> objects, popups |-> windows, desk |-> k.desk]
  <2> DEFINE T == [k EXCEPT !.popups = windows]
  <2>1. J = [T EXCEPT !.annots = objects]
    BY <1>1 DEF Things
  <2> HIDE DEF windows, objects, J
  <2> QED
    BY <2>1, <1>1 DEF Things
<1>9. K = SyncContents(J, i)
  BY Zenon DEF SetAnnotation
<1> HIDE DEF W, E, J
<1>10. /\ windows \in Seq(PopupWindows) /\ Len(windows) = Len(k.popups)
       /\ DOMAIN windows = DOMAIN k.popups /\ windows[i] = W
       /\ \A j \in DOMAIN k.popups : j # i => windows[j] = k.popups[j]
  BY <1>2, <1>3, <1>6, SeqSet
<1>11. /\ objects \in Seq(NoteObjects) /\ Len(objects) = Len(k.annots)
       /\ DOMAIN objects = DOMAIN k.annots /\ objects[a] = E
       /\ \A c \in DOMAIN k.annots : c # a => objects[c] = k.annots[c]
  BY <1>3, <1>7, SeqSet
<1> HIDE DEF windows, objects
<1>12. J \in Things
  <2>1. [back |-> k.back, annots |-> objects, popups |-> windows, desk |-> k.desk] \in Things
    BY <1>3, <1>10, <1>11 DEF Things
  <2> QED
    BY <1>8, <2>1
<1>13. NotesKept(k, J) /\ ObjectsKept(k, J)
  <2>1. NotesKept(k, J)
    BY <1>8 DEF NotesKept
  <2>2. ObjectsKept(k, J)
    BY <1>7, <1>8, <1>11 DEF ObjectsKept, ObjectKept
  <2> QED
    BY <2>1, <2>2
<1>14. \A c \in DOMAIN k.annots : /\ objects[c].contents = k.annots[c].contents
                                  /\ objects[c].settings = k.annots[c].settings
                                  /\ objects[c].doc = k.annots[c].doc
                                  /\ objects[c].page = k.annots[c].page
  BY <1>7, <1>11
<1>15. OwnersKnow(J)
  <2>1. ASSUME NEW j \in DOMAIN windows
        PROVE  /\ windows[j].of \in DOMAIN objects /\ windows[j].made \in DOMAIN objects
               /\ objects[windows[j].of].window = j
               /\ objects[windows[j].of].page = windows[j].page
    <3>1. CASE j = i
      <4>1. w.made \in DOMAIN k.annots
        BY <1>1, <1>2 DEF OwnersKnow
      <4> QED
        BY <3>1, <4>1, <1>2, <1>6, <1>7, <1>10, <1>11
    <3>2. CASE j # i
      <4> DEFINE c == k.popups[j].of
      <4>1. /\ c \in DOMAIN k.annots /\ k.popups[j].made \in DOMAIN k.annots
            /\ k.annots[c].window = j /\ k.annots[c].page = k.popups[j].page
        BY <1>1, <1>10 DEF OwnersKnow
      <4>2. c # a
        BY <4>1, <1>3, <1>10
      <4>3. windows[j] = k.popups[j] /\ objects[c] = k.annots[c]
        BY <3>2, <4>1, <4>2, <1>10, <1>11
      <4> QED
        BY <4>1, <4>3, <1>11
    <3> QED
      BY <3>1, <3>2
  <2>2. ASSUME NEW c \in DOMAIN objects
        PROVE  /\ objects[c].window \in 0 .. Len(k.popups) /\ objects[c].doc \in 1 .. k.back.number
               /\ objects[c].doc = k.back.number /\ objects[c].window # 0 =>
                    windows[objects[c].window].of = c
    <3>1. /\ k.annots[c].window \in 0 .. Len(k.popups) /\ k.annots[c].doc \in 1 .. k.back.number
          /\ IsCurrent(k, c) /\ k.annots[c].window # 0 => k.popups[k.annots[c].window].of = c
      BY <1>1, <1>11 DEF OwnersKnow
    <3>2. CASE c = a
      <4>1. i \in 0 .. Len(k.popups)
        BY <1>2, <1>3
      <4> QED
        BY <3>1, <3>2, <4>1, <1>6, <1>7, <1>10, <1>11
    <3>3. CASE c # a
      <4>1. objects[c] = k.annots[c]
        BY <3>3, <1>11
      <4>2. IsCurrent(k, c) /\ k.annots[c].window # 0 =>
              windows[k.annots[c].window] = k.popups[k.annots[c].window]
        <5> SUFFICES ASSUME IsCurrent(k, c), k.annots[c].window # 0
                     PROVE  windows[k.annots[c].window] = k.popups[k.annots[c].window]
          OBVIOUS
        <5>1. k.annots[c].window \in DOMAIN k.popups
          BY <3>1, <1>3
        <5>2. k.annots[c].window # i
          BY <3>1, <1>5
        <5> QED
          BY <5>1, <5>2, <1>10
      <4> QED
        BY <3>1, <4>1, <4>2 DEF IsCurrent
    <3> QED
      BY <3>2, <3>3
  <2>3. /\ k.desk.focus \in 0 .. Len(k.popups) /\ k.desk.menu \in 0 .. Len(k.annots)
        /\ k.desk.dialog \in 0 .. Len(k.annots)
    BY <1>1 DEF OwnersKnow
  <2> QED
    BY <2>1, <2>2, <2>3, <1>8, <1>10, <1>11 DEF OwnersKnow, IsCurrent
<1>16. Ordered(J, L)
  <2>1. J.desk.early = k.desk.early /\ J.desk.mapped = k.desk.mapped
    BY <1>8
  <2> QED
    BY <2>1, <1>1, <1>12, <1>13, <1>15, OrderRest
<1>17. AllStored(J)
  <2> SUFFICES ASSUME NEW c \in DOMAIN k.annots PROVE StoredIs(J, c)
    BY <1>8, <1>11 DEF AllStored
  <2>1. StoredIs(k, c)
    BY <1>1 DEF AllStored
  <2>2. CASE c = a
    <3> DEFINE n == k.back.notes[e.of]
    <3>1. ~n.gone =>
            /\ e.contents = n.contents
            /\ \A s \in Settings : \/ e.settings[s] = n.settings[s]
                                   \/ s = "open" /\ ~n.popup
                                   \/ s = "label" /\ n.settings[s] = Nobody
      BY Zenon, <2>1, <2>2 DEF StoredIs
    <3>2. J.annots[a] = E /\ J.back.notes[E.of] = n
      BY <1>7, <1>8, <1>11
    <3> HIDE DEF n, e
    <3> QED
      BY <2>2, <3>1, <3>2, <1>7 DEF StoredIs
  <2>3. CASE c # a
    BY Zenon, <2>1, <2>3, <1>8, <1>11 DEF StoredIs, IsCurrent
  <2> QED
    BY <2>2, <2>3
<1>18. TypedBut(J, i)
  <2> SUFFICES ASSUME NEW j \in DOMAIN k.popups, j # i PROVE TypedIs(J, j)
    BY <1>8, <1>10 DEF TypedBut
  <2>1. TypedIs(k, j) /\ k.popups[j].of \in DOMAIN k.annots /\ windows[j] = k.popups[j]
    BY <1>1, <1>10 DEF AllTyped, OwnersKnow
  <2> QED
    BY <2>1, <1>8, <1>14 DEF TypedIs
<1>19. AllPlaced(J)
  <2> SUFFICES ASSUME NEW j \in DOMAIN k.popups PROVE PlacedIs(J, j)
    BY <1>8, <1>10 DEF AllPlaced
  <2>1. PlacedIs(k, j) /\ k.popups[j].made \in DOMAIN k.annots
    BY <1>1 DEF AllPlaced, OwnersKnow
  <2>2. CASE j = i
    BY <2>1, <2>2, <1>6, <1>8, <1>10, <1>14 DEF PlacedIs
  <2>3. CASE j # i
    <3>1. windows[j] = k.popups[j]
      BY <2>3, <1>10
    <3> QED
      BY <2>1, <3>1, <1>8, <1>14 DEF PlacedIs
  <2> QED
    BY <2>2, <2>3
<1>20. SeenWithPage(J)
  <2> SUFFICES ASSUME NEW c \in DOMAIN k.annots, IsCurrent(J, c), objects[c].window # 0,
                      windows[objects[c].window].shown
               PROVE  objects[c].page \in k.desk.range \cup k.desk.left
    BY <1>8, <1>11 DEF SeenWithPage
  <2>1. CASE c = a
    BY <2>1, <1>7, <1>11
  <2>2. CASE c # a
    <3>1. objects[c] = k.annots[c] /\ IsCurrent(k, c)
      BY <2>2, <1>8, <1>11 DEF IsCurrent
    <3>2. k.annots[c].window \in DOMAIN k.popups /\ k.annots[c].window # i
      BY <3>1, <2>2, <1>1, <1>3, <1>5 DEF OwnersKnow
    <3>3. windows[k.annots[c].window] = k.popups[k.annots[c].window]
      BY <3>2, <1>10
    <3> QED
      BY <3>1, <3>3, <1>1 DEF SeenWithPage
  <2> QED
    BY <2>1, <2>2
<1>21. GoodBut(J, L, i) /\ i \in DOMAIN J.popups
  BY <1>2, <1>8, <1>10, <1>16, <1>17, <1>18, <1>19, <1>20 DEF GoodBut
<1>22. /\ K \in Things /\ K.popups = J.popups /\ K.desk = J.desk
       /\ NotesKept(J, K) /\ ObjectsKept(J, K)
       /\ Ordered(K, L) /\ AllStored(K) /\ AllPlaced(K) /\ SeenWithPage(K) /\ TypedBut(K, i)
       /\ K.popups[i].text = TextOf(K.annots[K.popups[i].of].contents)
  BY <1>9, <1>21, SyncKeeps
<1>23. AllTyped(K)
  BY <1>22 DEF AllTyped, TypedBut, TypedIs
<1>24. Good(K, L)
  BY <1>22, <1>23 DEF Good
<1>25. ObjectsKept(k, K)
  BY SMTT(20), <1>13, <1>22, <1>8, <1>11 DEF ObjectsKept, ObjectKept
<1>26. K.back.number = k.back.number /\ K.desk = k.desk /\ i \in DOMAIN K.popups
         /\ K.popups[i].page = k.annots[a].page
  BY <1>2, <1>6, <1>8, <1>10, <1>22 DEF NotesKept
<1> QED
  BY <1>24, <1>25, <1>26

\* The popup of an annotation of a page in view is shown.
LEMMA ShowKeeps ==
  ASSUME NEW k, NEW L, Good(k, L), NEW a \in DOMAIN k.annots, IsCurrent(k, a),
         k.annots[a].page \in k.desk.range, NEW K, K = ShowWindow(k, a)
  PROVE  /\ Good(K, L) /\ K.desk = k.desk /\ K.back.number = k.back.number
         /\ ObjectsKept(k, K)
<1> DEFINE j == k.annots[a].window
           i == Min(WindowsFor(k, a))
           T == SetAnnotation(k, i, a)
<1>1. k \in Things /\ OwnersKnow(k)
  BY DEF Good, Ordered
<1>2. K = IF ~k.annots[a].popup THEN k
          ELSE IF j # 0 THEN MoveWithParent(k, j)
          ELSE IF WindowsFor(k, a) = {} THEN CreateWindow(k, a)
          ELSE MoveWithParent(T, i)
  BY Zenon DEF ShowWindow
<1>3. ObjectsKept(k, k)
  BY DEF ObjectsKept, ObjectKept
<1>4. CASE ~k.annots[a].popup
  BY <1>2, <1>3, <1>4
<1>5. CASE k.annots[a].popup /\ j # 0
  <2>1. K = MoveWithParent(k, j)
    BY <1>2, <1>5
  <2>2. j \in DOMAIN k.popups /\ k.popups[j].of = a
    BY <1>1, <1>5, ThingsAre DEF OwnersKnow
  <2>3. k.popups[j].page \in k.desk.range
    BY <2>2, <1>1 DEF OwnersKnow
  <2> HIDE DEF j
  <2>4. Good(K, L) /\ K.back = k.back /\ K.annots = k.annots /\ K.desk = k.desk
    BY <2>1, <2>2, <2>3, FollowKeeps
  <2>5. ObjectsKept(k, K)
    BY <2>4 DEF ObjectsKept, ObjectKept
  <2> QED
    BY <2>4, <2>5
<1>6. CASE k.annots[a].popup /\ j = 0 /\ WindowsFor(k, a) = {}
  <2>1. K = CreateWindow(k, a) /\ k.annots[a].window = 0
    BY <1>2, <1>6
  <2>2. Good(K, L) /\ K.back = k.back /\ K.desk = k.desk /\ ObjectsKept(k, K)
    BY <2>1, CreateKeeps
  <2> QED
    BY <2>2
<1>7. CASE k.annots[a].popup /\ j = 0 /\ WindowsFor(k, a) # {}
  <2>1. K = MoveWithParent(T, i) /\ k.annots[a].window = 0
    BY <1>2, <1>7
  <2>2. i \in WindowsFor(k, a)
    <3> DEFINE S == WindowsFor(k, a)
    <3>1. S \in SUBSET Nat
      BY <1>1, ThingsAre DEF WindowsFor
    <3>2. S # {}
      BY <1>7
    <3> HIDE DEF S
    <3>3. \E x \in S : \A y \in S : x <= y
      BY <3>1, <3>2, LeastOf
    <3>4. Min(S) \in S
      BY <3>3 DEF Min
    <3> QED
      BY <3>4 DEF S
  <2> HIDE DEF i, T, j
  <2>3. /\ Good(T, L) /\ T.desk = k.desk /\ T.back.number = k.back.number
        /\ ObjectsKept(k, T) /\ i \in DOMAIN T.popups
        /\ T.popups[i].page = k.annots[a].page
    BY <2>1, <2>2, SetKeeps DEF T
  <2>4. T.popups[i].page \in T.desk.range
    BY <2>3
  <2>5. Good(K, L) /\ K.back = T.back /\ K.annots = T.annots /\ K.desk = T.desk
    BY <2>1, <2>3, <2>4, FollowKeeps
  <2>6. ObjectsKept(k, K)
    BY <2>3, <2>5 DEF ObjectsKept, ObjectKept
  <2> QED
    BY <2>3, <2>5, <2>6
<1> QED
  BY <1>4, <1>5, <1>6, <1>7

\* What the view has of a page while it is drawn
IsDrawn(x) ==
  /\ Good(x, listed) /\ x.desk = desk /\ x.back.number = poppler.number
  /\ ObjectsKept(Shape, x)

\* Drawing a page makes the popups that its annotations need.
LEMMA DrawKeeps ==
  ASSUME NotesInvariant, NEW p \in AnnotPages, DrawPage(p)
  PROVE  NotesInvariant'
<1> DEFINE N == Len(listed[p])
           State == {x \in Things : IsDrawn(x)}
           next == [i \in 1 .. N |-> [x \in State |-> ShowWindow(x, listed[p][i])]]
           start == Shape
           IsRun(f) == f = [n \in 0 .. N |-> IF n = 0 THEN start ELSE ShowWindow(f[n - 1], listed[p][n])]
           run == CHOOSE f : IsRun(f)
<1>1. p \in desk.range /\ ShapeIs(run[N]) /\ listed' = listed /\ noteCalls' = noteCalls
  BY Zenon DEF DrawPage
<1>2. /\ Good(Shape, listed) /\ Shape \in Things /\ ListsHold(Shape, listed) /\ listed[p] \in Seq(Nat)
      /\ DOMAIN annots = 1 .. Len(annots) /\ Len(annots) \in Nat
  BY NotesHold DEF Ordered, Lists
<1>3. N \in Nat /\ DOMAIN listed[p] = 1 .. N
  BY <1>2
<1>4. start \in State
  <2>1. ObjectsKept(Shape, Shape)
    BY DEF ObjectsKept, ObjectKept
  <2> QED
    BY <1>2, <2>1, ShapeHas DEF IsDrawn
<1>5. ASSUME NEW i \in 1 .. N, NEW x \in State
      PROVE  ShowWindow(x, listed[p][i]) \in State
  <2> DEFINE a == listed[p][i]
             K == ShowWindow(x, a)
  <2>1. a \in DOMAIN annots /\ annots[a].page = p /\ annots[a].doc = poppler.number
    BY <1>2, <1>3, ShapeHas DEF ListsHold, IsCurrent
  <2>2. x \in Things /\ Good(x, listed) /\ x.desk = desk /\ x.back.number = poppler.number
          /\ ObjectsKept(Shape, x)
    BY DEF IsDrawn
  <2>3. /\ a \in DOMAIN x.annots /\ x.annots[a].page \in x.desk.range /\ IsCurrent(x, a)
    <3>1. DOMAIN x.annots = DOMAIN annots
      BY <1>2, <2>2, ThingsAre, ShapeHas DEF ObjectsKept
    <3> HIDE DEF a
    <3> QED
      BY <3>1, <2>1, <2>2, <1>1, ShapeHas DEF ObjectsKept, ObjectKept, IsCurrent
  <2> HIDE DEF a, K
  <2>4. /\ Good(K, listed) /\ K.desk = x.desk /\ K.back.number = x.back.number
        /\ ObjectsKept(x, K)
    BY <2>2, <2>3, ShowKeeps DEF K
  <2>5. ObjectsKept(Shape, K)
    <3>1. DOMAIN x.annots = DOMAIN Shape.annots
      BY <1>2, <2>2, ThingsAre DEF ObjectsKept
    <3> QED
      BY <3>1, <2>2, <2>4 DEF ObjectsKept, ObjectKept
  <2>6. K \in Things
    BY <2>4 DEF Good, Ordered
  <2>7. K \in State
    BY <2>2, <2>4, <2>5, <2>6 DEF IsDrawn
  <2> QED
    BY <2>7 DEF K, a
<1>6. \A i \in 1 .. N : \A x \in State : next[i][x] = ShowWindow(x, listed[p][i]) /\ next[i][x] \in State
  BY <1>5
<1>7. ASSUME NEW f PROVE IsRun(f) <=> f = [n \in 0 .. N |-> IF n = 0 THEN start ELSE ShowWindow(f[n - 1], listed[p][n])]
  OBVIOUS
<1> HIDE DEF N, State, next, start
<1>8. PICK f : Solves(f, N, start, next)
  BY <1>3, StepsExist, Zenon
<1>9. \A i \in 0 .. N : f[i] = IF i = 0 THEN start ELSE next[i][f[i - 1]]
  BY <1>8, Zenon DEF Solves
<1> DEFINE T == {i \in 0 .. N : f[i] \in State}
<1>10. 0 \in T
  BY <1>3, <1>4, <1>9
<1>11. \A i \in 1 .. N : i - 1 \in T => i \in T
  BY <1>3, <1>6, <1>9
<1>12. \A i \in 0 .. N : i \in T
  <2> HIDE DEF T
  <2> QED
    BY <1>3, <1>10, <1>11, CountUp
<1>13. \A i \in 0 .. N : f[i] = IF i = 0 THEN start ELSE ShowWindow(f[i - 1], listed[p][i])
  <2> SUFFICES ASSUME NEW i \in 0 .. N, i # 0
               PROVE  f[i] = ShowWindow(f[i - 1], listed[p][i])
    BY <1>9
  <2>1. i \in 1 .. N /\ i - 1 \in 0 .. N
    BY <1>3
  <2>2. f[i] = next[i][f[i - 1]] /\ f[i - 1] \in State
    BY <1>9, <1>12, <2>1
  <2> QED
    BY <1>6, <2>1, <2>2
<1>14. IsRun(f)
  <2>1. f = [i \in 0 .. N |-> f[i]]
    <3>1. f = [i \in 0 .. N |-> IF i = 0 THEN start ELSE next[i][f[i - 1]]]
      BY <1>8, Zenon DEF Solves
    <3> QED
      BY <3>1, <1>9
  <2> QED
    BY <2>1, <1>7, <1>13
<1>15. IsRun(run)
  <2> HIDE DEF IsRun
  <2> QED
    BY <1>14, Zenon
<1> HIDE DEF run
<1>16. \A i \in 0 .. N : run[i] = IF i = 0 THEN start ELSE ShowWindow(run[i - 1], listed[p][i])
  BY <1>15, Zenon DEF IsRun
<1> DEFINE U == {i \in 0 .. N : run[i] \in State}
<1>17. 0 \in U
  BY <1>3, <1>4, <1>16
<1>18. \A i \in 1 .. N : i - 1 \in U => i \in U
  <2> SUFFICES ASSUME NEW i \in 1 .. N, run[i - 1] \in State PROVE run[i] \in State
    BY <1>3
  <2>1. i \in 0 .. N /\ i # 0
    BY <1>3
  <2>2. run[i] = ShowWindow(run[i - 1], listed[p][i])
    BY <1>16, <2>1
  <2> QED
    BY <2>2, <1>5
<1>19. \A i \in 0 .. N : i \in U
  <2> HIDE DEF U
  <2> QED
    BY <1>3, <1>17, <1>18, CountUp
<1> DEFINE K == run[N]
<1>20. K \in State
  BY <1>3, <1>19
<1> HIDE DEF K
<1>21. ShapeIs(K) /\ Good(K, listed) /\ K.back.number = poppler.number
  BY <1>1, <1>20 DEF State, IsDrawn, K
<1> QED
  BY <1>1, <1>21, CallEnds

-----------------------------------------------------------------------------
(* The annotations of a page are made into objects.                        *)

\* Two sequences, one after the other.
LEMMA SeqJoin ==
  ASSUME NEW S, NEW s \in Seq(S), NEW t \in Seq(S), NEW u, u = s \o t
  PROVE  /\ u \in Seq(S) /\ Len(u) = Len(s) + Len(t) /\ DOMAIN u = 1 .. Len(s) + Len(t)
         /\ \A i \in DOMAIN s : i \in DOMAIN u /\ u[i] = s[i]
         /\ \A i \in DOMAIN t : Len(s) + i \in DOMAIN u /\ u[Len(s) + i] = t[i]
OBVIOUS

\* An object has what its annotation has, but for a name that is not there.
LEMMA FromIs ==
  ASSUME poppler \in NoteFiles, NEW of \in DOMAIN poppler.notes, NEW n \in Nat
  PROVE  LET e == FromPoppler(of, n)
             note == poppler.notes[of]
         IN  /\ e \in NoteObjects /\ e.doc = poppler.number /\ e.of = of /\ e.page = note.page
             /\ e.name = n /\ e.contents = note.contents /\ e.window = 0
             /\ \A s \in Settings : \/ e.settings[s] = note.settings[s]
                                    \/ s = "label" /\ note.settings[s] = Nobody
<1> DEFINE note == poppler.notes[of]
           label == IF note.settings.label = Nobody /\ note.kind = "highlight" THEN Strike
                    ELSE note.settings.label
           settings == [note.settings EXCEPT !.label = label]
           no == FALSE
<1>1. poppler.number \in Nat /\ poppler.notes \in Seq(NoteOfFile)
  BY DEF NoteFiles
<1>2. note \in NoteOfFile /\ of \in Nat
  BY <1>1
<1>3. /\ note.page \in AnnotPages /\ note.popup \in BOOLEAN /\ note.place \in Int
      /\ note.contents \in Nat /\ note.settings \in NoteSettings /\ no \in BOOLEAN
  <2> HIDE DEF note
  <2> QED
    BY <1>2 DEF NoteOfFile, AnnotPages
<1>4. label \in Nat /\ (label = note.settings.label \/ note.settings.label = Nobody)
  <2>1. note.settings.label \in Nat
    BY <1>3 DEF NoteSettings
  <2> HIDE DEF note
  <2> QED
    BY <2>1 DEF Strike
<1>5. FromPoppler(of, n) =
        [doc |-> poppler.number, of |-> of, page |-> note.page, name |-> n,
         contents |-> note.contents, popup |-> note.popup, place |-> note.place,
         window |-> 0, heard |-> no, settings |-> settings]
  BY Zenon DEF FromPoppler
<1> HIDE DEF note, label, no
<1>6. settings \in NoteSettings /\ settings.label = label
        /\ \A s \in Settings : s # "label" => settings[s] = note.settings[s]
  BY <1>3, <1>4 DEF NoteSettings, Settings
<1>7. \A s \in Settings : \/ settings[s] = note.settings[s]
                          \/ s = "label" /\ note.settings[s] = Nobody
  <2> SUFFICES ASSUME NEW s \in Settings, s = "label"
               PROVE  settings[s] = note.settings[s] \/ note.settings[s] = Nobody
    BY <1>6
  <2>1. settings[s] = label /\ note.settings[s] = note.settings.label
    BY <1>6
  <2> QED
    BY <2>1, <1>4
<1> HIDE DEF settings
<1> DEFINE e == [doc |-> poppler.number, of |-> of, page |-> note.page, name |-> n,
         contents |-> note.contents, popup |-> note.popup, place |-> note.place,
         window |-> 0, heard |-> no, settings |-> settings]
<1>8. e \in NoteObjects
  BY <1>1, <1>2, <1>3, <1>6 DEF NoteObjects
<1>9. /\ e.doc = poppler.number /\ e.of = of /\ e.page = note.page
      /\ e.name = n /\ e.contents = note.contents /\ e.window = 0 /\ e.settings = settings
  OBVIOUS
<1> HIDE DEF e
<1>10. FromPoppler(of, n) = e
  BY <1>5 DEF e
<1> QED
  BY <1>7, <1>8, <1>9, <1>10 DEF note

\* Reading the annotations of a page makes one object for each that is known.
LEMMA GetKeeps ==
  ASSUME NotesInvariant, NEW p \in AnnotPages, listed[p] = <<>>, Known(p) # <<>>,
         GetAnnotations(p), NEW K,
         K = [back |-> poppler, annots |-> annots', popups |-> popups, desk |-> desk]
  PROVE  Good(K, listed') /\ listed'[p] # <<>>
<1> DEFINE known == Known(p)
           N == Len(annots)
           new == [n \in DOMAIN known |-> FromPoppler(known[n], n)]
           list == [n \in DOMAIN known |-> N + n]
           objects == annots \o new
           M == [listed EXCEPT ![p] = list]
           notes == poppler.notes
<1>1. annots' = objects /\ listed' = M
  BY Zenon DEF GetAnnotations
<1>2. /\ Good(Shape, listed) /\ Ordered(Shape, listed) /\ Shape \in Things /\ desk \in Desks
      /\ popups \in Seq(PopupWindows) /\ annots \in Seq(NoteObjects) /\ poppler \in NoteFiles
      /\ listed \in Lists /\ DOMAIN annots = 1 .. N /\ N \in Nat
      /\ DOMAIN popups = 1 .. Len(popups) /\ Len(popups) \in Nat
  BY NotesHold
<1>3. /\ OwnersKnow(Shape) /\ ObjectsStand(Shape) /\ ListsHold(Shape, listed)
      /\ ListsComplete(Shape, listed) /\ AllStored(Shape) /\ AllTyped(Shape)
      /\ AllPlaced(Shape) /\ SeenWithPage(Shape)
  BY <1>2 DEF Good, Ordered
<1>4. /\ known \in Seq(1 .. Len(notes)) /\ DOMAIN known = 1 .. Len(known) /\ Len(known) \in Nat
      /\ \A n \in DOMAIN known : known[n] \in DOMAIN notes /\ notes[known[n]].page = p
      /\ \A m, n \in DOMAIN known : known[m] = known[n] => m = n
      /\ Len(notes) \in Nat /\ poppler.number \in Nat /\ poppler.number >= 1
  <2>1. Len(notes) \in Nat /\ DOMAIN notes = 1 .. Len(notes) /\ poppler.number \in Nat
    BY <1>2 DEF NoteFiles
  <2>2. KnownSoFar(notes, p, Len(notes), known)
    BY <2>1, KnownAre DEF Known
  <2>3. poppler.number >= 1
    BY <2>1 DEF NotesInvariant
  <2> HIDE DEF notes, known
  <2>4. known \in Seq(1 .. Len(notes))
    BY <2>2 DEF KnownSoFar
  <2>5. DOMAIN known = 1 .. Len(known) /\ Len(known) \in Nat /\ \A n \in DOMAIN known : known[n] \in 1 .. Len(notes)
    BY <2>4
  <2> QED
    BY <2>1, <2>2, <2>3, <2>4, <2>5 DEF KnownSoFar, IsKnown
<1>5. Len(known) # 0
  BY <1>4
<1> HIDE DEF known
<1>6. ASSUME NEW n \in DOMAIN known
      PROVE  /\ new[n] \in NoteObjects /\ new[n].doc = poppler.number /\ new[n].of = known[n]
             /\ new[n].page = p /\ new[n].name = n /\ new[n].window = 0
             /\ new[n].contents = notes[known[n]].contents
             /\ \A s \in Settings : \/ new[n].settings[s] = notes[known[n]].settings[s]
                                    \/ s = "label" /\ notes[known[n]].settings[s] = Nobody
  <2>1. n \in Nat /\ known[n] \in DOMAIN poppler.notes /\ poppler.notes[known[n]].page = p
    BY <1>4
  <2>2. new[n] = FromPoppler(known[n], n)
    OBVIOUS
  <2> QED
    BY <2>1, <2>2, <1>2, FromIs
<1>7. /\ new \in Seq(NoteObjects) /\ Len(new) = Len(known) /\ DOMAIN new = DOMAIN known
  <2>1. new = [n \in DOMAIN known |-> new[n]]
    OBVIOUS
  <2> HIDE DEF new
  <2> QED
    BY <2>1, <1>4, <1>6, SeqLike
<1>8. /\ list \in Seq(Nat) /\ Len(list) = Len(known) /\ DOMAIN list = DOMAIN known
      /\ \A n \in DOMAIN known : list[n] = N + n /\ list[n] \in Nat
  <2>1. list = [n \in DOMAIN known |-> list[n]]
    OBVIOUS
  <2>2. \A n \in DOMAIN known : list[n] = N + n /\ list[n] \in Nat
    BY <1>2, <1>4
  <2> HIDE DEF list
  <2> QED
    BY <2>1, <2>2, <1>4, SeqLike
<1> HIDE DEF new, list
<1>9. /\ objects \in Seq(NoteObjects) /\ Len(objects) = N + Len(known)
      /\ DOMAIN objects = 1 .. N + Len(known)
      /\ \A a \in DOMAIN annots : a \in DOMAIN objects /\ objects[a] = annots[a]
      /\ \A n \in DOMAIN known : N + n \in DOMAIN objects /\ objects[N + n] = new[n]
  <2>1. /\ objects \in Seq(NoteObjects) /\ Len(objects) = Len(annots) + Len(new)
        /\ DOMAIN objects = 1 .. Len(annots) + Len(new)
        /\ \A i \in DOMAIN annots : i \in DOMAIN objects /\ objects[i] = annots[i]
        /\ \A i \in DOMAIN new : Len(annots) + i \in DOMAIN objects /\ objects[Len(annots) + i] = new[i]
    <3>1. annots \in Seq(NoteObjects) /\ new \in Seq(NoteObjects) /\ objects = annots \o new
      BY <1>2, <1>7
    <3> HIDE DEF objects
    <3> QED
      BY <3>1, SeqJoin
  <2> HIDE DEF objects
  <2> QED
    BY <2>1, <1>7
<1>10. /\ M \in Lists /\ M[p] = list /\ \A q \in AnnotPages : q # p => M[q] = listed[q]
  BY <1>2, <1>8 DEF Lists
<1> HIDE DEF objects, M
<1>11. \A a \in DOMAIN objects : \/ a \in DOMAIN annots
                                 \/ \E n \in DOMAIN known : a = N + n
  <2> SUFFICES ASSUME NEW a \in DOMAIN objects, a \notin DOMAIN annots
               PROVE  \E n \in DOMAIN known : a = N + n
    OBVIOUS
  <2>1. a \in 1 .. N + Len(known) /\ ~(a \in 1 .. N)
    BY <1>2, <1>9
  <2>2. a - N \in 1 .. Len(known) /\ a = N + (a - N)
    BY <2>1, <1>2, <1>4
  <2> QED
    BY <2>2, <1>4
<1>12. /\ K.back = poppler /\ K.annots = objects /\ K.popups = popups /\ K.desk = desk
       /\ K \in Things
  <2>1. K = [back |-> poppler, annots |-> objects, popups |-> popups, desk |-> desk]
    BY <1>1
  <2>2. K \in Things
    BY <2>1, <1>2, <1>9, ThingsMade
  <2> QED
    BY <2>1, <2>2
<1>13. \A a \in DOMAIN annots : annots[a].doc = poppler.number =>
         /\ annots[a].page # p /\ annots[a].page \in AnnotPages
         /\ annots[a].of \in DOMAIN notes /\ notes[annots[a].of].page = annots[a].page
  <2> SUFFICES ASSUME NEW a \in DOMAIN annots, annots[a].doc = poppler.number
               PROVE  /\ annots[a].page # p /\ annots[a].page \in AnnotPages
                      /\ annots[a].of \in DOMAIN notes /\ notes[annots[a].of].page = annots[a].page
    OBVIOUS
  <2>1. \E n \in DOMAIN listed[annots[a].page] : listed[annots[a].page][n] = a
    BY <1>3, ShapeHas DEF ListsHold, IsCurrent
  <2>2. annots[a].page # p
    BY <2>1
  <2>3. annots[a] \in NoteObjects
    BY <1>2
  <2>4. annots[a].page \in AnnotPages
    BY <2>3 DEF NoteObjects
  <2> QED
    BY <2>2, <2>4, <1>3, ShapeHas DEF ObjectsStand, IsCurrent
<1>14. OwnersKnow(K)
  <2>1. ASSUME NEW i \in DOMAIN popups
        PROVE  /\ popups[i].of \in DOMAIN objects /\ popups[i].made \in DOMAIN objects
               /\ objects[popups[i].of].window = i
               /\ objects[popups[i].of].page = popups[i].page
    <3>1. /\ popups[i].of \in DOMAIN annots /\ popups[i].made \in DOMAIN annots
          /\ annots[popups[i].of].window = i /\ annots[popups[i].of].page = popups[i].page
      BY <1>3, ShapeHas DEF OwnersKnow
    <3> QED
      BY <3>1, <1>9
  <2>2. ASSUME NEW a \in DOMAIN objects
        PROVE  /\ objects[a].window \in 0 .. Len(popups) /\ objects[a].doc \in 1 .. poppler.number
               /\ objects[a].doc = poppler.number /\ objects[a].window # 0 =>
                    popups[objects[a].window].of = a
    <3>1. CASE a \in DOMAIN annots
      <4>1. objects[a] = annots[a]
        BY <3>1, <1>9
      <4> QED
        BY <3>1, <4>1, <1>3, ShapeHas DEF OwnersKnow, IsCurrent
    <3>2. ASSUME NEW n \in DOMAIN known, a = N + n
          PROVE  objects[a].window = 0 /\ objects[a].doc = poppler.number
      BY <3>2, <1>6, <1>9
    <3>3. 0 \in 0 .. Len(popups) /\ poppler.number \in 1 .. poppler.number
      BY <1>2, <1>4
    <3> QED
      BY <3>1, <3>2, <3>3, <1>11
  <2>3. /\ desk.focus \in 0 .. Len(popups) /\ desk.menu \in 0 .. Len(objects)
        /\ desk.dialog \in 0 .. Len(objects)
    <3>1. /\ desk.focus \in 0 .. Len(popups) /\ desk.menu \in 0 .. N /\ desk.dialog \in 0 .. N
      BY <1>3, ShapeHas DEF OwnersKnow
    <3> QED
      BY <3>1, <1>2, <1>4, <1>9
  <2> QED
    BY <2>1, <2>2, <2>3, <1>12 DEF OwnersKnow, IsCurrent
<1>15. ObjectsStand(K)
  <2> DEFINE Cur(a) == objects[a].doc = poppler.number
  <2>1. ASSUME NEW a \in DOMAIN objects, Cur(a)
        PROVE  objects[a].of \in DOMAIN notes /\ notes[objects[a].of].page = objects[a].page
    <3>1. CASE a \in DOMAIN annots
      BY <2>1, <3>1, <1>9, <1>13
    <3>2. ASSUME NEW n \in DOMAIN known, a = N + n
          PROVE  objects[a].of \in DOMAIN notes /\ notes[objects[a].of].page = objects[a].page
      <4>1. objects[a] = new[n]
        BY <3>2, <1>9
      <4> QED
        BY <4>1, <1>4, <1>6
    <3> QED
      BY <3>1, <3>2, <1>11
  <2>2. ASSUME NEW a \in DOMAIN objects, Cur(a), NEW b \in DOMAIN objects, Cur(b),
               objects[b].of = objects[a].of
        PROVE  b = a
    <3>1. CASE a \in DOMAIN annots /\ b \in DOMAIN annots
      <4>1. objects[a] = annots[a] /\ objects[b] = annots[b]
        BY <3>1, <1>9
      <4> QED
        BY <3>1, <4>1, <2>2, <1>3, ShapeHas DEF ObjectsStand, IsCurrent
    <3>2. ASSUME NEW x \in DOMAIN annots, NEW n \in DOMAIN known, objects[x].of = objects[N + n].of, Cur(x)
          PROVE  FALSE
      <4>1. objects[x] = annots[x] /\ objects[N + n] = new[n]
        BY <1>9
      <4>2. notes[annots[x].of].page = p
        BY <4>1, <3>2, <1>4, <1>6
      <4> QED
        BY <3>2, <4>1, <4>2, <1>13
    <3>3. ASSUME NEW m \in DOMAIN known, NEW n \in DOMAIN known, a = N + m, b = N + n
          PROVE  a = b
      <4>1. objects[a].of = known[m] /\ objects[b].of = known[n]
        BY <3>3, <1>6, <1>9
      <4>2. m = n
        BY <4>1, <2>2, <1>4
      <4> QED
        BY <4>2, <3>3
    <3>4. (\E m \in DOMAIN known : a = N + m) /\ b \in DOMAIN annots => FALSE
      BY <3>2, <2>2
    <3>5. (\E m \in DOMAIN known : b = N + m) /\ a \in DOMAIN annots => FALSE
      BY <3>2, <2>2
    <3> QED
      BY <3>1, <3>3, <3>4, <3>5, <1>11
  <2> QED
    BY <2>1, <2>2, <1>12 DEF ObjectsStand, IsCurrent
<1>16. ListsHold(K, M)
  <2>1. ASSUME NEW q \in AnnotPages, NEW n \in DOMAIN M[q]
        PROVE  /\ M[q][n] \in DOMAIN objects /\ objects[M[q][n]].page = q
               /\ objects[M[q][n]].doc = poppler.number
               /\ objects[M[q][n]].name = n \/ (n = 1 /\ objects[M[q][n]].name = 0)
    <3>1. CASE q = p
      <4>1. n \in DOMAIN known /\ M[q][n] = N + n
        BY <3>1, <1>8, <1>10
      <4> QED
        BY <3>1, <4>1, <1>6, <1>9
    <3>2. CASE q # p
      <4>1. M[q] = listed[q]
        BY <3>2, <1>10
      <4>2. /\ listed[q][n] \in DOMAIN annots /\ annots[listed[q][n]].page = q
            /\ annots[listed[q][n]].doc = poppler.number
            /\ annots[listed[q][n]].name = n \/ (n = 1 /\ annots[listed[q][n]].name = 0)
        BY <4>1, <1>3, ShapeHas DEF ListsHold, IsCurrent
      <4> QED
        BY <4>1, <4>2, <1>9
    <3> QED
      BY <3>1, <3>2
  <2>2. ASSUME NEW a \in DOMAIN objects, objects[a].doc = poppler.number
        PROVE  \E n \in DOMAIN M[objects[a].page] : M[objects[a].page][n] = a
    <3>1. CASE a \in DOMAIN annots
      <4>1. objects[a] = annots[a]
        BY <3>1, <1>9
      <4>2. annots[a].page # p /\ annots[a].page \in AnnotPages
        BY <3>1, <4>1, <2>2, <1>13
      <4>3. M[annots[a].page] = listed[annots[a].page]
        BY <4>2, <1>10
      <4> QED
        BY <3>1, <4>1, <4>3, <2>2, <1>3, ShapeHas DEF ListsHold, IsCurrent
    <3>2. ASSUME NEW n \in DOMAIN known, a = N + n
          PROVE  n \in DOMAIN M[objects[a].page] /\ M[objects[a].page][n] = a
      <4>1. objects[a].page = p
        BY <3>2, <1>6, <1>9
      <4> QED
        BY <3>2, <4>1, <1>8, <1>10
    <3> QED
      BY <3>1, <3>2, <1>11
  <2> QED
    BY <2>1, <2>2, <1>12 DEF ListsHold, IsCurrent
<1>17. ListsComplete(K, M)
  <2> SUFFICES ASSUME NEW q \in AnnotPages
               PROVE  /\ q \notin desk.early /\ M[q] # <<>> => Len(KnownOf(notes, q)) <= Len(M[q])
                      /\ q \in desk.mapped => M[q] # <<>>
    BY <1>12 DEF ListsComplete
  <2>1. CASE q = p
    <3>1. KnownOf(notes, q) = known
      BY <2>1 DEF known, Known
    <3>2. Len(M[q]) = Len(known)
      BY <2>1, <1>8, <1>10
    <3>3. M[q] # <<>>
      BY <3>2, <1>5
    <3> HIDE DEF notes
    <3> QED
      BY <3>1, <3>2, <3>3, <1>4
  <2>2. CASE q # p
    BY <2>2, <1>3, <1>10, ShapeHas DEF ListsComplete
  <2> QED
    BY <2>1, <2>2
<1>18. AllStored(K)
  <2> SUFFICES ASSUME NEW a \in DOMAIN objects PROVE StoredIs(K, a)
    BY <1>12 DEF AllStored
  <2>1. CASE a \in DOMAIN annots
    <3>1. StoredIs(Shape, a) /\ objects[a] = annots[a]
      BY <2>1, <1>3, <1>9, ShapeHas DEF AllStored
    <3> QED
      BY <3>1, <1>12, ShapeHas DEF StoredIs, IsCurrent
  <2>2. ASSUME NEW n \in DOMAIN known, a = N + n
        PROVE  StoredIs(K, a)
    <3>1. objects[a] = new[n]
      BY <2>2, <1>9
    <3> QED
      BY <3>1, <1>6, <1>12 DEF StoredIs
  <2> QED
    BY <2>1, <2>2, <1>11
<1>19. AllTyped(K)
  <2> SUFFICES ASSUME NEW i \in DOMAIN popups PROVE TypedIs(K, i)
    BY <1>12 DEF AllTyped
  <2>1. TypedIs(Shape, i) /\ popups[i].of \in DOMAIN annots
    BY <1>3, ShapeHas DEF AllTyped, OwnersKnow
  <2> QED
    BY <2>1, <1>9, <1>12, ShapeHas DEF TypedIs
<1>20. AllPlaced(K)
  <2> SUFFICES ASSUME NEW i \in DOMAIN popups PROVE PlacedIs(K, i)
    BY <1>12 DEF AllPlaced
  <2>1. PlacedIs(Shape, i) /\ popups[i].made \in DOMAIN annots
    BY <1>3, ShapeHas DEF AllPlaced, OwnersKnow
  <2> QED
    BY <2>1, <1>9, <1>12, ShapeHas DEF PlacedIs
<1>21. SeenWithPage(K)
  <2> SUFFICES ASSUME NEW a \in DOMAIN objects, objects[a].doc = poppler.number,
                      objects[a].window # 0, popups[objects[a].window].shown
               PROVE  objects[a].page \in desk.range \cup desk.left
    BY <1>12 DEF SeenWithPage, IsCurrent
  <2>1. a \in DOMAIN annots
    BY <1>6, <1>9, <1>11
  <2>2. objects[a] = annots[a]
    BY <2>1, <1>9
  <2> QED
    BY <2>1, <2>2, <1>3, ShapeHas DEF SeenWithPage, IsCurrent
<1>22. Good(K, M)
  BY <1>10, <1>12, <1>14, <1>15, <1>16, <1>17, <1>18, <1>19, <1>20, <1>21 DEF Good, Ordered
<1>23. M[p] # <<>>
  BY <1>5, <1>8, <1>10
<1> QED
  BY <1>1, <1>22, <1>23

\* A view that differs only in the pages that are mapped, all of which have lists
LEMMA MappedGood ==
  ASSUME NEW k, NEW L, Good(k, L), NEW K \in Things,
         K.back = k.back, K.annots = k.annots, K.popups = k.popups,
         K.desk.early = k.desk.early, K.desk.focus = k.desk.focus, K.desk.menu = k.desk.menu,
         K.desk.dialog = k.desk.dialog, K.desk.pending = k.desk.pending,
         K.desk.scroll = k.desk.scroll, K.desk.scale = k.desk.scale,
         K.desk.range = k.desk.range, K.desk.left = k.desk.left,
         \A q \in AnnotPages : q \in K.desk.mapped => L[q] # <<>>
  PROVE  Good(K, L)
<1>1. /\ L \in Lists /\ OwnersKnow(k) /\ ObjectsStand(k) /\ ListsHold(k, L)
      /\ ListsComplete(k, L) /\ AllStored(k) /\ AllTyped(k) /\ AllPlaced(k) /\ SeenWithPage(k)
  BY SMTT(20) DEF Good, Ordered
<1>2. OwnersKnow(K)
  BY SMTT(20), <1>1 DEF OwnersKnow, IsCurrent
<1>3. ObjectsStand(K)
  BY SMTT(20), <1>1 DEF ObjectsStand, IsCurrent
<1>4. ListsHold(K, L)
  BY <1>1 DEF ListsHold, IsCurrent
<1>5. ListsComplete(K, L)
  BY <1>1 DEF ListsComplete
<1>6. AllStored(K)
  <2> SUFFICES ASSUME NEW b \in DOMAIN k.annots PROVE StoredIs(K, b)
    BY DEF AllStored
  <2>1. StoredIs(k, b)
    BY <1>1 DEF AllStored
  <2> QED
    BY Zenon, <2>1 DEF StoredIs, IsCurrent
<1>7. AllTyped(K)
  <2> SUFFICES ASSUME NEW i \in DOMAIN k.popups PROVE TypedIs(K, i)
    BY DEF AllTyped
  <2>1. TypedIs(k, i)
    BY <1>1 DEF AllTyped
  <2> QED
    BY <2>1 DEF TypedIs
<1>8. AllPlaced(K)
  BY <1>1 DEF AllPlaced, PlacedIs, ToView
<1>9. SeenWithPage(K)
  BY <1>1 DEF SeenWithPage, IsCurrent
<1> QED
  BY <1>1, <1>2, <1>3, <1>4, <1>5, <1>6, <1>7, <1>8, <1>9 DEF Good, Ordered

\* A page that has a list is mapped.
LEMMA MapKeeps ==
  ASSUME NEW k, NEW L, Good(k, L), NEW p \in AnnotPages, L[p] # <<>>, NEW K,
         K = [k EXCEPT !.desk.mapped = @ \cup {p}]
  PROVE  Good(K, L) /\ K.back = k.back /\ K.annots = k.annots /\ K.popups = k.popups
<1> DEFINE d == k.desk
           mapped == d.mapped \cup {p}
           table == [d EXCEPT !.mapped = mapped]
<1>1. /\ k \in Things /\ L \in Lists /\ OwnersKnow(k) /\ ObjectsStand(k) /\ ListsHold(k, L)
      /\ ListsComplete(k, L) /\ AllStored(k) /\ AllTyped(k) /\ AllPlaced(k) /\ SeenWithPage(k)
  BY DEF Good, Ordered
<1>2. /\ k.back \in NoteFiles /\ k.annots \in Seq(NoteObjects)
      /\ k.popups \in Seq(PopupWindows) /\ d \in Desks
  BY <1>1, ThingsAre
<1>3. mapped \in SUBSET AnnotPages
  BY <1>2 DEF Desks
<1>4. K = [k EXCEPT !.desk = table]
  BY Zenon
<1> HIDE DEF mapped, d
<1>5. /\ table \in Desks /\ table.scroll = d.scroll /\ table.scale = d.scale
      /\ table.pending = d.pending /\ table.range = d.range /\ table.left = d.left
      /\ table.early = d.early /\ table.focus = d.focus /\ table.menu = d.menu
      /\ table.dialog = d.dialog /\ table.mapped = mapped
  BY <1>2, <1>3 DEF Desks
<1> HIDE DEF table
<1>6. K.back = k.back /\ K.annots = k.annots /\ K.popups = k.popups /\ K.desk = table
  BY <1>1, <1>4 DEF Things
<1>7. K \in Things
  <2>0. K = [back |-> k.back, annots |-> k.annots, popups |-> k.popups, desk |-> table]
    BY <1>1, <1>4 DEF Things
  <2>1. [back |-> k.back, annots |-> k.annots, popups |-> k.popups, desk |-> table] \in Things
    BY <1>2, <1>5 DEF Things
  <2> QED
    BY <2>0, <2>1, Zenon
<1>8. \A q \in AnnotPages : q \in mapped => L[q] # <<>>
  <2>1. \A q \in AnnotPages : q \in d.mapped => L[q] # <<>>
    BY <1>1 DEF ListsComplete, d
  <2> QED
    BY <2>1 DEF mapped
<1>9. Good(K, L)
  <2>1. /\ K.desk.early = k.desk.early /\ K.desk.focus = k.desk.focus
        /\ K.desk.menu = k.desk.menu /\ K.desk.dialog = k.desk.dialog
        /\ K.desk.pending = k.desk.pending /\ K.desk.scroll = k.desk.scroll
        /\ K.desk.scale = k.desk.scale /\ K.desk.range = k.desk.range
        /\ K.desk.left = k.desk.left
    BY <1>5, <1>6 DEF d
  <2>2. \A q \in AnnotPages : q \in K.desk.mapped => L[q] # <<>>
    BY <1>5, <1>6, <1>8
  <2> QED
    BY Zenon, <2>1, <2>2, <1>6, <1>7, MappedGood
<1> QED
  BY <1>6, <1>9

\* The data of a page, read as it comes into view, keeps the invariant.
LEMMA PageDataKeeps ==
  ASSUME NotesInvariant, NEW p \in AnnotPages, PageData(p)
  PROVE  NotesInvariant'
<1> DEFINE J == [back |-> poppler, annots |-> annots', popups |-> popups, desk |-> desk]
           K == [J EXCEPT !.desk.mapped = @ \cup {p}]
<1>1. /\ listed[p] # <<>> \/ Known(p) # <<>>
      /\ GetAnnotations(p) /\ desk' = [desk EXCEPT !.mapped = @ \cup {p}]
      /\ poppler' = poppler /\ popups' = popups /\ noteCalls' = noteCalls
  BY DEF PageData
<1>2. Good(J, listed') /\ listed'[p] # <<>>
  <2>1. CASE listed[p] = <<>>
    <3> HIDE DEF J
    <3> QED
      BY <2>1, <1>1, GetKeeps DEF J
  <2>2. CASE listed[p] # <<>>
    <3>1. annots' = annots /\ listed' = listed
      BY <2>2, <1>1 DEF GetAnnotations
    <3>2. J = Shape
      BY <3>1 DEF Shape
    <3> QED
      BY <2>2, <3>1, <3>2, NotesHold
  <2> QED
    BY <2>1, <2>2
<1>3. K.desk = desk'
  BY <1>1
<1>4. J.back = poppler /\ J.annots = annots' /\ J.popups = popups
  OBVIOUS
<1> HIDE DEF J
<1>5. Good(K, listed') /\ K.back = J.back /\ K.annots = J.annots /\ K.popups = J.popups
  <2> HIDE DEF K
  <2> QED
    BY <1>2, MapKeeps DEF K
<1> HIDE DEF K
<1>6. ShapeIs(K) /\ K.back.number = poppler.number
  BY <1>1, <1>3, <1>4, <1>5 DEF ShapeIs
<1> QED
  BY <1>1, <1>5, <1>6, CallEndsAs

\* The job of the sidebar, which reads every page, keeps the invariant.
LEMMA AnnotsJobKeeps ==
  ASSUME NotesInvariant, AnnotsJob
  PROVE  NotesInvariant'
<1>1. PICK p \in AnnotPages : listed[p] = <<>> /\ Known(p) # <<>> /\ GetAnnotations(p)
  BY DEF AnnotsJob
<1>2. UNCHANGED <<poppler, popups, desk, noteCalls>>
  BY DEF AnnotsJob
<1> DEFINE K == [back |-> poppler, annots |-> annots', popups |-> popups, desk |-> desk]
<1>3. K.back = poppler /\ K.annots = annots' /\ K.popups = popups /\ K.desk = desk
  OBVIOUS
<1> HIDE DEF K
<1>4. Good(K, listed')
  BY <1>1, GetKeeps DEF K
<1>5. ShapeIs(K) /\ K.back.number = poppler.number
  BY <1>2, <1>3 DEF ShapeIs
<1> QED
  BY <1>2, <1>4, <1>5, CallEndsAs

-----------------------------------------------------------------------------
(* A new note.                                                             *)

\* A note and its object are added to a page: K and M from k and L.
IsAdded(k, L, p, note, e, early, K, M) ==
  /\ note \in NoteOfFile /\ note.page = p /\ ~note.gone
  /\ e \in NoteObjects /\ e.doc = k.back.number /\ e.of = Len(k.back.notes) + 1 /\ e.page = p
  /\ e.name = (IF L[p] = <<>> THEN 0 ELSE Len(L[p]) + 1) /\ e.window = 0
  /\ e.contents = note.contents /\ e.settings = note.settings
  /\ early \subseteq AnnotPages /\ k.desk.early \subseteq early
  /\ L[p] = <<>> /\ p \notin early => KnownOf(k.back.notes, p) = <<>>
  /\ K \in Things /\ K.back.number = k.back.number /\ K.back.notes = Append(k.back.notes, note)
  /\ K.annots = Append(k.annots, e) /\ K.popups = k.popups
  /\ K.desk = [k.desk EXCEPT !.early = early]
  /\ M = [L EXCEPT ![p] = Append(@, Len(k.annots) + 1)]

\* A note that is added is in the document, in its list and named in it.
LEMMA AddKeeps ==
  ASSUME NEW k, NEW L, Good(k, L), k.back.number >= 1, NEW p \in AnnotPages, NEW note, NEW e,
         NEW early, NEW K, NEW M, IsAdded(k, L, p, note, e, early, K, M)
  PROVE  Good(K, M)
<1> DEFINE N == Len(k.annots)
           a0 == N + 1
           R == Len(k.back.notes)
           d == k.desk
           table == K.desk
           objects == K.annots
           notes == K.back.notes
           number == k.back.number
           list == Append(L[p], a0)
<1>1. /\ k \in Things /\ L \in Lists /\ OwnersKnow(k) /\ ObjectsStand(k) /\ ListsHold(k, L)
      /\ ListsComplete(k, L) /\ AllStored(k) /\ AllTyped(k) /\ AllPlaced(k) /\ SeenWithPage(k)
  BY DEF Good, Ordered
<1>2. /\ k.back \in NoteFiles /\ k.annots \in Seq(NoteObjects)
      /\ k.popups \in Seq(PopupWindows) /\ d \in Desks
      /\ DOMAIN k.annots = 1 .. N /\ N \in Nat
      /\ DOMAIN k.popups = 1 .. Len(k.popups) /\ Len(k.popups) \in Nat
      /\ k.back.notes \in Seq(NoteOfFile) /\ number \in Nat
      /\ DOMAIN k.back.notes = 1 .. R /\ R \in Nat
  BY <1>1, ThingsAre
<1>3. /\ table.scroll = d.scroll /\ table.scale = d.scale /\ table.pending = d.pending
      /\ table.range = d.range /\ table.left = d.left /\ table.mapped = d.mapped
      /\ table.focus = d.focus /\ table.menu = d.menu /\ table.dialog = d.dialog
      /\ table.early = early /\ K \in Things /\ K.popups = k.popups /\ K.back.number = number
  <2>1. table = [d EXCEPT !.early = early]
    BY DEF IsAdded
  <2>2. K \in Things /\ K.popups = k.popups /\ K.back.number = number
    BY DEF IsAdded
  <2> HIDE DEF table, d, number
  <2>3. /\ table.scroll = d.scroll /\ table.scale = d.scale /\ table.pending = d.pending
        /\ table.range = d.range /\ table.left = d.left /\ table.mapped = d.mapped
        /\ table.focus = d.focus /\ table.menu = d.menu /\ table.dialog = d.dialog
        /\ table.early = early
    BY <2>1, <1>2 DEF Desks
  <2> QED
    BY <2>2, <2>3
<1> HIDE DEF table, d
<1>4. /\ objects \in Seq(NoteObjects) /\ Len(objects) = N + 1 /\ DOMAIN objects = 1 .. N + 1
      /\ objects[a0] = e /\ \A a \in DOMAIN k.annots : a \in DOMAIN objects /\ objects[a] = k.annots[a]
  <2>1. e \in NoteObjects /\ objects = Append(k.annots, e)
    BY DEF IsAdded
  <2> HIDE DEF objects
  <2> QED
    BY <2>1, <1>2, SeqAdd
<1>5. /\ notes \in Seq(NoteOfFile) /\ Len(notes) = R + 1 /\ DOMAIN notes = 1 .. R + 1
      /\ notes[R + 1] = note
      /\ \A n \in DOMAIN k.back.notes : n \in DOMAIN notes /\ notes[n] = k.back.notes[n]
  <2>1. note \in NoteOfFile /\ notes = Append(k.back.notes, note)
    BY DEF IsAdded
  <2> HIDE DEF notes
  <2> QED
    BY <2>1, <1>2, SeqAdd
<1>6. /\ L[p] \in Seq(Nat) /\ list \in Seq(Nat) /\ Len(list) = Len(L[p]) + 1
      /\ DOMAIN list = 1 .. Len(L[p]) + 1 /\ list[Len(L[p]) + 1] = a0 /\ Len(L[p]) \in Nat
      /\ DOMAIN L[p] = 1 .. Len(L[p])
      /\ \A n \in DOMAIN L[p] : n \in DOMAIN list /\ list[n] = L[p][n]
  <2>1. L[p] \in Seq(Nat) /\ a0 \in Nat
    BY <1>1, <1>2 DEF Lists
  <2> HIDE DEF a0
  <2> QED
    BY <2>1, SeqAdd
<1>7. M \in Lists /\ M[p] = list /\ \A q \in AnnotPages : q # p => M[q] = L[q]
  <2>1. M = [L EXCEPT ![p] = list]
    BY DEF IsAdded
  <2> HIDE DEF list
  <2> QED
    BY <2>1, <1>1, <1>6 DEF Lists
<1> HIDE DEF list, objects, notes
<1>8. /\ note.page = p /\ ~note.gone /\ e.doc = number /\ e.of = R + 1 /\ e.page = p
      /\ e.name = (IF L[p] = <<>> THEN 0 ELSE Len(L[p]) + 1) /\ e.window = 0
      /\ e.contents = note.contents /\ e.settings = note.settings
      /\ early \subseteq AnnotPages /\ d.early \subseteq early
      /\ L[p] = <<>> /\ p \notin early => KnownOf(k.back.notes, p) = <<>>
      /\ number >= 1
  BY DEF IsAdded, d
<1>9. K.annots = objects /\ K.back.notes = notes /\ K.desk = table
  BY DEF objects, notes, table
<1>10. /\ d.focus \in 0 .. Len(k.popups) /\ d.menu \in 0 .. N /\ d.dialog \in 0 .. N
  BY <1>1 DEF OwnersKnow, d
<1> HIDE DEF number, R, N, a0
<1>11. \A a \in DOMAIN objects : a \in DOMAIN k.annots \/ a = a0
  BY <1>2, <1>4 DEF a0
<1>12. a0 \in DOMAIN objects /\ a0 \notin DOMAIN k.annots
  BY <1>2, <1>4 DEF a0
<1>13. \A a \in DOMAIN k.annots : k.annots[a].doc = number =>
         /\ k.annots[a].of \in DOMAIN k.back.notes /\ k.annots[a].of # R + 1
         /\ k.back.notes[k.annots[a].of].page = k.annots[a].page
         /\ notes[k.annots[a].of] = k.back.notes[k.annots[a].of]
         /\ k.annots[a].of \in DOMAIN notes
  <2> SUFFICES ASSUME NEW a \in DOMAIN k.annots, k.annots[a].doc = number
               PROVE  /\ k.annots[a].of \in DOMAIN k.back.notes /\ k.annots[a].of # R + 1
                      /\ k.back.notes[k.annots[a].of].page = k.annots[a].page
                      /\ notes[k.annots[a].of] = k.back.notes[k.annots[a].of]
                      /\ k.annots[a].of \in DOMAIN notes
    OBVIOUS
  <2> DEFINE n == k.annots[a].of
  <2>1. n \in DOMAIN k.back.notes /\ k.back.notes[n].page = k.annots[a].page
    BY <1>1 DEF ObjectsStand, IsCurrent, number
  <2> HIDE DEF n
  <2>2. n # R + 1 /\ notes[n] = k.back.notes[n] /\ n \in DOMAIN notes
    BY <2>1, <1>2, <1>5
  <2> QED
    BY <2>1, <2>2 DEF n
<1>14. OwnersKnow(K)
  <2>1. ASSUME NEW i \in DOMAIN k.popups
        PROVE  /\ k.popups[i].of \in DOMAIN objects /\ k.popups[i].made \in DOMAIN objects
               /\ objects[k.popups[i].of].window = i
               /\ objects[k.popups[i].of].page = k.popups[i].page
    <3>1. /\ k.popups[i].of \in DOMAIN k.annots /\ k.popups[i].made \in DOMAIN k.annots
          /\ k.annots[k.popups[i].of].window = i
          /\ k.annots[k.popups[i].of].page = k.popups[i].page
      BY <1>1 DEF OwnersKnow
    <3> QED
      BY <3>1, <1>4
  <2>2. ASSUME NEW a \in DOMAIN objects
        PROVE  /\ objects[a].window \in 0 .. Len(k.popups) /\ objects[a].doc \in 1 .. number
               /\ objects[a].doc = number /\ objects[a].window # 0 =>
                    k.popups[objects[a].window].of = a
    <3>1. CASE a \in DOMAIN k.annots
      <4>1. objects[a] = k.annots[a]
        BY <3>1, <1>4
      <4>2. /\ k.annots[a].window \in 0 .. Len(k.popups) /\ k.annots[a].doc \in 1 .. number
            /\ k.annots[a].doc = number /\ k.annots[a].window # 0 =>
                 k.popups[k.annots[a].window].of = a
        BY <3>1, <1>1 DEF OwnersKnow, IsCurrent, number
      <4> QED
        BY <4>1, <4>2
    <3>2. CASE a = a0
      <4>1. 0 \in 0 .. Len(k.popups) /\ number \in 1 .. number
        BY <1>2, <1>8
      <4> QED
        BY <3>2, <4>1, <1>4, <1>8
    <3> QED
      BY <3>1, <3>2, <1>11
  <2>3. d.menu \in 0 .. Len(objects) /\ d.dialog \in 0 .. Len(objects)
    BY <1>2, <1>4, <1>10
  <2> QED
    BY <2>1, <2>2, <2>3, <1>3, <1>9, <1>10 DEF OwnersKnow, IsCurrent
<1>15. ObjectsStand(K)
  <2>1. ASSUME NEW a \in DOMAIN objects, objects[a].doc = number
        PROVE  objects[a].of \in DOMAIN notes /\ notes[objects[a].of].page = objects[a].page
    <3>1. CASE a \in DOMAIN k.annots
      BY <2>1, <3>1, <1>4, <1>13
    <3>2. CASE a = a0
      <4>1. R + 1 \in DOMAIN notes
        BY <1>2, <1>5
      <4> QED
        BY <3>2, <4>1, <1>4, <1>5, <1>8
    <3> QED
      BY <3>1, <3>2, <1>11
  <2>2. ASSUME NEW a \in DOMAIN objects, objects[a].doc = number,
               NEW b \in DOMAIN objects, objects[b].doc = number,
               objects[b].of = objects[a].of
        PROVE  b = a
    <3>1. CASE a \in DOMAIN k.annots /\ b \in DOMAIN k.annots
      <4>1. objects[a] = k.annots[a] /\ objects[b] = k.annots[b]
        BY <3>1, <1>4
      <4> QED
        BY <3>1, <4>1, <2>2, <1>1 DEF ObjectsStand, IsCurrent, number
    <3>2. CASE a = a0 /\ b \in DOMAIN k.annots
      BY <3>2, <2>2, <1>4, <1>8, <1>13
    <3>3. CASE b = a0 /\ a \in DOMAIN k.annots
      BY <3>3, <2>2, <1>4, <1>8, <1>13
    <3> QED
      BY <3>1, <3>2, <3>3, <1>11
  <2> QED
    BY <2>1, <2>2, <1>3, <1>9 DEF ObjectsStand, IsCurrent
<1>16. ListsHold(K, M)
  <2>1. ASSUME NEW q \in AnnotPages, NEW n \in DOMAIN L[q]
        PROVE  /\ L[q][n] \in DOMAIN objects /\ objects[L[q][n]].page = q
               /\ objects[L[q][n]].doc = number
               /\ objects[L[q][n]].name = n \/ (n = 1 /\ objects[L[q][n]].name = 0)
    <3>1. /\ L[q][n] \in DOMAIN k.annots /\ k.annots[L[q][n]].page = q
          /\ k.annots[L[q][n]].doc = number
          /\ k.annots[L[q][n]].name = n \/ (n = 1 /\ k.annots[L[q][n]].name = 0)
      BY <1>1 DEF ListsHold, IsCurrent, number
    <3> QED
      BY <3>1, <1>4
  <2>2. ASSUME NEW q \in AnnotPages, NEW n \in DOMAIN M[q]
        PROVE  /\ M[q][n] \in DOMAIN objects /\ objects[M[q][n]].page = q
               /\ objects[M[q][n]].doc = number
               /\ objects[M[q][n]].name = n \/ (n = 1 /\ objects[M[q][n]].name = 0)
    <3>1. CASE q = p /\ n \notin DOMAIN L[p]
      <4>1. n = Len(L[p]) + 1 /\ M[q][n] = a0
        BY <3>1, <1>6, <1>7
      <4>2. e.name = n \/ (n = 1 /\ e.name = 0)
        <5>1. L[p] = <<>> => Len(L[p]) = 0
          OBVIOUS
        <5> QED
          BY <5>1, <4>1, <1>6, <1>8
      <4> QED
        BY <3>1, <4>1, <4>2, <1>4, <1>8, <1>12
    <3>2. CASE q = p /\ n \in DOMAIN L[p]
      <4>1. M[q][n] = L[q][n]
        BY <3>2, <1>6, <1>7
      <4> QED
        BY <3>2, <4>1, <2>1
    <3>3. CASE q # p
      <4>1. M[q] = L[q]
        BY <3>3, <1>7
      <4> QED
        BY <4>1, <2>1
    <3> QED
      BY <3>1, <3>2, <3>3
  <2>3. ASSUME NEW a \in DOMAIN objects, objects[a].doc = number
        PROVE  \E n \in DOMAIN M[objects[a].page] : M[objects[a].page][n] = a
    <3>1. CASE a \in DOMAIN k.annots
      <4> DEFINE q == k.annots[a].page
      <4>1. objects[a] = k.annots[a]
        BY <3>1, <1>4
      <4>2. PICK n \in DOMAIN L[q] : L[q][n] = a
        BY <3>1, <4>1, <2>3, <1>1 DEF ListsHold, IsCurrent, number
      <4>3. q \in AnnotPages
        <5>1. k.annots[a] \in NoteObjects
          BY <3>1, <1>2
        <5> QED
          BY <5>1 DEF NoteObjects
      <4>4. n \in DOMAIN M[q] /\ M[q][n] = a
        <5> HIDE DEF q
        <5> QED
          BY <4>2, <4>3, <1>6, <1>7
      <4> QED
        BY <4>1, <4>4
    <3>2. CASE a = a0
      <4>1. objects[a].page = p
        BY <3>2, <1>4, <1>8
      <4>2. Len(L[p]) + 1 \in DOMAIN M[p] /\ M[p][Len(L[p]) + 1] = a0
        BY <1>6, <1>7
      <4> QED
        BY <3>2, <4>1, <4>2
    <3> QED
      BY <3>1, <3>2, <1>11
  <2> QED
    BY <2>2, <2>3, <1>3, <1>9 DEF ListsHold, IsCurrent
<1>17. ListsComplete(K, M)
  <2> SUFFICES ASSUME NEW q \in AnnotPages
               PROVE  /\ q \notin early /\ M[q] # <<>> => Len(KnownOf(notes, q)) <= Len(M[q])
                      /\ q \in d.mapped => M[q] # <<>>
    BY <1>3, <1>9 DEF ListsComplete
  <2>1. /\ q \notin d.early /\ L[q] # <<>> => Len(KnownOf(k.back.notes, q)) <= Len(L[q])
        /\ q \in d.mapped => L[q] # <<>>
    BY <1>1 DEF ListsComplete, d
  <2>2. \A n \in 1 .. Len(k.back.notes) : IsKnown(notes, q, n) => IsKnown(k.back.notes, q, n)
    <3> SUFFICES ASSUME NEW n \in DOMAIN k.back.notes, IsKnown(notes, q, n)
                 PROVE  IsKnown(k.back.notes, q, n)
      BY <1>2 DEF R
    <3>1. notes[n] = k.back.notes[n]
      BY <1>5
    <3> QED
      BY <3>1 DEF IsKnown
  <2>3. Len(KnownOf(notes, q)) <= Len(KnownOf(k.back.notes, q))
                                    + (IF IsKnown(notes, q, Len(notes)) THEN 1 ELSE 0)
    <3>1. Len(k.back.notes) \in Nat /\ Len(notes) = Len(k.back.notes) + 1 /\ Len(notes) \in Nat
            /\ Len(k.back.notes) <= Len(notes)
      BY <1>2, <1>5 DEF R
    <3> QED
      BY <3>1, <2>2, KnownGrows
  <2>4. Len(KnownOf(notes, q)) \in Nat /\ Len(KnownOf(k.back.notes, q)) \in Nat /\ Len(L[q]) \in Nat
    <3>1. Len(notes) \in Nat /\ Len(k.back.notes) \in Nat
      BY <1>2, <1>5 DEF R
    <3>2. KnownOf(notes, q) \in Seq(1 .. Len(notes))
            /\ KnownOf(k.back.notes, q) \in Seq(1 .. Len(k.back.notes))
      BY <3>1, KnownAre DEF KnownSoFar
    <3>3. L[q] \in Seq(Nat)
      BY <1>1 DEF Lists
    <3> QED
      BY <3>2, <3>3
  <2>5. CASE q = p
    <3>1. M[q] = list /\ Len(M[q]) = Len(L[p]) + 1 /\ M[q] # <<>>
      <4>1. list # <<>>
        BY <1>6
      <4> QED
        BY <2>5, <4>1, <1>6, <1>7
    <3>2. ASSUME q \notin early PROVE Len(KnownOf(notes, q)) <= Len(M[q])
      <4>1. Len(KnownOf(k.back.notes, q)) <= Len(L[p])
        <5>1. CASE L[p] = <<>>
          <6>1. KnownOf(k.back.notes, q) = <<>>
            BY <2>5, <3>2, <5>1, <1>8
          <6>2. Len(KnownOf(k.back.notes, q)) = 0
            BY <6>1
          <6> QED
            BY <6>2, <1>6
        <5>2. CASE L[p] # <<>>
          BY <2>1, <2>5, <3>2, <5>2, <1>8
        <5> QED
          BY <5>1, <5>2
      <4> QED
        BY <4>1, <3>1, <2>3, <2>4, <2>5
    <3> QED
      BY <3>1, <3>2
  <2>6. CASE q # p
    <3>1. ~IsKnown(notes, q, Len(notes))
      BY <2>6, <1>5, <1>8 DEF IsKnown
    <3>2. M[q] = L[q]
      BY <2>6, <1>7
    <3> QED
      BY <3>1, <3>2, <2>1, <2>3, <2>4, <1>8
  <2> QED
    BY <2>5, <2>6
<1>18. AllStored(K)
  <2> SUFFICES ASSUME NEW a \in DOMAIN objects PROVE StoredIs(K, a)
    BY SMTT(20), <1>9 DEF AllStored
  <2>1. CASE a \in DOMAIN k.annots
    <3>1. StoredIs(k, a) /\ objects[a] = k.annots[a]
      BY <2>1, <1>1, <1>4 DEF AllStored
    <3>2. k.annots[a].doc = number => notes[k.annots[a].of] = k.back.notes[k.annots[a].of]
      BY <2>1, <1>13
    <3> QED
      BY <3>1, <3>2, <1>3, <1>9 DEF StoredIs, IsCurrent, number
  <2>2. CASE a = a0
    <3>1. objects[a] = e /\ notes[e.of] = note
      BY <2>2, <1>4, <1>5, <1>8
    <3> QED
      BY <3>1, <1>8, <1>9 DEF StoredIs
  <2> QED
    BY <2>1, <2>2, <1>11
<1>19. AllTyped(K)
  <2> SUFFICES ASSUME NEW i \in DOMAIN k.popups PROVE TypedIs(K, i)
    BY <1>3 DEF AllTyped
  <2>1. TypedIs(k, i) /\ k.popups[i].of \in DOMAIN k.annots
    BY <1>1 DEF AllTyped, OwnersKnow
  <2>2. table.focus = k.desk.focus
    BY <1>3 DEF d
  <2> QED
    BY <2>1, <2>2, <1>3, <1>4, <1>9 DEF TypedIs
<1>20. AllPlaced(K)
  <2> SUFFICES ASSUME NEW i \in DOMAIN k.popups PROVE PlacedIs(K, i)
    BY <1>3 DEF AllPlaced
  <2>1. PlacedIs(k, i) /\ k.popups[i].made \in DOMAIN k.annots
    BY <1>1 DEF AllPlaced, OwnersKnow
  <2>2. /\ table.pending = k.desk.pending /\ table.scroll = k.desk.scroll
        /\ table.scale = k.desk.scale
    BY <1>3 DEF d
  <2>3. K.popups = k.popups /\ K.desk = table
          /\ K.annots[k.popups[i].made].settings = k.annots[k.popups[i].made].settings
    BY <2>1, <1>3, <1>4, <1>9
  <2> QED
    BY <2>1, <2>2, <2>3 DEF PlacedIs, ToView
<1>21. SeenWithPage(K)
  <2> SUFFICES ASSUME NEW a \in DOMAIN objects, objects[a].doc = number,
                      objects[a].window # 0, k.popups[objects[a].window].shown
               PROVE  objects[a].page \in d.range \cup d.left
    BY <1>3, <1>9 DEF SeenWithPage, IsCurrent
  <2>1. a \in DOMAIN k.annots /\ objects[a] = k.annots[a]
    BY <1>4, <1>8, <1>11
  <2> QED
    BY <2>1, <1>1 DEF SeenWithPage, IsCurrent, number, d
<1> QED
  BY <1>3, <1>7, <1>14, <1>15, <1>16, <1>17, <1>18, <1>19, <1>20, <1>21 DEF Good, Ordered

\* Creating a note by hand keeps the invariant.
LEMMA CreateNoteKeeps ==
  ASSUME NotesInvariant, NEW p \in AnnotPages, CreateNote(p, 2)
  PROVE  NotesInvariant'
<1> DEFINE settings == [label |-> Me, color |-> 1, open |-> 0]
           yes == TRUE
           no == FALSE
           k == LeaveFocus(Shape)
           note == [page |-> p, kind |-> "text", popup |-> yes, place |-> 2,
                    contents |-> Nothing, settings |-> settings, gone |-> no]
           e == [doc |-> poppler.number, of |-> Len(poppler.notes) + 1, page |-> p,
                 name |-> NewName(p), contents |-> Nothing, popup |-> yes, place |-> 2,
                 window |-> 0, heard |-> no, settings |-> settings]
           Early(x) == IF listed[p] = <<>> /\ Known(p) # <<>> THEN x \cup {p} ELSE x
           added == [k EXCEPT !.back.notes = Append(@, note), !.back.modified = yes,
                              !.annots = Append(@, e),
                              !.desk.early = IF listed[p] = <<>> /\ Known(p) # <<>> THEN @ \cup {p} ELSE @]
           a == Len(added.annots)
           made == CreateWindow(added, a)
           M == [listed EXCEPT ![p] = Append(@, a)]
           R == [made EXCEPT !.popups[made.annots[a].window].visible = yes,
                             !.popups[made.annots[a].window].shown = yes]
<1>1. p \in desk.range /\ ShapeIs(R) /\ listed' = M /\ NoteCall
  BY Zenon DEF CreateNote, Hands
<1> HIDE DEF k, made
<1>2. /\ Good(k, listed) /\ k.popups = popups /\ k.desk \in Desks /\ k \in Things
      /\ k.back.number = poppler.number /\ k.desk.range = desk.range
      /\ Len(k.annots) = Len(annots) /\ NotesKept(Shape, k)
  BY FocusLeft DEF k
<1>3. /\ k.back \in NoteFiles /\ k.annots \in Seq(NoteObjects) /\ k.popups \in Seq(PopupWindows)
      /\ k.back.notes \in Seq(NoteOfFile) /\ Len(annots) \in Nat /\ listed \in Lists
      /\ Len(k.back.notes) = Len(poppler.notes) /\ Len(k.back.notes) \in Nat
      /\ poppler.number \in Nat /\ poppler.number >= 1 /\ Shape \in Things
      /\ k.back.number \in Nat
  <2>1. poppler.number \in Nat
    BY NotesHold DEF NoteFiles
  <2>2. poppler.number >= 1
    BY <2>1 DEF NotesInvariant
  <2> QED
    BY <1>2, <2>1, <2>2, ThingsAre, NotesHold, ShapeHas DEF NotesKept
<1>4. settings \in NoteSettings /\ yes \in BOOLEAN /\ no \in BOOLEAN /\ yes /\ ~no
  BY DEF NoteSettings, Me
<1> HIDE DEF settings, yes, no
<1>5. note \in NoteOfFile /\ note.page = p /\ ~note.gone /\ note.contents = Nothing
        /\ note.settings = settings
  BY <1>4 DEF NoteOfFile, NoteKinds, AnnotPages, Nothing
<1>6. NewName(p) \in Nat
  BY <1>3 DEF NewName, Lists
<1>7. /\ e \in NoteObjects /\ e.doc = poppler.number /\ e.of = Len(poppler.notes) + 1
      /\ e.page = p /\ e.name = NewName(p) /\ e.window = 0 /\ e.contents = Nothing
      /\ e.settings = settings
  BY <1>3, <1>4, <1>6 DEF NoteObjects, Nothing
<1> HIDE DEF note, e
<1> DEFINE early == IF listed[p] = <<>> /\ Known(p) # <<>> THEN k.desk.early \cup {p} ELSE k.desk.early
           table == [k.desk EXCEPT !.early = early]
           notes == Append(k.back.notes, note)
           objects == Append(k.annots, e)
           back == [k.back EXCEPT !.notes = notes, !.modified = yes]
<1>8. early \subseteq AnnotPages /\ k.desk.early \subseteq early
  BY <1>2 DEF Desks
<1>9. listed[p] = <<>> /\ p \notin early => KnownOf(k.back.notes, p) = <<>>
  <2> SUFFICES ASSUME listed[p] = <<>>, p \notin early PROVE KnownOf(k.back.notes, p) = <<>>
    OBVIOUS
  <2>1. Known(p) = <<>>
    OBVIOUS
  <2>2. Len(KnownOf(k.back.notes, p)) <= Len(KnownOf(poppler.notes, p))
    BY <1>2, <1>3, KnownStays, ShapeHas
  <2>3. Len(KnownOf(poppler.notes, p)) = 0
    BY <2>1 DEF Known
  <2>4. KnownOf(k.back.notes, p) \in Seq(1 .. Len(k.back.notes))
    BY <1>3, KnownAre DEF KnownSoFar
  <2> DEFINE s == KnownOf(k.back.notes, p)
  <2>5. s \in Seq(1 .. Len(k.back.notes)) /\ Len(s) <= 0
    BY <2>2, <2>3, <2>4
  <2> HIDE DEF s
  <2>6. s = <<>>
    BY <2>5
  <2> QED
    BY <2>6 DEF s
<1>10. /\ added = [back |-> back, annots |-> objects, popups |-> k.popups, desk |-> table]
  <2> DEFINE T1 == [k EXCEPT !.back = back]
             T2 == [T1 EXCEPT !.annots = objects]
             T3 == [T2 EXCEPT !.desk = table]
  <2>1. added = [[[k EXCEPT !.back.notes = notes, !.back.modified = yes] EXCEPT !.annots = objects] EXCEPT !.desk.early = early]
    BY <1>2 DEF Things
  <2>2. [k EXCEPT !.back.notes = notes, !.back.modified = yes] = T1
    BY <1>2, <1>3 DEF Things, NoteFiles
  <2>3. [T2 EXCEPT !.desk.early = early] = T3
    BY <1>2 DEF Things
  <2>4. added = T3
    BY <2>1, <2>2, <2>3
  <2> HIDE DEF back, objects, table, added
  <2> QED
    BY <2>4, <1>2 DEF Things
<1>11. back \in NoteFiles /\ back.notes = notes /\ back.number = k.back.number
  <2>1. notes \in Seq(NoteOfFile)
    BY <1>3, <1>5, SeqAdd
  <2> HIDE DEF notes
  <2> QED
    BY <2>1, <1>3, <1>4 DEF NoteFiles
<1>12. table \in Desks /\ table.range = desk.range
  <2> HIDE DEF early
  <2> QED
    BY <1>2, <1>8 DEF Desks
<1>13. objects \in Seq(NoteObjects) /\ Len(objects) = Len(annots) + 1
       /\ objects[Len(annots) + 1] = e /\ DOMAIN objects = 1 .. Len(annots) + 1
  BY <1>2, <1>3, <1>7, SeqAdd
<1> HIDE DEF added
<1>14. /\ added.back = back /\ added.annots = objects /\ added.popups = popups
       /\ added.desk = table /\ added \in Things
  <2> HIDE DEF back, objects, table
  <2>1. [back |-> back, annots |-> objects, popups |-> k.popups, desk |-> table] \in Things
    BY <1>3, <1>11, <1>12, <1>13 DEF Things
  <2>2. added \in Things
    BY <1>10, <2>1, Zenon
  <2> QED
    BY <2>2, <1>2, <1>10
<1>15. a = Len(annots) + 1 /\ a \in DOMAIN added.annots /\ added.annots[a] = e
  <2> HIDE DEF objects
  <2> QED
    BY <1>3, <1>13, <1>14
<1> HIDE DEF a
<1>16. IsAdded(k, listed, p, note, e, early, added, M)
  <2>1. added.back.number = k.back.number /\ added.back.notes = Append(k.back.notes, note)
    BY <1>11, <1>14
  <2>2. added.annots = Append(k.annots, e) /\ added.popups = k.popups
          /\ added.desk = [k.desk EXCEPT !.early = early] /\ added \in Things
    BY <1>2, <1>14
  <2>3. M = [listed EXCEPT ![p] = Append(@, Len(k.annots) + 1)]
    BY <1>2, <1>15
  <2>4. e.name = (IF listed[p] = <<>> THEN 0 ELSE Len(listed[p]) + 1)
    BY <1>7 DEF NewName
  <2> HIDE DEF early, M
  <2> QED
    BY <2>1, <2>2, <2>3, <2>4, <1>2, <1>3, <1>5, <1>7, <1>8, <1>9 DEF IsAdded
<1> HIDE DEF M, early
<1>17. Good(added, M)
  <2>1. k.back.number >= 1
    BY <1>2, <1>3
  <2> QED
    BY <2>1, <1>2, <1>16, AddKeeps
<1>18. added.annots[a].window = 0 /\ added.annots[a].page \in added.desk.range
  BY <1>1, <1>7, <1>12, <1>14, <1>15
<1> DEFINE j == Len(added.popups) + 1
<1>19. /\ Good(made, M) /\ made.back = added.back /\ made.desk = added.desk
       /\ Len(made.popups) = j /\ made.annots[a].window = j /\ made.popups[j].page = p
  <2>1. /\ Good(made, M) /\ made.back = added.back /\ made.desk = added.desk
        /\ Len(made.popups) = Len(added.popups) + 1
        /\ made.annots[a].window = Len(added.popups) + 1
        /\ made.popups[Len(added.popups) + 1].page = added.annots[a].page
    BY <1>15, <1>17, <1>18, CreateKeeps DEF made
  <2> QED
    BY <2>1, <1>7, <1>15
<1> DEFINE w == made.popups[j]
           half == [w EXCEPT !.visible = yes]
           v == [half EXCEPT !.shown = yes]
           P == [made.popups EXCEPT ![j] = v]
           there == made.desk
           K == [back |-> made.back, annots |-> made.annots, popups |-> P, desk |-> there]
<1>20. /\ made \in Things /\ OwnersKnow(made) /\ PlacedIs(made, j) /\ j \in DOMAIN made.popups
       /\ w \in PopupWindows /\ made.desk \in Desks
  <2>1. made \in Things /\ OwnersKnow(made) /\ AllPlaced(made)
    BY <1>19 DEF Good, Ordered
  <2>2. j \in DOMAIN made.popups
    <3>1. Len(added.popups) \in Nat /\ DOMAIN made.popups = 1 .. Len(made.popups)
      BY <1>14, <2>1, ThingsAre
    <3> QED
      BY <3>1, <1>19
  <2> HIDE DEF j
  <2> QED
    BY <2>1, <2>2, ThingsAre DEF AllPlaced
<1> HIDE DEF j
<1>21. R = K
  <2> DEFINE T == [made EXCEPT !.popups[j].visible = yes]
             Q == [made.popups EXCEPT ![j] = half]
  <2>1. R = [T EXCEPT !.popups[j].shown = yes]
    BY <1>19
  <2>2. T = [made EXCEPT !.popups = Q]
    OBVIOUS
  <2> HIDE DEF half
  <2>3. /\ T.back = made.back /\ T.annots = made.annots /\ T.desk = made.desk /\ T.popups = Q
        /\ T = [back |-> made.back, annots |-> made.annots, popups |-> Q, desk |-> made.desk]
    <3> HIDE DEF Q, T
    <3> QED
      BY <2>2, <1>20 DEF Things
  <2>4. [Q EXCEPT ![j] = [Q[j] EXCEPT !.shown = yes]] = P
    <3>1. Q[j] = half
      BY <1>20
    <3>2. [Q EXCEPT ![j] = v] = P
      OBVIOUS
    <3> QED
      BY <3>1, <3>2
  <2> HIDE DEF T, Q, P
  <2>5. R = [T EXCEPT !.popups = P]
    BY <2>1, <2>3, <2>4
  <2> HIDE DEF R
  <2> QED
    BY <2>3, <2>5
<1>22. /\ v \in PopupWindows /\ v.y = w.y /\ v.parent = w.parent /\ v.at = w.at
       /\ v.of = w.of /\ v.made = w.made /\ v.page = w.page /\ v.place = w.place
       /\ v.last = w.last /\ v.title = w.title /\ v.text = w.text /\ v.missed = w.missed
       /\ v.visible /\ v.shown
  <2> HIDE DEF w
  <2> QED
    BY <1>4, <1>20 DEF PopupWindows
<1> HIDE DEF v, R
<1>23. TableFits(made, there) /\ SameView(made.desk, there)
  BY <1>20 DEF TableFits, SameView, OwnersKnow
<1>24. IsChanged(made, j, v, there)
  <2>1. v.page \in made.desk.range
    BY <1>1, <1>12, <1>14, <1>19, <1>22
  <2>2. PlacedAs(made, v, there)
    BY <1>20, <1>22 DEF PlacedIs, PlacedAs
  <2> QED
    BY <2>1, <2>2, <1>22 DEF IsChanged
<1> HIDE DEF there
<1>25. P = [made.popups EXCEPT ![j] = v]
  OBVIOUS
<1> HIDE DEF P
<1>26. K = [back |-> made.back, annots |-> made.annots, popups |-> P, desk |-> there]
  OBVIOUS
<1> HIDE DEF K
<1>27. Good(K, M) /\ K.back = made.back
  BY <1>19, <1>20, <1>23, <1>24, <1>25, <1>26, PopupGood
<1>28. ShapeIs(K) /\ K.back.number = poppler.number
  BY <1>1, <1>2, <1>11, <1>14, <1>19, <1>21, <1>27
<1> QED
  BY <1>1, <1>27, <1>28, CallEndsAs

-----------------------------------------------------------------------------
(* The dialog.                                                             *)

\* What is true when the settings of a are others and are not saved yet
IsSet(k, a, mask, K) ==
  /\ \A b \in DOMAIN k.annots : b # a => K.annots[b] = k.annots[b]
  /\ K.annots[a].contents = k.annots[a].contents
  /\ \A s \in Settings : s \notin mask => K.annots[a].settings[s] = k.annots[a].settings[s]
  /\ K.back = k.back /\ ObjectsKept(k, K) /\ LinksKept(k, K)

\* Settings that are not saved are not lost, the document having none of them.
LEMMA SetNotSaved ==
  ASSUME NEW k, NEW L, Good(k, L), NEW a \in DOMAIN k.annots, NEW K \in Things,
         IsSet(k, a, {}, K)
  PROVE  AllStored(K)
<1>1. k \in Things /\ AllStored(k)
  BY DEF Good, Ordered
<1>2. DOMAIN K.annots = DOMAIN k.annots /\ K.back = k.back
  BY <1>1, ThingsAre DEF IsSet, ObjectsKept
<1> SUFFICES ASSUME NEW b \in DOMAIN k.annots PROVE StoredIs(K, b)
  BY <1>2 DEF AllStored
<1>3. StoredIs(k, b)
  BY <1>1 DEF AllStored
<1>4. /\ K.annots[b].doc = k.annots[b].doc /\ K.annots[b].of = k.annots[b].of
      /\ K.annots[b].window = k.annots[b].window /\ K.annots[b].heard = k.annots[b].heard
      /\ K.annots[b].contents = k.annots[b].contents
      /\ \A s \in Settings : K.annots[b].settings[s] = k.annots[b].settings[s]
  <2>1. CASE b = a
    BY <2>1 DEF IsSet, ObjectsKept, ObjectKept, LinksKept
  <2>2. CASE b # a
    BY SMTT(20), <2>2 DEF IsSet
  <2> QED
    BY <2>1, <2>2
<1> DEFINE e == k.annots[b]
           E == K.annots[b]
           n == k.back.notes[e.of]
<1>5. IsCurrent(k, b) /\ ~n.gone =>
        /\ e.heard \/ e.window = 0 => e.contents = n.contents
        /\ \A s \in Settings : \/ e.settings[s] = n.settings[s]
                               \/ s = "open" /\ ~n.popup
                               \/ s = "label" /\ n.settings[s] = Nobody
  BY <1>3 DEF StoredIs
<1>6. IsCurrent(K, b) <=> IsCurrent(k, b)
  BY <1>2, <1>4 DEF IsCurrent
<1>7. K.back.notes[E.of] = n
  BY <1>2, <1>4
<1>8. /\ E.window = e.window /\ E.heard = e.heard /\ E.contents = e.contents
      /\ \A s \in Settings : E.settings[s] = e.settings[s]
  BY <1>4
<1>9. K.annots[b] = E
  OBVIOUS
<1> HIDE DEF e, E, n
<1>10. IsCurrent(K, b) /\ ~n.gone =>
        /\ E.heard \/ E.window = 0 => E.contents = n.contents
        /\ \A s \in Settings : \/ E.settings[s] = n.settings[s]
                               \/ s = "open" /\ ~n.popup
                               \/ s = "label" /\ n.settings[s] = Nobody
  BY <1>5, <1>6, <1>8
<1> QED
  BY <1>7, <1>9, <1>10 DEF StoredIs

\* Settings that are saved are in the document.
LEMMA SetSaved ==
  ASSUME NEW k, NEW L, Good(k, L), NEW a \in DOMAIN k.annots, NEW mask \in SUBSET Settings,
         NEW K \in Things, IsSet(k, a, mask, K), ObjectsStand(K), NEW J,
         J = SaveAnnotation(K, a, mask)
  PROVE  AllStored(J)
<1>1. k \in Things /\ AllStored(k) /\ ObjectsStand(k)
  BY DEF Good, Ordered
<1>2. DOMAIN K.annots = DOMAIN k.annots /\ K.back = k.back
  BY <1>1, ThingsAre DEF IsSet, ObjectsKept
<1>3. /\ J \in Things /\ J.annots = K.annots /\ J.popups = K.popups /\ J.desk = K.desk
      /\ J.back.number = K.back.number /\ Written(K, J, a, mask)
  BY <1>2, SaveWrites
<1>4. \A b \in DOMAIN k.annots : /\ K.annots[b].doc = k.annots[b].doc
                                 /\ K.annots[b].of = k.annots[b].of
                                 /\ K.annots[b].window = k.annots[b].window
                                 /\ K.annots[b].heard = k.annots[b].heard
  BY DEF IsSet, ObjectsKept, ObjectKept, LinksKept
<1> SUFFICES ASSUME NEW b \in DOMAIN k.annots, IsCurrent(J, b) PROVE StoredIs(J, b)
  BY ZenonT(40), <1>2, <1>3 DEF AllStored, StoredIs
<1>5. IsCurrent(K, b) /\ IsCurrent(k, b) /\ K.annots[b].of \in DOMAIN K.back.notes
  <2>1. IsCurrent(K, b) /\ IsCurrent(k, b)
    BY <1>2, <1>3, <1>4 DEF IsCurrent
  <2> QED
    BY <2>1, <1>2 DEF ObjectsStand
<1>6. StoredIs(k, b)
  BY <1>1 DEF AllStored
<1>7. CASE b # a
  <2>1. K.annots[b] = k.annots[b]
    BY <1>7 DEF IsSet
  <2>2. IsCurrent(K, a) => K.annots[b].of # K.annots[a].of
    BY <1>2, <1>5, <1>7 DEF ObjectsStand
  <2>3. J.back.notes[K.annots[b].of] = K.back.notes[K.annots[b].of]
    BY <1>3, <1>5, <2>2 DEF Written
  <2> QED
    BY ZenonT(40), <2>1, <2>3, <1>2, <1>3, <1>5, <1>6 DEF StoredIs
<1>8. CASE b = a
  <2> DEFINE e == k.annots[a]
             E == K.annots[a]
             n == k.back.notes[E.of]
             N == J.back.notes[E.of]
  <2>1. SUFFICES ASSUME ~N.gone PROVE StoredIs(J, b)
    BY Zenon, <1>3, <1>8 DEF StoredIs
  <2>2. n = K.back.notes[E.of]
    BY <1>2
  <2>3. ~n.gone
    BY <2>1, <2>2, <1>3, <1>5, <1>8 DEF Written
  <2>4. IsSaved(n, N, E, mask)
    BY <2>2, <2>3, <1>3, <1>5, <1>8 DEF Written
  <2>5. /\ e.heard \/ e.window = 0 => e.contents = n.contents
        /\ \A s \in Settings : \/ e.settings[s] = n.settings[s]
                               \/ s = "open" /\ ~n.popup
                               \/ s = "label" /\ n.settings[s] = Nobody
    <3>1. E.of = e.of
      BY <1>4
    <3> QED
      BY Zenon, <3>1, <2>3, <1>5, <1>6, <1>8 DEF StoredIs
  <2>6. /\ E.window = e.window /\ E.heard = e.heard /\ E.contents = e.contents
        /\ \A s \in Settings : s \notin mask => E.settings[s] = e.settings[s]
    BY <1>4 DEF IsSet
  <2>7. "contents" \notin mask
    BY DEF Settings
  <2>8. J.annots[b] = E /\ J.back.notes[E.of] = N
    BY <1>3, <1>8
  <2> HIDE DEF e, E, n, N
  <2>9. N.contents = n.contents /\ N.popup = n.popup
    BY <2>4, <2>7 DEF IsSaved
  <2>10. \A s \in Settings : \/ E.settings[s] = N.settings[s]
                             \/ s = "open" /\ ~N.popup
                             \/ s = "label" /\ N.settings[s] = Nobody
    <3> SUFFICES ASSUME NEW s \in Settings
                 PROVE  \/ E.settings[s] = N.settings[s]
                        \/ s = "open" /\ ~N.popup
                        \/ s = "label" /\ N.settings[s] = Nobody
      OBVIOUS
    <3>1. N.settings[s] = IF s \in mask /\ (s = "open" => n.popup) THEN E.settings[s] ELSE n.settings[s]
      BY <2>4 DEF IsSaved
    <3>2. CASE s \in mask
      BY <3>1, <3>2, <2>9
    <3>3. CASE s \notin mask
      BY <3>1, <3>3, <2>5, <2>6, <2>9
    <3> QED
      BY <3>2, <3>3
  <2> QED
    BY <2>5, <2>6, <2>8, <2>9, <2>10 DEF StoredIs
<1> QED
  BY <1>7, <1>8

\* What the dialog shows, with one setting changed
LEMMA DialogGives ==
  ASSUME NEW e \in NoteObjects, NEW set \in Settings,
         NEW value \in {DialogShows(e)[set]} \cup (IF set = "open" THEN {0, 1} ELSE {2})
  PROVE  [DialogShows(e) EXCEPT ![set] = value] \in NoteSettings
<1> DEFINE r == e.settings
           label == IF r.label = Nobody THEN Me ELSE r.label
           shown == [r EXCEPT !.label = label]
<1>1. r \in NoteSettings
  BY DEF NoteObjects
<1> HIDE DEF r
<1>2. label \in Nat
  BY <1>1 DEF NoteSettings, Me
<1>3. DialogShows(e) = shown
  BY DEF DialogShows, r
<1> HIDE DEF label
<1>4. shown \in NoteSettings
  BY <1>1, <1>2 DEF NoteSettings
<1> HIDE DEF shown
<1>5. shown[set] \in Nat
  BY <1>4 DEF NoteSettings, Settings
<1>6. value \in Nat
  BY <1>3, <1>5
<1>7. [shown EXCEPT ![set] = value] \in NoteSettings
  BY <1>4, <1>6 DEF NoteSettings, Settings
<1> QED
  BY <1>3, <1>7

\* Applying the properties of an annotation keeps the invariant.
LEMMA ApplyKeeps ==
  ASSUME NotesInvariant, Apply
  PROVE  NotesInvariant'
<1> DEFINE a == desk.dialog
           e == annots[a]
<1>1. a # 0 /\ listed' = listed /\ noteCalls' = noteCalls
  BY DEF Apply
<1>2. PICK set \in Settings :
        \E value \in {DialogShows(e)[set]} \cup (IF set = "open" THEN {0, 1} ELSE {2}) :
          ApplyProperties(set, value)
  BY Zenon DEF Apply
<1>3. PICK value \in {DialogShows(e)[set]} \cup (IF set = "open" THEN {0, 1} ELSE {2}) :
        ApplyProperties(set, value)
  BY <1>2
<1> DEFINE new == [DialogShows(e) EXCEPT ![set] = value]
           mask == {s \in Settings : new[s] # e.settings[s]}
           table == [desk EXCEPT !.dialog = 0]
           E == [e EXCEPT !.settings = new]
           objects == [annots EXCEPT ![a] = E]
           title == new.label
           v(w) == IF w.made = a /\ "label" \in mask THEN [w EXCEPT !.title = title] ELSE w
           P == [i \in DOMAIN popups |-> v(popups[i])]
           K == [back |-> poppler, annots |-> objects, popups |-> P, desk |-> table]
           J == SaveAnnotation(K, a, mask)
           R == UpdateRange(J)
<1>4. /\ Good(Shape, listed) /\ Ordered(Shape, listed) /\ Shape \in Things
      /\ desk \in Desks /\ popups \in Seq(PopupWindows) /\ annots \in Seq(NoteObjects)
      /\ poppler \in NoteFiles /\ listed \in Lists
      /\ DOMAIN popups = 1 .. Len(popups) /\ Len(popups) \in Nat
      /\ DOMAIN annots = 1 .. Len(annots) /\ Len(annots) \in Nat
      /\ desk.focus \in 0 .. Len(popups) /\ desk.menu \in 0 .. Len(annots)
      /\ a \in DOMAIN annots /\ e \in NoteObjects
  BY <1>1, NotesHold
<1>5. ShapeIs(IF mask = {} THEN K ELSE R)
  <2>1. [Shape EXCEPT !.annots[a].settings = new, !.desk.dialog = 0,
              !.popups = [i \in DOMAIN @ |-> IF @[i].made = a /\ "label" \in mask
                                              THEN [@[i] EXCEPT !.title = new.label] ELSE @[i]]]
        = K
    <3> DEFINE Q == [i \in DOMAIN Shape.popups |->
                       IF Shape.popups[i].made = a /\ "label" \in mask
                         THEN [Shape.popups[i] EXCEPT !.title = new.label] ELSE Shape.popups[i]]
    <3>1. Q = P
      <4> HIDE DEF a, mask, new
      <4> QED
        BY ShapeHas DEF title
    <3> HIDE DEF a, new, mask
    <3>2. [Shape EXCEPT !.annots[a].settings = new, !.desk.dialog = 0,
              !.popups = [i \in DOMAIN @ |-> IF @[i].made = a /\ "label" \in mask
                                              THEN [@[i] EXCEPT !.title = new.label] ELSE @[i]]]
          = [Shape EXCEPT !.annots[a].settings = new, !.desk.dialog = 0, !.popups = Q]
      BY Zenon
    <3> HIDE DEF Q, P
    <3>3. [Shape EXCEPT !.annots[a].settings = new, !.desk.dialog = 0, !.popups = P] = K
      <4> DEFINE T1 == [Shape EXCEPT !.annots[a].settings = new]
                 T2 == [T1 EXCEPT !.desk.dialog = 0]
                 T3 == [T2 EXCEPT !.popups = P]
      <4>1. T1 = [back |-> poppler, annots |-> objects, popups |-> popups, desk |-> desk]
        <5>1. T1 = [Shape EXCEPT !.annots = objects]
          BY ShapeHas
        <5> HIDE DEF objects
        <5> QED
          BY <5>1 DEF Shape
      <4> HIDE DEF T1, objects
      <4>2. T2 = [back |-> poppler, annots |-> objects, popups |-> popups, desk |-> table]
        <5>1. T2 = [T1 EXCEPT !.desk = table]
          BY <4>1
        <5> HIDE DEF table
        <5> QED
          BY <4>1, <5>1
      <4> HIDE DEF T2, table
      <4>3. T3 = K
        BY <4>2
      <4>4. [Shape EXCEPT !.annots[a].settings = new, !.desk.dialog = 0, !.popups = P] = T3
        <5> HIDE DEF K
        <5> QED
          BY Zenon DEF T1, T2, T3
      <4> QED
        BY <4>3, <4>4
    <3> QED
      BY <3>1, <3>2, <3>3
  <2> HIDE DEF K
  <2>2. ShapeIs(IF mask = {} THEN K ELSE UpdateRange(SaveAnnotation(K, a, mask)))
    BY <1>3, <2>1, Zenon DEF ApplyProperties
  <2> QED
    BY <2>2
<1>6. new \in NoteSettings /\ mask \subseteq Settings
  <2>1. mask \subseteq Settings
    OBVIOUS
  <2> HIDE DEF e
  <2> QED
    BY <2>1, <1>4, DialogGives
<1>7. \A s \in Settings : s \notin mask => new[s] = e.settings[s]
  OBVIOUS
<1>8. title = new["label"] /\ title \in Nat
  <2> HIDE DEF new
  <2> QED
    BY <1>6 DEF NoteSettings
<1> HIDE DEF new, mask, title, a
<1>9. /\ E \in NoteObjects /\ E.doc = e.doc /\ E.of = e.of /\ E.page = e.page /\ E.name = e.name
      /\ E.popup = e.popup /\ E.contents = e.contents /\ E.settings = new
      /\ E.window = e.window /\ E.heard = e.heard
  <2> HIDE DEF e
  <2> QED
    BY <1>4, <1>6 DEF NoteObjects
<1> HIDE DEF E
<1>10. /\ objects \in Seq(NoteObjects) /\ Len(objects) = Len(annots)
      /\ DOMAIN objects = DOMAIN annots /\ objects[a] = E
      /\ \A b \in DOMAIN annots : b # a => objects[b] = annots[b]
  BY <1>4, <1>9, SeqSet
<1>11. ASSUME NEW i \in DOMAIN popups
       PROVE  /\ P[i] \in PopupWindows /\ P[i].of = popups[i].of /\ P[i].made = popups[i].made
              /\ P[i].page = popups[i].page /\ P[i].place = popups[i].place
              /\ P[i].last = popups[i].last /\ P[i].missed = popups[i].missed
              /\ P[i].text = popups[i].text /\ P[i].visible = popups[i].visible
              /\ P[i].shown = popups[i].shown /\ P[i].y = popups[i].y
              /\ P[i].parent = popups[i].parent /\ P[i].at = popups[i].at
              /\ P[i].title = IF popups[i].made = a /\ "label" \in mask THEN title
                              ELSE popups[i].title
  <2> DEFINE w == popups[i]
             W == [w EXCEPT !.title = title]
  <2>1. w \in PopupWindows /\ P[i] = IF w.made = a /\ "label" \in mask THEN W ELSE w
    BY <1>4
  <2> HIDE DEF w, P
  <2>2. /\ W \in PopupWindows /\ W.of = w.of /\ W.made = w.made
        /\ W.page = w.page /\ W.place = w.place
        /\ W.last = w.last /\ W.missed = w.missed
        /\ W.text = w.text /\ W.visible = w.visible
        /\ W.shown = w.shown /\ W.y = w.y
        /\ W.parent = w.parent /\ W.at = w.at /\ W.title = title
    BY <1>8, <2>1 DEF PopupWindows
  <2> HIDE DEF W
  <2>3. CASE w.made = a /\ "label" \in mask
    BY <2>1, <2>2, <2>3 DEF w
  <2>4. CASE ~(w.made = a /\ "label" \in mask)
    BY <2>1, <2>4 DEF w
  <2> QED
    BY <2>3, <2>4
<1>12. P \in Seq(PopupWindows) /\ Len(P) = Len(popups) /\ DOMAIN P = DOMAIN popups
  <2>1. P = [i \in DOMAIN popups |-> P[i]]
    OBVIOUS
  <2> HIDE DEF P
  <2> QED
    BY <2>1, <1>4, <1>11, SeqLike
<1>13. /\ table \in Desks /\ table.scroll = desk.scroll /\ table.scale = desk.scale
       /\ table.pending = desk.pending /\ table.range = desk.range /\ table.left = desk.left
       /\ table.early = desk.early /\ table.focus = desk.focus /\ table.menu = desk.menu
       /\ table.dialog = 0 /\ table.mapped = desk.mapped /\ table.origin = desk.origin
  BY <1>4 DEF Desks
<1> HIDE DEF P, objects, table
<1>14. /\ K.back = poppler /\ K.annots = objects /\ K.popups = P /\ K.desk = table
       /\ K \in Things
  BY <1>4, <1>10, <1>12, <1>13 DEF Things
<1> HIDE DEF K
<1> DEFINE k == Shape
<1>15. /\ k.back = poppler /\ k.annots = annots /\ k.popups = popups /\ k.desk = desk
       /\ Good(k, listed) /\ Ordered(k, listed) /\ k \in Things /\ AllTyped(k)
       /\ AllPlaced(k) /\ SeenWithPage(k) /\ OwnersKnow(k)
  BY <1>4, ShapeHas DEF Good, Ordered
<1> HIDE DEF k
<1>16. /\ NotesKept(k, K) /\ ObjectsKept(k, K) /\ LinksKept(k, K) /\ OwnersKept(k, K)
       /\ ActorsAre(K)
  <2>1. NotesKept(k, K)
    BY <1>14, <1>15 DEF NotesKept
  <2>2. ObjectsKept(k, K) /\ LinksKept(k, K)
    BY <1>9, <1>10, <1>14, <1>15 DEF ObjectsKept, ObjectKept, LinksKept
  <2>3. OwnersKept(k, K)
    BY <1>11, <1>12, <1>14, <1>15 DEF OwnersKept
  <2>4. ActorsAre(K)
    BY <1>4, <1>10, <1>12, <1>13, <1>14 DEF ActorsAre
  <2> QED
    BY <2>1, <2>2, <2>3, <2>4
<1>17. Ordered(K, listed) /\ ObjectsStand(K)
  <2>1. K.desk.early = k.desk.early /\ K.desk.mapped = k.desk.mapped
    BY <1>13, <1>14, <1>15
  <2>2. Ordered(K, listed)
    BY <2>1, <1>14, <1>15, <1>16, OrderStays
  <2> QED
    BY <2>2 DEF Ordered
<1>18. AllTyped(K)
  <2> SUFFICES ASSUME NEW i \in DOMAIN popups PROVE TypedIs(K, i)
    BY <1>12, <1>14 DEF AllTyped
  <2>1. TypedIs(k, i) /\ popups[i].of \in DOMAIN annots
    BY <1>15 DEF AllTyped, OwnersKnow
  <2>2. objects[popups[i].of].contents = annots[popups[i].of].contents
    BY <2>1, <1>9, <1>10
  <2> QED
    BY <2>1, <2>2, <1>11, <1>13, <1>14, <1>15 DEF TypedIs
<1>19. AllPlaced(K)
  <2> SUFFICES ASSUME NEW i \in DOMAIN popups PROVE PlacedIs(K, i)
    BY <1>12, <1>14 DEF AllPlaced
  <2> DEFINE m == popups[i].made
  <2>1. PlacedIs(k, i) /\ m \in DOMAIN annots
    BY <1>15 DEF AllPlaced, OwnersKnow
  <2>2. popups[i].title = annots[m].settings.label
    BY <2>1, <1>15 DEF PlacedIs
  <2>3. P[i].title = objects[m].settings.label
    <3>1. CASE m # a
      <4>1. objects[m] = annots[m]
        BY <2>1, <3>1, <1>10
      <4>2. P[i].title = popups[i].title
        BY <3>1, <1>11
      <4> QED
        BY <4>1, <4>2, <2>2
    <3>2. CASE m = a
      <4>1. objects[m].settings.label = title
        BY <3>2, <1>9, <1>10, <1>8 DEF title
      <4>2. CASE "label" \in mask
        <5>1. P[i].title = title
          BY <3>2, <4>2, <1>11
        <5> QED
          BY <4>1, <5>1
      <4>3. CASE "label" \notin mask
        <5>1. P[i].title = popups[i].title
          BY <4>3, <1>11
        <5>2. e.settings \in NoteSettings
          BY <1>4 DEF NoteObjects
        <5> DEFINE r == e.settings
        <5>3. r \in NoteSettings /\ popups[i].title = r.label
          BY <5>2, <2>2, <3>2
        <5>4. new["label"] = r["label"]
          BY <4>3, <1>7 DEF Settings
        <5> HIDE DEF r
        <5>5. r["label"] = r.label
          OBVIOUS
        <5> QED
          BY <4>1, <5>1, <5>3, <5>4, <5>5, <1>8
      <4> QED
        BY <4>2, <4>3
    <3> QED
      BY <3>1, <3>2
  <2>4. /\ ~desk.pending => popups[i].y - popups[i].parent = ToView(desk, popups[i].page, popups[i].place)
        /\ ~popups[i].missed => popups[i].at = popups[i].last \/ popups[i].at = Clamp(popups[i].y, popups[i].parent)
        /\ popups[i].shown => popups[i].visible
    BY <2>1, <1>15 DEF PlacedIs
  <2>5. ToView(table, popups[i].page, popups[i].place) = ToView(desk, popups[i].page, popups[i].place)
    BY <1>13 DEF ToView
  <2>6. P[i].made = m
    BY <1>11
  <2> HIDE DEF m
  <2> QED
    BY <2>3, <2>4, <2>5, <2>6, <1>11, <1>13, <1>14 DEF PlacedIs
<1>20. SeenWithPage(K)
  <2> SUFFICES ASSUME NEW b \in DOMAIN annots, objects[b].doc = poppler.number,
                      objects[b].window # 0, P[objects[b].window].shown
               PROVE  objects[b].page \in desk.range \cup desk.left
    BY <1>10, <1>13, <1>14 DEF SeenWithPage, IsCurrent
  <2>1. /\ objects[b].doc = annots[b].doc /\ objects[b].window = annots[b].window
        /\ objects[b].page = annots[b].page
    BY <1>9, <1>10
  <2>2. annots[b].window \in DOMAIN popups
    BY <2>1, <1>4, <1>15 DEF OwnersKnow
  <2>3. popups[annots[b].window].shown
    BY <2>1, <2>2, <1>11
  <2> QED
    BY <2>1, <2>3, <1>15 DEF SeenWithPage, IsCurrent
<1>21. IsSet(k, a, mask, K)
  <2>1. \A s \in Settings : s \notin mask => K.annots[a].settings[s] = k.annots[a].settings[s]
    BY <1>7, <1>9, <1>10, <1>14, <1>15
  <2>2. /\ \A b \in DOMAIN k.annots : b # a => K.annots[b] = k.annots[b]
        /\ K.annots[a].contents = k.annots[a].contents /\ K.back = k.back
    BY <1>9, <1>10, <1>14, <1>15
  <2> QED
    BY <2>1, <2>2, <1>16 DEF IsSet
<1> HIDE DEF e
<1>22. a \in DOMAIN k.annots /\ a \in DOMAIN K.annots
  BY <1>4, <1>10, <1>14, <1>15
<1>23. CASE mask = {}
  <2>1. AllStored(K)
    BY <1>14, <1>15, <1>21, <1>22, <1>23, SetNotSaved
  <2>2. Good(K, listed)
    BY <2>1, <1>17, <1>18, <1>19, <1>20 DEF Good
  <2>3. ShapeIs(K) /\ K.back.number = poppler.number
    BY <1>5, <1>14, <1>23
  <2> QED
    BY <2>2, <2>3, <1>1, CallEnds
<1>24. CASE mask # {}
  <2> HIDE DEF J, R
  <2>1. AllStored(J)
    BY <1>6, <1>14, <1>15, <1>17, <1>21, <1>22, SetSaved DEF J
  <2>2. /\ J \in Things /\ J.annots = K.annots /\ J.popups = K.popups /\ J.desk = K.desk
        /\ NotesKept(K, J)
    BY <1>14, <1>17, <1>22, SaveKeeps DEF J
  <2>3. Ordered(J, listed)
    <3>1. ObjectsKept(K, J) /\ LinksKept(K, J) /\ OwnersKept(K, J)
      BY <2>2 DEF ObjectsKept, ObjectKept, LinksKept, OwnersKept
    <3>2. ActorsAre(J) /\ J.desk.early = K.desk.early /\ J.desk.mapped = K.desk.mapped
      BY <2>2, <1>16 DEF ActorsAre
    <3> QED
      BY <3>1, <3>2, <2>2, <1>17, OrderStays
  <2>4. AllTyped(J)
    BY <2>2, <1>18 DEF AllTyped, TypedIs
  <2>5. AllPlaced(J)
    BY <2>2, <1>19 DEF AllPlaced, PlacedIs
  <2>6. SeenWithPage(J) /\ J.back.number = poppler.number
    BY <2>2, <1>14, <1>20 DEF SeenWithPage, IsCurrent, NotesKept
  <2>7. /\ R \in Things /\ Ordered(R, listed) /\ AllStored(R) /\ AllTyped(R) /\ SeenWithPage(R)
        /\ R.back = J.back /\ R.annots = J.annots /\ OwnersKept(J, R)
        /\ LikeBeforeAll(J, R) /\ TableLike(J.desk, R.desk)
    BY <2>1, <2>3, <2>4, <2>6, RangeUpdates DEF R
  <2>8. AllPlaced(R)
    BY <2>2, <2>5, <2>7, PlacesStay
  <2>9. Good(R, listed) /\ R.back.number = poppler.number
    BY <2>6, <2>7, <2>8 DEF Good
  <2>10. ShapeIs(R)
    BY <1>5, <1>24
  <2> QED
    BY <2>9, <2>10, <1>1, CallEnds
<1> QED
  BY <1>23, <1>24

-----------------------------------------------------------------------------
(* Loading again.                                                          *)

\* What is left of the notes are notes.
LEMMA RemainingAre ==
  ASSUME NEW notes \in Seq(NoteOfFile)
  PROVE  Remaining(notes) \in Seq(NoteOfFile)
<1> DEFINE N == Len(notes)
           S == Seq(NoteOfFile)
           none == <<>>
           Next(s, i) == IF notes[i].gone THEN s ELSE Append(s, notes[i])
           next == [i \in 1 .. N |-> [s \in S |-> Next(s, i)]]
           IsRun(f) == f = [i \in 0 .. N |-> IF i = 0 THEN none
                                             ELSE IF notes[i].gone THEN f[i - 1]
                                             ELSE Append(f[i - 1], notes[i])]
           run == CHOOSE f : IsRun(f)
<1>1. Remaining(notes) = run[N]
  BY Zenon DEF Remaining
<1>2. N \in Nat /\ none \in S /\ \A i \in 1 .. N : notes[i] \in NoteOfFile
  OBVIOUS
<1>3. \A i \in 1 .. N : \A s \in S : Next(s, i) \in S
  BY <1>2
<1>4. \A i \in 1 .. N : \A s \in S : next[i][s] = Next(s, i)
  OBVIOUS
<1>5. ASSUME NEW f PROVE IsRun(f) <=> f = [i \in 0 .. N |-> IF i = 0 THEN none ELSE Next(f[i - 1], i)]
  OBVIOUS
<1> HIDE DEF N, S, none, next, Next, IsRun
<1>6. PICK f : Solves(f, N, none, next)
  BY <1>2, StepsExist, Zenon
<1>7. \A i \in 0 .. N : f[i] = IF i = 0 THEN none ELSE next[i][f[i - 1]]
  BY <1>6, Zenon DEF Solves
<1> DEFINE T == {i \in 0 .. N : f[i] \in S}
<1>8. 0 \in T
  BY <1>2, <1>7
<1>9. \A i \in 1 .. N : i - 1 \in T => i \in T
  <2> SUFFICES ASSUME NEW i \in 1 .. N, f[i - 1] \in S PROVE f[i] \in S
    BY <1>2
  <2>1. i \in 0 .. N /\ i # 0
    BY <1>2
  <2>2. f[i] = next[i][f[i - 1]]
    BY <1>7, <2>1
  <2> QED
    BY <2>2, <1>3, <1>4
<1>10. \A i \in 0 .. N : i \in T
  <2> HIDE DEF T
  <2> QED
    BY <1>2, <1>8, <1>9, CountUp
<1>11. \A i \in 0 .. N : f[i] = IF i = 0 THEN none ELSE Next(f[i - 1], i)
  <2> SUFFICES ASSUME NEW i \in 0 .. N, i # 0 PROVE f[i] = Next(f[i - 1], i)
    BY <1>7
  <2>1. i \in 1 .. N /\ i - 1 \in 0 .. N
    BY <1>2
  <2>2. f[i] = next[i][f[i - 1]] /\ f[i - 1] \in S
    BY <1>7, <1>10, <2>1
  <2> QED
    BY <1>4, <2>1, <2>2
<1>12. IsRun(f)
  <2>1. f = [i \in 0 .. N |-> f[i]]
    <3>1. f = [i \in 0 .. N |-> IF i = 0 THEN none ELSE next[i][f[i - 1]]]
      BY <1>6, Zenon DEF Solves
    <3> QED
      BY <3>1, <1>7
  <2>2. f = [i \in 0 .. N |-> IF i = 0 THEN none ELSE Next(f[i - 1], i)]
    BY <2>1, <1>11
  <2> QED
    BY <2>2, <1>5
<1>13. IsRun(run)
  BY <1>12, Zenon
<1> HIDE DEF run
<1>14. run = [i \in 0 .. N |-> IF i = 0 THEN none ELSE Next(run[i - 1], i)]
  BY <1>13, <1>5
<1>15. \A i \in 0 .. N : run[i] = IF i = 0 THEN none ELSE Next(run[i - 1], i)
  BY <1>14, Zenon
<1> DEFINE U == {i \in 0 .. N : run[i] \in S}
<1>16. 0 \in U
  BY <1>2, <1>15
<1>17. \A i \in 1 .. N : i - 1 \in U => i \in U
  <2> SUFFICES ASSUME NEW i \in 1 .. N, run[i - 1] \in S PROVE run[i] \in S
    BY <1>2
  <2>1. i \in 0 .. N /\ i # 0
    BY <1>2
  <2>2. run[i] = Next(run[i - 1], i)
    BY <1>15, <2>1
  <2> QED
    BY <2>2, <1>3
<1>18. \A i \in 0 .. N : i \in U
  <2> HIDE DEF U
  <2> QED
    BY <1>2, <1>16, <1>17, CountUp
<1>19. run[N] \in S
  BY <1>2, <1>18
<1> QED
  BY <1>1, <1>19 DEF S

\* No object is one of the document that is loaded.
LEMMA ReloadKeeps ==
  ASSUME NotesInvariant, NEW saved \in BOOLEAN, ReloadNotes(saved)
  PROVE  NotesInvariant'
<1> DEFINE notes == IF saved THEN Remaining(poppler.notes) ELSE FileNotes
           yes == TRUE
           no == FALSE
           n == poppler.number + 1
           back == [number |-> n, modified |-> no, notes |-> notes]
           none == {}
           table == [desk EXCEPT !.mapped = none, !.early = none, !.pending = yes]
           L == [p \in AnnotPages |-> <<>>]
           K == [back |-> back, annots |-> annots, popups |-> popups, desk |-> table]
<1>1. /\ NoteCall /\ poppler' = back /\ listed' = L /\ desk' = table
      /\ annots' = annots /\ popups' = popups
  BY DEF ReloadNotes
<1>2. /\ Good(Shape, listed) /\ Shape \in Things
      /\ desk \in Desks /\ popups \in Seq(PopupWindows) /\ annots \in Seq(NoteObjects)
      /\ poppler \in NoteFiles /\ DOMAIN popups = 1 .. Len(popups) /\ Len(popups) \in Nat
      /\ DOMAIN annots = 1 .. Len(annots) /\ Len(annots) \in Nat
      /\ desk.focus \in 0 .. Len(popups) /\ desk.menu \in 0 .. Len(annots)
      /\ desk.dialog \in 0 .. Len(annots)
  BY NotesHold
<1>3. OwnersKnow(Shape) /\ AllTyped(Shape) /\ AllPlaced(Shape)
  BY <1>2 DEF Good, Ordered
<1>4. poppler.number \in Nat /\ poppler.notes \in Seq(NoteOfFile)
  BY <1>2 DEF NoteFiles
<1>5. notes \in Seq(NoteOfFile) /\ n \in Nat /\ yes \in BOOLEAN /\ yes /\ no \in BOOLEAN
        /\ none \in SUBSET AnnotPages /\ none = {}
  BY <1>4, RemainingAre, NoteAssumption
<1>6. L \in Lists /\ \A p \in AnnotPages : L[p] = <<>> /\ DOMAIN L[p] = {}
  <2> DEFINE empty == <<>>
  <2>1. empty \in Seq(Nat) /\ DOMAIN empty = {}
    OBVIOUS
  <2>2. L = [p \in AnnotPages |-> empty]
    OBVIOUS
  <2>3. \A p \in AnnotPages : L[p] = empty
    OBVIOUS
  <2> HIDE DEF empty, L
  <2>4. L \in Lists /\ \A p \in AnnotPages : DOMAIN L[p] = {}
    BY <2>1, <2>2, <2>3 DEF Lists
  <2> QED
    BY <2>3, <2>4 DEF empty
<1>7. n = poppler.number + 1
  OBVIOUS
<1> HIDE DEF notes, yes, no, none, n
<1>8. back \in NoteFiles /\ back.number = n
  BY <1>5 DEF NoteFiles
<1>9. /\ table \in Desks /\ table.mapped = none /\ table.early = none /\ table.pending
      /\ table.focus = desk.focus /\ table.menu = desk.menu /\ table.dialog = desk.dialog
  BY <1>2, <1>5 DEF Desks
<1> HIDE DEF back, table, L
<1>10. /\ K.back = back /\ K.annots = annots /\ K.popups = popups /\ K.desk = table
       /\ K \in Things
  BY <1>2, <1>8, <1>9 DEF Things
<1> HIDE DEF K
<1>11. \A a \in DOMAIN annots : annots[a].doc \in 1 .. poppler.number
  BY <1>3, ShapeHas DEF OwnersKnow
<1>12. \A a \in DOMAIN annots : annots[a].doc \in 1 .. n /\ ~IsCurrent(K, a)
  BY <1>4, <1>7, <1>8, <1>10, <1>11 DEF IsCurrent
<1>13. OwnersKnow(K)
  <2>1. ASSUME NEW i \in DOMAIN popups
        PROVE  /\ popups[i].of \in DOMAIN annots /\ popups[i].made \in DOMAIN annots
               /\ annots[popups[i].of].window = i
               /\ annots[popups[i].of].page = popups[i].page
    BY <1>3, ShapeHas DEF OwnersKnow
  <2>2. \A a \in DOMAIN annots : annots[a].window \in 0 .. Len(popups)
    BY <1>3, ShapeHas DEF OwnersKnow
  <2>3. /\ table.focus \in 0 .. Len(popups) /\ table.menu \in 0 .. Len(annots)
        /\ table.dialog \in 0 .. Len(annots)
    BY <1>2, <1>9
  <2> QED
    BY <2>1, <2>2, <2>3, <1>8, <1>10, <1>12 DEF OwnersKnow
<1>14. ObjectsStand(K) /\ ListsHold(K, L)
  BY <1>6, <1>10, <1>12 DEF ObjectsStand, ListsHold
<1>15. ListsComplete(K, L)
  BY <1>5, <1>6, <1>9, <1>10 DEF ListsComplete
<1>16. AllStored(K) /\ SeenWithPage(K)
  BY <1>10, <1>12 DEF AllStored, StoredIs, SeenWithPage
<1>17. AllTyped(K)
  BY <1>3, <1>9, <1>10, ShapeHas DEF AllTyped, TypedIs
<1>18. AllPlaced(K)
  BY <1>3, <1>9, <1>10, ShapeHas DEF AllPlaced, PlacedIs
<1>19. Good(K, L)
  BY <1>6, <1>10, <1>13, <1>14, <1>15, <1>16, <1>17, <1>18 DEF Good, Ordered
<1>20. Shape' = K
  BY <1>1 DEF Shape, K
<1>21. noteCalls' \in 0 .. NoteCalls /\ poppler'.number \in 1 .. noteCalls' + 1
  <2>1. noteCalls \in 0 .. NoteCalls /\ poppler.number \in 1 .. noteCalls + 1 /\ NoteCalls \in Nat
    BY NoteAssumption DEF NotesInvariant
  <2>2. poppler'.number = poppler.number + 1
    BY <1>1, <1>7, <1>8
  <2> QED
    BY <2>1, <2>2, <1>1 DEF NoteCall
<1> QED
  BY <1>1, <1>19, <1>20, <1>21 DEF NotesInvariant

\* The invariant holds of a document that has been loaded and not read yet.
LEMMA NotesBegin == NotesInit => NotesInvariant
<1> SUFFICES ASSUME NotesInit PROVE NotesInvariant
  OBVIOUS
<1> DEFINE yes == TRUE
           no == FALSE
           none == {}
           empty == <<>>
           back == [number |-> 1, modified |-> no, notes |-> FileNotes]
           range == InRange(0, 2)
           table == [scroll |-> 0, scale |-> 2, origin |-> 0, pending |-> no,
             range |-> range, mapped |-> none, left |-> none, early |-> none,
             focus |-> 0, menu |-> 0, dialog |-> 0]
           L == [p \in AnnotPages |-> empty]
           K == [back |-> back, annots |-> empty, popups |-> empty, desk |-> table]
<1>1. /\ poppler = back /\ annots = empty /\ listed = L /\ popups = empty /\ desk = table
      /\ noteCalls = 0
  BY DEF NotesInit
<1>2. no \in BOOLEAN /\ none \in SUBSET AnnotPages /\ none = {}
  OBVIOUS
<1>3. DOMAIN empty = {} /\ Len(empty) = 0 /\ empty \in Seq(Nat) /\ empty \in Seq(NoteObjects)
        /\ empty \in Seq(PopupWindows) /\ empty = <<>>
  OBVIOUS
<1>4. range \in Ranges
  BY DEF Ranges
<1>5. FileNotes \in Seq(NoteOfFile) /\ NoteCalls \in Nat
  BY NoteAssumption
<1> HIDE DEF no, none, empty, range
<1>6. back \in NoteFiles /\ back.number = 1
  BY <1>2, <1>5 DEF NoteFiles
<1>7. /\ table \in Desks /\ table.mapped = none /\ table.early = none
      /\ table.focus = 0 /\ table.menu = 0 /\ table.dialog = 0
  BY <1>2, <1>4 DEF Desks
<1> HIDE DEF back, table
<1>8. L \in Lists /\ \A p \in AnnotPages : L[p] = empty
  BY <1>3 DEF Lists
<1> HIDE DEF L
<1>9. /\ K.back = back /\ K.annots = empty /\ K.popups = empty /\ K.desk = table
      /\ K \in Things
  BY <1>3, <1>6, <1>7 DEF Things
<1> HIDE DEF K
<1>10. OwnersKnow(K)
  <2>1. 0 \in 0 .. Len(empty)
    BY <1>3
  <2> QED
    BY <2>1, <1>3, <1>7, <1>9 DEF OwnersKnow
<1>11. ObjectsStand(K) /\ ListsHold(K, L)
  BY <1>3, <1>8, <1>9 DEF ObjectsStand, ListsHold
<1>12. ListsComplete(K, L)
  BY <1>2, <1>3, <1>7, <1>8, <1>9 DEF ListsComplete
<1>13. AllStored(K) /\ SeenWithPage(K) /\ AllTyped(K) /\ AllPlaced(K)
  BY <1>3, <1>9 DEF AllStored, SeenWithPage, AllTyped, AllPlaced
<1>14. Good(K, L)
  BY <1>8, <1>9, <1>10, <1>11, <1>12, <1>13 DEF Good, Ordered
<1>15. Shape = K
  BY <1>1 DEF Shape, K
<1> QED
  BY <1>1, <1>5, <1>6, <1>14, <1>15 DEF NotesInvariant

\* Every call keeps the invariant.
LEMMA NotesStep == NotesInvariant /\ [NotesNext]_noteVars => NotesInvariant'
<1> SUFFICES ASSUME NotesInvariant, [NotesNext]_noteVars PROVE NotesInvariant'
  OBVIOUS
<1>1. ASSUME NEW at \in {0, 4, 8}, ScrollView(at) PROVE NotesInvariant'
  BY <1>1, ScrollKeeps
<1>2. CASE ZoomView
  BY <1>2, ZoomKeeps
<1>3. CASE MoveView
  BY <1>3, MoveKeepsNotes
<1>4. CASE RemoveAnnot
  BY <1>4, RemoveKeeps
<1>5. CASE OpenProperties
  BY <1>5, PropertiesKeep
<1>6. CASE Apply
  BY <1>6, ApplyKeeps
<1>7. ASSUME NEW a \in InView, OpenPopup(a) \/ OpenMenu(a) PROVE NotesInvariant'
  BY <1>7, OpenKeeps, MenuKeeps
<1>8. ASSUME NEW i \in DOMAIN popups, ClosePopup(i) \/ TypeIn(i) PROVE NotesInvariant'
  BY <1>8, CloseKeeps, TypeKeeps
<1>9. ASSUME NEW i \in DOMAIN popups, NEW y \in {0, 4}, MovePopup(i, y) PROVE NotesInvariant'
  BY <1>9, DragKeeps
<1>10. ASSUME NEW p \in AnnotPages, CreateNote(p, 2) PROVE NotesInvariant'
  BY <1>10, CreateNoteKeeps
<1>11. ASSUME NEW saved \in BOOLEAN, ReloadNotes(saved) PROVE NotesInvariant'
  BY <1>11, ReloadKeeps
<1>12. ASSUME NEW p \in AnnotPages, PageData(p) \/ DrawPage(p) PROVE NotesInvariant'
  BY <1>12, PageDataKeeps, DrawKeeps
<1>13. CASE AnnotsJob
  BY <1>13, AnnotsJobKeeps
<1>14. ASSUME NEW at \in {0, 4}, Relayout(at) PROVE NotesInvariant'
  BY <1>14, RelayoutKeeps
<1>15. CASE UNCHANGED noteVars
  <2>1. Shape' = Shape /\ listed' = listed /\ noteCalls' = noteCalls /\ poppler' = poppler
    BY <1>15 DEF noteVars, Shape
  <2> QED
    BY <2>1 DEF NotesInvariant
<1>16. CASE NotesUser
  BY <1>16, <1>1, <1>2, <1>3, <1>4, <1>5, <1>6, <1>7, <1>8, <1>9, <1>10, <1>11 DEF NotesUser
<1>17. CASE NotesSources
  BY <1>17, <1>12, <1>13, <1>14 DEF NotesSources
<1> QED
  BY <1>15, <1>16, <1>17 DEF NotesNext

-----------------------------------------------------------------------------
(* What follows from the invariant.                                        *)

\* The invariant has the types in it.
LEMMA NotesTyped == NotesInvariant => NotesTypeOK
<1> SUFFICES ASSUME NotesInvariant PROVE NotesTypeOK
  OBVIOUS
<1>1. /\ Shape \in Things /\ OwnersKnow(Shape) /\ ListsHold(Shape, listed)
      /\ desk \in Desks /\ popups \in Seq(PopupWindows) /\ poppler \in NoteFiles
      /\ DOMAIN popups = 1 .. Len(popups)
      /\ desk.focus \in 0 .. Len(popups) /\ desk.menu \in 0 .. Len(annots)
  BY NotesHold DEF Ordered
<1>2. poppler.modified \in BOOLEAN /\ poppler.number \in 1 .. NoteCalls + 1
  <2>1. poppler.modified \in BOOLEAN
    BY <1>1 DEF NoteFiles
  <2>2. poppler.number \in 1 .. noteCalls + 1 /\ noteCalls \in 0 .. NoteCalls /\ NoteCalls \in Nat
    BY NoteAssumption DEF NotesInvariant
  <2> QED
    BY <2>1, <2>2
<1>3. \A p \in AnnotPages : Range(listed[p]) \subseteq DOMAIN annots
  BY <1>1, ShapeHas DEF ListsHold, Range
<1>4. \A i \in DOMAIN popups : popups[i].of \in DOMAIN annots /\ popups[i].page \in AnnotPages
  <2> SUFFICES ASSUME NEW i \in DOMAIN popups
               PROVE  popups[i].of \in DOMAIN annots /\ popups[i].page \in AnnotPages
    OBVIOUS
  <2>1. popups[i] \in PopupWindows
    BY <1>1
  <2>2. popups[i].page \in AnnotPages
    BY <2>1 DEF PopupWindows
  <2> QED
    BY <2>2, <1>1, ShapeHas DEF OwnersKnow
<1>5. desk.mapped \cup desk.left \cup desk.early \cup desk.range \subseteq AnnotPages
  <2>1. desk.mapped \cup desk.left \cup desk.early \subseteq AnnotPages /\ desk.range \in Ranges
    BY <1>1 DEF Desks
  <2>2. desk.range \subseteq AnnotPages
    BY <2>1 DEF Ranges, InRange
  <2> QED
    BY <2>1, <2>2
<1> QED
  BY <1>1, <1>2, <1>3, <1>4, <1>5 DEF NotesTypeOK

\* The invariant says that notes are kept and that popups follow them.
LEMMA NotesFollow == NotesInvariant => NotesAndPopupsAgree
<1> SUFFICES ASSUME NotesInvariant PROVE NotesAndPopupsAgree
  OBVIOUS
<1>1. /\ Shape \in Things /\ OwnersKnow(Shape) /\ ListsHold(Shape, listed)
      /\ ListsComplete(Shape, listed) /\ AllStored(Shape) /\ AllTyped(Shape)
      /\ AllPlaced(Shape) /\ SeenWithPage(Shape) /\ Ordered(Shape, listed)
  BY NotesHold DEF Good, Ordered
<1>2. \A i \in DOMAIN popups :
        popups[i].text # TextOf(annots[popups[i].of].contents) => desk.focus = i
  BY <1>1, ShapeHas DEF AllTyped, TypedIs
<1>3. ASSUME NEW a \in DOMAIN annots, annots[a].doc = poppler.number,
             ~poppler.notes[annots[a].of].gone
      PROVE  /\ annots[a].heard => annots[a].contents = poppler.notes[annots[a].of].contents
             /\ \A s \in Settings :
                  \/ annots[a].settings[s] = poppler.notes[annots[a].of].settings[s]
                  \/ s = "open" /\ ~poppler.notes[annots[a].of].popup
                  \/ s = "label" /\ poppler.notes[annots[a].of].settings[s] = Nobody
  <2>1. StoredIs(Shape, a)
    BY <1>1, ShapeHas DEF AllStored
  <2> QED
    BY <2>1, <1>3, ShapeHas DEF StoredIs, IsCurrent
<1>4. ASSUME NEW p \in AnnotPages, NEW a \in Range(listed[p]), NEW b \in Range(listed[p]),
             annots[a].name = annots[b].name
      PROVE  a = b
  <2>1. /\ a \in DOMAIN annots /\ annots[a].page = p /\ annots[a].doc = poppler.number
        /\ b \in DOMAIN annots /\ annots[b].page = p /\ annots[b].doc = poppler.number
    BY <1>1, ShapeHas DEF ListsHold, IsCurrent, Range
  <2>2. /\ a \in DOMAIN Shape.annots /\ IsCurrent(Shape, a)
        /\ b \in DOMAIN Shape.annots /\ IsCurrent(Shape, b)
        /\ Shape.annots[a].page = Shape.annots[b].page
        /\ Shape.annots[a].name = Shape.annots[b].name
    BY <2>1, <1>4, ShapeHas DEF IsCurrent
  <2> QED
    BY <2>2, <1>1, NamesDiffer
<1>5. ASSUME NEW p \in AnnotPages, p \in desk.mapped \ desk.early
      PROVE  Len(Known(p)) <= Len(listed[p])
  BY <1>5, <1>1, ShapeHas DEF ListsComplete, Known
<1>6. NotesAreKept
  BY <1>2, <1>3, <1>4, <1>5 DEF NotesAreKept
<1>7. ASSUME NEW i \in DOMAIN popups
      PROVE  /\ ~desk.pending =>
                  popups[i].y - popups[i].parent = ToView(desk, popups[i].page, popups[i].place)
             /\ ~popups[i].missed =>
                  popups[i].at = popups[i].last \/ popups[i].at = Clamp(popups[i].y, popups[i].parent)
             /\ popups[i].title = annots[popups[i].made].settings.label
             /\ popups[i].shown => popups[i].visible
  <2>1. PlacedIs(Shape, i)
    BY <1>1, ShapeHas DEF AllPlaced
  <2> QED
    BY <2>1, ShapeHas DEF PlacedIs
<1>8. ASSUME NEW i \in DOMAIN popups, NEW a \in DOMAIN annots,
             annots[a].doc = poppler.number, annots[a].window = i
      PROVE  popups[i].of = a /\ (popups[i].shown => popups[i].page \in desk.range \cup desk.left)
  <2>1. i # 0
    <3>1. DOMAIN popups = 1 .. Len(popups) /\ Len(popups) \in Nat
      BY NotesHold
    <3> QED
      BY <3>1
  <2>2. popups[i].of = a
    BY <1>8, <2>1, <1>1, ShapeHas DEF OwnersKnow, IsCurrent
  <2>3. popups[i].page = annots[a].page
    BY <2>2, <1>1, ShapeHas DEF OwnersKnow
  <2>4. popups[i].shown => annots[a].page \in desk.range \cup desk.left
    BY <1>8, <2>1, <1>1, ShapeHas DEF SeenWithPage, IsCurrent
  <2> QED
    BY <2>2, <2>3, <2>4
<1>9. PopupsFollowTheirNotes
  BY <1>7, <1>8 DEF PopupsFollowTheirNotes
<1> QED
  BY <1>6, <1>9 DEF NotesAndPopupsAgree

\* The invariant is inductive.
LEMMA NotesInvariantHolds == NotesSpec => []NotesInvariant
BY NotesBegin, NotesStep, PTL DEF NotesSpec

\* At every step of the view and of the document the annotations of the file, the objects
\* made for them, the lists of the pages and the popup windows are what their types say
\* (ev-view.c, ev-annotation-window.c and the annotations of ev-poppler.cc).
THEOREM NotesTypeCorrect == NotesSpec => []NotesTypeOK
BY NotesInvariantHolds, NotesTyped, PTL

\* What the user types, sets or creates is in the document (but the text of a popup that
\* the code made for another object), no two objects of a page have one name, and a popup
\* stands where its note is, says whose it is and belongs to the one object that knows it;
\* it is not seen without its page, unless that was passed before its annotations were
\* known: whatever calls, readings, jobs and reloads follow one another, in a file with any
\* notes on any number of pages.
THEOREM NotesAlwaysAgree == NotesSpec => []NotesAndPopupsAgree
BY NotesInvariantHolds, NotesFollow, PTL

=============================================================================
