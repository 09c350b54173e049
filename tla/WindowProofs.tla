------------------------------ MODULE WindowProofs ------------------------------
(***************************************************************************)
(* Theorems about EvHistory for documents of any length, any limit of the  *)
(* list and any number of documents: its types, that the current entry is  *)
(* one of the list and no entry outlives its document, what the buttons    *)
(* say, and that the history implements BrowserHistory.                    *)
(*                                                                         *)
(* Theorem about EvWindowModes for documents of any length and any number  *)
(* of calls: the mode of the window, its bars and the metadata are as the  *)
(* user asked, in whatever order the window manager answers.               *)
(*                                                                         *)
(* Theorems about EvEditing for any number of calls and of saves: its      *)
(* types, and that what the user writes into fields and annotations is     *)
(* kept: it reaches the document, and a document that is not as it was     *)
(* loaded or last saved says so.                                           *)
(***************************************************************************)
EXTENDS EvHistory, EvWindowModes, EvEditing, SequenceTheorems, WellFoundedInduction, TLAPS

-----------------------------------------------------------------------------
(* The history: the list.                                                  *)

\* ev_history_prune keeps the end of the list.
LEMMA PruneKeepsEnd ==
  ASSUME NEW list \in Seq(Link)
  PROVE  LET pruned == Prune(list)
         IN /\ pruned \in Seq(Link)
            /\ Len(pruned) = IF Len(list) <= MaxLength THEN Len(list) ELSE MaxLength
            /\ \A i \in 1 .. Len(pruned) : pruned[i] = list[i + (Len(list) - Len(pruned))]
<1> DEFINE pruned == Prune(list)
<1>1. Len(list) \in Nat /\ MaxLength \in Nat \ {0}
  BY HistoryAssumption
<1>2. CASE Len(list) <= MaxLength
  <2>1. pruned = list
    BY <1>2 DEF Prune
  <2> HIDE DEF pruned
  <2>2. \A i \in 1 .. Len(list) : i + (Len(list) - Len(list)) = i
    BY <1>1
  <2>3. /\ pruned \in Seq(Link) /\ Len(pruned) = Len(list)
        /\ \A i \in 1 .. Len(pruned) : pruned[i] = list[i + (Len(list) - Len(pruned))]
    BY <2>1, <2>2
  <2> QED
    BY <1>2, <2>3 DEF pruned
<1>3. CASE ~(Len(list) <= MaxLength)
  <2> DEFINE first == Len(list) - MaxLength + 1
  <2>1. pruned = SubSeq(list, first, Len(list))
    BY <1>3 DEF Prune
  <2>2. first \in Int /\ Len(list) \in Int /\ first <= Len(list)
        /\ Len(list) - first + 1 = MaxLength /\ first \in 1 .. Len(list)
    BY <1>1, <1>3
  <2>3. \A i \in first .. Len(list) : list[i] \in Link
    BY <2>2, ElementOfSeq
  <2> HIDE DEF first
  <2>4. /\ SubSeq(list, first, Len(list)) \in Seq(Link)
        /\ Len(SubSeq(list, first, Len(list))) =
             IF first <= Len(list) THEN Len(list) - first + 1 ELSE 0
        /\ \A i \in 1 .. (Len(list) - first + 1) :
             SubSeq(list, first, Len(list))[i] = list[first + i - 1]
    BY <2>2, <2>3, SubSeqProperties
  <2> HIDE DEF pruned
  <2>5. pruned \in Seq(Link) /\ Len(pruned) = MaxLength
        /\ \A i \in 1 .. MaxLength : pruned[i] = list[first + i - 1]
    BY <2>1, <2>2, <2>4
  <2>6. \A i \in 1 .. MaxLength : first + i - 1 = i + (Len(list) - MaxLength)
    BY <1>1 DEF first
  <2>7. \A i \in 1 .. Len(pruned) : pruned[i] = list[i + (Len(list) - Len(pruned))]
    BY <2>5, <2>6
  <2> QED
    BY <1>3, <2>5, <2>7 DEF pruned
<1> QED
  BY <1>2, <1>3

\* The entries up to the current one.
LEMMA UpTo ==
  ASSUME NEW list \in Seq(Link), NEW c \in 0 .. Len(list)
  PROVE  /\ SubSeq(list, 1, c) \in Seq(Link)
         /\ Len(SubSeq(list, 1, c)) = c
         /\ \A i \in 1 .. c : SubSeq(list, 1, c)[i] = list[i]
<1>1. 1 \in Int /\ c \in Int /\ \A i \in 1 .. c : list[i] \in Link
  BY ElementOfSeq
<1>2. /\ SubSeq(list, 1, c) \in Seq(Link)
      /\ Len(SubSeq(list, 1, c)) = IF 1 <= c THEN c - 1 + 1 ELSE 0
      /\ \A i \in 1 .. (c - 1 + 1) : SubSeq(list, 1, c)[i] = list[1 + i - 1]
  BY <1>1, SubSeqProperties
<1> QED
  BY <1>2

\* The list that ev_history_add_link makes.
Grown(list, c, link) == Prune(Append(SubSeq(list, 1, c), link))

\* Adding a link keeps the entries up to the current one, the oldest excepted
\* when there would be too many.
LEMMA GrownList ==
  ASSUME NEW list \in Seq(Link), NEW c \in 0 .. Len(list), NEW link \in Link
  PROVE  LET grown == Grown(list, c, link)
             n == Len(grown)
         IN /\ grown \in Seq(Link)
            /\ n = IF c < MaxLength THEN c + 1 ELSE MaxLength
            /\ n \in 1 .. MaxLength
            /\ grown[n] = link
            /\ \A i \in 1 .. (n - 1) : grown[i] = list[i + (c + 1 - n)]
<1> DEFINE kept == SubSeq(list, 1, c)
           long == Append(kept, link)
           grown == Grown(list, c, link)
           n == Len(grown)
<1>1. kept \in Seq(Link) /\ Len(kept) = c /\ \A i \in 1 .. c : kept[i] = list[i]
  BY UpTo
<1> HIDE DEF kept
<1>2. /\ long \in Seq(Link) /\ Len(long) = c + 1 /\ long[c + 1] = link
      /\ \A i \in 1 .. c : long[i] = list[i]
  BY <1>1, AppendProperties
<1> HIDE DEF long
<1>3. /\ grown \in Seq(Link)
      /\ n = IF c + 1 <= MaxLength THEN c + 1 ELSE MaxLength
      /\ \A i \in 1 .. n : grown[i] = long[i + (c + 1 - n)]
  <2>1. grown = Prune(long)
    BY DEF Grown, long, kept
  <2>2. LET pruned == Prune(long)
        IN /\ pruned \in Seq(Link)
           /\ Len(pruned) = IF Len(long) <= MaxLength THEN Len(long) ELSE MaxLength
           /\ \A i \in 1 .. Len(pruned) : pruned[i] = long[i + (Len(long) - Len(pruned))]
    BY <1>2, PruneKeepsEnd
  <2>3. /\ grown \in Seq(Link)
        /\ Len(grown) = IF Len(long) <= MaxLength THEN Len(long) ELSE MaxLength
        /\ \A i \in 1 .. Len(grown) : grown[i] = long[i + (Len(long) - Len(grown))]
    BY <2>1, <2>2, Zenon
  <2> HIDE DEF grown
  <2>4. Len(long) = c + 1
    BY <1>2
  <2> QED
    BY <2>3, <2>4, SMTT(60)
<1> HIDE DEF grown
<1>4. MaxLength \in Nat /\ MaxLength # 0 /\ c \in Nat
  BY HistoryAssumption
<1>5. n \in 1 .. MaxLength /\ n = IF c < MaxLength THEN c + 1 ELSE MaxLength
  BY <1>3, <1>4
<1> HIDE DEF n
<1>6. n + (c + 1 - n) = c + 1 /\ \A i \in 1 .. (n - 1) : i + (c + 1 - n) \in 1 .. c
  BY <1>4, <1>5
<1>7. grown[n] = link
  <2>1. n \in 1 .. n
    BY <1>4, <1>5
  <2>2. grown[n] = long[n + (c + 1 - n)]
    BY <1>3, <2>1
  <2> QED
    BY <1>2, <1>6, <2>2
<1>8. ASSUME NEW i \in 1 .. (n - 1)
      PROVE  grown[i] = list[i + (c + 1 - n)]
  <2>1. i \in 1 .. n /\ i + (c + 1 - n) \in 1 .. c
    BY <1>5, <1>6
  <2> QED
    BY <1>2, <1>3, <2>1
<1> QED
  BY <1>3, <1>5, <1>7, <1>8 DEF n, grown

-----------------------------------------------------------------------------
(* The history record.                                                     *)

HistoryType == [list : Seq(Link), current : 0 .. MaxLength, frozen : Nat,
                back : BOOLEAN, forward : BOOLEAN]

\* What is always true of the history h when the links of D can be in it: current
\* is an entry, the entries are of D, the buttons fit the list.
Good(h, D) ==
  /\ h \in HistoryType
  /\ Len(h.list) <= MaxLength
  /\ h.current \in (IF h.list = << >> THEN {0} ELSE 1 .. Len(h.list))
  /\ \A i \in 1 .. Len(h.list) : h.list[i] \in D
  /\ h.list # << >> => /\ h.back <=> h.current > 1
                       /\ h.forward <=> h.current < Len(h.list)

\* The current entry is one of the list, if any is.
LEMMA CurrentInList ==
  ASSUME NEW D, NEW h, Good(h, D)
  PROVE  h.list \in Seq(Link) /\ h.current \in 0 .. Len(h.list)
<1>1. h.list = << >> => Len(h.list) = 0
  OBVIOUS
<1> QED
  BY <1>1 DEF Good, HistoryType

\* ev_history_add_link, and all that calls it, keeps the history good.
LEMMA AddLinkGood ==
  ASSUME NEW D, NEW h, Good(h, D), NEW link \in Link, link \in D
  PROVE  /\ Good(AddLink(h, link), D)
         /\ AddLink(h, link).frozen = h.frozen
         /\ h.frozen = 0 =>
              LET list == AddLink(h, link).list
                  n == AddLink(h, link).current
              IN /\ list = Grown(h.list, h.current, link)
                 /\ list \in Seq(Link) /\ Len(list) = n /\ n \in 1 .. MaxLength
                 /\ n = IF h.current < MaxLength THEN h.current + 1 ELSE MaxLength
                 /\ list[n] = link
                 /\ \A i \in 1 .. (n - 1) : list[i] = h.list[i + (h.current + 1 - n)]
<1>1. /\ h.list \in Seq(Link) /\ h.current \in 0 .. Len(h.list) /\ h.frozen \in Nat
      /\ h \in HistoryType
  <2>1. h \in HistoryType /\ h.list \in Seq(Link) /\ Len(h.list) \in Nat
    BY DEF Good, HistoryType
  <2>2. h.list = << >> => Len(h.list) = 0
    OBVIOUS
  <2> QED
    BY <2>1, <2>2 DEF Good, HistoryType
<1>2. CASE h.frozen > 0
  BY <1>1, <1>2 DEF AddLink
<1>3. CASE h.frozen = 0
  <2> DEFINE list == Grown(h.list, h.current, link)
             n == Len(list)
             k == [h EXCEPT !.list = list, !.current = n]
  <2>1. AddLink(h, link) = [k EXCEPT !.back = CanGoBack(k), !.forward = CanGoForward(k)]
    BY <1>3 DEF AddLink, Changed, Grown
  <2>2. /\ list \in Seq(Link) /\ n \in 1 .. MaxLength /\ list[n] = link
        /\ \A i \in 1 .. (n - 1) : list[i] = h.list[i + (h.current + 1 - n)]
        /\ n = IF h.current < MaxLength THEN h.current + 1 ELSE MaxLength
    BY <1>1, GrownList
  <2>3. n \in Nat /\ MaxLength \in Nat /\ n <= MaxLength /\ n >= 1
    BY <2>2, HistoryAssumption
  <2>4. \A i \in 1 .. n : list[i] \in D
    <3> SUFFICES ASSUME NEW i \in 1 .. n PROVE list[i] \in D
      OBVIOUS
    <3> HIDE DEF list, n
    <3>1. CASE i = n
      BY <2>2, <3>1
    <3>2. CASE i # n
      <4> DEFINE c == h.current
                 m == Len(h.list)
      <4>2. c \in Nat /\ m \in Nat /\ c <= m /\ n <= c + 1
        BY <1>1, <2>2, <2>3
      <4> HIDE DEF c, m
      <4>3. i \in 1 .. (n - 1) /\ i + (c + 1 - n) \in 1 .. m
        BY <2>3, <3>2, <4>2
      <4>1. i \in 1 .. (n - 1) /\ i + (h.current + 1 - n) \in 1 .. Len(h.list)
        BY <4>3 DEF c, m
      <4> QED
        BY <2>2, <4>1 DEF Good
    <3> QED
      BY <3>1, <3>2
  <2>5. list # << >>
    <3>1. list = << >> => Len(list) = 0
      OBVIOUS
    <3> QED
      BY <2>3, <3>1
  <2> HIDE DEF list, n
  <2>6. /\ k \in HistoryType /\ k.list = list /\ k.current = n /\ k.frozen = 0
    <3>1. list \in Seq(Link) /\ n \in 0 .. MaxLength
      BY <2>2, <2>3
    <3> QED
      BY <1>1, <1>3, <3>1 DEF HistoryType
  <2>7. CanGoBack(k) \in BOOLEAN /\ CanGoForward(k) \in BOOLEAN
        /\ (CanGoBack(k) <=> n > 1) /\ (CanGoForward(k) <=> n < Len(list))
    BY <2>3, <2>6 DEF CanGoBack, CanGoForward
  <2> DEFINE g == AddLink(h, link)
  <2>8. /\ g \in HistoryType /\ g.list = list /\ g.current = n /\ g.frozen = 0
        /\ g.back = CanGoBack(k) /\ g.forward = CanGoForward(k)
    <3> HIDE DEF k
    <3> QED
      BY <2>1, <2>6, <2>7 DEF HistoryType
  <2> HIDE DEF g, k
  <2>9. Good(g, D)
    <3>1. n \in 1 .. Len(list) /\ Len(list) <= MaxLength
      BY <2>3 DEF n
    <3> QED
      BY <2>4, <2>5, <2>7, <2>8, <3>1 DEF Good, n
  <2> QED
    <3>1. g.list = Grown(h.list, h.current, link) /\ Len(list) = n
      BY <2>8 DEF list, n
    <3> QED
      BY <1>3, <2>2, <2>8, <2>9, <3>1 DEF g
<1> QED
  BY <1>1, <1>2, <1>3

-----------------------------------------------------------------------------
(* The document model and the handlers of the history.                     *)

\* The page of the model is a page of its document.
ModelGood(m) ==
  /\ m \in [document : 0 .. MaxDocs, n_pages : 0 .. NPages, page : -1 .. (NPages - 1)]
  /\ m.document = 0 => m.n_pages = 0 /\ m.page = -1
  /\ m.document # 0 => m.n_pages \in 1 .. NPages /\ m.page \in 0 .. (m.n_pages - 1)

\* Setting the page of the link at the position keeps a history sound.
LEMMA SetPageGood ==
  ASSUME NEW m, ModelGood(m), NEW page
  PROVE  ModelGood(SetPage(m, page)) /\ SetPage(m, page).document = m.document
<1>1. CASE page \in 0 .. (m.n_pages - 1)
  <2>1. m.document # 0 /\ page \in -1 .. (NPages - 1)
    BY <1>1, HistoryAssumption DEF ModelGood
  <2> QED
    BY <1>1, <2>1, HistoryAssumption DEF ModelGood, SetPage
<1>2. CASE page \notin 0 .. (m.n_pages - 1)
  BY <1>2 DEF SetPage
<1> QED
  BY <1>1, <1>2

\* The links that lead to a page of the document, or to no page.
LinksOf(m) == {l \in Link : l.doc = m.document /\ l.page < m.n_pages}

\* A link that the history makes for the page of the model is one.
LEMMA PageIsLinkOf ==
  ASSUME NEW m, ModelGood(m), m.document # 0
  PROVE  /\ PageLink(m.page, m.document) \in LinksOf(m)
         /\ PageLink(m.page, m.document).page = m.page
<1>1. m.page \in -1 .. (NPages - 1) /\ m.document \in 1 .. MaxDocs /\ m.page < m.n_pages
  BY HistoryAssumption DEF ModelGood
<1> QED
  BY <1>1 DEF PageLink, Link, LinksOf

\* ev_history_add_link_for_page
LEMMA AddPageGood ==
  ASSUME NEW D, NEW h, Good(h, D), NEW m, ModelGood(m),
         m.document # 0 => PageLink(m.page, m.document) \in D
  PROVE  Good(AddLinkForPage(h, m), D) /\ AddLinkForPage(h, m).frozen = h.frozen
<1>1. CASE h.frozen > 0 \/ CurrentPage(h) = m.page \/ m.document = 0
  BY <1>1 DEF AddLinkForPage
<1>2. CASE ~(h.frozen > 0 \/ CurrentPage(h) = m.page \/ m.document = 0)
  <2> DEFINE link == PageLink(m.page, m.document)
  <2>2. link \in Link /\ link \in D
    BY <1>2, PageIsLinkOf DEF LinksOf
  <2>3. AddLinkForPage(h, m) = AddLink(h, link)
    BY <1>2 DEF AddLinkForPage
  <2> HIDE DEF link
  <2> QED
    BY <2>2, <2>3, AddLinkGood
<1> QED
  BY <1>1, <1>2

\* ev_history_clear leaves no entry, of whatever document.
LEMMA ClearGood ==
  ASSUME NEW C, NEW D, NEW h, Good(h, C)
  PROVE  LET k == Clear(h)
         IN Good(k, D) /\ k.list = << >> /\ k.current = 0 /\ k.frozen = h.frozen
<1> DEFINE k == Clear(h)
<1>1. k = [h EXCEPT !.list = << >>, !.current = 0]
  BY DEF Clear
<1>2. /\ k \in HistoryType /\ k.list = << >> /\ k.current = 0 /\ k.frozen = h.frozen
  <2>1. << >> \in Seq(Link) /\ 0 \in 0 .. MaxLength
    BY HistoryAssumption
  <2> HIDE DEF k
  <2> QED
    BY <1>1, <2>1 DEF Good, HistoryType
<1> HIDE DEF k
<1>3. Good(k, D)
  <2>1. Len(k.list) = 0
    BY <1>2
  <2> QED
    BY <1>2, <2>1, HistoryAssumption DEF Good
<1> QED
  BY <1>2, <1>3 DEF k

\* document_changed_cb leaves entries of the new document only.
LEMMA DocumentChangedGood ==
  ASSUME NEW D, NEW h, Good(h, D), NEW m, ModelGood(m)
  PROVE  /\ Good(DocumentChanged(h, m), LinksOf(m))
         /\ DocumentChanged(h, m).frozen = h.frozen
         /\ h.frozen > 0 => DocumentChanged(h, m).list = << >>
         /\ h.frozen = 0 /\ m.document # 0 => DocumentChanged(h, m).list # << >>
<1> DEFINE k == Clear(h)
<1>3. Good(k, LinksOf(m)) /\ k.list = << >> /\ k.frozen = h.frozen
  BY ClearGood
<1> HIDE DEF k
<1>4. DocumentChanged(h, m) = AddLinkForPage(k, m)
  BY DEF DocumentChanged, k
<1>5. ASSUME h.frozen = 0, m.document # 0
      PROVE  AddLinkForPage(k, m).list # << >>
  <2> DEFINE link == PageLink(m.page, m.document)
  <2>1. link \in Link /\ link \in LinksOf(m)
    BY <1>5, PageIsLinkOf DEF LinksOf
  <2>2. k.current = 0 /\ CurrentPage(k) = -1
    BY <1>3 DEF Good, CurrentPage
  <2>3. CurrentPage(k) # m.page
    BY <1>5, <2>2 DEF ModelGood
  <2>4. AddLinkForPage(k, m) = AddLink(k, link)
    BY <1>3, <1>5, <2>3 DEF AddLinkForPage
  <2> DEFINE list == AddLink(k, link).list
  <2>5. Len(list) \in 1 .. MaxLength
    <3> HIDE DEF link
    <3> QED
      BY <1>3, <1>5, <2>1, AddLinkGood
  <2>6. list # << >>
    <3> HIDE DEF list
    <3> QED
      BY <2>5, HistoryAssumption
  <2> QED
    BY <2>4, <2>6
<1> QED
  BY <1>3, <1>4, <1>5, AddPageGood, PageIsLinkOf DEF AddLinkForPage

\* ev_history_activate_current_link: the link is followed while the history is
\* frozen and its handler blocked, so that only the buttons change.
LEMMA ActivateIsChanged ==
  ASSUME NEW h \in HistoryType, h.frozen = 0
  PROVE  ActivateCurrentLink(h) = Changed(h)
<1> DEFINE k == Freeze(h)
<1>1. k = [h EXCEPT !.frozen = 1] /\ k.frozen = 1
  BY DEF Freeze, HistoryType
<1> HIDE DEF k
<1>2. FollowLink(k, h.list[h.current], TRUE) = k
  BY <1>1 DEF FollowLink, PageHandlers, AddLink
<1>3. Thaw(k) = h
  <2> DEFINE t == Thaw(k)
  <2>1. k \in HistoryType
    BY <1>1 DEF HistoryType
  <2>4. t = [k EXCEPT !.frozen = 0]
    BY <1>1 DEF Thaw
  <2> HIDE DEF t
  <2>2. /\ t \in HistoryType /\ t.list = h.list /\ t.current = h.current
        /\ t.frozen = h.frozen /\ t.back = h.back /\ t.forward = h.forward
    BY <1>1, <2>1, <2>4 DEF HistoryType
  <2>3. t = h
    BY <2>2 DEF HistoryType
  <2> QED
    BY <2>3 DEF t
<1> QED
  BY <1>2, <1>3 DEF ActivateCurrentLink, k

\* Another entry becomes the current one.
LEMMA MoveGood ==
  ASSUME NEW D, NEW h, Good(h, D), h.frozen = 0, NEW i \in 1 .. Len(h.list)
  PROVE  LET moved == ActivateCurrentLink([h EXCEPT !.current = i])
         IN /\ Good(moved, D)
            /\ moved.frozen = 0 /\ moved.list = h.list /\ moved.current = i
<1> DEFINE k == [h EXCEPT !.current = i]
           moved == ActivateCurrentLink(k)
<1>1. Len(h.list) \in Nat /\ Len(h.list) <= MaxLength /\ MaxLength \in Nat
      /\ h.list \in Seq(Link) /\ h.list # << >>
  <2>1. h.list \in Seq(Link)
    BY DEF Good, HistoryType
  <2>2. h.list = << >> => Len(h.list) = 0
    OBVIOUS
  <2> QED
    BY <2>1, <2>2, HistoryAssumption DEF Good
<1>2. k \in HistoryType /\ k.list = h.list /\ k.current = i /\ k.frozen = 0
  BY <1>1 DEF Good, HistoryType
<1> HIDE DEF k
<1>3. moved = [k EXCEPT !.back = CanGoBack(k), !.forward = CanGoForward(k)]
  BY <1>2, ActivateIsChanged DEF Changed
<1>4. CanGoBack(k) \in BOOLEAN /\ CanGoForward(k) \in BOOLEAN
      /\ (CanGoBack(k) <=> i > 1) /\ (CanGoForward(k) <=> i < Len(h.list))
  BY <1>1, <1>2 DEF CanGoBack, CanGoForward
<1> HIDE DEF moved
<1>5. /\ moved \in HistoryType /\ moved.list = h.list /\ moved.current = i
      /\ moved.frozen = 0 /\ moved.back = CanGoBack(k) /\ moved.forward = CanGoForward(k)
  BY <1>2, <1>3, <1>4 DEF HistoryType
<1>6. Good(moved, D)
  BY <1>1, <1>4, <1>5 DEF Good
<1> QED
  BY <1>5, <1>6 DEF moved, k

\* g_list_find_custom finds the first of the entries that are equal.
LEMMA OldestIsFirst ==
  ASSUME NEW S, S \subseteq Nat, S # {}
  PROVE  Oldest(S) \in S /\ \A k \in S : Oldest(S) <= k
<1> DEFINE R == OpToRel(<, Nat)
<1>3. \A x, y \in Nat : y < x => <<y, x>> \in R
  BY DEF OpToRel
<1>4. IsWellFoundedOn(R, Nat)
  BY NatLessThanWellFounded
<1> HIDE DEF R
<1>1. PICK x \in S : \A y \in S : ~(<<y, x>> \in R)
  BY <1>4, WFMin
<1>2. ASSUME NEW y \in S
      PROVE  x <= y
  <2>1. x \in Nat /\ y \in Nat
    OBVIOUS
  <2>2. ~(<<y, x>> \in R)
    BY <1>1
  <2>3. ~(y < x)
    BY <1>3, <2>1, <2>2
  <2> QED
    BY <2>1, <2>3
<1> QED
  BY <1>2 DEF Oldest

\* Following a link adds it, and the page that it turns to adds nothing: it is
\* the page of the current entry by then.
LEMMA FollowIsAdd ==
  ASSUME NEW D, NEW h, Good(h, D), NEW link \in Link, link \in D
  PROVE  FollowLink(h, link, FALSE) = AddLink(h, link)
<1> DEFINE g == AddLink(h, link)
           n == SetPage(model, link.page)
<1>1. FollowLink(h, link, FALSE) =
        IF n.page = model.page THEN g ELSE PageChanged(g, model.page, n)
  BY DEF FollowLink, PageHandlers
<1>2. n.page # model.page => n.page = link.page
  BY DEF SetPage
<1>3. CASE h.frozen > 0
  <2>1. g = h
    BY <1>3 DEF AddLink
  <2> HIDE DEF g, n
  <2> QED
    BY <1>1, <1>3, <2>1 DEF PageChanged, AddLinkForPage, g
<1>4. CASE ~(h.frozen > 0)
  <2>1. h.list \in Seq(Link) /\ h.current \in 0 .. Len(h.list)
    <3>1. h.list = << >> => Len(h.list) = 0
      OBVIOUS
    <3> QED
      BY <3>1 DEF Good, HistoryType
  <2> DEFINE list == Grown(h.list, h.current, link)
             k == [h EXCEPT !.list = list, !.current = Len(list)]
  <2>2. list[Len(list)] = link /\ Len(list) \in 1 .. MaxLength
    BY <2>1, GrownList
  <2>3. g = [k EXCEPT !.back = CanGoBack(k), !.forward = CanGoForward(k)]
    BY <1>4 DEF AddLink, Changed, Grown
  <2>4. k.list = list /\ k.current = Len(list)
    BY DEF Good, HistoryType
  <2>5. g.list = list /\ g.current = Len(list)
    <3>2. list \in Seq(Link) /\ Len(list) \in Int
      BY <2>1, GrownList
    <3> HIDE DEF list
    <3>1. k \in [list : Seq(Link), current : Int, frozen : Nat, back : BOOLEAN, forward : BOOLEAN]
      BY <3>2 DEF Good, HistoryType
    <3> HIDE DEF k, g
    <3> QED
      BY <2>3, <2>4, <3>1
  <2> HIDE DEF list, k, g, n
  <2>6. CurrentPage(g) = link.page
    BY <2>2, <2>5, HistoryAssumption DEF CurrentPage
  <2>7. n.page # model.page => AddLinkForPage(g, n) = g
    BY <1>2, <2>6 DEF AddLinkForPage
  <2> QED
    BY <1>1, <2>7 DEF PageChanged, g
<1> QED
  BY <1>3, <1>4

-----------------------------------------------------------------------------
(* The steps.                                                              *)

\* The history and the model are sound, and the history is frozen while the find bar is
\* shown.
HistoryInvariant ==
  /\ Good(history, LinksOf(model))
  /\ ModelGood(model)
  /\ history.frozen = (IF find_bar THEN 1 ELSE 0)
  /\ find_bar \in BOOLEAN /\ action \in BOOLEAN /\ crashed \in BOOLEAN
  /\ menu \subseteq Link

\* What a step can do to the history: nothing but freeze and thaw it, add a link
\* whose page is then shown, make an entry the current one whose page is then
\* shown, or begin anew with another document.
Rests ==
  /\ history' = [history EXCEPT !.frozen = history'.frozen] /\ history'.frozen \in Nat
  /\ model'.document = model.document /\ model'.n_pages = model.n_pages
Adds ==
  \E link \in LinksOf(model) :
    /\ history.frozen = 0 /\ history' = AddLink(history, link)
    /\ model'.document = model.document /\ model'.n_pages = model.n_pages
    /\ link.page \in {-1, model'.page}
Moves ==
  \E i \in 1 .. Len(history.list) :
    /\ history.frozen = 0
    /\ history' = ActivateCurrentLink([history EXCEPT !.current = i])
    /\ model'.document = model.document /\ model'.n_pages = model.n_pages
    /\ history.list[i].page \in {-1, model'.page}
Renews ==
  /\ model'.document # model.document /\ model'.document # 0
  /\ \E h : /\ Good(h, Link) /\ h.frozen = history.frozen
            /\ history' = DocumentChanged(h, model')

\* A page that a link of the document leads to is shown, if there is one.
LEMMA SetPageShows ==
  ASSUME ModelGood(model), NEW link \in LinksOf(model), model' = SetPage(model, link.page)
  PROVE  link.page \in {-1, model'.page}
<1>1. link.page \in -1 .. (NPages - 1) /\ link.page < model.n_pages
  BY DEF LinksOf, Link
<1>2. model.n_pages \in Nat
  BY HistoryAssumption DEF ModelGood
<1>3. link.page = -1 \/ link.page \in 0 .. (model.n_pages - 1)
  BY <1>1, <1>2, HistoryAssumption
<1>4. link.page \in 0 .. (model.n_pages - 1) => model'.page = link.page
  BY DEF SetPage, ModelGood
<1> QED
  BY <1>3, <1>4

\* The links of a history are links.
LEMMA LinksAreLinks ==
  ASSUME HistoryInvariant
  PROVE  /\ history \in HistoryType /\ history.frozen \in Nat
         /\ \A i \in 1 .. Len(history.list) : history.list[i] \in LinksOf(model)
         /\ Good(history, Link)
         /\ LinksOf(model) \subseteq Link
BY DEF HistoryInvariant, Good, HistoryType, LinksOf

\* Activating a link of the history moves to it.
LEMMA ActivateMoves ==
  ASSUME HistoryInvariant, history.frozen = 0, NEW i \in 1 .. Len(history.list), Activate(i)
  PROVE  Moves /\ ModelGood(model)' /\ UNCHANGED <<find_bar, crashed>>
           /\ action' \in BOOLEAN /\ history'.frozen = history.frozen
<1>1. history.list[i] \in LinksOf(model)
  BY LinksAreLinks
<1>2. /\ history' = ActivateCurrentLink([history EXCEPT !.current = i])
      /\ model' = SetPage(model, history.list[i].page)
      /\ UNCHANGED <<find_bar, crashed>>
      /\ action' \in BOOLEAN
  BY DEF Activate, FollowPage, Sensitive, HistoryInvariant
<1>3. ModelGood(model)' /\ model'.document = model.document /\ model'.n_pages = model.n_pages
  BY <1>2, SetPageGood DEF HistoryInvariant, SetPage, ModelGood
<1>4. history.list[i].page \in {-1, model'.page}
  BY <1>1, <1>2, SetPageShows DEF HistoryInvariant
<1>5. history'.frozen = 0
  BY <1>2, MoveGood, LinksAreLinks
<1> QED
  BY <1>2, <1>3, <1>4, <1>5 DEF Moves

\* Every step is of one of the four kinds, and keeps what goes with the history.
LEMMA StepKinds ==
  ASSUME HistoryInvariant, [Next]_vars
  PROVE  /\ Rests \/ Adds \/ Moves \/ Renews
         /\ ModelGood(model)'
         /\ history'.frozen = (IF find_bar' THEN 1 ELSE 0)
         /\ find_bar' \in BOOLEAN /\ action' \in BOOLEAN /\ crashed' \in BOOLEAN
         /\ menu' \subseteq Link
<1> DEFINE Rest == /\ find_bar' \in BOOLEAN /\ action' \in BOOLEAN /\ crashed' \in BOOLEAN
                   /\ menu' \subseteq Link
           Froze == history'.frozen = (IF find_bar' THEN 1 ELSE 0)
           Done == (Rests \/ Adds \/ Moves \/ Renews) /\ ModelGood(model)' /\ Froze /\ Rest
<1>1. /\ ModelGood(model) /\ history \in HistoryType
      /\ history.frozen = (IF find_bar THEN 1 ELSE 0)
      /\ find_bar \in BOOLEAN /\ action \in BOOLEAN /\ crashed \in BOOLEAN
      /\ menu \subseteq Link
      /\ \A i \in 1 .. Len(history.list) : history.list[i] \in LinksOf(model)
      /\ Good(history, Link) /\ Good(history, LinksOf(model))
  BY LinksAreLinks DEF HistoryInvariant
<1>2. history = [history EXCEPT !.frozen = history.frozen]
  BY <1>1 DEF HistoryType
<1>3. ASSUME UNCHANGED <<history, find_bar>>, Rest, ModelGood(model)',
             model'.document = model.document, model'.n_pages = model.n_pages
      PROVE  Done
  BY <1>1, <1>2, <1>3 DEF Rests, HistoryType
<1>4. \A h : Sensitive(h) \in BOOLEAN
  BY DEF Sensitive
<1>5. ASSUME NEW page, NEW link \in LinksOf(model), link.page = page,
             history' = AddLink(history, link), model' = SetPage(model, page), Rest,
             UNCHANGED find_bar
      PROVE  Done
  <2>1. ModelGood(model)' /\ model'.document = model.document /\ model'.n_pages = model.n_pages
    BY <1>1, <1>5, SetPageGood DEF SetPage, ModelGood
  <2>2. link.page \in {-1, model'.page}
    BY <1>1, <1>5, SetPageShows
  <2>3. link \in Link
    BY DEF LinksOf
  <2>4. history'.frozen = history.frozen
    BY <1>1, <1>5, <2>3, AddLinkGood
  <2>5. CASE history.frozen = 0
    BY <1>1, <1>5, <2>1, <2>2, <2>4, <2>5 DEF Adds
  <2>6. CASE history.frozen # 0
    <3>1. history.frozen > 0
      BY <1>1, <2>6 DEF HistoryType
    <3>2. UNCHANGED history
      BY <1>5, <3>1 DEF AddLink
    <3> QED
      BY <1>3, <1>5, <2>1, <3>2
  <2> QED
    BY <2>5, <2>6
<1>6. ASSUME NEW page \in -1 .. (NPages - 1), ClickLink(page)
      PROVE  Done
  <2> DEFINE link == [kind |-> "link", page |-> page, doc |-> model.document]
  <2>1. link \in LinksOf(model) /\ link.page = page
    BY <1>1, <1>6 DEF ClickLink, LinksOf, Link, ModelGood
  <2>2. /\ history' = FollowLink(history, link, FALSE) /\ model' = SetPage(model, page)
        /\ UNCHANGED <<find_bar, menu, crashed>> /\ action' \in BOOLEAN
    BY <1>1, <1>4, <1>6 DEF ClickLink, FollowPage
  <2> HIDE DEF link
  <2>3. history' = AddLink(history, link)
    BY <1>1, <2>1, <2>2, FollowIsAdd DEF LinksOf
  <2> QED
    BY <1>1, <1>5, <2>1, <2>2, <2>3
<1>7. ASSUME NEW page \in 0 .. (NPages - 1), TurnTo(page)
      PROVE  Done
  <2> DEFINE n == SetPage(model, page)
             link == PageLink(n.page, n.document)
  <2>1. /\ model.document # 0 /\ page \in 0 .. (model.n_pages - 1)
        /\ history' = PageHandlers(history, model, n, FALSE) /\ model' = n
        /\ UNCHANGED <<find_bar, menu, crashed>> /\ action' \in BOOLEAN
    BY <1>1, <1>4, <1>7 DEF TurnTo, FollowPage
  <2>2. ModelGood(n) /\ n.document = model.document /\ n.n_pages = model.n_pages /\ n.page = page
    BY <1>1, <2>1, SetPageGood DEF SetPage, ModelGood
  <2> HIDE DEF n
  <2>3. link \in LinksOf(n) /\ link.page = page /\ LinksOf(n) = LinksOf(model)
    BY <2>1, <2>2, PageIsLinkOf DEF LinksOf
  <2>4. history' = history \/ history' = AddLink(history, link)
    BY <2>1 DEF PageHandlers, PageChanged, AddLinkForPage
  <2> HIDE DEF link
  <2>5. CASE history' = history
    BY <1>1, <1>3, <2>1, <2>2, <2>5
  <2>6. CASE history' = AddLink(history, link)
    BY <1>1, <1>5, <2>1, <2>3, <2>6 DEF n
  <2> QED
    BY <2>4, <2>5, <2>6
<1>8. ASSUME NEW i \in 1 .. Len(history.list), history.frozen = 0, Activate(i), menu' \subseteq Link
      PROVE  Done
  BY <1>1, <1>8, ActivateMoves
<1>9. CASE GoBack
  <2>1. history.frozen = 0 /\ history.current - 1 \in 1 .. Len(history.list)
    BY <1>1, <1>9 DEF GoBack, CanGoBack, Good, HistoryType
  <2> QED
    BY <1>1, <1>8, <1>9, <2>1 DEF GoBack
<1>10. CASE GoForward
  <2>1. history.frozen = 0 /\ history.current + 1 \in 1 .. Len(history.list)
    BY <1>1, <1>10 DEF GoForward, CanGoForward, Good, HistoryType
  <2> QED
    BY <1>1, <1>8, <1>10, <2>1 DEF GoForward
<1>11. ASSUME NEW link \in Link, GoToLink(link)
       PROVE  Done
  <2>1. CASE history.frozen = 0 /\ EntriesLike(link) # {}
    <3>1. EntriesLike(link) \subseteq Nat /\ EntriesLike(link) \subseteq 1 .. Len(history.list)
      BY DEF EntriesLike
    <3>2. Oldest(EntriesLike(link)) \in 1 .. Len(history.list)
      BY <2>1, <3>1, OldestIsFirst
    <3> QED
      BY <1>8, <1>11, <2>1, <3>2 DEF GoToLink
  <2>2. CASE ~(history.frozen = 0 /\ EntriesLike(link) # {})
    <3>1. menu' = {} /\ UNCHANGED <<history, model, find_bar, action, crashed>>
      BY <1>11, <2>2 DEF GoToLink
    <3> QED
      BY <1>1, <1>3, <3>1
  <2> QED
    BY <2>1, <2>2
<1>12. CASE ShowBackMenu \/ ShowForwardMenu
  <2>1. CASE ShowBackMenu
    <3>1. menu' \subseteq Link
      <4>1. \A i \in 1 .. (history.current - 1) : history.list[i] \in Link
        BY <1>1 DEF Good, HistoryType
      <4> QED
        BY <2>1, <4>1 DEF ShowBackMenu
    <3> QED
      BY <1>1, <1>3, <2>1, <3>1 DEF ShowBackMenu
  <2>2. CASE ShowForwardMenu
    <3>1. menu' \subseteq Link
      <4>1. \A i \in (history.current + 1) .. Len(history.list) : history.list[i] \in Link
        BY <1>1 DEF Good, HistoryType
      <4> QED
        BY <1>1, <2>2, <4>1 DEF ShowForwardMenu
    <3> QED
      BY <1>1, <1>3, <2>2, <3>1 DEF ShowForwardMenu
  <2> QED
    BY <1>12, <2>1, <2>2
<1>13. CASE HideMenu
  BY <1>1, <1>3, <1>13 DEF HideMenu
<1>14. CASE ShowFindBar \/ CloseFindBar
  <2>1. ASSUME NEW old \in 0 .. 1, NEW new \in 0 .. 1, history.frozen = old,
               history' = [history EXCEPT !.frozen = new], find_bar' \in BOOLEAN, find_bar' <=> new = 1,
               UNCHANGED <<model, menu, crashed>>, action' \in BOOLEAN
        PROVE  Done
    <3>1. history'.frozen = new
      BY <1>1, <2>1 DEF HistoryType
    <3>2. Froze
      BY <2>1, <3>1
    <3>3. Rests
      BY <2>1, <3>1 DEF Rests
    <3> QED
      BY <1>1, <2>1, <3>2, <3>3
  <2>2. CASE ShowFindBar
    <3>1. history.frozen = 0 /\ history' = Freeze(history) /\ find_bar' = TRUE
      BY <1>1, <2>2 DEF ShowFindBar
    <3>2. history' = [history EXCEPT !.frozen = 1]
      BY <3>1 DEF Freeze
    <3> QED
      BY <1>4, <2>1, <2>2, <3>1, <3>2 DEF ShowFindBar
  <2>3. CASE CloseFindBar
    <3>1. history.frozen = 1 /\ history' = Thaw(history) /\ find_bar' = FALSE
      BY <1>1, <2>3 DEF CloseFindBar
    <3>2. history' = [history EXCEPT !.frozen = 0]
      BY <3>1 DEF Thaw
    <3>3. (find_bar' <=> 0 = 1) /\ action' \in BOOLEAN /\ UNCHANGED <<model, menu, crashed>>
      BY <1>4, <2>3, <3>1 DEF CloseFindBar
    <3>4. find_bar' \in BOOLEAN
      BY <3>1, Zenon
    <3>5. Done
      <4> HIDE DEF Done
      <4> QED
        BY <2>1, <3>1, <3>2, <3>3, <3>4
    <3> QED
      BY <3>5
  <2> QED
    BY <1>14, <2>2, <2>3
<1>15. ASSUME NEW n \in 1 .. NPages, SetDocument(n)
       PROVE  Done
  <2> DEFINE m == [document |-> model.document + 1, n_pages |-> n,
                   page |-> IF model.page = -1 THEN 0
                            ELSE IF model.page < n THEN model.page ELSE n - 1]
             h == PageHandlers(history, model, m, FALSE)
  <2>1. /\ model.document < MaxDocs /\ model' = m
        /\ history' = DocumentChanged(h, m)
        /\ UNCHANGED <<find_bar, menu, crashed>> /\ action' \in BOOLEAN
    BY <1>1, <1>4, <1>15 DEF SetDocument
  <2>2. model.document \in Nat /\ model.page \in -1 .. (NPages - 1)
    BY <1>1, HistoryAssumption DEF ModelGood
  <2>3. ModelGood(m) /\ m.document # model.document /\ m.document # 0
    BY <2>1, <2>2, HistoryAssumption DEF ModelGood
  <2> HIDE DEF m
  <2>4. Good(h, Link) /\ h.frozen = history.frozen
    <3>1. PageLink(m.page, m.document) \in Link
      BY <2>3, PageIsLinkOf DEF LinksOf
    <3>2. Good(history, Link) /\ ModelGood(m) /\ FALSE \in BOOLEAN
      BY <1>1, <2>3
    <3>3. /\ Good(PageHandlers(history, model, m, FALSE), Link)
          /\ PageHandlers(history, model, m, FALSE).frozen = history.frozen
      <4>1. /\ Good(AddLinkForPage(history, m), Link)
            /\ AddLinkForPage(history, m).frozen = history.frozen
        BY <3>1, <3>2, AddPageGood
      <4> QED
        BY <3>2, <4>1 DEF PageHandlers, PageChanged
    <3> QED
      BY <3>3 DEF h
  <2> HIDE DEF h
  <2>5. Renews /\ history'.frozen = history.frozen
    BY <2>1, <2>3, <2>4, DocumentChangedGood DEF Renews
  <2> QED
    BY <1>1, <2>1, <2>3, <2>5
<1>16. CASE UpdateActions
  BY <1>1, <1>3, <1>4, <1>16 DEF UpdateActions
<1>17. CASE UNCHANGED vars
  BY <1>1, <1>3, <1>17 DEF vars
<1> QED
  BY <1>6, <1>7, <1>9, <1>10, <1>11, <1>12, <1>13, <1>14, <1>15, <1>16, <1>17 DEF Next

\* Every step keeps the invariant.
LEMMA HistoryInvariantStep ==
  ASSUME HistoryInvariant, [Next]_vars
  PROVE  HistoryInvariant'
<1> USE LinksAreLinks, StepKinds
<1>1. Good(history, LinksOf(model)) /\ Good(history, Link) /\ ModelGood(model)
  BY DEF HistoryInvariant
<1>2. model'.document = model.document /\ model'.n_pages = model.n_pages
        => LinksOf(model') = LinksOf(model)
  BY DEF LinksOf
<1>3. Good(history', LinksOf(model'))
  <2>1. CASE Rests
    <3> DEFINE f == history'.frozen
    <3>1. f \in Nat /\ history' = [history EXCEPT !.frozen = f] /\ LinksOf(model') = LinksOf(model)
      BY <1>2, <2>1 DEF Rests
    <3> HIDE DEF f
    <3> QED
      BY <1>1, <3>1 DEF Good, HistoryType
  <2>2. CASE Adds
    BY <1>1, <1>2, <2>2, AddLinkGood DEF Adds
  <2>3. CASE Moves
    BY <1>1, <1>2, <2>3, MoveGood DEF Moves
  <2>4. CASE Renews
    BY <1>1, <2>4, DocumentChangedGood DEF Renews
  <2> QED
    BY <2>1, <2>2, <2>3, <2>4
<1> QED
  BY <1>3 DEF HistoryInvariant

\* The invariant holds in every state.
LEMMA HistoryInvariantAlways == Spec => []HistoryInvariant
<1>1. Init => HistoryInvariant
  <2> SUFFICES ASSUME Init PROVE HistoryInvariant
    OBVIOUS
  <2>1. << >> \in Seq(Link) /\ Len(<< >>) = 0
    OBVIOUS
  <2>2. history \in HistoryType /\ history.list = << >> /\ history.current = 0
    BY <2>1, HistoryAssumption DEF Init, HistoryType
  <2>3. Good(history, LinksOf(model))
    BY <2>1, <2>2, HistoryAssumption DEF Good
  <2>4. ModelGood(model)
    BY HistoryAssumption DEF Init, ModelGood
  <2> QED
    BY <2>3, <2>4 DEF Init, HistoryInvariant
<1>2. HistoryInvariant /\ [Next]_vars => HistoryInvariant'
  BY HistoryInvariantStep
<1> QED
  BY <1>1, <1>2, PTL DEF Spec

-----------------------------------------------------------------------------
(* Theorems.                                                               *)

\* Every variable keeps its type, the list an entry for every position.
THEOREM HistoryTypeCorrect == Spec => []TypeOK
<1>1. HistoryInvariant => TypeOK
  BY DEF HistoryInvariant, Good, HistoryType, ModelGood, TypeOK
<1> QED
  BY <1>1, HistoryInvariantAlways, PTL

\* However long one browses, however often documents are loaded again and the
\* find bar is opened in between: the list keeps to EV_HISTORY_MAX_LENGTH, the
\* current entry is one of the list, and no entry outlives its document.
THEOREM HistorySound == Spec => []HistoryIsSound
<1>1. HistoryInvariant => HistoryIsSound
  BY DEF HistoryInvariant, Good, HistoryIsSound, CurrentIsAnEntry, EntriesOfThisDocument,
         LinksOf
<1> QED
  BY <1>1, HistoryInvariantAlways, PTL

\* Whenever there is an entry, whether the history is frozen or not, a button is
\* sensitive exactly when there is an entry in its direction.
THEOREM ButtonsTruthful == Spec => []ButtonsTellTheTruth
<1>1. HistoryInvariant => ButtonsTellTheTruth
  <2> SUFFICES ASSUME HistoryInvariant, history.list # << >>
               PROVE  /\ history.back = (history.current > 1)
                      /\ history.forward = (history.current < Len(history.list))
    BY DEF ButtonsTellTheTruth
  <2>1. /\ history.back \in BOOLEAN /\ history.forward \in BOOLEAN
        /\ history.back <=> history.current > 1
        /\ history.forward <=> history.current < Len(history.list)
    BY DEF HistoryInvariant, Good, HistoryType
  <2>2. (history.current > 1) \in BOOLEAN /\ (history.current < Len(history.list)) \in BOOLEAN
    OBVIOUS
  <2> QED
    BY <2>1, <2>2
<1> QED
  BY <1>1, HistoryInvariantAlways, PTL

\* No step while the find bar is open adds an entry, a step that makes another
\* entry the current one leaves the view at the page of that entry, and the list
\* is emptied by nothing but another document under an open find bar.
THEOREM StepsTruthful == Spec => StepsAreTheUsers
<1>1. ASSUME HistoryInvariant, [Next]_vars
      PROVE  /\ [find_bar /\ find_bar' /\ history'.list # history.list =>
                   history'.list = << >> /\ model'.document # model.document]_vars
             /\ [/\ history'.current # history.current
                 /\ history'.list = history.list
                 => history.list[history'.current].page \in {-1, model'.page}]_vars
             /\ [history.list # << >> /\ history'.list = << >> =>
                   find_bar /\ model'.document # model.document]_vars
  <2> DEFINE Searching == find_bar /\ find_bar' /\ history'.list # history.list =>
                            history'.list = << >> /\ model'.document # model.document
             Shows == /\ history'.current # history.current
                      /\ history'.list = history.list
                      => history.list[history'.current].page \in {-1, model'.page}
             Emptied == history.list # << >> /\ history'.list = << >> =>
                          find_bar /\ model'.document # model.document
  <2>1. HistoryInvariant' /\ history \in HistoryType /\ (Rests \/ Adds \/ Moves \/ Renews)
    BY <1>1, HistoryInvariantStep, StepKinds, LinksAreLinks
  <2>2. find_bar => history.frozen = 1
    BY <1>1 DEF HistoryInvariant
  <2>3. Good(history, Link) /\ Good(history, LinksOf(model)) /\ LinksOf(model) \subseteq Link
    BY <1>1, LinksAreLinks DEF HistoryInvariant
  <2>4. CASE Rests
    <3>1. history'.list = history.list /\ history'.current = history.current
      BY <2>1, <2>4 DEF Rests, HistoryType
    <3> QED
      BY <3>1
  <2>5. CASE Adds
    <3>1. PICK link \in LinksOf(model) :
            history.frozen = 0 /\ history' = AddLink(history, link)
              /\ link.page \in {-1, model'.page}
      BY <2>5 DEF Adds
    <3>2. history'.list[history'.current] = link /\ Len(history'.list) \in 1 .. MaxLength
      BY <2>3, <3>1, AddLinkGood
    <3>3. history'.list # << >>
      BY <3>2, HistoryAssumption
    <3> QED
      BY <2>2, <3>1, <3>2, <3>3
  <2>6. CASE Moves
    <3>1. PICK i \in 1 .. Len(history.list) :
            history.frozen = 0
              /\ history' = ActivateCurrentLink([history EXCEPT !.current = i])
              /\ history.list[i].page \in {-1, model'.page}
      BY <2>6 DEF Moves
    <3>2. history'.current = i /\ history'.list = history.list
      BY <2>3, <3>1, MoveGood
    <3> QED
      BY <2>2, <3>1, <3>2
  <2>7. CASE Renews
    <3>1. PICK h : Good(h, Link) /\ h.frozen = history.frozen
                     /\ history' = DocumentChanged(h, model')
      BY <2>7 DEF Renews
    <3>2. find_bar => history'.list = << >>
      BY <1>1, <2>2, <3>1, DocumentChangedGood, StepKinds
    <3>3. history'.list = history.list => history.list = << >>
      <4> SUFFICES ASSUME history'.list = history.list, history.list # << >>
                   PROVE  FALSE
        OBVIOUS
      <4>1. 1 \in 1 .. Len(history.list)
        BY <2>3 DEF Good
      <4>2. history.list[1] \in LinksOf(model) /\ history.list[1] \in LinksOf(model')
        <5>1. \A i \in 1 .. Len(history'.list) : history'.list[i] \in LinksOf(model')
          BY <2>1 DEF Good, HistoryInvariant
        <5>2. \A i \in 1 .. Len(history.list) : history.list[i] \in LinksOf(model)
          BY <2>3 DEF Good
        <5> QED
          BY <4>1, <5>1, <5>2
      <4> QED
        BY <2>7, <4>2 DEF LinksOf, Renews
    <3>4. history'.list = history.list => history'.current = history.current
      BY <2>1, <2>3, <3>3 DEF Good, HistoryInvariant
    <3>5. ~find_bar => history'.list # << >>
      <4>1. ~find_bar => h.frozen = 0
        BY <1>1, <3>1 DEF HistoryInvariant
      <4> QED
        BY <1>1, <2>7, <3>1, <4>1, DocumentChangedGood, StepKinds DEF Renews
    <3> QED
      BY <2>7, <3>2, <3>4, <3>5 DEF Renews
  <2> QED
    BY <2>1, <2>4, <2>5, <2>6, <2>7
<1> QED
  BY <1>1, HistoryInvariantAlways, PTL
     DEF Spec, StepsAreTheUsers, SearchingAddsNothing, ShowsTheEntry,
         EmptiedOnlyWhileSearching

-----------------------------------------------------------------------------
(* The history implements BrowserHistory.                                  *)

Past(h)   == SubSeq(h.list, 1, h.current - 1)
Here(h)   == SubSeq(h.list, h.current, IF h.current = 0 THEN -1 ELSE h.current)
Future(h) == SubSeq(h.list, h.current + 1, Len(h.list))

\* A part of the list is what its bounds say.
LEMMA PartOf ==
  ASSUME NEW list \in Seq(Link), NEW a \in Nat \ {0}, NEW b \in 0 .. Len(list)
  PROVE  /\ SubSeq(list, a, b) \in Seq(Link)
         /\ Len(SubSeq(list, a, b)) = IF a <= b THEN b - a + 1 ELSE 0
         /\ \A i \in 1 .. (b - a + 1) : SubSeq(list, a, b)[i] = list[a + i - 1]
<1>1. a \in Int /\ b \in Int /\ \A i \in a .. b : list[i] \in Link
  <2>1. \A i \in a .. b : i \in 1 .. Len(list)
    OBVIOUS
  <2> QED
    BY <2>1, ElementOfSeq
<1>2. /\ SubSeq(list, a, b) \in Seq(Link)
      /\ Len(SubSeq(list, a, b)) = IF a <= b THEN b - a + 1 ELSE 0
      /\ \A i \in 1 .. (b - a + 1) : SubSeq(list, a, b)[i] = list[a + i - 1]
  BY <1>1, SubSeqProperties
<1> QED
  BY <1>2

\* What is around the current entry.
LEMMA AroundCurrent ==
  ASSUME NEW D, NEW h, Good(h, D)
  PROVE  /\ Past(h) \in Seq(Link) /\ Here(h) \in Seq(Link) /\ Future(h) \in Seq(Link)
         /\ h.list = << >> => Past(h) = << >> /\ Here(h) = << >> /\ Future(h) = << >>
         /\ h.list # << >> => /\ Here(h) = <<h.list[h.current]>>
                              /\ h.list[h.current] \in Link
         /\ Past(h) \o Here(h) = SubSeq(h.list, 1, h.current)
         /\ Past(h) \o Here(h) \o Future(h) = h.list
<1> DEFINE list == h.list
           c == h.current
           n == Len(list)
           past == Past(h)
           here == Here(h)
           future == Future(h)
<1>1. list \in Seq(Link) /\ c \in 0 .. n /\ n \in Nat /\ (list # << >> => c \in 1 .. n)
  <2>1. list \in Seq(Link) /\ c \in 0 .. n
    BY CurrentInList
  <2>2. list # << >> => c \in 1 .. n
    BY DEF Good
  <2>3. n \in Nat
    BY <2>1
  <2> QED
    BY <2>1, <2>2, <2>3
<1>2. CASE list = << >>
  <2>1. n = 0 /\ c = 0
    BY <1>1, <1>2
  <2>2. past = << >> /\ here = << >> /\ future = << >> /\ SubSeq(list, 1, c) = << >>
    BY <2>1, SubSeqEmpty DEF Past, Here, Future
  <2>3. << >> \in Seq(Link) /\ << >> \o << >> = << >>
    OBVIOUS
  <2> QED
    BY <1>2, <2>2, <2>3
<1>3. CASE list # << >>
  <2>1. c \in 1 .. n /\ c \in Nat /\ c # 0
    BY <1>1, <1>3
  <2>2. /\ past \in Seq(Link) /\ Len(past) = c - 1
        /\ \A i \in 1 .. (c - 1) : past[i] = list[i]
    <3>1. past = SubSeq(list, 1, c - 1) /\ c - 1 \in 0 .. n
      BY <1>1, <2>1 DEF Past
    <3> HIDE DEF past, c, list
    <3> QED
      BY <1>1, <2>1, <3>1, PartOf
  <2>3. here \in Seq(Link) /\ Len(here) = 1 /\ here[1] = list[c]
    <3>1. here = SubSeq(list, c, c)
      BY <2>1 DEF Here
    <3>2. c \in Nat \ {0} /\ c \in 0 .. n
      BY <2>1
    <3> HIDE DEF here, c, list
    <3>3. /\ SubSeq(list, c, c) \in Seq(Link)
          /\ Len(SubSeq(list, c, c)) = IF c <= c THEN c - c + 1 ELSE 0
          /\ \A i \in 1 .. (c - c + 1) : SubSeq(list, c, c)[i] = list[c + i - 1]
      BY <1>1, <3>2, PartOf
    <3>4. c <= c /\ c - c + 1 = 1 /\ 1 \in 1 .. (c - c + 1) /\ c + 1 - 1 = c
      BY <3>2
    <3>5. Len(here) = 1
      BY <3>1, <3>3, <3>4
    <3>6. here[1] = list[c + 1 - 1]
      BY <3>1, <3>3, <3>4
    <3> QED
      BY <3>1, <3>3, <3>4, <3>5, <3>6
  <2>4. /\ future \in Seq(Link) /\ Len(future) = n - c
        /\ \A i \in 1 .. (n - c) : future[i] = list[c + i]
    <3>1. future = SubSeq(list, c + 1, n) /\ c + 1 \in Nat \ {0} /\ n \in 0 .. n
      BY <1>1, <2>1 DEF Future
    <3> HIDE DEF future, c, list
    <3> QED
      BY <1>1, <2>1, <3>1, PartOf
  <2>5. here = <<list[c]>> /\ list[c] \in Link
    <3>1. list[c] \in Link
      BY <1>1, <2>1, ElementOfSeq
    <3>2. <<list[c]>> \in Seq(Link) /\ Len(<<list[c]>>) = 1 /\ <<list[c]>>[1] = list[c]
      BY <3>1
    <3> HIDE DEF here, c, list
    <3> QED
      BY <2>3, <3>1, <3>2, SeqEqual
  <2>6. /\ SubSeq(list, 1, c) \in Seq(Link) /\ Len(SubSeq(list, 1, c)) = c
        /\ \A i \in 1 .. c : SubSeq(list, 1, c)[i] = list[i]
    BY <1>1, UpTo
  <2> HIDE DEF past, here, future, list, c, n
  <2>7. /\ past \o here \in Seq(Link) /\ Len(past \o here) = c
        /\ \A i \in 1 .. c : (past \o here)[i] = list[i]
    <3>0. /\ past \o here \in Seq(Link) /\ Len(past \o here) = Len(past) + Len(here)
          /\ \A i \in 1 .. (Len(past) + Len(here)) :
               (past \o here)[i] = IF i <= Len(past) THEN past[i] ELSE here[i - Len(past)]
      BY <2>2, <2>3, ConcatProperties
    <3>1. /\ past \o here \in Seq(Link) /\ Len(past \o here) = c
          /\ \A i \in 1 .. c :
               (past \o here)[i] = IF i <= c - 1 THEN past[i] ELSE here[i - (c - 1)]
      BY <2>1, <2>2, <2>3, <3>0
    <3>2. ASSUME NEW i \in 1 .. c
          PROVE  (past \o here)[i] = list[i]
      <4>1. CASE i = c
        BY <2>1, <2>3, <3>1, <4>1
      <4>2. CASE i # c
        BY <2>1, <2>2, <3>1, <4>2
      <4> QED
        BY <4>1, <4>2
    <3> QED
      BY <2>1, <3>1, <3>2
  <2>8. past \o here = SubSeq(list, 1, c)
    BY <2>6, <2>7, SeqEqual
  <2>9. /\ (past \o here) \o future \in Seq(Link) /\ Len((past \o here) \o future) = n
        /\ \A i \in 1 .. n : ((past \o here) \o future)[i] = list[i]
    <3> DEFINE both == past \o here
    <3>1. both \in Seq(Link) /\ Len(both) = c /\ \A i \in 1 .. c : both[i] = list[i]
      BY <2>7
    <3> HIDE DEF both
    <3>2. /\ both \o future \in Seq(Link) /\ Len(both \o future) = c + (n - c)
          /\ \A i \in 1 .. (c + (n - c)) :
               (both \o future)[i] = IF i <= c THEN both[i] ELSE future[i - c]
      BY <2>4, <3>1, ConcatProperties
    <3>3. ASSUME NEW i \in 1 .. n
          PROVE  (both \o future)[i] = list[i]
      <4>1. CASE i <= c
        BY <1>1, <2>1, <3>1, <3>2, <4>1
      <4>2. CASE ~(i <= c)
        <5>1. i - c \in 1 .. (n - c) /\ c + (i - c) = i
          BY <1>1, <2>1, <4>2
        <5> QED
          BY <1>1, <2>1, <2>4, <3>2, <4>2, <5>1
      <4> QED
        BY <4>1, <4>2
    <3> QED
      BY <1>1, <2>1, <3>2, <3>3 DEF both
  <2>10. (past \o here) \o future = list
    BY <1>1, <2>9, SeqEqual DEF n
  <2> QED
    BY <1>3, <2>2, <2>3, <2>4, <2>5, <2>8, <2>10 DEF past, here, future, list, c, n
<1> QED
  BY <1>2, <1>3

\* Adding a link forgets what had been gone back from, and the oldest entry when
\* there would be too many.
LEMMA AddVisits ==
  ASSUME NEW D, NEW h, Good(h, D), h.frozen = 0, NEW link \in Link, link \in D
  PROVE  LET g == AddLink(h, link)
             kept == SubSeq(h.list, 1, h.current)
             most == MaxLength - 1
         IN /\ Past(g) = SubSeq(kept, IF Len(kept) > most THEN Len(kept) - most + 1 ELSE 1,
                                Len(kept))
            /\ Here(g) = <<link>>
            /\ Future(g) = << >>
<1> DEFINE g == AddLink(h, link)
           kept == SubSeq(h.list, 1, h.current)
           c == h.current
           n == g.current
           first == IF Len(kept) > MaxLength - 1 THEN Len(kept) - (MaxLength - 1) + 1 ELSE 1
           last == SubSeq(kept, first, Len(kept))
<1>1. h.list \in Seq(Link) /\ c \in 0 .. Len(h.list)
  BY CurrentInList
<1>2. Good(g, D) /\ g.current = n /\ Len(g.list) = n
  BY AddLinkGood
<1>3. /\ g.list \in Seq(Link) /\ n \in 1 .. MaxLength /\ g.list[n] = link
      /\ n = IF c < MaxLength THEN c + 1 ELSE MaxLength
      /\ \A i \in 1 .. (n - 1) : g.list[i] = h.list[i + (c + 1 - n)]
  BY AddLinkGood
<1>4. kept \in Seq(Link) /\ Len(kept) = c /\ \A i \in 1 .. c : kept[i] = h.list[i]
  BY <1>1, UpTo
<1>5. c \in Nat /\ n \in Nat \ {0} /\ MaxLength \in Nat \ {0} /\ n <= c + 1
  BY <1>1, <1>3, HistoryAssumption
<1> HIDE DEF g, kept, c, n
<1>6. first = c + 2 - n /\ first \in Nat \ {0}
  BY <1>3, <1>4, <1>5
<1> HIDE DEF first
<1>7. /\ last \in Seq(Link) /\ Len(last) = n - 1
      /\ \A i \in 1 .. (n - 1) : last[i] = g.list[i]
  <2>1. /\ last \in Seq(Link) /\ Len(last) = IF first <= c THEN c - first + 1 ELSE 0
        /\ \A i \in 1 .. (c - first + 1) : last[i] = kept[first + i - 1]
    <3>1. c \in 0 .. Len(kept) /\ last = SubSeq(kept, first, c)
      BY <1>4, <1>5
    <3> HIDE DEF last
    <3> QED
      BY <1>4, <1>6, <3>1, PartOf
  <2>2. c - first + 1 = n - 1 /\ Len(last) = n - 1
    BY <1>5, <1>6, <2>1
  <2> HIDE DEF last
  <2>3. ASSUME NEW i \in 1 .. (n - 1)
        PROVE  last[i] = g.list[i]
    <3> DEFINE j == first + i - 1
               k == i + (c + 1 - n)
    <3>1. j \in 1 .. c /\ j = k
      BY <1>5, <1>6
    <3>2. last[i] = kept[j]
      <4>1. i \in 1 .. (c - first + 1)
        BY <2>2
      <4> QED
        BY <2>1, <4>1
    <3>3. g.list[i] = h.list[k]
      BY <1>3
    <3> HIDE DEF j, k
    <3> QED
      BY <1>4, <3>1, <3>2, <3>3
  <2> QED
    BY <2>1, <2>2, <2>3
<1> HIDE DEF last
<1>8. Past(g) = last
  <2> DEFINE past == SubSeq(g.list, 1, n - 1)
  <2>1. /\ past \in Seq(Link) /\ Len(past) = n - 1
        /\ \A i \in 1 .. (n - 1) : past[i] = g.list[i]
    <3>1. n - 1 \in 0 .. Len(g.list)
      BY <1>2, <1>5
    <3> QED
      BY <1>3, <3>1, UpTo
  <2> HIDE DEF past
  <2>2. past = last
    BY <1>7, <2>1, SeqEqual
  <2> QED
    BY <1>2, <2>2 DEF Past, past
<1>9. Here(g) = <<link>>
  <2>1. g.list # << >>
    BY <1>2, <1>5
  <2> QED
    BY <1>2, <1>3, <2>1, AroundCurrent
<1>10. Future(g) = << >>
  <2>1. n + 1 \in Int /\ n \in Int /\ n < n + 1
    BY <1>5
  <2> QED
    BY <1>2, <2>1, SubSeqEmpty DEF Future
<1> QED
  BY <1>8, <1>9, <1>10 DEF last, first, kept, g

\* A cleared history has no entry, or one that is the current one.
LEMMA RenewForgets ==
  ASSUME NEW D, NEW h, Good(h, D), NEW m, ModelGood(m)
  PROVE  LET g == DocumentChanged(h, m)
         IN /\ Past(g) = << >> /\ Future(g) = << >>
            /\ Here(g) \in {<< >>} \union {<<x>> : x \in Link}
<1> DEFINE g == DocumentChanged(h, m)
           k == Clear(h)
           link == PageLink(m.page, m.document)
<1>1. Good(g, LinksOf(m))
  BY DocumentChangedGood
<1>2. Good(k, LinksOf(m)) /\ k.list = << >> /\ k.current = 0
  BY ClearGood
<1>3. g = k \/ (g = AddLink(k, link) /\ k.frozen = 0 /\ m.document # 0)
  BY <1>2 DEF DocumentChanged, AddLinkForPage, Good, HistoryType
<1>4. CASE g = k
  BY <1>2, <1>4, AroundCurrent
<1>5. CASE g = AddLink(k, link) /\ k.frozen = 0 /\ m.document # 0
  <2>1. link \in LinksOf(m) /\ link \in Link
    BY <1>5, PageIsLinkOf DEF LinksOf
  <2> DEFINE kept == SubSeq(k.list, 1, k.current)
  <2>2. kept = << >>
    BY <1>2, SubSeqEmpty
  <2> HIDE DEF kept, k, link, g
  <2>3. /\ Past(g) = SubSeq(kept, IF Len(kept) > MaxLength - 1
                                  THEN Len(kept) - (MaxLength - 1) + 1 ELSE 1, Len(kept))
        /\ Here(g) = <<link>> /\ Future(g) = << >>
    BY <1>2, <1>5, <2>1, AddVisits DEF kept
  <2>4. Past(g) = << >>
    <3>1. Len(kept) = 0
      BY <2>2, EmptySeq
    <3>2. ~(Len(kept) > MaxLength - 1)
      <4>1. MaxLength \in Nat /\ MaxLength # 0
        BY HistoryAssumption
      <4> QED
        BY <3>1, <4>1
    <3> QED
      <4>1. Past(g) = SubSeq(kept, 1, 0)
        BY <2>3, <3>1, <3>2
      <4> QED
        BY <4>1, SubSeqEmpty
  <2> QED
    BY <2>1, <2>3, <2>4 DEF g
<1> QED
  BY <1>3, <1>4, <1>5

\* For every limit of the list and any documents, a window's history is that of
\* a web browser: each of its steps visits, returns, forgets or changes nothing.
THEOREM HistoryBrowses == Spec => BrowsesLikeTheWeb
<1> DEFINE past == Past(history)
           here == Here(history)
           future == Future(history)
<1>1. ASSUME Init
      PROVE  Browser!Init
  <2>1. history.list = << >> /\ history.current = 0
    BY <1>1 DEF Init
  <2>2. Len(<< >>) = 0
    BY EmptySeq
  <2>3. Past(history) = << >> /\ Here(history) = << >> /\ Future(history) = << >>
    BY <2>1, <2>2, SubSeqEmpty DEF Past, Here, Future
  <2> QED
    BY <2>3 DEF Browser!Init, Past, Here, Future
<1>2. ASSUME HistoryInvariant, [Next]_vars
      PROVE  [Browser!Next]_(Browser!places)
  <2>1. HistoryInvariant' /\ history \in HistoryType /\ (Rests \/ Adds \/ Moves \/ Renews)
    BY <1>2, HistoryInvariantStep, StepKinds, LinksAreLinks
  <2>2. Good(history, LinksOf(model)) /\ LinksOf(model) \subseteq Link
    BY <1>2, LinksAreLinks DEF HistoryInvariant
  <2>3. /\ past \o here = SubSeq(history.list, 1, history.current)
        /\ past \o here \o future = history.list
    BY <2>2, AroundCurrent
  <2>4. CASE Rests
    <3>1. history'.list = history.list /\ history'.current = history.current
      BY <2>1, <2>4 DEF Rests, HistoryType
    <3> QED
      BY <3>1 DEF Browser!places
  <2>5. CASE Adds
    <3>1. PICK link \in LinksOf(model) :
            history.frozen = 0 /\ history' = AddLink(history, link)
      BY <2>5 DEF Adds
    <3> DEFINE kept == past \o here
               most == MaxLength - 1
    <3>2. /\ past' = SubSeq(kept, IF Len(kept) > most THEN Len(kept) - most + 1 ELSE 1, Len(kept))
          /\ here' = <<link>> /\ future' = << >>
      <4>1. link \in Link
        BY <2>2
      <4> QED
        BY <2>2, <2>3, <3>1, <4>1, AddVisits, ZenonT(60)
    <3>3. Browser!Visit(link)
      BY <3>2 DEF Browser!Visit, Browser!LastOf, Past, Here, Future
    <3> QED
      BY <2>2, <3>3 DEF Browser!Next
  <2>6. CASE Moves
    <3>1. PICK i \in 1 .. Len(history.list) :
            history.frozen = 0 /\ history' = ActivateCurrentLink([history EXCEPT !.current = i])
      BY <2>6 DEF Moves
    <3>2. history'.list = history.list /\ history'.current = i /\ Good(history', LinksOf(model))
      BY <2>2, <3>1, MoveGood
    <3>3. here' = <<history.list[i]>>
      <4>1. history.list # << >>
        BY <3>1, EmptySeq
      <4> QED
        BY <3>2, <4>1, AroundCurrent
    <3>4. past' = SubSeq(history.list, 1, i - 1)
          /\ future' = SubSeq(history.list, i + 1, Len(history.list))
      BY <3>2 DEF Past, Future
    <3>5. Browser!Trail = history.list
      BY <2>3 DEF Browser!Trail, Past, Here, Future
    <3>6. Browser!Return(i)
      BY <3>3, <3>4, <3>5 DEF Browser!Return, Past, Here, Future
    <3> QED
      BY <3>5, <3>6 DEF Browser!Next
  <2>7. CASE Renews
    <3>1. PICK h : Good(h, Link) /\ history' = DocumentChanged(h, model')
      BY <2>7 DEF Renews
    <3>2. ModelGood(model')
      BY <2>1 DEF HistoryInvariant
    <3>3. past' = << >> /\ future' = << >> /\ here' \in {<< >>} \union {<<x>> : x \in Link}
      BY <3>1, <3>2, RenewForgets
    <3> QED
      BY <3>3 DEF Browser!Next, Browser!Forget, Past, Here, Future
  <2> QED
    BY <2>1, <2>4, <2>5, <2>6, <2>7
<1> QED
  BY <1>1, <1>2, HistoryInvariantAlways, PTL DEF Spec, BrowsesLikeTheWeb, Browser!Spec

-----------------------------------------------------------------------------
(* The modes of a window: the inductive invariant.                         *)

ModeFields ==
  {"pages", "page", "rotation", "continuous", "fullscreen", "slides", "chrome", "shown",
   "paned", "toggle", "frozen", "inhibited", "timer", "stray", "setup", "meta", "full",
   "requests", "events", "asked", "hasty", "closed"}
MetaFields == {"fullscreen", "presentation", "sidebar", "page", "rotation", "continuous"}

Shape(w) ==
  /\ DOMAIN w = ModeFields /\ DOMAIN w.meta = MetaFields
  /\ DOMAIN w.slides = {"page", "rotation"}
  /\ w.pages \in Nat /\ w.page \in Nat
  /\ w.requests \in Seq(BOOLEAN) /\ w.events \in Seq(BOOLEAN)
  /\ w.fullscreen \in BOOLEAN /\ w.full \in BOOLEAN /\ w.hasty \in BOOLEAN
  /\ w.closed \in BOOLEAN /\ w.setup \in BOOLEAN /\ w.inhibited \in BOOLEAN
  /\ w.meta.sidebar \in BOOLEAN /\ w.meta.presentation \in BOOLEAN

\* The page, and the slide, is one of the document.
InRange(w) ==
  /\ w.pages # Loading => w.page < w.pages
  /\ w.setup => w.pages # Loading
  /\ Presenting(w) => w.pages # Loading /\ w.slides.page \in 0 .. (w.pages - 1)

\* What a change of the mode keeps of the metadata.
Kept(w) ==
  /\ w.meta.fullscreen = w.fullscreen /\ w.meta.page = w.page
  /\ w.meta.rotation = w.rotation /\ w.meta.continuous = w.continuous
  /\ w.pages # Loading => w.meta.sidebar = ("sidebar" \in w.chrome)

OneMode(w) == ~(w.fullscreen /\ Presenting(w))

\* A window on the way from one mode to another.
Between(w) == Shape(w) /\ InRange(w) /\ Kept(w) /\ OneMode(w)

Fits(w) ==
  /\ ("sidebar" \in w.shown) = ("sidebar" \in w.chrome /\ w.pages # Loading /\ ~Presenting(w))
  /\ ("findbar" \in w.shown) = ("findbar" \in w.chrome)
  /\ Presenting(w) => "toolbar" \notin w.shown
  /\ w.inhibited => Presenting(w)
  /\ w.pages # Loading => w.meta.presentation = Presenting(w)

Sound(w) == Between(w) /\ Fits(w)

Finds(w) ==
  /\ w.frozen = (IF "findbar" \in w.shown THEN 1 ELSE 0)
  /\ (w.paned = "find") = ("findbar" \in w.shown)

Leaves(w) == w.closed /\ Presenting(w) => w.meta.page = w.slides.page

\* The last event on its way tells how the screen is; with none on its way, and no
\* request that would change the screen, the mode of the window is that of the screen.
Full(w) == Mode(w) # "frame"
Screen(w) ==
  /\ w.events # << >> => w.events[Len(w.events)] = w.full
  /\ w.events = << >> /\ (\A k \in DOMAIN w.requests : w.requests[k] = w.full)
       => w.full = Full(w)

\* While nobody was hasty, whatever is on its way is what was asked for last, and the
\* window has done it unless the user did, and the event is still to come.
Obeys(w) ==
  ~w.hasty =>
    /\ \A k \in DOMAIN w.requests : w.requests[k] = (w.asked # "frame")
    /\ \A k \in DOMAIN w.events : w.events[k] = (w.asked # "frame")
    /\ \/ Mode(w) = w.asked
       \/ /\ w.events # << >>
          /\ \/ w.asked = "full" /\ Mode(w) = "frame"
             \/ w.asked = "frame" /\ Mode(w) # "frame"

Holds(w) == Sound(w) /\ Finds(w) /\ Leaves(w) /\ Screen(w) /\ Obeys(w)
ModesInvariant == Holds(modes)

\* Only these fields change.
Only(w, c, fields) == DOMAIN c = DOMAIN w /\ \A f \in DOMAIN w \ fields : c[f] = w[f]

-----------------------------------------------------------------------------
(* The functions of the window.                                            *)

LEMMA Changes ==
  ASSUME NEW w, NEW f \in DOMAIN w, NEW x
  PROVE  LET c == [w EXCEPT ![f] = x] IN Only(w, c, {f}) /\ c[f] = x
BY DEF Only

\* Slides with a page are slides.
LEMMA Slides == \A s : s.page # -1 => s # NoSlides
BY DEF NoSlides

\* A value of the metadata.
LEMMA Remembers ==
  ASSUME NEW w, Shape(w), NEW key \in MetaFields, NEW value,
         key \in {"sidebar", "presentation"} => value \in BOOLEAN
  PROVE  LET c == Remember(w, key, value)
         IN  /\ Shape(c) /\ Only(w, c, {"meta"})
             /\ Only(w.meta, c.meta, {key}) /\ c.meta[key] = value
<1> DEFINE m == [w.meta EXCEPT ![key] = value]
           c == Remember(w, key, value)
<1>1. Only(w.meta, m, {key}) /\ m[key] = value /\ DOMAIN m = MetaFields
  BY DEF Only, Shape
<1>2. m.sidebar \in BOOLEAN /\ m.presentation \in BOOLEAN
  BY <1>1 DEF Only, Shape, MetaFields
<1> HIDE DEF m
<1>3. c = [w EXCEPT !.meta = m]
  BY DEF Remember, m
<1>4. "meta" \in DOMAIN w
  BY DEF Shape, ModeFields
<1> HIDE DEF c
<1>5. Only(w, c, {"meta"}) /\ c.meta = m
  BY <1>3, <1>4 DEF Only
<1>6. Shape(c)
  BY <1>1, <1>2, <1>5 DEF Only, Shape, ModeFields
<1> QED
  BY <1>1, <1>5, <1>6 DEF c

\* A value of the metadata that is true or false.
LEMMA RemembersFlag ==
  ASSUME NEW w, Shape(w), NEW key \in MetaFields, NEW value \in BOOLEAN
  PROVE  LET c == Remember(w, key, value)
         IN  /\ Shape(c) /\ Only(w, c, {"meta"})
             /\ Only(w.meta, c.meta, {key}) /\ c.meta[key] = value
BY Remembers

\* update_chrome_visibility: the flags stay, and what they say of the sidebar goes to
\* the metadata when the sidebar comes or goes.
LEMMA ChromeUpdates ==
  ASSUME NEW w, Shape(w), "sidebar" \in w.shown => w.pages # Loading
  PROVE  LET c == UpdateChrome(w)
         IN  /\ Shape(c) /\ Only(w, c, {"shown", "toggle", "meta"})
             /\ c.shown = Bars(w) /\ Only(w.meta, c.meta, {"sidebar"})
             /\ c.meta.sidebar =
                  IF (("sidebar" \in w.shown) = ("sidebar" \in Bars(w))) \/ Presenting(w)
                  THEN w.meta.sidebar ELSE "sidebar" \in Bars(w)
<1> DEFINE v == [w EXCEPT !.shown = Bars(w)]
           c == UpdateChrome(w)
           visible == "sidebar" \in v.shown
           chrome == IF visible THEN v.chrome \cup {"sidebar"} ELSE v.chrome \ {"sidebar"}
           u == [v EXCEPT !.toggle = visible, !.chrome = chrome]
           changed == ("sidebar" \in w.shown) # visible
<1>1. Only(w, v, {"shown"}) /\ v.shown = Bars(w)
  BY DEF Only, Shape, ModeFields
<1>2. c = IF ~changed THEN v ELSE SidebarVisibilityChanged(v)
  BY DEF UpdateChrome
<1> HIDE DEF v, c
<1>3. Shape(v) /\ v.meta = w.meta /\ Presenting(v) = Presenting(w) /\ v.chrome = w.chrome
  BY <1>1 DEF Shape, Only, ModeFields, Presenting
<1>4. visible = ("sidebar" \in w.chrome /\ w.pages # Loading /\ ~Presenting(w))
  BY <1>1 DEF Bars
<1>5. SidebarVisibilityChanged(v) = IF Presenting(w) THEN v ELSE Remember(u, "sidebar", visible)
  BY <1>3 DEF SidebarVisibilityChanged
<1>6. CASE ~changed \/ Presenting(w)
  BY <1>1, <1>2, <1>3, <1>5, <1>6 DEF Only, c, Shape, ModeFields
<1>7. CASE changed /\ ~Presenting(w)
  <2>1. chrome = w.chrome
    <3>1. CASE visible
      BY <1>3, <1>4, <3>1
    <3>2. CASE ~visible
      <4>1. "sidebar" \notin w.chrome
        BY <1>4, <1>7, <3>2
      <4> QED
        BY <1>3, <3>2, <4>1
    <3> QED
      BY <3>1, <3>2
  <2> HIDE DEF chrome
  <2>2. Only(v, u, {"toggle"})
    BY <1>3, <2>1 DEF Only, Shape, ModeFields
  <2> HIDE DEF u
  <2>3. Shape(u) /\ u.meta = w.meta
    BY <1>3, <2>2 DEF Only, Shape, ModeFields
  <2>4. PICK b \in BOOLEAN : b = visible
    <3>1. visible \in BOOLEAN
      OBVIOUS
    <3> HIDE DEF visible
    <3> QED
      BY <3>1
  <2>5. visible = ("sidebar" \in Bars(w))
    BY <1>1
  <2>6. c = Remember(u, "sidebar", b) /\ "sidebar" \in MetaFields
    BY <1>2, <1>5, <1>7, <2>4 DEF MetaFields
  <2> HIDE DEF visible
  <2>7. /\ Shape(c) /\ Only(u, c, {"meta"})
        /\ Only(u.meta, c.meta, {"sidebar"}) /\ c.meta.sidebar = b
    BY <2>3, <2>4, <2>6, Remembers
  <2>8. Only(w, c, {"shown", "toggle", "meta"}) /\ c.shown = Bars(w)
    BY <1>1, <2>2, <2>7 DEF Only, Shape, ModeFields
  <2> QED
    BY <1>7, <2>3, <2>4, <2>5, <2>7, <2>8 DEF c, visible
<1> QED
  BY <1>6, <1>7

\* ev_document_model_set_page
LEMMA PageTurns ==
  ASSUME NEW w, Shape(w), w.meta.page = w.page, NEW page \in Int
  PROVE  LET c == ModelToPage(w, page)
         IN  /\ Shape(c) /\ Only(w, c, {"page", "meta"}) /\ Only(w.meta, c.meta, {"page"})
             /\ c.meta.page = c.page
             /\ c.page = w.page \/ (c.page = page /\ (w.pages # Loading => page < w.pages))
             /\ page \in 0 .. (w.pages - 1) => c.page = page
<1> DEFINE v == [w EXCEPT !.page = page]
           c == ModelToPage(w, page)
<1>1. CASE page = w.page \/ page < 0 \/ (w.pages # Loading /\ page >= w.pages)
  <2>1. c = w
    BY <1>1 DEF ModelToPage
  <2> HIDE DEF c
  <2>2. page \in 0 .. (w.pages - 1) => c.page = page
    BY <1>1, <2>1 DEF Shape
  <2> QED
    BY <2>1, <2>2 DEF Only, c
<1>2. CASE ~(page = w.page \/ page < 0 \/ (w.pages # Loading /\ page >= w.pages))
  <2>1. c = Remember(v, "page", page)
    BY <1>2 DEF ModelToPage
  <2>2. Only(w, v, {"page"}) /\ v.page = page /\ page \in Nat
    BY <1>2 DEF Only, Shape, ModeFields
  <2> HIDE DEF v, c
  <2>3. Shape(v) /\ v.meta = w.meta
    BY <2>2 DEF Only, Shape, ModeFields
  <2>4. "page" \in MetaFields /\ ("page" \in {"sidebar", "presentation"} => page \in BOOLEAN)
    BY DEF MetaFields
  <2>5. /\ Shape(c) /\ Only(v, c, {"meta"})
        /\ Only(v.meta, c.meta, {"page"}) /\ c.meta.page = page
    BY ZenonT(60), <2>1, <2>3, <2>4, Remembers
  <2>6. Only(w, c, {"page", "meta"}) /\ c.page = page
    BY <2>2, <2>5 DEF Only, Shape, ModeFields
  <2> QED
    BY <1>2, <2>3, <2>5, <2>6 DEF c, Shape
<1> QED
  BY <1>1, <1>2

\* ev_document_model_set_rotation and ev_document_model_set_continuous
LEMMA RotationTurns ==
  ASSUME NEW w, Shape(w), w.meta.rotation = w.rotation, NEW rotation
  PROVE  LET c == SetRotation(w, rotation)
         IN  /\ Shape(c) /\ Only(w, c, {"rotation", "meta"})
             /\ Only(w.meta, c.meta, {"rotation"}) /\ c.meta.rotation = c.rotation
<1> DEFINE r == Turned(rotation)
           v == [w EXCEPT !.rotation = r]
           c == SetRotation(w, rotation)
<1>1. c = IF r = w.rotation THEN w ELSE Remember(v, "rotation", r)
  BY DEF SetRotation
<1> HIDE DEF r, c
<1>2. Only(w, v, {"rotation"}) /\ v.rotation = r
  BY DEF Only, Shape, ModeFields
<1> HIDE DEF v
<1>3. Shape(v) /\ v.meta = w.meta
  BY <1>2 DEF Only, Shape, ModeFields
<1>4. CASE r = w.rotation
  BY <1>1, <1>4 DEF Only, c
<1>5. CASE r # w.rotation
  <2>1. "rotation" \in MetaFields /\ ("rotation" \in {"sidebar", "presentation"} => r \in BOOLEAN)
    BY DEF MetaFields
  <2>2. /\ Shape(c) /\ Only(v, c, {"meta"})
        /\ Only(v.meta, c.meta, {"rotation"}) /\ c.meta.rotation = r
    BY ZenonT(60), <1>1, <1>3, <1>5, <2>1, Remembers
  <2>3. Only(w, c, {"rotation", "meta"}) /\ c.rotation = r
    BY <1>2, <2>2 DEF Only, Shape, ModeFields
  <2> QED
    BY <1>3, <2>2, <2>3 DEF c
<1> QED
  BY <1>4, <1>5

\* ev_document_model_set_continuous
LEMMA ContinuousTurns ==
  ASSUME NEW w, Shape(w), w.meta.continuous = w.continuous, NEW continuous
  PROVE  LET c == SetContinuous(w, continuous)
         IN  /\ Shape(c) /\ Only(w, c, {"continuous", "meta"})
             /\ Only(w.meta, c.meta, {"continuous"}) /\ c.meta.continuous = c.continuous
<1> DEFINE v == [w EXCEPT !.continuous = continuous]
           c == SetContinuous(w, continuous)
<1>1. c = IF continuous = w.continuous THEN w ELSE Remember(v, "continuous", continuous)
  BY DEF SetContinuous
<1> HIDE DEF c
<1>2. Only(w, v, {"continuous"}) /\ v.continuous = continuous
  BY DEF Only, Shape, ModeFields
<1> HIDE DEF v
<1>3. Shape(v) /\ v.meta = w.meta
  BY <1>2 DEF Only, Shape, ModeFields
<1>4. CASE continuous = w.continuous
  BY <1>1, <1>4 DEF Only, c
<1>5. CASE continuous # w.continuous
  <2>1. "continuous" \in MetaFields
        /\ ("continuous" \in {"sidebar", "presentation"} => continuous \in BOOLEAN)
    BY DEF MetaFields
  <2>2. /\ Shape(c) /\ Only(v, c, {"meta"})
        /\ Only(v.meta, c.meta, {"continuous"}) /\ c.meta.continuous = continuous
    BY <1>1, <1>3, <1>5, <2>1, Remembers
  <2>3. Only(w, c, {"continuous", "meta"}) /\ c.continuous = continuous
    BY <1>2, <2>2 DEF Only, Shape, ModeFields
  <2> QED
    BY <1>3, <2>2, <2>3 DEF c
<1> QED
  BY <1>4, <1>5

\* One more request.
LEMMA Requests ==
  ASSUME NEW w, Shape(w), NEW full \in BOOLEAN
  PROVE  Append(w.requests, full) \in Seq(BOOLEAN)
BY DEF Shape

\* ev_window_stop_fullscreen, from a window on the way to a presentation as well.
LEMMA FullscreenStops ==
  ASSUME NEW w, Between(w), NEW unfullscreen \in BOOLEAN
  PROVE  LET c == StopFullscreen(w, unfullscreen)
         IN  /\ Between(c) /\ Only(w, c, {"fullscreen", "timer", "shown", "requests", "meta"})
             /\ ~c.fullscreen /\ Only(w.meta, c.meta, {"fullscreen"})
             /\ c.shown \in {w.shown, w.shown \cup {"toolbar"}}
             /\ ~w.fullscreen => c = w
             /\ c.requests = IF w.fullscreen /\ unfullscreen THEN Append(w.requests, FALSE)
                             ELSE w.requests
<1> DEFINE q == IF unfullscreen THEN Append(w.requests, FALSE) ELSE w.requests
           v == [w EXCEPT !.fullscreen = FALSE, !.timer = FALSE,
                          !.shown = w.shown \cup {"toolbar"}, !.requests = q]
           c == StopFullscreen(w, unfullscreen)
<1>1. PICK no \in BOOLEAN : no = FALSE
  OBVIOUS
<1>7. c = IF ~w.fullscreen THEN w ELSE Remember(v, "fullscreen", no)
  BY <1>1 DEF StopFullscreen
<1>2. q \in Seq(BOOLEAN)
  BY Requests DEF Between, Shape
<1> HIDE DEF q, c
<1>3. /\ Only(w, v, {"fullscreen", "timer", "shown", "requests"}) /\ v.fullscreen = FALSE
      /\ v.shown = w.shown \cup {"toolbar"} /\ v.requests = q
  BY DEF Only, Between, Shape, ModeFields
<1> HIDE DEF v
<1>4. Shape(v) /\ v.meta = w.meta
  BY <1>2, <1>3 DEF Only, Between, Shape, ModeFields
<1>5. CASE ~w.fullscreen
  BY <1>7, <1>5 DEF Only, c
<1>6. CASE w.fullscreen
  <2>1. "fullscreen" \in MetaFields /\ c = Remember(v, "fullscreen", no)
    BY <1>6, <1>7 DEF MetaFields
  <2>2. /\ Shape(c) /\ Only(v, c, {"meta"})
        /\ Only(v.meta, c.meta, {"fullscreen"}) /\ c.meta.fullscreen = no
    BY <1>1, <1>4, <2>1, Remembers
  <2>3. Only(w, c, {"fullscreen", "timer", "shown", "requests", "meta"})
    BY <1>3, <2>2 DEF Only, Between, Shape, ModeFields
  <2>4. c.fullscreen = FALSE /\ c.shown = w.shown \cup {"toolbar"} /\ c.requests = q
    BY <1>3, <2>2 DEF Only, Between, Shape, ModeFields
  <2>5. InRange(c) /\ OneMode(c)
    BY <2>3, <2>4 DEF Only, Between, Shape, ModeFields, InRange, OneMode, Presenting
  <2>6. Kept(c)
    <3>1. /\ c.page = w.page /\ c.rotation = w.rotation /\ c.continuous = w.continuous
          /\ c.chrome = w.chrome /\ c.pages = w.pages
      BY <2>3 DEF Only, Between, Shape, ModeFields
    <3>2. /\ c.meta.page = w.meta.page /\ c.meta.rotation = w.meta.rotation
          /\ c.meta.continuous = w.meta.continuous /\ c.meta.sidebar = w.meta.sidebar
      BY <1>4, <2>2 DEF Only, Between, Shape, MetaFields
    <3> QED
      BY <1>1, <2>2, <2>4, <3>1, <3>2 DEF Kept, Between
  <2> QED
    BY <1>4, <1>6, <2>2, <2>3, <2>4, <2>5, <2>6 DEF Between, c, q
<1> QED
  BY <1>5, <1>6

\* ev_window_stop_presentation
LEMMA PresentationStops ==
  ASSUME NEW w, Sound(w), NEW unfullscreen \in BOOLEAN
  PROVE  LET c == StopPresentation(w, unfullscreen)
         IN  /\ Sound(c) /\ ~Presenting(c)
             /\ Only(w, c, {"page", "rotation", "slides", "shown", "toggle", "inhibited",
                            "meta", "requests"})
             /\ ~Presenting(w) => c = w
             /\ c.requests = IF Presenting(w) /\ unfullscreen THEN Append(w.requests, FALSE)
                             ELSE w.requests
<1> DEFINE q == IF unfullscreen THEN Append(w.requests, FALSE) ELSE w.requests
           a == ModelToPage(w, w.slides.page)
           b == SetRotation(a, w.slides.rotation)
           x == [b EXCEPT !.slides = NoSlides]
           l == UpdateChrome(x)
           v == [l EXCEPT !.inhibited = FALSE, !.requests =
                            IF unfullscreen THEN Append(l.requests, FALSE) ELSE l.requests]
           c == StopPresentation(w, unfullscreen)
<1>1. PICK no \in BOOLEAN : no = FALSE
  OBVIOUS
<1>2. c = IF ~Presenting(w) THEN w ELSE Remember(v, "presentation", no)
  BY <1>1 DEF StopPresentation
<1>3. q \in Seq(BOOLEAN)
  BY Requests DEF Sound, Between, Shape
<1> HIDE DEF c, q
<1>4. CASE ~Presenting(w)
  BY <1>2, <1>4 DEF Only, c
<1>5. CASE Presenting(w)
  <2>1. /\ Shape(w) /\ w.pages # Loading /\ w.slides.page \in 0 .. (w.pages - 1)
        /\ w.meta.page = w.page /\ w.page < w.pages /\ "sidebar" \notin w.shown
        /\ w.meta.rotation = w.rotation /\ w.meta.sidebar = ("sidebar" \in w.chrome)
    BY <1>5 DEF Sound, Between, InRange, Kept, Fits
  <2>2. /\ Shape(a) /\ Only(w, a, {"page", "meta"}) /\ Only(w.meta, a.meta, {"page"})
        /\ a.meta.page = a.page /\ a.page < w.pages
    <3>1. w.slides.page \in Int
      BY <2>1 DEF Shape
    <3>2. /\ Shape(a) /\ Only(w, a, {"page", "meta"}) /\ Only(w.meta, a.meta, {"page"})
          /\ a.meta.page = a.page
          /\ w.slides.page \in 0 .. (w.pages - 1) => a.page = w.slides.page
      BY <2>1, <3>1, PageTurns
    <3> HIDE DEF a
    <3> QED
      BY <2>1, <3>2 DEF Shape
  <2> HIDE DEF a
  <2>3. a.meta.rotation = a.rotation
    BY <2>1, <2>2 DEF Only, Shape, ModeFields, MetaFields
  <2>4. /\ Shape(b) /\ Only(a, b, {"rotation", "meta"}) /\ Only(a.meta, b.meta, {"rotation"})
        /\ b.meta.rotation = b.rotation
    BY <2>2, <2>3, RotationTurns
  <2> HIDE DEF b
  <2>5. Only(b, x, {"slides"}) /\ x.slides = NoSlides /\ DOMAIN NoSlides = {"page", "rotation"}
    BY <2>4 DEF Only, Shape, ModeFields, NoSlides
  <2> HIDE DEF x
  <2>6. Shape(x) /\ ~Presenting(x)
    BY <2>4, <2>5 DEF Only, Shape, ModeFields, Presenting
  <2>7. /\ Only(w, x, {"page", "rotation", "meta", "slides"}) /\ x.page < w.pages
        /\ Only(w.meta, x.meta, {"page", "rotation"})
        /\ x.meta.page = x.page /\ x.meta.rotation = x.rotation
    <3>1. Only(w, x, {"page", "rotation", "meta", "slides"})
      BY <2>2, <2>4, <2>5 DEF Only
    <3>2. x.page = a.page /\ x.rotation = b.rotation /\ x.meta = b.meta
      BY <2>2, <2>4, <2>5 DEF Only, Shape, ModeFields
    <3>3. Only(w.meta, x.meta, {"page", "rotation"})
      BY <2>2, <2>4, <3>2 DEF Only
    <3>4. x.meta.page = a.meta.page
      BY <2>2, <2>4, <3>2 DEF Only, Shape, MetaFields
    <3> QED
      BY <2>2, <2>4, <3>1, <3>2, <3>3, <3>4
  <2>8. x.pages = w.pages /\ x.shown = w.shown /\ x.chrome = w.chrome /\ x.requests = w.requests
    BY <2>1, <2>7 DEF Only, Shape, ModeFields
  <2>9. x.meta.sidebar = w.meta.sidebar
    BY <2>1, <2>7 DEF Only, Shape, MetaFields
  <2>10. /\ Shape(l) /\ Only(x, l, {"shown", "toggle", "meta"})
         /\ l.shown = Bars(x) /\ Only(x.meta, l.meta, {"sidebar"})
         /\ l.meta.sidebar =
              IF (("sidebar" \in x.shown) = ("sidebar" \in Bars(x))) \/ Presenting(x)
              THEN x.meta.sidebar ELSE "sidebar" \in Bars(x)
    BY <2>1, <2>6, <2>8, ChromeUpdates
  <2> HIDE DEF l
  <2>11. /\ "sidebar" \in Bars(x) <=> "sidebar" \in w.chrome
         /\ "findbar" \in Bars(x) <=> "findbar" \in w.chrome
    BY <2>1, <2>6, <2>8 DEF Bars
  <2>12. l.meta.sidebar = ("sidebar" \in w.chrome)
    BY <2>1, <2>6, <2>8, <2>9, <2>10, <2>11
  <2>13. l.requests = w.requests
    BY <2>6, <2>8, <2>10 DEF Only, Shape, ModeFields
  <2>14. /\ Only(l, v, {"inhibited", "requests"}) /\ v.inhibited = FALSE /\ v.requests = q
    BY <2>10, <2>13 DEF Only, Shape, ModeFields, q
  <2> HIDE DEF v
  <2>15. Shape(v) /\ v.meta = l.meta /\ "presentation" \in MetaFields
    BY <1>3, <2>10, <2>14 DEF Only, Shape, ModeFields, MetaFields
  <2>16. c = Remember(v, "presentation", no)
    BY <1>2, <1>5
  <2>17. /\ Shape(c) /\ Only(v, c, {"meta"})
         /\ Only(v.meta, c.meta, {"presentation"}) /\ c.meta.presentation = no
    BY <1>1, <2>15, <2>16, RemembersFlag
  <2>18. Only(w, c, {"page", "rotation", "slides", "shown", "toggle", "inhibited", "meta",
                     "requests"})
    BY <2>7, <2>10, <2>14, <2>17 DEF Only
  <2>19. /\ c.page = x.page /\ c.rotation = x.rotation /\ c.slides = NoSlides
         /\ c.shown = Bars(x) /\ c.inhibited = FALSE /\ c.requests = q
    BY ZenonT(60), <2>5, <2>6, <2>10, <2>14, <2>17 DEF Only, Shape, ModeFields
  <2>20. /\ c.meta.page = c.page /\ c.meta.rotation = c.rotation
         /\ c.meta.fullscreen = w.meta.fullscreen /\ c.meta.continuous = w.meta.continuous
         /\ c.meta.sidebar = ("sidebar" \in w.chrome)
    <3>1. /\ c.meta.page = l.meta.page /\ c.meta.rotation = l.meta.rotation
          /\ c.meta.fullscreen = l.meta.fullscreen /\ c.meta.continuous = l.meta.continuous
          /\ c.meta.sidebar = l.meta.sidebar
      BY <2>15, <2>17 DEF Only, Shape, MetaFields
    <3>2. /\ l.meta.page = x.meta.page /\ l.meta.rotation = x.meta.rotation
          /\ l.meta.fullscreen = x.meta.fullscreen /\ l.meta.continuous = x.meta.continuous
      BY <2>6, <2>10 DEF Only, Shape, MetaFields
    <3>3. /\ x.meta.fullscreen = w.meta.fullscreen /\ x.meta.continuous = w.meta.continuous
      BY <2>1, <2>7 DEF Only, Shape, MetaFields
    <3> QED
      BY <2>7, <2>12, <2>19, <3>1, <3>2, <3>3
  <2>21. /\ c.pages = w.pages /\ c.fullscreen = w.fullscreen /\ c.chrome = w.chrome
         /\ c.continuous = w.continuous /\ c.setup = w.setup
    BY <2>1, <2>18 DEF Only, Shape, ModeFields
  <2>22. ~Presenting(c)
    BY <2>19 DEF Presenting
  <2>23. InRange(c) /\ OneMode(c) /\ Kept(c)
    BY <2>1, <2>7, <2>19, <2>20, <2>21, <2>22 DEF Sound, Between, InRange, OneMode, Kept
  <2>24. Fits(c)
    <3>1. ("sidebar" \in c.shown) = ("sidebar" \in c.chrome /\ c.pages # Loading /\ ~Presenting(c))
      BY <2>1, <2>11, <2>19, <2>21, <2>22
    <3>2. ("findbar" \in c.shown) = ("findbar" \in c.chrome)
      BY <2>11, <2>19, <2>21
    <3>3. c.meta.presentation = Presenting(c)
      BY <1>1, <2>17, <2>22 DEF Presenting
    <3> QED
      BY <2>19, <2>22, <3>1, <3>2, <3>3 DEF Fits
  <2> QED
    BY <1>5, <2>17, <2>18, <2>19, <2>22, <2>23, <2>24 DEF Sound, Between, c, q
<1> QED
  BY <1>4, <1>5

\* ev_window_run_fullscreen
LEMMA FullscreenRuns ==
  ASSUME NEW w, Sound(w)
  PROVE  LET c == RunFullscreen(w)
         IN  /\ Sound(c) /\ c.fullscreen
             /\ Only(w, c, {"fullscreen", "timer", "shown", "requests", "meta", "page",
                            "rotation", "slides", "toggle", "inhibited"})
             /\ w.fullscreen => c = w
             /\ c.requests = IF w.fullscreen \/ Presenting(w) THEN w.requests
                             ELSE Append(w.requests, TRUE)
<1> DEFINE v == StopPresentation(w, FALSE)
           full == [v EXCEPT !.fullscreen = TRUE]
           q == IF Presenting(w) THEN v.requests ELSE Append(v.requests, TRUE)
           x == [full EXCEPT !.shown = full.shown \cup {"toolbar"}, !.timer = TRUE]
           u == [x EXCEPT !.requests = IF Presenting(w) THEN x.requests
                                       ELSE Append(x.requests, TRUE)]
           c == RunFullscreen(w)
<1>1. PICK yes \in BOOLEAN : yes = TRUE
  OBVIOUS
<1>2. c = IF w.fullscreen THEN w ELSE Remember(u, "fullscreen", yes)
  BY <1>1 DEF RunFullscreen, ShowToolbar
<1> HIDE DEF c
<1>3. CASE w.fullscreen
  BY <1>2, <1>3 DEF Only, c
<1>4. CASE ~w.fullscreen
  <2>1. /\ Sound(v) /\ ~Presenting(v) /\ v.requests = w.requests
        /\ Only(w, v, {"page", "rotation", "slides", "shown", "toggle", "inhibited",
                       "meta", "requests"})
    BY PresentationStops
  <2> HIDE DEF v
  <2>2. Shape(v) /\ InRange(v) /\ Kept(v) /\ Fits(v)
    BY <2>1 DEF Sound, Between
  <2>3. q \in Seq(BOOLEAN)
    BY <2>2, Requests DEF Shape
  <2>4. Only(v, full, {"fullscreen"}) /\ full.fullscreen = TRUE /\ DOMAIN full = ModeFields
    BY <2>2 DEF Only, Shape, ModeFields
  <2> HIDE DEF full
  <2>5. full.shown = v.shown
    BY <2>4 DEF Only, ModeFields
  <2>6. Only(full, x, {"shown", "timer"}) /\ x.shown = v.shown \cup {"toolbar"}
        /\ DOMAIN x = ModeFields
    BY <2>4, <2>5 DEF Only, ModeFields
  <2> HIDE DEF x
  <2>7. x.requests = v.requests
    BY <2>4, <2>6 DEF Only, ModeFields
  <2>8. Only(x, u, {"requests"}) /\ u.requests = q
    BY <2>6, <2>7 DEF Only, ModeFields
  <2> HIDE DEF u, q
  <2>9. /\ Only(v, u, {"fullscreen", "shown", "timer", "requests"}) /\ u.fullscreen = TRUE
        /\ u.shown = v.shown \cup {"toolbar"} /\ u.requests = q
    BY <2>4, <2>6, <2>8 DEF Only, ModeFields
  <2>10. Shape(u) /\ u.meta = v.meta /\ "fullscreen" \in MetaFields
    BY <2>2, <2>3, <2>9 DEF Only, Shape, ModeFields, MetaFields
  <2>11. c = Remember(u, "fullscreen", yes)
    BY <1>2, <1>4
  <2>12. /\ Shape(c) /\ Only(u, c, {"meta"})
         /\ Only(u.meta, c.meta, {"fullscreen"}) /\ c.meta.fullscreen = yes
    BY <1>1, <2>10, <2>11, RemembersFlag
  <2>13. Only(v, c, {"fullscreen", "shown", "timer", "requests", "meta"})
    BY <2>9, <2>12 DEF Only
  <2>14. Only(w, c, {"fullscreen", "timer", "shown", "requests", "meta", "page",
                     "rotation", "slides", "toggle", "inhibited"})
    BY <2>1, <2>13 DEF Only
  <2>15. /\ c.fullscreen = TRUE /\ c.shown = v.shown \cup {"toolbar"} /\ c.requests = q
    BY <2>9, <2>10, <2>12 DEF Only, Shape, ModeFields
  <2>16. /\ c.page = v.page /\ c.rotation = v.rotation /\ c.continuous = v.continuous
         /\ c.chrome = v.chrome /\ c.pages = v.pages /\ c.slides = v.slides
         /\ c.setup = v.setup /\ c.inhibited = v.inhibited
    BY <2>2, <2>13 DEF Only, Shape, ModeFields
  <2>17. /\ c.meta.page = v.meta.page /\ c.meta.rotation = v.meta.rotation
         /\ c.meta.continuous = v.meta.continuous /\ c.meta.sidebar = v.meta.sidebar
         /\ c.meta.presentation = v.meta.presentation
    BY <2>10, <2>12 DEF Only, Shape, MetaFields
  <2>18. ~Presenting(c)
    BY <2>1, <2>16 DEF Presenting
  <2>19. InRange(c) /\ OneMode(c)
    BY <2>2, <2>16, <2>18 DEF InRange, OneMode
  <2>20. Kept(c)
    BY <1>1, <2>2, <2>12, <2>15, <2>16, <2>17 DEF Kept
  <2>21. Fits(c)
    <3>1. "sidebar" \in c.shown <=> "sidebar" \in v.shown
      BY <2>15
    <3>2. "findbar" \in c.shown <=> "findbar" \in v.shown
      BY <2>15
    <3> QED
      BY <2>1, <2>2, <2>16, <2>17, <2>18, <3>1, <3>2 DEF Fits, Presenting
  <2> QED
    BY <1>4, <2>1, <2>12, <2>14, <2>15, <2>19, <2>20, <2>21 DEF Sound, Between, c, q
<1> QED
  BY <1>3, <1>4

\* ev_window_run_presentation, of a window that has its document.
LEMMA PresentationRuns ==
  ASSUME NEW w, Between(w), w.pages # Loading, ~Presenting(w)
  PROVE  LET c == RunPresentation(w)
         IN  /\ Sound(c) /\ Presenting(c)
             /\ Only(w, c, {"fullscreen", "timer", "shown", "requests", "meta", "slides",
                            "toggle", "inhibited"})
             /\ c.requests = IF w.fullscreen THEN w.requests ELSE Append(w.requests, TRUE)
<1> DEFINE v == StopFullscreen(w, FALSE)
           first == [page |-> v.page, rotation |-> v.rotation]
           x == [v EXCEPT !.slides = first]
           b == UpdateChrome(x)
           q == IF w.fullscreen THEN w.requests ELSE Append(w.requests, TRUE)
           u == [b EXCEPT !.inhibited = TRUE,
                   !.requests = IF w.fullscreen THEN b.requests ELSE Append(b.requests, TRUE)]
           c == RunPresentation(w)
<1>1. PICK yes \in BOOLEAN : yes = TRUE
  OBVIOUS
<1>2. c = Remember(u, "presentation", yes)
  BY <1>1 DEF RunPresentation
<1> HIDE DEF c
<1>3. /\ Between(v) /\ Only(w, v, {"fullscreen", "timer", "shown", "requests", "meta"})
      /\ ~v.fullscreen /\ Only(w.meta, v.meta, {"fullscreen"})
      /\ v.requests = w.requests
  BY FullscreenStops
<1> HIDE DEF v
<1>4. Shape(v) /\ InRange(v) /\ Kept(v) /\ v.pages # Loading
  BY <1>3 DEF Between, Only, Shape, ModeFields
<1>5. /\ DOMAIN first = {"page", "rotation"} /\ first.page = v.page /\ first # NoSlides
      /\ first.page \in 0 .. (v.pages - 1)
  BY <1>4, Slides DEF Shape, InRange
<1> HIDE DEF first
<1>6. Only(v, x, {"slides"}) /\ x.slides = first
  BY <1>4 DEF Only, Shape, ModeFields
<1> HIDE DEF x
<1>7. Shape(x) /\ Presenting(x) /\ x.pages = v.pages /\ x.chrome = v.chrome /\ x.meta = v.meta
      /\ x.requests = w.requests
  BY <1>3, <1>4, <1>5, <1>6 DEF Only, Shape, ModeFields, Presenting
<1>8. /\ Shape(b) /\ Only(x, b, {"shown", "toggle", "meta"})
      /\ b.shown = Bars(x) /\ Only(x.meta, b.meta, {"sidebar"})
      /\ b.meta.sidebar = x.meta.sidebar
  BY <1>4, <1>7, ChromeUpdates
<1> HIDE DEF b
<1>9. Bars(x) = v.chrome \cap {"findbar"}
  BY <1>7 DEF Bars
<1>10. q \in Seq(BOOLEAN) /\ b.requests = w.requests
  BY <1>7, <1>8, Requests DEF Only, Between, Shape, ModeFields
<1>11. /\ Only(b, u, {"inhibited", "requests"}) /\ u.inhibited = TRUE /\ u.requests = q
  BY <1>8, <1>10 DEF Only, Shape, ModeFields
<1> HIDE DEF u, q
<1>12. Shape(u) /\ u.meta = b.meta /\ "presentation" \in MetaFields
  BY <1>8, <1>10, <1>11 DEF Only, Shape, ModeFields, MetaFields
<1>13. /\ Shape(c) /\ Only(u, c, {"meta"})
       /\ Only(u.meta, c.meta, {"presentation"}) /\ c.meta.presentation = yes
  BY <1>1, <1>2, <1>12, RemembersFlag
<1>14. Only(v, c, {"slides", "shown", "toggle", "meta", "inhibited", "requests"})
  BY <1>6, <1>8, <1>11, <1>13 DEF Only
<1>15. Only(w, c, {"fullscreen", "timer", "shown", "requests", "meta", "slides",
                   "toggle", "inhibited"})
  BY <1>3, <1>14 DEF Only
<1>16. /\ c.slides = first /\ c.shown = v.chrome \cap {"findbar"} /\ c.inhibited = TRUE
       /\ c.requests = q
  <2>1. c.slides = u.slides /\ c.shown = u.shown /\ c.inhibited = u.inhibited
        /\ c.requests = u.requests
    BY <1>12, <1>13 DEF Only, Shape, ModeFields
  <2>2. u.slides = b.slides /\ u.shown = b.shown
    BY <1>8, <1>11 DEF Only, Shape, ModeFields
  <2>3. b.slides = x.slides
    BY <1>7, <1>8 DEF Only, Shape, ModeFields
  <2> QED
    BY <1>6, <1>8, <1>9, <1>11, <2>1, <2>2, <2>3
<1>17. /\ c.page = v.page /\ c.rotation = v.rotation /\ c.continuous = v.continuous
       /\ c.chrome = v.chrome /\ c.pages = v.pages /\ c.fullscreen = v.fullscreen
       /\ c.setup = v.setup
  BY <1>4, <1>14 DEF Only, Shape, ModeFields
<1>18. /\ c.meta.page = v.meta.page /\ c.meta.rotation = v.meta.rotation
       /\ c.meta.continuous = v.meta.continuous /\ c.meta.fullscreen = v.meta.fullscreen
       /\ c.meta.sidebar = v.meta.sidebar
  <2>1. /\ c.meta.page = b.meta.page /\ c.meta.rotation = b.meta.rotation
        /\ c.meta.continuous = b.meta.continuous /\ c.meta.fullscreen = b.meta.fullscreen
        /\ c.meta.sidebar = b.meta.sidebar
    BY <1>12, <1>13 DEF Only, Shape, MetaFields
  <2>2. /\ b.meta.page = x.meta.page /\ b.meta.rotation = x.meta.rotation
        /\ b.meta.continuous = x.meta.continuous /\ b.meta.fullscreen = x.meta.fullscreen
    BY <1>7, <1>8 DEF Only, Shape, MetaFields
  <2> QED
    BY <1>7, <1>8, <2>1, <2>2
<1>19. Presenting(c)
  BY <1>5, <1>16 DEF Presenting
<1>20. InRange(c) /\ OneMode(c)
  BY <1>3, <1>4, <1>5, <1>16, <1>17 DEF InRange, OneMode
<1>21. Kept(c)
  BY <1>4, <1>17, <1>18 DEF Kept
<1>22. Fits(c)
  <2>1. "sidebar" \notin c.shown /\ "toolbar" \notin c.shown
    BY <1>16
  <2>2. ("findbar" \in c.shown) = ("findbar" \in c.chrome)
    BY <1>16, <1>17
  <2>3. c.meta.presentation = Presenting(c)
    BY <1>1, <1>13, <1>19 DEF Presenting
  <2> QED
    BY <1>19, <2>1, <2>2, <2>3 DEF Fits
<1> QED
  BY <1>13, <1>15, <1>16, <1>19, <1>20, <1>21, <1>22 DEF Sound, Between, c, q

-----------------------------------------------------------------------------
(* Documents.                                                              *)

\* A presentation that is to be, and one of a document that is loaded.
LEMMA PresentationStays ==
  ASSUME NEW w, Sound(w), w.pages # Loading
  PROVE  LET c == RunPresentation(w)
         IN  /\ Sound(c) /\ Presenting(c)
             /\ Only(w, c, {"fullscreen", "timer", "shown", "requests", "meta", "slides",
                            "toggle", "inhibited"})
             /\ Presenting(w) => c = w
             /\ c.requests = IF w.fullscreen \/ Presenting(w) THEN w.requests
                             ELSE Append(w.requests, TRUE)
<1> DEFINE c == RunPresentation(w)
<1>1. CASE Presenting(w)
  <2>1. c = w
    BY <1>1 DEF RunPresentation
  <2> HIDE DEF c
  <2> QED
    BY <1>1, <2>1 DEF Only, c
<1>2. CASE ~Presenting(w)
  <2>1. /\ Sound(c) /\ Presenting(c)
        /\ Only(w, c, {"fullscreen", "timer", "shown", "requests", "meta", "slides",
                       "toggle", "inhibited"})
        /\ c.requests = IF w.fullscreen THEN w.requests ELSE Append(w.requests, TRUE)
    BY <1>2, PresentationRuns DEF Sound
  <2> HIDE DEF c
  <2> QED
    BY <1>2, <2>1 DEF c
<1> QED
  BY <1>1, <1>2

\* What does not depend on the mode: the events, the calls of the user, the find bar.
Steady(w, c) ==
  /\ c.full = w.full /\ c.events = w.events /\ c.asked = w.asked /\ c.hasty = w.hasty
  /\ c.closed = w.closed /\ c.frozen = w.frozen /\ c.paned = w.paned
  /\ ("findbar" \in c.chrome) = ("findbar" \in w.chrome)

\* A mode that fills the screen is asked for where none does.
Rises(w, c) ==
  IF Full(w) THEN c.requests = w.requests /\ Full(c)
  ELSE \/ c.requests = w.requests /\ Mode(c) = Mode(w)
       \/ c.requests = Append(w.requests, TRUE) /\ Full(c)

\* What two steps ask for one after the other.
LEMMA RisesOn ==
  ASSUME NEW w, NEW v, NEW c, Rises(w, v), Rises(v, c)
  PROVE  Rises(w, c)
BY DEF Rises, Full

\* A mode that a document or the command line asks for.
LEMMA ModeRuns ==
  ASSUME NEW w, Sound(w), w.pages # Loading, NEW mode
  PROVE  LET c == RunMode(w, mode)
         IN  Sound(c) /\ Steady(w, c) /\ Rises(w, c) /\ c.pages = w.pages
             /\ c.setup = w.setup
<1> DEFINE c == RunMode(w, mode)
<1>1. Shape(w) /\ w.fullscreen \in BOOLEAN
  BY DEF Sound, Between, Shape
<1>2. CASE mode = "slides"
  <2>1. c = RunPresentation(w)
    BY <1>2 DEF RunMode
  <2> HIDE DEF c
  <2>2. /\ Sound(c) /\ Presenting(c)
        /\ Only(w, c, {"fullscreen", "timer", "shown", "requests", "meta", "slides",
                       "toggle", "inhibited"})
        /\ c.requests = IF w.fullscreen \/ Presenting(w) THEN w.requests
                        ELSE Append(w.requests, TRUE)
    BY <2>1, PresentationStays
  <2>3. Steady(w, c) /\ c.pages = w.pages /\ c.setup = w.setup
    BY <1>1, <2>2 DEF Only, Shape, ModeFields, Steady
  <2>4. Rises(w, c)
    BY <2>2 DEF Rises, Full, Mode
  <2> QED
    BY <2>2, <2>3, <2>4 DEF c
<1>3. CASE mode = "full"
  <2>1. c = RunFullscreen(w)
    BY <1>3 DEF RunMode
  <2> HIDE DEF c
  <2>2. /\ Sound(c) /\ c.fullscreen
        /\ Only(w, c, {"fullscreen", "timer", "shown", "requests", "meta", "page",
                       "rotation", "slides", "toggle", "inhibited"})
        /\ c.requests = IF w.fullscreen \/ Presenting(w) THEN w.requests
                        ELSE Append(w.requests, TRUE)
    BY <2>1, FullscreenRuns
  <2>3. Steady(w, c) /\ c.pages = w.pages /\ c.setup = w.setup
    BY <1>1, <2>2 DEF Only, Shape, ModeFields, Steady
  <2>4. Rises(w, c)
    BY <2>2 DEF Rises, Full, Mode
  <2> QED
    BY <2>2, <2>3, <2>4 DEF c
<1>4. CASE mode \notin {"slides", "full"}
  <2>1. c = w
    BY <1>4 DEF RunMode
  <2> HIDE DEF c
  <2> QED
    BY <2>1 DEF Steady, Rises, c
<1> QED
  BY <1>2, <1>3, <1>4

\* ev_window_set_document: the page is one of the new document.
LEMMA Clamps ==
  ASSUME NEW w, Shape(w), w.meta.page = w.page, NEW pages \in Nat \ {0}
  PROVE  LET c == ModelToPage([w EXCEPT !.pages = pages],
                              IF w.page >= pages THEN pages - 1 ELSE w.page)
         IN  /\ Shape(c) /\ Only(w, c, {"pages", "page", "meta"})
             /\ Only(w.meta, c.meta, {"page"}) /\ c.meta.page = c.page
             /\ c.pages = pages /\ c.page < pages
<1> DEFINE a == [w EXCEPT !.pages = pages]
           page == IF w.page >= pages THEN pages - 1 ELSE w.page
           c == ModelToPage(a, page)
<1>1. Only(w, a, {"pages"}) /\ a.pages = pages
  BY DEF Only, Shape, ModeFields
<1>2. page \in 0 .. (pages - 1) /\ page \in Int
  BY DEF Shape
<1> HIDE DEF a, page
<1>3. Shape(a) /\ a.meta = w.meta /\ a.meta.page = a.page
  BY <1>1 DEF Only, Shape, ModeFields
<1>4. /\ Shape(c) /\ Only(a, c, {"page", "meta"}) /\ Only(a.meta, c.meta, {"page"})
      /\ c.meta.page = c.page /\ (page \in 0 .. (a.pages - 1) => c.page = page)
  BY <1>2, <1>3, PageTurns
<1> HIDE DEF c
<1>5. Only(w, c, {"pages", "page", "meta"}) /\ c.pages = pages
  BY <1>1, <1>3, <1>4 DEF Only, Shape, ModeFields
<1>6. c.page < pages
  BY <1>1, <1>2, <1>4
<1> QED
  BY <1>3, <1>4, <1>5, <1>6 DEF c, a, page

\* The same for a window that shows a document already.
LEMMA ShowsAgain ==
  ASSUME NEW w, Sound(w), w.pages # Loading, NEW pages \in Nat \ {0}
  PROVE  LET c == ShowDocumentIn(w, pages)
         IN  /\ Sound(c) /\ Steady(w, c) /\ Mode(c) = Mode(w)
             /\ c.requests = IF Presenting(w) THEN Append(w.requests, TRUE) ELSE w.requests
<1> DEFINE b == ModelToPage([w EXCEPT !.pages = pages],
                            IF w.page >= pages THEN pages - 1 ELSE w.page)
           x == [b EXCEPT !.slides = NoSlides]
           e == ModelToPage(x, w.slides.page)
           d == IF Presenting(w) THEN RunPresentation(e) ELSE b
           c == ShowDocumentIn(w, pages)
<1>1. c = [d EXCEPT !.setup = TRUE]
  BY DEF ShowDocumentIn
<1> HIDE DEF c
<1>2. /\ Shape(w) /\ InRange(w) /\ Kept(w) /\ Fits(w) /\ OneMode(w)
      /\ w.meta.sidebar = ("sidebar" \in w.chrome)
      /\ w.meta.presentation = Presenting(w)
  BY DEF Sound, Between, Kept, Fits
<1>3. pages # Loading
  BY DEF Loading
<1>4. /\ Shape(b) /\ Only(w, b, {"pages", "page", "meta"})
      /\ Only(w.meta, b.meta, {"page"}) /\ b.meta.page = b.page
      /\ b.pages = pages /\ b.page < pages
  BY <1>2, Clamps DEF Kept
<1> HIDE DEF b
<1>5. /\ b.rotation = w.rotation /\ b.continuous = w.continuous /\ b.chrome = w.chrome
      /\ b.fullscreen = w.fullscreen /\ b.slides = w.slides /\ b.setup = w.setup
      /\ b.shown = w.shown /\ b.inhibited = w.inhibited /\ b.requests = w.requests
      /\ Steady(w, b)
  BY <1>2, <1>4 DEF Only, Shape, ModeFields, Steady
<1>6. /\ b.meta.rotation = w.meta.rotation /\ b.meta.continuous = w.meta.continuous
      /\ b.meta.fullscreen = w.meta.fullscreen /\ b.meta.sidebar = w.meta.sidebar
      /\ b.meta.presentation = w.meta.presentation
  BY <1>2, <1>4 DEF Only, Shape, MetaFields
<1>7. Kept(b)
  BY <1>2, <1>4, <1>5, <1>6 DEF Kept
<1>8. /\ Sound(d) /\ Steady(w, d) /\ Mode(d) = Mode(w) /\ d.pages = pages
      /\ d.requests = IF Presenting(w) THEN Append(w.requests, TRUE) ELSE w.requests
  <2>1. CASE ~Presenting(w)
    <3>1. d = b /\ ~Presenting(b) /\ Mode(b) = Mode(w)
      BY <1>5, <2>1 DEF Presenting, Mode
    <3> HIDE DEF d
    <3>2. InRange(b) /\ OneMode(b)
      BY <1>3, <1>4, <3>1 DEF InRange, OneMode
    <3>3. Fits(b)
      BY <1>2, <1>3, <1>4, <1>5, <1>6, <2>1, <3>1 DEF Fits, Presenting
    <3> QED
      BY <1>4, <1>5, <1>7, <2>1, <3>1, <3>2, <3>3 DEF Sound, Between
  <2>2. CASE Presenting(w)
    <3>1. Only(b, x, {"slides"}) /\ x.slides = NoSlides /\ DOMAIN NoSlides = {"page", "rotation"}
      BY <1>4 DEF Only, Shape, ModeFields, NoSlides
    <3> HIDE DEF x
    <3>2. Shape(x) /\ x.meta = b.meta /\ x.page = b.page /\ w.slides.page \in Int
      <4>1. Shape(x) /\ x.meta = b.meta /\ x.page = b.page
        BY <1>4, <3>1 DEF Only, Shape, ModeFields
      <4>2. w.slides.page \in Int
        BY <1>2, <2>2 DEF InRange, Shape
      <4> QED
        BY <4>1, <4>2
    <3>3. /\ Shape(e) /\ Only(x, e, {"page", "meta"}) /\ Only(x.meta, e.meta, {"page"})
          /\ e.meta.page = e.page
          /\ e.page = x.page \/ (e.page = w.slides.page
                                 /\ (x.pages # Loading => w.slides.page < x.pages))
      BY <1>4, <3>2, PageTurns
    <3> HIDE DEF e
    <3>4. /\ e.rotation = b.rotation /\ e.continuous = b.continuous /\ e.chrome = b.chrome
          /\ e.fullscreen = b.fullscreen /\ e.slides = NoSlides /\ e.setup = b.setup
          /\ e.requests = b.requests /\ e.pages = pages /\ x.pages = pages
      BY ZenonT(60), <1>4, <3>1, <3>2, <3>3 DEF Only, Shape, ModeFields
    <3>5. /\ e.meta.rotation = b.meta.rotation /\ e.meta.continuous = b.meta.continuous
          /\ e.meta.fullscreen = b.meta.fullscreen /\ e.meta.sidebar = b.meta.sidebar
      BY <3>2, <3>3 DEF Only, Shape, MetaFields
    <3>6. ~Presenting(e) /\ InRange(e) /\ OneMode(e)
      BY <1>3, <1>4, <3>2, <3>3, <3>4 DEF Presenting, InRange, OneMode
    <3>7. Kept(e)
      BY <1>3, <1>4, <1>7, <3>3, <3>4, <3>5 DEF Kept
    <3>8. ~e.fullscreen
      BY <1>2, <1>5, <2>2, <3>4 DEF OneMode
    <3>9. /\ Sound(d) /\ Presenting(d) /\ d.requests = Append(e.requests, TRUE)
          /\ Only(e, d, {"fullscreen", "timer", "shown", "requests", "meta", "slides",
                         "toggle", "inhibited"})
      BY <1>3, <2>2, <3>3, <3>4, <3>6, <3>7, <3>8, PresentationRuns DEF Between
    <3> HIDE DEF d
    <3>10. d.pages = pages /\ Steady(e, d)
      BY <3>3, <3>4, <3>9 DEF Only, Shape, ModeFields, Steady
    <3>11. Steady(b, e)
      <4>1. Only(b, e, {"slides", "page", "meta"})
        BY <3>1, <3>3 DEF Only
      <4> QED
        BY <1>4, <4>1 DEF Only, Shape, ModeFields, Steady
    <3> QED
      BY <1>5, <2>2, <3>4, <3>9, <3>10, <3>11 DEF Steady, Mode
  <2> QED
    BY <2>1, <2>2
<1> HIDE DEF d
<1>9. Only(d, c, {"setup"}) /\ c.setup = TRUE /\ Shape(d)
  BY <1>1, <1>8 DEF Only, Sound, Between, Shape, ModeFields
<1>10. /\ Shape(c) /\ Steady(d, c) /\ Mode(c) = Mode(d) /\ c.requests = d.requests
       /\ Presenting(c) = Presenting(d)
  BY <1>9 DEF Only, Shape, ModeFields, Steady, Mode, Presenting
<1>11. /\ c.pages = d.pages /\ c.page = d.page /\ c.slides = d.slides /\ c.meta = d.meta
       /\ c.chrome = d.chrome /\ c.shown = d.shown /\ c.fullscreen = d.fullscreen
       /\ c.rotation = d.rotation /\ c.continuous = d.continuous /\ c.inhibited = d.inhibited
  BY <1>9 DEF Only, Shape, ModeFields
<1>12. InRange(c) /\ OneMode(c) /\ Kept(c)
  BY <1>3, <1>8, <1>9, <1>10, <1>11 DEF Sound, Between, InRange, OneMode, Kept
<1>13. Fits(c)
  BY <1>8, <1>10, <1>11 DEF Sound, Fits
<1> QED
  BY <1>8, <1>10, <1>12, <1>13 DEF Sound, Between, Steady, c

\* ev_window_load_job_cb: the first document of the window.
LEMMA Loads ==
  ASSUME NEW w, Sound(w), w.pages = Loading, NEW pages \in Nat \ {0}, NEW mode
  PROVE  LET c == DocumentLoaded(w, pages, mode)
         IN  Sound(c) /\ Steady(w, c) /\ Rises(w, c)
<1> DEFINE b == ModelToPage([w EXCEPT !.pages = pages],
                            IF w.page >= pages THEN pages - 1 ELSE w.page)
           s == [b EXCEPT !.setup = TRUE]
           chrome == IF s.meta.sidebar THEN s.chrome \cup {"sidebar"} ELSE s.chrome \ {"sidebar"}
           t == [s EXCEPT !.chrome = chrome]
           l == UpdateChrome(t)
           d == IF l.page = l.pages - 1 THEN ModelToPage(l, 0) ELSE l
           r == IF w.meta.presentation THEN RunPresentation(d) ELSE d
           c == DocumentLoaded(w, pages, mode)
<1>1. /\ Shape(w) /\ InRange(w) /\ Kept(w) /\ Fits(w) /\ OneMode(w) /\ ~Presenting(w)
      /\ "sidebar" \notin w.shown /\ ~w.inhibited /\ pages # Loading
  BY DEF Sound, Between, InRange, Fits, Loading
<1>2. c = RunMode(r, mode)
  BY <1>1 DEF DocumentLoaded, SetupDocument, SetupChrome, ShowDocumentIn
<1> HIDE DEF c
<1>3. /\ Shape(b) /\ Only(w, b, {"pages", "page", "meta"})
      /\ Only(w.meta, b.meta, {"page"}) /\ b.meta.page = b.page
      /\ b.pages = pages /\ b.page < pages
  BY <1>1, Clamps DEF Kept
<1> HIDE DEF b
<1>4. Only(b, s, {"setup"}) /\ s.setup = TRUE
  BY <1>3 DEF Only, Shape, ModeFields
<1> HIDE DEF s
<1>5. Shape(s) /\ s.meta = b.meta
  BY <1>3, <1>4 DEF Only, Shape, ModeFields
<1>6. /\ s.meta.sidebar = ("sidebar" \in chrome)
      /\ ("findbar" \in chrome) = ("findbar" \in s.chrome)
  BY <1>5 DEF Shape
<1> HIDE DEF chrome
<1>7. Only(s, t, {"chrome"}) /\ t.chrome = chrome
  BY <1>5 DEF Only, Shape, ModeFields
<1> HIDE DEF t
<1>8. Shape(t) /\ t.meta = s.meta
  BY <1>5, <1>7 DEF Only, Shape, ModeFields
<1>9. Only(w, t, {"pages", "page", "meta", "setup", "chrome"})
  BY <1>3, <1>4, <1>7 DEF Only
<1>10. t.pages = pages /\ t.page = b.page /\ t.setup = TRUE
  BY <1>3, <1>4, <1>5, <1>7 DEF Only, Shape, ModeFields
<1>11. t.shown = w.shown /\ ~Presenting(t) /\ s.chrome = w.chrome
  <2>1. t.shown = w.shown /\ t.slides = w.slides
    BY <1>1, <1>9 DEF Only, Shape, ModeFields
  <2>2. s.chrome = b.chrome /\ b.chrome = w.chrome
    BY <1>1, <1>3, <1>4 DEF Only, Shape, ModeFields
  <2> QED
    BY <1>1, <2>1, <2>2 DEF Presenting
<1>12. /\ Shape(l) /\ Only(t, l, {"shown", "toggle", "meta"})
       /\ l.shown = Bars(t) /\ Only(t.meta, l.meta, {"sidebar"})
       /\ l.meta.sidebar =
            IF (("sidebar" \in t.shown) = ("sidebar" \in Bars(t))) \/ Presenting(t)
            THEN t.meta.sidebar ELSE "sidebar" \in Bars(t)
  BY <1>1, <1>8, <1>10, ChromeUpdates
<1> HIDE DEF l
<1>13. /\ ("sidebar" \in Bars(t)) = ("sidebar" \in chrome)
       /\ ("findbar" \in Bars(t)) = ("findbar" \in chrome)
  BY <1>1, <1>7, <1>10, <1>11 DEF Bars
<1>14. l.meta.sidebar = ("sidebar" \in chrome)
  BY <1>1, <1>6, <1>8, <1>11, <1>12, <1>13
<1>15. /\ l.page = b.page /\ l.pages = pages /\ l.chrome = chrome
  BY <1>7, <1>8, <1>10, <1>12 DEF Only, Shape, ModeFields
<1>16. /\ l.meta.page = b.meta.page /\ l.meta.presentation = w.meta.presentation
       /\ l.meta.fullscreen = w.meta.fullscreen /\ l.meta.rotation = w.meta.rotation
       /\ l.meta.continuous = w.meta.continuous
  <2>1. /\ l.meta.page = t.meta.page /\ l.meta.presentation = t.meta.presentation
        /\ l.meta.fullscreen = t.meta.fullscreen /\ l.meta.rotation = t.meta.rotation
        /\ l.meta.continuous = t.meta.continuous
    BY <1>8, <1>12 DEF Only, Shape, MetaFields
  <2>2. /\ b.meta.presentation = w.meta.presentation
        /\ b.meta.fullscreen = w.meta.fullscreen /\ b.meta.rotation = w.meta.rotation
        /\ b.meta.continuous = w.meta.continuous
    BY <1>1, <1>3 DEF Only, Shape, MetaFields
  <2> QED
    BY <1>5, <1>8, <2>1, <2>2
<1>17. /\ Shape(d) /\ Only(l, d, {"page", "meta"}) /\ Only(l.meta, d.meta, {"page"})
       /\ d.meta.page = d.page /\ d.page < pages
  <2>1. CASE l.page # l.pages - 1
    <3>1. d = l
      BY <2>1
    <3> HIDE DEF d
    <3> QED
      BY <1>3, <1>12, <1>15, <1>16, <3>1 DEF Only
  <2>2. CASE l.page = l.pages - 1
    <3>1. d = ModelToPage(l, 0)
      BY <2>2
    <3> HIDE DEF d
    <3>2. l.meta.page = l.page
      BY <1>3, <1>15, <1>16
    <3>3. /\ Shape(d) /\ Only(l, d, {"page", "meta"}) /\ Only(l.meta, d.meta, {"page"})
          /\ d.meta.page = d.page /\ (0 \in 0 .. (l.pages - 1) => d.page = 0)
      BY <1>12, <3>1, <3>2, PageTurns
    <3> QED
      BY <1>15, <3>3
  <2> QED
    BY <2>1, <2>2
<1> HIDE DEF d
<1>18. Only(w, d, {"pages", "page", "meta", "setup", "chrome", "shown", "toggle"})
  BY <1>9, <1>12, <1>17 DEF Only
<1>19. /\ d.pages = pages /\ d.chrome = chrome /\ d.shown = Bars(t) /\ d.requests = w.requests
       /\ d.fullscreen = w.fullscreen /\ d.slides = w.slides /\ d.inhibited = w.inhibited
       /\ d.rotation = w.rotation /\ d.continuous = w.continuous
  <2>1. d.pages = pages /\ d.chrome = chrome /\ d.shown = Bars(t)
    BY <1>12, <1>15, <1>17 DEF Only, Shape, ModeFields
  <2> QED
    BY <1>1, <1>18, <2>1 DEF Only, Shape, ModeFields
<1>20. /\ d.meta.presentation = w.meta.presentation
       /\ d.meta.fullscreen = w.meta.fullscreen /\ d.meta.rotation = w.meta.rotation
       /\ d.meta.continuous = w.meta.continuous /\ d.meta.sidebar = ("sidebar" \in chrome)
  BY <1>12, <1>14, <1>16, <1>17 DEF Only, Shape, MetaFields
<1>21. ~Presenting(d) /\ Mode(d) = Mode(w)
  BY <1>1, <1>19 DEF Presenting, Mode
<1>22. Steady(w, d)
  <2>1. ("findbar" \in d.chrome) = ("findbar" \in w.chrome)
    BY <1>6, <1>11, <1>19
  <2>2. /\ d.full = w.full /\ d.events = w.events /\ d.asked = w.asked /\ d.hasty = w.hasty
        /\ d.closed = w.closed /\ d.frozen = w.frozen /\ d.paned = w.paned
    BY <1>1, <1>18 DEF Only, Shape, ModeFields
  <2> QED
    BY <2>1, <2>2 DEF Steady
<1>23. Between(d)
  <2>1. InRange(d) /\ OneMode(d)
    BY <1>1, <1>17, <1>19, <1>21 DEF InRange, OneMode
  <2>2. Kept(d)
    BY <1>1, <1>17, <1>19, <1>20 DEF Kept
  <2> QED
    BY <1>17, <2>1, <2>2 DEF Between
<1>24. Sound(r) /\ Steady(w, r) /\ Rises(w, r) /\ r.pages # Loading
  <2>1. CASE w.meta.presentation
    <3>1. r = RunPresentation(d)
      BY <2>1
    <3> HIDE DEF r
    <3>2. /\ Sound(r) /\ Presenting(r)
          /\ Only(d, r, {"fullscreen", "timer", "shown", "requests", "meta", "slides",
                         "toggle", "inhibited"})
          /\ r.requests = IF d.fullscreen THEN d.requests ELSE Append(d.requests, TRUE)
      BY <1>1, <1>19, <1>21, <1>23, <3>1, PresentationRuns
    <3>3. Steady(d, r) /\ r.pages = pages
      BY <1>17, <1>19, <3>2 DEF Only, Shape, ModeFields, Steady
    <3>4. Rises(w, r)
      BY <1>1, <1>19, <3>2 DEF Rises, Full, Mode
    <3> QED
      BY <1>1, <1>22, <3>2, <3>3, <3>4 DEF Steady
  <2>2. CASE ~w.meta.presentation
    <3>1. r = d
      BY <2>2
    <3> HIDE DEF r
    <3>2. Fits(d)
      <4>1. d.meta.presentation = Presenting(d)
        BY <1>1, <1>20, <1>21, <2>2 DEF Shape, Presenting
      <4>2. /\ ("sidebar" \in d.shown) =
                 ("sidebar" \in d.chrome /\ d.pages # Loading /\ ~Presenting(d))
            /\ ("findbar" \in d.shown) = ("findbar" \in d.chrome)
        BY <1>1, <1>13, <1>19, <1>21
      <4> QED
        BY <1>1, <1>19, <1>21, <4>1, <4>2 DEF Fits
    <3>3. Rises(w, d)
      BY <1>19, <1>21 DEF Rises, Full
    <3> QED
      BY <1>1, <1>19, <1>22, <1>23, <3>1, <3>2, <3>3 DEF Sound
  <2> QED
    BY <1>1, <2>1, <2>2 DEF Shape
<1> HIDE DEF r
<1>25. Sound(c) /\ Steady(r, c) /\ Rises(r, c)
  BY <1>2, <1>24, ModeRuns
<1> QED
  BY <1>24, <1>25, RisesOn DEF Steady, c

-----------------------------------------------------------------------------
(* What the window and the manager agree on.                               *)

\* A step of the window asks for the screen when it changes what it needs of it.
Applies(w, c) ==
  \/ c.requests = w.requests /\ (Mode(c) = Mode(w) \/ (Full(c) /\ Full(w)))
  \/ c.requests = Append(w.requests, Full(c)) /\ (Full(c) \/ Full(w))

\* A step towards the whole screen is one that asks for it.
LEMMA RisesApplies ==
  ASSUME NEW w, NEW c, Rises(w, c)
  PROVE  Applies(w, c)
<1>1. CASE Full(w)
  BY <1>1 DEF Rises, Applies
<1>2. CASE ~Full(w)
  <2>1. CASE c.requests = w.requests /\ Mode(c) = Mode(w)
    BY <2>1, Zenon DEF Applies
  <2>2. CASE c.requests = Append(w.requests, TRUE) /\ Full(c)
    <3>1. Full(c) = TRUE
      BY <2>2 DEF Full
    <3> QED
      BY <2>2, <3>1 DEF Applies
  <2> QED
    BY <1>2, <2>1, <2>2 DEF Rises
<1> QED
  BY <1>1, <1>2

\* A step of the window that asks for what it needs leaves the two in agreement.
LEMMA ScreenStays ==
  ASSUME NEW w, Shape(w), Screen(w), NEW c, c.full = w.full, c.events = w.events,
         Applies(w, c)
  PROVE  Screen(c)
<1>1. CASE c.requests = w.requests /\ (Mode(c) = Mode(w) \/ (Full(c) /\ Full(w)))
  <2>1. Full(c) = Full(w)
    BY <1>1 DEF Full
  <2> QED
    BY <1>1, <2>1 DEF Screen
<1>2. CASE c.requests = Append(w.requests, Full(c))
  <2> DEFINE n == Len(w.requests) + 1
  <2>1. Full(c) \in BOOLEAN /\ w.requests \in Seq(BOOLEAN)
    BY DEF Full, Shape
  <2>2. n \in DOMAIN c.requests /\ c.requests[n] = Full(c)
    BY <1>2, <2>1
  <2> HIDE DEF n
  <2>3. (\A k \in DOMAIN c.requests : c.requests[k] = c.full) => c.full = Full(c)
    BY <2>2
  <2> QED
    BY <2>3 DEF Screen
<1> QED
  BY <1>1, <1>2 DEF Applies

\* A field that the mode, the bars and the metadata do not depend on.
LEMMA SoundStays ==
  ASSUME NEW w, Sound(w), NEW c,
         Only(w, c, {"asked", "hasty", "timer", "stray", "full", "requests", "events",
                     "toggle", "frozen", "paned", "closed"}),
         c.hasty \in BOOLEAN, c.full \in BOOLEAN, c.closed \in BOOLEAN,
         c.requests \in Seq(BOOLEAN), c.events \in Seq(BOOLEAN)
  PROVE  Sound(c) /\ Mode(c) = Mode(w) /\ Presenting(c) = Presenting(w)
<1>1. Shape(w) /\ InRange(w) /\ Kept(w) /\ OneMode(w) /\ Fits(w)
  BY DEF Sound, Between
<1>2. /\ c.pages = w.pages /\ c.page = w.page /\ c.slides = w.slides /\ c.meta = w.meta
      /\ c.chrome = w.chrome /\ c.shown = w.shown /\ c.fullscreen = w.fullscreen
      /\ c.rotation = w.rotation /\ c.continuous = w.continuous /\ c.inhibited = w.inhibited
      /\ c.setup = w.setup /\ DOMAIN c = ModeFields
  BY <1>1 DEF Only, Shape, ModeFields
<1>3. Shape(c)
  BY <1>1, <1>2 DEF Shape
<1>4. Mode(c) = Mode(w) /\ Presenting(c) = Presenting(w)
  BY <1>2 DEF Mode, Presenting
<1>5. InRange(c) /\ OneMode(c) /\ Kept(c)
  BY <1>1, <1>2, <1>4 DEF InRange, OneMode, Kept
<1>6. Fits(c)
  BY <1>1, <1>2, <1>4 DEF Fits
<1> QED
  BY <1>3, <1>4, <1>5, <1>6 DEF Sound, Between

\* What a step of the user or of the program leaves, before it is noted what was asked.
Settled(v) ==
  /\ Sound(v) /\ Finds(v) /\ Leaves(v) /\ Applies(modes, v)
  /\ v.full = modes.full /\ v.events = modes.events
  /\ v.asked = modes.asked /\ v.hasty = modes.hasty

\* A step that leaves the queue of events and the find bar alone has settled the window.
LEMMA Settlement ==
  ASSUME ModesInvariant, ~modes.closed, NEW v, Sound(v), Steady(modes, v), Applies(modes, v)
  PROVE  Settled(v)
<1>1. Fits(modes) /\ Finds(modes) /\ Fits(v)
  BY DEF ModesInvariant, Holds, Sound
<1>2. ("findbar" \in v.shown) = ("findbar" \in modes.shown)
  BY <1>1 DEF Fits, Steady
<1>3. Finds(v)
  BY <1>1, <1>2 DEF Finds, Steady
<1>4. Leaves(v)
  BY DEF Leaves, Steady
<1> QED
  BY <1>3, <1>4 DEF Settled, Steady

\* What was asked for is noted.
LEMMA Settles ==
  ASSUME ModesInvariant, NEW v, Settled(v), NEW mode,
         Mode(v) = mode \/ (Mode(v) = Mode(modes) /\ mode = modes.asked)
  PROVE  Holds(Asks(v, mode))
<1> DEFINE hasty == v.hasty \/ Turnaround(v, mode)
           c == Asks(v, mode)
<1>1. c = [v EXCEPT !.asked = mode, !.hasty = hasty]
  BY DEF Asks
<1>2. Shape(v) /\ Shape(modes) /\ hasty \in BOOLEAN /\ v.hasty \in BOOLEAN
  BY DEF Settled, Sound, Between, Shape, ModesInvariant, Holds, Turnaround
<1>3. hasty = (modes.hasty \/ Turnaround(v, mode))
  BY DEF Settled
<1> HIDE DEF hasty, c
<1>4. Only(v, c, {"asked", "hasty"}) /\ c.asked = mode /\ c.hasty = hasty
  BY <1>1, <1>2 DEF Only, Shape, ModeFields
<1>5. /\ c.full = v.full /\ c.requests = v.requests /\ c.events = v.events
      /\ c.closed = v.closed /\ c.frozen = v.frozen /\ c.paned = v.paned
      /\ c.shown = v.shown /\ c.meta = v.meta /\ c.slides = v.slides
  BY <1>2, <1>4 DEF Only, Shape, ModeFields
<1>6. Only(v, c, {"asked", "hasty", "timer", "stray", "full", "requests", "events",
                  "toggle", "frozen", "paned", "closed"})
  BY <1>4 DEF Only
<1>7. Sound(c) /\ Mode(c) = Mode(v) /\ Presenting(c) = Presenting(v)
  BY <1>2, <1>4, <1>5, <1>6, SoundStays DEF Settled, Shape
<1>8. Finds(c) /\ Leaves(c)
  BY <1>5, <1>7 DEF Settled, Finds, Leaves
<1>9. Full(c) = Full(v)
  BY <1>7 DEF Full
<1>10. Screen(c)
  <2>1. Screen(v)
    BY <1>2, ScreenStays DEF Settled, ModesInvariant, Holds
  <2> QED
    BY <1>5, <1>9, <2>1 DEF Screen
<1>11. ASSUME ~c.hasty PROVE Obeys(c)
  <2>1. ~modes.hasty /\ ~Turnaround(v, mode)
    BY <1>3, <1>4, <1>11
  <2>2. /\ \A k \in DOMAIN modes.requests : modes.requests[k] = (modes.asked # "frame")
        /\ \A k \in DOMAIN modes.events : modes.events[k] = (modes.asked # "frame")
        /\ \/ Mode(modes) = modes.asked
           \/ /\ modes.events # << >>
              /\ \/ modes.asked = "full" /\ Mode(modes) = "frame"
                 \/ modes.asked = "frame" /\ Mode(modes) # "frame"
    BY <2>1 DEF ModesInvariant, Holds, Obeys
  <2>3. modes.requests \in Seq(BOOLEAN) /\ modes.events \in Seq(BOOLEAN)
    BY <1>2 DEF Shape
  <2>4. v.events = modes.events /\ Applies(modes, v)
    BY DEF Settled
  <2>5. \A k \in DOMAIN modes.requests : modes.requests[k] = (mode # "frame")
    <3>1. CASE modes.requests = << >>
      BY <3>1
    <3>2. CASE modes.requests # << >> /\ mode # modes.asked
      <4>1. mode # "frame" /\ FALSE \notin Range(modes.requests)
        BY <2>1, <3>2 DEF Turnaround, Answered
      <4>2. \A k \in DOMAIN modes.requests : modes.requests[k] # FALSE
        BY <4>1 DEF Range
      <4>3. \A k \in DOMAIN modes.requests : modes.requests[k] \in BOOLEAN
        BY <2>3
      <4>4. (mode # "frame") = TRUE
        BY <4>1
      <4> QED
        BY <4>2, <4>3, <4>4
    <3>3. CASE mode = modes.asked
      BY <2>2, <3>3
    <3> QED
      BY <3>1, <3>2, <3>3
  <2>6. \A k \in DOMAIN modes.events : modes.events[k] = (mode # "frame")
    <3>1. CASE modes.events = << >>
      BY <3>1
    <3>2. CASE modes.events # << >> /\ mode # modes.asked
      <4>1. mode # "frame" /\ FALSE \notin Range(modes.events)
        BY <2>1, <3>2 DEF Turnaround, Answered
      <4>2. \A k \in DOMAIN modes.events : modes.events[k] # FALSE
        BY <4>1 DEF Range
      <4>3. \A k \in DOMAIN modes.events : modes.events[k] \in BOOLEAN
        BY <2>3
      <4>4. (mode # "frame") = TRUE
        BY <4>1
      <4> QED
        BY <4>2, <4>3, <4>4
    <3>3. CASE mode = modes.asked
      BY <2>2, <3>3
    <3> QED
      BY <3>1, <3>2, <3>3
  <2>7. \A k \in DOMAIN v.requests : v.requests[k] = (mode # "frame")
    <3>1. CASE v.requests = modes.requests
      BY <2>5, <3>1
    <3>2. CASE v.requests = Append(modes.requests, Full(v)) /\ (Full(v) \/ Full(modes))
      <4>1. Full(v) = (mode # "frame")
        <5>1. CASE Mode(v) = mode
          BY <5>1 DEF Full
        <5>2. CASE Mode(v) = Mode(modes) /\ mode = modes.asked
          <6>1. Full(v) /\ Full(modes)
            BY <3>2, <5>2 DEF Full
          <6>2. CASE modes.asked = "frame"
            <7>1. v.requests # modes.requests
              <8>1. Full(v) \in BOOLEAN
                BY DEF Full
              <8> QED
                BY <2>3, <3>2, <8>1
            <7>2. modes.events # << >>
              BY <2>2, <6>1, <6>2 DEF Full
            <7> QED
              BY <2>1, <5>2, <6>2, <7>1, <7>2 DEF Turnaround, Answered
          <6>3. CASE modes.asked # "frame"
            BY <5>2, <6>1, <6>3 DEF Full
          <6> QED
            BY <6>2, <6>3
        <5> QED
          BY <5>1, <5>2
      <4>2. Full(v) \in BOOLEAN
        BY DEF Full
      <4>3. \A k \in DOMAIN v.requests :
              \/ v.requests[k] = Full(v)
              \/ k \in DOMAIN modes.requests /\ v.requests[k] = modes.requests[k]
        <5> DEFINE full == Full(v)
        <5>1. full \in BOOLEAN /\ v.requests = Append(modes.requests, full)
          BY <3>2, <4>2
        <5> HIDE DEF full
        <5>2. \A k \in DOMAIN v.requests :
                \/ v.requests[k] = full
                \/ k \in DOMAIN modes.requests /\ v.requests[k] = modes.requests[k]
          BY <2>3, <5>1
        <5> QED
          BY <5>2 DEF full
      <4> QED
        BY <2>5, <4>1, <4>3
    <3> QED
      BY <2>4, <3>1, <3>2 DEF Applies
  <2>8. \/ Mode(v) = mode
        \/ /\ v.events # << >>
           /\ \/ mode = "full" /\ Mode(v) = "frame"
              \/ mode = "frame" /\ Mode(v) # "frame"
    BY <2>2, <2>4
  <2> QED
    BY <1>4, <1>5, <1>7, <2>4, <2>6, <2>7, <2>8 DEF Obeys
<1> QED
  BY <1>7, <1>8, <1>10, <1>11 DEF Holds, Obeys, c

-----------------------------------------------------------------------------
(* The user.                                                               *)

\* The bars follow their flags: what the metadata says of the sidebar is what is shown,
\* or while the slides hide it, what will be.
LEMMA BarsSettle ==
  ASSUME NEW w, Shape(w), InRange(w), OneMode(w),
         w.meta.fullscreen = w.fullscreen, w.meta.page = w.page,
         w.meta.rotation = w.rotation, w.meta.continuous = w.continuous,
         w.inhibited => Presenting(w),
         w.pages = Loading => "sidebar" \notin w.shown,
         w.pages # Loading =>
           /\ w.meta.presentation = Presenting(w)
           /\ w.meta.sidebar = (IF Presenting(w) THEN "sidebar" \in w.chrome
                                ELSE "sidebar" \in w.shown)
  PROVE  LET c == UpdateChrome(w)
         IN  Sound(c) /\ Only(w, c, {"shown", "toggle", "meta"}) /\ Mode(c) = Mode(w)
<1> DEFINE c == UpdateChrome(w)
<1>1. /\ Shape(c) /\ Only(w, c, {"shown", "toggle", "meta"})
      /\ c.shown = Bars(w) /\ Only(w.meta, c.meta, {"sidebar"})
      /\ c.meta.sidebar =
           IF (("sidebar" \in w.shown) = ("sidebar" \in Bars(w))) \/ Presenting(w)
           THEN w.meta.sidebar ELSE "sidebar" \in Bars(w)
  BY ChromeUpdates
<1> HIDE DEF c
<1>2. /\ c.pages = w.pages /\ c.page = w.page /\ c.slides = w.slides /\ c.setup = w.setup
      /\ c.chrome = w.chrome /\ c.fullscreen = w.fullscreen
      /\ c.rotation = w.rotation /\ c.continuous = w.continuous /\ c.inhibited = w.inhibited
  BY <1>1 DEF Only, Shape, ModeFields
<1>3. Mode(c) = Mode(w) /\ Presenting(c) = Presenting(w)
  BY <1>2 DEF Mode, Presenting
<1>4. /\ ("sidebar" \in Bars(w)) = ("sidebar" \in w.chrome /\ w.pages # Loading /\ ~Presenting(w))
      /\ ("findbar" \in Bars(w)) = ("findbar" \in w.chrome)
      /\ Presenting(w) => "toolbar" \notin Bars(w)
  BY DEF Bars
<1>5. /\ c.meta.fullscreen = w.meta.fullscreen /\ c.meta.page = w.meta.page
      /\ c.meta.rotation = w.meta.rotation /\ c.meta.continuous = w.meta.continuous
      /\ c.meta.presentation = w.meta.presentation
  BY <1>1 DEF Only, Shape, MetaFields
<1>6. InRange(c) /\ OneMode(c)
  BY <1>2, <1>3 DEF InRange, OneMode
<1>7. w.pages # Loading => c.meta.sidebar = ("sidebar" \in c.chrome)
  <2>1. CASE w.pages # Loading /\ Presenting(w)
    BY <1>1, <1>2, <2>1
  <2>2. CASE w.pages # Loading /\ ~Presenting(w)
    <3>1. ("sidebar" \in Bars(w)) = ("sidebar" \in c.chrome)
      BY <1>2, <1>4, <2>2
    <3>2. c.meta.sidebar = ("sidebar" \in Bars(w))
      BY <1>1, <2>2
    <3> QED
      BY <3>1, <3>2
  <2> QED
    BY <2>1, <2>2
<1>8. Kept(c)
  BY <1>2, <1>5, <1>7 DEF Kept
<1>9. Fits(c)
  BY <1>1, <1>2, <1>3, <1>4, <1>5 DEF Fits
<1> QED
  BY <1>1, <1>3, <1>6, <1>8, <1>9 DEF Sound, Between, c

\* What an action has of the state it starts from.
LEMMA Begins ==
  ASSUME ModesInvariant
  PROVE  /\ Sound(modes) /\ Between(modes) /\ Shape(modes) /\ InRange(modes) /\ Kept(modes)
         /\ Fits(modes) /\ OneMode(modes) /\ Finds(modes) /\ modes.closed \in BOOLEAN
         /\ modes.fullscreen \in BOOLEAN
BY DEF ModesInvariant, Holds, Sound, Between, Shape

\* A call of the user, when it has settled the window.
LEMMA UserHolds ==
  ASSUME ModesInvariant, NEW v, NEW mode, UserDoes(v, mode), Settled(v),
         Mode(v) = mode \/ (Mode(v) = Mode(modes) /\ mode = modes.asked)
  PROVE  ModesInvariant'
<1>1. Holds(Asks(v, mode)) /\ modes' = Asks(v, mode)
  BY Settles DEF UserDoes
<1> HIDE DEF Asks
<1> QED
  BY <1>1 DEF ModesInvariant, Holds, Sound, Between, Shape, InRange, Kept, OneMode, Fits,
              Finds, Leaves, Screen, Obeys, Full, Mode, Presenting

\* A call of the user that leaves them alone.
LEMMA UserApplies ==
  ASSUME ModesInvariant, NEW v, NEW mode, UserDoes(v, mode),
         Sound(v), Steady(modes, v), Applies(modes, v),
         Mode(v) = mode \/ (Mode(v) = Mode(modes) /\ mode = modes.asked)
  PROVE  ModesInvariant'
BY Settlement, UserHolds DEF UserDoes

\* ev_window_stop_fullscreen of a window that is in some mode.
LEMMA FullscreenLeaves ==
  ASSUME NEW w, Sound(w), NEW unfullscreen \in BOOLEAN
  PROVE  LET c == StopFullscreen(w, unfullscreen)
         IN  /\ Sound(c) /\ Steady(w, c) /\ c.slides = w.slides
             /\ ~c.fullscreen /\ (~w.fullscreen => c = w)
             /\ c.requests = IF w.fullscreen /\ unfullscreen THEN Append(w.requests, FALSE)
                             ELSE w.requests
<1> DEFINE c == StopFullscreen(w, unfullscreen)
<1>1. /\ Between(c) /\ Only(w, c, {"fullscreen", "timer", "shown", "requests", "meta"})
      /\ ~c.fullscreen /\ Only(w.meta, c.meta, {"fullscreen"})
      /\ c.shown \in {w.shown, w.shown \cup {"toolbar"}}
      /\ ~w.fullscreen => c = w
      /\ c.requests = IF w.fullscreen /\ unfullscreen THEN Append(w.requests, FALSE)
                      ELSE w.requests
  BY FullscreenStops DEF Sound
<1> HIDE DEF c
<1>2. Shape(w) /\ Fits(w) /\ OneMode(w)
  BY DEF Sound, Between
<1>3. Steady(w, c) /\ c.slides = w.slides
  BY <1>1, <1>2 DEF Only, Shape, ModeFields, Steady
<1>4. Sound(c)
  <2>1. CASE ~w.fullscreen
    BY <1>1, <2>1
  <2>2. CASE w.fullscreen
    <3>1. /\ c.chrome = w.chrome /\ c.pages = w.pages /\ c.inhibited = w.inhibited
          /\ c.meta.presentation = w.meta.presentation
      BY <1>1, <1>2 DEF Only, Shape, ModeFields, MetaFields
    <3>2. ~Presenting(w) /\ ~Presenting(c)
      BY <1>2, <1>3, <2>2 DEF OneMode, Presenting
    <3>3. /\ ("sidebar" \in c.shown) = ("sidebar" \in w.shown)
          /\ ("findbar" \in c.shown) = ("findbar" \in w.shown)
      BY <1>1
    <3>4. Fits(c)
      BY <1>2, <3>1, <3>2, <3>3 DEF Fits, Presenting
    <3> QED
      BY <1>1, <3>4 DEF Sound
  <2> QED
    BY <1>2, <2>1, <2>2 DEF Shape
<1> QED
  BY <1>1, <1>3, <1>4 DEF c

\* CmdViewFullscreen, and CmdEscape of a fullscreen window
LEMMA FullscreenEnds ==
  ASSUME ModesInvariant, modes.fullscreen, UserDoes(StopFullscreen(modes, TRUE), "frame")
  PROVE  ModesInvariant'
<1> DEFINE c == StopFullscreen(modes, TRUE)
<1>1. /\ Sound(c) /\ Steady(modes, c) /\ c.slides = modes.slides /\ ~c.fullscreen
      /\ c.requests = Append(modes.requests, FALSE)
  BY Begins, FullscreenLeaves
<1>2. UserDoes(c, "frame")
  OBVIOUS
<1> HIDE DEF c
<1>3. Mode(c) = "frame"
  BY <1>1, Begins DEF OneMode, Mode, Presenting
<1>4. Applies(modes, c)
  <2>1. Full(c) = FALSE /\ Full(modes)
    BY <1>3 DEF Full, Mode
  <2> QED
    BY <1>1, <2>1 DEF Applies
<1> QED
  BY <1>1, <1>2, <1>3, <1>4, UserApplies

\* F11: into fullscreen, or back.
LEMMA FullscreenHolds == ModesInvariant /\ CmdViewFullscreen => ModesInvariant'
<1> SUFFICES ASSUME ModesInvariant, CmdViewFullscreen PROVE ModesInvariant'
  OBVIOUS
<1>1. CASE modes.fullscreen
  BY <1>1, FullscreenEnds DEF CmdViewFullscreen
<1>2. CASE ~modes.fullscreen
  <2> DEFINE c == RunFullscreen(modes)
  <2>1. UserDoes(c, "full")
    BY <1>2 DEF CmdViewFullscreen
  <2>2. /\ Sound(c) /\ c.fullscreen
        /\ Only(modes, c, {"fullscreen", "timer", "shown", "requests", "meta", "page",
                           "rotation", "slides", "toggle", "inhibited"})
        /\ c.requests = IF Presenting(modes) THEN modes.requests
                        ELSE Append(modes.requests, TRUE)
    BY <1>2, Begins, FullscreenRuns
  <2> HIDE DEF c
  <2>3. Mode(c) = "full"
    BY <2>2 DEF Sound, Between, OneMode, Mode
  <2>4. Steady(modes, c)
    BY <2>2, Begins DEF Only, Shape, ModeFields, Steady
  <2>5. Applies(modes, c)
    <3>1. Full(c) = TRUE
      BY <2>3 DEF Full
    <3>2. Presenting(modes) => Full(modes)
      BY DEF Full, Mode
    <3> QED
      BY <2>2, <3>1, <3>2 DEF Applies
  <2> QED
    BY <2>1, <2>2, <2>3, <2>4, <2>5, UserApplies
<1> QED
  BY <1>1, <1>2

\* The presentation begins.
LEMMA PresentationHolds == ModesInvariant /\ CmdStartPresentation => ModesInvariant'
<1> SUFFICES ASSUME ModesInvariant, CmdStartPresentation PROVE ModesInvariant'
  OBVIOUS
<1> DEFINE c == RunPresentation(modes)
<1>1. UserDoes(c, "slides") /\ modes.pages # Loading
  BY DEF CmdStartPresentation, Loaded
<1>2. /\ Sound(c) /\ Presenting(c)
      /\ Only(modes, c, {"fullscreen", "timer", "shown", "requests", "meta", "slides",
                         "toggle", "inhibited"})
      /\ c.requests = IF modes.fullscreen \/ Presenting(modes) THEN modes.requests
                      ELSE Append(modes.requests, TRUE)
  BY <1>1, Begins, PresentationStays
<1> HIDE DEF c
<1>3. Mode(c) = "slides"
  BY <1>2 DEF Mode
<1>4. Steady(modes, c)
  BY <1>2, Begins DEF Only, Shape, ModeFields, Steady
<1>5. Applies(modes, c)
  <2>1. Full(c) = TRUE
    BY <1>3 DEF Full
  <2>2. Presenting(modes) \/ modes.fullscreen => Full(modes)
    BY DEF Full, Mode
  <2> QED
    BY <1>2, <2>1, <2>2 DEF Applies
<1> QED
  BY <1>1, <1>2, <1>3, <1>4, <1>5, UserApplies

\* The end of the slides, in whichever way the user asks for it.
LEMMA SlidesEnd ==
  ASSUME ModesInvariant, Presenting(modes)
  PROVE  LET c == StopPresentation(modes, TRUE)
         IN  Sound(c) /\ Steady(modes, c) /\ Mode(c) = "frame" /\ Applies(modes, c)
<1> DEFINE c == StopPresentation(modes, TRUE)
<1>1. /\ Sound(c) /\ ~Presenting(c)
      /\ Only(modes, c, {"page", "rotation", "slides", "shown", "toggle", "inhibited",
                         "meta", "requests"})
      /\ c.requests = Append(modes.requests, FALSE)
  BY Begins, PresentationStops
<1> HIDE DEF c
<1>2. Steady(modes, c) /\ c.fullscreen = modes.fullscreen
  BY <1>1, Begins DEF Only, Shape, ModeFields, Steady
<1>3. Mode(c) = "frame"
  BY <1>1, <1>2, Begins DEF OneMode, Mode
<1>4. Full(c) = FALSE /\ Full(modes)
  BY <1>3 DEF Full, Mode
<1>5. Applies(modes, c)
  BY <1>1, <1>4 DEF Applies
<1> QED
  BY <1>1, <1>2, <1>3, <1>5 DEF c

\* The presentation ends.
LEMMA FinishedHolds == ModesInvariant /\ PresentationFinished => ModesInvariant'
<1> SUFFICES ASSUME ModesInvariant, PresentationFinished PROVE ModesInvariant'
  OBVIOUS
<1> DEFINE c == StopPresentation(modes, TRUE)
<1>1. UserDoes(c, "frame") /\ Presenting(modes)
  BY DEF PresentationFinished
<1>2. Sound(c) /\ Steady(modes, c) /\ Mode(c) = "frame" /\ Applies(modes, c)
  BY <1>1, SlidesEnd
<1> HIDE DEF c
<1> QED
  BY <1>1, <1>2, UserApplies

\* The page, the rotation and the direction of the model go to the metadata at once.
LEMMA ModelTurns ==
  ASSUME NEW w, Sound(w), NEW c, Shape(c),
         Only(w, c, {"page", "rotation", "continuous", "meta"}),
         Only(w.meta, c.meta, {"page", "rotation", "continuous"}),
         c.meta.page = c.page, c.meta.rotation = c.rotation,
         c.meta.continuous = c.continuous,
         w.pages # Loading => c.page < w.pages
  PROVE  /\ Sound(c) /\ Steady(w, c) /\ c.requests = w.requests /\ Mode(c) = Mode(w)
         /\ c.slides = w.slides
<1>1. Shape(w) /\ InRange(w) /\ Kept(w) /\ OneMode(w) /\ Fits(w)
  BY DEF Sound, Between
<1>2. /\ c.pages = w.pages /\ c.slides = w.slides /\ c.chrome = w.chrome
      /\ c.shown = w.shown /\ c.fullscreen = w.fullscreen /\ c.inhibited = w.inhibited
      /\ c.setup = w.setup /\ c.requests = w.requests /\ Steady(w, c)
  BY ZenonT(60), <1>1 DEF Only, Shape, ModeFields, Steady
<1>3. /\ c.meta.fullscreen = w.meta.fullscreen /\ c.meta.sidebar = w.meta.sidebar
      /\ c.meta.presentation = w.meta.presentation
  BY <1>1 DEF Only, Shape, MetaFields
<1>4. Mode(c) = Mode(w) /\ Presenting(c) = Presenting(w)
  BY <1>2 DEF Mode, Presenting
<1>5. InRange(c) /\ OneMode(c)
  BY <1>1, <1>2, <1>4 DEF InRange, OneMode
<1>6. Kept(c)
  BY <1>1, <1>2, <1>3 DEF Kept
<1>7. Fits(c)
  BY <1>1, <1>2, <1>3, <1>4 DEF Fits
<1> QED
  BY <1>2, <1>4, <1>5, <1>6, <1>7 DEF Sound, Between

\* A page of the model settles the window.
LEMMA PageSettles ==
  ASSUME NEW w, Sound(w), NEW page \in Int
  PROVE  LET c == ModelToPage(w, page)
         IN  /\ Sound(c) /\ Steady(w, c) /\ c.requests = w.requests /\ Mode(c) = Mode(w)
             /\ c.slides = w.slides /\ c.meta.page = c.page
             /\ page \in 0 .. (w.pages - 1) => c.page = page
<1> DEFINE c == ModelToPage(w, page)
<1>1. Shape(w) /\ Kept(w) /\ InRange(w)
  BY DEF Sound, Between
<1>2. /\ Shape(c) /\ Only(w, c, {"page", "meta"}) /\ Only(w.meta, c.meta, {"page"})
      /\ c.meta.page = c.page
      /\ c.page = w.page \/ (c.page = page /\ (w.pages # Loading => page < w.pages))
      /\ page \in 0 .. (w.pages - 1) => c.page = page
  BY <1>1, PageTurns DEF Kept
<1> HIDE DEF c
<1>3. /\ Only(w, c, {"page", "rotation", "continuous", "meta"})
      /\ Only(w.meta, c.meta, {"page", "rotation", "continuous"})
  BY <1>2 DEF Only
<1>4. c.meta.rotation = c.rotation /\ c.meta.continuous = c.continuous
  <2>1. c.rotation = w.rotation /\ c.continuous = w.continuous
    BY <1>1, <1>2 DEF Only, Shape, ModeFields
  <2>2. c.meta.rotation = w.meta.rotation /\ c.meta.continuous = w.meta.continuous
    BY <1>1, <1>2 DEF Only, Shape, MetaFields
  <2> QED
    BY <1>1, <2>1, <2>2 DEF Kept
<1>5. w.pages # Loading => c.page < w.pages
  BY <1>1, <1>2 DEF InRange
<1> QED
  BY <1>2, <1>3, <1>4, <1>5, ModelTurns DEF c

\* A rotation of the model settles the window.
LEMMA RotationSettles ==
  ASSUME NEW w, Sound(w), NEW rotation
  PROVE  LET c == SetRotation(w, rotation)
         IN  Sound(c) /\ Steady(w, c) /\ c.requests = w.requests /\ Mode(c) = Mode(w)
<1> DEFINE c == SetRotation(w, rotation)
<1>1. Shape(w) /\ Kept(w) /\ InRange(w)
  BY DEF Sound, Between
<1>2. /\ Shape(c) /\ Only(w, c, {"rotation", "meta"}) /\ Only(w.meta, c.meta, {"rotation"})
      /\ c.meta.rotation = c.rotation
  BY <1>1, RotationTurns DEF Kept
<1> HIDE DEF c
<1>3. /\ Only(w, c, {"page", "rotation", "continuous", "meta"})
      /\ Only(w.meta, c.meta, {"page", "rotation", "continuous"})
  BY <1>2 DEF Only
<1>4. /\ c.meta.page = c.page /\ c.meta.continuous = c.continuous
      /\ w.pages # Loading => c.page < w.pages
  <2>1. c.page = w.page /\ c.continuous = w.continuous
    BY <1>1, <1>2 DEF Only, Shape, ModeFields
  <2>2. c.meta.page = w.meta.page /\ c.meta.continuous = w.meta.continuous
    BY <1>1, <1>2 DEF Only, Shape, MetaFields
  <2> QED
    BY <1>1, <2>1, <2>2 DEF Kept, InRange
<1> QED
  BY <1>2, <1>3, <1>4, ModelTurns DEF c

\* The continuous mode of the model settles the window.
LEMMA ContinuousSettles ==
  ASSUME NEW w, Sound(w), NEW continuous
  PROVE  LET c == SetContinuous(w, continuous)
         IN  Sound(c) /\ Steady(w, c) /\ c.requests = w.requests /\ Mode(c) = Mode(w)
<1> DEFINE c == SetContinuous(w, continuous)
<1>1. Shape(w) /\ Kept(w) /\ InRange(w)
  BY DEF Sound, Between
<1>2. /\ Shape(c) /\ Only(w, c, {"continuous", "meta"})
      /\ Only(w.meta, c.meta, {"continuous"}) /\ c.meta.continuous = c.continuous
  BY <1>1, ContinuousTurns DEF Kept
<1> HIDE DEF c
<1>3. /\ Only(w, c, {"page", "rotation", "continuous", "meta"})
      /\ Only(w.meta, c.meta, {"page", "rotation", "continuous"})
  BY <1>2 DEF Only
<1>4. /\ c.meta.page = c.page /\ c.meta.rotation = c.rotation
      /\ w.pages # Loading => c.page < w.pages
  <2>1. c.page = w.page /\ c.rotation = w.rotation
    BY <1>1, <1>2 DEF Only, Shape, ModeFields
  <2>2. c.meta.page = w.meta.page /\ c.meta.rotation = w.meta.rotation
    BY <1>1, <1>2 DEF Only, Shape, MetaFields
  <2> QED
    BY <1>1, <2>1, <2>2 DEF Kept, InRange
<1> QED
  BY <1>2, <1>3, <1>4, ModelTurns DEF c

\* Another slide, or the same one turned.
LEMMA SlideSettles ==
  ASSUME NEW w, Sound(w), Presenting(w), NEW slides, DOMAIN slides = {"page", "rotation"},
         slides.page \in 0 .. (w.pages - 1)
  PROVE  LET c == [w EXCEPT !.slides = slides]
         IN  Sound(c) /\ Steady(w, c) /\ c.requests = w.requests /\ Mode(c) = Mode(w)
<1> DEFINE c == [w EXCEPT !.slides = slides]
<1>1. Shape(w) /\ Kept(w) /\ InRange(w) /\ OneMode(w) /\ Fits(w)
  BY DEF Sound, Between
<1>2. Only(w, c, {"slides"}) /\ c.slides = slides
  BY <1>1 DEF Only, Shape, ModeFields
<1> HIDE DEF c
<1>3. slides # NoSlides
  BY Slides
<1>4. Shape(c)
  BY <1>1, <1>2 DEF Only, Shape, ModeFields
<1>5. /\ c.pages = w.pages /\ c.page = w.page /\ c.meta = w.meta /\ c.chrome = w.chrome
      /\ c.shown = w.shown /\ c.fullscreen = w.fullscreen /\ c.inhibited = w.inhibited
      /\ c.rotation = w.rotation /\ c.continuous = w.continuous
      /\ c.setup = w.setup /\ c.requests = w.requests /\ Steady(w, c)
  BY <1>1, <1>2 DEF Only, Shape, ModeFields, Steady
<1>6. Presenting(c) /\ Mode(c) = Mode(w)
  BY <1>2, <1>3 DEF Presenting, Mode
<1>7. InRange(c) /\ OneMode(c) /\ Kept(c)
  BY <1>1, <1>2, <1>5, <1>6 DEF InRange, OneMode, Kept
<1>8. Fits(c)
  BY <1>1, <1>5, <1>6 DEF Fits, Presenting
<1> QED
  BY <1>4, <1>5, <1>6, <1>7, <1>8 DEF Sound, Between, c

\* A call after which the mode is the one before.
LEMMA KeepsHolds ==
  ASSUME ModesInvariant, NEW v, Keeps(v), Sound(v), Steady(modes, v),
         v.requests = modes.requests, Mode(v) = Mode(modes)
  PROVE  ModesInvariant'
<1>1. Applies(modes, v)
  BY DEF Applies
<1> QED
  BY <1>1, UserApplies DEF Keeps

\* The continuous mode is toggled, and a presentation ends.
LEMMA ContinuousHolds == ModesInvariant /\ CmdContinuous => ModesInvariant'
<1> SUFFICES ASSUME ModesInvariant, CmdContinuous PROVE ModesInvariant'
  OBVIOUS
<1> DEFINE left == StopPresentation(modes, TRUE)
           c == SetContinuous(left, ~left.continuous)
<1>1. UserDoes(c, IF Presenting(modes) THEN "frame" ELSE modes.asked)
  BY DEF CmdContinuous
<1>2. /\ Sound(left) /\ Steady(modes, left) /\ Applies(modes, left)
      /\ Mode(left) = (IF Presenting(modes) THEN "frame" ELSE Mode(modes))
  <2>1. CASE Presenting(modes)
    <3> HIDE DEF left
    <3> QED
      BY <2>1, SlidesEnd DEF left
  <2>2. CASE ~Presenting(modes)
    <3>1. left = modes
      BY <2>2 DEF StopPresentation
    <3> HIDE DEF left
    <3> QED
      BY <2>2, <3>1, Begins DEF Steady, Applies
  <2> QED
    BY <2>1, <2>2
<1> HIDE DEF left
<1>3. Sound(c) /\ Steady(left, c) /\ c.requests = left.requests /\ Mode(c) = Mode(left)
  BY <1>2, ContinuousSettles
<1> HIDE DEF c
<1>4. Steady(modes, c)
  BY <1>2, <1>3 DEF Steady
<1>5. Applies(modes, c)
  BY <1>2, <1>3 DEF Applies, Full
<1> QED
  BY <1>1, <1>2, <1>3, <1>4, <1>5, UserApplies

\* The pages, or the slides, are rotated.
LEMMA RotateHolds == ModesInvariant /\ CmdRotate => ModesInvariant'
<1> SUFFICES ASSUME ModesInvariant, CmdRotate PROVE ModesInvariant'
  OBVIOUS
<1>1. CASE Presenting(modes)
  <2> DEFINE slides == [modes.slides EXCEPT !.rotation = Turned(modes.slides.rotation + 90)]
             c == [modes EXCEPT !.slides = slides]
  <2>1. Keeps(c)
    BY <1>1 DEF CmdRotate
  <2>2. DOMAIN slides = {"page", "rotation"} /\ slides.page \in 0 .. (modes.pages - 1)
    BY <1>1, Begins DEF Shape, InRange
  <2> HIDE DEF slides
  <2>3. Sound(c) /\ Steady(modes, c) /\ c.requests = modes.requests /\ Mode(c) = Mode(modes)
    BY <1>1, <2>2, Begins, SlideSettles
  <2> HIDE DEF c
  <2> QED
    BY <2>1, <2>3, KeepsHolds
<1>2. CASE ~Presenting(modes)
  <2> DEFINE c == SetRotation(modes, modes.rotation + 90)
  <2>1. Keeps(c)
    BY <1>2 DEF CmdRotate
  <2>2. Sound(c) /\ Steady(modes, c) /\ c.requests = modes.requests /\ Mode(c) = Mode(modes)
    BY Begins, RotationSettles
  <2> HIDE DEF c
  <2> QED
    BY <2>1, <2>2, KeepsHolds
<1> QED
  BY <1>1, <1>2

\* Another page, or another slide.
LEMMA PageHolds == ModesInvariant /\ TurnPageTo => ModesInvariant'
<1> SUFFICES ASSUME ModesInvariant, TurnPageTo PROVE ModesInvariant'
  OBVIOUS
<1>1. PICK page \in 0 .. (modes.pages - 1) :
        \/ Presenting(modes) /\ Keeps([modes EXCEPT !.slides.page = page])
        \/ page # modes.page /\ Keeps(ModelToPage(modes, page))
  BY DEF TurnPageTo
<1>2. CASE Presenting(modes) /\ Keeps([modes EXCEPT !.slides.page = page])
  <2> DEFINE slides == [modes.slides EXCEPT !.page = page]
             c == [modes EXCEPT !.slides = slides]
  <2>1. Keeps(c)
    BY <1>2
  <2>2. DOMAIN slides = {"page", "rotation"} /\ slides.page \in 0 .. (modes.pages - 1)
    BY <1>1, Begins DEF Shape
  <2> HIDE DEF slides
  <2>3. Sound(c) /\ Steady(modes, c) /\ c.requests = modes.requests /\ Mode(c) = Mode(modes)
    BY <1>2, <2>2, Begins, SlideSettles
  <2> HIDE DEF c
  <2> QED
    BY <2>1, <2>3, KeepsHolds
<1>3. CASE Keeps(ModelToPage(modes, page))
  <2> DEFINE c == ModelToPage(modes, page)
  <2>1. Keeps(c) /\ page \in Int
    BY <1>1, <1>3
  <2>2. Sound(c) /\ Steady(modes, c) /\ c.requests = modes.requests /\ Mode(c) = Mode(modes)
    BY <2>1, Begins, PageSettles
  <2> HIDE DEF c
  <2> QED
    BY <2>1, <2>2, KeepsHolds
<1> QED
  BY <1>1, <1>2, <1>3

-----------------------------------------------------------------------------
(* The bars and the screen.                                                *)

\* The flags of the bars change, and the bars follow.
LEMMA FlagsSettle ==
  ASSUME NEW w, Sound(w), NEW x, Only(w, x, {"toggle", "chrome", "frozen", "paned"}),
         Presenting(w) => ("sidebar" \in x.chrome) = ("sidebar" \in w.chrome)
  PROVE  LET c == UpdateChrome(x)
         IN  /\ Sound(c) /\ Mode(c) = Mode(w) /\ c.requests = w.requests
             /\ c.full = w.full /\ c.events = w.events /\ c.asked = w.asked
             /\ c.hasty = w.hasty /\ c.closed = w.closed
             /\ c.frozen = x.frozen /\ c.paned = x.paned
             /\ ("findbar" \in c.shown) = ("findbar" \in x.chrome)
             /\ ("findbar" \in c.chrome) = ("findbar" \in x.chrome)
<1> DEFINE c == UpdateChrome(x)
<1>1. Shape(w) /\ InRange(w) /\ Kept(w) /\ OneMode(w) /\ Fits(w)
  BY DEF Sound, Between
<1>2. /\ x.pages = w.pages /\ x.page = w.page /\ x.slides = w.slides /\ x.meta = w.meta
      /\ x.shown = w.shown /\ x.fullscreen = w.fullscreen /\ x.inhibited = w.inhibited
      /\ x.rotation = w.rotation /\ x.continuous = w.continuous
      /\ x.setup = w.setup /\ x.requests = w.requests
      /\ x.full = w.full /\ x.events = w.events /\ x.asked = w.asked
      /\ x.hasty = w.hasty /\ x.closed = w.closed /\ DOMAIN x = ModeFields
  BY <1>1 DEF Only, Shape, ModeFields
<1>3. Shape(x) /\ Mode(x) = Mode(w) /\ Presenting(x) = Presenting(w)
  BY <1>1, <1>2 DEF Shape, Mode, Presenting
<1>4. InRange(x) /\ OneMode(x)
  BY <1>1, <1>2, <1>3 DEF InRange, OneMode
<1>5. /\ x.meta.fullscreen = x.fullscreen /\ x.meta.page = x.page
      /\ x.meta.rotation = x.rotation /\ x.meta.continuous = x.continuous
      /\ x.inhibited => Presenting(x)
      /\ x.pages = Loading => "sidebar" \notin x.shown
  BY <1>1, <1>2, <1>3 DEF Kept, Fits
<1>6. x.pages # Loading =>
        /\ x.meta.presentation = Presenting(x)
        /\ x.meta.sidebar = (IF Presenting(x) THEN "sidebar" \in x.chrome
                             ELSE "sidebar" \in x.shown)
  <2>1. w.pages # Loading => w.meta.presentation = Presenting(x)
    BY <1>1, <1>3 DEF Fits
  <2>2. w.pages # Loading => w.meta.sidebar = ("sidebar" \in w.chrome)
    BY <1>1 DEF Kept
  <2>3. w.pages # Loading /\ ~Presenting(w) => w.meta.sidebar = ("sidebar" \in w.shown)
    BY <1>1, <2>2 DEF Fits
  <2> QED
    BY <1>2, <1>3, <2>1, <2>2, <2>3
<1>7. Sound(c) /\ Only(x, c, {"shown", "toggle", "meta"}) /\ Mode(c) = Mode(x)
  BY <1>3, <1>4, <1>5, <1>6, BarsSettle
<1> HIDE DEF c
<1>8. /\ c.requests = x.requests /\ c.full = x.full /\ c.events = x.events
      /\ c.asked = x.asked /\ c.hasty = x.hasty /\ c.closed = x.closed
      /\ c.frozen = x.frozen /\ c.paned = x.paned /\ c.chrome = x.chrome
  BY <1>3, <1>7 DEF Only, Shape, ModeFields
<1>9. ("findbar" \in c.shown) = ("findbar" \in c.chrome)
  BY <1>7 DEF Sound, Fits
<1> QED
  BY <1>2, <1>3, <1>7, <1>8, <1>9 DEF c

\* A call that opens or closes a bar.
LEMMA BarHolds ==
  ASSUME ModesInvariant, NEW v, Keeps(v), Sound(v), Mode(v) = Mode(modes), Finds(v),
         v.requests = modes.requests, v.full = modes.full, v.events = modes.events,
         v.asked = modes.asked, v.hasty = modes.hasty, v.closed = modes.closed
  PROVE  ModesInvariant'
<1>1. Applies(modes, v)
  BY DEF Applies
<1>2. UserDoes(v, modes.asked)
  BY DEF Keeps
<1>3. Leaves(v)
  BY <1>2 DEF Leaves, UserDoes
<1>4. Settled(v)
  BY <1>1, <1>3 DEF Settled
<1> QED
  BY <1>2, <1>4, UserHolds

\* With the find bar left as it is.
LEMMA FlagsHold ==
  ASSUME ModesInvariant, NEW x, Keeps(UpdateChrome(x)), Only(modes, x, {"toggle", "chrome"}),
         Presenting(modes) => ("sidebar" \in x.chrome) = ("sidebar" \in modes.chrome),
         ("findbar" \in x.chrome) = ("findbar" \in modes.chrome)
  PROVE  ModesInvariant'
<1> DEFINE c == UpdateChrome(x)
<1>1. Only(modes, x, {"toggle", "chrome", "frozen", "paned"})
  BY DEF Only
<1>2. x.frozen = modes.frozen /\ x.paned = modes.paned
  BY Begins DEF Only, Shape, ModeFields
<1>3. /\ Sound(c) /\ Mode(c) = Mode(modes) /\ c.requests = modes.requests
      /\ c.full = modes.full /\ c.events = modes.events /\ c.asked = modes.asked
      /\ c.hasty = modes.hasty /\ c.closed = modes.closed
      /\ c.frozen = x.frozen /\ c.paned = x.paned
      /\ ("findbar" \in c.shown) = ("findbar" \in x.chrome)
  BY <1>1, Begins, FlagsSettle
<1>4. Keeps(c)
  OBVIOUS
<1> HIDE DEF c
<1>5. ("findbar" \in c.shown) = ("findbar" \in modes.shown)
  BY <1>3, Begins DEF Fits
<1>6. Finds(c)
  BY <1>2, <1>3, <1>5, Begins DEF Finds
<1> QED
  BY <1>3, <1>4, <1>6, BarHolds

\* F9: the flag of the sidebar and its toggle.
LEMMA SidebarHolds == ModesInvariant /\ ViewSidebar => ModesInvariant'
<1> SUFFICES ASSUME ModesInvariant, ViewSidebar PROVE ModesInvariant'
  OBVIOUS
<1>1. CASE Presenting(modes)
  <2> DEFINE c == [modes EXCEPT !.toggle = ~modes.toggle]
  <2>1. Keeps(c)
    BY <1>1 DEF ViewSidebar
  <2>2. Only(modes, c, {"toggle"})
    BY Begins DEF Only, Shape, ModeFields
  <2> HIDE DEF c
  <2>3. Only(modes, c, {"asked", "hasty", "timer", "stray", "full", "requests", "events",
                        "toggle", "frozen", "paned", "closed"})
    BY <2>2 DEF Only
  <2>4. Steady(modes, c) /\ c.requests = modes.requests
    BY <2>2, Begins DEF Only, Shape, ModeFields, Steady
  <2>5. Sound(c) /\ Mode(c) = Mode(modes)
    BY <2>3, <2>4, Begins, SoundStays DEF Shape, Steady
  <2> QED
    BY <2>1, <2>4, <2>5, KeepsHolds
<1>2. CASE ~Presenting(modes)
  <2> DEFINE chrome == IF modes.toggle THEN modes.chrome \ {"sidebar"}
                       ELSE modes.chrome \cup {"sidebar"}
             x == [modes EXCEPT !.toggle = ~modes.toggle, !.chrome = chrome]
  <2>1. Keeps(UpdateChrome(x))
    BY <1>2 DEF ViewSidebar
  <2>2. ("findbar" \in chrome) = ("findbar" \in modes.chrome)
    OBVIOUS
  <2> HIDE DEF chrome
  <2>3. Only(modes, x, {"toggle", "chrome"}) /\ x.chrome = chrome
    BY Begins DEF Only, Shape, ModeFields
  <2> HIDE DEF x
  <2> QED
    BY <1>2, <2>1, <2>2, <2>3, FlagsHold
<1> QED
  BY <1>1, <1>2

\* The page selector and the view pass the focus to each other.
LEMMA FocusHolds == ModesInvariant /\ (FocusPageSelector \/ ViewFocused) => ModesInvariant'
<1> SUFFICES ASSUME ModesInvariant, FocusPageSelector \/ ViewFocused PROVE ModesInvariant'
  OBVIOUS
<1>1. ASSUME NEW chrome, Keeps(UpdateChrome([modes EXCEPT !.chrome = chrome])),
             \A bar \in {"sidebar", "findbar"} : (bar \in chrome) = (bar \in modes.chrome)
      PROVE  ModesInvariant'
  <2> DEFINE x == [modes EXCEPT !.chrome = chrome]
  <2>1. Keeps(UpdateChrome(x))
    BY <1>1
  <2>2. Only(modes, x, {"chrome"}) /\ x.chrome = chrome
    BY Begins DEF Only, Shape, ModeFields
  <2> HIDE DEF x
  <2>3. Only(modes, x, {"toggle", "chrome"})
    BY <2>2 DEF Only
  <2> QED
    BY <1>1, <2>1, <2>2, <2>3, FlagsHold
<1>2. CASE FocusPageSelector
  <2>1. Keeps(UpdateChrome([modes EXCEPT !.chrome = modes.chrome \cup {"raise"}]))
    BY <1>2 DEF FocusPageSelector
  <2> QED
    BY <1>1, <2>1
<1>3. CASE ViewFocused
  <2>1. Keeps(UpdateChrome([modes EXCEPT !.chrome = modes.chrome \ {"raise"}]))
    BY <1>3 DEF ViewFocused
  <2> QED
    BY <1>1, <2>1
<1> QED
  BY <1>2, <1>3

\* The find bar opens and freezes the history.
LEMMA FindBarOpens == ModesInvariant /\ OpenFindBar => ModesInvariant'
<1> SUFFICES ASSUME ModesInvariant, OpenFindBar PROVE ModesInvariant'
  OBVIOUS
<1> DEFINE x == [modes EXCEPT !.frozen = modes.frozen + 1, !.paned = "find",
                              !.chrome = modes.chrome \cup {"findbar"}]
           c == UpdateChrome(x)
<1>1. Keeps(c) /\ "findbar" \notin modes.shown /\ ~Presenting(modes)
  BY DEF OpenFindBar
<1>2. /\ Only(modes, x, {"frozen", "paned", "chrome"}) /\ x.frozen = modes.frozen + 1
      /\ x.paned = "find" /\ x.chrome = modes.chrome \cup {"findbar"}
  BY Begins DEF Only, Shape, ModeFields
<1> HIDE DEF x
<1>3. Only(modes, x, {"toggle", "chrome", "frozen", "paned"})
  BY <1>2 DEF Only
<1>4. /\ Sound(c) /\ Mode(c) = Mode(modes) /\ c.requests = modes.requests
      /\ c.full = modes.full /\ c.events = modes.events /\ c.asked = modes.asked
      /\ c.hasty = modes.hasty /\ c.closed = modes.closed
      /\ c.frozen = x.frozen /\ c.paned = x.paned
      /\ ("findbar" \in c.shown) = ("findbar" \in x.chrome)
  BY <1>1, <1>3, Begins, FlagsSettle
<1> HIDE DEF c
<1>5. Finds(c)
  <2>1. modes.frozen = 0
    BY <1>1, Begins DEF Finds
  <2>2. "findbar" \in c.shown
    BY <1>2, <1>4
  <2> QED
    BY <1>2, <1>4, <2>1, <2>2 DEF Finds
<1> QED
  BY <1>1, <1>4, <1>5, BarHolds

\* The find bar goes, and the sidebar has its place again.
LEMMA FindBarCloses ==
  ASSUME ModesInvariant, "findbar" \in modes.shown, Keeps(FindBarGone(modes))
  PROVE  ModesInvariant'
<1> DEFINE x == [modes EXCEPT !.paned = "sidebar", !.chrome = modes.chrome \ {"findbar"}]
           d == UpdateChrome(x)
           c == [d EXCEPT !.frozen = d.frozen - 1]
<1>1. Keeps(c)
  BY DEF FindBarGone
<1>2. /\ Only(modes, x, {"paned", "chrome"}) /\ x.paned = "sidebar"
      /\ x.chrome = modes.chrome \ {"findbar"} /\ x.frozen = modes.frozen
  BY Begins DEF Only, Shape, ModeFields
<1> HIDE DEF x
<1>3. Only(modes, x, {"toggle", "chrome", "frozen", "paned"})
  BY <1>2 DEF Only
<1>4. /\ Sound(d) /\ Mode(d) = Mode(modes) /\ d.requests = modes.requests
      /\ d.full = modes.full /\ d.events = modes.events /\ d.asked = modes.asked
      /\ d.hasty = modes.hasty /\ d.closed = modes.closed
      /\ d.frozen = x.frozen /\ d.paned = x.paned
      /\ ("findbar" \in d.shown) = ("findbar" \in x.chrome)
  BY <1>2, <1>3, Begins, FlagsSettle
<1> HIDE DEF d
<1>5. Shape(d)
  BY <1>4 DEF Sound, Between
<1>6. Only(d, c, {"frozen"}) /\ c.frozen = d.frozen - 1
  BY <1>5 DEF Only, Shape, ModeFields
<1> HIDE DEF c
<1>7. /\ c.requests = d.requests /\ c.full = d.full /\ c.events = d.events
      /\ c.asked = d.asked /\ c.hasty = d.hasty /\ c.closed = d.closed
      /\ c.paned = d.paned /\ c.shown = d.shown
  BY <1>5, <1>6 DEF Only, Shape, ModeFields
<1>8. Only(d, c, {"asked", "hasty", "timer", "stray", "full", "requests", "events",
                  "toggle", "frozen", "paned", "closed"})
  BY <1>6 DEF Only
<1>9. Sound(c) /\ Mode(c) = Mode(d)
  BY <1>4, <1>5, <1>7, <1>8, SoundStays DEF Shape
<1>10. Finds(c)
  <2>1. modes.frozen = 1
    BY Begins DEF Finds
  <2>2. "findbar" \notin c.shown
    BY <1>2, <1>4, <1>7
  <2> QED
    BY <1>2, <1>4, <1>6, <1>7, <2>1, <2>2 DEF Finds
<1> QED
  BY <1>1, <1>4, <1>7, <1>9, <1>10, BarHolds

\* Escape: the find bar goes, or the mode.
LEMMA EscapeHolds == ModesInvariant /\ (FindBarClosed \/ CmdEscape) => ModesInvariant'
<1> SUFFICES ASSUME ModesInvariant, FindBarClosed \/ CmdEscape PROVE ModesInvariant'
  OBVIOUS
<1>1. CASE "findbar" \in modes.shown /\ Keeps(FindBarGone(modes))
  BY <1>1, FindBarCloses
<1>2. CASE modes.fullscreen /\ UserDoes(StopFullscreen(modes, TRUE), "frame")
  BY <1>2, FullscreenEnds
<1>3. CASE Presenting(modes) /\ UserDoes(StopPresentation(modes, TRUE), "frame")
  <2> DEFINE c == StopPresentation(modes, TRUE)
  <2>1. UserDoes(c, "frame")
    BY <1>3
  <2>2. Sound(c) /\ Steady(modes, c) /\ Mode(c) = "frame" /\ Applies(modes, c)
    BY <1>3, SlidesEnd
  <2> HIDE DEF c
  <2> QED
    BY <2>1, <2>2, UserApplies
<1> QED
  BY <1>1, <1>2, <1>3 DEF FindBarClosed, CmdEscape

\* The close button of the sidebar.
LEMMA SidebarCloses == ModesInvariant /\ SidebarClosed => ModesInvariant'
<1> SUFFICES ASSUME ModesInvariant, SidebarClosed PROVE ModesInvariant'
  OBVIOUS
<1> DEFINE s == [modes EXCEPT !.shown = modes.shown \ {"sidebar"}]
           t == [s EXCEPT !.toggle = FALSE, !.chrome = s.chrome \ {"sidebar"}]
           y == SidebarVisibilityChanged(s)
           c == UpdateChrome(y)
<1>1. "sidebar" \in modes.shown /\ Keeps(c)
  BY DEF SidebarClosed
<1>2. modes.pages # Loading /\ ~Presenting(modes)
  BY <1>1, Begins DEF Fits
<1>3. Only(modes, s, {"shown"}) /\ s.shown = modes.shown \ {"sidebar"}
  BY Begins DEF Only, Shape, ModeFields
<1>4. PICK no \in BOOLEAN : no = FALSE
  OBVIOUS
<1>5. y = IF Presenting(s) THEN s ELSE Remember(t, "sidebar", no)
  <2>1. ("sidebar" \in s.shown) = FALSE
    BY <1>3
  <2> HIDE DEF s
  <2>2. y = LET visible == FALSE
            IN  IF Presenting(s) THEN s
                ELSE Remember([s EXCEPT !.toggle = visible,
                       !.chrome = IF visible THEN @ \cup {"sidebar"} ELSE @ \ {"sidebar"}],
                       "sidebar", visible)
    BY <2>1 DEF SidebarVisibilityChanged
  <2> QED
    BY <1>4, <2>2
<1> HIDE DEF s, y
<1>6. /\ DOMAIN s = ModeFields /\ ~Presenting(s)
  BY <1>2, <1>3, Begins DEF Only, Shape, ModeFields, Presenting
<1>7. Only(s, t, {"toggle", "chrome"}) /\ t.chrome = s.chrome \ {"sidebar"}
  BY <1>6 DEF Only, ModeFields
<1> HIDE DEF t
<1>8. /\ Only(modes, t, {"shown", "toggle", "chrome"}) /\ DOMAIN t = ModeFields
      /\ t.chrome = modes.chrome \ {"sidebar"} /\ t.shown = modes.shown \ {"sidebar"}
  BY <1>3, <1>6, <1>7 DEF Only, ModeFields
<1>9. Shape(t) /\ t.meta = modes.meta /\ "sidebar" \in MetaFields
  BY <1>8, Begins DEF Only, Shape, ModeFields, MetaFields
<1>10. y = Remember(t, "sidebar", no)
  BY <1>5, <1>6
<1>11. /\ Shape(y) /\ Only(t, y, {"meta"})
       /\ Only(t.meta, y.meta, {"sidebar"}) /\ y.meta.sidebar = no
  BY <1>4, <1>9, <1>10, RemembersFlag
<1>12. Only(modes, y, {"shown", "toggle", "chrome", "meta"})
  BY <1>8, <1>11 DEF Only
<1>13. y.chrome = t.chrome /\ y.shown = t.shown
  BY <1>9, <1>11 DEF Only, Shape, ModeFields
<1>14. /\ y.pages = modes.pages /\ y.page = modes.page /\ y.slides = modes.slides
       /\ y.fullscreen = modes.fullscreen /\ y.inhibited = modes.inhibited
       /\ y.rotation = modes.rotation /\ y.continuous = modes.continuous
       /\ y.setup = modes.setup /\ y.requests = modes.requests
       /\ y.full = modes.full /\ y.events = modes.events /\ y.asked = modes.asked
       /\ y.hasty = modes.hasty /\ y.closed = modes.closed
       /\ y.frozen = modes.frozen /\ y.paned = modes.paned
  BY <1>12, Begins DEF Only, Shape, ModeFields
<1>15. /\ y.meta.fullscreen = modes.meta.fullscreen /\ y.meta.page = modes.meta.page
       /\ y.meta.rotation = modes.meta.rotation /\ y.meta.continuous = modes.meta.continuous
       /\ y.meta.presentation = modes.meta.presentation
  BY <1>9, <1>11, Begins DEF Only, Shape, MetaFields
<1>16. Mode(y) = Mode(modes) /\ Presenting(y) = Presenting(modes)
  BY <1>14 DEF Mode, Presenting
<1>17. InRange(y) /\ OneMode(y)
  BY <1>14, <1>16, Begins DEF InRange, OneMode
<1>18. /\ y.meta.fullscreen = y.fullscreen /\ y.meta.page = y.page
       /\ y.meta.rotation = y.rotation /\ y.meta.continuous = y.continuous
       /\ y.inhibited => Presenting(y)
  BY <1>14, <1>15, <1>16, Begins DEF Kept, Fits
<1>19. /\ "sidebar" \notin y.shown /\ y.meta.presentation = Presenting(y)
       /\ y.meta.sidebar = ("sidebar" \in y.shown)
  <2>1. "sidebar" \notin y.shown
    BY <1>8, <1>13
  <2>2. y.meta.presentation = Presenting(y)
    BY <1>2, <1>15, <1>16, Begins DEF Fits
  <2> QED
    BY <1>4, <1>11, <2>1, <2>2
<1>20. Sound(c) /\ Only(y, c, {"shown", "toggle", "meta"}) /\ Mode(c) = Mode(y)
  BY <1>2, <1>11, <1>16, <1>17, <1>18, <1>19, BarsSettle
<1> HIDE DEF c
<1>21. /\ c.requests = y.requests /\ c.full = y.full /\ c.events = y.events
       /\ c.asked = y.asked /\ c.hasty = y.hasty /\ c.closed = y.closed
       /\ c.frozen = y.frozen /\ c.paned = y.paned /\ c.chrome = y.chrome
  BY <1>11, <1>20 DEF Only, Shape, ModeFields
<1>22. Steady(modes, c)
  <2>1. ("findbar" \in c.chrome) = ("findbar" \in modes.chrome)
    BY <1>8, <1>13, <1>21
  <2> QED
    BY <1>14, <1>21, <2>1 DEF Steady
<1> QED
  BY <1>1, <1>14, <1>16, <1>20, <1>21, <1>22, KeepsHolds

\* A bar that nothing else depends on: the toolbar of a fullscreen window; and whether
\* the screen saver is held off.
LEMMA ToolbarSettles ==
  ASSUME NEW w, Sound(w), NEW c,
         Only(w, c, {"shown", "timer", "stray", "inhibited"}),
         ("sidebar" \in c.shown) = ("sidebar" \in w.shown),
         ("findbar" \in c.shown) = ("findbar" \in w.shown),
         Presenting(w) => "toolbar" \notin c.shown,
         c.inhibited \in BOOLEAN, c.inhibited => Presenting(w)
  PROVE  Sound(c) /\ Steady(w, c) /\ c.requests = w.requests /\ Mode(c) = Mode(w)
<1>1. Shape(w) /\ InRange(w) /\ Kept(w) /\ OneMode(w) /\ Fits(w)
  BY DEF Sound, Between
<1>2. /\ c.pages = w.pages /\ c.page = w.page /\ c.slides = w.slides /\ c.meta = w.meta
      /\ c.chrome = w.chrome /\ c.fullscreen = w.fullscreen
      /\ c.rotation = w.rotation /\ c.continuous = w.continuous
      /\ c.setup = w.setup /\ c.requests = w.requests /\ Steady(w, c)
  BY <1>1 DEF Only, Shape, ModeFields, Steady
<1>3. Shape(c)
  BY <1>1 DEF Only, Shape, ModeFields
<1>4. Mode(c) = Mode(w) /\ Presenting(c) = Presenting(w)
  BY <1>2 DEF Mode, Presenting
<1>5. InRange(c) /\ OneMode(c) /\ Kept(c)
  BY <1>1, <1>2, <1>4 DEF InRange, OneMode, Kept
<1>6. Fits(c)
  BY <1>1, <1>2, <1>4 DEF Fits
<1> QED
  BY <1>2, <1>3, <1>4, <1>5, <1>6 DEF Sound, Between

\* The slides get the focus, or lose it.
LEMMA FocusOfSlidesHolds == ModesInvariant /\ PresentationFocus => ModesInvariant'
<1> SUFFICES ASSUME ModesInvariant, PresentationFocus PROVE ModesInvariant'
  OBVIOUS
<1>1. PICK inhibited \in BOOLEAN : Keeps([modes EXCEPT !.inhibited = inhibited])
  BY DEF PresentationFocus
<1>2. Presenting(modes)
  BY DEF PresentationFocus
<1> DEFINE c == [modes EXCEPT !.inhibited = inhibited]
<1>3. Only(modes, c, {"inhibited"}) /\ c.inhibited = inhibited /\ c.shown = modes.shown
  BY Begins DEF Only, Shape, ModeFields
<1>4. Keeps(c)
  BY <1>1
<1> HIDE DEF c
<1>5. Only(modes, c, {"shown", "timer", "stray", "inhibited"})
  BY <1>3 DEF Only
<1>6. "toolbar" \notin c.shown
  BY <1>2, <1>3, Begins DEF Fits
<1>7. Sound(c) /\ Steady(modes, c) /\ c.requests = modes.requests /\ Mode(c) = Mode(modes)
  BY <1>1, <1>2, <1>3, <1>5, <1>6, Begins, ToolbarSettles
<1> QED
  BY <1>4, <1>7, KeepsHolds

\* The toolbar appears over a fullscreen page, and stays under the pointer.
LEMMA PointerHolds == ModesInvariant /\ (PointerMoved \/ PointerOnToolbar) => ModesInvariant'
<1> SUFFICES ASSUME ModesInvariant, PointerMoved \/ PointerOnToolbar PROVE ModesInvariant'
  OBVIOUS
<1>1. ~Presenting(modes) /\ modes.inhibited \in BOOLEAN
      /\ (modes.inhibited => Presenting(modes))
  BY Begins DEF OneMode, PointerMoved, PointerOnToolbar, Shape, Fits
<1>2. CASE PointerMoved
  <2> DEFINE c == [modes EXCEPT !.shown = modes.shown \cup {"toolbar"}, !.timer = TRUE]
  <2>1. Keeps(c)
    BY <1>2 DEF PointerMoved, ShowToolbar
  <2>2. Only(modes, c, {"shown", "timer"}) /\ c.shown = modes.shown \cup {"toolbar"}
        /\ c.inhibited = modes.inhibited
    BY Begins DEF Only, Shape, ModeFields
  <2> HIDE DEF c
  <2>3. Only(modes, c, {"shown", "timer", "stray", "inhibited"})
    BY <2>2 DEF Only
  <2>4. /\ ("sidebar" \in c.shown) = ("sidebar" \in modes.shown)
        /\ ("findbar" \in c.shown) = ("findbar" \in modes.shown)
    BY <2>2
  <2>5. Sound(c) /\ Steady(modes, c) /\ c.requests = modes.requests /\ Mode(c) = Mode(modes)
    BY <1>1, <2>2, <2>3, <2>4, Begins, ToolbarSettles
  <2> QED
    BY <2>1, <2>5, KeepsHolds
<1>3. CASE PointerOnToolbar
  <2> DEFINE c == [modes EXCEPT !.timer = FALSE]
  <2>1. Keeps(c)
    BY <1>3 DEF PointerOnToolbar
  <2>2. Only(modes, c, {"timer"}) /\ c.shown = modes.shown /\ c.inhibited = modes.inhibited
    BY Begins DEF Only, Shape, ModeFields
  <2> HIDE DEF c
  <2>3. Only(modes, c, {"shown", "timer", "stray", "inhibited"})
    BY <2>2 DEF Only
  <2>4. Sound(c) /\ Steady(modes, c) /\ c.requests = modes.requests /\ Mode(c) = Mode(modes)
    BY <1>1, <2>2, <2>3, Begins, ToolbarSettles
  <2> QED
    BY <2>1, <2>4, KeepsHolds
<1> QED
  BY <1>2, <1>3

\* A window that is closed in the middle of slides leaves their page to the next one.
LEMMA CloseHolds == ModesInvariant /\ Close => ModesInvariant'
<1> SUFFICES ASSUME ModesInvariant, Close PROVE ModesInvariant'
  OBVIOUS
<1> DEFINE v == IF Presenting(modes) THEN ModelToPage(modes, modes.slides.page) ELSE modes
           c == [v EXCEPT !.closed = TRUE]
<1>1. UserDoes(c, modes.asked) /\ ~modes.closed
  BY DEF Close, Keeps, UserDoes
<1>2. /\ Sound(v) /\ Steady(modes, v) /\ v.requests = modes.requests /\ Mode(v) = Mode(modes)
      /\ v.slides = modes.slides
      /\ Presenting(modes) => v.meta.page = modes.slides.page
  <2>1. CASE Presenting(modes)
    <3>1. modes.slides.page \in 0 .. (modes.pages - 1)
      BY <2>1, Begins DEF InRange
    <3>2. modes.slides.page \in Int
      BY <3>1, Begins DEF Shape
    <3> DEFINE u == ModelToPage(modes, modes.slides.page)
    <3>3. /\ Sound(u) /\ Steady(modes, u) /\ u.requests = modes.requests
          /\ Mode(u) = Mode(modes) /\ u.slides = modes.slides /\ u.meta.page = u.page
          /\ modes.slides.page \in 0 .. (modes.pages - 1) => u.page = modes.slides.page
      BY <3>2, Begins, PageSettles
    <3>4. v = u
      BY <2>1
    <3> HIDE DEF u, v
    <3> QED
      BY <3>1, <3>3, <3>4
  <2>2. CASE ~Presenting(modes)
    <3>1. v = modes
      BY <2>2
    <3> HIDE DEF v
    <3> QED
      BY <2>2, <3>1, Begins DEF Steady
  <2> QED
    BY <2>1, <2>2
<1> HIDE DEF v
<1>3. Shape(v) /\ Finds(v)
  <2>1. ("findbar" \in v.shown) = ("findbar" \in modes.shown)
    BY <1>2, Begins DEF Sound, Fits, Steady
  <2> QED
    BY <1>2, <2>1, Begins DEF Finds, Steady, Sound, Between
<1>4. Only(v, c, {"closed"}) /\ c.closed = TRUE
  BY <1>3 DEF Only, Shape, ModeFields
<1> HIDE DEF c
<1>5. /\ c.requests = v.requests /\ c.full = v.full /\ c.events = v.events
      /\ c.asked = v.asked /\ c.hasty = v.hasty /\ c.slides = v.slides
      /\ c.paned = v.paned /\ c.shown = v.shown /\ c.frozen = v.frozen /\ c.meta = v.meta
  BY <1>3, <1>4 DEF Only, Shape, ModeFields
<1>6. Only(v, c, {"asked", "hasty", "timer", "stray", "full", "requests", "events",
                  "toggle", "frozen", "paned", "closed"})
  BY <1>4 DEF Only
<1>7. Sound(c) /\ Mode(c) = Mode(v) /\ Presenting(c) = Presenting(v)
  BY <1>2, <1>3, <1>4, <1>5, <1>6, SoundStays DEF Shape
<1>8. Finds(c) /\ Leaves(c)
  BY <1>2, <1>3, <1>5, <1>7 DEF Finds, Leaves, Presenting
<1>9. Settled(c)
  BY <1>2, <1>5, <1>7, <1>8 DEF Settled, Steady, Applies
<1> QED
  BY <1>1, <1>2, <1>7, <1>9, UserHolds

\* A key of the window manager, pressed when everything has been answered.
LEMMA ToggleHolds == ModesInvariant /\ UserTogglesScreen => ModesInvariant'
<1> SUFFICES ASSUME ModesInvariant, UserTogglesScreen PROVE ModesInvariant'
  OBVIOUS
<1> DEFINE full == ~modes.full
           mode == IF full THEN "full" ELSE "frame"
           v == [modes EXCEPT !.full = full, !.events = Append(modes.events, full)]
           c == [v EXCEPT !.asked = mode, !.hasty = v.hasty \/ Turnaround(v, mode)]
<1>1. modes.requests = << >> /\ modes.events = << >> /\ modes' = c
  BY DEF UserTogglesScreen, Answered, UserDoes, Asks
<1>2. modes.full = Full(modes)
  BY <1>1 DEF ModesInvariant, Holds, Screen
<1>3. full \in BOOLEAN /\ full = (mode # "frame") /\ full = ~Full(modes)
  BY <1>2, Begins DEF Shape
<1> HIDE DEF full, mode
<1>16. Append(modes.events, full) = << full >>
  BY <1>1, <1>3
<1>17. v = [modes EXCEPT !.full = full, !.events = << full >>]
  BY <1>16
<1>4. /\ Only(modes, v, {"full", "events"}) /\ v.full = full /\ v.events = << full >>
  BY <1>17, Begins DEF Only, Shape, ModeFields
<1> HIDE DEF v
<1>5. v.hasty = modes.hasty /\ DOMAIN v = ModeFields
  BY <1>4, Begins DEF Only, Shape, ModeFields
<1>6. ~Turnaround(v, mode)
  BY <1>1 DEF Turnaround, Answered
<1>7. Only(v, c, {"asked", "hasty"}) /\ c.asked = mode /\ c.hasty = modes.hasty
  BY <1>5, <1>6, Begins DEF Only, ModeFields, Shape
<1> HIDE DEF c
<1>8. /\ Only(modes, c, {"full", "events", "asked", "hasty"}) /\ c.full = full
      /\ c.events = << full >>
  BY <1>4, <1>5, <1>7 DEF Only, ModeFields
<1>9. Only(modes, c, {"asked", "hasty", "timer", "stray", "full", "requests", "events",
                      "toggle", "frozen", "paned", "closed"})
  BY <1>8 DEF Only
<1>10. /\ c.requests = << >> /\ c.closed = modes.closed /\ c.slides = modes.slides
       /\ c.paned = modes.paned /\ c.shown = modes.shown /\ c.frozen = modes.frozen
       /\ c.meta = modes.meta
  BY <1>1, <1>8, Begins DEF Only, Shape, ModeFields
<1>11. Sound(c) /\ Mode(c) = Mode(modes) /\ Presenting(c) = Presenting(modes)
  <2>1. c.requests \in Seq(BOOLEAN) /\ c.events \in Seq(BOOLEAN)
    BY <1>1, <1>3, <1>8, <1>10, Begins DEF Shape
  <2>2. c.hasty \in BOOLEAN /\ c.closed \in BOOLEAN /\ c.full \in BOOLEAN
    BY <1>3, <1>7, <1>8, <1>10, Begins DEF Shape
  <2> QED
    BY <1>9, <2>1, <2>2, Begins, SoundStays
<1>12. Finds(c) /\ Leaves(c)
  BY <1>10, <1>11, Begins DEF Finds, Leaves, ModesInvariant, Holds
<1>13. Screen(c)
  BY <1>8 DEF Screen
<1>14. ASSUME ~c.hasty PROVE Obeys(c)
  <2>1. \A k \in DOMAIN c.events : c.events[k] = (c.asked # "frame")
    BY <1>3, <1>7, <1>8
  <2>2. \/ c.asked = "full" /\ Mode(c) = "frame"
        \/ c.asked = "frame" /\ Mode(c) # "frame"
    <3>1. CASE full
      BY <1>3, <1>7, <1>11, <3>1 DEF Full, mode
    <3>2. CASE ~full
      BY <1>3, <1>7, <1>11, <3>2 DEF Full, mode
    <3> QED
      BY <3>1, <3>2
  <2>3. c.events # << >>
    BY <1>8
  <2> QED
    BY <1>10, <2>1, <2>2, <2>3 DEF Obeys
<1>15. Holds(c)
  BY <1>11, <1>12, <1>13, <1>14 DEF Holds, Obeys
<1> QED
  BY <1>1, <1>15 DEF ModesInvariant, Holds, Sound, Between, Shape, InRange, Kept, OneMode, Fits,
                     Finds, Leaves, Screen, Obeys, Full, Mode, Presenting

-----------------------------------------------------------------------------
(* What happens by itself.                                                 *)

\* The program's own steps, when they have settled the window.
LEMMA ProgramHolds ==
  ASSUME ModesInvariant, NEW v, Program(v), Sound(v), Steady(modes, v), Applies(modes, v)
  PROVE  ModesInvariant'
<1> DEFINE mode == IF Mode(v) # Mode(modes) THEN Mode(v) ELSE modes.asked
<1>1. modes' = Asks(v, mode) /\ ~modes.closed
  BY DEF Program
<1>2. Mode(v) = mode \/ (Mode(v) = Mode(modes) /\ mode = modes.asked)
  OBVIOUS
<1> HIDE DEF mode
<1>3. Settled(v)
  BY <1>1, Settlement
<1>4. Holds(Asks(v, mode))
  BY <1>2, <1>3, Settles
<1> HIDE DEF Asks
<1> QED
  BY <1>1, <1>4 DEF ModesInvariant, Holds, Sound, Between, Shape, InRange, Kept, OneMode,
                    Fits, Finds, Leaves, Screen, Obeys, Full, Mode, Presenting

\* The load job of the window has finished.
LEMMA LoadHolds == ModesInvariant /\ FinishLoad => ModesInvariant'
<1> SUFFICES ASSUME ModesInvariant, FinishLoad PROVE ModesInvariant'
  OBVIOUS
<1>1. PICK pages \in ModePages, mode \in {"frame", "full", "slides"} :
        Program(DocumentLoaded(modes, pages, mode))
  BY DEF FinishLoad
<1> DEFINE c == DocumentLoaded(modes, pages, mode)
<1>2. pages \in Nat \ {0} /\ modes.pages = Loading
  BY ModesAssumption DEF FinishLoad, Loaded
<1>3. Sound(c) /\ Steady(modes, c) /\ Rises(modes, c)
  BY <1>2, Begins, Loads
<1>4. Program(c)
  BY <1>1
<1> HIDE DEF c
<1> QED
  BY <1>3, <1>4, RisesApplies, ProgramHolds

\* The document is loaded again.
LEMMA ReloadHolds == ModesInvariant /\ Reload => ModesInvariant'
<1> SUFFICES ASSUME ModesInvariant, Reload PROVE ModesInvariant'
  OBVIOUS
<1>1. PICK pages \in ModePages : modes' = Asks(ShowDocumentIn(modes, pages), modes.asked)
  BY DEF Reload
<1> DEFINE c == ShowDocumentIn(modes, pages)
<1>2. pages \in Nat \ {0} /\ modes.pages # Loading /\ ~modes.closed
  BY ModesAssumption DEF Reload, Loaded
<1>3. /\ Sound(c) /\ Steady(modes, c) /\ Mode(c) = Mode(modes)
      /\ c.requests = IF Presenting(modes) THEN Append(modes.requests, TRUE)
                      ELSE modes.requests
  BY <1>2, Begins, ShowsAgain
<1>4. modes' = Asks(c, modes.asked)
  BY <1>1
<1> HIDE DEF c
<1>5. Applies(modes, c)
  <2>1. Presenting(modes) => Full(c) = TRUE
    BY <1>3 DEF Full, Mode
  <2> QED
    BY <1>3, <2>1 DEF Applies
<1>6. Settled(c)
  BY <1>2, <1>3, <1>5, Settlement
<1>7. Holds(Asks(c, modes.asked))
  BY <1>3, <1>6, Settles
<1> HIDE DEF Asks
<1> QED
  BY <1>4, <1>7 DEF ModesInvariant, Holds, Sound, Between, Shape, InRange, Kept, OneMode,
                    Fits, Finds, Leaves, Screen, Obeys, Full, Mode, Presenting

\* The idle source that runs the mode of the document.
LEMMA SetupHolds == ModesInvariant /\ SetupIdle => ModesInvariant'
<1> SUFFICES ASSUME ModesInvariant, SetupIdle PROVE ModesInvariant'
  OBVIOUS
<1> DEFINE v == [modes EXCEPT !.setup = FALSE]
<1>1. PICK mode \in {"frame", "full", "slides"} : Program(RunMode(v, mode))
  BY DEF SetupIdle
<1>2. modes.setup /\ modes.pages # Loading
  BY Begins DEF SetupIdle, InRange
<1>3. Only(modes, v, {"setup"}) /\ v.setup = FALSE
  BY Begins DEF Only, Shape, ModeFields
<1> HIDE DEF v
<1>4. /\ v.pages = modes.pages /\ v.page = modes.page /\ v.slides = modes.slides
      /\ v.meta = modes.meta /\ v.shown = modes.shown /\ v.inhibited = modes.inhibited
      /\ v.chrome = modes.chrome /\ v.fullscreen = modes.fullscreen
      /\ v.rotation = modes.rotation /\ v.continuous = modes.continuous
      /\ v.requests = modes.requests /\ Steady(modes, v)
  BY <1>3, Begins DEF Only, Shape, ModeFields, Steady
<1>5. Shape(v)
  BY <1>3, Begins DEF Only, Shape, ModeFields
<1>6. Mode(v) = Mode(modes) /\ Presenting(v) = Presenting(modes)
  BY <1>4 DEF Mode, Presenting
<1>7. InRange(v) /\ OneMode(v) /\ Kept(v)
  BY <1>3, <1>4, <1>6, Begins DEF InRange, OneMode, Kept
<1>8. Fits(v)
  BY <1>4, <1>6, Begins DEF Fits
<1>9. Sound(v)
  BY <1>5, <1>7, <1>8 DEF Sound, Between
<1> DEFINE c == RunMode(v, mode)
<1>10. Sound(c) /\ Steady(v, c) /\ Rises(v, c)
  BY <1>2, <1>4, <1>9, ModeRuns
<1>11. Program(c)
  BY <1>1
<1> HIDE DEF c
<1>12. Steady(modes, c)
  BY <1>4, <1>10 DEF Steady
<1>13. Rises(modes, c)
  BY <1>4, <1>6, <1>10 DEF Rises, Full
<1> QED
  BY <1>10, <1>11, <1>12, <1>13, RisesApplies, ProgramHolds

\* The timer of the toolbar.
LEMMA ToolbarHolds == ModesInvariant /\ ToolbarTimeout => ModesInvariant'
<1> SUFFICES ASSUME ModesInvariant, ToolbarTimeout PROVE ModesInvariant'
  OBVIOUS
<1>1. PICK stray \in BOOLEAN, shown \in {modes.shown, modes.shown \ {"toolbar"}} :
        Program([modes EXCEPT !.timer = FALSE, !.stray = stray, !.shown = shown])
  <2>1. CASE Program([modes EXCEPT !.timer = FALSE, !.stray = FALSE,
                                   !.shown = modes.shown \ {"toolbar"}])
    BY <2>1
  <2>2. CASE Program([modes EXCEPT !.timer = FALSE, !.stray = TRUE])
    <3>1. [modes EXCEPT !.timer = FALSE, !.stray = TRUE]
            = [modes EXCEPT !.timer = FALSE, !.stray = TRUE, !.shown = modes.shown]
      BY Begins DEF Shape, ModeFields
    <3> QED
      BY <2>2, <3>1
  <2> QED
    BY <2>1, <2>2 DEF ToolbarTimeout
<1> DEFINE c == [modes EXCEPT !.timer = FALSE, !.stray = stray, !.shown = shown]
<1>2. Program(c)
  BY <1>1
<1>3. Only(modes, c, {"timer", "stray", "shown"}) /\ c.shown = shown
      /\ c.inhibited = modes.inhibited
  BY Begins DEF Only, Shape, ModeFields
<1> HIDE DEF c
<1>4. Only(modes, c, {"shown", "timer", "stray", "inhibited"})
  BY <1>3 DEF Only
<1>5. /\ ("sidebar" \in c.shown) = ("sidebar" \in modes.shown)
      /\ ("findbar" \in c.shown) = ("findbar" \in modes.shown)
      /\ "toolbar" \in c.shown => "toolbar" \in modes.shown
  BY <1>1, <1>3
<1>6. modes.inhibited \in BOOLEAN /\ (modes.inhibited => Presenting(modes))
      /\ (Presenting(modes) => "toolbar" \notin modes.shown)
  BY Begins DEF Shape, Fits
<1>7. Sound(c) /\ Steady(modes, c) /\ c.requests = modes.requests /\ Mode(c) = Mode(modes)
  BY <1>3, <1>4, <1>5, <1>6, Begins, ToolbarSettles
<1>8. Applies(modes, c)
  BY <1>7 DEF Applies
<1> QED
  BY <1>2, <1>7, <1>8, ProgramHolds

\* The queues of requests and of events: what is taken from one, and put into one.
LEMMA TakesFirst ==
  ASSUME NEW q \in Seq(BOOLEAN), q # << >>
  PROVE  /\ Head(q) \in BOOLEAN /\ Head(q) = q[1] /\ 1 \in DOMAIN q
         /\ Tail(q) \in Seq(BOOLEAN)
         /\ \A k \in DOMAIN Tail(q) : k + 1 \in DOMAIN q /\ Tail(q)[k] = q[k + 1]
         /\ \A k \in DOMAIN q : k = 1 \/ (k - 1 \in DOMAIN Tail(q) /\ q[k] = Tail(q)[k - 1])
         /\ Tail(q) # << >> => Tail(q)[Len(Tail(q))] = q[Len(q)]
         /\ Tail(q) = << >> => q[Len(q)] = Head(q)
<1>1. Len(q) \in Nat \ {0} /\ DOMAIN q = 1 .. Len(q)
  OBVIOUS
<1>2. Head(q) = q[1] /\ q[1] \in BOOLEAN /\ Tail(q) \in Seq(BOOLEAN)
  BY <1>1
<1>3. Len(Tail(q)) = Len(q) - 1 /\ DOMAIN Tail(q) = 1 .. (Len(q) - 1)
  BY <1>1
<1>4. \A k \in 1 .. (Len(q) - 1) : Tail(q)[k] = q[k + 1]
  BY <1>1
<1>5. ASSUME Tail(q) # << >> PROVE Tail(q)[Len(Tail(q))] = q[Len(q)]
  <2>1. Len(q) - 1 \in 1 .. (Len(q) - 1)
    BY <1>1, <1>2, <1>3, <1>5
  <2> QED
    BY <1>1, <1>3, <1>4, <2>1
<1>6. ASSUME Tail(q) = << >> PROVE q[Len(q)] = Head(q)
  <2> DEFINE t == Tail(q)
             n == Len(q)
  <2>1. t = << >> /\ Len(t) = n - 1 /\ n \in Nat
    BY <1>1, <1>3, <1>6
  <2> HIDE DEF t, n
  <2>2. Len(t) = 0
    BY <2>1
  <2>3. n = 1
    BY <2>1, <2>2
  <2>4. q[n] = q[1]
    BY <2>3
  <2> QED
    BY <1>2, <2>4 DEF n
<1>7. \A k \in DOMAIN Tail(q) : k + 1 \in DOMAIN q /\ Tail(q)[k] = q[k + 1]
  BY <1>1, <1>3, <1>4
<1>8. \A k \in DOMAIN q : k = 1 \/ (k - 1 \in DOMAIN Tail(q) /\ q[k] = Tail(q)[k - 1])
  BY <1>1, <1>3, <1>4
<1> QED
  BY <1>1, <1>2, <1>5, <1>6, <1>7, <1>8

\* What is put into a queue is its last.
LEMMA AddsLast ==
  ASSUME NEW q \in Seq(BOOLEAN), NEW b \in BOOLEAN
  PROVE  LET a == Append(q, b)
         IN  /\ a \in Seq(BOOLEAN) /\ a # << >> /\ a[Len(a)] = b
             /\ \A k \in DOMAIN a : a[k] = b \/ (k \in DOMAIN q /\ a[k] = q[k])
<1> DEFINE a == Append(q, b)
<1>1. a \in Seq(BOOLEAN) /\ Len(a) = Len(q) + 1 /\ Len(q) \in Nat
  OBVIOUS
<1>2. a[Len(q) + 1] = b /\ \A k \in 1 .. Len(q) : a[k] = q[k]
  OBVIOUS
<1>3. DOMAIN a = 1 .. (Len(q) + 1) /\ DOMAIN q = 1 .. Len(q)
  BY <1>1
<1> HIDE DEF a
<1>4. \A k \in DOMAIN a : k = Len(q) + 1 \/ k \in DOMAIN q
  BY <1>1, <1>3
<1>5. a # << >>
  BY <1>1
<1> QED
  BY <1>1, <1>2, <1>3, <1>4, <1>5 DEF a

\* The manager changes the screen, and tells of it when it was different.
LEMMA ManagerHolds == ModesInvariant /\ ManagerAnswers => ModesInvariant'
<1> SUFFICES ASSUME ModesInvariant, ManagerAnswers PROVE ModesInvariant'
  OBVIOUS
<1> DEFINE full == Head(modes.requests)
           rest == Tail(modes.requests)
           events == IF full = modes.full THEN modes.events ELSE Append(modes.events, full)
           c == [modes EXCEPT !.requests = rest, !.full = full, !.events = events]
<1>1. modes' = c /\ modes.requests # << >>
  BY DEF ManagerAnswers
<1>2. modes.requests \in Seq(BOOLEAN) /\ modes.events \in Seq(BOOLEAN) /\ modes.full \in BOOLEAN
  BY Begins DEF Shape
<1>3. /\ full \in BOOLEAN /\ full = modes.requests[1] /\ 1 \in DOMAIN modes.requests
      /\ rest \in Seq(BOOLEAN)
      /\ \A k \in DOMAIN rest : k + 1 \in DOMAIN modes.requests /\ rest[k] = modes.requests[k + 1]
      /\ \A k \in DOMAIN modes.requests :
           k = 1 \/ (k - 1 \in DOMAIN rest /\ modes.requests[k] = rest[k - 1])
  BY <1>1, <1>2, TakesFirst
<1> HIDE DEF full, rest
<1>5. /\ events \in Seq(BOOLEAN)
      /\ events # << >> /\ full # modes.full => events[Len(events)] = full
      /\ \A k \in DOMAIN events :
           events[k] = full \/ (k \in DOMAIN modes.events /\ events[k] = modes.events[k])
      /\ modes.events # << >> => events # << >>
      /\ full = modes.full => events = modes.events
      /\ full # modes.full => events # << >>
  <2>1. CASE full = modes.full
    <3>1. events = modes.events
      BY <2>1
    <3> QED
      BY <1>2, <2>1, <3>1
  <2>2. CASE full # modes.full
    <3>1. events = Append(modes.events, full)
      BY <2>2
    <3> QED
      BY ZenonT(60), <1>2, <1>3, <2>2, <3>1, AddsLast
  <2> QED
    BY <2>1, <2>2
<1> HIDE DEF events
<1>6. /\ Only(modes, c, {"requests", "full", "events"}) /\ c.requests = rest
      /\ c.full = full /\ c.events = events
  BY Begins DEF Only, Shape, ModeFields
<1> HIDE DEF c
<1>7. /\ c.closed = modes.closed /\ c.slides = modes.slides /\ c.asked = modes.asked
      /\ c.paned = modes.paned /\ c.shown = modes.shown /\ c.frozen = modes.frozen
      /\ c.meta = modes.meta /\ c.hasty = modes.hasty
  BY <1>6, Begins DEF Only, Shape, ModeFields
<1>8. Only(modes, c, {"asked", "hasty", "timer", "stray", "full", "requests", "events",
                      "toggle", "frozen", "paned", "closed"})
  BY <1>6 DEF Only
<1>9. Sound(c) /\ Mode(c) = Mode(modes) /\ Presenting(c) = Presenting(modes)
  BY <1>3, <1>5, <1>6, <1>7, <1>8, Begins, SoundStays DEF Shape
<1>10. Finds(c) /\ Leaves(c)
  BY <1>7, <1>9, Begins DEF Finds, Leaves, ModesInvariant, Holds
<1>11. Screen(c)
  <2>1. /\ modes.events # << >> => modes.events[Len(modes.events)] = modes.full
        /\ modes.events = << >> /\ (\A k \in DOMAIN modes.requests : modes.requests[k] = modes.full)
             => modes.full = Full(modes)
    BY DEF ModesInvariant, Holds, Screen
  <2>2. events # << >> => events[Len(events)] = full
    BY <1>5, <2>1
  <2>3. ASSUME events = << >>, \A k \in DOMAIN rest : rest[k] = full
        PROVE  full = Full(modes)
    <3>1. full = modes.full /\ modes.events = << >>
      BY <1>5, <2>3
    <3>2. \A k \in DOMAIN modes.requests : modes.requests[k] = modes.full
      BY <1>3, <2>3, <3>1
    <3> QED
      BY <2>1, <3>1, <3>2
  <2> QED
    BY <1>6, <1>9, <2>2, <2>3 DEF Screen, Full
<1>12. ASSUME ~c.hasty PROVE Obeys(c)
  <2>1. /\ \A k \in DOMAIN modes.requests : modes.requests[k] = (modes.asked # "frame")
        /\ \A k \in DOMAIN modes.events : modes.events[k] = (modes.asked # "frame")
        /\ \/ Mode(modes) = modes.asked
           \/ /\ modes.events # << >>
              /\ \/ modes.asked = "full" /\ Mode(modes) = "frame"
                 \/ modes.asked = "frame" /\ Mode(modes) # "frame"
    BY <1>7, <1>12 DEF ModesInvariant, Holds, Obeys
  <2>2. full = (modes.asked # "frame")
    BY <1>3, <2>1
  <2>3. \A k \in DOMAIN rest : rest[k] = (modes.asked # "frame")
    BY <1>3, <2>1
  <2>4. \A k \in DOMAIN events : events[k] = (modes.asked # "frame")
    BY <1>5, <2>1, <2>2
  <2> QED
    BY <1>5, <1>6, <1>7, <1>9, <2>1, <2>3, <2>4 DEF Obeys
<1>13. Holds(c)
  BY <1>9, <1>10, <1>11, <1>12 DEF Holds, Obeys
<1> QED
  BY <1>1, <1>13 DEF ModesInvariant, Holds, Sound, Between, Shape, InRange, Kept, OneMode, Fits,
                     Finds, Leaves, Screen, Obeys, Full, Mode, Presenting

\* ev_window_state_event: the window follows the screen.
LEMMA EventLeads ==
  ASSUME NEW w, Sound(w), NEW full \in BOOLEAN
  PROVE  LET c == StateEvent(w, full)
         IN  /\ Sound(c) /\ Steady(w, c)
             /\ full /\ Full(w) => Mode(c) = Mode(w)
             /\ full /\ ~Full(w) => Mode(c) = "full"
             /\ ~full => Mode(c) = "frame"
             /\ c.requests = w.requests \/ (full /\ c.requests = Append(w.requests, TRUE))
<1> DEFINE c == StateEvent(w, full)
<1>1. Shape(w) /\ OneMode(w) /\ (Full(w) = (w.fullscreen \/ Presenting(w)))
  BY DEF Sound, Between, Full, Mode
<1>2. CASE full /\ Full(w)
  <2>1. c = w
    BY <1>1, <1>2 DEF StateEvent
  <2> HIDE DEF c
  <2> QED
    BY <1>2, <2>1 DEF Steady, c
<1>3. CASE full /\ ~Full(w)
  <2>1. c = RunFullscreen(w)
    BY <1>1, <1>3 DEF StateEvent
  <2> HIDE DEF c
  <2>2. /\ Sound(c) /\ c.fullscreen
        /\ Only(w, c, {"fullscreen", "timer", "shown", "requests", "meta", "page",
                       "rotation", "slides", "toggle", "inhibited"})
        /\ c.requests = Append(w.requests, TRUE)
    BY <1>1, <1>3, <2>1, FullscreenRuns
  <2>3. Steady(w, c)
    BY <1>1, <2>2 DEF Only, Shape, ModeFields, Steady
  <2>4. Mode(c) = "full"
    BY <2>2 DEF Sound, Between, OneMode, Mode
  <2> QED
    BY <1>3, <2>2, <2>3, <2>4 DEF c
<1>4. CASE ~full /\ w.fullscreen
  <2>1. PICK no \in BOOLEAN : no = FALSE
    OBVIOUS
  <2>2. c = StopFullscreen(w, no)
    BY <1>4, <2>1 DEF StateEvent
  <2> HIDE DEF c
  <2>3. /\ Sound(c) /\ Steady(w, c) /\ c.slides = w.slides /\ ~c.fullscreen
        /\ c.requests = w.requests
    BY <2>1, <2>2, FullscreenLeaves
  <2>4. Mode(c) = "frame"
    BY <1>1, <1>4, <2>3 DEF OneMode, Mode, Presenting
  <2> QED
    BY <1>4, <2>3, <2>4 DEF c
<1>5. CASE ~full /\ ~w.fullscreen
  <2>1. PICK no \in BOOLEAN : no = FALSE
    OBVIOUS
  <2>2. c = StopPresentation(w, no)
    BY <1>5, <2>1 DEF StateEvent
  <2> HIDE DEF c
  <2>3. /\ Sound(c) /\ ~Presenting(c) /\ c.requests = w.requests
        /\ Only(w, c, {"page", "rotation", "slides", "shown", "toggle", "inhibited",
                       "meta", "requests"})
    BY <2>1, <2>2, PresentationStops
  <2>4. Steady(w, c) /\ c.fullscreen = w.fullscreen
    BY <1>1, <2>3 DEF Only, Shape, ModeFields, Steady
  <2>5. Mode(c) = "frame"
    BY <1>5, <2>3, <2>4 DEF Mode
  <2> QED
    BY <1>5, <2>3, <2>4, <2>5 DEF c
<1> QED
  BY <1>2, <1>3, <1>4, <1>5

\* An event arrives, however old it is.
LEMMA EventHolds == ModesInvariant /\ EventArrives => ModesInvariant'
<1> SUFFICES ASSUME ModesInvariant, EventArrives PROVE ModesInvariant'
  OBVIOUS
<1> DEFINE full == Head(modes.events)
           rest == Tail(modes.events)
           w == [modes EXCEPT !.events = rest]
           c == StateEvent(w, full)
<1>1. modes' = c /\ modes.events # << >> /\ ~modes.closed
  BY DEF EventArrives
<1>2. modes.requests \in Seq(BOOLEAN) /\ modes.events \in Seq(BOOLEAN) /\ modes.full \in BOOLEAN
  BY Begins DEF Shape
<1>3. /\ full \in BOOLEAN /\ full = modes.events[1] /\ 1 \in DOMAIN modes.events
      /\ rest \in Seq(BOOLEAN)
      /\ \A k \in DOMAIN rest : k + 1 \in DOMAIN modes.events /\ rest[k] = modes.events[k + 1]
      /\ rest # << >> => rest[Len(rest)] = modes.events[Len(modes.events)]
      /\ rest = << >> => modes.events[Len(modes.events)] = full
  BY <1>1, <1>2, TakesFirst
<1> HIDE DEF full, rest
<1>4. Only(modes, w, {"events"}) /\ w.events = rest
  BY Begins DEF Only, Shape, ModeFields
<1> HIDE DEF w
<1>5. /\ w.closed = modes.closed /\ w.slides = modes.slides /\ w.asked = modes.asked
      /\ w.paned = modes.paned /\ w.shown = modes.shown /\ w.frozen = modes.frozen
      /\ w.hasty = modes.hasty /\ w.full = modes.full /\ w.requests = modes.requests
  BY <1>4, Begins DEF Only, Shape, ModeFields
<1>6. Only(modes, w, {"asked", "hasty", "timer", "stray", "full", "requests", "events",
                      "toggle", "frozen", "paned", "closed"})
  BY <1>4 DEF Only
<1>7. Sound(w) /\ Mode(w) = Mode(modes) /\ Presenting(w) = Presenting(modes)
  BY <1>2, <1>3, <1>4, <1>5, <1>6, Begins, SoundStays DEF Shape
<1>8. /\ Sound(c) /\ Steady(w, c)
      /\ full /\ Full(w) => Mode(c) = Mode(w)
      /\ full /\ ~Full(w) => Mode(c) = "full"
      /\ ~full => Mode(c) = "frame"
      /\ c.requests = w.requests \/ (full /\ c.requests = Append(w.requests, TRUE))
  BY <1>3, <1>7, EventLeads
<1> HIDE DEF c
<1>9. Full(c) = full
  <2>1. Full(c) \in BOOLEAN /\ (Full(c) <=> full)
    BY <1>3, <1>8 DEF Full
  <2> QED
    BY <1>3, <2>1
<1>10. Finds(c) /\ Leaves(c)
  <2>1. Fits(modes) /\ Finds(modes) /\ Fits(c)
    BY <1>8, Begins DEF Sound
  <2>2. c.closed = modes.closed /\ c.frozen = modes.frozen /\ c.paned = modes.paned
    BY <1>5, <1>8 DEF Steady
  <2>3. ("findbar" \in c.shown) = ("findbar" \in modes.shown)
    <3>1. Fits(w) /\ ("findbar" \in c.chrome) = ("findbar" \in w.chrome)
      BY <1>7, <1>8 DEF Sound, Steady
    <3> QED
      BY <1>5, <2>1, <3>1 DEF Fits
  <2> QED
    BY <1>1, <2>1, <2>2, <2>3 DEF Finds, Leaves
<1>11. c.events = rest /\ c.full = modes.full /\ c.asked = modes.asked /\ c.hasty = modes.hasty
  BY <1>4, <1>5, <1>8 DEF Steady
<1>12. Screen(c)
  <2>1. modes.events[Len(modes.events)] = modes.full
    BY <1>1 DEF ModesInvariant, Holds, Screen
  <2> QED
    BY <1>3, <1>9, <1>11, <2>1 DEF Screen
<1>13. ASSUME ~c.hasty PROVE Obeys(c)
  <2>1. /\ \A k \in DOMAIN modes.requests : modes.requests[k] = (modes.asked # "frame")
        /\ \A k \in DOMAIN modes.events : modes.events[k] = (modes.asked # "frame")
        /\ \/ Mode(modes) = modes.asked
           \/ /\ modes.asked = "full" /\ Mode(modes) = "frame"
           \/ /\ modes.asked = "frame" /\ Mode(modes) # "frame"
    BY <1>11, <1>13 DEF ModesInvariant, Holds, Obeys
  <2>2. full = (modes.asked # "frame")
    BY <1>3, <2>1
  <2>3. \A k \in DOMAIN rest : rest[k] = (modes.asked # "frame")
    BY <1>3, <2>1
  <2>4. \A k \in DOMAIN c.requests : c.requests[k] = (modes.asked # "frame")
    <3>1. CASE c.requests = w.requests
      BY <1>5, <2>1, <3>1
    <3>2. CASE full /\ c.requests = Append(w.requests, TRUE)
      <4>1. c.requests = Append(modes.requests, full)
        BY <1>3, <1>5, <3>2
      <4>2. \A k \in DOMAIN c.requests :
              \/ c.requests[k] = full
              \/ k \in DOMAIN modes.requests /\ c.requests[k] = modes.requests[k]
        BY <1>2, <1>3, <4>1, AddsLast
      <4> QED
        BY <2>1, <2>2, <4>2
    <3> QED
      BY <1>8, <3>1, <3>2
  <2>5. Mode(c) = modes.asked
    <3>1. CASE full
      <4>1. modes.asked # "frame"
        BY <2>2, <3>1
      <4>2. CASE Full(w)
        BY <1>7, <1>8, <2>1, <3>1, <4>1, <4>2 DEF Full
      <4>3. CASE ~Full(w)
        BY <1>7, <1>8, <2>1, <3>1, <4>1, <4>3 DEF Full
      <4> QED
        BY <4>2, <4>3
    <3>2. CASE ~full
      BY <1>8, <2>2, <3>2
    <3> QED
      BY <3>1, <3>2
  <2> QED
    BY <1>11, <2>3, <2>4, <2>5 DEF Obeys
<1>14. Holds(c)
  BY <1>8, <1>10, <1>12, <1>13 DEF Holds, Obeys
<1> QED
  BY <1>1, <1>14 DEF ModesInvariant, Holds, Sound, Between, Shape, InRange, Kept, OneMode, Fits,
                     Finds, Leaves, Screen, Obeys, Full, Mode, Presenting

-----------------------------------------------------------------------------
(* The theorem.                                                            *)

\* A window that begins to load, in its frame or, as the metadata asks, fullscreen.
LEMMA ModesBegin == ModesInit => ModesInvariant
<1> SUFFICES ASSUME ModesInit PROVE ModesInvariant
  OBVIOUS
<1>1. PICK fullscreen \in BOOLEAN, presentation \in BOOLEAN, sidebar \in BOOLEAN, page \in 0..1 :
        modes = Opening([fullscreen |-> fullscreen, presentation |-> presentation,
                         sidebar |-> sidebar, page |-> page, rotation |-> 0,
                         continuous |-> TRUE])
  BY DEF ModesInit
<1> DEFINE meta == [fullscreen |-> fullscreen, presentation |-> presentation,
                    sidebar |-> sidebar, page |-> page, rotation |-> 0, continuous |-> TRUE]
           w == [pages |-> Loading, page |-> meta.page, rotation |-> meta.rotation,
            continuous |-> meta.continuous, fullscreen |-> FALSE, slides |-> NoSlides,
            chrome |-> {"sidebar"}, shown |-> {"toolbar"}, paned |-> "sidebar",
            toggle |-> TRUE, frozen |-> 0, inhibited |-> FALSE,
            timer |-> FALSE, stray |-> FALSE, setup |-> FALSE, meta |-> meta,
            full |-> FALSE, requests |-> << >>, events |-> << >>,
            asked |-> "frame", hasty |-> FALSE, closed |-> FALSE]
           c == RunFullscreen(w)
<1>2. modes = IF meta.fullscreen THEN [c EXCEPT !.asked = "full"] ELSE w
  BY <1>1 DEF Opening
<1>3. /\ DOMAIN meta = MetaFields /\ meta.fullscreen = fullscreen /\ meta.page \in Nat
      /\ meta.sidebar \in BOOLEAN /\ meta.presentation \in BOOLEAN
  BY <1>1 DEF MetaFields
<1> HIDE DEF meta
<1>4. DOMAIN w = ModeFields
  BY DEF ModeFields
<1>5. /\ w.pages = Loading /\ w.page = meta.page /\ w.rotation = meta.rotation
      /\ w.continuous = meta.continuous /\ w.fullscreen = FALSE /\ w.slides = NoSlides
      /\ w.chrome = {"sidebar"} /\ w.shown = {"toolbar"} /\ w.paned = "sidebar"
      /\ w.frozen = 0 /\ w.inhibited = FALSE /\ w.setup = FALSE /\ w.meta = meta
      /\ w.full = FALSE /\ w.requests = << >> /\ w.events = << >> /\ w.asked = "frame"
      /\ w.hasty = FALSE /\ w.closed = FALSE
  OBVIOUS
<1> HIDE DEF w
<1>6. Shape(w)
  <2>1. DOMAIN w.slides = {"page", "rotation"} /\ Loading \in Nat
    BY <1>5 DEF NoSlides, Loading
  <2>2. << >> \in Seq(BOOLEAN)
    OBVIOUS
  <2> QED
    BY <1>3, <1>4, <1>5, <2>1, <2>2 DEF Shape
<1>7. ~Presenting(w)
  BY <1>5 DEF Presenting
<1>8. InRange(w) /\ OneMode(w) /\ Finds(w) /\ Leaves(w)
  BY <1>5, <1>7 DEF InRange, OneMode, Finds, Leaves
<1>9. Fits(w)
  BY <1>5, <1>7 DEF Fits
<1>10. CASE ~fullscreen
  <2>1. modes = w
    BY <1>2, <1>3, <1>10
  <2>2. Kept(w)
    <3>1. meta.fullscreen = FALSE
      BY <1>3, <1>10
    <3> QED
      BY <1>5, <3>1 DEF Kept
  <2>3. Mode(w) = "frame" /\ Full(w) = FALSE
    BY <1>5, <1>7 DEF Mode, Full
  <2>4. Screen(w)
    BY <1>5, <2>3 DEF Screen
  <2>5. Obeys(w)
    BY <1>5, <2>3 DEF Obeys
  <2> QED
    BY <1>6, <1>8, <1>9, <2>1, <2>2, <2>4, <2>5 DEF ModesInvariant, Holds, Sound, Between
<1>11. CASE fullscreen
  <2> DEFINE v == [w EXCEPT !.fullscreen = TRUE]
             x == [v EXCEPT !.shown = v.shown \cup {"toolbar"}, !.timer = TRUE]
             u == [x EXCEPT !.requests = Append(x.requests, TRUE)]
             d == [c EXCEPT !.asked = "full"]
  <2>1. PICK yes \in BOOLEAN : yes = TRUE
    OBVIOUS
  <2>2. modes = d
    BY <1>2, <1>3, <1>11
  <2>3. c = Remember(u, "fullscreen", yes)
    BY <1>5, <1>7, <2>1 DEF RunFullscreen, StopPresentation, ShowToolbar
  <2> HIDE DEF c
  <2>4. Only(w, v, {"fullscreen"}) /\ v.fullscreen = TRUE
    BY <1>4 DEF Only, ModeFields
  <2> HIDE DEF v
  <2>5. v.shown = {"toolbar"} /\ DOMAIN v = ModeFields /\ v.requests = << >>
    BY <1>4, <1>5, <2>4 DEF Only, ModeFields
  <2>6. Only(v, x, {"shown", "timer"}) /\ x.shown = {"toolbar"}
    BY <2>5 DEF Only, ModeFields
  <2> HIDE DEF x
  <2>7. x.requests = << >> /\ DOMAIN x = ModeFields
    BY <2>5, <2>6 DEF Only, ModeFields
  <2>8. Append(x.requests, TRUE) = << TRUE >>
    BY <2>7
  <2>9. u = [x EXCEPT !.requests = << TRUE >>]
    BY <2>8
  <2>10. Only(x, u, {"requests"}) /\ u.requests = << TRUE >>
    BY <2>7, <2>9 DEF Only, ModeFields
  <2> HIDE DEF u
  <2>11. Only(w, u, {"fullscreen", "shown", "timer", "requests"})
    BY <2>4, <2>6, <2>10 DEF Only
  <2>12. u.fullscreen = TRUE /\ u.shown = {"toolbar"} /\ u.meta = meta
    BY <1>4, <1>5, <2>4, <2>5, <2>6, <2>7, <2>10 DEF Only, ModeFields
  <2>13. Shape(u) /\ "fullscreen" \in MetaFields
    <3>1. << TRUE >> \in Seq(BOOLEAN)
      OBVIOUS
    <3> QED
      BY ZenonT(60), <1>6, <2>10, <2>11, <2>12, <3>1 DEF Only, Shape, ModeFields, MetaFields
  <2>14. /\ Shape(c) /\ Only(u, c, {"meta"})
         /\ Only(u.meta, c.meta, {"fullscreen"}) /\ c.meta.fullscreen = yes
    BY <2>1, <2>3, <2>13, RemembersFlag
  <2>15. Only(w, c, {"fullscreen", "shown", "timer", "requests", "meta"})
    BY <2>11, <2>14 DEF Only
  <2>16. c.fullscreen = TRUE /\ c.shown = {"toolbar"} /\ c.requests = << TRUE >>
    BY <2>10, <2>12, <2>13, <2>14 DEF Only, Shape, ModeFields
  <2>17. Only(c, d, {"asked"}) /\ d.asked = "full"
    BY <2>14 DEF Only, Shape, ModeFields
  <2> HIDE DEF d
  <2>18. d.fullscreen = TRUE /\ d.shown = {"toolbar"} /\ d.requests = << TRUE >> /\ d.meta = c.meta
    BY <2>14, <2>16, <2>17 DEF Only, Shape, ModeFields
  <2>19. Only(w, d, {"fullscreen", "shown", "timer", "requests", "meta", "asked"})
    BY <2>15, <2>17 DEF Only
  <2>20. /\ d.pages = Loading /\ d.page = meta.page /\ d.rotation = meta.rotation
         /\ d.continuous = meta.continuous /\ d.slides = NoSlides
         /\ d.chrome = {"sidebar"} /\ d.paned = "sidebar"
         /\ d.frozen = 0 /\ d.inhibited = FALSE /\ d.setup = FALSE
         /\ d.full = FALSE /\ d.events = << >>
         /\ d.hasty = FALSE /\ d.closed = FALSE
    BY <1>4, <1>5, <2>19 DEF Only, ModeFields
  <2>21. Shape(d)
    <3>1. DOMAIN d = ModeFields
      BY <1>4, <2>19 DEF Only
    <3> QED
      BY <2>14, <2>16, <2>17, <2>18, <3>1 DEF Only, Shape, ModeFields
  <2>22. ~Presenting(d)
    BY <2>20 DEF Presenting
  <2>23. InRange(d) /\ OneMode(d) /\ Finds(d) /\ Leaves(d)
    BY <2>18, <2>20, <2>22 DEF InRange, OneMode, Finds, Leaves
  <2>24. Kept(d)
    <3>1. /\ d.meta.page = meta.page /\ d.meta.rotation = meta.rotation
          /\ d.meta.continuous = meta.continuous /\ d.meta.fullscreen = TRUE
      BY <1>3, <2>1, <2>12, <2>14, <2>18 DEF Only, MetaFields
    <3> QED
      BY <2>18, <2>20, <3>1 DEF Kept
  <2>25. Fits(d)
    BY <2>18, <2>20, <2>22 DEF Fits
  <2>26. Mode(d) = "full"
    BY <2>18, <2>22 DEF Mode
  <2>27. DOMAIN d.requests = {1} /\ d.requests[1] = TRUE
    BY <2>18
  <2>28. Screen(d)
    BY <2>20, <2>27 DEF Screen
  <2>29. Obeys(d)
    <3>1. \A k \in DOMAIN d.requests : d.requests[k] = (d.asked # "frame")
      BY <2>17, <2>27
    <3>2. \A k \in DOMAIN d.events : d.events[k] = (d.asked # "frame")
      BY <2>20
    <3> QED
      BY <2>17, <2>26, <3>1, <3>2 DEF Obeys
  <2> QED
    BY <2>2, <2>21, <2>23, <2>24, <2>25, <2>28, <2>29 DEF ModesInvariant, Holds, Sound, Between
<1> QED
  BY <1>10, <1>11

\* Each call of the user, each answer of the window manager and each step of the
\* program's own keeps the invariant.
LEMMA ModesStep == ModesInvariant /\ [ModesNext]_modeVars => ModesInvariant'
<1> SUFFICES ASSUME ModesInvariant, [ModesNext]_modeVars PROVE ModesInvariant'
  OBVIOUS
<1>1. CASE ModesUser
  BY <1>1, FullscreenHolds, PresentationHolds, FinishedHolds, ContinuousHolds, RotateHolds,
     PageHolds, SidebarHolds, SidebarCloses, FindBarOpens, EscapeHolds, FocusHolds,
     FocusOfSlidesHolds, PointerHolds, CloseHolds, ToggleHolds, Zenon DEF ModesUser
<1>2. CASE FinishLoad
  BY <1>2, LoadHolds
<1>3. CASE Reload
  BY <1>3, ReloadHolds
<1>4. CASE SetupIdle
  BY <1>4, SetupHolds
<1>5. CASE ToolbarTimeout
  BY <1>5, ToolbarHolds
<1>6. CASE ManagerAnswers
  BY <1>6, ManagerHolds
<1>7. CASE EventArrives
  BY <1>7, EventHolds
<1>8. CASE UNCHANGED modeVars
  BY <1>8 DEF modeVars, ModesInvariant, Holds, Sound, Between, Shape, InRange, Kept, OneMode,
              Fits, Finds, Leaves, Screen, Obeys, Full, Mode, Presenting
<1> QED
  BY <1>1, <1>2, <1>3, <1>4, <1>5, <1>6, <1>7, <1>8 DEF ModesNext

\* The invariant says what the property does.
LEMMA ModesTell == ModesInvariant => WindowIsAsAsked
<1> SUFFICES ASSUME ModesInvariant PROVE WindowIsAsAsked
  OBVIOUS
<1>1. /\ Kept(modes) /\ Fits(modes) /\ Finds(modes) /\ OneMode(modes) /\ Leaves(modes)
      /\ Screen(modes) /\ Obeys(modes)
  BY DEF ModesInvariant, Holds, Sound, Between
<1>2. ModeIsOnTheScreen
  <2>1. ASSUME Answered(modes)
        PROVE  /\ modes.full = (Mode(modes) # "frame")
               /\ ~modes.hasty => Mode(modes) = modes.asked
    <3>1. modes.requests = << >> /\ modes.events = << >>
      BY <2>1 DEF Answered
    <3>2. \A k \in DOMAIN modes.requests : modes.requests[k] = modes.full
      BY <3>1
    <3>3. modes.full = Full(modes)
      BY <1>1, <3>1, <3>2 DEF Screen
    <3> QED
      BY <1>1, <3>1, <3>3 DEF Obeys, Full
  <2> QED
    BY <1>1, <2>1 DEF ModeIsOnTheScreen, OneMode
<1>3. BarsFitTheMode
  BY <1>1 DEF BarsFitTheMode, Fits, Finds, Loaded
<1>4. NextWindowIsLikeThis
  BY <1>1 DEF NextWindowIsLikeThis, Kept, Fits, Leaves, Loaded
<1> QED
  BY <1>2, <1>3, <1>4 DEF WindowIsAsAsked

\* For any number of pages and any number of calls: a window is never fullscreen and
\* presenting at once; when the window manager has answered everything, the window
\* fills the screen exactly in these modes and is in the mode that was asked for last;
\* its bars agree with its mode, and the metadata with both (shell/ev-window.c).
THEOREM WindowFollows == ModesSpec => []WindowIsAsAsked
<1>1. ModesInit => ModesInvariant
  BY ModesBegin
<1>2. ModesInvariant /\ [ModesNext]_modeVars => ModesInvariant'
  BY ModesStep
<1>3. ModesInvariant => WindowIsAsAsked
  BY ModesTell
<1> QED
  BY <1>1, <1>2, <1>3, PTL DEF ModesSpec

-----------------------------------------------------------------------------
(* Editing: the invariant, of the desk of EvEditing or of one that a step  *)
(* puts together.                                                          *)

\* The texts written in the first n calls, and a desk with no others on it.
Texts(n) == NoNote .. n
Contents(n) == [Items -> Texts(n)]
Document(n) == [number : 1 .. EditCalls + 1, value : Contents(n), modified : BOOLEAN]
Widget(n) == [item : Fields \cup {"none"}, text : Texts(n), changed : BOOLEAN]
Popup(n) ==
  [on : BOOLEAN, of : 0 .. EditCalls + 1, visible : BOOLEAN, contents : Texts(n),
   text : Texts(n), connected : BOOLEAN, removed : BOOLEAN]
SaveJob(n) ==
  [at : {"queued", "writing", "written", "sending", "ended", "failed"},
   to : {"own", "copy"}, of : 1 .. EditCalls + 1, value : Contents(n), reset : BOOLEAN]
Window(n) ==
  [open : BOOLEAN, dialog : {"none", "chooser", "modified"}, idles : 0 .. n,
   typed : Contents(n), kept : Contents(n), raced : BOOLEAN, doubt : BOOLEAN,
   calls : 0 .. n, saves : Nat]
DeskOf(n) ==
  [d : Document(n), x : Widget(n), p : Popup(n), s : Seq(SaveJob(n)), w : Window(n),
   f : [own : Contents(n), copy : Contents(n)]]

\* A widget that was changed edits a field, there is one popup, it is of this document or
\* of one before, as the save jobs are, of which the second waits for the first.
InOrder(k) ==
  /\ k.x.item = "none" => ~k.x.changed
  /\ k.p.visible => k.p.on
  /\ ~k.p.on => k.p.text = k.p.contents /\ k.p.of = 0
  /\ k.p.of <= k.d.number
  /\ Len(k.s) <= 2
  /\ \A i \in DOMAIN k.s : k.s[i].of <= k.d.number /\ (i = 2 => k.s[i].at = "queued")

\* The popup writes into the annotation of the document.
Live(k) == k.p.connected /\ k.p.of = k.d.number /\ ~k.p.removed

\* What was typed is in the document, or in the widget or the popup that will write it.
Reaches(k) ==
  /\ \A item \in Fields :
       IF k.x.item = item /\ k.x.changed THEN k.x.text = k.w.typed[item]
                                         ELSE k.d.value[item] = k.w.typed[item]
  /\ IF Live(k) /\ k.p.text # k.p.contents THEN k.p.text = k.w.typed["note"]
                                           ELSE k.d.value["note"] = k.w.typed["note"]

\* The save job at work is one of this document, and at this place.
SavesAt(k, at) == k.s # <<>> /\ k.s[1].at = at /\ k.s[1].of = k.d.number

\* What is written is what the document has, until a field is set; a document that was
\* not modified when the flag was reset was as it had been kept.
Tells(k) ==
  k.w.raced \/
    /\ SavesAt(k, "written") => k.s[1].value = k.d.value
    /\ SavesAt(k, "sending") => /\ k.d.modified \/ k.s[1].value = k.d.value
                                /\ \/ k.d.modified \/ k.w.doubt \/ k.s[1].reset
                                   \/ k.d.value = k.w.kept
    /\ \/ k.d.modified \/ k.w.doubt \/ k.d.value = k.w.kept
       \/ SavesAt(k, "sending")

\* A desk in which all this is so, and whose texts are of the first n calls.
DeskGood(k, n) == k \in DeskOf(n) /\ InOrder(k) /\ Reaches(k) /\ Tells(k)
EditInvariant == DeskGood(Desk, edWin.calls) /\ edWin.calls <= EditCalls

-----------------------------------------------------------------------------
(* Editing, the parts of the steps: what each does to a desk.              *)

\* Texts that were written stay in range when more are.
LEMMA MoreTexts ==
  ASSUME NEW n \in Nat
  PROVE  Texts(n) \subseteq Texts(n + 1) /\ NoNote \in Texts(n) /\ 0 \in Texts(n)
         /\ n + 1 \in Texts(n + 1)
  BY DEF Texts, NoNote

\* The parts of a desk.
LEMMA DeskParts ==
  ASSUME NEW n \in Nat, NEW k \in DeskOf(n)
  PROVE  /\ k.d \in Document(n) /\ k.x \in Widget(n) /\ k.p \in Popup(n)
         /\ k.s \in Seq(SaveJob(n)) /\ k.w \in Window(n)
         /\ k.f \in [own : Contents(n), copy : Contents(n)]
  BY DEF DeskOf

\* Desks with the same parts are the same.
LEMMA DeskFrom ==
  ASSUME NEW n \in Nat, NEW d \in Document(n), NEW x \in Widget(n), NEW p \in Popup(n),
         NEW s \in Seq(SaveJob(n)), NEW w \in Window(n),
         NEW f \in [own : Contents(n), copy : Contents(n)]
  PROVE  [d |-> d, x |-> x, p |-> p, s |-> s, w |-> w, f |-> f] \in DeskOf(n)
  BY DEF DeskOf

\* A desk that came from another one by writing what was typed: the same save jobs,
\* files and document, and the same window but for the race with the saving.
Written(k, c) ==
  /\ c.s = k.s /\ c.f = k.f /\ c.d.number = k.d.number
  /\ c.w = [k.w EXCEPT !.raced = c.w.raced]

\* Nothing but one item of the document is another; the widget and the popup stay.
OnlyItem(k, c, item) ==
  /\ c.x = k.x /\ c.p = k.p
  /\ \A other \in Items \ {item} : c.d.value[other] = k.d.value[other]

\* An item has this text, in a document that is modified.
Has(c, item, text) == c.d.modified = TRUE /\ c.d.value[item] = text

\* What a desk written from another one has in common with it.
LEMMA WrittenWindow ==
  ASSUME NEW n \in Nat, NEW k \in DeskOf(n), NEW c, Written(k, c)
  PROVE  /\ c.w.open = k.w.open /\ c.w.dialog = k.w.dialog /\ c.w.idles = k.w.idles
         /\ c.w.typed = k.w.typed /\ c.w.kept = k.w.kept /\ c.w.doubt = k.w.doubt
         /\ c.w.calls = k.w.calls /\ c.w.saves = k.w.saves
<1>1. k.w \in Window(n)
  BY DeskParts
<1> QED
  BY <1>1 DEF Written, Window

\* Writing a field: it is there and the document is modified.  A save job that has
\* written the document and not yet reset the flag is overtaken.
LEMMA SetFieldDoes ==
  ASSUME NEW n \in Nat, NEW k \in DeskOf(n), NEW item \in Items, NEW text \in Texts(n)
  PROVE  /\ SetField(k, item, text) \in DeskOf(n)
         /\ Written(k, SetField(k, item, text))
         /\ OnlyItem(k, SetField(k, item, text), item)
         /\ Has(SetField(k, item, text), item, text)
         /\ SetField(k, item, text).w.raced <=> k.w.raced \/ SavesAt(k, "written")
<1> DEFINE d == [k.d EXCEPT !.value = [k.d.value EXCEPT ![item] = text], !.modified = TRUE]
           raced == k.w.raced \/ SavesAt(k, "written")
           w == [k.w EXCEPT !.raced = raced]
<1>1. d \in Document(n)
  BY DeskParts DEF Document, Contents
<1>2. raced \in BOOLEAN
  BY DeskParts, Zenon DEF Window
<1>3. w \in Window(n)
  <2> HIDE DEF raced
  <2> QED
    BY <1>2, DeskParts DEF Window
<1>4. k.s # <<>> => Head(k.s) = k.s[1]
  BY DeskParts
<1>5. raced <=> (k.w.raced \/ (k.s # <<>> /\ Head(k.s).at = "written" /\ Head(k.s).of = k.d.number))
  BY <1>4 DEF SavesAt
<1>6. raced = (k.w.raced \/ (k.s # <<>> /\ Head(k.s).at = "written" /\ Head(k.s).of = k.d.number))
  BY <1>2, <1>5, Zenon
<1>7. SetField(k, item, text) = [k EXCEPT !.d = d, !.w = w]
  <2>1. SetField(k, item, text) = [k EXCEPT !.d = d, !.w = [k.w EXCEPT !.raced = 
         (k.w.raced \/ (k.s # <<>> /\ Head(k.s).at = "written" /\ Head(k.s).of = k.d.number))]]
    BY DEF SetField, DeskOf, Document, Window
  <2> HIDE DEF d, raced
  <2> QED
    BY <2>1, <1>6
<1> HIDE DEF d, w, raced
<1>8. [k EXCEPT !.d = d, !.w = w] \in DeskOf(n)
  BY <1>1, <1>3 DEF DeskOf
<1>9. /\ [k EXCEPT !.d = d, !.w = w].d = d /\ [k EXCEPT !.d = d, !.w = w].w = w
      /\ [k EXCEPT !.d = d, !.w = w].x = k.x /\ [k EXCEPT !.d = d, !.w = w].p = k.p
      /\ [k EXCEPT !.d = d, !.w = w].s = k.s /\ [k EXCEPT !.d = d, !.w = w].f = k.f
  BY DEF DeskOf
<1>10. w.raced = raced /\ w = [k.w EXCEPT !.raced = w.raced]
  BY DeskParts DEF Window, w
<1>11. raced <=> (k.w.raced \/ SavesAt(k, "written"))
  BY DEF raced
<1>12. /\ d.number = k.d.number /\ d.modified = TRUE /\ d.value[item] = text
       /\ \A other \in Items \ {item} : d.value[other] = k.d.value[other]
  BY DeskParts DEF Document, Contents, d
<1>13. Written(k, [k EXCEPT !.d = d, !.w = w]) /\ OnlyItem(k, [k EXCEPT !.d = d, !.w = w], item)
  BY <1>9, <1>10, <1>12 DEF Written, OnlyItem
<1>14. Has([k EXCEPT !.d = d, !.w = w], item, text)
  BY <1>9, <1>12 DEF Has
<1> QED
  BY <1>7, <1>8, <1>9, <1>10, <1>11, <1>13, <1>14

\* Writing a field keeps the order of the desk, and the modified flag true.
LEMMA SetFieldGood ==
  ASSUME NEW n \in Nat, NEW k \in DeskOf(n), NEW item \in Items, NEW text \in Texts(n),
         InOrder(k), Tells(k)
  PROVE  /\ InOrder(SetField(k, item, text)) /\ Tells(SetField(k, item, text))
         /\ Written(k, SetField(k, item, text))
         /\ Live(SetField(k, item, text)) <=> Live(k)
         /\ Has(SetField(k, item, text), item, text)
         /\ OnlyItem(k, SetField(k, item, text), item)
<1> DEFINE c == SetField(k, item, text)
<1>1. c \in DeskOf(n) /\ Written(k, c) /\ OnlyItem(k, c, item) /\ Has(c, item, text)
  BY SetFieldDoes
<1>2. c.d.modified = TRUE
  BY <1>1 DEF Has
<1>5. c.w.raced <=> k.w.raced \/ SavesAt(k, "written")
  BY SetFieldDoes
<1> HIDE DEF c
<1>3. c.d.number = k.d.number /\ c.s = k.s /\ c.x = k.x /\ c.p = k.p
  BY <1>1 DEF Written, OnlyItem
<1>7. \A at : SavesAt(c, at) <=> SavesAt(k, at)
  BY <1>1, <1>3 DEF SavesAt
<1>8. Tells(c)
  BY <1>1, <1>2, <1>3, <1>5, <1>7 DEF Tells
<1>9. InOrder(c) /\ (Live(c) <=> Live(k))
  BY <1>1, <1>3 DEF InOrder, Live
<1> QED
  BY <1>1, <1>8, <1>9 DEF c

\* ev_view_form_field_text_save, ev_view_form_field_choice_save: the widget has nothing
\* more to write.
LEMMA SaveFieldGood ==
  ASSUME NEW n \in Nat, NEW k, DeskGood(k, n)
  PROVE  /\ DeskGood(SaveField(k), n) /\ Written(k, SaveField(k))
         /\ SaveField(k).x.changed = FALSE /\ SaveField(k).x.item = k.x.item
         /\ SaveField(k).p = k.p
         /\ SaveField(k).d.value["note"] = k.d.value["note"]
<1>1. /\ k \in DeskOf(n) /\ InOrder(k) /\ Reaches(k) /\ Tells(k)
      /\ k.x \in Widget(n) /\ k.w \in Window(n)
  BY DeskParts DEF DeskGood
<1>2. CASE k.x.changed = FALSE
  <2>1. SaveField(k) = k
    BY <1>2 DEF SaveField
  <2>2. k.w = [k.w EXCEPT !.raced = k.w.raced]
    BY <1>1 DEF Window
  <2> QED
    BY <1>2, <2>1, <2>2 DEF Written
<1>3. CASE k.x.changed = TRUE
  <2> DEFINE item == k.x.item
             b == SetField(k, item, k.x.text)
             c == [b EXCEPT !.x.changed = FALSE]
  <2>1. item \in Fields /\ item \in Items /\ item # "note" /\ k.x.text \in Texts(n)
    BY <1>1, <1>3 DEF InOrder, Widget, Fields, Items
  <2> HIDE DEF item
  <2>2. /\ b \in DeskOf(n) /\ InOrder(b) /\ Tells(b) /\ Written(k, b) /\ (Live(b) <=> Live(k))
        /\ OnlyItem(k, b, item) /\ Has(b, item, k.x.text)
    BY <1>1, <2>1, SetFieldDoes, SetFieldGood
  <2>9. /\ b.d.value[item] = k.x.text /\ b.x = k.x /\ b.p = k.p
        /\ \A other \in Items \ {item} : b.d.value[other] = k.d.value[other]
    BY <2>2 DEF OnlyItem, Has
  <2>3. SaveField(k) = c
    BY <1>3 DEF SaveField, item
  <2> HIDE DEF b
  <2>4. /\ c \in DeskOf(n) /\ c.d = b.d /\ c.p = b.p /\ c.s = b.s /\ c.w = b.w /\ c.f = b.f
        /\ c.x.changed = FALSE /\ c.x.item = item
    BY <1>1, <2>2, <2>9 DEF DeskOf, Widget, item
  <2> HIDE DEF c
  <2>5. InOrder(c) /\ Tells(c) /\ (Live(c) <=> Live(k)) /\ Written(k, c)
    BY <2>2, <2>4 DEF InOrder, Tells, Live, Written, SavesAt
  <2>6. c.w.open = k.w.open /\ c.w.typed = k.w.typed
    BY <1>1, <2>5, WrittenWindow
  <2>7. c.d.value["note"] = k.d.value["note"]
    BY <2>1, <2>4, <2>9 DEF Items
  <2>8. Reaches(c)
    <3>1. \A other \in Fields : other \in Items /\ other # "note"
      BY DEF Fields, Items
    <3>2. \A other \in Fields \ {item} : c.d.value[other] = k.d.value[other]
      BY <2>4, <2>9, <3>1
    <3>3. ASSUME NEW other \in Fields
          PROVE  c.d.value[other] = k.w.typed[other]
      <4>1. CASE other = item
        BY <1>1, <1>3, <2>1, <2>4, <2>9, <3>3, <4>1 DEF Reaches, item
      <4>2. CASE other # item
        BY <1>1, <3>2, <3>3, <4>2 DEF Reaches, item
      <4> QED
        BY <4>1, <4>2
    <3> QED
      BY <1>1, <2>4, <2>5, <2>6, <2>7, <2>9, <3>3 DEF Reaches
  <2> QED
    BY <2>2, <2>3, <2>4, <2>5, <2>7, <2>8, <2>9 DEF DeskGood, item
<1>4. k.x.changed = TRUE \/ k.x.changed = FALSE
  BY <1>1 DEF Widget
<1> QED
  BY <1>2, <1>3, <1>4

\* ev_view_remove_all
LEMMA RemoveAllGood ==
  ASSUME NEW n \in Nat, NEW k, DeskGood(k, n)
  PROVE  /\ DeskGood(RemoveAll(k), n) /\ Written(k, RemoveAll(k))
         /\ RemoveAll(k).x = NoWidget /\ RemoveAll(k).p = k.p
<1> DEFINE b == SaveField(k)
           c == [b EXCEPT !.x = NoWidget]
<1>1. /\ DeskGood(b, n) /\ Written(k, b) /\ b.x.changed = FALSE /\ b.p = k.p
      /\ b \in DeskOf(n)
  BY SaveFieldGood DEF DeskGood
<1>2. RemoveAll(k) = c
  BY DEF RemoveAll
<1> HIDE DEF b
<1>3. NoWidget \in Widget(n) /\ NoWidget.changed = FALSE
  BY MoreTexts DEF NoWidget, Widget
<1>4. /\ c \in DeskOf(n) /\ c.x = NoWidget /\ c.d = b.d /\ c.p = b.p /\ c.s = b.s /\ c.w = b.w
      /\ c.f = b.f
  BY <1>1, <1>3 DEF DeskOf
<1> HIDE DEF c
<1>5. DeskGood(c, n)
  BY <1>1, <1>3, <1>4 DEF DeskGood, InOrder, Reaches, Tells, Live, SavesAt
<1>6. Written(k, c)
  BY <1>1, <1>4 DEF Written
<1> QED
  BY <1>1, <1>2, <1>4, <1>5, <1>6

\* Nothing of the popup but what it has written is another.
SamePopup(k, c) ==
  /\ c.p.on = k.p.on /\ c.p.of = k.p.of /\ c.p.visible = k.p.visible /\ c.p.text = k.p.text
  /\ c.p.connected = k.p.connected /\ c.p.removed = k.p.removed

\* The annotation does not wait for the lock: the worker does not write, or there is
\* nothing to write.
MaySync(k) == Writing(k) => k.p.text = k.p.contents

\* ev_annotation_set_contents and ev_view_annotation_save_contents
LEMMA SyncGood ==
  ASSUME NEW n \in Nat, NEW k, DeskGood(k, n), MaySync(k)
  PROVE  /\ DeskGood(SyncContents(k), n) /\ Written(k, SyncContents(k))
         /\ SyncContents(k).x = k.x /\ SamePopup(k, SyncContents(k))
         /\ SyncContents(k).p.text = SyncContents(k).p.contents
<1>1. /\ k \in DeskOf(n) /\ InOrder(k) /\ Reaches(k) /\ Tells(k) /\ k.s \in Seq(SaveJob(n))
      /\ k.p \in Popup(n) /\ k.w \in Window(n) /\ k.d \in Document(n)
  BY DeskParts DEF DeskGood
<1>2. CASE ~k.p.on \/ k.p.contents = k.p.text
  <2>1. SyncContents(k) = k /\ k.p.text = k.p.contents
    BY <1>1, <1>2 DEF SyncContents, InOrder
  <2>2. k.w = [k.w EXCEPT !.raced = k.w.raced]
    BY <1>1 DEF Window
  <2> QED
    BY <2>1, <2>2 DEF Written, SamePopup
<1>3. CASE k.p.on /\ k.p.contents # k.p.text
  <2> DEFINE p == [k.p EXCEPT !.contents = k.p.text]
             b == [k EXCEPT !.p = p]
             text == IF k.p.of = k.d.number /\ ~k.p.removed THEN k.p.text
                     ELSE k.d.value["note"]
             d == [k.d EXCEPT !.modified = TRUE, !.value = [k.d.value EXCEPT !["note"] = text]]
             c == [k EXCEPT !.p = p, !.d = d]
  <2>1. ~SavesAt(k, "written")
    <3>1. ~Writing(k)
      BY <1>3 DEF MaySync
    <3>2. k.s # <<>> => Head(k.s) = k.s[1]
      BY <1>1
    <3> QED
      BY <3>1, <3>2 DEF Writing, SavesAt
  <2>2. /\ p \in Popup(n) /\ p.contents = p.text /\ p.text = k.p.text /\ p.on = k.p.on
        /\ p.of = k.p.of /\ p.visible = k.p.visible /\ p.connected = k.p.connected
        /\ p.removed = k.p.removed
    BY <1>1 DEF Popup
  <2>3. "note" \in Items /\ text \in Texts(n)
    BY <1>1 DEF Items, Popup, Document, Contents
  <2>4. /\ d \in Document(n) /\ d.number = k.d.number /\ d.modified = TRUE
        /\ d.value["note"] = text
        /\ \A item \in Fields : d.value[item] = k.d.value[item]
    <3> HIDE DEF text
    <3>1. \A item \in Fields : item \in Items /\ item # "note"
      BY DEF Fields, Items
    <3> QED
      BY <1>1, <2>3, <3>1 DEF Document, Contents
  <2>5. CASE ~k.p.connected
    <3>1. SyncContents(k) = b
      BY <1>1, <1>3, <2>5 DEF SyncContents, DeskOf
    <3> HIDE DEF p
    <3>2. /\ b \in DeskOf(n) /\ b.p = p /\ b.d = k.d /\ b.x = k.x /\ b.s = k.s /\ b.w = k.w
          /\ b.f = k.f
      BY <1>1, <2>2 DEF DeskOf
    <3> HIDE DEF b
    <3>3. ~Live(k) /\ ~Live(b)
      BY <2>2, <2>5, <3>2 DEF Live
    <3>4. InOrder(b) /\ Reaches(b) /\ Tells(b)
      <4>1. InOrder(b)
        BY <1>1, <1>3, <2>2, <3>2 DEF InOrder
      <4>2. Reaches(b)
        BY <1>1, <3>2, <3>3 DEF Reaches
      <4>3. Tells(b)
        BY <1>1, <3>2 DEF Tells, SavesAt
      <4> QED
        BY <4>1, <4>2, <4>3
    <3>5. Written(k, b) /\ SamePopup(k, b) /\ b.p.text = b.p.contents
      BY <1>1, <2>2, <3>2 DEF Written, SamePopup, Window
    <3> QED
      BY <3>1, <3>2, <3>4, <3>5 DEF DeskGood
  <2>6. CASE k.p.connected
    <3>1. SyncContents(k) = c
      BY <1>1, <1>3, <2>6 DEF SyncContents, DeskOf, Document
    <3> HIDE DEF p, d
    <3>2. /\ c \in DeskOf(n) /\ c.p = p /\ c.d = d /\ c.x = k.x /\ c.s = k.s /\ c.w = k.w
          /\ c.f = k.f
      BY <1>1, <2>2, <2>4 DEF DeskOf
    <3> HIDE DEF c
    <3>3. \A at : SavesAt(c, at) <=> SavesAt(k, at)
      BY <2>4, <3>2 DEF SavesAt
    <3>4. InOrder(c) /\ Tells(c)
      <4>1. InOrder(c)
        BY <1>1, <1>3, <2>2, <2>4, <3>2, ZenonT(60) DEF InOrder
      <4>2. Tells(c)
        BY <1>1, <2>1, <2>4, <3>2, <3>3 DEF Tells
      <4> QED
        BY <4>1, <4>2
    <3>5. Reaches(c)
      <4>1. Live(k) => text = k.p.text
        BY DEF Live
      <4>2. ~Live(k) => text = k.d.value["note"]
        BY <2>6 DEF Live
      <4> HIDE DEF text
      <4> QED
        BY <1>1, <1>3, <2>2, <2>4, <3>2, <4>1, <4>2 DEF Reaches
    <3>6. Written(k, c) /\ SamePopup(k, c) /\ c.p.text = c.p.contents
      BY <1>1, <2>2, <2>4, <3>2 DEF Written, SamePopup, Window
    <3> QED
      BY <3>1, <3>2, <3>4, <3>5, <3>6 DEF DeskGood
  <2> QED
    BY <2>5, <2>6
<1> QED
  BY <1>2, <1>3

\* One desk written from another, and a third from that.
LEMMA WrittenAgain ==
  ASSUME NEW n \in Nat, NEW k \in DeskOf(n), NEW b \in DeskOf(n), NEW c,
         Written(k, b), Written(b, c)
  PROVE  Written(k, c)
<1>1. k.w \in Window(n) /\ b.w \in Window(n)
  BY DeskParts
<1>2. b.w = [k.w EXCEPT !.raced = b.w.raced] /\ c.w = [b.w EXCEPT !.raced = c.w.raced]
  BY DEF Written
<1>3. c.w = [k.w EXCEPT !.raced = c.w.raced]
  BY <1>1, <1>2 DEF Window
<1> QED
  BY <1>3 DEF Written

\* ev_view_form_field_text_focus_out, and with it what the annotation window does
LEMMA FocusGood ==
  ASSUME NEW n \in Nat, NEW k, DeskGood(k, n)
  PROVE  /\ DeskGood(EntryLeft(k), n) /\ Written(k, EntryLeft(k)) /\ EntryLeft(k).p = k.p
         /\ EntryLeft(k).d.value["note"] = k.d.value["note"]
         /\ MaySync(k) => /\ DeskGood(FocusLost(k), n) /\ Written(k, FocusLost(k))
                          /\ SamePopup(k, FocusLost(k))
                          /\ FocusLost(k).p.text = FocusLost(k).p.contents
<1>1. ASSUME NEW b, DeskGood(b, n)
      PROVE  /\ DeskGood(EntryLeft(b), n) /\ Written(b, EntryLeft(b)) /\ EntryLeft(b).p = b.p
             /\ EntryLeft(b).d.value["note"] = b.d.value["note"]
  <2>1. Written(b, b)
    <3>1. b.w \in Window(n)
      BY <1>1, DeskParts DEF DeskGood
    <3> QED
      BY <3>1 DEF Written, Window
  <2> QED
    BY <1>1, <2>1, SaveFieldGood DEF EntryLeft
<1>2. ASSUME MaySync(k)
      PROVE  /\ DeskGood(FocusLost(k), n) /\ Written(k, FocusLost(k))
             /\ SamePopup(k, FocusLost(k)) /\ FocusLost(k).p.text = FocusLost(k).p.contents
  <2> DEFINE b == SyncContents(k)
             c == EntryLeft(b)
  <2>1. DeskGood(b, n) /\ Written(k, b) /\ SamePopup(k, b) /\ b.p.text = b.p.contents
    BY <1>2, SyncGood
  <2>2. DeskGood(c, n) /\ Written(b, c) /\ c.p = b.p
    BY <1>1, <2>1
  <2>3. FocusLost(k) = c
    BY DEF FocusLost
  <2> HIDE DEF b, c
  <2>4. Written(k, c)
    BY <2>1, <2>2, WrittenAgain DEF DeskGood
  <2>5. SamePopup(k, c) /\ c.p.text = c.p.contents
    BY <2>1, <2>2 DEF SamePopup
  <2> QED
    BY <2>2, <2>3, <2>4, <2>5
<1> QED
  BY <1>1, <1>2

\* A desk with the texts of n calls is one with those of n + 1.
LEMMA MoreDesks ==
  ASSUME NEW n \in Nat
  PROVE  /\ Document(n) \subseteq Document(n + 1) /\ Widget(n) \subseteq Widget(n + 1)
         /\ Popup(n) \subseteq Popup(n + 1) /\ Seq(SaveJob(n)) \subseteq Seq(SaveJob(n + 1))
         /\ Window(n) \subseteq Window(n + 1)
         /\ [own : Contents(n), copy : Contents(n)]
              \subseteq [own : Contents(n + 1), copy : Contents(n + 1)]
<1>1. Texts(n) \subseteq Texts(n + 1)
  BY MoreTexts
<1>2. Contents(n) \subseteq Contents(n + 1)
  BY <1>1 DEF Contents
<1>3. Document(n) \subseteq Document(n + 1)
  BY <1>2 DEF Document
<1>4. Widget(n) \subseteq Widget(n + 1)
  BY <1>1 DEF Widget
<1>5. Popup(n) \subseteq Popup(n + 1)
  BY <1>1 DEF Popup
<1>6. SaveJob(n) \subseteq SaveJob(n + 1)
  BY <1>2 DEF SaveJob
<1>7. Seq(SaveJob(n)) \subseteq Seq(SaveJob(n + 1))
  BY <1>6
<1>8. 0 .. n \subseteq 0 .. n + 1
  OBVIOUS
<1>9. Window(n) \subseteq Window(n + 1)
  BY <1>2, <1>8 DEF Window
<1> QED
  BY <1>2, <1>3, <1>4, <1>5, <1>7, <1>9

\* A call of the user changes nothing but the number of calls, and brings a text that
\* nobody has written before.
LEMMA CallGood ==
  ASSUME EditInvariant, edWin.calls < EditCalls
  PROVE  /\ edWin.calls \in Nat /\ edWin.calls + 1 \in Nat /\ edWin.calls + 1 <= EditCalls
         /\ Desk \in DeskOf(edWin.calls)
         /\ DeskGood(EditCall, edWin.calls + 1)
         /\ EditCall.d = edDoc /\ EditCall.x = widget /\ EditCall.p = popup
         /\ EditCall.s = saves /\ EditCall.f = files
         /\ EditCall.w = [edWin EXCEPT !.calls = edWin.calls + 1]
         /\ EditCall.w.calls = edWin.calls + 1
<1> DEFINE n == edWin.calls
           w == [edWin EXCEPT !.calls = n + 1]
           k == EditCall
<1>1. /\ Desk.d = edDoc /\ Desk.x = widget /\ Desk.p = popup /\ Desk.s = saves
      /\ Desk.w = edWin /\ Desk.f = files
  BY DEF Desk
<1>2. DeskGood(Desk, n)
  BY DEF EditInvariant
<1>3. edWin.calls \in Nat
  <2>1. edWin \in [open : BOOLEAN, dialog : {"none", "chooser", "modified"}, idles : 0 .. n,
           typed : Contents(n), kept : Contents(n), raced : BOOLEAN, doubt : BOOLEAN,
           calls : 0 .. n, saves : Nat]
    BY <1>1, <1>2 DEF DeskGood, DeskOf, Window
  <2> QED
    BY <2>1
<1> HIDE DEF n
<1>4. /\ Desk \in DeskOf(n) /\ n \in Nat
      /\ edDoc \in Document(n) /\ widget \in Widget(n) /\ popup \in Popup(n)
      /\ saves \in Seq(SaveJob(n)) /\ edWin \in Window(n)
      /\ files \in [own : Contents(n), copy : Contents(n)]
  BY <1>1, <1>2, <1>3, DeskParts DEF DeskGood, n
<1>5. edWin \in Window(n + 1)
  BY <1>4, MoreDesks
<1>6. w \in Window(n + 1)
  BY <1>4, <1>5 DEF Window
<1>7. k = [d |-> edDoc, x |-> widget, p |-> popup, s |-> saves, w |-> w, f |-> files]
  BY <1>1 DEF EditCall, Desk, n
<1>8. /\ w.calls = n + 1 /\ w.open = edWin.open /\ w.typed = edWin.typed
      /\ w.kept = edWin.kept /\ w.raced = edWin.raced /\ w.doubt = edWin.doubt
  BY <1>4 DEF Window
<1> HIDE DEF w, k
<1>9. k \in DeskOf(n + 1)
  <2>1. /\ n + 1 \in Nat /\ edDoc \in Document(n + 1) /\ widget \in Widget(n + 1)
        /\ popup \in Popup(n + 1) /\ saves \in Seq(SaveJob(n + 1))
        /\ files \in [own : Contents(n + 1), copy : Contents(n + 1)]
    BY <1>4, MoreDesks
  <2> QED
    BY <1>6, <1>7, <2>1, DeskFrom
<1>10. /\ k.d = edDoc /\ k.x = widget /\ k.p = popup /\ k.s = saves /\ k.w = w /\ k.f = files
  BY <1>7
<1>11. InOrder(k) /\ Reaches(k) /\ Tells(k)
  <2>1. InOrder(Desk) /\ Reaches(Desk) /\ Tells(Desk)
    BY <1>2 DEF DeskGood
  <2>2. InOrder(k)
    BY <1>1, <1>10, <2>1 DEF InOrder
  <2>3. Reaches(k)
    BY <1>1, <1>8, <1>10, <2>1 DEF Reaches, Live
  <2>4. Tells(k)
    BY <1>1, <1>8, <1>10, <2>1 DEF Tells, SavesAt
  <2> QED
    BY <2>2, <2>3, <2>4
<1> QED
  BY <1>4, <1>8, <1>9, <1>10, <1>11, EditAssumption DEF DeskGood, n, w, k

\* A step that leaves a good desk keeps the invariant.
LEMMA DeskNext ==
  ASSUME NEW n \in Nat, n <= EditCalls, NEW k, DeskGood(k, n), k.w.calls = n, DeskIs(k)
  PROVE  EditInvariant'
<1>1. k = [d |-> k.d, x |-> k.x, p |-> k.p, s |-> k.s, w |-> k.w, f |-> k.f]
  BY DEF DeskGood, DeskOf
<1>2. Desk' = k
  BY <1>1 DEF Desk, DeskIs
<1>3. edWin'.calls = n
  BY DEF DeskIs
<1> QED
  BY <1>2, <1>3 DEF EditInvariant

\* ev_window_clear_save_job: what is left of the save jobs is the one at work.
LEMMA ClearSaveGood ==
  ASSUME NEW n \in Nat, NEW k, DeskGood(k, n)
  PROVE  /\ DeskGood(ClearSave(k), n) /\ Len(ClearSave(k).s) <= 1
         /\ ClearSave(k).d = k.d /\ ClearSave(k).w = k.w
         /\ ClearSave(k).x = k.x /\ ClearSave(k).p = k.p /\ ClearSave(k).f = k.f
<1> DEFINE s == IF k.s = <<>> THEN <<>> ELSE IF Head(k.s).at = "queued" THEN <<>>
                ELSE <<Head(k.s)>>
           c == [k EXCEPT !.s = s]
<1>1. /\ k \in DeskOf(n) /\ InOrder(k) /\ Reaches(k) /\ Tells(k) /\ k.s \in Seq(SaveJob(n))
  BY DeskParts DEF DeskGood
<1>2. /\ s \in Seq(SaveJob(n)) /\ Len(s) <= 1
      /\ (s = <<>> \/ (s[1] = k.s[1] /\ k.s # <<>> /\ Len(s) = 1))
      /\ ((s = <<>> /\ k.s # <<>>) => k.s[1].at = "queued")
  <2>1. CASE k.s = <<>>
    BY <2>1
  <2>2. CASE k.s # <<>> /\ Head(k.s).at = "queued"
    BY <1>1, <2>2
  <2>3. CASE k.s # <<>> /\ Head(k.s).at # "queued"
    <3>1. Head(k.s) \in SaveJob(n) /\ Head(k.s) = k.s[1] /\ s = <<Head(k.s)>>
      BY <1>1, <2>3
    <3> QED
      BY <2>3, <3>1
  <2> QED
    BY <2>1, <2>2, <2>3
<1>3. ClearSave(k) = c
  BY DEF ClearSave
<1> HIDE DEF s
<1>4. /\ c \in DeskOf(n) /\ c.s = s /\ c.d = k.d /\ c.w = k.w /\ c.x = k.x /\ c.p = k.p
      /\ c.f = k.f
  BY <1>1, <1>2 DEF DeskOf
<1> HIDE DEF c
<1>5. InOrder(c)
  <2>1. \A i \in DOMAIN s : i = 1 /\ k.s # <<>> /\ 1 \in DOMAIN k.s
    BY <1>1, <1>2
  <2> QED
    BY <1>1, <1>2, <1>4, <2>1 DEF InOrder
<1>6. Tells(c)
  <2>1. \A at \in {"written", "sending"} : SavesAt(c, at) <=> SavesAt(k, at)
    BY <1>2, <1>4 DEF SavesAt
  <2>2. \A at \in {"written", "sending"} : SavesAt(k, at) => c.s[1] = k.s[1]
    BY <1>2, <1>4 DEF SavesAt
  <2> QED
    BY <1>1, <1>4, <2>1, <2>2 DEF Tells
<1>7. Reaches(c)
  BY <1>1, <1>4 DEF Reaches, Live
<1> QED
  BY <1>2, <1>3, <1>4, <1>5, <1>6, <1>7 DEF DeskGood

\* Only the dialog, the idle sources, the counters or whether it is open is another in
\* the window.
LEMMA WindowGood ==
  ASSUME NEW n \in Nat, NEW k, DeskGood(k, n), NEW w \in Window(n),
         w.typed = k.w.typed, w.kept = k.w.kept, w.raced = k.w.raced, w.doubt = k.w.doubt
  PROVE  /\ DeskGood([k EXCEPT !.w = w], n)
         /\ [k EXCEPT !.w = w].w = w /\ [k EXCEPT !.w = w].s = k.s
         /\ [k EXCEPT !.w = w].d = k.d
<1> DEFINE c == [k EXCEPT !.w = w]
<1>1. k \in DeskOf(n) /\ InOrder(k) /\ Reaches(k) /\ Tells(k)
  BY DEF DeskGood
<1>2. /\ c \in DeskOf(n) /\ c.w = w /\ c.s = k.s /\ c.d = k.d /\ c.x = k.x /\ c.p = k.p
  BY <1>1 DEF DeskOf
<1> HIDE DEF c
<1>3. InOrder(c)
  BY <1>1, <1>2 DEF InOrder
<1>4. Reaches(c)
  BY <1>1, <1>2 DEF Reaches, Live
<1>5. Tells(c)
  BY <1>1, <1>2 DEF Tells, SavesAt
<1> QED
  BY <1>2, <1>3, <1>4, <1>5 DEF DeskGood, c

\* Another widget that has nothing to write takes the place of one that has nothing.
LEMMA WidgetGood ==
  ASSUME NEW n \in Nat, NEW k, DeskGood(k, n), k.x.changed = FALSE,
         NEW x \in Widget(n), x.changed = FALSE
  PROVE  /\ DeskGood([k EXCEPT !.x = x], n) /\ [k EXCEPT !.x = x].w = k.w
<1> DEFINE c == [k EXCEPT !.x = x]
<1>1. k \in DeskOf(n) /\ InOrder(k) /\ Reaches(k) /\ Tells(k)
  BY DEF DeskGood
<1>2. /\ c \in DeskOf(n) /\ c.w = k.w /\ c.s = k.s /\ c.d = k.d /\ c.x = x /\ c.p = k.p
  BY <1>1 DEF DeskOf
<1> HIDE DEF c
<1>3. InOrder(c)
  BY <1>1, <1>2 DEF InOrder
<1>4. Reaches(c)
  BY <1>1, <1>2 DEF Reaches, Live
<1>5. Tells(c)
  BY <1>1, <1>2 DEF Tells, SavesAt
<1> QED
  BY <1>2, <1>3, <1>4, <1>5 DEF DeskGood, c

\* The desk after a call: what everything that takes the keyboard away starts from.
Called(c) ==
  /\ DeskGood(c, edWin.calls + 1) /\ c.w.calls = edWin.calls + 1 /\ c.w.open = edWin.open
  /\ c.d.number = edDoc.number /\ c.s = saves /\ c.w.idles \in 0 .. edWin.calls

\* What is in the popup has been written, and the popup is as it was.
Synced(c) == SamePopup(Desk, c) /\ c.p.text = c.p.contents

\* What is known of the desk once the keyboard or the widget is taken away.
LEMMA FocusedGood ==
  ASSUME EditInvariant, edWin.calls < EditCalls
  PROVE  /\ Called(EditCall) /\ Called(EntryLeft(EditCall)) /\ Called(RemoveAll(EditCall))
         /\ EntryLeft(EditCall).p = popup
         /\ EntryLeft(EditCall).d.value["note"] = edDoc.value["note"]
         /\ RemoveAll(EditCall).x = NoWidget
         /\ MaySync(Desk) =>
              LET f == FocusLost(EditCall)
              IN /\ Called(SyncContents(EditCall)) /\ Called(f) /\ Called(RemoveAll(f))
                 /\ Synced(SyncContents(EditCall)) /\ Synced(f) /\ RemoveAll(f).x = NoWidget
<1> DEFINE n == edWin.calls + 1
           k == EditCall
<1>1. /\ edWin.calls \in Nat /\ n \in Nat /\ DeskGood(k, n) /\ k.d = edDoc /\ k.p = popup
      /\ k.s = saves /\ k.w = [edWin EXCEPT !.calls = n] /\ k.w.calls = n
      /\ Desk \in DeskOf(edWin.calls)
  BY CallGood
<1>2. /\ k.w.open = edWin.open /\ k.w.idles = edWin.idles /\ edWin.idles \in 0 .. edWin.calls
  <2>1. edWin \in Window(edWin.calls)
    BY <1>1, DeskParts DEF Desk
  <2> QED
    BY <1>1, <2>1 DEF Window
<1>3. Desk.p = popup /\ Desk.s = saves
  BY DEF Desk
<1>4. Called(k)
  BY <1>1, <1>2 DEF Called
<1> HIDE DEF k, n
<1>5. ASSUME NEW b, Called(b), NEW c, DeskGood(c, n), Written(b, c)
      PROVE  Called(c)
  <2>1. b \in DeskOf(n)
    BY <1>5 DEF Called, DeskGood, n
  <2>2. c.w.open = b.w.open /\ c.w.idles = b.w.idles /\ c.w.calls = b.w.calls
    BY <1>1, <1>5, <2>1, WrittenWindow
  <2> QED
    BY <1>5, <2>2 DEF Called, Written, n
<1>6. /\ Called(EntryLeft(k)) /\ EntryLeft(k).p = popup
      /\ EntryLeft(k).d.value["note"] = edDoc.value["note"]
  BY <1>1, <1>4, <1>5, FocusGood
<1>7. \A b : Called(b) => Called(RemoveAll(b)) /\ RemoveAll(b).x = NoWidget
  <2>1. ASSUME NEW b, Called(b) PROVE Called(RemoveAll(b)) /\ RemoveAll(b).x = NoWidget
    <3>1. DeskGood(b, n)
      BY <2>1 DEF Called, n
    <3> QED
      BY <1>1, <1>5, <2>1, <3>1, RemoveAllGood
  <2> QED
    BY <2>1
<1>8. ASSUME MaySync(Desk)
      PROVE  /\ Called(SyncContents(k)) /\ Called(FocusLost(k)) /\ Called(RemoveAll(FocusLost(k)))
             /\ Synced(SyncContents(k)) /\ Synced(FocusLost(k))
             /\ RemoveAll(FocusLost(k)).x = NoWidget
  <2>1. MaySync(k)
    BY <1>1, <1>3, <1>8 DEF MaySync, Writing
  <2>2. /\ DeskGood(SyncContents(k), n) /\ Written(k, SyncContents(k))
        /\ SamePopup(k, SyncContents(k))
        /\ SyncContents(k).p.text = SyncContents(k).p.contents
    BY <1>1, <2>1, SyncGood
  <2>3. /\ DeskGood(FocusLost(k), n) /\ Written(k, FocusLost(k)) /\ SamePopup(k, FocusLost(k))
        /\ FocusLost(k).p.text = FocusLost(k).p.contents
    BY <1>1, <2>1, FocusGood
  <2>4. Called(SyncContents(k)) /\ Called(FocusLost(k))
    BY <1>4, <1>5, <2>2, <2>3
  <2>5. Synced(SyncContents(k)) /\ Synced(FocusLost(k))
    BY <1>1, <1>3, <2>2, <2>3 DEF Synced, SamePopup
  <2> QED
    BY <1>7, <2>4, <2>5
<1> QED
  BY <1>4, <1>6, <1>7, <1>8 DEF k

\* A step after a call that leaves a good desk keeps the invariant.
LEMMA CalledNext ==
  ASSUME EditInvariant, edWin.calls < EditCalls, NEW k, Called(k), DeskIs(k)
  PROVE  EditInvariant'
<1>1. edWin.calls + 1 \in Nat /\ edWin.calls + 1 <= EditCalls
  BY CallGood
<1>2. DeskGood(k, edWin.calls + 1) /\ k.w.calls = edWin.calls + 1
  BY DEF Called
<1> QED
  BY <1>1, <1>2, DeskNext

\* The desk after writing this into the widget of a field.
Typed(k, item, text, idles) ==
  [k EXCEPT !.x = [k.x EXCEPT !.text = text, !.changed = TRUE],
            !.w = [k.w EXCEPT !.typed = [k.w.typed EXCEPT ![item] = text], !.idles = idles]]

\* The user writes into the widget of a field.
LEMMA TypedGood ==
  ASSUME NEW n \in Nat, NEW k, DeskGood(k, n), NEW item \in Fields, k.x.item = item,
         NEW text \in Texts(n), NEW idles \in 0 .. n
  PROVE  /\ DeskGood(Typed(k, item, text, idles), n)
         /\ Typed(k, item, text, idles).w.calls = k.w.calls
<1> DEFINE w == [k.w EXCEPT !.typed = [k.w.typed EXCEPT ![item] = text], !.idles = idles]
           x == [k.x EXCEPT !.text = text, !.changed = TRUE]
           c == Typed(k, item, text, idles)
<1>1. /\ k \in DeskOf(n) /\ InOrder(k) /\ Reaches(k) /\ Tells(k) /\ k.w \in Window(n)
      /\ k.x \in Widget(n)
  BY DeskParts DEF DeskGood
<1>2. item \in Items /\ item # "note"
  BY DEF Fields, Items
<1>3. /\ w \in Window(n) /\ w.typed[item] = text /\ w.open = k.w.open /\ w.kept = k.w.kept
      /\ w.raced = k.w.raced /\ w.doubt = k.w.doubt /\ w.calls = k.w.calls
      /\ \A other \in Items \ {item} : w.typed[other] = k.w.typed[other]
  BY <1>1, <1>2 DEF Window, Contents
<1>4. x \in Widget(n) /\ x.item = item /\ x.text = text /\ x.changed = TRUE
  BY <1>1 DEF Widget
<1>9. c = [k EXCEPT !.x = x, !.w = w]
  BY DEF Typed
<1> HIDE DEF w, x, c
<1>5. /\ c \in DeskOf(n) /\ c.w = w /\ c.s = k.s /\ c.d = k.d /\ c.x = x /\ c.p = k.p
  BY <1>1, <1>3, <1>4, <1>9 DEF DeskOf
<1>6. InOrder(c)
  <2>1. x.item # "none"
    BY <1>4 DEF Fields
  <2> QED
    BY <1>1, <1>5, <2>1 DEF InOrder
<1>7. Tells(c)
  BY <1>1, <1>3, <1>5 DEF Tells, SavesAt
<1>8. Reaches(c)
  <2>1. w.typed["note"] = k.w.typed["note"]
    BY <1>2, <1>3 DEF Items
  <2>2. \A other \in Fields \ {item} : w.typed[other] = k.w.typed[other]
    BY <1>3 DEF Fields, Items
  <2>3. Live(c) <=> Live(k)
    BY <1>5 DEF Live
  <2>4. ASSUME NEW other \in Fields
        PROVE  IF c.x.item = other /\ c.x.changed THEN c.x.text = c.w.typed[other]
                                                  ELSE c.d.value[other] = c.w.typed[other]
    <3>1. CASE other = item
      BY <1>3, <1>4, <1>5, <3>1
    <3>2. CASE other # item
      <4>1. k.d.value[other] = k.w.typed[other]
        BY <1>1, <1>3, <1>5, <2>4, <3>2 DEF Reaches
      <4> QED
        BY <1>4, <1>5, <2>2, <3>2, <4>1
    <3> QED
      BY <3>1, <3>2
  <2>5. IF Live(c) /\ c.p.text # c.p.contents THEN c.p.text = c.w.typed["note"]
                                             ELSE c.d.value["note"] = c.w.typed["note"]
    BY <1>1, <1>3, <1>5, <2>1, <2>3 DEF Reaches
  <2> QED
    BY <2>4, <2>5 DEF Reaches
<1> QED
  BY <1>3, <1>5, <1>6, <1>7, <1>8 DEF DeskGood, c

\* An item of the document is set that no widget edits: the button.
LEMMA ButtonGood ==
  ASSUME NEW n \in Nat, NEW k, DeskGood(k, n), NEW text \in Texts(n)
  PROVE  /\ DeskGood(SetField(k, "check", text), n)
         /\ SetField(k, "check", text).w.calls = k.w.calls
<1> DEFINE c == SetField(k, "check", text)
<1>1. k \in DeskOf(n) /\ InOrder(k) /\ Reaches(k) /\ Tells(k) /\ "check" \in Items
  BY DEF DeskGood, Items
<1>2. /\ c \in DeskOf(n) /\ InOrder(c) /\ Tells(c) /\ Written(k, c) /\ (Live(c) <=> Live(k))
      /\ OnlyItem(k, c, "check")
  BY <1>1, SetFieldGood, SetFieldDoes
<1> HIDE DEF c
<1>3. c.w.open = k.w.open /\ c.w.typed = k.w.typed /\ c.w.calls = k.w.calls
  BY <1>1, <1>2, WrittenWindow
<1>4. /\ c.x = k.x /\ c.p = k.p /\ c.d.value["note"] = k.d.value["note"]
      /\ \A item \in Fields : c.d.value[item] = k.d.value[item]
  BY <1>2 DEF OnlyItem, Fields, Items
<1>5. Reaches(c)
  BY <1>1, <1>2, <1>3, <1>4 DEF Reaches
<1> QED
  BY <1>2, <1>3, <1>5 DEF DeskGood, c

\* The annotation may be written: the worker does not write, or there is nothing to
\* write.
LEMMA MaySyncDesk ==
  ASSUME EditInvariant, NotBlocked \/ ~Writing(Desk)
  PROVE  MaySync(Desk)
<1>1. ~popup.on => popup.text = popup.contents
  BY DEF EditInvariant, DeskGood, InOrder, Desk
<1>2. Desk.p = popup
  BY DEF Desk
<1> QED
  BY <1>1, <1>2 DEF NotBlocked, MaySync

\* A popup as one may be: visible when there is one, of this document or of one before.
PopupIsRight(p, number) ==
  (p.visible => p.on) /\ (~p.on => p.text = p.contents /\ p.of = 0) /\ p.of <= number

\* A popup that has nothing to write takes the place of another that has nothing.
LEMMA PopupGood ==
  ASSUME NEW n \in Nat, NEW k, DeskGood(k, n), ~Live(k) \/ k.p.text = k.p.contents,
         NEW p \in Popup(n), PopupIsRight(p, k.d.number), p.text = p.contents
  PROVE  DeskGood([k EXCEPT !.p = p], n) /\ [k EXCEPT !.p = p].w = k.w
<1> DEFINE c == [k EXCEPT !.p = p]
<1>1. k \in DeskOf(n) /\ InOrder(k) /\ Reaches(k) /\ Tells(k)
  BY DEF DeskGood
<1>2. /\ c \in DeskOf(n) /\ c.w = k.w /\ c.s = k.s /\ c.d = k.d /\ c.x = k.x /\ c.p = p
  BY <1>1 DEF DeskOf
<1> HIDE DEF c
<1>3. InOrder(c)
  BY <1>1, <1>2 DEF InOrder, PopupIsRight
<1>4. Reaches(c)
  BY <1>1, <1>2 DEF Reaches
<1>5. Tells(c)
  BY <1>1, <1>2 DEF Tells, SavesAt
<1> QED
  BY <1>2, <1>3, <1>4, <1>5 DEF DeskGood, c

\* The desk after the annotation is made or removed, with this popup.
NoteSet(k, p, text) ==
  [k EXCEPT !.d = [k.d EXCEPT !.value = [k.d.value EXCEPT !["note"] = text],
                              !.modified = TRUE],
            !.w = [k.w EXCEPT !.typed = [k.w.typed EXCEPT !["note"] = text]],
            !.p = p]

\* Making or removing the annotation while the worker does not write: what was typed is
\* there.
LEMMA NoteGood ==
  ASSUME NEW n \in Nat, NEW k, DeskGood(k, n), ~Writing(k), NEW text \in Texts(n),
         NEW p \in Popup(n), PopupIsRight(p, k.d.number), p.removed \/ p.text = p.contents
  PROVE  DeskGood(NoteSet(k, p, text), n) /\ NoteSet(k, p, text).w.calls = k.w.calls
<1> DEFINE d == [k.d EXCEPT !.value = [k.d.value EXCEPT !["note"] = text], !.modified = TRUE]
           w == [k.w EXCEPT !.typed = [k.w.typed EXCEPT !["note"] = text]]
           c == NoteSet(k, p, text)
<1>1. /\ k \in DeskOf(n) /\ InOrder(k) /\ Reaches(k) /\ Tells(k) /\ k.d \in Document(n)
      /\ k.w \in Window(n) /\ k.s \in Seq(SaveJob(n))
  BY DeskParts DEF DeskGood
<1>2. "note" \in Items /\ \A item \in Fields : item \in Items /\ item # "note"
  BY DEF Items, Fields
<1>3. /\ d \in Document(n) /\ d.number = k.d.number /\ d.modified = TRUE
      /\ d.value["note"] = text /\ \A item \in Fields : d.value[item] = k.d.value[item]
  BY <1>1, <1>2 DEF Document, Contents
<1>4. /\ w \in Window(n) /\ w.open = k.w.open /\ w.raced = k.w.raced /\ w.calls = k.w.calls
      /\ w.typed["note"] = text /\ \A item \in Fields : w.typed[item] = k.w.typed[item]
  BY <1>1, <1>2 DEF Window, Contents
<1>5. c = [k EXCEPT !.d = d, !.w = w, !.p = p]
  BY DEF NoteSet
<1> HIDE DEF c, d, w
<1>6. /\ c \in DeskOf(n) /\ c.w = w /\ c.s = k.s /\ c.d = d /\ c.x = k.x /\ c.p = p
  BY <1>1, <1>3, <1>4, <1>5 DEF DeskOf
<1>7. ~SavesAt(k, "written")
  BY <1>1 DEF Writing, SavesAt
<1>8. InOrder(c)
  BY <1>1, <1>3, <1>6 DEF InOrder, PopupIsRight
<1>9. Tells(c)
  BY <1>3, <1>6, <1>7 DEF Tells, SavesAt
<1>10. Reaches(c)
  BY <1>1, <1>3, <1>4, <1>6 DEF Reaches, Live
<1> QED
  BY <1>4, <1>6, <1>8, <1>9, <1>10 DEF DeskGood, c

\* The desk after writing this into the popup.
NoteTyped(k, text) ==
  [k EXCEPT !.p = [k.p EXCEPT !.text = text],
            !.w = [k.w EXCEPT !.typed = [k.w.typed EXCEPT
                                           !["note"] = IF Live(k) THEN text ELSE @]]]

\* Writing into the popup something that was never written: it is not in the document
\* yet.
LEMMA NoteTypedGood ==
  ASSUME NEW n \in Nat, NEW k, DeskGood(k, n), k.p.on = TRUE, NEW text \in Texts(n),
         text # k.p.contents
  PROVE  DeskGood(NoteTyped(k, text), n) /\ NoteTyped(k, text).w.calls = k.w.calls
<1> DEFINE p == [k.p EXCEPT !.text = text]
           note == IF Live(k) THEN text ELSE k.w.typed["note"]
           w == [k.w EXCEPT !.typed = [k.w.typed EXCEPT !["note"] = note]]
           c == NoteTyped(k, text)
<1>1. /\ k \in DeskOf(n) /\ InOrder(k) /\ Reaches(k) /\ Tells(k) /\ k.p \in Popup(n)
      /\ k.w \in Window(n)
  BY DeskParts DEF DeskGood
<1>2. "note" \in Items /\ \A item \in Fields : item \in Items /\ item # "note"
  BY DEF Items, Fields
<1>3. /\ p \in Popup(n) /\ p.text = text /\ p.on = k.p.on /\ p.of = k.p.of
      /\ p.visible = k.p.visible /\ p.contents = k.p.contents
      /\ p.connected = k.p.connected /\ p.removed = k.p.removed
  BY <1>1 DEF Popup
<1>4. c = [k EXCEPT !.p = p, !.w = w]
  BY <1>1, <1>2 DEF NoteTyped, Window, Contents
<1>5. note \in Texts(n)
  BY <1>1, <1>2 DEF Window, Contents
<1>6. (Live(k) => note = text) /\ (~Live(k) => note = k.w.typed["note"])
  OBVIOUS
<1> HIDE DEF note
<1>7. /\ w \in Window(n) /\ w.open = k.w.open /\ w.raced = k.w.raced /\ w.calls = k.w.calls
      /\ w.doubt = k.w.doubt /\ w.kept = k.w.kept
      /\ w.typed["note"] = note /\ \A item \in Fields : w.typed[item] = k.w.typed[item]
  BY <1>1, <1>2, <1>5 DEF Window, Contents
<1> HIDE DEF c, p, w
<1>8. /\ c \in DeskOf(n) /\ c.w = w /\ c.s = k.s /\ c.d = k.d /\ c.x = k.x /\ c.p = p
  BY <1>1, <1>3, <1>4, <1>7 DEF DeskOf
<1>9. InOrder(c)
  BY <1>1, <1>3, <1>8 DEF InOrder
<1>10. Tells(c)
  BY <1>1, <1>7, <1>8 DEF Tells, SavesAt
<1>11. Reaches(c)
  <2>1. Live(c) <=> Live(k)
    BY <1>3, <1>8 DEF Live
  <2>2. Live(k) => c.p.text = c.w.typed["note"] /\ c.p.text # c.p.contents
    BY <1>3, <1>6, <1>7, <1>8
  <2>3. ~Live(k) => c.d.value["note"] = c.w.typed["note"]
    BY <1>1, <1>6, <1>7, <1>8 DEF Reaches
  <2> QED
    BY <1>1, <1>7, <1>8, <2>1, <2>2, <2>3 DEF Reaches
<1> QED
  BY <1>7, <1>8, <1>9, <1>10, <1>11 DEF DeskGood, c

\* The desk after the worker goes on with its save job: another head of the queue, and
\* what it left in the document, the window and the files.
AtWork(k, j, d, w, f) ==
  [d |-> d, x |-> k.x, p |-> k.p, s |-> [k.s EXCEPT ![1] = j], w |-> w, f |-> f]

\* What is put on a desk beside the save jobs or the file: the rest stays.
LEMMA AtWorkThen ==
  ASSUME NEW n \in Nat, NEW c \in DeskOf(n), NEW d, NEW s, NEW w, NEW f
  PROVE  /\ DeskIs([c EXCEPT !.s = s, !.d = d]) =>
              DeskIs([d |-> d, x |-> c.x, p |-> c.p, s |-> s, w |-> c.w, f |-> c.f])
         /\ DeskIs([c EXCEPT !.f = f, !.w = w]) =>
              DeskIs([d |-> c.d, x |-> c.x, p |-> c.p, s |-> c.s, w |-> w, f |-> f])
  BY DEF DeskOf, DeskIs

\* The worker neither writes into the document nor takes part in what the user types: all
\* but the truth of the modified flag is kept.
LEMMA AtWorkGood ==
  ASSUME NEW n \in Nat, NEW k, DeskGood(k, n), k.s # <<>>,
         NEW j \in SaveJob(n), j.of = k.s[1].of,
         NEW d \in Document(n), d.number = k.d.number, d.value = k.d.value,
         NEW w \in Window(n), w.open = k.w.open, w.typed = k.w.typed, w.calls = k.w.calls,
         NEW f \in [own : Contents(n), copy : Contents(n)]
  PROVE  LET c == AtWork(k, j, d, w, f)
         IN /\ c.s # <<>> /\ c.s[1] = j /\ c.d = d /\ c.w = w
            /\ Tells(c) => DeskGood(c, n) /\ c.w.calls = k.w.calls
<1> DEFINE c == AtWork(k, j, d, w, f)
           s == [k.s EXCEPT ![1] = j]
<1>1. /\ k \in DeskOf(n) /\ InOrder(k) /\ Reaches(k) /\ k.s \in Seq(SaveJob(n))
      /\ k.x \in Widget(n) /\ k.p \in Popup(n)
  BY DeskParts DEF DeskGood
<1>2. /\ s \in Seq(SaveJob(n)) /\ s # <<>> /\ s[1] = j /\ Len(s) = Len(k.s)
      /\ DOMAIN s = DOMAIN k.s /\ \A i \in DOMAIN s : i # 1 => s[i] = k.s[i]
  <2>1. k.s \in Seq(SaveJob(n)) /\ 1 \in 1 .. Len(k.s)
    BY <1>1
  <2>2. s \in Seq(SaveJob(n)) /\ Len(s) = Len(k.s)
    BY <2>1, ExceptSeq
  <2> QED
    BY <2>1, <2>2
<1> HIDE DEF s
<1>3. c = [d |-> d, x |-> k.x, p |-> k.p, s |-> s, w |-> w, f |-> f]
  BY DEF AtWork, s
<1>4. c \in DeskOf(n)
  BY <1>1, <1>2, <1>3, DeskFrom
<1> HIDE DEF c
<1>5. InOrder(c)
  BY <1>1, <1>2, <1>3 DEF InOrder
<1>6. Reaches(c)
  BY <1>1, <1>3 DEF Reaches, Live
<1>7. Tells(c) => DeskGood(c, n) /\ c.w.calls = k.w.calls
  BY <1>3, <1>4, <1>5, <1>6 DEF DeskGood
<1> QED
  BY <1>2, <1>3, <1>7 DEF c

-----------------------------------------------------------------------------
(* Editing: the steps.                                                     *)

\* The fields of forms: every step leaves a good desk.
LEMMA FormsStep ==
  ASSUME EditInvariant, EditForms
  PROVE  EditInvariant'
<1> DEFINE n == edWin.calls + 1
           r == RemoveAll(FocusLost(EditCall))
           k == EditCall
<1>1. ASSUME MayEdit
      PROVE  /\ n \in Nat /\ edWin.calls \in Nat /\ n \in Texts(n)
             /\ Called(k) /\ Called(RemoveAll(k)) /\ DeskGood(k, n) /\ k.w.calls = n
             /\ k \in DeskOf(n) /\ k.w \in Window(n) /\ k.x \in Widget(n) /\ k.d \in Document(n)
             /\ k.d = edDoc /\ k.x = widget
             /\ k.w.open = TRUE /\ edWin.calls < EditCalls /\ k.w.idles \in 0 .. edWin.calls
             /\ NotBlocked => Called(r) /\ DeskGood(r, n) /\ r \in DeskOf(n) /\ r.x = NoWidget
  <2>1. edWin.calls < EditCalls /\ edWin.open = TRUE
    <3>1. edWin.open \in BOOLEAN
      <4>1. Desk \in DeskOf(edWin.calls)
        BY DEF EditInvariant, DeskGood
      <4> QED
        BY <4>1 DEF DeskOf, Desk, Window
    <3> QED
      BY <1>1, <3>1 DEF MayEdit
  <2>2. NotBlocked => MaySync(Desk)
    BY MaySyncDesk
  <2>3. /\ edWin.calls \in Nat /\ n \in Nat /\ DeskGood(k, n) /\ k.w.calls = n /\ k.d = edDoc
        /\ k.x = widget
    BY <2>1, CallGood
  <2>4. /\ Called(k) /\ Called(RemoveAll(k))
        /\ MaySync(Desk) => Called(r) /\ r.x = NoWidget
    BY <2>1, FocusedGood
  <2>5. n \in Texts(n)
    BY <2>3, MoreTexts
  <2>6. /\ k \in DeskOf(n) /\ k.w.open = TRUE /\ k.w.idles \in 0 .. edWin.calls
    BY <2>1, <2>4 DEF Called, DeskGood
  <2>7. MaySync(Desk) => DeskGood(r, n) /\ r \in DeskOf(n)
    BY <2>4 DEF Called, DeskGood
  <2>8. k.w \in Window(n) /\ k.x \in Widget(n) /\ k.d \in Document(n)
    BY <2>3, <2>6, DeskParts
  <2> QED
    BY <2>1, <2>2, <2>3, <2>4, <2>5, <2>6, <2>7, <2>8
<1> HIDE DEF n, r, k
<1>2. ASSUME NEW c, MayEdit, DeskGood(c, n), c.w.calls = n, DeskIs(c)
      PROVE  EditInvariant'
  <2>1. edWin.calls + 1 <= EditCalls
    BY <1>1, <1>2, CallGood
  <2> QED
    BY <1>1, <1>2, <2>1, DeskNext DEF n
<1>3. \A c : Called(c) => DeskGood(c, n) /\ c.w.calls = n
  BY DEF Called, n
<1>4. ASSUME NEW item \in Fields, ClickField(item) PROVE EditInvariant'
  <2> DEFINE x == [item |-> item, text |-> edDoc.value[item], changed |-> FALSE]
             c == [r EXCEPT !.x = x]
  <2>1. MayEdit /\ NotBlocked /\ DeskIs(c)
    BY <1>4 DEF ClickField, r
  <2>2. x \in Widget(n)
    <3>1. item \in Items
      BY DEF Fields, Items
    <3>2. edDoc.value[item] \in Texts(n)
      BY <1>1, <2>1, <3>1 DEF Document, Contents
    <3> QED
      BY <3>2 DEF Widget
  <2>3. r.x.changed = FALSE /\ x.changed = FALSE
    BY <1>1, <2>1 DEF NoWidget
  <2> HIDE DEF x
  <2>4. DeskGood(c, n) /\ c.w = r.w
    BY <1>1, <2>1, <2>2, <2>3, WidgetGood
  <2> HIDE DEF c
  <2> QED
    BY <1>1, <1>2, <1>3, <2>1, <2>4
<1>5. ASSUME ClickButton PROVE EditInvariant'
  <2>1. MayEdit /\ NotBlocked /\ DeskIs(SetField(r, "check", n))
    BY <1>5 DEF ClickButton, r, n
  <2>2. DeskGood(SetField(r, "check", n), n) /\ SetField(r, "check", n).w.calls = r.w.calls
    BY <1>1, <2>1, ButtonGood
  <2> QED
    BY <1>1, <1>2, <1>3, <2>1, <2>2
<1>6. ASSUME ClickElsewhere PROVE EditInvariant'
  BY <1>1, <1>2, <1>3, <1>6 DEF ClickElsewhere, r
<1>7. ASSUME RotateView PROVE EditInvariant'
  BY <1>1, <1>2, <1>3, <1>7 DEF RotateView, k
<1>8. ASSUME NEW item \in Fields, NEW idles \in 0 .. n, MayEdit, widget.item = item,
             NEW c, DeskIs(c), c = Typed(k, item, n, idles)
      PROVE  EditInvariant'
  <2>1. DeskGood(c, n) /\ c.w.calls = n
    BY <1>1, <1>8, TypedGood
  <2> QED
    BY <1>2, <1>8, <2>1
<1>9. ASSUME NEW caseOnly \in BOOLEAN, TypeText(caseOnly) PROVE EditInvariant'
  <2>1. MayEdit /\ widget.item = "text"
    BY <1>9 DEF TypeText
  <2>2. CASE DeskIs(k)
    BY <1>1, <1>2, <2>1, <2>2
  <2>3. CASE DeskIs([k EXCEPT !.x.text = n, !.x.changed = TRUE, !.w.typed["text"] = n])
    <3> DEFINE c == [k EXCEPT !.x.text = n, !.x.changed = TRUE, !.w.typed["text"] = n]
    <3>1. c = Typed(k, "text", n, k.w.idles)
      BY <1>1, <2>1, ZenonT(60) DEF DeskOf, Widget, Window, Typed
    <3>2. "text" \in Fields /\ k.w.idles \in 0 .. n
      BY <1>1, <2>1 DEF Fields, n
    <3> HIDE DEF c
    <3>3. DeskIs(c)
      BY <2>3 DEF c
    <3> QED
      BY <1>8, <2>1, <3>1, <3>2, <3>3
  <2> QED
    BY <1>9, <2>2, <2>3 DEF TypeText, k, n
<1>10. ASSUME ChooseItem PROVE EditInvariant'
  <2> DEFINE c == [k EXCEPT !.x.text = n, !.x.changed = TRUE, !.w.typed["choice"] = n,
                            !.w.idles = @ + 1]
  <2>1. MayEdit /\ widget.item = "choice" /\ DeskIs(c)
    BY <1>10 DEF ChooseItem, k, n
  <2>2. c = Typed(k, "choice", n, k.w.idles + 1)
    BY <1>1, <2>1 DEF DeskOf, Widget, Window, Typed
  <2>3. "choice" \in Fields /\ k.w.idles + 1 \in 0 .. n
    BY <1>1, <2>1 DEF Fields, n
  <2> HIDE DEF c
  <2> QED
    BY <1>8, <2>1, <2>2, <2>3
<1>11. ASSUME ActivateField PROVE EditInvariant'
  <2> DEFINE w == [k.w EXCEPT !.idles = k.w.idles + 1]
             c == [k EXCEPT !.w = w]
  <2>1. MayEdit /\ DeskIs(c)
    <3>1. MayEdit /\ DeskIs([k EXCEPT !.w.idles = @ + 1])
      BY <1>11 DEF ActivateField, k
    <3> QED
      BY <1>1, <3>1 DEF DeskOf
  <2>2. k.w.idles + 1 \in 0 .. n
    BY <1>1, <2>1 DEF n
  <2>3. /\ w \in Window(n) /\ w.typed = k.w.typed /\ w.kept = k.w.kept /\ w.raced = k.w.raced
        /\ w.doubt = k.w.doubt /\ w.open = k.w.open /\ w.calls = k.w.calls
    BY <1>1, <2>1, <2>2 DEF Window
  <2> HIDE DEF w
  <2>4. DeskGood(c, n) /\ c.w = w
    BY <1>1, <2>1, <2>3, WindowGood
  <2> HIDE DEF c
  <2> QED
    BY <1>1, <1>2, <2>1, <2>3, <2>4
<1>12. ASSUME RemoveWidgets PROVE EditInvariant'
  <2> DEFINE m == edWin.calls
             w == [edWin EXCEPT !.idles = edWin.idles - 1]
             c == [Desk EXCEPT !.w = w]
  <2>1. DeskGood(Desk, m) /\ m <= EditCalls /\ Desk \in DeskOf(m) /\ Desk.w = edWin
    BY DEF EditInvariant, DeskGood, Desk
  <2> HIDE DEF m
  <2>2. edWin \in Window(m) /\ m \in Nat /\ edWin.calls = m
    <3>1. edWin \in Window(m)
      BY <2>1 DEF DeskOf
    <3> QED
      BY <3>1 DEF Window, m
  <2>3. DeskIs(RemoveAll(c)) /\ edWin.idles > 0
    <3>1. [Desk EXCEPT !.w.idles = @ - 1] = c
      BY <2>1 DEF DeskOf
    <3> QED
      BY <1>12, <3>1 DEF RemoveWidgets
  <2>4. /\ w \in Window(m) /\ w.typed = edWin.typed /\ w.kept = edWin.kept
        /\ w.raced = edWin.raced /\ w.doubt = edWin.doubt /\ w.open = edWin.open
        /\ w.calls = m
    BY <2>2, <2>3 DEF Window
  <2> HIDE DEF w
  <2>5. DeskGood(c, m) /\ c.w = w
    BY <2>1, <2>2, <2>4, WindowGood
  <2> HIDE DEF c
  <2>6. DeskGood(RemoveAll(c), m) /\ RemoveAll(c).w.calls = m
    <3>1. DeskGood(RemoveAll(c), m) /\ Written(c, RemoveAll(c)) /\ c \in DeskOf(m)
      BY <2>2, <2>5, RemoveAllGood DEF DeskGood
    <3> QED
      BY <2>2, <2>4, <2>5, <3>1, WrittenWindow
  <2> QED
    BY <2>1, <2>2, <2>3, <2>6, DeskNext
<1> QED
  BY <1>4, <1>5, <1>6, <1>7, <1>9, <1>10, <1>11, <1>12 DEF EditForms

\* The annotation and its window: every step leaves a good desk.
LEMMA NotesStep ==
  ASSUME EditInvariant, EditNotes
  PROVE  EditInvariant'
<1> DEFINE m == edWin.calls
           n == edWin.calls + 1
           f == FocusLost(EditCall)
           b == SyncContents(EditCall)
           e == EntryLeft(EditCall)
<1>1. /\ DeskGood(Desk, m) /\ m \in Nat /\ m <= EditCalls /\ Desk.p = popup /\ Desk.d = edDoc
      /\ Desk.w = edWin /\ Desk.s = saves
      /\ popup \in Popup(m) /\ edDoc \in Document(m) /\ edWin \in Window(m)
      /\ edDoc.number \in 0 .. EditCalls + 1 /\ InOrder(Desk)
      /\ 0 \in Texts(m)
  <2>1. DeskGood(Desk, m) /\ m <= EditCalls /\ Desk \in DeskOf(m) /\ InOrder(Desk)
    BY DEF EditInvariant, DeskGood
  <2>2. edWin \in Window(m) /\ popup \in Popup(m) /\ edDoc \in Document(m)
    <3> HIDE DEF m
    <3> QED
      BY <2>1 DEF DeskOf, Desk
  <2>3. m \in Nat /\ edDoc.number \in 0 .. EditCalls + 1
    BY <2>2, EditAssumption DEF Window, Document
  <2>4. 0 \in Texts(m)
    BY <2>3, MoreTexts
  <2> QED
    BY <2>1, <2>2, <2>3, <2>4 DEF Desk
<1>2. popup.of <= edDoc.number /\ (popup.visible => popup.on)
  BY <1>1 DEF InOrder
<1>3. ASSUME MayEdit
      PROVE  /\ n \in Nat /\ m < EditCalls /\ edWin.open = TRUE
             /\ popup \in Popup(n) /\ edDoc \in Document(n)
             /\ n \in Texts(n) /\ 0 \in Texts(n) /\ NoNote \in Texts(n) /\ n \notin Texts(m)
  <2>1. m < EditCalls /\ edWin.open = TRUE
    BY <1>1, <1>3 DEF MayEdit, Window
  <2>2. n \in Nat /\ popup \in Popup(n) /\ edDoc \in Document(n)
    BY <1>1, MoreDesks
  <2>3. n \in Texts(n) /\ 0 \in Texts(n) /\ NoNote \in Texts(n) /\ n \notin Texts(m)
    BY <1>1, <2>2 DEF Texts, NoNote
  <2> QED
    BY <2>1, <2>2, <2>3
<1>4. ASSUME MayEdit, NotBlocked \/ ~Writing(Desk)
      PROVE  /\ Called(f) /\ Synced(f) /\ DeskGood(f, n) /\ f \in DeskOf(n)
             /\ f.d.number = edDoc.number /\ f.s = saves /\ f.w.calls = n
             /\ f.p \in Popup(n) /\ f.w \in Window(n) /\ f.d \in Document(n)
             /\ Called(b) /\ Synced(b) /\ DeskGood(b, n) /\ b \in DeskOf(n)
             /\ b.d.number = edDoc.number /\ b.w.calls = n /\ b.p \in Popup(n)
  <2>1. MaySync(Desk)
    BY <1>4, MaySyncDesk
  <2>2. Called(f) /\ Synced(f) /\ Called(b) /\ Synced(b)
    BY <1>3, <1>4, <2>1, FocusedGood
  <2> HIDE DEF f, b
  <2>3. /\ DeskGood(f, n) /\ f \in DeskOf(n) /\ f.d.number = edDoc.number /\ f.s = saves
        /\ f.w.calls = n
        /\ DeskGood(b, n) /\ b \in DeskOf(n) /\ b.d.number = edDoc.number /\ b.w.calls = n
    BY <2>2 DEF Called, DeskGood
  <2>4. f.p \in Popup(n) /\ f.w \in Window(n) /\ f.d \in Document(n) /\ b.p \in Popup(n)
    BY <1>3, <1>4, <2>3, DeskParts
  <2> QED
    BY <2>2, <2>3, <2>4
<1>5. \A c : Synced(c) => /\ c.p.on = popup.on /\ c.p.of = popup.of /\ c.p.text = popup.text
                          /\ c.p.visible = popup.visible /\ c.p.text = c.p.contents
  BY <1>1 DEF Synced, SamePopup
<1>6. ASSUME NEW c, MayEdit, DeskGood(c, n), c.w.calls = n, DeskIs(c)
      PROVE  EditInvariant'
  <2>1. n \in Nat /\ n <= EditCalls
    BY <1>1, <1>3, <1>6, EditAssumption
  <2> QED
    BY <1>6, <2>1, DeskNext
<1> HIDE DEF f, b, e
<1>7. ASSUME CreateNote PROVE EditInvariant'
  <2> DEFINE p == [NoPopup EXCEPT !.on = TRUE, !.of = edDoc.number, !.visible = TRUE,
                                  !.connected = TRUE]
             c == [f EXCEPT !.d.value["note"] = 0, !.d.modified = TRUE, !.w.typed["note"] = 0,
                            !.p = p]
  <2>1. MayEdit /\ ~Writing(Desk) /\ DeskIs(c)
    BY <1>7 DEF CreateNote, f
  <2>2. ~Writing(f)
    BY <1>1, <1>4, <2>1 DEF Writing
  <2>3. /\ p \in Popup(n) /\ p.text = p.contents /\ p.of = edDoc.number /\ p.on = TRUE
    BY <1>1, <1>3, <2>1 DEF NoPopup, Popup
  <2>4. PopupIsRight(p, f.d.number)
    BY <1>1, <1>4, <2>1, <2>3 DEF PopupIsRight
  <2> HIDE DEF p
  <2>5. c = NoteSet(f, p, 0)
    BY <1>4, <2>1 DEF DeskOf, Document, Window, NoteSet
  <2>6. DeskGood(NoteSet(f, p, 0), n) /\ NoteSet(f, p, 0).w.calls = n
    BY <1>3, <1>4, <2>1, <2>2, <2>3, <2>4, NoteGood
  <2> HIDE DEF c
  <2> QED
    BY <1>6, <2>1, <2>5, <2>6
<1>8. ASSUME ShowNote PROVE EditInvariant'
  <2>1. edDoc.value["note"] # NoNote /\ popup.of # edDoc.number /\ ~Live(Desk)
    BY <1>1, <1>8 DEF ShowNote, Live
  <2>2. PICK p : /\ DeskIs([Desk EXCEPT !.p = p]) /\ p \in Popup(m) /\ p.text = p.contents
                 /\ p.on = TRUE /\ p.of = edDoc.number
    <3>1. CASE popup.on
      <4> DEFINE p == [popup EXCEPT !.of = edDoc.number, !.contents = popup.text,
                                    !.connected = FALSE, !.removed = FALSE]
      <4>1. DeskIs([Desk EXCEPT !.p = p])
        BY <1>1, <1>8, <3>1 DEF ShowNote, Desk
      <4>2. /\ p \in Popup(m) /\ p.text = p.contents /\ p.on = TRUE /\ p.of = edDoc.number
        BY <1>1, <3>1 DEF Popup
      <4> HIDE DEF p
      <4> QED
        BY <4>1, <4>2
    <3>2. CASE ~popup.on
      <4> DEFINE p == [NoPopup EXCEPT !.on = TRUE, !.of = edDoc.number, !.connected = TRUE,
                    !.contents = edDoc.value["note"], !.text = edDoc.value["note"]]
      <4>1. DeskIs([Desk EXCEPT !.p = p])
        BY <1>8, <3>2 DEF ShowNote
      <4>2. edDoc.value["note"] \in Texts(m)
        BY <1>1 DEF Document, Contents, Items
      <4>3. /\ p \in Popup(m) /\ p.text = p.contents /\ p.on = TRUE /\ p.of = edDoc.number
        BY <1>1, <4>2 DEF Popup, NoPopup
      <4> HIDE DEF p
      <4> QED
        BY <4>1, <4>3
    <3> QED
      BY <3>1, <3>2
  <2>3. PopupIsRight(p, Desk.d.number)
    BY <1>1, <2>2 DEF PopupIsRight
  <2> DEFINE c == [Desk EXCEPT !.p = p]
  <2>4. DeskGood(c, m) /\ c.w.calls = m
    BY <1>1, <2>1, <2>2, <2>3, PopupGood
  <2> HIDE DEF c
  <2>5. DeskIs(c)
    BY <2>2 DEF c
  <2> QED
    BY <1>1, <2>4, <2>5, DeskNext
<1>9. ASSUME NEW k, DeskGood(k, n), k \in DeskOf(n), Synced(k), k.w.calls = n, MayEdit,
             k.d.number = edDoc.number, k.p \in Popup(n),
             NEW visible \in BOOLEAN, popup.on = TRUE,
             DeskIs([k EXCEPT !.p = [k.p EXCEPT !.visible = visible]])
      PROVE  EditInvariant'
  <2> DEFINE p == [k.p EXCEPT !.visible = visible]
             c == [k EXCEPT !.p = p]
  <2>1. /\ p \in Popup(n) /\ p.text = p.contents /\ p.on = TRUE /\ p.of = popup.of
        /\ k.p.text = k.p.contents
    BY <1>5, <1>9 DEF Popup
  <2>2. PopupIsRight(p, k.d.number)
    BY <1>2, <1>9, <2>1 DEF PopupIsRight
  <2> HIDE DEF p
  <2>3. DeskGood(c, n) /\ c.w.calls = n
    BY <1>3, <1>9, <2>1, <2>2, PopupGood
  <2> HIDE DEF c
  <2>4. DeskIs(c)
    BY <1>9 DEF c, p
  <2> QED
    BY <1>6, <1>9, <2>3, <2>4
<1>10. ASSUME OpenNote PROVE EditInvariant'
  <2>1. /\ MayEdit /\ NotBlocked /\ popup.on = TRUE
        /\ DeskIs([f EXCEPT !.p.visible = TRUE])
    BY <1>1, <1>10 DEF OpenNote, f, Popup
  <2>2. [f EXCEPT !.p.visible = TRUE] = [f EXCEPT !.p = [f.p EXCEPT !.visible = TRUE]]
    BY <1>4, <2>1 DEF DeskOf
  <2> QED
    BY <1>4, <1>9, <2>1, <2>2
<1>11. ASSUME CloseNote PROVE EditInvariant'
  <2>1. /\ MayEdit /\ NotBlocked /\ popup.on = TRUE
        /\ DeskIs([b EXCEPT !.p.visible = FALSE])
    BY <1>1, <1>2, <1>11 DEF CloseNote, b, Popup
  <2>2. [b EXCEPT !.p.visible = FALSE] = [b EXCEPT !.p = [b.p EXCEPT !.visible = FALSE]]
    BY <1>4, <2>1 DEF DeskOf
  <2> QED
    BY <1>4, <1>9, <2>1, <2>2
<1>12. ASSUME TypeNote PROVE EditInvariant'
  <2> DEFINE c == [e EXCEPT !.p.text = n,
                     !.w.typed["note"] =
                       IF popup.connected /\ popup.of = edDoc.number /\ ~popup.removed
                         THEN n ELSE @]
  <2>1. MayEdit /\ popup.visible /\ DeskIs(c)
    BY <1>12 DEF TypeNote, e
  <2>2. Called(e) /\ e.p = popup
    BY <1>3, <2>1, FocusedGood DEF e
  <2>3. /\ DeskGood(e, n) /\ e.w.calls = n /\ e.d.number = edDoc.number /\ e \in DeskOf(n)
    BY <2>2 DEF Called, DeskGood
  <2>4. popup.on = TRUE
    BY <1>1, <1>2, <2>1 DEF Popup
  <2>5. n # e.p.contents
    BY <1>1, <1>3, <2>1, <2>2 DEF Popup
  <2>6. Live(e) <=> popup.connected /\ popup.of = edDoc.number /\ ~popup.removed
    BY <2>2, <2>3 DEF Live
  <2>7. c = NoteTyped(e, n)
    <3>1. e.w \in Window(n)
      BY <1>3, <2>1, <2>3, DeskParts
    <3> QED
      BY <2>2, <2>3, <2>6, <3>1 DEF NoteTyped, DeskOf, Window
  <2>8. DeskGood(NoteTyped(e, n), n) /\ NoteTyped(e, n).w.calls = n
    BY <1>3, <2>1, <2>2, <2>3, <2>4, <2>5, NoteTypedGood
  <2> HIDE DEF c
  <2> QED
    BY <1>6, <2>1, <2>7, <2>8
<1>13. ASSUME RemoveNote PROVE EditInvariant'
  <2> DEFINE p == [f.p EXCEPT !.removed = TRUE]
             c == [f EXCEPT !.d.value["note"] = NoNote, !.d.modified = TRUE,
                            !.w.typed["note"] = NoNote, !.p.removed = TRUE]
  <2>1. MayEdit /\ ~Writing(Desk) /\ DeskIs(c)
    BY <1>13 DEF RemoveNote, f
  <2>2. ~Writing(f)
    BY <1>1, <1>4, <2>1 DEF Writing
  <2>3. /\ p \in Popup(n) /\ p.removed = TRUE /\ p.of = popup.of /\ p.on = popup.on
        /\ p.visible = popup.visible /\ p.text = p.contents
    BY <1>4, <1>5, <2>1 DEF Popup
  <2>4. PopupIsRight(p, f.d.number)
    <3>1. ~popup.on => popup.of = 0
      BY <1>1 DEF InOrder
    <3> QED
      BY <1>2, <1>4, <2>1, <2>3, <3>1 DEF PopupIsRight
  <2>5. c = NoteSet(f, p, NoNote)
    BY <1>4, <2>1 DEF DeskOf, Document, Window, NoteSet
  <2> HIDE DEF p
  <2>6. DeskGood(NoteSet(f, p, NoNote), n) /\ NoteSet(f, p, NoNote).w.calls = n
    BY <1>3, <1>4, <2>1, <2>2, <2>3, <2>4, NoteGood
  <2> HIDE DEF c
  <2> QED
    BY <1>6, <2>1, <2>5, <2>6
<1> QED
  BY <1>7, <1>8, <1>10, <1>11, <1>12, <1>13 DEF EditNotes

\* The save jobs: every step leaves a good desk.
LEMMA SaveWorkStep ==
  ASSUME EditInvariant, SaveWork
  PROVE  EditInvariant'
<1> DEFINE n == edWin.calls
           j == saves[1]
<1>1. /\ DeskGood(Desk, n) /\ n \in Nat /\ n <= EditCalls /\ Desk.d = edDoc /\ Desk.w = edWin
      /\ Desk.s = saves /\ Desk.x = widget /\ Desk.p = popup /\ Desk.f = files
      /\ Tells(Desk) /\ InOrder(Desk) /\ Reaches(Desk) /\ Desk \in DeskOf(n)
      /\ edDoc \in Document(n) /\ edWin \in Window(n) /\ saves \in Seq(SaveJob(n))
      /\ files \in [own : Contents(n), copy : Contents(n)]
  <2>1. DeskGood(Desk, n) /\ n <= EditCalls /\ Desk \in DeskOf(n)
    BY DEF EditInvariant, DeskGood
  <2>2. /\ edDoc \in Document(n) /\ edWin \in Window(n) /\ saves \in Seq(SaveJob(n))
        /\ files \in [own : Contents(n), copy : Contents(n)]
    <3> HIDE DEF n
    <3> QED
      BY <2>1 DEF DeskOf, Desk
  <2>3. n \in Nat
    BY <2>2 DEF Window
  <2> QED
    BY <2>1, <2>2, <2>3 DEF Desk, DeskGood
<1>2. saves # <<>> => j \in SaveJob(n) /\ Head(saves) = j /\ 1 \in DOMAIN saves
  BY <1>1
<1>3. /\ edWin.raced \in BOOLEAN /\ edWin.doubt \in BOOLEAN /\ edDoc.modified \in BOOLEAN
      /\ edDoc.value \in Contents(n) /\ edWin.kept \in Contents(n)
  BY <1>1 DEF Window, Document
<1>4. ASSUME saves # <<>>, NEW i \in SaveJob(n), i.of = j.of,
             NEW d \in Document(n), d.number = edDoc.number, d.value = edDoc.value,
             NEW w \in Window(n), w.open = edWin.open, w.typed = edWin.typed,
             w.calls = edWin.calls,
             NEW f \in [own : Contents(n), copy : Contents(n)],
             DeskIs(AtWork(Desk, i, d, w, f)),
             w.raced \/ (/\ (i.of = d.number /\ i.at = "written") => i.value = d.value
                         /\ (i.of = d.number /\ i.at = "sending") =>
                              /\ d.modified \/ i.value = d.value
                              /\ d.modified \/ w.doubt \/ i.reset \/ d.value = w.kept
                         /\ \/ d.modified \/ w.doubt \/ d.value = w.kept
                            \/ i.of = d.number /\ i.at = "sending")
      PROVE  EditInvariant'
  <2> DEFINE c == AtWork(Desk, i, d, w, f)
  <2> HIDE DEF n
  <2>1. /\ c.s # <<>> /\ c.s[1] = i /\ c.d = d /\ c.w = w
        /\ Tells(c) => DeskGood(c, n) /\ c.w.calls = edWin.calls
    BY <1>1, <1>4, AtWorkGood, SMTT(60)
  <2> HIDE DEF c
  <2>2. Tells(c)
    BY <1>4, <2>1 DEF Tells, SavesAt
  <2>3. DeskIs(c) /\ edWin.calls = n
    BY <1>4 DEF c, n
  <2> QED
    BY <1>1, <2>1, <2>2, <2>3, DeskNext
<1>5. ASSUME saves # <<>>, NEW at
      PROVE  NextAt(Desk, at) = AtWork(Desk, [j EXCEPT !.at = at], edDoc, edWin, files)
  <2>1. [Desk.s EXCEPT ![1].at = at] = [saves EXCEPT ![1] = [j EXCEPT !.at = at]]
    BY <1>1, <1>2, <1>5
  <2> QED
    BY <1>1, <2>1 DEF NextAt, AtWork, Desk
<1>6. ASSUME NEW at \in {"queued", "writing", "written", "sending"}, SaveAt(at)
      PROVE  /\ saves # <<>> /\ j \in SaveJob(n) /\ j.at = at
             /\ SavesAt(Desk, at) <=> j.of = edDoc.number
             /\ \A other : other # at => ~SavesAt(Desk, other)
  BY <1>1, <1>2, <1>6 DEF SaveAt, SavesAt
<1>7. ASSUME NEW at \in {"writing", "written", "sending", "ended", "failed"},
             NEW i \in SaveJob(n)
      PROVE  LET c == [i EXCEPT !.at = at]
             IN c \in SaveJob(n) /\ c.of = i.of /\ c.at = at /\ c.value = i.value
                /\ c.reset = i.reset
  <2> HIDE DEF n
  <2> QED
    BY <1>7 DEF SaveJob
<1> HIDE DEF j, n
<1>8. ASSUME BeginSave PROVE EditInvariant'
  <2> DEFINE i == [j EXCEPT !.at = "writing"]
  <2>1. SaveAt("queued") /\ DeskIs(NextAt(Desk, "writing"))
    BY <1>8 DEF BeginSave
  <2>2. /\ saves # <<>> /\ j \in SaveJob(n) /\ ~SavesAt(Desk, "sending")
    BY <1>6, <2>1
  <2>3. i \in SaveJob(n) /\ i.of = j.of /\ i.at = "writing"
    BY <1>7, <2>2
  <2>4. DeskIs(AtWork(Desk, i, edDoc, edWin, files))
    BY <1>5, <2>1, <2>2
  <2>5. edWin.raced \/ edDoc.modified \/ edWin.doubt \/ edDoc.value = edWin.kept
    BY <1>1, <2>2 DEF Tells
  <2> HIDE DEF i
  <2> QED
    BY <1>1, <1>4, <2>2, <2>3, <2>4, <2>5
<1>9. ASSUME WriteFails PROVE EditInvariant'
  <2> DEFINE i == [j EXCEPT !.at = "failed"]
  <2>1. SaveAt("writing") /\ DeskIs(NextAt(Desk, "failed"))
    BY <1>9 DEF WriteFails
  <2>2. /\ saves # <<>> /\ j \in SaveJob(n) /\ ~SavesAt(Desk, "sending")
    BY <1>6, <2>1
  <2>3. i \in SaveJob(n) /\ i.of = j.of /\ i.at = "failed"
    BY <1>7, <2>2
  <2>4. DeskIs(AtWork(Desk, i, edDoc, edWin, files))
    BY <1>5, <2>1, <2>2
  <2>5. edWin.raced \/ edDoc.modified \/ edWin.doubt \/ edDoc.value = edWin.kept
    BY <1>1, <2>2 DEF Tells
  <2> HIDE DEF i
  <2> QED
    BY <1>1, <1>4, <2>2, <2>3, <2>4, <2>5
<1>10. ASSUME WriteDocument PROVE EditInvariant'
  <2> DEFINE value == IF j.of = edDoc.number THEN edDoc.value ELSE j.value
             i == [j EXCEPT !.at = "written", !.value = value]
  <2>1. SaveAt("writing")
    BY <1>10 DEF WriteDocument
  <2>2. /\ saves # <<>> /\ j \in SaveJob(n) /\ ~SavesAt(Desk, "sending")
    BY <1>6, <2>1
  <2>3. value \in Contents(n)
    BY <1>3, <2>2 DEF SaveJob
  <2>4. j.of = edDoc.number => value = edDoc.value
    OBVIOUS
  <2>5. DeskIs(AtWork(Desk, i, edDoc, edWin, files))
    <3>1. [NextAt(Desk, "written") EXCEPT !.s[1].value =
                 IF j.of = edDoc.number THEN edDoc.value ELSE @]
           = AtWork(Desk, i, edDoc, edWin, files)
      <4> DEFINE b == [j EXCEPT !.at = "written"]
                 c == AtWork(Desk, b, edDoc, edWin, files)
      <4>1. NextAt(Desk, "written") = c
        BY <1>5, <2>2
      <4>2. c.s = [saves EXCEPT ![1] = b] /\ c.s[1] = b
        BY <1>1, <1>2, <2>2 DEF AtWork
      <4>3. b.value = j.value /\ [b EXCEPT !.value = value] = i
        BY <2>2 DEF SaveJob
      <4> HIDE DEF b
      <4>4. [c EXCEPT !.s[1].value = IF j.of = edDoc.number THEN edDoc.value ELSE @]
            = [c EXCEPT !.s = [c.s EXCEPT ![1] = [c.s[1] EXCEPT !.value =
                                 IF j.of = edDoc.number THEN edDoc.value ELSE c.s[1].value]]]
        BY <4>2 DEF AtWork
      <4>5. [c.s[1] EXCEPT !.value = IF j.of = edDoc.number THEN edDoc.value ELSE c.s[1].value] = i
        BY <4>2, <4>3
      <4> HIDE DEF i
      <4>6. [c.s EXCEPT ![1] = i] = [saves EXCEPT ![1] = i]
        BY <4>2
      <4>7. [c EXCEPT !.s = [saves EXCEPT ![1] = i]] = AtWork(Desk, i, edDoc, edWin, files)
        BY <1>1 DEF AtWork
      <4> HIDE DEF c
      <4> QED
        BY <4>1, <4>4, <4>5, <4>6, <4>7
    <3> QED
      BY <1>10, <3>1 DEF WriteDocument, j
  <2> HIDE DEF value
  <2>6. i \in SaveJob(n) /\ i.of = j.of /\ i.at = "written" /\ i.value = value
    BY <2>2, <2>3 DEF SaveJob
  <2>7. edWin.raced \/ edDoc.modified \/ edWin.doubt \/ edDoc.value = edWin.kept
    BY <1>1, <2>2 DEF Tells
  <2> HIDE DEF i
  <2> QED
    BY <1>1, <1>4, <2>2, <2>4, <2>5, <2>6, <2>7
<1>11. ASSUME ResetModified PROVE EditInvariant'
  <2>1. SaveAt("written")
    BY <1>11 DEF ResetModified
  <2>2. /\ saves # <<>> /\ j \in SaveJob(n) /\ ~SavesAt(Desk, "sending")
        /\ SavesAt(Desk, "written") <=> j.of = edDoc.number
    BY <1>6, <2>1
  <2>3. edWin.raced \/ edDoc.modified \/ edWin.doubt \/ edDoc.value = edWin.kept
    BY <1>1, <2>2 DEF Tells
  <2>4. CASE j.of # edDoc.number
    <3> DEFINE i == [j EXCEPT !.at = "sending"]
    <3>1. DeskIs(NextAt(Desk, "sending"))
      BY <1>11, <2>4 DEF ResetModified, j
    <3>2. i \in SaveJob(n) /\ i.of = j.of /\ i.at = "sending"
      BY <1>7, <2>2
    <3>3. DeskIs(AtWork(Desk, i, edDoc, edWin, files))
      BY <1>5, <2>2, <3>1
    <3> HIDE DEF i
    <3> QED
      BY <1>1, <1>4, <2>2, <2>3, <2>4, <3>2, <3>3
  <2>5. CASE j.of = edDoc.number
    <3> DEFINE i == [j EXCEPT !.at = "sending", !.reset = edDoc.modified]
               d == [edDoc EXCEPT !.modified = FALSE]
    <3>1. DeskIs([NextAt(Desk, "sending") EXCEPT !.s[1].reset = edDoc.modified,
                                                 !.d.modified = FALSE])
      BY <1>11, <2>5 DEF ResetModified, j
    <3>2. DeskIs(AtWork(Desk, i, d, edWin, files))
      <4> DEFINE b == [j EXCEPT !.at = "sending"]
                 c == AtWork(Desk, b, edDoc, edWin, files)
      <4>1. NextAt(Desk, "sending") = c
        BY <1>5, <2>2
      <4>2. c.s = [saves EXCEPT ![1] = b] /\ c.s[1] = b /\ c.d = edDoc
        BY <1>1, <1>2, <2>2 DEF AtWork
      <4>3. [b EXCEPT !.reset = edDoc.modified] = i
        BY <2>2 DEF SaveJob
      <4> HIDE DEF b
      <4>4. [c EXCEPT !.s[1].reset = edDoc.modified, !.d.modified = FALSE]
            = [c EXCEPT !.s = [c.s EXCEPT ![1] = [c.s[1] EXCEPT !.reset = edDoc.modified]],
                        !.d = [c.d EXCEPT !.modified = FALSE]]
        BY <4>2 DEF AtWork
      <4>5. [c.s[1] EXCEPT !.reset = edDoc.modified] = i /\ [c.d EXCEPT !.modified = FALSE] = d
        BY <4>2, <4>3
      <4>8. d \in Document(n) /\ i \in SaveJob(n) /\ b \in SaveJob(n)
        BY <1>1, <1>3, <2>2 DEF Document, SaveJob, b
      <4> HIDE DEF i, d
      <4> DEFINE t == [saves EXCEPT ![1] = i]
      <4>6. [c.s EXCEPT ![1] = i] = t
        BY <4>2
      <4>7. t \in Seq(SaveJob(n)) /\ c.s \in Seq(SaveJob(n))
        BY <1>1, <1>2, <2>2, <4>2, <4>8
      <4>9. c = [d |-> edDoc, x |-> widget, p |-> popup, s |-> c.s, w |-> edWin, f |-> files]
        BY <1>1 DEF AtWork
      <4>10. widget \in Widget(n) /\ popup \in Popup(n)
        BY <1>1, DeskParts
      <4>11. AtWork(Desk, i, d, edWin, files)
             = [d |-> d, x |-> widget, p |-> popup, s |-> t, w |-> edWin, f |-> files]
        BY <1>1 DEF AtWork
      <4> HIDE DEF c, t
      <4>12. c \in DeskOf(n) /\ c.x = widget /\ c.p = popup /\ c.w = edWin /\ c.f = files
        BY <1>1, <4>7, <4>9, <4>10, DeskFrom
      <4>13. DeskIs([c EXCEPT !.s = t, !.d = d])
        BY <3>1, <4>1, <4>4, <4>5, <4>6
      <4>14. DeskIs([d |-> d, x |-> c.x, p |-> c.p, s |-> t, w |-> c.w, f |-> c.f])
        BY <1>1, <4>12, <4>13, AtWorkThen
      <4> QED
        BY <4>11, <4>12, <4>14
    <3>3. /\ i \in SaveJob(n) /\ i.of = j.of /\ i.at = "sending" /\ i.value = j.value
          /\ i.reset = edDoc.modified
      BY <1>3, <2>2 DEF SaveJob
    <3>4. /\ d \in Document(n) /\ d.number = edDoc.number /\ d.value = edDoc.value
          /\ d.modified = FALSE
      BY <1>1 DEF Document
    <3>5. edWin.raced \/ j.value = edDoc.value
      <4>1. Desk.s[1].value = j.value
        BY <1>1 DEF j
      <4> QED
        BY <1>1, <2>2, <2>5, <4>1 DEF Tells
    <3> HIDE DEF i, d
    <3> QED
      BY <1>1, <1>4, <2>2, <2>3, <2>5, <3>2, <3>3, <3>4, <3>5
  <2> QED
    BY <2>4, <2>5
<1>12. ASSUME NEW ok \in BOOLEAN, Transfer(ok) PROVE EditInvariant'
  <2>1. SaveAt("sending") /\ Head(saves) = j
    BY <1>2, <1>12 DEF Transfer, SaveAt
  <2>2. /\ saves # <<>> /\ j \in SaveJob(n) /\ ~SavesAt(Desk, "written")
        /\ SavesAt(Desk, "sending") <=> j.of = edDoc.number
    BY <1>6, <2>1
  <2>3. j.value \in Contents(n) /\ j.reset \in BOOLEAN /\ j.to \in {"own", "copy"}
    BY <2>2 DEF SaveJob
  <2>4. CASE ok
    <3> DEFINE i == [j EXCEPT !.at = "ended"]
               kept == IF j.of = edDoc.number THEN j.value ELSE edWin.kept
               w == [edWin EXCEPT !.kept = kept]
               f == [files EXCEPT ![j.to] = j.value]
               c == AtWork(Desk, i, edDoc, edWin, files)
    <3>1. i \in SaveJob(n) /\ i.of = j.of /\ i.at = "ended"
      BY <1>7, <2>2
    <3>2. kept \in Contents(n)
      BY <1>3, <2>3
    <3>3. f \in [own : Contents(n), copy : Contents(n)]
      BY <1>1, <2>3
    <3>4. DeskIs(AtWork(Desk, i, edDoc, w, f))
      <4>1. NextAt(Desk, "ended") = c
        BY <1>5, <2>2
      <4>2. /\ [c EXCEPT !.f[Head(saves).to] = Head(saves).value,
                         !.w.kept = IF Head(saves).of = edDoc.number
                                      THEN Head(saves).value ELSE @]
               = [c EXCEPT !.f = f, !.w = w]
        <5>1. c.f = files /\ c.w = edWin
          BY DEF AtWork
        <5> QED
          BY <2>1, <5>1 DEF AtWork
      <4>5. c.s \in Seq(SaveJob(n))
        BY <1>1, <1>2, <2>2, <3>1 DEF AtWork
      <4>6. widget \in Widget(n) /\ popup \in Popup(n)
        BY <1>1, DeskParts
      <4> HIDE DEF w, f, i
      <4>7. c = [d |-> edDoc, x |-> widget, p |-> popup, s |-> c.s, w |-> edWin, f |-> files]
        BY <1>1 DEF AtWork
      <4>8. AtWork(Desk, i, edDoc, w, f)
            = [d |-> edDoc, x |-> widget, p |-> popup, s |-> c.s, w |-> w, f |-> f]
        BY <1>1 DEF AtWork
      <4> HIDE DEF c
      <4>9. c \in DeskOf(n) /\ c.x = widget /\ c.p = popup /\ c.d = edDoc
        BY <1>1, <4>5, <4>6, <4>7, DeskFrom
      <4>10. DeskIs([c EXCEPT !.f[Head(saves).to] = Head(saves).value,
                              !.w.kept = IF Head(saves).of = edDoc.number
                                           THEN Head(saves).value ELSE @])
        BY <1>12, <2>4, <4>1 DEF Transfer
      <4>11. DeskIs([c EXCEPT !.f = f, !.w = w])
        BY <4>2, <4>10
      <4>12. DeskIs([d |-> c.d, x |-> c.x, p |-> c.p, s |-> c.s, w |-> w, f |-> f])
        BY <1>1, <4>9, <4>11, AtWorkThen
      <4> QED
        BY <4>8, <4>9, <4>12
    <3>5. kept = IF j.of = edDoc.number THEN j.value ELSE edWin.kept
      OBVIOUS
    <3> HIDE DEF kept
    <3>6. /\ w \in Window(n) /\ w.open = edWin.open /\ w.typed = edWin.typed
          /\ w.calls = edWin.calls /\ w.raced = edWin.raced /\ w.doubt = edWin.doubt
          /\ w.kept = kept
      <4> HIDE DEF n
      <4> QED
        BY <1>1, <3>2 DEF Window
    <3>7. w.raced \/ edDoc.modified \/ w.doubt \/ edDoc.value = w.kept
      <4>1. Desk.s[1].value = j.value
        BY <1>1 DEF j
      <4> QED
        BY <1>1, <2>2, <3>5, <3>6, <4>1 DEF Tells
    <3> HIDE DEF i, w, f
    <3> QED
      BY <1>1, <1>4, <2>2, <3>1, <3>3, <3>4, <3>6, <3>7
  <2>5. CASE ~ok
    <3> DEFINE i == [j EXCEPT !.at = "failed"]
               doubt == edWin.doubt \/ j.reset
               w == [edWin EXCEPT !.doubt = doubt]
               c == AtWork(Desk, i, edDoc, edWin, files)
    <3>1. i \in SaveJob(n) /\ i.of = j.of /\ i.at = "failed"
      BY <1>7, <2>2
    <3>2. doubt \in BOOLEAN /\ (doubt <=> edWin.doubt \/ j.reset)
      BY <1>3, <2>3, Zenon
    <3>4. DeskIs(AtWork(Desk, i, edDoc, w, files))
      <4>1. NextAt(Desk, "failed") = c
        BY <1>5, <2>2
      <4>2. [c EXCEPT !.w.doubt = @ \/ Head(saves).reset] = [c EXCEPT !.w = w]
        <5>1. c.w = edWin
          BY DEF AtWork
        <5> QED
          BY <2>1, <5>1 DEF AtWork
      <4>3. [c EXCEPT !.w = w] = AtWork(Desk, i, edDoc, w, files)
        BY DEF AtWork
      <4> HIDE DEF c, w, i
      <4>4. DeskIs([c EXCEPT !.w.doubt = @ \/ Head(saves).reset])
        BY <1>12, <2>5, <4>1 DEF Transfer
      <4> QED
        BY <4>2, <4>3, <4>4
    <3> HIDE DEF doubt
    <3>6. /\ w \in Window(n) /\ w.open = edWin.open /\ w.typed = edWin.typed
          /\ w.calls = edWin.calls /\ w.raced = edWin.raced /\ w.doubt = doubt
          /\ w.kept = edWin.kept
      <4> HIDE DEF n
      <4> QED
        BY <1>1, <3>2 DEF Window
    <3>7. w.raced \/ edDoc.modified \/ w.doubt \/ edDoc.value = w.kept
      <4>1. Desk.s[1].reset = j.reset
        BY <1>1 DEF j
      <4> QED
        BY <1>1, <2>2, <3>2, <3>6, <4>1 DEF Tells
    <3> HIDE DEF i, w
    <3> QED
      BY <1>1, <1>4, <2>2, <3>1, <3>4, <3>6, <3>7
  <2> QED
    BY <2>4, <2>5
<1>13. ASSUME SaveEnded PROVE EditInvariant'
  <2> DEFINE s == Tail(saves)
             c == [Desk EXCEPT !.s = s]
  <2>1. saves # <<>> /\ j.at \in {"ended", "failed"} /\ DeskIs(c)
    BY <1>1, <1>2, <1>13 DEF SaveEnded
  <2>2. Len(saves) <= 2 /\ \A i \in DOMAIN saves : saves[i].of <= edDoc.number
                                                   /\ (i = 2 => saves[i].at = "queued")
    BY <1>1 DEF InOrder
  <2>3. /\ s \in Seq(SaveJob(n)) /\ Len(s) <= 1
        /\ \A i \in DOMAIN s : i = 1 /\ s[i].of <= edDoc.number /\ s[i].at = "queued"
    <3>1. /\ s \in Seq(SaveJob(n)) /\ Len(s) = Len(saves) - 1
          /\ \A i \in 1 .. Len(s) : s[i] = saves[i + 1]
      BY <1>1, <2>1, HeadTailProperties
    <3>2. Len(saves) \in {1, 2} /\ DOMAIN saves = 1 .. Len(saves) /\ DOMAIN s = 1 .. Len(s)
      BY <1>1, <2>1, <2>2, <3>1
    <3> HIDE DEF s
    <3> QED
      BY <2>2, <3>1, <3>2
  <2> HIDE DEF s
  <2>4. /\ c \in DeskOf(n) /\ c.d = edDoc /\ c.x = widget /\ c.p = popup /\ c.s = s /\ c.w = edWin
    BY <1>1, <2>3 DEF DeskOf
  <2> HIDE DEF c
  <2>5. InOrder(c)
    BY <1>1, <2>3, <2>4 DEF InOrder
  <2>6. Reaches(c)
    BY <1>1, <2>4 DEF Reaches, Live
  <2>7. Tells(c)
    <3>1. \A at \in {"written", "sending"} : ~SavesAt(c, at)
      <4>1. s # <<>> => 1 \in DOMAIN s
        BY <2>3
      <4> QED
        BY <2>3, <2>4, <4>1 DEF SavesAt
    <3>2. ~SavesAt(Desk, "sending")
      BY <1>1, <2>1 DEF SavesAt, j
    <3> QED
      BY <1>1, <2>4, <3>1, <3>2 DEF Tells
  <2>8. DeskGood(c, n) /\ c.w.calls = n
    BY <2>4, <2>5, <2>6, <2>7 DEF DeskGood, n
  <2> QED
    BY <1>1, <2>1, <2>8, DeskNext
<1> QED
  BY <1>8, <1>9, <1>10, <1>11, <1>12, <1>13 DEF SaveWork

\* The window and its dialogs: every step leaves a good desk.
LEMMA WindowStep ==
  ASSUME EditInvariant, EditWindow
  PROVE  EditInvariant'
<1> DEFINE m == edWin.calls
           n == edWin.calls + 1
           f == FocusLost(EditCall)
<1>1. /\ DeskGood(Desk, m) /\ m \in Nat /\ m <= EditCalls /\ Desk.d = edDoc /\ Desk.w = edWin
      /\ Desk.s = saves /\ Desk.f = files
      /\ edDoc \in Document(m) /\ edWin \in Window(m) /\ Desk \in DeskOf(m)
      /\ edWin.open \in BOOLEAN
  <2>1. DeskGood(Desk, m) /\ m <= EditCalls /\ Desk \in DeskOf(m)
    BY DEF EditInvariant, DeskGood
  <2>2. edWin \in Window(m) /\ edDoc \in Document(m)
    <3> HIDE DEF m
    <3> QED
      BY <2>1 DEF DeskOf, Desk
  <2>3. m \in Nat /\ edWin.open \in BOOLEAN
    BY <2>2 DEF Window
  <2> QED
    BY <2>1, <2>2, <2>3 DEF Desk
<1>2. ASSUME edWin.calls < EditCalls
      PROVE  /\ n \in Nat /\ n <= EditCalls
             /\ Called(EditCall) /\ EditCall \in DeskOf(n) /\ EditCall.w.calls = n
             /\ DeskGood(EditCall, n) /\ EditCall.w \in Window(n)
             /\ EditCall.w.open = edWin.open
             /\ NotBlocked => /\ Called(f) /\ DeskGood(f, n) /\ f \in DeskOf(n) /\ f.w.calls = n
                              /\ f.w \in Window(n)
  <2>1. NotBlocked => MaySync(Desk)
    BY MaySyncDesk
  <2>2. n \in Nat /\ n <= EditCalls
    BY <1>2, CallGood
  <2>3. Called(EditCall) /\ (MaySync(Desk) => Called(f))
    BY <1>2, FocusedGood
  <2> HIDE DEF f
  <2>4. \A k : Called(k) => /\ DeskGood(k, n) /\ k \in DeskOf(n) /\ k.w.calls = n
                            /\ k.w.open = edWin.open
    BY DEF Called, DeskGood
  <2>5. EditCall.w \in Window(n) /\ (NotBlocked => f.w \in Window(n))
    BY <2>1, <2>2, <2>3, <2>4, DeskParts
  <2> QED
    BY <2>1, <2>2, <2>3, <2>4, <2>5
<1> HIDE DEF f, m, n
\* The dialog or whether the window is open is another.
<1>3. ASSUME NEW l \in Nat, l <= EditCalls, NEW k, DeskGood(k, l), k.w.calls = l,
             NEW dialog \in {"none", "chooser", "modified"},
             NEW open \in BOOLEAN,
             DeskIs([k EXCEPT !.w = [k.w EXCEPT !.dialog = dialog, !.open = open]])
      PROVE  EditInvariant'
  <2> DEFINE w == [k.w EXCEPT !.dialog = dialog, !.open = open]
             c == [k EXCEPT !.w = w]
  <2>1. k.w \in Window(l)
    BY <1>3, DeskParts DEF DeskGood
  <2>2. /\ w \in Window(l) /\ w.typed = k.w.typed /\ w.kept = k.w.kept /\ w.raced = k.w.raced
        /\ w.doubt = k.w.doubt /\ w.calls = l
    BY <1>3, <2>1 DEF Window
  <2> HIDE DEF w
  <2>3. DeskGood(c, l) /\ c.w = w
    BY <1>3, <2>2, WindowGood
  <2> HIDE DEF c
  <2>4. DeskIs(c)
    BY <1>3 DEF c, w
  <2> QED
    BY <1>3, <2>2, <2>3, <2>4, DeskNext
<1>4. ASSUME NEW l \in Nat, l <= EditCalls, NEW k, DeskGood(k, l), k.w.calls = l,
             NEW dialog \in {"none", "chooser", "modified"},
             DeskIs([k EXCEPT !.w.dialog = dialog])
      PROVE  EditInvariant'
  <2>1. k \in DeskOf(l) /\ k.w.open \in BOOLEAN
    <3>1. k \in DeskOf(l)
      BY <1>4 DEF DeskGood
    <3> QED
      BY <3>1 DEF DeskOf, Window
  <2>2. [k EXCEPT !.w.dialog = dialog]
        = [k EXCEPT !.w = [k.w EXCEPT !.dialog = dialog, !.open = k.w.open]]
    BY <2>1 DEF DeskOf, Window
  <2>3. DeskIs([k EXCEPT !.w = [k.w EXCEPT !.dialog = dialog, !.open = k.w.open]])
    BY <1>4, <2>2
  <2> QED
    BY <1>3, <1>4, <2>1, <2>3
<1>5. \A l \in Nat : \A k \in DeskOf(l) : k.w.open \in BOOLEAN
                                          /\ k.w.dialog \in {"none", "chooser", "modified"}
  <2>1. ASSUME NEW l \in Nat, NEW k \in DeskOf(l)
        PROVE  k.w.open \in BOOLEAN /\ k.w.dialog \in {"none", "chooser", "modified"}
    BY DeskParts DEF Window
  <2> QED
    BY <2>1
<1>6. ASSUME SaveAs PROVE EditInvariant'
  <2>1. MayEdit /\ NotBlocked /\ DeskIs([f EXCEPT !.w.dialog = "chooser"])
    BY <1>6 DEF SaveAs, f
  <2>2. edWin.calls < EditCalls
    BY <2>1 DEF MayEdit
  <2> QED
    BY <1>2, <1>4, <2>1, <2>2
<1>7. ASSUME ChooserCancelled PROVE EditInvariant'
  <2>1. DeskIs([Desk EXCEPT !.w.dialog = "none"])
    BY <1>7 DEF ChooserCancelled
  <2>2. Desk.w.calls = m
    BY <1>1 DEF m
  <2> QED
    BY <1>1, <1>4, <2>1, <2>2
<1>8. ASSUME CloseEdited PROVE EditInvariant'
  <2>1. MayEdit /\ edWin.calls < EditCalls
    BY <1>8 DEF CloseEdited, MayEdit
  <2>2. CASE edDoc.modified
    <3>1. NotBlocked /\ DeskIs([f EXCEPT !.w.dialog = "modified"])
      BY <1>8, <2>2 DEF CloseEdited, f
    <3> QED
      BY <1>2, <1>4, <2>1, <3>1
  <2>3. CASE ~edDoc.modified
    <3> DEFINE b == ClearSave(EditCall)
    <3>1. DeskIs([b EXCEPT !.w.open = FALSE])
      BY <1>8, <2>3 DEF CloseEdited
    <3>2. DeskGood(b, n) /\ b.w = EditCall.w
      BY <1>2, <2>1, ClearSaveGood
    <3> HIDE DEF b
    <3>3. b \in DeskOf(n) /\ b.w.calls = n
      BY <1>2, <2>1, <3>2 DEF DeskGood
    <3>4. [b EXCEPT !.w.open = FALSE]
          = [b EXCEPT !.w = [b.w EXCEPT !.dialog = b.w.dialog, !.open = FALSE]]
      BY <1>2, <2>1, <3>2, <3>3 DEF DeskOf, Window
    <3> QED
      BY <1>2, <1>3, <1>5, <2>1, <3>1, <3>2, <3>3, <3>4
  <2> QED
    BY <2>2, <2>3
<1>9. ASSUME NEW response \in {"yes", "no", "cancel"}, ModifiedResponse(response)
      PROVE  EditInvariant'
  <2>1. Desk.w.calls = m
    BY <1>1 DEF m
  <2>2. CASE response = "yes"
    <3>1. DeskIs([Desk EXCEPT !.w.dialog = "chooser"])
      BY <1>9, <2>2 DEF ModifiedResponse
    <3> QED
      BY <1>1, <1>4, <2>1, <3>1
  <2>3. CASE response = "cancel"
    <3>1. DeskIs([Desk EXCEPT !.w.dialog = "none"])
      BY <1>9, <2>3 DEF ModifiedResponse
    <3> QED
      BY <1>1, <1>4, <2>1, <3>1
  <2>4. CASE response = "no"
    <3> DEFINE b == ClearSave(Desk)
    <3>1. DeskIs([b EXCEPT !.w.dialog = "none", !.w.open = FALSE])
      BY <1>9, <2>4 DEF ModifiedResponse
    <3>2. DeskGood(b, m) /\ b.w = edWin
      BY <1>1, ClearSaveGood
    <3> HIDE DEF b
    <3>3. b \in DeskOf(m) /\ b.w.calls = m
      BY <3>2 DEF DeskGood, m
    <3>4. [b EXCEPT !.w.dialog = "none", !.w.open = FALSE]
          = [b EXCEPT !.w = [b.w EXCEPT !.dialog = "none", !.open = FALSE]]
      BY <1>1, <3>3 DEF DeskOf
    <3> QED
      BY <1>1, <1>3, <3>1, <3>2, <3>3, <3>4
  <2> QED
    BY <2>2, <2>3, <2>4
<1>10. ASSUME NEW file \in DOMAIN files, Chosen(file) PROVE EditInvariant'
  <2> DEFINE b == ClearSave(Desk)
             j == [at |-> "queued", to |-> file, of |-> edDoc.number, value |-> edDoc.value,
                   reset |-> FALSE]
             w == [edWin EXCEPT !.dialog = "none", !.saves = edWin.saves + 1]
             s == Append(b.s, j)
             k == [d |-> b.d, x |-> b.x, p |-> b.p, s |-> s, w |-> w, f |-> b.f]
  <2>1. DeskGood(b, m) /\ Len(b.s) <= 1 /\ b.d = edDoc /\ b.w = edWin /\ b.f = files
    BY <1>1, ClearSaveGood
  <2>2. DeskIs(k)
    <3>1. DeskIs([[b EXCEPT !.w.dialog = "none", !.w.saves = @ + 1] EXCEPT !.s = Append(@, j)])
      BY <1>10 DEF Chosen
    <3>2. b \in DeskOf(m)
      BY <2>1 DEF DeskGood
    <3> HIDE DEF b, j
    <3> QED
      BY <1>1, <2>1, <3>1, <3>2 DEF DeskIs, DeskOf
  <2>3. j \in SaveJob(m) /\ j.of = edDoc.number /\ j.at = "queued"
    <3>1. file \in {"own", "copy"}
      <4>1. files \in [own : Contents(m), copy : Contents(m)]
        BY <1>1, DeskParts
      <4> QED
        BY <1>10, <4>1
    <3> QED
      BY <1>1, <3>1 DEF SaveJob, Document
  <2>4. /\ w \in Window(m) /\ w.open = edWin.open /\ w.typed = edWin.typed
        /\ w.kept = edWin.kept /\ w.raced = edWin.raced /\ w.doubt = edWin.doubt
        /\ w.calls = m
    <3> USE DEF m
    <3>1. edWin \in Window(m) /\ edWin.saves + 1 \in Nat
      BY <1>1 DEF Window
    <3> HIDE DEF m
    <3> QED
      BY <1>1, <3>1 DEF Window, m
  <2>5. /\ b \in DeskOf(m) /\ InOrder(b) /\ Reaches(b) /\ Tells(b) /\ b.s \in Seq(SaveJob(m))
        /\ b.d \in Document(m) /\ b.x \in Widget(m) /\ b.p \in Popup(m)
        /\ b.f \in [own : Contents(m), copy : Contents(m)]
    <3>1. b \in DeskOf(m) /\ InOrder(b) /\ Reaches(b) /\ Tells(b)
      BY <2>1 DEF DeskGood
    <3> HIDE DEF b
    <3> QED
      BY <1>1, <3>1, DeskParts
  <2> HIDE DEF b, j, w
  <2>6. /\ s \in Seq(SaveJob(m)) /\ Len(s) = Len(b.s) + 1 /\ Len(s) <= 2
        /\ \A i \in DOMAIN s : IF i <= Len(b.s) THEN i \in DOMAIN b.s /\ s[i] = b.s[i]
                                                 ELSE s[i] = j
    BY <2>1, <2>3, <2>5
  <2> HIDE DEF s
  <2>7. k \in DeskOf(m)
    BY <1>1, <2>4, <2>5, <2>6, DeskFrom
  <2>8. InOrder(k)
    <3>1. ASSUME NEW i \in DOMAIN s
          PROVE  s[i].of <= edDoc.number /\ (i = 2 => s[i].at = "queued")
      <4>1. CASE i <= Len(b.s)
        BY <2>1, <2>5, <2>6, <3>1, <4>1 DEF InOrder
      <4>2. CASE ~(i <= Len(b.s))
        BY <1>1, <2>3, <2>6, <3>1, <4>2 DEF Document
      <4> QED
        BY <4>1, <4>2
    <3>2. /\ k.x = b.x /\ k.p = b.p /\ k.d = b.d /\ k.s = s
      OBVIOUS
    <3> HIDE DEF k
    <3> QED
      BY <2>1, <2>5, <2>6, <3>1, <3>2 DEF InOrder
  <2>9. Reaches(k)
    BY <2>1, <2>4, <2>5 DEF Reaches, Live
  <2>10. Tells(k)
    <3>1. s # <<>> /\ (b.s # <<>> => s[1] = b.s[1]) /\ (b.s = <<>> => s[1] = j)
      <4>1. s # <<>> /\ 1 \in DOMAIN s
        BY <2>5, <2>6
      <4>2. b.s # <<>> => 1 <= Len(b.s)
        BY <2>5
      <4>3. b.s = <<>> => Len(b.s) = 0
        OBVIOUS
      <4> QED
        BY <2>5, <2>6, <4>1, <4>2, <4>3
    <3>2. \A at \in {"written", "sending"} : SavesAt(k, at) <=> SavesAt(b, at)
      BY <2>3, <3>1 DEF SavesAt
    <3>3. \A at \in {"written", "sending"} : SavesAt(k, at) => k.s[1] = b.s[1]
      BY <2>3, <3>1 DEF SavesAt
    <3>4. /\ k.d = b.d /\ k.w = w
      OBVIOUS
    <3> HIDE DEF k
    <3> QED
      BY <2>1, <2>4, <2>5, <3>2, <3>3, <3>4 DEF Tells
  <2>11. DeskGood(k, m) /\ k.w.calls = m
    BY <2>4, <2>7, <2>8, <2>9, <2>10 DEF DeskGood
  <2> HIDE DEF k
  <2> QED
    BY <1>1, <2>2, <2>11, DeskNext
<1>11. ASSUME ReloadEdited PROVE EditInvariant'
  <2> DEFINE c == RemoveAll(EditCall)
             d == [number |-> edDoc.number + 1, value |-> files["own"], modified |-> FALSE]
             s == [i \in DOMAIN saves |->
                     [saves[i] EXCEPT !.reset = FALSE,
                                      !.value = IF saves[i].at \in {"queued", "writing"}
                                                   /\ saves[i].of = edDoc.number
                                                  THEN c.d.value ELSE saves[i].value]]
             w == [c.w EXCEPT !.typed = files["own"], !.kept = files["own"],
                              !.doubt = FALSE, !.raced = FALSE]
             k == [d |-> d, x |-> c.x, p |-> c.p, s |-> s, w |-> w, f |-> c.f]
  <2>1. edDoc.number < EditCalls /\ edWin.calls < EditCalls
    BY <1>11 DEF ReloadEdited
  <2>2. Called(c) /\ c.x = NoWidget
    BY <2>1, FocusedGood
  <2>3. /\ DeskGood(c, n) /\ c \in DeskOf(n) /\ InOrder(c) /\ c.w.calls = n /\ c.s = saves
        /\ c.d.number = edDoc.number
    BY <2>2 DEF Called, DeskGood, n
  <2>4. /\ c.d \in Document(n) /\ c.x \in Widget(n) /\ c.p \in Popup(n) /\ c.w \in Window(n)
        /\ saves \in Seq(SaveJob(n)) /\ c.f \in [own : Contents(n), copy : Contents(n)]
        /\ c.f = files
    <3> HIDE DEF c
    <3>1. c.d \in Document(n) /\ c.x \in Widget(n) /\ c.p \in Popup(n) /\ c.w \in Window(n)
          /\ c.s \in Seq(SaveJob(n)) /\ c.f \in [own : Contents(n), copy : Contents(n)]
      BY <1>2, <2>1, <2>3, DeskParts
    <3>2. c.f = files
      BY <1>2, <2>1, CallGood, RemoveAllGood DEF c, n, Written
    <3> QED
      BY <2>3, <3>1, <3>2
  <2>5. DeskIs(k)
    <3>1. DeskIs([c EXCEPT !.d = d, !.s = s,
                  !.w.typed = files["own"], !.w.kept = files["own"],
                  !.w.doubt = FALSE, !.w.raced = FALSE])
      BY <1>11 DEF ReloadEdited
    <3> DEFINE b == [c EXCEPT !.d = d, !.s = s,
                  !.w.typed = files["own"], !.w.kept = files["own"],
                  !.w.doubt = FALSE, !.w.raced = FALSE]
    <3> HIDE DEF c, d
    <3>2. b.d = d /\ b.x = c.x /\ b.p = c.p /\ b.f = c.f
      BY <2>3 DEF DeskOf
    <3>3. b.s = s
      BY <2>3 DEF DeskOf
    <3>4. b.w = w
      BY <2>3 DEF DeskOf
    <3>5. DeskIs(b)
      BY <3>1
    <3> HIDE DEF b, s, w
    <3> QED
      BY <3>2, <3>3, <3>4, <3>5 DEF DeskIs
  <2> HIDE DEF c
  <2>6. d \in Document(n) /\ d.number = edDoc.number + 1 /\ d.value = files["own"]
        /\ d.modified = FALSE
    BY <1>1, <2>1, <2>4, EditAssumption DEF Document
  <2>7. /\ w \in Window(n) /\ w.typed = files["own"] /\ w.kept = files["own"]
        /\ w.calls = n /\ w.doubt = FALSE
    <3> HIDE DEF n
    <3> QED
      BY <2>3, <2>4 DEF Window
  <2> HIDE DEF w, d
  <2>8. /\ s \in Seq(SaveJob(n)) /\ Len(s) = Len(saves) /\ DOMAIN s = DOMAIN saves
        /\ \A i \in DOMAIN s : s[i].of = saves[i].of /\ s[i].at = saves[i].at
    <3>1. ASSUME NEW i \in DOMAIN saves
          PROVE  s[i] \in SaveJob(n) /\ s[i].of = saves[i].of /\ s[i].at = saves[i].at
      <4>1. saves[i] \in SaveJob(n) /\ c.d.value \in Contents(n)
        BY <2>4, <3>1 DEF Document
      <4> QED
        BY <3>1, <4>1 DEF SaveJob
    <3>2. DOMAIN s = 1 .. Len(saves) /\ Len(saves) \in Nat
      BY <2>4
    <3> HIDE DEF s
    <3>3. s \in [1 .. Len(saves) -> SaveJob(n)]
      BY <3>1, <3>2 DEF s
    <3>4. s \in Seq(SaveJob(n)) /\ Len(s) = Len(saves)
      BY <3>2, <3>3
    <3> QED
      BY <3>1, <3>2, <3>4
  <2> HIDE DEF s
  <2>9. k \in DeskOf(n)
    BY <1>2, <2>1, <2>4, <2>6, <2>7, <2>8, DeskFrom
  <2>10. k.d = d /\ k.x = NoWidget /\ k.p = c.p /\ k.s = s /\ k.w = w
    BY <2>2
  <2> HIDE DEF k
  <2>11. /\ NoWidget.changed = FALSE /\ c.p.of <= edDoc.number /\ edDoc.number \in Int
         /\ c.p.of \in Int
    BY <1>1, <2>3, <2>4 DEF NoWidget, InOrder, Document, Popup
  <2>12. \A i \in DOMAIN s : s[i].of \in Int /\ s[i].of <= edDoc.number
                             /\ (i = 2 => s[i].at = "queued")
    <3>1. \A i \in DOMAIN s : s[i].of \in Int
      <4>1. \A i \in DOMAIN s : s[i] \in SaveJob(n)
        BY <2>8
      <4> QED
        BY <4>1 DEF SaveJob
    <3> QED
      BY <2>3, <2>8, <3>1 DEF InOrder
  <2>13. InOrder(k)
    BY <2>3, <2>6, <2>8, <2>10, <2>11, <2>12 DEF InOrder
  <2>14. Reaches(k)
    BY <2>6, <2>7, <2>10, <2>11 DEF Reaches, Live
  <2>15. Tells(k)
    <3>1. \A at : ~SavesAt(k, at)
      <4>1. s # <<>> => 1 \in DOMAIN s
        BY <2>8
      <4> QED
        BY <2>6, <2>10, <2>11, <2>12, <4>1 DEF SavesAt
    <3> QED
      BY <2>6, <2>7, <2>10, <3>1 DEF Tells
  <2>16. DeskGood(k, n) /\ k.w.calls = n
    BY <2>7, <2>9, <2>10, <2>13, <2>14, <2>15 DEF DeskGood
  <2> QED
    BY <1>2, <2>1, <2>5, <2>16, DeskNext
<1> QED
  BY <1>6, <1>7, <1>8, <1>9, <1>10, <1>11 DEF EditWindow

-----------------------------------------------------------------------------
(* Editing: the invariant and the theorems.                                *)

\* The desk before anything was written on it is good.
LEMMA EditInvariantInit ==
  ASSUME EditInit
  PROVE  EditInvariant
<1> DEFINE d == [number |-> 1, value |-> Unwritten, modified |-> FALSE]
           w == [open |-> TRUE, dialog |-> "none", idles |-> 0,
                 typed |-> Unwritten, kept |-> Unwritten, raced |-> FALSE, doubt |-> FALSE,
                 calls |-> 0, saves |-> 0]
           f == [own |-> Unwritten, copy |-> Unwritten]
           k == [d |-> d, x |-> NoWidget, p |-> NoPopup, s |-> <<>>, w |-> w, f |-> f]
<1>1. Unwritten \in Contents(0)
  BY MoreTexts DEF Unwritten, Contents, Items
<1>2. NoWidget \in Widget(0) /\ NoPopup \in Popup(0) /\ <<>> \in Seq(SaveJob(0))
  BY EditAssumption, MoreTexts DEF NoWidget, NoPopup, Widget, Popup
<1>3. d \in Document(0) /\ w \in Window(0) /\ f \in [own : Contents(0), copy : Contents(0)]
  <2> HIDE DEF f
  <2>1. d \in Document(0) /\ w \in Window(0)
    BY <1>1, EditAssumption DEF Document, Window
  <2> QED
    BY <1>1, <2>1 DEF f
<1>4. Desk = k
  BY DEF EditInit, Desk
<1>5. k \in DeskOf(0)
  <2> HIDE DEF d, w, f
  <2> QED
    BY <1>2, <1>3, DeskFrom
<1>6. InOrder(k)
  BY DEF InOrder, NoWidget, NoPopup
<1>7. Reaches(k)
  BY DEF Reaches, NoWidget, NoPopup
<1>8. Tells(k)
  BY DEF Tells, SavesAt
<1>9. edWin.calls = 0 /\ 0 <= EditCalls
  BY EditAssumption DEF EditInit
<1> QED
  BY <1>4, <1>5, <1>6, <1>7, <1>8, <1>9 DEF EditInvariant, DeskGood

\* The invariant holds in every state.
LEMMA EditInvariantAlways == EditSpec => []EditInvariant
<1>1. EditInit => EditInvariant
  BY EditInvariantInit
<1>2. EditInvariant /\ [EditNext]_editVars => EditInvariant'
  <2>1. ASSUME EditInvariant, UNCHANGED editVars PROVE EditInvariant'
    <3>1. Desk' = Desk /\ edWin' = edWin
      BY <2>1 DEF editVars, Desk
    <3> QED
      BY <2>1, <3>1 DEF EditInvariant
  <2> QED
    BY <2>1, FormsStep, NotesStep, SaveWorkStep, WindowStep DEF EditNext
<1> QED
  BY <1>1, <1>2, PTL DEF EditSpec

\* The variables keep their types for any number of calls and of saves: there is never
\* more than one save job at work and one that waits for it, whatever is saved or
\* dropped and whenever (ev_window_clear_save_job), and no idle source is left behind
\* that no call asked for.
THEOREM EditTypeCorrect == EditSpec => []EditTypeOK
<1>1. EditInvariant => EditTypeOK
  <2> SUFFICES ASSUME EditInvariant PROVE EditTypeOK
    OBVIOUS
  <2> DEFINE n == edWin.calls
  <2>1. DeskGood(Desk, n) /\ n <= EditCalls /\ Desk \in DeskOf(n) /\ InOrder(Desk)
    BY DEF EditInvariant, DeskGood
  <2>2. edDoc \in Document(n) /\ widget \in Widget(n) /\ popup \in Popup(n) /\ edWin \in Window(n)
    <3> HIDE DEF n
    <3> QED
      BY <2>1 DEF DeskOf, Desk
  <2>3. n \in Nat
    BY <2>2 DEF Window
  <2> HIDE DEF n
  <2>4. Texts(n) \subseteq NoNote .. EditCalls
    BY <2>1, <2>3, EditAssumption DEF Texts, NoNote
  <2>5. edDoc.value \in [Items -> NoNote .. EditCalls] /\ edDoc.modified \in BOOLEAN
    <3>1. edDoc.value \in [Items -> NoNote .. EditCalls]
      BY <2>2, <2>4 DEF Document, Contents
    <3> QED
      BY <2>2, <3>1 DEF Document
  <2>6. edDoc.number \in 1 .. EditCalls + 1
    BY <2>2 DEF Document
  <2>7. widget.item \in Fields \cup {"none"} /\ (widget.item = "none" => ~widget.changed)
    BY <2>1, <2>2 DEF Widget, InOrder, Desk
  <2>8. popup.text \in NoNote .. EditCalls /\ (popup.visible => popup.on)
    BY <2>1, <2>2, <2>4 DEF Popup, InOrder, Desk
  <2>9. Len(saves) <= 2
    BY <2>1 DEF InOrder, Desk
  <2>10. edWin.dialog \in {"none", "chooser", "modified"} /\ edWin.idles \in 0 .. EditCalls
    BY <2>1, <2>2, <2>3, EditAssumption DEF Window
  <2> QED
    BY <2>5, <2>6, <2>7, <2>8, <2>9, <2>10 DEF EditTypeOK
<1> QED
  BY <1>1, EditInvariantAlways, PTL

\* The window is closed without the question by closing it alone, and then the
\* document was not modified.
LEMMA ClosingSteps ==
  ASSUME EditInvariant, [EditNext]_editVars, ClosesUnasked
  PROVE  ~edDoc.modified
<1> DEFINE m == edWin.calls
           n == m + 1
           f == FocusLost(EditCall)
<1> USE DEF DeskIs
<1>1. /\ edWin.open # edWin'.open /\ edWin.dialog = "none"
      /\ m \in Nat /\ Desk \in DeskOf(m) /\ DeskGood(Desk, m) /\ m <= EditCalls
      /\ edWin \in Window(m) /\ Desk.w = edWin
  <2>1. DeskGood(Desk, m) /\ Desk.w = edWin /\ m <= EditCalls
    BY DEF EditInvariant, Desk
  <2>2. Desk \in DeskOf(m) /\ edWin \in Window(m)
    BY <2>1 DEF DeskGood, DeskOf
  <2>3. m \in Nat
    BY <2>2 DEF Window
  <2> QED
    BY <2>1, <2>2, <2>3 DEF ClosesUnasked
\* A call is made, which takes the keyboard or the widget away.
<1>2. ASSUME NEW c, Called(c)
      PROVE  c \in DeskOf(n) /\ c.w \in Window(n) /\ c.w.open = edWin.open /\ n \in Nat
  <2>1. c \in DeskOf(n)
    BY <1>2 DEF Called, DeskGood
  <2> QED
    BY <1>1, <1>2, <2>1, DeskParts DEF Called
<1>3. MayEdit => /\ Called(EditCall) /\ Called(EntryLeft(EditCall)) /\ Called(RemoveAll(EditCall))
                 /\ NotBlocked => /\ Called(SyncContents(EditCall)) /\ Called(f)
                                  /\ Called(RemoveAll(f))
  BY FocusedGood, MaySyncDesk DEF MayEdit
<1> HIDE DEF f
<1>4. ASSUME EditForms PROVE FALSE
  <2>1. ASSUME NEW item \in Fields, ClickField(item) PROVE FALSE
    <3>1. Called(RemoveAll(f))
      BY <1>3, <2>1 DEF ClickField
    <3>2. edWin' = RemoveAll(f).w
      BY <1>2, <2>1, <3>1 DEF ClickField, DeskOf, f
    <3> QED
      BY <1>1, <1>2, <3>1, <3>2
  <2>2. ASSUME ClickButton PROVE FALSE
    <3>1. Called(RemoveAll(f))
      BY <1>3, <2>2 DEF ClickButton
    <3> DEFINE c == RemoveAll(f)
               b == SetField(c, "check", edWin.calls + 1)
    <3>2. edWin' = b.w
      BY <2>2 DEF ClickButton, f
    <3>3. n \in Texts(n) /\ "check" \in Items /\ n \in Nat
      BY <1>1, MoreTexts DEF Items
    <3> HIDE DEF c
    <3>4. c \in DeskOf(n) /\ c.w.open = edWin.open
      BY <1>2, <3>1 DEF c
    <3>5. Written(c, b)
      BY <3>3, <3>4, SetFieldDoes
    <3> HIDE DEF b
    <3>6. b.w.open = c.w.open
      BY <3>3, <3>4, <3>5, WrittenWindow
    <3> QED
      BY <1>1, <3>2, <3>4, <3>6
  <2>3. CASE ClickElsewhere
    BY <1>1, <1>2, <1>3, <2>3 DEF ClickElsewhere, f
  <2>4. CASE RotateView
    BY <1>1, <1>2, <1>3, <2>4 DEF RotateView
  <2>5. ASSUME Called(EditCall), NEW k, edWin' = k.w,
               NEW typed, NEW idles, k.w = [EditCall.w EXCEPT !.typed = typed, !.idles = idles]
        PROVE  FALSE
    BY <1>1, <1>2, <2>5 DEF Window
  <2>6. ASSUME NEW caseOnly \in BOOLEAN, TypeText(caseOnly) PROVE FALSE
    <3>1. Called(EditCall)
      BY <1>3, <2>6 DEF TypeText
    <3>2. \/ edWin' = EditCall.w
          \/ edWin' = [EditCall.w EXCEPT !.typed = [EditCall.w.typed EXCEPT !["text"] = edWin.calls + 1]]
      <4> DEFINE k == [EditCall EXCEPT !.x.text = edWin.calls + 1, !.x.changed = TRUE,
                                       !.w.typed["text"] = edWin.calls + 1]
      <4>1. edWin' = EditCall.w \/ edWin' = k.w
        BY <2>6 DEF TypeText
      <4>2. EditCall \in DeskOf(n)
        BY <1>2, <3>1
      <4> QED
        BY <4>1, <4>2 DEF DeskOf
    <3> QED
      BY <1>1, <1>2, <3>1, <3>2 DEF Window
  <2>7. CASE ChooseItem
    <3>1. Called(EditCall)
      BY <1>3, <2>7 DEF ChooseItem
    <3> DEFINE typed == [EditCall.w.typed EXCEPT !["choice"] = edWin.calls + 1]
    <3>2. edWin' = [EditCall.w EXCEPT !.typed = typed, !.idles = EditCall.w.idles + 1]
      BY <1>2, <2>7, <3>1 DEF ChooseItem, DeskOf, Window
    <3> HIDE DEF typed
    <3> QED
      BY <1>1, <1>2, <3>1, <3>2 DEF Window
  <2>8. CASE ActivateField
    <3>1. Called(EditCall)
      BY <1>3, <2>8 DEF ActivateField
    <3>2. edWin' = [EditCall.w EXCEPT !.idles = EditCall.w.idles + 1]
      BY <1>2, <2>8, <3>1 DEF ActivateField, DeskOf, Window
    <3> QED
      BY <1>1, <1>2, <3>1, <3>2 DEF Window
  <2>9. CASE RemoveWidgets
    <3> DEFINE w == [edWin EXCEPT !.idles = edWin.idles - 1]
               k == [Desk EXCEPT !.w = w]
    <3>1. edWin' = RemoveAll(k).w
      BY <1>1, <2>9 DEF RemoveWidgets
    <3>2. /\ w \in Window(m) /\ w.typed = edWin.typed /\ w.kept = edWin.kept
          /\ w.raced = edWin.raced /\ w.doubt = edWin.doubt /\ w.open = edWin.open
      <4>1. edWin.idles - 1 \in 0 .. m
        BY <1>1, <2>9 DEF Window, RemoveWidgets
      <4> HIDE DEF m
      <4> QED
        BY <1>1, <4>1 DEF Window
    <3> HIDE DEF w, m
    <3>3. DeskGood(k, m) /\ k.w = w
      BY <1>1, <3>2, WindowGood
    <3> HIDE DEF k
    <3>4. Written(k, RemoveAll(k)) /\ k \in DeskOf(m)
      BY <1>1, <3>3, RemoveAllGood DEF DeskGood
    <3>5. RemoveAll(k).w.open = k.w.open
      BY <1>1, <3>4, WrittenWindow
    <3> QED
      BY <1>1, <3>1, <3>2, <3>3, <3>5
  <2> QED
    BY <1>4, <2>1, <2>2, <2>3, <2>4, <2>6, <2>7, <2>8, <2>9 DEF EditForms
<1>5. ASSUME EditNotes PROVE FALSE
  <2>1. ASSUME NEW c, Called(c), NEW typed, edWin' \in {c.w, [c.w EXCEPT !.typed = typed]}
        PROVE  FALSE
    BY <1>1, <1>2, <2>1 DEF Window
  <2>2. CASE CreateNote
    <3>1. NotBlocked
      BY <2>2 DEF CreateNote, NotBlocked
    <3>2. Called(f)
      BY <1>3, <2>2, <3>1 DEF CreateNote
    <3> DEFINE typed == [f.w.typed EXCEPT !["note"] = 0]
    <3>3. edWin' = [f.w EXCEPT !.typed = typed]
      BY <1>2, <2>2, <3>2 DEF CreateNote, DeskOf, Window, f
    <3> HIDE DEF typed
    <3> QED
      BY <2>1, <3>2, <3>3
  <2>3. CASE ShowNote
    <3>1. edWin' = Desk.w
      BY <1>1, <2>3 DEF ShowNote, DeskOf
    <3> QED
      BY <1>1, <3>1
  <2>4. CASE OpenNote
    <3>1. Called(f)
      BY <1>3, <2>4 DEF OpenNote
    <3>2. edWin' = f.w
      BY <1>2, <2>4, <3>1 DEF OpenNote, DeskOf, f
    <3> QED
      BY <2>1, <3>1, <3>2
  <2>5. CASE CloseNote
    <3>1. Called(SyncContents(EditCall))
      BY <1>3, <2>5 DEF CloseNote
    <3>2. edWin' = SyncContents(EditCall).w
      BY <1>2, <2>5, <3>1 DEF CloseNote, DeskOf
    <3> QED
      BY <2>1, <3>1, <3>2
  <2>6. CASE TypeNote
    <3>1. Called(EntryLeft(EditCall))
      BY <1>3, <2>6 DEF TypeNote
    <3> DEFINE c == EntryLeft(EditCall)
               text == IF popup.connected /\ popup.of = edDoc.number /\ ~popup.removed
                         THEN edWin.calls + 1 ELSE c.w.typed["note"]
               typed == [c.w.typed EXCEPT !["note"] = text]
    <3>2. edWin' = [c.w EXCEPT !.typed = typed]
      BY <1>2, <2>6, <3>1 DEF TypeNote, DeskOf, Window
    <3> HIDE DEF typed, c
    <3>3. Called(c)
      BY <3>1 DEF c
    <3> QED
      BY <2>1, <3>2, <3>3
  <2>7. CASE RemoveNote
    <3>1. NotBlocked
      BY <2>7 DEF RemoveNote, NotBlocked
    <3>2. Called(f)
      BY <1>3, <2>7, <3>1 DEF RemoveNote
    <3> DEFINE typed == [f.w.typed EXCEPT !["note"] = NoNote]
    <3>3. edWin' = [f.w EXCEPT !.typed = typed]
      BY <1>2, <2>7, <3>2 DEF RemoveNote, DeskOf, Window, f
    <3> HIDE DEF typed
    <3> QED
      BY <2>1, <3>2, <3>3
  <2> QED
    BY <1>5, <2>2, <2>3, <2>4, <2>5, <2>6, <2>7 DEF EditNotes
<1>6. ASSUME SaveWork PROVE FALSE
  <2>1. ASSUME edWin' = edWin \/ (\E kept : edWin' = [edWin EXCEPT !.kept = kept])
               \/ (\E doubt : edWin' = [edWin EXCEPT !.doubt = doubt])
        PROVE  FALSE
    BY <1>1, <2>1 DEF Window
  <2>2. \A at : NextAt(Desk, at) = [Desk EXCEPT !.s = NextAt(Desk, at).s]
                  /\ NextAt(Desk, at).w = edWin
    BY <1>1 DEF NextAt, DeskOf
  <2>3. CASE BeginSave \/ WriteDocument \/ WriteFails \/ ResetModified \/ SaveEnded
    <3>1. edWin' = edWin
      BY <1>1, <2>2, <2>3
         DEF BeginSave, WriteDocument, WriteFails, ResetModified, SaveEnded, NextAt, DeskOf
    <3> QED
      BY <2>1, <3>1
  <2>4. ASSUME NEW ok \in BOOLEAN, Transfer(ok) PROVE FALSE
    <3>1. CASE ok
      <4>1. \E kept : edWin' = [edWin EXCEPT !.kept = kept]
        BY <1>1, <2>4, <3>1 DEF Transfer, NextAt, DeskOf, Window
      <4> QED
        BY <2>1, <4>1
    <3>2. CASE ~ok
      <4>1. \E doubt : edWin' = [edWin EXCEPT !.doubt = doubt]
        BY <1>1, <2>4, <3>2 DEF Transfer, NextAt, DeskOf, Window
      <4> QED
        BY <2>1, <4>1
    <3> QED
      BY <3>1, <3>2
  <2> QED
    BY <1>6, <2>3, <2>4 DEF SaveWork
<1>7. ASSUME EditWindow PROVE ~edDoc.modified
  <2>1. CASE SaveAs
    <3>1. Called(f)
      BY <1>3, <2>1 DEF SaveAs
    <3>2. edWin' = [f.w EXCEPT !.dialog = "chooser"]
      BY <1>2, <2>1, <3>1 DEF SaveAs, DeskOf, f
    <3> QED
      BY <1>1, <1>2, <3>1, <3>2 DEF Window
  <2>2. CASE ReloadEdited
    <3> DEFINE c == RemoveAll(EditCall)
    <3>1. Called(c)
      BY <2>2, FocusedGood DEF ReloadEdited
    <3>2. edWin' = [c.w EXCEPT !.typed = files["own"], !.kept = files["own"],
                               !.doubt = FALSE, !.raced = FALSE]
      <4>1. c \in DeskOf(n) /\ c.w \in Window(n)
        BY <1>2, <3>1
      <4> HIDE DEF c
      <4> QED
        BY <2>2, <4>1 DEF ReloadEdited, DeskOf, Window, c
    <3> HIDE DEF c
    <3> QED
      BY <1>1, <1>2, <3>1, <3>2 DEF Window
  <2>3. CASE CloseEdited
    <3> SUFFICES ASSUME edDoc.modified PROVE FALSE
      OBVIOUS
    <3>1. Called(f)
      BY <1>3, <2>3 DEF CloseEdited
    <3>2. edWin' = [f.w EXCEPT !.dialog = "modified"]
      BY <1>2, <2>3, <3>1 DEF CloseEdited, DeskOf, f
    <3> QED
      BY <1>1, <1>2, <3>1, <3>2 DEF Window
  <2> QED
    BY <1>1, <1>7, <2>1, <2>2, <2>3 DEF EditWindow, ChooserCancelled, Chosen, ModifiedResponse
<1>8. CASE UNCHANGED editVars
  BY <1>1, <1>8 DEF editVars
<1> QED
  BY <1>4, <1>5, <1>6, <1>7, <1>8 DEF EditNext

\* Nothing that takes a widget or the keyboard away loses or changes what the user typed
\* last, for any number of calls and of saves: it is in the document, or still in the
\* widget or in the popup.  The document says that it is modified whenever it is not as it
\* was loaded or last saved, but for a save in doubt (ev_view_remove_all,
\* pdf_document_save).
LEMMA EditsKept == EditInvariant => EditsAreKept
<1> SUFFICES ASSUME EditInvariant PROVE EditsAreKept
  OBVIOUS
<1>1. Reaches(Desk) /\ Tells(Desk)
  BY DEF EditInvariant, DeskGood
<1>2. /\ Desk.d = edDoc /\ Desk.x = widget /\ Desk.p = popup /\ Desk.s = saves
      /\ Desk.w = edWin
  BY DEF Desk
<1>3. EditsReachDocument
  BY <1>1, <1>2 DEF EditsReachDocument, Reaches, Live, InWidget, InPopup
<1>4. ModifiedTellsTheTruth
  <2>1. SavesAt(Desk, "sending") => 1 \in DOMAIN saves
    <3>1. saves \in Seq(SaveJob(edWin.calls))
      BY <1>2 DEF EditInvariant, DeskGood, DeskOf
    <3> QED
      BY <1>2, <3>1 DEF SavesAt
  <2> QED
    BY <1>1, <1>2, <2>1 DEF ModifiedTellsTheTruth, SaveInDoubt, Tells, SavesAt
<1> QED
  BY <1>3, <1>4 DEF EditsAreKept

\* In every state of every behaviour what the user typed last into this document is in it
\* or still where it was typed, and the window knows when the document has to be saved.
THEOREM EditsAlwaysKept == EditSpec => []EditsAreKept
BY EditsKept, EditInvariantAlways, PTL

\* A window closed without the question loses, but for a save in doubt, only what was
\* still in the widget or in the popup (ev_window_close), for any number of calls.
THEOREM ClosingLosesLittle == EditSpec => LosesOnlyTheUncommitted
<1>1. ASSUME EditInvariant, [EditNext]_editVars
      PROVE  [ClosesUnasked =>
                SaveInDoubt \/ /\ edDoc.value = edWin.kept
                               /\ \A item \in Fields \cup {"note"} :
                                    edWin.typed[item] # edWin.kept[item]
                                      => Uncommitted(item)]_editVars
  <2> SUFFICES ASSUME ClosesUnasked, ~SaveInDoubt
               PROVE  /\ edDoc.value = edWin.kept
                      /\ \A item \in Fields \cup {"note"} :
                           edWin.typed[item] # edWin.kept[item] => Uncommitted(item)
    OBVIOUS
  <2>1. edDoc.value = edWin.kept
    BY <1>1, EditsKept, ClosingSteps DEF EditsAreKept, ModifiedTellsTheTruth
  <2> QED
    BY <1>1, EditsKept, <2>1 DEF EditsAreKept, EditsReachDocument, Uncommitted
<1> QED
  BY <1>1, EditInvariantAlways, PTL DEF EditSpec, LosesOnlyTheUncommitted

=============================================================================
