-------------------------------- MODULE EvCaret --------------------------------
(***************************************************************************)
(* Caret navigation: the key movements and the clicks of libview/ev-view.c *)
(* that move the caret through the text of the document, page by page.     *)
(*                                                                         *)
(* What the program knows of a page is the data of ev-page-cache.c, which  *)
(* arrives after the page came into view: the attributes that Pango finds  *)
(* in the text and the rectangles of its characters.  Until then a move    *)
(* stops where the data ends.                                              *)
(*                                                                         *)
(* A page is a sequence of characters: a letter, a mark that joins the     *)
(* letter before it, a space, or the end of a line.  The characters of a   *)
(* line stand side by side, 2 wide; lines are 2 high, 2 apart; the end of  *)
(* a line is an empty rectangle below the end of the character before it.  *)
(***************************************************************************)
EXTENDS Integers, Sequences, SequencesExt, FiniteSetsExt

CONSTANTS
  CaretTexts,   \* the text of each page
  CaretCalls    \* bound: calls of the user

\* As poppler has the text of a page: lines are not empty, and begin with a word.
ASSUME CaretAssumption ==
  /\ CaretCalls \in Nat
  /\ \A p \in DOMAIN CaretTexts :
       LET text == CaretTexts[p]
       IN /\ text \in Seq({"letter", "mark", "space", "newline"})
          /\ \A i \in DOMAIN text :
               /\ text[i] = "newline" => i \notin {1, Len(text)}
               /\ i = 1 \/ text[i - 1] = "newline" => text[i] = "letter"

VARIABLES
  caret,       \* cursor_page, cursor_offset and cursor_line_offset
  selected,    \* the selection: its ends, if there is one
  caretOn,     \* caret_enabled, in a document that is not rotated
  dualPages,   \* is_dual_page
  pageShown,   \* the page of the model, whose neighbours have data soon
  textReady,   \* the pages whose data has arrived
  lastMove,    \* history: the last movement, from where, and with which data
  caretCalls   \* calls of the user so far

caretVars == <<caret, selected, caretOn, dualPages, pageShown, textReady, lastMove, caretCalls>>

CaretPages == 0 .. Len(CaretTexts) - 1
NoEnd == [page |-> 0, offset |-> -1]
NoMove == [step |-> "none", forward |-> TRUE, from |-> NoEnd, known |-> {}]
At(page, offset) == [page |-> page, offset |-> offset]
Place(c) == At(c.page, c.offset)
Earlier(a, b) == a.page < b.page \/ (a.page = b.page /\ a.offset < b.offset)

-----------------------------------------------------------------------------
(* The data of a page: text_log_attrs and text_layout of ev_job_page_data_run. *)

NAttrs(page) == Len(CaretTexts[page + 1])
Char(page, i) == CaretTexts[page + 1][i + 1]
InWord(page, i) == i \in 0 .. NAttrs(page) - 1 /\ Char(page, i) \in {"letter", "mark"}
IsWordStart(page, i) == InWord(page, i) /\ ~InWord(page, i - 1)
IsWordEnd(page, i) == InWord(page, i - 1) /\ ~InWord(page, i)
IsCursorPosition(page, i) ==
  i \in 0 .. NAttrs(page) /\ (i = NAttrs(page) \/ Char(page, i) # "mark")
IsMandatoryBreak(page, i) == i \in 1 .. NAttrs(page) /\ Char(page, i - 1) = "newline"

LineStart(page, i) ==
  Max({0} \cup {j \in 1 .. i : IsMandatoryBreak(page, j)})
LineOf(page, i) == Cardinality({j \in 1 .. i : IsMandatoryBreak(page, j)})

CharRight(page, i) == 2 * (i - LineStart(page, i)) + 2
Area(page, i) ==
  LET top == 4 * LineOf(page, i)
  IN IF Char(page, i) = "newline"
     THEN [x1 |-> CharRight(page, i - 1), x2 |-> CharRight(page, i - 1),
           y1 |-> top + 2, y2 |-> top + 2]
     ELSE [x1 |-> CharRight(page, i) - 2, x2 |-> CharRight(page, i),
           y1 |-> top, y2 |-> top + 2]

\* get_caret_cursor_area: the left edge and the middle of the caret.  An empty
\* rectangle and the end of the page take the right edge of the character before.
HasArea(c) == caretOn /\ c.page \in textReady /\ c.offset <= NAttrs(c.page) /\ NAttrs(c.page) > 0
CaretArea(c) ==
  LET after == c.offset = NAttrs(c.page)
                 \/ (c.offset > 0 /\ Char(c.page, c.offset) = "newline")
      a == Area(c.page, IF after THEN c.offset - 1 ELSE c.offset)
  IN [x |-> IF after THEN a.x2 ELSE a.x1, y |-> (a.y1 + a.y2) \div 2]

\* _ev_view_get_caret_cursor_offset_at_doc_point.  The areas are searched in their
\* order, one run of areas at the height of the point after the other.  The rectangle
\* past the last one, which the search reads too, is taken to be elsewhere.
OffsetAt(page, x, y) ==
  LET level == {i \in 0 .. NAttrs(page) - 1 : Area(page, i).y1 <= y /\ y <= Area(page, i).y2}
      leftOf(i) == i - 1 \notin level /\ x <= Area(page, i).x1
      decides == {i \in level :
                    leftOf(i) \/ (Area(page, i).x1 <= x /\ x <= Area(page, i).x2)}
      i == Min(decides)
      last == Max({j \in level : j < i}) + 1
  IN IF level = {} THEN -1
     ELSE IF decides = {} THEN Max(level) + 1
     ELSE IF leftOf(i)
       THEN IF {j \in level : j < i} # {} /\ x - Area(page, last).x2 < Area(page, i).x1 - x
            THEN last ELSE i
     ELSE IF x <= Area(page, i).x1 + (Area(page, i).x2 - Area(page, i).x1) \div 2
       THEN i ELSE i + 1

\* position_caret_cursor_at_location, position_caret_cursor_at_doc_point
PositionAt(c, page, x, y) ==
  LET offset == IF page \in textReady /\ NAttrs(page) > 0 THEN OffsetAt(page, x, y) ELSE -1
  IN IF offset = -1 THEN c ELSE [c EXCEPT !.page = page, !.offset = offset]

-----------------------------------------------------------------------------
(* The movements.                                                          *)

HasAttrs(c) == c.page \in textReady

\* go_to_next_page, go_to_previous_page
NextPageOf(page) ==
  LET next == page + (IF dualPages THEN 2 ELSE 1)
  IN IF next \in CaretPages THEN next
     ELSE IF dualPages /\ next = Len(CaretTexts) THEN next - 1 ELSE -1
PreviousPageOf(page) ==
  LET previous == page - (IF dualPages THEN 2 ELSE 1)
  IN IF previous >= 0 THEN previous ELSE IF dualPages /\ previous = -1 THEN 0 ELSE -1

CursorGoToNextPage(c) ==
  IF NextPageOf(c.page) = -1 THEN c
  ELSE [c EXCEPT !.page = NextPageOf(c.page), !.offset = 0]

\* Without the data of the page before, the offset stays what it was.
CursorGoToPreviousPage(c) ==
  LET previous == PreviousPageOf(c.page)
  IN IF previous = -1 THEN c
     ELSE [c EXCEPT !.page = previous,
                    !.offset = IF previous \in textReady THEN NAttrs(previous) ELSE @]

CursorForwardChar(c) ==
  IF ~HasAttrs(c) THEN c
  ELSE IF c.offset >= NAttrs(c.page) THEN CursorGoToNextPage(c)
  ELSE [c EXCEPT !.offset =
          Min({i \in @ + 1 .. NAttrs(c.page) : IsCursorPosition(c.page, i)})]
CursorBackwardChar(c) ==
  IF ~HasAttrs(c) THEN c
  ELSE IF c.offset = 0 THEN CursorGoToPreviousPage(c)
  ELSE [c EXCEPT !.offset = Max({i \in 0 .. @ - 1 : IsCursorPosition(c.page, i)})]

\* The carets that a recursive call goes through, page by page.
NextPages(c) ==
  FoldLeft(LAMBDA at, text : Append(at, CursorGoToNextPage(Last(at))), <<c>>, CaretTexts)
PreviousPages(c) ==
  FoldLeft(LAMBDA at, text : Append(at, CursorGoToPreviousPage(Last(at))), <<c>>, CaretTexts)

\* The one of them where it ends: with a word to go to (found), without data, or with
\* no page to go on to.
Hops(at, found) ==
  at[Min({n \in DOMAIN at :
            n \in found \/ ~HasAttrs(at[n]) \/ n = Len(at) \/ at[n + 1] = at[n]})]

\* The places of a page from which a word can be gone to: not the end of one, not the start.
Ahead(c) == {i \in c.offset .. NAttrs(c.page) - 1 : ~IsWordEnd(c.page, i)}
Behind(c) == {i \in 1 .. c.offset : ~IsWordStart(c.page, i)}

NextWordEnd(c, ahead) ==
  IF ~HasAttrs(c) \/ ahead = {} THEN c
  ELSE [c EXCEPT !.offset =
          Min({NAttrs(c.page)} \cup {j \in Min(ahead) .. NAttrs(c.page) - 1 : IsWordEnd(c.page, j)})]
PreviousWordStart(c, behind) ==
  IF ~HasAttrs(c) \/ behind = {} THEN c
  ELSE [c EXCEPT !.offset = Max({0} \cup {j \in 0 .. Max(behind) : IsWordStart(c.page, j)})]

CursorForwardWordEnd(c) ==
  LET at == NextPages(c)
      here == Hops(at, {n \in DOMAIN at : Ahead(at[n]) # {}})
  IN NextWordEnd(here, Ahead(here))
CursorBackwardWordStart(c) ==
  LET at == PreviousPages(c)
      here == Hops(at, {n \in DOMAIN at : Behind(at[n]) # {}})
  IN PreviousWordStart(here, Behind(here))

CursorGoToLineStart(c) ==
  IF ~HasAttrs(c) THEN c ELSE [c EXCEPT !.offset = LineStart(c.page, @)]
CursorBackwardLine(c) ==
  LET start == CursorGoToLineStart(c)
  IN IF ~HasAttrs(c) THEN c
     ELSE IF start.offset = 0 THEN CursorGoToPreviousPage(start)
     ELSE [start EXCEPT !.offset = LineStart(c.page, @ - 1)]
\* Mutant: a break at the caret ends the line that it begins.
CursorGoToLineEndHere(c) ==
  LET breaks == {i \in c.offset .. NAttrs(c.page) : IsMandatoryBreak(c.page, i)}
  IN IF ~HasAttrs(c) THEN c
     ELSE [c EXCEPT !.offset =
             IF breaks = {} THEN NAttrs(c.page)
             ELSE Max({i \in 0 .. Min(breaks) - 1 : IsCursorPosition(c.page, i)})]

\* The end is before the break that follows, or the end of the page.
CursorGoToLineEnd(c) ==
  LET breaks == {i \in c.offset + 1 .. NAttrs(c.page) : IsMandatoryBreak(c.page, i)}
  IN IF ~HasAttrs(c) THEN c
     ELSE [c EXCEPT !.offset =
             IF breaks = {} THEN NAttrs(c.page)
             ELSE Max({i \in 0 .. Min(breaks) - 1 : IsCursorPosition(c.page, i)})]
CursorForwardLine(c) ==
  LET end == CursorGoToLineEnd(c)
  IN IF ~HasAttrs(c) THEN c
     ELSE IF end.offset = NAttrs(c.page) THEN CursorGoToNextPage(end)
     ELSE [end EXCEPT !.offset =
             Min({i \in @ + 1 .. NAttrs(c.page) : IsCursorPosition(c.page, i)})]

\* cursor_clear_selection: to the end of the selection, if its page is drawn
SelectionFirst == IF Earlier(selected.from, selected.to) THEN selected.from ELSE selected.to
SelectionLast == IF Earlier(selected.from, selected.to) THEN selected.to ELSE selected.from
Selecting == selected.to # NoEnd
Drawn(page) == page = pageShown /\ page \in textReady
CursorClearSelection(c, forward) ==
  LET end == IF forward THEN SelectionLast ELSE SelectionFirst
  IN IF selected.from # selected.to /\ Drawn(end.page)
     THEN [c EXCEPT !.page = end.page, !.offset = end.offset]
     ELSE IF forward THEN CursorForwardChar(c) ELSE CursorBackwardChar(c)

Moved(step, forward, extend) ==
  CASE step = "char" -> IF Selecting /\ ~extend THEN CursorClearSelection(caret, forward)
                        ELSE IF forward THEN CursorForwardChar(caret)
                        ELSE CursorBackwardChar(caret)
    [] step = "word" -> IF forward THEN CursorForwardWordEnd(caret)
                        ELSE CursorBackwardWordStart(caret)
    [] step = "line" -> IF forward THEN CursorForwardLine(caret) ELSE CursorBackwardLine(caret)
    [] step = "end" -> IF forward THEN CursorGoToLineEnd(caret) ELSE CursorGoToLineStart(caret)

\* A line is entered below or above the place where the last other movement ended.
InColumn(c) ==
  LET a == CaretArea(c)
  IN PositionAt(c, c.page, IF a.x > c.x THEN a.x ELSE c.x, a.y)

CaretCall == caretCalls < CaretCalls /\ caretCalls' = caretCalls + 1

\* ev_view_move_cursor.  If the caret did not move, or has no place to be drawn, the
\* rest is left out.
Stuck(c, extend) == (extend \/ ~Selecting) /\ Place(c) = Place(caret)
Placed(c, step) == IF step = "line" THEN InColumn(c) ELSE [c EXCEPT !.x = CaretArea(c).x]
StayAt(c) == caret' = c /\ UNCHANGED <<selected, pageShown>>
ArriveAt(c, step, extend) ==
  LET start == IF Selecting THEN selected.from ELSE Place(caret)
  IN IF step = "line" /\ Stuck(c, extend) THEN StayAt(c)
     ELSE /\ caret' = c
          /\ pageShown' = c.page
          /\ selected' = IF extend THEN [from |-> start, to |-> Place(c)]
                         ELSE [from |-> NoEnd, to |-> NoEnd]
MoveTo(c, step, extend) ==
  IF Stuck(c, extend) \/ ~HasArea(c) THEN StayAt(c) ELSE ArriveAt(Placed(c, step), step, extend)

MoveCursor(step, forward, extend) ==
  /\ caretOn /\ CaretCall
  /\ MoveTo(Moved(step, forward, extend), step, extend)
  /\ lastMove' = [step |-> step, forward |-> forward, from |-> Place(caret),
                  known |-> textReady]
  /\ UNCHANGED <<caretOn, dualPages, textReady>>

\* ev_view_button_press_event: start_selection_for_event, position_caret_cursor_for_event
ClickText(page, x, y) ==
  /\ CaretCall /\ page = pageShown
  /\ selected' = [from |-> NoEnd, to |-> NoEnd]
  /\ LET c == PositionAt(caret, page, x, y)
     IN caret' = IF caretOn /\ Place(c) # Place(caret) /\ HasArea(c)
                 THEN [c EXCEPT !.x = CaretArea(c).x]
                 ELSE IF caretOn THEN c ELSE caret
  /\ lastMove' = NoMove
  /\ UNCHANGED <<caretOn, dualPages, pageShown, textReady>>

\* The user scrolls; the data of the pages in view arrives
\* (ev_page_cache_set_page_range).
ShowPage(page) ==
  /\ CaretCall /\ page # pageShown /\ pageShown' = page
  /\ UNCHANGED <<caret, selected, caretOn, dualPages, textReady, lastMove>>
TextArrives(page) ==
  /\ page \in CaretPages \ textReady /\ page \in pageShown - 1 .. pageShown + 1
  /\ textReady' = textReady \cup {page}
  /\ UNCHANGED <<caret, selected, caretOn, dualPages, pageShown, lastMove, caretCalls>>

\* ev_view_set_caret_navigation_enabled
ToggleCaret ==
  /\ CaretCall /\ caretOn' = ~caretOn
  /\ UNCHANGED <<caret, selected, dualPages, pageShown, textReady, lastMove>>

-----------------------------------------------------------------------------
\* The page and the caret of the last time come from the metadata of the document
\* (setup_document_from_metadata).
CaretInit ==
  /\ \E page \in CaretPages : \E offset \in 0 .. NAttrs(page) :
       /\ caret = [page |-> page, offset |-> offset, x |-> 0]
       /\ pageShown = page /\ textReady = {page}
  /\ selected = [from |-> NoEnd, to |-> NoEnd]
  /\ caretOn = TRUE /\ dualPages \in BOOLEAN
  /\ lastMove = NoMove /\ caretCalls = 0

CaretNext ==
  \/ \E step \in {"char", "word", "line", "end"}, forward, extend \in BOOLEAN :
       MoveCursor(step, forward, extend)
  \/ \E page \in CaretPages, x \in {3, 20}, y \in {1, 3, 5} : ClickText(page, x, y)
  \/ \E page \in CaretPages : ShowPage(page) \/ TextArrives(page)
  \/ ToggleCaret

CaretSpec == CaretInit /\ [][CaretNext]_caretVars

-----------------------------------------------------------------------------
(* Properties.                                                             *)

CaretTypeOK ==
  /\ caret.page \in CaretPages /\ caret.x \in Nat
  /\ caretOn \in BOOLEAN /\ dualPages \in BOOLEAN /\ pageShown \in CaretPages
  /\ textReady \subseteq CaretPages /\ caretCalls \in 0 .. CaretCalls

\* The caret is in the text of its page, on the end of it at most, whatever of the
\* document was known when it came there.
CaretInText == caret.offset >= 0 /\ (HasAttrs(caret) => caret.offset <= NAttrs(caret.page))

\* Over the pages, in one go, the caret comes to the next end of a word, or of a page
\* with text on it, and back to the start before, if the text on the way is known.
WordPlaces(forward) ==
  UNION {{At(page, i) : i \in {j \in 0 .. NAttrs(page) :
            IF forward THEN IsWordEnd(page, j) \/ j = NAttrs(page)
            ELSE IsWordStart(page, j) \/ j = 0}}
         : page \in {p \in CaretPages : NAttrs(p) > 0}}
WordsInOrder ==
  LET m == lastMove
      ahead == {t \in WordPlaces(m.forward) :
                  IF m.forward THEN Earlier(m.from, t) ELSE Earlier(t, m.from)}
  IN m.step = "word" /\ m.known = CaretPages /\ ~dualPages /\ ahead # {} =>
       /\ Place(caret) \in ahead
       /\ \A t \in ahead : IF m.forward THEN ~Earlier(t, Place(caret))
                           ELSE ~Earlier(Place(caret), t)

\* Up and down within a page leads to the line above or below, to the place of it that is
\* nearest to where the last movement along a line ended.
LinesKeepColumn ==
  LET m == lastMove
      line == LineOf(m.from.page, m.from.offset) + (IF m.forward THEN 1 ELSE -1)
      places == {i \in 0 .. NAttrs(caret.page) : LineOf(caret.page, i) = line}
      distance(i) ==
        LET d == CaretArea([caret EXCEPT !.offset = i]).x - caret.x
        IN IF d < 0 THEN -d ELSE d
      within == m.step = "line" /\ caretOn /\ m.from.page = caret.page
                  /\ caret.page \in m.known
  IN within /\ places # {} =>
       /\ caret.offset \in places
       /\ \A i \in places : distance(caret.offset) <= distance(i)

\* All three.
CaretMovesRight == CaretInText /\ WordsInOrder /\ LinesKeepColumn
===============================================================================
