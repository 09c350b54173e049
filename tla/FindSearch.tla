------------------------------ MODULE FindSearch ------------------------------
(***************************************************************************)
(* Searching for text: the find job (libview/ev-jobs.c), which searches    *)
(* one page per dispatch of its idle source, the view that jumps to the    *)
(* results (libview/ev-view.c), the window that starts searches and        *)
(* refreshes its widgets (shell/ev-window.c), and the find sidebar, which  *)
(* lists the results from an idle source of its own                        *)
(* (shell/ev-find-sidebar.c).                                              *)
(*                                                                         *)
(* All of it runs in the main thread: a step is one callback, and the two  *)
(* idle sources and the user's actions come in any order.  The job's       *)
(* trylock of the document is in DocumentLocks: a dispatch that fails it   *)
(* changes nothing here.                                                   *)
(***************************************************************************)
EXTENDS Integers, FiniteSets, Sequences, SequencesExt

CONSTANTS
  NPages,      \* pages of the document
  MaxResults,  \* bound: results on a page
  Founds,      \* what searches may find: numbers of results for each page
  PageRate,    \* FIND_PAGE_RATE_REFRESH
  MaxSearches  \* bound: searches started

ASSUME FindAssumption ==
  /\ NPages \in Nat \ {0} /\ MaxResults \in Nat
  /\ PageRate \in Nat \ {0} /\ MaxSearches \in Nat
  /\ Founds \subseteq [0 .. NPages - 1 -> 0 .. MaxResults]

Page == 0 .. NPages - 1
Count == [Page -> 0 .. MaxResults]
NoCount == [p \in Page |-> 0]

VARIABLES
  \* the find job last started, and the window's pointer to it
  found,          \* what ev_document_find_find_text gives for each page
  pages,          \* job->pages: the results of the pages searched
  start_page, current_page,
  jstate,         \* "none", "running", "finished" or "cancelled"
  find_job,       \* the window has a find job
  \* EvFindSidebar
  sjob,           \* it holds a reference to the job
  sidle,          \* process_matches_idle_id # 0
  scurrent,       \* current_page: the next page to list
  sjob_page,      \* job_current_page
  first_match, insert_position,
  rows,           \* the GtkListStore: <<page, result>>
  highlighted,    \* the row of highlighted_result, 0 for NULL
  \* EvView
  vpage,          \* current_page
  find_result,
  find_pages,     \* find_pages # NULL: it is job->pages
  jump,           \* jump_to_find_result
  \* history
  searches,       \* searches started
  touched         \* the user moved the view since the search started

jobVars  == <<found, pages, start_page, current_page, jstate, find_job>>
listVars == <<scurrent, sjob_page, first_match, insert_position, rows, highlighted>>
sideVars == <<sjob, sidle, listVars>>
viewVars == <<vpage, find_result, find_pages, jump>>
findVars == <<jobVars, sideVars, viewVars, searches, touched>>

-----------------------------------------------------------------------------
(* EvView, as functions of the fields they read: [page, result, jump].     *)

View == [page |-> vpage, result |-> find_result, jump |-> jump]
SetView(v) == vpage' = v.page /\ find_result' = v.result /\ jump' = v.jump

\* page_changed_cb resets find_result when the page of the model changes.
SetPage(v, p) == IF p = v.page THEN v ELSE [v EXCEPT !.page = p, !.result = 0]

\* jump_to_find_result
JumpToResult(v, n) ==
  IF n[v.page] > 0 /\ v.result < n[v.page] THEN [v EXCEPT !.jump = FALSE] ELSE v

\* jump_to_find_page: the first page with results, from page + shift on in the
\* direction (1 or -1), round the ends of the document.
JumpToPage(v, n, dir, shift) ==
  LET at(i) == (v.page + dir * i + shift) % NPages
      hits  == {i \in 0 .. NPages - 1 : n[at(i)] > 0}
  IN  IF hits = {} THEN v
      ELSE SetPage(v, at(CHOOSE i \in hits : \A k \in hits : i <= k))

Results == IF find_pages THEN pages ELSE NoCount   \* ev_view_find_get_n_results

-----------------------------------------------------------------------------
(* The window and the view: a search.                                      *)

\* find_bar_search_changed_cb: ev_view_find_search_changed, then
\* ev_window_clear_find_job.  An unfinished job is cancelled, which makes the
\* sidebar drop it and its idle source; a finished one is left alone.
ViewSearchChanged ==
  /\ jump' = TRUE /\ find_pages' = FALSE
  /\ UNCHANGED <<vpage, find_result>>

\* ev_window_search_start with a text: n gives the results it has.
\* ev_find_sidebar_start takes over the new job.
SearchStart(n) ==
  /\ searches < MaxSearches
  /\ searches' = searches + 1
  /\ ViewSearchChanged
  /\ found' = n /\ pages' = NoCount
  /\ start_page' = vpage /\ current_page' = vpage
  /\ jstate' = "running" /\ find_job' = TRUE
  /\ sjob' = TRUE /\ sidle' = FALSE
  /\ scurrent' = vpage /\ sjob_page' = -1
  /\ first_match' = -1 /\ insert_position' = 0
  /\ rows' = << >> /\ highlighted' = 0
  /\ touched' = FALSE

\* ev_window_search_start with an empty text: ev_find_sidebar_clear.
SearchCleared ==
  /\ find_job
  /\ ViewSearchChanged
  /\ find_job' = FALSE
  /\ IF jstate = "running"
     THEN jstate' = "cancelled" /\ sjob' = FALSE /\ sidle' = FALSE
     ELSE UNCHANGED <<jstate, sjob, sidle>>
  /\ rows' = << >> /\ highlighted' = 0
  /\ UNCHANGED <<found, pages, start_page, current_page, scurrent, sjob_page,
                 first_match, insert_position, searches, touched>>

\* find_check_refresh_rate
RefreshRate(p) == p % ((NPages \div PageRate) + 1) = 0

\* Mutant: no wrap around the end of the document.
AdvanceWithoutWrap(p) == p + 1

Advance(p) == (p + 1) % NPages

\* One dispatch of the idle source of the job that gets the lock:
\* ev_job_find_run.  "updated" reaches the view, the sidebar and the window,
\* in the order they connected.
FindRun ==
  LET p == current_page
      n == [pages EXCEPT ![p] = found[p]]
  IN  /\ jstate = "running"
      /\ pages' = n
      /\ find_pages' = TRUE
      /\ IF jump THEN SetView(JumpToResult(JumpToPage(View, n, 1, 0), n))
                 ELSE UNCHANGED <<vpage, find_result, jump>>
      /\ sjob_page' = p
      /\ sidle' = (sidle \/ (sjob /\ RefreshRate(p)))
      /\ current_page' = Advance(p)
      /\ jstate' = IF Advance(p) = start_page THEN "finished" ELSE "running"
      /\ UNCHANGED <<found, start_page, find_job, sjob, scurrent, first_match,
                     insert_position, rows, highlighted, searches, touched>>

-----------------------------------------------------------------------------
(* The sidebar.                                                            *)

HasResults == \E p \in Page : pages[p] > 0
RowsOf(p)  == [r \in 1 .. pages[p] |-> <<p, r - 1>>]

\* The pages the loop of process_matches_idle visits: from current_page to the
\* job's page, at least one.
Batch ==
  [i \in 1 .. ((sjob_page - scurrent) % NPages) + 1 |-> (scurrent + i - 1) % NPages]

Rows(ps) == FlattenSeq([i \in DOMAIN ps |-> RowsOf(ps[i])])

\* Mutant: every row is appended.
ListedInSearchOrder(ps) == rows \o Rows(ps)

\* Pages from the start page on go to the end of the list, those the search
\* wrapped around to go before them, at insert_position (or at the end of a
\* list that has become shorter).
Listed(ps) ==
  LET at == IF insert_position < Len(rows) THEN insert_position ELSE Len(rows)
  IN  SubSeq(rows, 1, at)
        \o Rows(SelectSeq(ps, LAMBDA p : p < start_page))
        \o SubSeq(rows, at + 1, Len(rows))
        \o Rows(SelectSeq(ps, LAMBDA p : p >= start_page))

RowsBefore(p) == Len(Rows([i \in 1 .. p |-> i - 1]))

ProcessMatches ==
  LET hits == {i \in DOMAIN Batch : pages[Batch[i]] > 0}
      first == IF first_match = -1 /\ hits # {}
               THEN Batch[CHOOSE i \in hits : \A k \in hits : i <= k]
               ELSE first_match
      done == jstate = "finished" /\ Advance(sjob_page) = start_page
  IN  /\ sidle
      /\ sidle' = FALSE
      /\ \/ /\ ~HasResults
            /\ sjob' = (jstate # "finished")
            /\ UNCHANGED listVars
         \/ /\ HasResults
            /\ rows' = Listed(Batch)
            /\ insert_position' =
                 insert_position + Len(Rows(SelectSeq(Batch, LAMBDA p : p < start_page)))
            /\ first_match' = first
            /\ scurrent' = Advance(sjob_page)
            /\ highlighted' = IF done THEN RowsBefore(first) + 1 ELSE highlighted
            /\ sjob' = ~done
            /\ UNCHANGED sjob_page
      /\ UNCHANGED <<jobVars, viewVars, searches, touched>>

-----------------------------------------------------------------------------
(* The user.                                                               *)

\* ev_window_find_next and ev_window_find_previous: the view and the sidebar
\* each move on by themselves.
ViewNext(v, n) ==
  IF v.result + 1 < n[v.page]
  THEN JumpToResult([v EXCEPT !.result = @ + 1], n)
  ELSE JumpToResult(JumpToPage([v EXCEPT !.result = 0], n, 1, 1), n)

ViewPrevious(v, n) ==
  IF v.result > 0
  THEN JumpToResult([v EXCEPT !.result = @ - 1], n)
  ELSE LET w == JumpToPage(v, n, -1, -1)
       IN  JumpToResult([w EXCEPT !.result = IF n[w.page] > 0 THEN n[w.page] - 1 ELSE 0], n)

FindNext ==
  /\ find_job /\ HasResults
  /\ SetView(ViewNext(View, Results))
  /\ highlighted' = IF highlighted = 0 THEN 0
                    ELSE IF highlighted < Len(rows) THEN highlighted + 1 ELSE 1
  /\ touched' = TRUE
  /\ UNCHANGED <<jobVars, sjob, sidle, scurrent, sjob_page, first_match,
                 insert_position, rows, find_pages, searches>>

FindPrevious ==
  /\ find_job /\ HasResults
  /\ SetView(ViewPrevious(View, Results))
  /\ highlighted' = IF highlighted = 0 THEN 0
                    ELSE IF highlighted > 1 THEN highlighted - 1 ELSE Len(rows)
  /\ touched' = TRUE
  /\ UNCHANGED <<jobVars, sjob, sidle, scurrent, sjob_page, first_match,
                 insert_position, rows, find_pages, searches>>

\* A row is selected: selection_changed_callback, ev_view_find_set_result.
RowActivated(i) ==
  /\ i \in DOMAIN rows
  /\ highlighted' = i
  /\ SetView(JumpToResult([SetPage(View, rows[i][1]) EXCEPT !.result = rows[i][2]],
                          Results))
  /\ touched' = TRUE
  /\ UNCHANGED <<jobVars, sjob, sidle, scurrent, sjob_page, first_match,
                 insert_position, rows, find_pages, searches>>

\* Any other change of page, with or without scrolling (ev_view_scroll and the
\* scroll event clear jump_to_find_result).
ChangePage(p, scrolling) ==
  /\ SetView([SetPage(View, p) EXCEPT !.jump = @ /\ ~scrolling])
  /\ touched' = TRUE
  /\ UNCHANGED <<jobVars, sideVars, find_pages, searches>>

-----------------------------------------------------------------------------
FindInit ==
  /\ found = NoCount /\ pages = NoCount
  /\ start_page = 0 /\ current_page = 0 /\ jstate = "none" /\ find_job = FALSE
  /\ sjob = FALSE /\ sidle = FALSE /\ scurrent = 0 /\ sjob_page = -1
  /\ first_match = -1 /\ insert_position = 0 /\ rows = << >> /\ highlighted = 0
  /\ vpage \in Page /\ find_result = 0 /\ find_pages = FALSE /\ jump = TRUE
  /\ searches = 0 /\ touched = FALSE

FindUser ==
  \/ \E n \in Founds : SearchStart(n)
  \/ SearchCleared \/ FindNext \/ FindPrevious
  \/ \E i \in DOMAIN rows : RowActivated(i)
  \/ \E p \in Page, scrolling \in BOOLEAN : ChangePage(p, scrolling)
FindStep == FindUser \/ FindRun \/ ProcessMatches

\* The main loop dispatches its idle sources; the lock is free again and again
\* (DocumentLocks!MainJobsEnd).
FindFairness == WF_findVars(FindRun) /\ WF_findVars(ProcessMatches)
FindSpec == FindInit /\ [][FindStep]_findVars /\ FindFairness

-----------------------------------------------------------------------------
(* Properties.                                                             *)

FindTypeOK ==
  /\ found \in Count /\ pages \in Count
  /\ start_page \in Page /\ current_page \in Page
  /\ jstate \in {"none", "running", "finished", "cancelled"} /\ find_job \in BOOLEAN
  /\ sjob \in BOOLEAN /\ sidle \in BOOLEAN
  /\ scurrent \in Page /\ sjob_page \in Page \union {-1}
  /\ first_match \in Page \union {-1} /\ insert_position \in 0 .. NPages * MaxResults
  /\ rows \in Seq(Page \X (0 .. MaxResults - 1))
  /\ highlighted \in 0 .. NPages * MaxResults
  /\ vpage \in Page /\ find_result \in 0 .. MaxResults
  /\ find_pages \in BOOLEAN /\ jump \in BOOLEAN
  /\ searches \in 0 .. MaxSearches /\ touched \in BOOLEAN

Before(a, b) == a[1] < b[1] \/ (a[1] = b[1] /\ a[2] < b[2])
AllRows == Rows([i \in 1 .. NPages |-> i - 1])

\* The sidebar's list is in the order of the document and shows no result
\* twice, wherever the search started and however the idle sources of the job
\* and of the sidebar took turns; while there is a search, the highlighted row
\* is a row of the list.
RowsInDocumentOrder ==
  /\ \A i, k \in DOMAIN rows : i < k => Before(rows[i], rows[k])
  /\ find_job => highlighted <= Len(rows)

\* "Add a find sidebar to show search results" (NEWS): once the search has
\* finished and the sidebar's idle source has gone, every result is listed.
SidebarListsAllResults ==
  find_job /\ jstate = "finished" /\ ~sidle => rows = AllRows

\* A search that the user does not interfere with brings the view to the first
\* page with a result, from the page where it started on: the results that
\* come in later do not move it away from there.
ViewAtFirstMatch ==
  find_job /\ jstate = "finished" /\ HasResults /\ ~touched =>
    \A p \in Page : pages[p] > 0 =>
      (vpage - start_page) % NPages <= (p - start_page) % NPages

\* All three: the sidebar shows the results in their order, nothing missing at the
\* end of a document below the refresh rate, and the view shows the first of them.
SearchShowsResults == RowsInDocumentOrder /\ SidebarListsAllResults /\ ViewAtFirstMatch

\* A search ends, and the sidebar then lets go of the job.
SearchSettles == sjob ~> ~sjob
=============================================================================
