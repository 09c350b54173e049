------------------------------ MODULE EvSidebars ------------------------------
(***************************************************************************)
(* The lists of the sidebar: the outline (shell/ev-sidebar-links.c), the   *)
(* annotations, the attachments, the layers, the bookmarks with their      *)
(* store (shell/ev-bookmarks.c), and the frame that shows one of them      *)
(* (shell/ev-sidebar.c).                                                   *)
(*                                                                         *)
(* The first four fill their list with a job of the document.  The jobs    *)
(* all have the lowest priority, so that the worker takes them in their    *)
(* order, and their signals come in that order too.  The document changes  *)
(* when the file is reloaded; a version of it may lack an outline,         *)
(* attachments and layers ("bare").                                        *)
(***************************************************************************)
EXTENDS Integers, Sequences, SequencesExt, FiniteSets

CONSTANTS
  SideVersions, \* bound: versions of the document
  SidePages,    \* pages of a document
  SideTargets,  \* the pages that the outline has an entry for
  SideTitles,   \* titles of bookmarks
  SideCalls     \* bound: calls of the user

ASSUME SideAssumption ==
  /\ SideVersions \in Nat \ {0} /\ SidePages \in Nat \ {0} /\ SideCalls \in Nat
  /\ SideTargets \subseteq 0 .. (SidePages - 1)

VARIABLES
  sideView,  \* the document model (document, page), the versions' contents, calls made
  sideFrame, \* EvSidebar: current page, visible, menu items that are sensitive
  sideLists, \* the lists: the document held, the rows, the job
  sideJobs,  \* the jobs, in the order of the queue
  sideMarks  \* EvBookmarks, the list of bookmarks and its selection

sideVars == <<sideView, sideFrame, sideLists, sideJobs, sideMarks>>

Lists == {"links", "annots", "files", "layers"}
SidebarPages == Lists \cup {"thumbnails", "bookmarks"}
SidePage == 0 .. (SidePages - 1)
SideVersion == 1 .. SideVersions
Layers == {"a", "b", "c"}
RadioButtons == {"a", "b"}   \* a group: at most one of them is seen

\* ev_sidebar_page_support_document, of each page of the sidebar
Supports(version, page) ==
  sideView.full[version] \/ page \in {"annots", "thumbnails", "bookmarks"}

\* What the job of a list reads from a document.
Contents(version, list) ==
  IF ~Supports(version, list) THEN <<>>
  ELSE <<[of |-> version, what |-> CASE list = "annots" -> 1 .. sideView.annots[version]
                                     [] list = "layers" -> sideView.seen[version]
                                     [] OTHER -> SideTargets]>>

\* The jobs that a list waits for.
Awaited(list) == {i \in DOMAIN sideJobs : sideJobs[i].list = list /\ sideJobs[i].heard}

\* gtk_widget_get_mapped for the outline
OutlineMapped == sideFrame.visible /\ sideFrame.page = "links"

-----------------------------------------------------------------------------
(* The four lists.                                                         *)

\* The list holds on to a document that has nothing for it: the handler returns.
Reads(list) == list \in {"annots", "layers"} \/ Supports(sideView'.doc, list)

\* A new job takes the place of the one before, which runs, but is not heard; the
\* list of attachments does not know its job.
PushFor(jobs, list, version) ==
  Append([i \in DOMAIN jobs |->
            IF list # "files" /\ jobs[i].list = list THEN [jobs[i] EXCEPT !.heard = FALSE]
            ELSE jobs[i]],
         [list |-> list, of |-> version, heard |-> TRUE, ran |-> FALSE, rows |-> <<>>])

\* ..._document_changed_cb: all but the annotations take their rows away.
TakeDocument(list, version) ==
  [sideLists[list] EXCEPT !.of = version,
     !.rows = IF list = "annots" THEN @ ELSE <<>>, !.missed = FALSE]

\* ev_sidebar_links_set_current_page: the first entry for the page, unless the
\* selected one is for it.
OutlineFollows(lists, page) ==
  IF OutlineMapped /\ lists["links"].rows # <<>> /\ page \in SideTargets
    THEN [lists EXCEPT !["links"].row = page] ELSE lists

\* The job runs: its result is what the document has now.
SideJobRuns ==
  \E i \in DOMAIN sideJobs :
    /\ ~sideJobs[i].ran /\ \A j \in 1 .. (i - 1) : sideJobs[j].ran
    /\ sideJobs' = [sideJobs EXCEPT ![i].ran = TRUE,
                                    ![i].rows = Contents(sideJobs[i].of, sideJobs[i].list)]
    /\ UNCHANGED <<sideView, sideFrame, sideLists, sideMarks>>

\* job_finished_callback of the four: the attachments are added to those there.
SideJobFinished ==
  /\ sideJobs # <<>> /\ Head(sideJobs).ran
  /\ sideJobs' = Tail(sideJobs)
  /\ LET job == Head(sideJobs)
         rows == IF job.list = "files" THEN sideLists["files"].rows \o job.rows ELSE job.rows
         set == [sideLists EXCEPT ![job.list].rows = rows,
                                  ![job.list].row = IF job.list = "files" THEN @ ELSE -1]
     IN sideLists' = IF ~job.heard THEN sideLists
                     ELSE IF job.list = "links" THEN OutlineFollows(set, sideView.page)
                     ELSE set
  /\ UNCHANGED <<sideView, sideFrame, sideMarks>>

-----------------------------------------------------------------------------
(* The user, the view and the window.                                      *)

MayUseSidebar == sideView.calls < SideCalls
UsedSidebar == [sideView EXCEPT !.calls = @ + 1]

\* ev_document_model_set_document: every list hears of it, and the frame.
ReloadForSidebar ==
  /\ MayUseSidebar /\ sideView.doc < SideVersions
  /\ sideView' = [UsedSidebar EXCEPT !.doc = @ + 1]
  /\ sideLists' = [s \in Lists |->
                     IF Reads(s) THEN TakeDocument(s, sideView'.doc) ELSE sideLists[s]]
  /\ LET Pushed(jobs, s) == IF Reads(s) THEN PushFor(jobs, s, sideView'.doc) ELSE jobs
     IN sideJobs' = Pushed(Pushed(Pushed(Pushed(sideJobs, "links"), "files"), "layers"), "annots")
  /\ sideFrame' = [sideFrame EXCEPT !.sensitive = {s \in @ : Supports(sideView'.doc, s)}]
  /\ UNCHANGED sideMarks

\* A page turned in the view, by a link or a bookmark of the menu
\* (ev_window_cmd_bookmark_activate): update_page_callback.
TurnTo(page) ==
  /\ MayUseSidebar /\ page # sideView.page
  /\ sideView' = [UsedSidebar EXCEPT !.page = page]
  /\ sideLists' = OutlineFollows(sideLists, page)
  /\ UNCHANGED <<sideFrame, sideJobs, sideMarks>>

\* ev_sidebar_menu_item_activate_cb; ev_sidebar_links_map
ChooseSidebarPage(page) ==
  /\ MayUseSidebar /\ page \in sideFrame.sensitive /\ page # sideFrame.page
  /\ sideFrame.visible
  /\ sideFrame' = [sideFrame EXCEPT !.page = page]
  /\ sideLists' = IF page = "links" /\ sideLists["links"].rows # <<>> /\ sideView.page \in SideTargets
                    THEN [sideLists EXCEPT !["links"].row = sideView.page] ELSE sideLists
  /\ sideView' = UsedSidebar
  /\ UNCHANGED <<sideJobs, sideMarks>>

\* ev_sidebar_close_clicked_cb, ev_window_view_sidebar_cb
ShowSidebar ==
  /\ MayUseSidebar
  /\ sideFrame' = [sideFrame EXCEPT !.visible = ~@]
  /\ sideLists' = IF ~sideFrame.visible /\ sideFrame.page = "links"
                       /\ sideLists["links"].rows # <<>> /\ sideView.page \in SideTargets
                    THEN [sideLists EXCEPT !["links"].row = sideView.page] ELSE sideLists
  /\ sideView' = UsedSidebar
  /\ UNCHANGED <<sideJobs, sideMarks>>

\* selection_changed_callback of the outline: the view follows the link, and the
\* handlers of the page that are not blocked find their entry selected.
ChooseEntry(page) ==
  /\ MayUseSidebar /\ OutlineMapped /\ sideLists["links"].rows # <<>> /\ page \in SideTargets
  /\ sideLists' = [sideLists EXCEPT !["links"].row = page]
  /\ sideView' = [UsedSidebar EXCEPT !.page = page]
  /\ UNCHANGED <<sideFrame, sideJobs, sideMarks>>

\* ev_sidebar_annotations_text_annot_button_toggled, ev_view_begin_add_annotation,
\* ev_view_cancel_add_annotation
ToggleAdding ==
  /\ MayUseSidebar /\ sideView.doc # 0
  /\ sideView' = [UsedSidebar EXCEPT !.adding = ~@]
  /\ UNCHANGED <<sideFrame, sideLists, sideJobs, sideMarks>>

\* ev_view_create_annotation, ev_sidebar_annotations_annot_added
AnnotAdded ==
  /\ MayUseSidebar /\ sideView.adding
  /\ sideView' = [UsedSidebar EXCEPT !.adding = FALSE, !.annots[sideView.doc] = @ + 1]
  /\ sideJobs' = PushFor(sideJobs, "annots", sideLists["annots"].of)
  /\ UNCHANGED <<sideFrame, sideLists, sideMarks>>

-----------------------------------------------------------------------------
(* Layers.                                                                 *)

\* The document's layers, with one shown: the others of its group are hidden.
WithLayer(seen, layer) ==
  (IF layer \in RadioButtons THEN seen \ RadioButtons ELSE seen) \cup {layer}

\* A tree that a job has read before the change is shown after it.
MissesChange(version) ==
  \E i \in Awaited("layers") : sideJobs[i].ran /\ sideJobs[i].of = version

\* The rows after the click: clear_rb_group and the row itself
ToggleRow(rows, layer) ==
  [rows EXCEPT ![1].what = IF layer \in @ THEN @ \ {layer} ELSE WithLayer(@, layer)]

\* ev_sidebar_layers_visibility_changed: what the row says decides.
ToggleLayer(layer) ==
  LET list == sideLists["layers"]
      ticked == layer \in list.rows[1].what
  IN /\ MayUseSidebar /\ list.rows # <<>>
     /\ sideView' = [UsedSidebar EXCEPT !.seen[list.of] =
                       IF ticked THEN @ \ {layer} ELSE WithLayer(@, layer)]
     /\ sideLists' = [sideLists EXCEPT !["layers"].rows = ToggleRow(@, layer)]
     /\ UNCHANGED <<sideFrame, sideJobs, sideMarks>>

\* update_layers_state, for every row
LayersUpdated(list, seen, missed) ==
  [list EXCEPT !.missed = missed,
               !.rows = IF @ = <<>> THEN @ ELSE <<[of |-> list.of, what |-> seen]>>]

\* A link of the document shows, hides or toggles layers ("layers-changed").
LinkSetsLayers(layer) ==
  LET doc == sideView.doc
      seen == IF layer \in sideView.seen[doc] THEN sideView.seen[doc] \ {layer}
              ELSE WithLayer(sideView.seen[doc], layer)
  IN /\ MayUseSidebar /\ doc # 0 /\ sideView.full[doc]
     /\ sideView' = [UsedSidebar EXCEPT !.seen[doc] = seen]
     /\ sideLists' = [sideLists EXCEPT !["layers"] = LayersUpdated(@, seen, MissesChange(doc))]
     /\ UNCHANGED <<sideFrame, sideJobs, sideMarks>>

-----------------------------------------------------------------------------
(* Bookmarks.  ev_bookmarks_save runs at the end of every change, after    *)
(* "changed" has refilled the list, which takes the selection away.        *)

PageSorted(items) == SortSeq(items, LAMBDA a, b : a.page < b.page)
MarksAre(items) == [items |-> items, saved |-> items, listed |-> PageSorted(items), selected |-> -1]
MarkedPages == {sideMarks.items[i].page : i \in DOMAIN sideMarks.items}

\* ev_window_cmd_bookmarks_add, ev_bookmarks_add: one bookmark to a page
AddBookmark ==
  /\ MayUseSidebar /\ sideView.doc # 0 /\ sideView.page \notin MarkedPages
  /\ sideMarks' = MarksAre(Append(sideMarks.items, [page |-> sideView.page, title |-> "Page"]))
  /\ sideView' = UsedSidebar
  /\ UNCHANGED <<sideFrame, sideLists, sideJobs>>

\* ev_sidebar_bookmarks_selection_changed
SelectBookmark(page) ==
  /\ MayUseSidebar /\ page \in {sideMarks.listed[i].page : i \in DOMAIN sideMarks.listed}
  /\ sideMarks' = [sideMarks EXCEPT !.selected = page]
  /\ sideView' = [UsedSidebar EXCEPT !.page = page]
  /\ sideLists' = OutlineFollows(sideLists, page)
  /\ UNCHANGED <<sideFrame, sideJobs>>

\* ev_sidebar_bookmarks_del_clicked, ev_bookmarks_delete: the first that is found
DeleteBookmark ==
  /\ MayUseSidebar
  /\ \E i \in DOMAIN sideMarks.items :
       /\ sideMarks.items[i].page = sideMarks.selected
       /\ \A k \in 1 .. (i - 1) : sideMarks.items[k].page # sideMarks.selected
       /\ sideMarks' = MarksAre(RemoveAt(sideMarks.items, i))
  /\ sideView' = UsedSidebar
  /\ UNCHANGED <<sideFrame, sideLists, sideJobs>>

\* ev_sidebar_bookmarks_bookmark_renamed, ev_bookmarks_update
RenameBookmark(page, title) ==
  /\ MayUseSidebar
  /\ \E i \in DOMAIN sideMarks.items :
       /\ sideMarks.items[i].page = page /\ sideMarks.items[i].title # title
       /\ sideMarks' = MarksAre([sideMarks.items EXCEPT ![i].title = title])
  /\ sideView' = UsedSidebar
  /\ UNCHANGED <<sideFrame, sideLists, sideJobs>>

\* A window before its document: the constructors of the sidebar and its pages
NewView(full, calls) ==
  [doc |-> 0, page |-> 0, full |-> full, annots |-> [v \in SideVersion |-> 0],
   seen |-> [v \in SideVersion |-> {"a", "c"}], adding |-> FALSE, calls |-> calls]
NewFrame == [page |-> "thumbnails", visible |-> TRUE, sensitive |-> SidebarPages]
NewLists == [s \in Lists |-> [of |-> 0, rows |-> <<>>, row |-> -1, missed |-> FALSE]]

\* The window is closed and another one opens the file: ev_bookmarks_constructed
\* reads what was saved; what was changed in the document is gone.
ReopenWindow ==
  /\ MayUseSidebar
  /\ sideView' = NewView(sideView.full, sideView.calls + 1)
  /\ sideFrame' = NewFrame /\ sideLists' = NewLists /\ sideJobs' = <<>>
  /\ sideMarks' = MarksAre(sideMarks.saved)

-----------------------------------------------------------------------------
SideInit ==
  /\ \E full \in [SideVersion -> BOOLEAN] : sideView = NewView(full, 0)
  /\ sideFrame = NewFrame /\ sideLists = NewLists /\ sideJobs = <<>>
  /\ sideMarks = MarksAre(<<>>)

SideNext ==
  \/ SideJobRuns \/ SideJobFinished
  \/ ReloadForSidebar \/ ShowSidebar \/ ToggleAdding \/ AnnotAdded
  \/ AddBookmark \/ DeleteBookmark \/ ReopenWindow
  \/ \E p \in SidePage : TurnTo(p) \/ ChooseEntry(p) \/ SelectBookmark(p)
                         \/ \E t \in SideTitles : RenameBookmark(p, t)
  \/ \E s \in SidebarPages : ChooseSidebarPage(s)
  \/ \E l \in Layers : ToggleLayer(l) \/ LinkSetsLayers(l)

-----------------------------------------------------------------------------
SideTypeOK ==
  /\ sideView.doc \in 0 .. SideVersions /\ sideView.page \in SidePage
  /\ sideFrame.page \in SidebarPages /\ sideFrame.sensitive \subseteq SidebarPages
  /\ \A s \in Lists : sideLists[s].of \in 0 .. sideView.doc /\ sideLists[s].row \in {-1} \cup SidePage
  /\ \A i \in DOMAIN sideJobs : sideJobs[i].list \in Lists
  /\ sideMarks.selected \in {-1} \cup MarkedPages

\* A list that waits for no job shows what its document has, which is the document
\* of the window if that has anything to list; but for the attachments, whose list
\* may begin with those of documents that are gone.  However many reloads and
\* changes come between a job and its end.
ListsShowDocument ==
  sideView.doc # 0 =>
    \A s \in Lists :
      LET list == sideLists[s]
          shown == IF s = "files" /\ list.rows # <<>> THEN <<Last(list.rows)>> ELSE list.rows
      IN /\ Supports(sideView.doc, s) => list.of = sideView.doc
         /\ Awaited(s) = {} /\ ~list.missed /\ list.of # 0 => shown = Contents(list.of, s)

\* The entry of the outline that is selected is for the page shown, if there is one.
OutlineShowsPage ==
  OutlineMapped /\ sideLists["links"].rows # <<>> /\ sideView.page \in SideTargets
    => sideLists["links"].row = sideView.page

\* The bookmarks in the list are those of the store, each page once and in their
\* order, and the file has them.
BookmarksKept ==
  /\ sideMarks.saved = sideMarks.items
  /\ sideMarks.listed = PageSorted(sideMarks.items)
  /\ Cardinality(MarkedPages) = Len(sideMarks.items)
===============================================================================
