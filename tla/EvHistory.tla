------------------------------ MODULE EvHistory ------------------------------
(***************************************************************************)
(* The history of a window, shell/ev-history.c, with its toolbar widget    *)
(* (shell/ev-history-action-widget.c), the find bar that freezes it, the   *)
(* document model whose page it follows and the view that follows links    *)
(* (ev_view_handle_link).                                                  *)
(*                                                                         *)
(* Everything runs in the main thread, but each call emits signals whose   *)
(* handlers come back to the history: activating an entry follows its      *)
(* link, which adds it to the history and changes the page, which adds the *)
(* page to the history.  A call with all the handlers it reaches is one    *)
(* step, composed of the operators on h, the history.                      *)
(***************************************************************************)
EXTENDS Integers, Sequences

CONSTANTS
  NPages,      \* bound: pages of a document
  MaxLength,   \* EV_HISTORY_MAX_LENGTH
  MaxDocs      \* bound: documents loaded or reloaded

ASSUME HistoryAssumption ==
  NPages \in Nat \ {0} /\ MaxLength \in Nat \ {0} /\ MaxDocs \in Nat

VARIABLES
  history,    \* list, current (0 is NULL) and frozen of EvHistory, and the
              \* sensitivity of the two buttons, back and forward
  model,      \* document (0 is NULL), n_pages and page of EvDocumentModel
  find_bar,   \* it is visible
  action,     \* the sensitivity of the action "History"
  menu,       \* the links that an open menu of the widget offers
  crashed     \* NULL was dereferenced

vars == <<history, model, find_bar, action, menu, crashed>>

\* A link of a document, or one that the history makes for a page.  The page
\* -1 stands for a destination that does not resolve.
Link == [kind : {"link", "page"}, page : -1 .. (NPages - 1), doc : 1 .. MaxDocs]
PageLink(p, d) == [kind |-> "page", page |-> p, doc |-> d]

-----------------------------------------------------------------------------
(* EvHistory.                                                              *)

CanGoBack(h)    == h.frozen = 0 /\ h.current > 1
CanGoForward(h) == h.frozen = 0 /\ h.current # 0 /\ h.current < Len(h.list)

\* The signal "changed" and its handler history_changed_cb
Changed(h) == [h EXCEPT !.back = CanGoBack(h), !.forward = CanGoForward(h)]

\* Mutant: nothing is thrown away.
PruneNothing(list) == list

\* ev_history_prune
Prune(list) ==
  IF Len(list) <= MaxLength THEN list
  ELSE SubSeq(list, Len(list) - MaxLength + 1, Len(list))

\* Mutants: the forward history stays; the buttons are
\* not told.
AddLinkAtEnd(h, link) ==
  IF h.frozen > 0 THEN h
  ELSE LET list == Prune(Append(h.list, link))
       IN Changed([h EXCEPT !.list = list, !.current = Len(list)])
AddLinkQuietly(h, link) ==
  IF h.frozen > 0 THEN h
  ELSE LET list == Prune(Append(SubSeq(h.list, 1, h.current), link))
       IN [h EXCEPT !.list = list, !.current = Len(list)]

\* ev_history_add_link: the forward history is truncated.
AddLink(h, link) ==
  IF h.frozen > 0 THEN h
  ELSE LET list == Prune(Append(SubSeq(h.list, 1, h.current), link))
       IN Changed([h EXCEPT !.list = list, !.current = Len(list)])

\* ev_history_get_current_page
CurrentPage(h) == IF h.current = 0 THEN -1 ELSE h.list[h.current].page

\* ev_history_add_link_for_page
AddLinkForPage(h, m) ==
  IF h.frozen > 0 \/ CurrentPage(h) = m.page \/ m.document = 0 THEN h
  ELSE AddLink(h, PageLink(m.page, m.document))

\* page_changed_cb
PageChanged(h, old, m) ==
  IF m.page - old \in -1 .. 1 THEN h ELSE AddLinkForPage(h, m)

\* Mutant: a frozen history is not cleared.
ClearUnlessFrozen(h) ==
  IF h.frozen > 0 THEN h ELSE [h EXCEPT !.list = << >>, !.current = 0]

\* ev_history_clear: no signal.
Clear(h) == [h EXCEPT !.list = << >>, !.current = 0]

\* document_changed_cb
DocumentChanged(h, m) == AddLinkForPage(Clear(h), m)

Freeze(h) == [h EXCEPT !.frozen = @ + 1]
Thaw(h)   == [h EXCEPT !.frozen = @ - 1]

-----------------------------------------------------------------------------
(* The window: the model, the view and the actions.                        *)

\* ev_window_update_actions_sensitivity, as far as "History" goes
Sensitive(h) == h.frozen = 0

\* ev_document_model_set_page, which ignores a page outside the document
SetPage(m, page) ==
  IF page \in 0 .. (m.n_pages - 1) THEN [m EXCEPT !.page = page] ELSE m

\* The handlers of "page-changed" when the model goes from m to n, the
\* history's own when it is not blocked.
PageHandlers(h, m, n, blocked) ==
  IF blocked \/ n.page = m.page THEN h ELSE PageChanged(h, m.page, n)

\* ev_view_handle_link: "handle-link", for which the window adds the link to
\* the history, then the page of its destination.
FollowLink(h, link, blocked) ==
  PageHandlers(AddLink(h, link), model, SetPage(model, link.page), blocked)

\* The window's handler of "page-changed" comes after the history's: it finds
\* the history frozen during an activation.
FollowPage(page, h) ==
  /\ model' = SetPage(model, page)
  /\ action' = IF model' = model THEN action ELSE Sensitive(h)

\* ev_history_activate_current_link
ActivateCurrentLink(h) ==
  Changed(Thaw(FollowLink(Freeze(h), h.list[h.current], TRUE)))

\* The entry i becomes current and is activated.
Activate(i) ==
  /\ history' = ActivateCurrentLink([history EXCEPT !.current = i])
  /\ FollowPage(history.list[i].page, Freeze(history))
  /\ UNCHANGED <<find_bar, crashed>>

-----------------------------------------------------------------------------
(* The user, while no menu has grabbed the input.                          *)

Ready == ~crashed /\ menu = {}

\* A link of the view or of the sidebar is clicked.
ClickLink(page) ==
  LET link == [kind |-> "link", page |-> page, doc |-> model.document] IN
  /\ Ready /\ model.document # 0 /\ page < model.n_pages
  /\ history' = FollowLink(history, link, FALSE)
  /\ FollowPage(page, history)
  /\ UNCHANGED <<find_bar, menu, crashed>>

\* The page selector, scrolling, a find result; autoscroll goes on under a menu.
TurnTo(page) ==
  /\ ~crashed /\ model.document # 0 /\ page \in 0 .. (model.n_pages - 1)
  /\ page # model.page
  /\ history' = PageHandlers(history, model, SetPage(model, page), FALSE)
  /\ FollowPage(page, history)
  /\ UNCHANGED <<find_bar, menu, crashed>>

\* ev_history_go_back and ev_history_go_forward: a click on a button that is
\* sensitive, in a toolbar item that is.
GoBack ==
  /\ Ready /\ action /\ history.back
  /\ CanGoBack(history)
  /\ Activate(history.current - 1)
  /\ UNCHANGED menu

GoForward ==
  /\ Ready /\ action /\ history.forward
  /\ CanGoForward(history)
  /\ Activate(history.current + 1)
  /\ UNCHANGED menu

\* The secondary button: ev_history_action_widget_show_popup with the links of
\* ev_history_get_back_list or of ev_history_get_forward_list, which reads
\* current->next whether or not there is a current entry.
ShowBackMenu ==
  /\ Ready /\ action /\ history.back
  /\ menu' = {history.list[i] : i \in 1 .. (history.current - 1)}
  /\ UNCHANGED <<history, model, find_bar, action, crashed>>

ShowForwardMenu ==
  /\ Ready /\ action /\ history.forward
  /\ IF history.current = 0
     THEN crashed' = TRUE /\ UNCHANGED menu
     ELSE /\ menu' = {history.list[i] : i \in (history.current + 1) .. Len(history.list)}
          /\ UNCHANGED crashed
  /\ UNCHANGED <<history, model, find_bar, action>>

HideMenu ==
  /\ menu # {}
  /\ menu' = {}
  /\ UNCHANGED <<history, model, find_bar, action, crashed>>

\* compare_link: the document they come from does not count
SameAction(a, b) == a.kind = b.kind /\ a.page = b.page
EntriesLike(link) == {i \in 1 .. Len(history.list) : SameAction(history.list[i], link)}
Oldest(S) == CHOOSE i \in S : \A k \in S : i <= k

\* Mutant: the match is the number of the entry counted from 0.
GoToLinkBefore(link) ==
  /\ link \in menu
  /\ menu' = {}
  /\ IF history.frozen = 0 /\ EntriesLike(link) # {}
     THEN /\ history' = Changed([history EXCEPT !.current = Oldest(EntriesLike(link))])
          /\ FollowPage(history.list[history.current].page, Freeze(history))
          /\ UNCHANGED <<find_bar, crashed>>
     ELSE UNCHANGED <<history, model, find_bar, action, crashed>>

\* ev_history_go_to_link for an item of the menu: the first equal link of the
\* list, or nothing when the history has been cleared under the menu.
GoToLink(link) ==
  /\ link \in menu
  /\ menu' = {}
  /\ IF history.frozen = 0 /\ EntriesLike(link) # {}
     THEN Activate(Oldest(EntriesLike(link)))
     ELSE UNCHANGED <<history, model, find_bar, action, crashed>>

\* ev_window_show_find_bar: the actions are updated when the bar is shown.
ShowFindBar ==
  /\ Ready /\ ~find_bar /\ model.document # 0
  /\ history' = Freeze(history)
  /\ find_bar' = TRUE
  /\ action' = Sensitive(history')
  /\ UNCHANGED <<model, menu, crashed>>

\* ev_window_close_find_bar: they are updated when it is hidden, before the
\* thaw.
CloseFindBar ==
  /\ Ready /\ find_bar
  /\ find_bar' = FALSE
  /\ action' = Sensitive(history)
  /\ history' = Thaw(history)
  /\ UNCHANGED <<model, menu, crashed>>

\* ev_document_model_set_document with a document of n pages: set_page for the
\* page that is left, then "notify::document".
SetDocument(n) ==
  LET m == [document |-> model.document + 1, n_pages |-> n,
            page |-> IF model.page = -1 THEN 0
                     ELSE IF model.page < n THEN model.page ELSE n - 1]
  IN
  /\ ~crashed /\ model.document < MaxDocs
  /\ model' = m
  /\ history' = DocumentChanged(PageHandlers(history, model, m, FALSE), m)
  /\ action' = IF m.page = model.page THEN action ELSE Sensitive(history)
  /\ UNCHANGED <<find_bar, menu, crashed>>

\* ev_window_update_actions_sensitivity after a zoom, in another page mode, and
\* in the idle that sets a document up
UpdateActions ==
  /\ ~crashed
  /\ action' = Sensitive(history)
  /\ UNCHANGED <<history, model, find_bar, menu, crashed>>

-----------------------------------------------------------------------------
Init ==
  /\ history = [list |-> << >>, current |-> 0, frozen |-> 0,
                back |-> FALSE, forward |-> FALSE]
  /\ model = [document |-> 0, n_pages |-> 0, page |-> -1]
  /\ find_bar = FALSE /\ action = TRUE /\ menu = {} /\ crashed = FALSE

Next ==
  \/ \E page \in -1 .. (NPages - 1) : ClickLink(page)
  \/ \E page \in 0 .. (NPages - 1) : TurnTo(page)
  \/ GoBack \/ GoForward \/ ShowBackMenu \/ ShowForwardMenu \/ HideMenu
  \/ \E link \in Link : GoToLink(link)
  \/ ShowFindBar \/ CloseFindBar
  \/ \E n \in 1 .. NPages : SetDocument(n)
  \/ UpdateActions

\* What the user does next is not promised: no fairness.
Spec == Init /\ [][Next]_vars

-----------------------------------------------------------------------------
(* Properties.                                                             *)

TypeOK ==
  /\ history \in [list : Seq(Link), current : 0 .. MaxLength, frozen : {0, 1},
                  back : BOOLEAN, forward : BOOLEAN]
  /\ model \in [document : 0 .. MaxDocs, n_pages : 0 .. NPages, page : -1 .. (NPages - 1)]
  /\ find_bar \in BOOLEAN /\ action \in BOOLEAN /\ crashed \in BOOLEAN
  /\ menu \subseteq Link

\* The assertions of ev_history_prune and of ev_history_activate_current_link,
\* whatever was truncated, thrown away or cleared before: the list never grows
\* beyond its limit, and current is one of its entries unless it is empty.
CurrentIsAnEntry ==
  /\ Len(history.list) <= MaxLength
  /\ history.current \in (IF history.list = << >> THEN {0} ELSE 1 .. Len(history.list))

\* No entry outlives the document it was made for: a reload while the find
\* bar has frozen the history, or under an open menu, leaves no old link
\* that could be gone back to.
EntriesOfThisDocument ==
  \A i \in 1 .. Len(history.list) : history.list[i].doc = model.document

\* Both: the history can always be gone through, and never to an old document.
HistoryIsSound == CurrentIsAnEntry /\ EntriesOfThisDocument

\* "Do not update the history while searching" (NEWS:215): what is open in the
\* find bar adds no entry; only a new document empties the list.
SearchingAddsNothing ==
  [][find_bar /\ find_bar' /\ history'.list # history.list =>
       history'.list = << >> /\ model'.document # model.document]_vars

\* When the current entry changes and the list does not, the view is at the
\* page of the entry, if its destination resolves.
ShowsTheEntry ==
  [][/\ history'.current # history.current
     /\ history'.list = history.list
     => history.list[history'.current].page \in {-1, model'.page}]_vars

\* The list is emptied by nothing but another document while the find bar is
\* open: the history is frozen then, and the page shown is not added.
EmptiedOnlyWhileSearching ==
  [][history.list # << >> /\ history'.list = << >> =>
       find_bar /\ model'.document # model.document]_vars

\* All three: a step through the history shows what it should, searching adds
\* nothing, and nothing else takes the last entry away.
StepsAreTheUsers == SearchingAddsNothing /\ ShowsTheEntry /\ EmptiedOnlyWhileSearching

\* As long as there is an entry, frozen or not, a button is sensitive exactly
\* when there is an entry in its direction.  An empty list says nothing: it is
\* cleared without a signal, and the buttons stay as they were.
ButtonsTellTheTruth ==
  history.list # << >> =>
    /\ history.back = (history.current > 1)
    /\ history.forward = (history.current < Len(history.list))

\* "Disable history action while history is frozen" (NEWS:68): the action is
\* insensitive while the find bar is open, and sensitive again when it is not.
ActionFollowsFreeze == action = (history.frozen = 0)

\* What the user is promised, see BrowserHistory: visiting forgets only what
\* had been gone back from and the oldest entry, going back and forth nothing.
Browser ==
  INSTANCE BrowserHistory WITH
    Place  <- Link,
    past   <- SubSeq(history.list, 1, history.current - 1),
    here   <- SubSeq(history.list, history.current,
                     IF history.current = 0 THEN -1 ELSE history.current),
    future <- SubSeq(history.list, history.current + 1, Len(history.list))
BrowsesLikeTheWeb == Browser!Spec
=============================================================================
