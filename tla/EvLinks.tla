-------------------------------- MODULE EvLinks --------------------------------
(***************************************************************************)
(* Links: what the back ends make of them (backend/pdf/ev-poppler.cc,      *)
(* backend/djvu/djvu-links.c), the objects (libdocument/ev-link.c,         *)
(* ev-link-action.c, ev-link-dest.c, ev-document-links.c), the view that   *)
(* follows them (libview/ev-view.c), the windows and processes that they   *)
(* open (shell/ev-window.c, ev-application.c, main.c).                     *)
(*                                                                         *)
(* Where on the page a destination leads is the matter of EvViewScroll,    *)
(* what the history does with an entry that of EvHistory, and how the      *)
(* daemon finds the owner of a document that of EvDaemon: here it answers  *)
(* in one step.  A process has one file, and files do not change.          *)
(*                                                                         *)
(* A label is a number: 1 to 9 are these numerals, 11 to 19 are "i" to     *)
(* "ix", 21 to 29 "I" to "IX", 31 to 39 "+1" to "+9", 41 to 49 "-1" to     *)
(* "-9"; 0 is none.                                                        *)
(***************************************************************************)
EXTENDS Integers, Sequences, SequencesExt, FiniteSets, FiniteSetsExt

CONSTANTS
  LinkFiles,      \* the files: kind, count and labels of pages, names, outline, links
  CommandLines,   \* what the user starts evince with: files, option, label after "#"
  LinkCalls,      \* bound: events of the user
  LinkPosts       \* bound: messages under way while the user acts

Files == DOMAIN LinkFiles
NoOtherFile == 0
Garbage == 99     \* what page_labels[page] is for a page outside the document
Unclaimed == -2   \* nothing is said about the page

ASSUME LinkAssumption ==
  /\ LinkCalls \in Nat /\ LinkPosts \in Nat
  /\ \A f \in Files : /\ LinkFiles[f].kind \in {"pdf", "djvu"} /\ LinkFiles[f].count \in Nat \ {0}
                      /\ LinkFiles[f].labels = <<>> \/ Len(LinkFiles[f].labels) = LinkFiles[f].count

VARIABLES
  procs,     \* the processes: application->uri and doc_registered
  owners,    \* which process the daemon has for each file
  wins,      \* the windows, with what the user was told of where they go
  post,      \* processes to be started and messages under way
  lastPage,  \* the page in the metadata of each file, -1 if none
  linkCalls

linkVars == <<procs, owners, wins, post, lastPage, linkCalls>>

-----------------------------------------------------------------------------
(* The document.                                                           *)

Fold(label) == IF label \in 21 .. 29 THEN label - 10 ELSE label
\* strtol
NumberOf(label) == IF label \in 1 .. 9 THEN label
                   ELSE IF label \in 31 .. 39 THEN label - 30
                   ELSE IF label \in 41 .. 49 THEN 40 - label ELSE 0

\* ev_document_find_page_by_label: the label, the label in another case, the number
FindPageByLabel(f, label) ==
  LET file == LinkFiles[f]
      same == {i \in DOMAIN file.labels : file.labels[i] = label}
      alike == {i \in DOMAIN file.labels : file.labels[i] # 0 /\ Fold(file.labels[i]) = Fold(label)}
  IN  IF same # {} THEN Min(same) - 1
      ELSE IF alike # {} THEN Min(alike) - 1
      ELSE IF NumberOf(label) \in 1 .. file.count THEN NumberOf(label) - 1 ELSE -1

\* ev_document_get_page_label, without a label the number of the page
PageLabel(f, page) ==
  IF LinkFiles[f].labels = <<>> THEN page + 1
  ELSE IF page + 1 \notin DOMAIN LinkFiles[f].labels THEN Garbage
  ELSE IF LinkFiles[f].labels[page + 1] = 0 THEN page + 1 ELSE LinkFiles[f].labels[page + 1]

\* The constructors of EvLinkDest.  The page is a property that is not less than -1,
\* and 0 if it is not given.
DestNew(type, page) == [type |-> type, page |-> Max({-1, page}), label |-> 0, name |-> 0]
DestNewNamed(name) == [DestNew("NAMED", 0) EXCEPT !.name = name]
DestNewPageLabel(label) == [DestNew("PAGE_LABEL", 0) EXCEPT !.label = label]
NoDest == DestNew("none", 0)

\* ev_link_dest_from_dest
PlainType == [FIT |-> "FIT", FITB |-> "FIT", FITH |-> "FITH", FITBH |-> "FITH", FITV |-> "FITV",
              FITBV |-> "FITV", XYZ |-> "XYZ", FITR |-> "FITR", UNKNOWN |-> "PAGE"]
DestFromPoppler(dest) == IF dest.type = "NAMED" THEN DestNewNamed(dest.name)
                         ELSE DestNew(PlainType[dest.type], dest.num - 1)

\* get_djvu_link_page, of a text without "#" 0
DjvuLinkPage(text, base) ==
  CASE text.form = "file" -> Max({text.n, 0})
    [] text.form = "plus" /\ base > 0 -> base + text.n
    [] text.form = "minus" /\ base > 0 -> base - text.n
    [] text.form = "plus" /\ base <= 0 -> text.n - 1
    [] text.form = "minus" /\ base <= 0 -> -text.n - 1
    [] text.form = "label" -> Max({NumberOf(text.n) - 1, 0})
    [] OTHER -> 0

DjvuLabel == [plus |-> 30, minus |-> 40, label |-> 0]
\* get_djvu_link_dest: on the first page "#+n" and "#-n" are labels.
DjvuLinkDest(text, base) ==
  CASE text.form = "file" \/ (text.form \in {"plus", "minus"} /\ base > 0)
                             -> DestNew("PAGE", DjvuLinkPage(text, base))
    [] text.form \in {"plus", "minus", "label"} /\ ~(text.form # "label" /\ base > 0)
                             -> DestNewPageLabel(DjvuLabel[text.form] + text.n)
    [] OTHER -> NoDest

ActionNew(type, dest, file) == [type |-> type, dest |-> dest, file |-> file, name |-> "none"]
NoAction == ActionNew("none", NoDest, NoOtherFile)

\* ev_link_from_action; get_djvu_link_action
ActionFromPoppler(act) ==
  CASE act.type \in {"goto", "remote"} ->
         ActionNew(IF act.type = "goto" THEN "GOTO_DEST" ELSE "GOTO_REMOTE",
                   DestFromPoppler(act.dest), act.file)
    [] act.type = "named" -> [NoAction EXCEPT !.type = "NAMED", !.name = act.name]
    [] act.type \in {"uri", "launch", "layers"} -> [NoAction EXCEPT !.type = act.type]
    [] OTHER -> NoAction
DjvuLinkAction(text, base) ==
  LET dest == DjvuLinkDest(text, base)
  IN  IF dest # NoDest THEN ActionNew("GOTO_DEST", dest, NoOtherFile)
      ELSE IF text.form = "uri" THEN [NoAction EXCEPT !.type = "uri"] ELSE NoAction
LinkAction(f, act, base) == IF LinkFiles[f].kind = "pdf" THEN ActionFromPoppler(act)
                               ELSE DjvuLinkAction(act, base)

\* find_link_dest and find_link_page of the two back ends: a name is one of the
\* document's, or, of DjVu, the text of a link.
FindLinkDest(f, name) ==
  IF name \notin DOMAIN LinkFiles[f].names THEN NoDest
  ELSE IF LinkFiles[f].kind = "pdf" THEN DestFromPoppler(LinkFiles[f].names[name])
  ELSE DjvuLinkDest(LinkFiles[f].names[name], -1)
FindLinkPage(f, name) ==
  IF name \notin DOMAIN LinkFiles[f].names THEN IF LinkFiles[f].kind = "pdf" THEN -1 ELSE 0
  ELSE IF LinkFiles[f].kind = "pdf" THEN LinkFiles[f].names[name].num - 1
  ELSE DjvuLinkPage(LinkFiles[f].names[name], -1)

\* ev_document_links_get_dest_page and ev_document_links_get_dest_page_label
DestPage(f, dest) ==
  CASE dest.type = "NAMED" -> FindLinkPage(f, dest.name)
    [] dest.type = "PAGE_LABEL" -> FindPageByLabel(f, dest.label)
    [] OTHER -> dest.page
DestPageLabel(f, dest) ==
  IF dest.type = "PAGE_LABEL" THEN dest.label
  ELSE IF DestPage(f, dest) = -1 THEN 0 ELSE PageLabel(f, DestPage(f, dest))

\* The links of a page, as the view has them: of DjVu only those with an action.
LinksOn(f, page) ==
  {[title |-> l.title, action |-> LinkAction(f, l.action, page), source |-> l.action] :
     l \in {m \in ToSet(LinkFiles[f].links) :
              /\ m.page = page
              /\ LinkFiles[f].kind = "djvu" => LinkAction(f, m.action, page) # NoAction}}
LinksOf(f) == FoldLeft(LAMBDA all, page : Append(all, LinksOn(f, page)), <<>>,
                       [i \in 1 .. LinkFiles[f].count |-> i - 1])
PageLinks == FoldLeft(LAMBDA all, f : Append(all, LinksOf(f)), <<>>, [f \in Files |-> f])

\* build_tree, row by row.  A PDF row without a title is left out with those below it.
Titled(f, rows) == IF LinkFiles[f].kind = "pdf" THEN SelectSeq(rows, LAMBDA r : r.title # 0)
                   ELSE rows
RowsOf(f) ==
  LET row(r) == [title |-> r.title, action |-> LinkAction(f, r.action, -1), source |-> r.action]
      below(r) == [i \in DOMAIN Titled(f, r.rows) |-> row(Titled(f, r.rows)[i])]
  IN  FoldLeft(LAMBDA all, r : Append(all, row(r)) \o below(r), <<>>,
               Titled(f, LinkFiles[f].outline))
OutlineRows == FoldLeft(LAMBDA all, f : Append(all, RowsOf(f)), <<>>, [f \in Files |-> f])

-----------------------------------------------------------------------------
(* The view and the window.                                                *)

File(w) == procs[w.proc].file

\* ev_document_model_set_page, with the metadata that ev_window_page_changed_cb writes
\* when the window has a document or a job that loads it
ModelPage(f, page, now) == IF page \in 0 .. LinkFiles[f].count - 1 THEN page ELSE now

\* ev_view_goto_dest and goto_dest: the page of a label is 0, whatever the label is.
DestShown(f, dest, now) ==
  LET there == IF dest.type = "NAMED" THEN FindLinkDest(f, dest.name) ELSE dest
  IN  IF there = NoDest THEN now
      ELSE ModelPage(f, IF there.type = "PAGE_LABEL" THEN FindPageByLabel(f, there.label)
                      ELSE there.page, now)

\* view_handle_link_cb with ev_window_find_title_for_link: the title of the link, else of
\* the first row of the outline with an equal action, else "Page" with its label
EntryTitle(f, outline, link) ==
  LET alike == {i \in DOMAIN outline : outline[i].action = link.action}
  IN  IF link.title # 0 THEN [own |-> link.title, label |-> 0]
      ELSE IF alike # {} THEN [own |-> outline[Min(alike)].title, label |-> 0]
      ELSE [own |-> 0, label |-> DestPageLabel(f, link.action.dest)]
AddEntry(f, outline, link, now) ==
  LET title == EntryTitle(f, outline, link)
  IN  IF title = [own |-> 0, label |-> 0] THEN now ELSE [title |-> title, dest |-> link.action.dest]

\* do_action_named, as far as the page is concerned
NamedAction(f, name, now) ==
  ModelPage(f, CASE name = "FirstPage" -> 0
               [] name = "PrevPage" -> now - 1
               [] name = "NextPage" -> now + 1
               [] name = "LastPage" -> LinkFiles[f].count - 1
               [] OTHER -> now, now)

\* ev_window_handle_link: the destination of a window that has its document
HandleDest(w, f) ==
  IF w.dest = NoDest THEN w
  ELSE LET link == [title |-> 0, action |-> ActionNew("GOTO_DEST", w.dest, NoOtherFile)]
       IN  [w EXCEPT !.page = DestShown(f, w.dest, @), !.dest = NoDest,
                     !.entry = AddEntry(f, w.outline, link, @)]

\* setup_model_from_metadata
PageFromMetadata(f, dest) == IF dest = NoDest THEN lastPage[f] ELSE -1
\* setup_document_from_metadata: a document that was left on its last page is opened on
\* its first.
FirstShown(f, page) == IF page \in 0 .. LinkFiles[f].count - 2 THEN page ELSE 0

NewWindow(p, page, dest, meant) ==
  [proc |-> p, open |-> FALSE, loading |-> FALSE, reloading |-> FALSE, dest |-> dest,
   page |-> page, outline |-> <<>>, entry |-> [title |-> [own |-> 0, label |-> 0], dest |-> NoDest],
   meant |-> meant, said |-> 0]

-----------------------------------------------------------------------------
(* Processes.                                                              *)

\* Mutant: the page is counted as in the program.
OptionForFromZero(dest) ==
  CASE dest.type = "PAGE_LABEL" -> [type |-> "page-label", value |-> dest.label]
    [] dest.type = "PAGE" -> [type |-> "page-index", value |-> dest.page]
    [] dest.type = "NAMED" -> [type |-> "named-dest", value |-> dest.name]
    [] OTHER -> [type |-> "none", value |-> 0]

\* ev_spawn: the option for a destination, and none for those within a page
OptionFor(dest) ==
  CASE dest.type = "PAGE_LABEL" -> [type |-> "page-label", value |-> dest.label]
    [] dest.type = "PAGE" -> [type |-> "page-index", value |-> dest.page + 1]
    [] dest.type = "NAMED" -> [type |-> "named-dest", value |-> dest.name]
    [] OTHER -> [type |-> "none", value |-> 0]
Travels(dest) == OptionFor(dest).type # "none"

\* load_files: global_dest
OptionDest(option) ==
  CASE option.type = "page-label" -> DestNewPageLabel(option.value)
    [] option.type = "page-index" /\ option.value # 0 -> DestNew("PAGE", Max({0, option.value - 1}))
    [] option.type = "named-dest" -> DestNewNamed(option.value)
    [] OTHER -> NoDest

\* on_register_uri_cb and handle_reload_cb: the destination as D-Bus carries it
Carried(dest) == IF Travels(dest) THEN dest ELSE NoDest

\* ev_application_open_uri_in_window for all windows of a process, each of which has the
\* file already: ev_window_reload_document, which forgets a destination that is pending.
ReloadAll(p, dest, meant) ==
  wins' = [i \in DOMAIN wins |->
             IF wins[i].proc # p THEN wins[i]
             ELSE [wins[i] EXCEPT !.reloading = TRUE, !.dest = dest,
                                  !.meant = IF dest # NoDest THEN meant
                                            ELSE IF wins[i].dest # NoDest THEN Unclaimed ELSE @,
                                  !.said = IF dest = NoDest THEN @ ELSE 0]]

StartMessage(files, option, hash, meant) ==
  [kind |-> "start", files |-> files, option |-> option, hash |-> hash, meant |-> meant]
RegisterMessage(p, f, dest, meant) ==
  [kind |-> "register", proc |-> p, file |-> f, dest |-> dest, meant |-> meant]

\* ev_application_open_uri_at_dest from a window of process p
OpenUriAtDest(p, f, dest, meant) ==
  IF procs[p].file # f
    THEN /\ post' = Append(post, StartMessage(<<f>>, OptionFor(dest), 0, meant))
         /\ UNCHANGED wins
    ELSE ReloadAll(p, dest, meant) /\ UNCHANGED post

\* The page that a destination is to lead to, from what is written in the file: its page,
\* the page of its name or its label, or the page a relative link counts to.
SourcePage(f, source, base) ==
  CASE source.form = "dest" -> IF source.dest.type = "NAMED"
                                 THEN IF source.dest.name \in DOMAIN LinkFiles[f].names
                                        THEN LinkFiles[f].names[source.dest.name].num - 1 ELSE -1
                                 ELSE source.dest.num - 1
    [] source.form = "plus" -> base + source.n
    [] source.form = "minus" -> base - source.n
    [] source.form = "file" -> Max({source.n, 0})
    [] source.form = "label" -> FindPageByLabel(f, source.n)
    [] OTHER -> -1
PagesOf(f) == 0 .. LinkFiles[f].count - 1

-----------------------------------------------------------------------------
(* The steps.                                                              *)

LinkCall == linkCalls < LinkCalls /\ Len(post) < LinkPosts /\ linkCalls' = linkCalls + 1
Take(i) == post' = RemoveAt(post, i)
ChangeWindow(i, w) == wins' = [wins EXCEPT ![i] = w]
StorePage(f, page) == lastPage' = [lastPage EXCEPT ![f] = page]
Here(source) == source.form \in {"plus", "minus"}

\* ev_view_handle_link.  The tip of the link (tip_from_link), or its row's label
\* (fill_page_labels), has told a page.
FollowGoto(i, link, base) ==
  LET w == wins[i]
      f == File(w)
      target == SourcePage(f, link.source, base)
      page == DestShown(f, link.action.dest, w.page)
  IN  /\ link.action.type = "GOTO_DEST"
      /\ ChangeWindow(i, [w EXCEPT
           !.page = page, !.entry = AddEntry(f, w.outline, link, @),
           !.meant = IF w.reloading \/ (Here(link.source) /\ base <= 0) THEN Unclaimed
                     ELSE IF target \in PagesOf(f) THEN target ELSE w.page,
           !.said = IF target \in PagesOf(f) /\ ~w.reloading
                      THEN DestPageLabel(f, link.action.dest) ELSE 0])
      /\ StorePage(f, page) /\ UNCHANGED post
FollowRemote(i, link) ==
  LET f == link.action.file
      target == SourcePage(f, link.source, -1)
  IN  /\ link.action.type = "GOTO_REMOTE"
      /\ OpenUriAtDest(wins[i].proc, f, link.action.dest,
           IF target \in PagesOf(f) /\ (Travels(link.action.dest) \/ f = File(wins[i]))
             THEN target ELSE Unclaimed)
      /\ UNCHANGED lastPage
FollowNamed(i, link) ==
  LET w == wins[i]
      page == NamedAction(File(w), link.action.name, w.page)
  IN  /\ link.action.type = "NAMED"
      /\ ChangeWindow(i, [w EXCEPT !.page = page, !.meant = Unclaimed, !.said = 0])
      /\ StorePage(File(w), page) /\ UNCHANGED post
HandleLink(i, link, base) ==
  \/ FollowGoto(i, link, base) \/ FollowRemote(i, link) \/ FollowNamed(i, link)

ClickPageLink(i) ==
  /\ LinkCall /\ wins[i].open
  /\ \E link \in PageLinks[File(wins[i])][wins[i].page + 1] : HandleLink(i, link, wins[i].page)
  /\ UNCHANGED <<procs, owners>>

\* selection_changed_callback of the outline and sidebar_links_link_activated_cb
SelectRow(i) ==
  /\ LinkCall /\ wins[i].open
  /\ \E link \in ToSet(wins[i].outline) :
       link.action # NoAction /\ HandleLink(i, link, -1)
  /\ UNCHANGED <<procs, owners>>

\* The second button on a link, or "Open in New Window" of its menu, which is there for a
\* link to another file too: ev_window_open_copy_at_dest.
OpenCopy(i) ==
  LET w == wins[i]
      f == File(w)
  IN  /\ LinkCall /\ w.open
      /\ \E link \in PageLinks[f][w.page + 1] :
           /\ link.action.type \in {"GOTO_DEST", "GOTO_REMOTE"}
           /\ LET target == SourcePage(f, link.source, w.page)
                  claim == IF target \in PagesOf(f) /\ link.action.type = "GOTO_DEST"
                              /\ ~(Here(link.source) /\ w.page = 0)
                             THEN target ELSE Unclaimed
                  new == NewWindow(w.proc, FirstShown(f, lastPage[f]), link.action.dest, claim)
                  copy == HandleDest([new EXCEPT !.open = TRUE], f)
              IN  wins' = Append(wins, copy) /\ StorePage(f, copy.page)
      /\ UNCHANGED <<procs, owners, post>>

ChoosePage(i) ==
  /\ LinkCall /\ wins[i].open
  /\ \E page \in PagesOf(File(wins[i])) \ {wins[i].page} :
       /\ ChangeWindow(i, [wins[i] EXCEPT !.page = page, !.meant = Unclaimed, !.said = 0])
       /\ StorePage(File(wins[i]), page)
  /\ UNCHANGED <<procs, owners, post>>

CommandLine ==
  /\ LinkCall
  /\ \E line \in CommandLines :
       LET f == line.files[1]
           page == IF line.hash # 0 THEN FindPageByLabel(f, line.hash)
                   ELSE CASE line.option.type = "page-label" -> FindPageByLabel(f, line.option.value)
                     [] line.option.type = "page-index" -> line.option.value - 1
                     [] line.option.type = "named-dest" /\ LinkFiles[f].kind = "pdf" ->
                          SourcePage(f, [form |-> "dest", dest |-> [type |-> "NAMED",
                                         name |-> line.option.value, num |-> 0]], -1)
                     [] OTHER -> Unclaimed
       IN  post' = Append(post, StartMessage(line.files, line.option, line.hash,
                                      IF page \in PagesOf(f) THEN page ELSE Unclaimed))
  /\ UNCHANGED <<procs, owners, wins, lastPage>>

\* main and load_files: the first file is this process's, the others get their own; the
\* label after "#" is for its file, the option for all of them.
Main(i) ==
  LET m == post[i]
      p == Len(procs) + 1
      f == m.files[1]
      dest == IF m.hash # 0 THEN DestNewPageLabel(m.hash) ELSE OptionDest(m.option)
      others == SelectSeq(Tail(m.files), LAMBDA g : g # f)
      start == [k \in DOMAIN others |-> StartMessage(<<others[k]>>, OptionFor(OptionDest(m.option)), 0, Unclaimed)]
  IN  /\ m.kind = "start"
      /\ procs' = Append(procs, [file |-> f, registered |-> FALSE])
      /\ post' = RemoveAt(post, i) \o <<RegisterMessage(p, f, dest, m.meant)>> \o start
      /\ UNCHANGED <<owners, wins, lastPage, linkCalls>>

\* on_register_uri_cb: the file is this process's now and a window loads it, or its owner
\* is told to show the destination.
UriRegistered(i) ==
  LET m == post[i]
      new == NewWindow(m.proc, PageFromMetadata(m.file, m.dest), m.dest, m.meant)
  IN  /\ m.kind = "register"
      /\ IF owners[m.file] = 0
           THEN /\ owners' = [owners EXCEPT ![m.file] = m.proc]
                /\ procs' = [procs EXCEPT ![m.proc].registered = TRUE]
                /\ wins' = Append(wins, [new EXCEPT !.loading = TRUE]) /\ Take(i)
           ELSE /\ post' = Append(RemoveAt(post, i),
                     [kind |-> "reload", proc |-> owners[m.file], dest |-> Carried(m.dest),
                      meant |-> m.meant])
                /\ UNCHANGED <<owners, procs, wins>>
      /\ UNCHANGED <<lastPage, linkCalls>>

\* handle_reload_cb
ReloadAsked(i) ==
  /\ post[i].kind = "reload"
  /\ ReloadAll(post[i].proc, post[i].dest, post[i].meant) /\ Take(i)
  /\ UNCHANGED <<procs, owners, lastPage, linkCalls>>

\* ev_window_load_job_cb
LoadJobEnds(i) ==
  LET w == wins[i]
      f == File(w)
      shown == HandleDest([w EXCEPT !.loading = FALSE, !.open = TRUE, !.page = FirstShown(f, @)], f)
  IN  /\ w.loading /\ ChangeWindow(i, shown) /\ StorePage(f, shown.page)
      /\ UNCHANGED <<procs, owners, post, linkCalls>>

\* ev_window_reload_job_cb, after the load job if there is one: the worker takes them in
\* their order
ReloadJobEnds(i) ==
  LET w == wins[i]
      shown == HandleDest([w EXCEPT !.reloading = FALSE, !.open = TRUE], File(w))
  IN  /\ w.reloading /\ ~w.loading /\ ChangeWindow(i, shown) /\ StorePage(File(w), shown.page)
      /\ UNCHANGED <<procs, owners, post, linkCalls>>

\* job_finished_callback of the outline's job
OutlineFound(i) ==
  /\ wins[i].open /\ wins[i].outline # OutlineRows[File(wins[i])]
  /\ ChangeWindow(i, [wins[i] EXCEPT !.outline = OutlineRows[File(wins[i])]])
  /\ UNCHANGED <<procs, owners, post, lastPage, linkCalls>>

LinksInit ==
  /\ procs = <<>> /\ owners = [f \in Files |-> 0] /\ wins = <<>> /\ post = <<>>
  /\ lastPage = [f \in Files |-> -1] /\ linkCalls = 0

LinksNext ==
  \/ CommandLine
  \/ \E i \in DOMAIN wins : ClickPageLink(i) \/ SelectRow(i) \/ OpenCopy(i) \/ ChoosePage(i)
  \/ \E i \in DOMAIN wins : LoadJobEnds(i) \/ ReloadJobEnds(i) \/ OutlineFound(i)
  \/ \E i \in DOMAIN post : Main(i) \/ UriRegistered(i) \/ ReloadAsked(i)
LinksSpec == LinksInit /\ [][LinksNext]_linkVars

-----------------------------------------------------------------------------
(* Properties.                                                             *)

LinksTypeOK ==
  /\ \A i \in DOMAIN wins : /\ wins[i].proc \in DOMAIN procs /\ wins[i].page \in -1 .. 9
                            /\ wins[i].open => wins[i].page \in PagesOf(File(wins[i]))
  /\ \A f \in Files : owners[f] \in 0 .. Len(procs) /\ lastPage[f] \in -1 .. LinkFiles[f].count - 1
  /\ linkCalls \in 0 .. LinkCalls

Settled(w) == w.open /\ ~w.loading /\ ~w.reloading
\* A window that has followed a link, from wherever the link came, shows the page the link
\* means, and that page has the label the tip has told; the entry of the history leads to
\* the page its title names.  Nothing is said of destinations within a page that another
\* process would have to be told, of relative links on the first page, and of links to
\* another file that are opened in a new window.
LinksLeadWhereTheySay ==
  \A i \in DOMAIN wins :
    LET w == wins[i]
        f == File(w)
    IN  /\ Settled(w) /\ w.meant # Unclaimed => w.page = w.meant
        /\ Settled(w) /\ w.said # 0 => FindPageByLabel(f, w.said) = w.page
        /\ w.entry.title.label \notin {0, Garbage} /\ LinkFiles[f].kind = "pdf" =>
             DestShown(f, w.entry.dest, w.page) \in {FindPageByLabel(f, w.entry.title.label), w.page}
================================================================================
