------------------------------- MODULE MCShell --------------------------------
(***************************************************************************)
(* The shell, for TLC: how a window loads its document, what the user      *)
(* writes into it, how the processes share the documents, and where links  *)
(* lead between pages, documents and processes.                            *)
(*                                                                         *)
(* A process asks a window to open its document and hears that it was      *)
(* loaded; both modules have these calls and the module of the other       *)
(* chooses when they come.  An instance therefore lets one part run.       *)
(***************************************************************************)
EXTENDS EvWindowLoad, EvDaemon, EvEditing, EvLinks

VARIABLE part   \* the part that runs

shellVars == <<part, loadVars, daemonVars, editVars, linkVars>>

\* A PDF document and a DjVu document of three pages, with links; and what the user starts
\* evince with.
Goto(type, num) ==
  [type |-> "goto", file |-> 0, form |-> "dest", dest |-> [type |-> type, num |-> num, name |-> 0]]
GotoName(name) ==
  [type |-> "goto", file |-> 0, form |-> "dest", dest |-> [type |-> "NAMED", num |-> 0, name |-> name]]
ToFile(f, dest) == [type |-> "remote", form |-> "dest", file |-> f, dest |-> dest]
Text(form, n) == [form |-> form, n |-> n]
Row(title, does, rows) == [title |-> title, action |-> does, rows |-> rows]
OnPage(page, title, does) == [page |-> page, title |-> title, action |-> does]
PdfFile == [kind |-> "pdf", count |-> 3, labels |-> <<11, 1, 0>>,
  names |-> <<[type |-> "XYZ", num |-> 3, name |-> 0], [type |-> "FIT", num |-> 2, name |-> 0]>>,
  outline |-> << Row(1, GotoName(1), <<Row(2, Goto("XYZ", 2), <<>>)>>), Row(0, Goto("FIT", 1), <<Row(3, Goto("FIT", 1), <<>>)>>) >>,
  links |-> << OnPage(0, 0, Goto("XYZ", 2)), OnPage(0, 0, GotoName(2)), OnPage(0, 0, GotoName(3)),
               OnPage(0, 0, Goto("UNKNOWN", 3)), OnPage(1, 0, Goto("FITBH", 9)), OnPage(1, 0, Goto("FITR", 0)),
               OnPage(1, 0, ToFile(2, [type |-> "UNKNOWN", num |-> 2, name |-> 0])),
               OnPage(2, 0, ToFile(2, [type |-> "XYZ", num |-> 2, name |-> 0])),
               OnPage(2, 0, ToFile(1, [type |-> "NAMED", num |-> 0, name |-> 2])),
               OnPage(2, 0, [type |-> "named", form |-> "none", name |-> "PrevPage"]),
               OnPage(2, 0, [type |-> "movie", form |-> "none"]) >>]
DjvuFile == [kind |-> "djvu", count |-> 3, labels |-> <<2, 21, 3>>,
  names |-> <<Text("label", 2)>>,
  outline |-> << Row(1, Text("label", 3), <<>>), Row(2, Text("file", 1), <<>>) >>,
  links |-> << OnPage(0, 4, Text("plus", 1)), OnPage(0, 4, Text("label", 2)), OnPage(0, 4, Text("label", 11)),
               OnPage(1, 4, Text("plus", 1)), OnPage(1, 4, Text("minus", 1)), OnPage(1, 4, Text("uri", 0)),
               OnPage(2, 4, Text("file", 1)), OnPage(2, 4, Text("other", 0)), OnPage(2, 4, Text("label", 8)) >>]
TwoFiles == <<PdfFile, DjvuFile>>
NoOption == [type |-> "none", value |-> 0]
Lines == {[files |-> <<1>>, option |-> NoOption, hash |-> 0],
          [files |-> <<1>>, option |-> [type |-> "page-label", value |-> 1], hash |-> 0],
          [files |-> <<2, 1>>, option |-> [type |-> "page-index", value |-> 2], hash |-> 0],
          [files |-> <<1>>, option |-> [type |-> "named-dest", value |-> 1], hash |-> 21],
          [files |-> <<2>>, option |-> [type |-> "named-dest", value |-> 1], hash |-> 0]}

\* A remote file with a password is left out: the copy does not depend on it.
ShellInit ==
  /\ part \in {"window", "processes", "editing", "links"}
  /\ LoadInit /\ DaemonInit /\ EditInit /\ LinksInit
  /\ loadFile.remote => ~loadFile.secret /\ ~loadFile.mounted
  /\ part # "window" => ~loadFile.remote /\ ~loadFile.secret

ShellNext ==
  /\ UNCHANGED part
  /\ \/ part = "window" /\ LoadNext
     \/ part # "window" /\ UNCHANGED loadVars
  /\ \/ part = "processes" /\ DaemonNext
     \/ part # "processes" /\ UNCHANGED daemonVars
  /\ \/ part = "editing" /\ EditNext
     \/ part # "editing" /\ UNCHANGED editVars
  /\ \/ part = "links" /\ LinksNext
     \/ part # "links" /\ UNCHANGED linkVars

\* What goes on by itself: the worker, the main loops of the processes and of the
\* daemon.  One part runs, so that one condition is as good as one for each.
ShellWork ==
  /\ UNCHANGED <<part, linkVars>>
  /\ \/ part = "window" /\ LoadWork
     \/ part # "window" /\ UNCHANGED loadVars
  /\ \/ part = "processes" /\ (ProcessWork \/ DaemonWork)
     \/ part # "processes" /\ UNCHANGED daemonVars
  /\ \/ part = "editing" /\ SaveWork
     \/ part # "editing" /\ UNCHANGED editVars

ShellSpec == ShellInit /\ [][ShellNext]_shellVars /\ WF_shellVars(ShellWork)

ShellTypeOK ==
  CASE part = "window" -> LoadTypeOK
    [] part = "processes" -> DaemonTypeOK
    [] part = "editing" -> EditTypeOK
    [] part = "links" -> LinksTypeOK

\* A load that was begun ends, the document shown catches up with its file, and a
\* document that was asked for is shown or handed over.
ShellProgress == LoadsSettle /\ OpensSettle
===============================================================================
