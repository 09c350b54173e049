--------------------------- MODULE EvPrintOperation ---------------------------
(***************************************************************************)
(* Printing: libview/ev-print-operation.c, with the queue of the window    *)
(* (shell/ev-window.c) and the jobs that it runs (EvJobExport, EvJobPrint).*)
(*                                                                         *)
(* A document that is a file exporter is exported page by page to a file   *)
(* that is then sent to the printer; the operations of one document wait   *)
(* for each other.  A document that prints itself is drawn page by page by *)
(* a GtkPrintOperation, whose drawing waits for the job of the page.       *)
(*                                                                         *)
(* The queues are written with the oldest operation first (the code pushes *)
(* at the head and takes from the tail).                                   *)
(* Histories: again (a page was exported before), open (pages of paper     *)
(* begun and not ended), doubt (what an operation prints, or what follows  *)
(* it, suffers from one that was cancelled when that is not safe).         *)
(***************************************************************************)
EXTENDS Integers, Sequences, FiniteSets, SequencesExt

CONSTANTS
  PrintOps,     \* bound: operations that the user starts
  PrintPages    \* bound: pages of a document

ASSUME PrintAssumption == PrintOps \in Nat \ {0} /\ PrintPages \in Nat \ {0}

VARIABLES
  printOp,   \* EvPrintOperationExport, by number
  exporter,  \* by document: print_queue, and the operation whose context it has
  stray,     \* export jobs that the scheduler still has, of operations given up
  printWin,  \* of EvWindow: print_queue, close_after_print, the message area,
             \* the dialog that asks before closing, the document shown
  cairoOp    \* EvPrintOperationPrint with its GtkPrintOperation and job_print

printVars == <<printOp, exporter, stray, printWin, cairoOp>>

Operation == 1 .. PrintOps
PrintDoc == 1 .. 2
LastPage == PrintPages - 1

-----------------------------------------------------------------------------
(* The pages that an operation exports.                                    *)

\* Settings of the dialog: the ranges hold pages of the document
\* (ev_print_operation_export_print_dialog_response_cb, clamp_ranges)
Plain == [ranges |-> << <<0, 1>> >>, collate |-> FALSE, reverse |-> FALSE,
           copies |-> 1, perSheet |-> 1, set |-> "all"]
PrintSettings == {Plain} \cup
  [ranges : {<< <<0, LastPage>> >>, << <<1, 1>> >>, << <<2, LastPage>>, <<0, 0>> >>},
   collate : BOOLEAN, reverse : BOOLEAN, copies : 1 .. 2, perSheet : 1 .. 2,
   set : {"all", "even", "odd"}]

CopiesOfRange(st) == IF st.collate THEN st.copies ELSE 1   \* uncollated_copies
CopiesOfPage(st) == IF st.collate THEN 1 ELSE st.copies    \* collated_copies
SheetOf(st, count) == 1 + (count - 1) \div st.perSheet
InSet(st, sheet) == \/ st.set = "all"
                    \/ st.set = "even" /\ sheet % 2 = 0
                    \/ st.set = "odd" /\ sheet % 2 = 1

\* Where the export is: page, the range (from start to before end) and its number,
\* the copies made of all the ranges and of this page, the places used, the sheet.
Cursor == [page : Int, start : Int, end : Int, range : Nat, uncollated : Nat,
           collated : Nat, count : Nat, sheet : Nat, more : BOOLEAN, pads : Nat]

\* find_range
FindRange(st, c) ==
  LET r == st.ranges[c.range] IN
  IF st.reverse THEN [c EXCEPT !.start = r[2], !.end = r[1] - 1]
  ELSE [c EXCEPT !.start = r[1], !.end = r[2] + 1]

FirstRange(st) == IF st.reverse THEN Len(st.ranges) ELSE 1

\* Where the response of the dialog starts the operation
StartCursor(st) ==
  LET c == FindRange(st, [page |-> 0, start |-> 0, end |-> 0, range |-> FirstRange(st),
                          uncollated |-> 0, collated |-> CopiesOfPage(st) - 1,
                          count |-> 0, sheet |-> 0, more |-> TRUE, pads |-> 0])
  IN [c EXCEPT !.page = c.start - (IF st.reverse THEN -1 ELSE 1)]

Counted1(st, c) == [c EXCEPT !.count = @ + 1, !.sheet = SheetOf(st, c.count + 1)]

\* One turn of the loop of export_print_inc_page.  A copy that ends within a sheet
\* is followed by blanks, and the page of the exporter is ended (pads).
IncPageOnce(st, c) ==
  LET inc == IF st.reverse THEN -1 ELSE 1
      a == [(IF st.collate THEN Counted1(st, c) ELSE c) EXCEPT !.page = @ + inc]
      b == [a EXCEPT !.range = @ + inc]
      rest == (a.count - 1) % st.perSheet
      padded == IF st.perSheet > 1 /\ st.collate /\ rest # 0
                  THEN [b EXCEPT !.count = @ + st.perSheet - rest,
                                 !.pads = @ + (IF InSet(st, a.sheet) THEN 1 ELSE 0),
                                 !.sheet = SheetOf(st, a.count + st.perSheet - rest)]
                  ELSE b
      over == [padded EXCEPT !.uncollated = @ + 1]
      Start(d) == LET e == FindRange(st, d) IN [e EXCEPT !.page = e.start]
  IN IF a.page # a.end THEN a
     ELSE IF b.range \in DOMAIN st.ranges THEN Start(b)
     ELSE IF over.uncollated = CopiesOfRange(st) THEN [over EXCEPT !.more = FALSE]
     ELSE Start([over EXCEPT !.range = FirstRange(st)])

\* export_print_inc_page
IncPage[st \in PrintSettings, c \in Cursor] ==
  LET a == IncPageOnce(st, c) IN
  IF a.more /\ st.collate /\ ~InSet(st, a.sheet) THEN IncPage[st, a] ELSE a

\* The copies of one page, then the next
NextCopy(st, c) ==
  LET a == [c EXCEPT !.collated = @ + 1] IN
  IF a.collated = CopiesOfPage(st) THEN IncPage[st, [a EXCEPT !.collated = 0]] ELSE a

\* The loop of export_print_page that passes over the sheets of the other set
SkipSheets[st \in PrintSettings, c \in Cursor] ==
  IF ~c.more \/ st.collate \/ InSet(st, c.sheet) THEN c
  ELSE SkipSheets[st, NextCopy(st, Counted1(st, c))]

\* Mutant: the first turn is not counted when every sheet is printed.
PageTurnLate(st, c) ==
  SkipSheets[st, NextCopy(st, IF st.collate \/ (st.set = "all" /\ c.count = 0) THEN c
                              ELSE Counted1(st, c))]

\* export_print_page: the page that comes next, or none (more)
PageTurn(st, c) == SkipSheets[st, NextCopy(st, IF st.collate THEN c ELSE Counted1(st, c))]

\* Whether the exporter is told that a page of paper begins, or ends
BeginsSheet(st, c) == st.perSheet = 1 \/ (c.count % st.perSheet = 1 /\ InSet(st, c.sheet))
EndsSheet(st, c) == st.perSheet = 1 \/ (c.count % st.perSheet = 0 /\ InSet(st, c.sheet))

\* What the user asked for: every copy of every page takes a place, copies that
\* are collated start on a new sheet, and the sheets of the set are printed.
Blank == -1
RangeUp(r) == [i \in 1 .. (r[2] - r[1] + 1) |-> r[1] + i - 1]
InOrder(st) == LET up == FlattenSeq([i \in DOMAIN st.ranges |-> RangeUp(st.ranges[i])])
               IN IF st.reverse THEN Reverse(up) ELSE up
Repeated(seq, n) == FlattenSeq([i \in 1 .. n |-> seq])
Places(st) ==
  LET pages == InOrder(st)
      blanks == (st.perSheet - (Len(pages) % st.perSheet)) % st.perSheet
  IN IF st.collate THEN Repeated(pages \o [i \in 1 .. blanks |-> Blank], st.copies)
     ELSE FlattenSeq([i \in DOMAIN pages |-> Repeated(<<pages[i]>>, st.copies)])
Asked(st) ==
  LET places == Places(st)
      kept == {i \in DOMAIN places : places[i] # Blank /\ InSet(st, SheetOf(st, i))}
      inSet == SetToSortSeq(kept, LAMBDA i, j : i < j)
  IN [k \in DOMAIN inSet |-> places[inSet[k]]]

-----------------------------------------------------------------------------
(* The state as one value, and the calls that end an operation.            *)

NoOperation == [phase |-> "none", doc |-> 1, st |-> Plain, c |-> StartCursor(Plain),
                again |-> FALSE, sent |-> FALSE, printed |-> <<>>, open |-> 0,
               doubt |-> FALSE]
PrintState == [o |-> printOp, e |-> exporter, s |-> stray, w |-> printWin, c |-> cairoOp]
PrintBecomes(x) == /\ printOp' = x.o /\ exporter' = x.e /\ stray' = x.s
                   /\ printWin' = x.w /\ cairoOp' = x.c

\* The phases in which an operation uses the exporter of its document
Exporting == {"turn", "exporting", "exported"}

\* ev_print_operation_export_begin: the exporter of the document writes to the
\* file of o from now on, and an idle source will print the first page.
Begin(x, o) == [x EXCEPT !.o[o].phase = "turn", !.e[x.o[o].doc].context = o]

\* ev_print_operation_export_run_next pops the oldest operation, which need not be
\* the one that has ended.
RunNext(x, doc) ==
  LET q == x.e[doc].queue
      rest == IF q = <<>> THEN q ELSE Tail(q)
      y == [x EXCEPT !.e[doc].queue = rest]
  IN IF rest = <<>> THEN y ELSE Begin(y, Head(rest))

\* ev_window_print_operation_done: the window forgets the operation and, when it
\* was the last one, its message area; then it may close.
PrintOver(x, o) ==
  LET q == SelectSeq(x.w.queue, LAMBDA i : i # o)
      y == [x EXCEPT !.o[o].phase = "over", !.w.queue = q]
  IN IF q # <<>> THEN y
     ELSE [y EXCEPT !.w.area = "none", !.w.destroy = @ \/ y.w.close]

\* "done", then the next one
EndAndNext(x, o) == RunNext(PrintOver(x, o), x.o[o].doc)

\* Of the job of the first page, ev_print_operation_export_cancel takes it from
\* the scheduler unless the worker has it; the job of a later page still says
\* that it has finished and is not cancelled.  An operation that is already at
\* the printer will be told so again.
GivenUp(x, o, taken) ==
  LET op == x.o[o] IN
  [x EXCEPT !.o = [i \in Operation |-> IF op.sent THEN [@[i] EXCEPT !.doubt = TRUE] ELSE @[i]],
            !.s = IF op.phase = "exporting" /\ (op.again \/ taken)
                    THEN Append(@, [doc |-> op.doc, page |-> op.c.page]) ELSE @]

\* Mutant: the operations that wait are forgotten.
CancelAlone(x, o, taken) ==
  LET y == GivenUp(x, o, taken)
  IN PrintOver([y EXCEPT !.e[x.o[o].doc].queue = <<>>], o)

\* export_cancel
CancelOperation(x, o, taken) == EndAndNext(GivenUp(x, o, taken), o)

\* ev_window_print_cancel: as long as there is one.  (An operation of the other
\* kind ends later, and the loop does not: see the README.)
CancelAll(x, taken) == FoldLeft(LAMBDA y, o : CancelOperation(y, o, taken), x, x.w.queue)

-----------------------------------------------------------------------------
(* The user.                                                               *)

WindowThere == ~printWin.destroyed /\ ~printWin.asking /\ printWin.sensitive

\* bound: an operation with other settings than the plain ones is let alone.
AllPlain == \A o \in Operation : printOp[o].st = Plain
NoDialog == \A o \in Operation : printOp[o].phase # "dialog"

\* ev_window_print_range: a modal dialog
PrintRange(o) ==
  /\ WindowThere /\ NoDialog
  /\ printOp[o].phase = "none" /\ \A i \in 1 .. (o - 1) : printOp[i].phase # "none"
  /\ AllPlain
  /\ PrintBecomes([PrintState EXCEPT !.o[o].phase = "dialog", !.o[o].doc = printWin.doc])

\* ev_print_operation_export_print_dialog_response_cb and
\* ev_window_print_operation_begin_print
PrintDialogAccepted(o, st) ==
  /\ o > 1 => st = Plain
  /\ printOp[o].phase = "dialog"
  /\ LET doc == printOp[o].doc
         x == [PrintState EXCEPT !.o[o] = [@ EXCEPT !.st = st, !.phase = "queued",
                                                    !.c = StartCursor(st)],
                                 !.w.area = IF @ = "none" THEN "shown" ELSE @,
                                 !.w.queue = Append(@, o)]
         y == IF exporter[doc].queue = <<>> THEN Begin(x, o) ELSE x
     IN PrintBecomes([y EXCEPT !.e[doc].queue = Append(@, o)])

\* Closed, or no file could be made: "done" of an operation that is in no queue
PrintDialogFailed(o) ==
  /\ printOp[o].phase = "dialog"
  /\ PrintBecomes(PrintOver(PrintState, o))

\* ev_window_print_progress_response_cb
CancelPrint(taken) ==
  /\ AllPlain /\ WindowThere /\ printWin.area = "shown" /\ printWin.queue # <<>>
  /\ PrintBecomes(CancelOperation(PrintState, Head(printWin.queue), taken))
HidePrintProgress ==
  /\ AllPlain /\ WindowThere /\ printWin.area = "shown"
  /\ PrintBecomes([PrintState EXCEPT !.w.area = "hidden"])

\* The document is reloaded, and the window shows the new one.
ReloadWhilePrinting ==
  /\ AllPlain /\ WindowThere /\ NoDialog /\ printWin.doc = 1
  /\ PrintBecomes([PrintState EXCEPT !.w.doc = 2, !.w.area = "none"])

\* ev_window_close with ev_window_check_print_queue
CloseWhilePrinting ==
  /\ AllPlain /\ WindowThere /\ NoDialog
  /\ PrintBecomes(IF printWin.queue = <<>> THEN [PrintState EXCEPT !.w.destroyed = TRUE]
                  ELSE [PrintState EXCEPT !.w.asking = TRUE])

\* print_jobs_confirmation_dialog_response
CloseAfterPrinting ==
  /\ printWin.asking
  /\ LET x == [PrintState EXCEPT !.w.asking = FALSE] IN
     PrintBecomes(IF printWin.queue = <<>> THEN [x EXCEPT !.w.destroyed = TRUE]
                  ELSE [x EXCEPT !.w.close = TRUE])
CloseAndCancel(taken) ==
  /\ printWin.asking
  /\ LET x == [PrintState EXCEPT !.w.asking = FALSE, !.w.close = TRUE] IN
     PrintBecomes(IF printWin.queue = <<>> THEN [x EXCEPT !.w.destroyed = TRUE]
                  ELSE CancelAll([x EXCEPT !.w.sensitive = FALSE], taken))
DoNotClose ==
  /\ printWin.asking
  /\ PrintBecomes([PrintState EXCEPT !.w.asking = FALSE, !.w.close = FALSE])

\* destroy_window, an idle source
DestroyWindow ==
  /\ printWin.destroy /\ ~printWin.destroyed
  /\ PrintBecomes([PrintState EXCEPT !.w.destroyed = TRUE, !.w.destroy = FALSE])

-----------------------------------------------------------------------------
(* The main loop, the worker and the printer.                              *)

\* export_print_page: the job of the next page, or the end of the file
\* (export_print_done), which is sent to the printer or shown by the previewer.
ExportPage(o) ==
  /\ printOp[o].phase = "turn"
  /\ LET op == printOp[o]
         c == PageTurn(op.st, op.c)
         opened == op.open - c.pads + op.c.pads
         x == [PrintState EXCEPT !.o[o].c = c, !.o[o].open = opened,
                                 !.w.area = IF @ = "none" THEN "shown" ELSE @]
     IN IF c.more
          THEN PrintBecomes([x EXCEPT !.o[o].phase = "exporting",
                                      !.o[o].open = IF BeginsSheet(op.st, c) THEN @ + 1 ELSE @])
          ELSE \/ PrintBecomes([x EXCEPT !.o[o].phase = "sent", !.o[o].sent = TRUE])
               \/ PrintBecomes(EndAndNext(x, o))

\* ev_job_export_run: the exporter draws the page for the operation that it has
\* begun.
RunExportJob(o) ==
  /\ printOp[o].phase = "exporting"
  /\ LET owner == exporter[printOp[o].doc].context IN
     PrintBecomes([PrintState EXCEPT !.o[o].phase = "exported", !.o[o].again = TRUE,
                                     !.o[owner].printed = Append(@, printOp[o].c.page)])
RunStrayJob ==
  /\ stray # <<>>
  /\ LET owner == exporter[Head(stray).doc].context IN
     PrintBecomes([PrintState EXCEPT !.s = Tail(@),
                                     !.o[owner] = [@ EXCEPT !.doubt = TRUE,
                                                   !.printed = Append(@, Head(stray).page)]])

\* export_job_finished
ExportJobFinished(o) ==
  /\ printOp[o].phase = "exported"
  /\ PrintBecomes([PrintState EXCEPT
       !.o[o].phase = "turn",
       !.o[o].open = IF EndsSheet(printOp[o].st, printOp[o].c) THEN @ - 1 ELSE @])

\* gtk_print_job_finished, also for an operation that was cancelled meanwhile
PrinterFinished(o) ==
  /\ printOp[o].sent
  /\ PrintBecomes(EndAndNext([PrintState EXCEPT !.o[o].sent = FALSE], o))

-----------------------------------------------------------------------------
(* The operation that draws on the context of a GtkPrintOperation.         *)

NoCairo == [phase |-> "none", page |-> 0, job |-> "none", cancelled |-> FALSE,
            hold |-> FALSE, raced |-> FALSE, result |-> "none"]
CairoIs(c) == cairoOp' = c /\ UNCHANGED <<printOp, exporter, stray, printWin>>

\* ev_print_operation_print_begin_print
CairoBegin == cairoOp.phase = "none" /\ CairoIs([cairoOp EXCEPT !.phase = "ready"])

\* GTK asks for the next page, ev_print_operation_print_draw_page, which is
\* deferred until the job has drawn it or cancels the operation.
PrintDrawPage ==
  /\ cairoOp.phase = "ready" /\ cairoOp.page <= LastPage
  /\ CairoIs(IF cairoOp.cancelled
               THEN [cairoOp EXCEPT !.phase = "over", !.result = "cancel"]
               ELSE [cairoOp EXCEPT !.phase = "deferred", !.job = "waiting"])

\* ev_print_operation_print_done after the last page
CairoDone ==
  /\ cairoOp.phase = "ready" /\ cairoOp.page > LastPage
  /\ CairoIs([cairoOp EXCEPT !.phase = "over", !.result = "apply"])

\* The worker takes the job and, having seen that it is not cancelled, says that
\* it runs it (ev_job_thread); then ev_job_print_run.
CairoTake ==
  /\ cairoOp.job = "waiting" /\ CairoIs([cairoOp EXCEPT !.job = "taken"])
CairoRun == cairoOp.job = "taken" /\ CairoIs([cairoOp EXCEPT !.job = "running"])
CairoRan ==
  /\ cairoOp.job = "running"
  /\ CairoIs([cairoOp EXCEPT !.job = IF cairoOp.cancelled THEN "none" ELSE "ran"])

\* gtk_print_operation_draw_page_finish
PageFinished(c) == [c EXCEPT !.phase = "ready", !.page = @ + 1]

\* print_job_finished; emit_finished is silent for a job that was cancelled.
CairoJobFinished ==
  /\ cairoOp.job = "ran"
  /\ CairoIs(IF cairoOp.cancelled THEN [cairoOp EXCEPT !.job = "none"]
             ELSE PageFinished([cairoOp EXCEPT !.job = "none"]))

\* print_job_cancelled: a page that the worker draws is finished when it has done.
\* The worker that has taken the job but does not yet say so is not waited for.
CairoJobCancelled(c) ==
  IF c.job = "running" THEN [c EXCEPT !.hold = TRUE]
  ELSE PageFinished([c EXCEPT !.raced = c.job = "taken"])

\* ev_print_operation_print_cancel.  A job whose page is finished is only marked.
CairoCancel ==
  /\ cairoOp.phase \in {"ready", "deferred"} /\ ~cairoOp.cancelled
  /\ LET c == [cairoOp EXCEPT !.cancelled = TRUE,
                              !.job = IF @ = "waiting" THEN "none" ELSE @] IN
     CairoIs(CASE cairoOp.phase = "ready" /\ cairoOp.page = 0 ->
                    [cairoOp EXCEPT !.phase = "over", !.result = "cancel"]
               [] cairoOp.phase = "ready" /\ cairoOp.page > 0 -> c
               [] OTHER -> CairoJobCancelled(c))

\* draw_page_finish_idle
DrawPageFinishIdle ==
  /\ cairoOp.hold /\ cairoOp.job # "running"
  /\ CairoIs(PageFinished([cairoOp EXCEPT !.hold = FALSE]))

CairoWork == CairoTake \/ CairoRun \/ CairoRan \/ CairoJobFinished \/ DrawPageFinishIdle
             \/ PrintDrawPage \/ CairoDone

-----------------------------------------------------------------------------
PrintInit ==
  /\ printOp = [o \in Operation |-> NoOperation]
  /\ exporter = [d \in PrintDoc |-> [queue |-> <<>>, context |-> 0]]
  /\ stray = <<>>
  /\ printWin = [queue |-> <<>>, doc |-> 1, area |-> "none", close |-> FALSE,
                 asking |-> FALSE, sensitive |-> TRUE, destroy |-> FALSE,
                 destroyed |-> FALSE]
  /\ cairoOp = NoCairo

ExportWork(o) == ExportPage(o) \/ RunExportJob(o) \/ ExportJobFinished(o) \/ PrinterFinished(o)

ExportNext ==
  /\ cairoOp = NoCairo
  /\ \/ \E o \in Operation : PrintRange(o) \/ PrintDialogFailed(o) \/ ExportWork(o)
     \/ \E o \in Operation, st \in PrintSettings : PrintDialogAccepted(o, st)
     \/ \E taken \in BOOLEAN : CancelPrint(taken) \/ CloseAndCancel(taken)
     \/ HidePrintProgress \/ ReloadWhilePrinting \/ CloseWhilePrinting
     \/ CloseAfterPrinting \/ DoNotClose \/ DestroyWindow \/ RunStrayJob

\* A document is of one kind or the other.
PrintNext ==
  \/ ExportNext
  \/ \A o \in Operation : printOp[o].phase = "none" /\ ~printWin.destroyed /\ CairoBegin
  \/ CairoCancel \/ CairoWork

\* The worker, the main loop, GTK and the printer do not stop.
PrintFairness == WF_printVars(CairoWork \/ \E o \in Operation : ExportWork(o))
PrintSpec == PrintInit /\ [][PrintNext]_printVars /\ PrintFairness

-----------------------------------------------------------------------------
PrintTypeOK ==
  /\ \A o \in Operation :
       /\ printOp[o].phase \in {"none", "dialog", "queued", "sent", "over"} \cup Exporting
       /\ printOp[o].printed \in Seq(0 .. LastPage)
  /\ \A d \in PrintDoc : exporter[d].queue \in Seq(Operation)
  /\ printWin.queue \in Seq(Operation)
  /\ cairoOp.phase \in {"none", "ready", "deferred", "over"}

\* What is sent to the printer is what was asked for: every copy of every page
\* in order, on the sheets of the chosen set, whatever operations were cancelled
\* before; and no sheet is begun within another.
PrintedInFull ==
  \A o \in Operation : ~printOp[o].doubt =>
    /\ printOp[o].sent => printOp[o].printed = Asked(printOp[o].st)
    /\ printOp[o].open \in 0 .. 1

\* Operations of one document are exported one after the other, an operation
\* that the message area offers to cancel exists, and the page that the worker
\* draws on is not finished under it.
PrintExclusive ==
  /\ \A d \in PrintDoc :
       (\A o \in Operation : ~printOp[o].doubt) =>
         Cardinality({o \in Operation : printOp[o].doc = d
                                        /\ printOp[o].phase \in Exporting}) <= 1
  /\ printWin.area # "none" => printWin.queue # <<>>
  /\ cairoOp.job = "running" => (cairoOp.phase = "deferred" \/ cairoOp.raced)

\* The operations that were accepted end, whatever happens to those before them.
Printing == printWin.queue # <<>> \/ cairoOp.phase \in {"ready", "deferred"}
PrintEnds == Printing ~> ~Printing
===============================================================================
