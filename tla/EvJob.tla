-------------------------------- MODULE EvJob --------------------------------
(***************************************************************************)
(* One thread job, libview/ev-jobs.c: what its run on the worker and       *)
(* ev_job_cancel on the main thread do to its flags, and which of the two  *)
(* signals its clients get.                                                *)
(*                                                                         *)
(* The flags cancelled, finished and failed are bit-fields of one word     *)
(* that both threads write without a lock: a store to one of them reads    *)
(* the word, changes a bit and writes the word back, so a store of the     *)
(* other thread in between is lost.  The reading and the writing are two   *)
(* steps here.                                                             *)
(*                                                                         *)
(* The same job may run again: a load is retried with a password, a print  *)
(* job is pushed for each page.  The scheduler's lists are in              *)
(* EvJobScheduler; the cancelled job is skipped there too (Check).         *)
(***************************************************************************)
EXTENDS Integers, FiniteSets, Sequences, SequencesExt

CONSTANTS
  MaxRuns,   \* bound: how often the job is pushed
  Outcomes   \* how a run may end: "ok", "error", or "silent", see Run

ASSUME JobAssumption ==
  /\ MaxRuns \in Nat \ {0}
  /\ Outcomes \subseteq {"ok", "error", "silent"}

VARIABLES
  bits,              \* the word: a subset of Bits
  cancellable,       \* g_cancellable_is_cancelled (job->cancellable)
  idle,              \* emit_finished sources attached to the main context
  idle_finished_id,  \* 0 or a source
  runs,              \* pushes so far; the source of a run has its number
  queued,            \* the job is in a queue of the scheduler
  tpc, wword, wrun,  \* where the worker is, the word it read, its run
  outcome,           \* how the run ends
  cpc, mword,        \* where ev_job_cancel is, and the word it read
  told               \* history: the signals emitted

threadVars == <<tpc, wword, wrun, outcome>>
cancelVars == <<cpc, mword>>
jobVars == <<bits, cancellable, idle, idle_finished_id, runs, queued,
             threadVars, cancelVars, told>>

Bits   == {"cancelled", "finished", "failed"}
NoWord == {"none"}   \* no store is under way
Times(signal) == Cardinality({i \in DOMAIN told : told[i] = signal})

-----------------------------------------------------------------------------
(* The main thread.                                                        *)

\* A client pushes the job, again once it was told that a run finished; the
\* clients do not push what they cancelled.
PushJob ==
  /\ cpc = "loop"
  /\ runs < MaxRuns /\ Times("finished") = runs
  /\ "cancelled" \notin bits /\ ~cancellable
  /\ runs' = runs + 1
  /\ queued' = TRUE
  /\ UNCHANGED <<bits, cancellable, idle, idle_finished_id, threadVars,
                 cancelVars, told>>

\* The idle source: emit_finished.
EmitFinished(id) ==
  /\ cpc = "loop"
  /\ id \in idle
  /\ idle' = idle \ {id}
  /\ idle_finished_id' = 0
  /\ told' = IF "cancelled" \in bits THEN told ELSE Append(told, "finished")
  /\ UNCHANGED <<bits, cancellable, runs, queued, threadVars, cancelVars>>

\* Mutant: it does not return when the flag is set.
CancelReadAgain ==
  /\ cpc = "loop" /\ runs > 0
  /\ cpc' = "set" /\ mword' = bits
  /\ UNCHANGED <<bits, cancellable, idle, idle_finished_id, runs, queued,
                 threadVars, told>>

\* ev_job_cancel: returns at once when the flag is set, which may be lost; reads
\* the word.
CancelRead ==
  /\ cpc = "loop" /\ runs > 0
  /\ "cancelled" \notin bits
  /\ cpc' = "set" /\ mword' = bits
  /\ UNCHANGED <<bits, cancellable, idle, idle_finished_id, runs, queued,
                 threadVars, told>>

CancelWrite ==
  /\ cpc = "set"
  /\ bits' = mword \union {"cancelled"}
  /\ cpc' = "trigger" /\ mword' = NoWord
  /\ UNCHANGED <<cancellable, idle, idle_finished_id, runs, queued,
                 threadVars, told>>

\* g_cancellable_cancel; its handler, called the first time only, takes a queued job
\* out of the queue.
CancelTrigger ==
  /\ cpc = "trigger"
  /\ cancellable' = TRUE
  /\ queued' = (queued /\ cancellable)
  /\ cpc' = "finished"
  /\ UNCHANGED <<bits, idle, idle_finished_id, runs, threadVars, mword, told>>

\* if (job->finished && job->idle_finished_id == 0) return;
CancelFinished ==
  /\ cpc = "finished"
  /\ cpc' = IF "finished" \in bits THEN "id" ELSE "emit"
  /\ UNCHANGED <<bits, cancellable, idle, idle_finished_id, runs, queued,
                 threadVars, mword, told>>

CancelId ==
  /\ cpc = "id"
  /\ cpc' = IF idle_finished_id = 0 THEN "loop" ELSE "emit"
  /\ UNCHANGED <<bits, cancellable, idle, idle_finished_id, runs, queued,
                 threadVars, mword, told>>

CancelEmit ==
  /\ cpc = "emit"
  /\ told' = Append(told, "cancelled")
  /\ cpc' = "loop"
  /\ UNCHANGED <<bits, cancellable, idle, idle_finished_id, runs, queued,
                 threadVars, mword>>

-----------------------------------------------------------------------------
(* The worker.  A store to a flag takes two steps at the same tpc.         *)

Change(word, pc) ==
  CASE pc = "clear"  -> word \ {"finished", "failed"}
    [] pc = "mark"   -> IF outcome = "error" THEN word \union {"failed"}
                                             ELSE word \ {"failed"}
    [] pc = "finish" -> word \union {"finished"}

Following(pc) ==
  CASE pc = "clear" -> "run" [] pc = "mark" -> "test" [] pc = "finish" -> "add"

ReadWord ==
  /\ tpc \in {"clear", "mark", "finish"} /\ wword = NoWord
  /\ wword' = bits
  /\ UNCHANGED <<bits, cancellable, idle, idle_finished_id, runs, queued, tpc,
                 wrun, outcome, cancelVars, told>>

WriteWord ==
  /\ tpc \in {"clear", "mark", "finish"} /\ wword # NoWord
  /\ bits' = Change(wword, tpc)
  /\ tpc' = Following(tpc) /\ wword' = NoWord
  /\ UNCHANGED <<cancellable, idle, idle_finished_id, runs, queued, wrun,
                 outcome, cancelVars, told>>

\* Mutant: a new run does not reset the flags.
StartWithoutReset ==
  /\ tpc = "off" /\ queued
  /\ queued' = FALSE
  /\ wrun' = runs
  /\ tpc' = IF cancellable THEN "off" ELSE "run"
  /\ UNCHANGED <<bits, cancellable, idle, idle_finished_id, runs, wword,
                 outcome, cancelVars, told>>

\* ev_job_thread.  A run that is not the first (a load that has a document, a
\* print job) begins with failed = finished = FALSE.
Start ==
  /\ tpc = "off" /\ queued
  /\ queued' = FALSE
  /\ wrun' = runs
  /\ tpc' = IF cancellable THEN "off" ELSE IF runs > 1 THEN "clear" ELSE "run"
  /\ UNCHANGED <<bits, cancellable, idle, idle_finished_id, runs, wword,
                 outcome, cancelVars, told>>

\* The class's run: it ends with ev_job_succeeded, with ev_job_failed, or with
\* neither: render and print jobs when they find themselves cancelled, a save
\* job when ev_file_compress gives neither a file nor an error.
Run(o) ==
  /\ tpc = "run"
  /\ o \in Outcomes \union (IF cancellable THEN {"silent"} ELSE {})
  /\ outcome' = o
  /\ tpc' = IF \/ o = "silent" \/ "finished" \in bits
               \/ o = "error" /\ "failed" \in bits
            THEN "off" ELSE "mark"
  /\ UNCHANGED <<bits, cancellable, idle, idle_finished_id, runs, queued,
                 wword, wrun, cancelVars, told>>

\* Mutant: ev_job_emit_finished does not look at the cancellable.
TestForgotten ==
  /\ tpc = "test"
  /\ tpc' = "finish"
  /\ UNCHANGED <<bits, cancellable, idle, idle_finished_id, runs, queued,
                 wword, wrun, outcome, cancelVars, told>>

\* ev_job_emit_finished: the test of the cancellable.
Test ==
  /\ tpc = "test"
  /\ tpc' = IF cancellable THEN "off" ELSE "finish"
  /\ UNCHANGED <<bits, cancellable, idle, idle_finished_id, runs, queued,
                 wword, wrun, outcome, cancelVars, told>>

\* g_idle_add_full: the main thread may dispatch the source from here on.
AddIdle ==
  /\ tpc = "add"
  /\ idle' = idle \union {wrun}
  /\ tpc' = "assign"
  /\ UNCHANGED <<bits, cancellable, idle_finished_id, runs, queued, wword,
                 wrun, outcome, cancelVars, told>>

\* Mutant: the id of the next source is stored.
AssignNext ==
  /\ tpc = "assign"
  /\ idle_finished_id' = wrun + 1
  /\ tpc' = "off"
  /\ UNCHANGED <<bits, cancellable, idle, runs, queued, wword, wrun, outcome,
                 cancelVars, told>>

\* Its result is stored, whether or not the source was dispatched meanwhile.
Assign ==
  /\ tpc = "assign"
  /\ idle_finished_id' = wrun
  /\ tpc' = "off"
  /\ UNCHANGED <<bits, cancellable, idle, runs, queued, wword, wrun, outcome,
                 cancelVars, told>>

-----------------------------------------------------------------------------
JobInit ==
  /\ bits = {} /\ cancellable = FALSE
  /\ idle = {} /\ idle_finished_id = 0
  /\ runs = 0 /\ queued = FALSE
  /\ tpc = "off" /\ wword = NoWord /\ wrun = 0 /\ outcome = "silent"
  /\ cpc = "loop" /\ mword = NoWord
  /\ told = << >>

JobThread ==
  \/ Start \/ ReadWord \/ WriteWord \/ Test \/ AddIdle \/ Assign
  \/ \E o \in {"ok", "error", "silent"} : Run(o)
CancelReturns ==
  CancelWrite \/ CancelTrigger \/ CancelFinished \/ CancelId \/ CancelEmit
MainLoop == \E id \in 1 .. MaxRuns : EmitFinished(id)
JobNext == PushJob \/ CancelRead \/ CancelReturns \/ MainLoop \/ JobThread

\* The worker's jobs return, ev_job_cancel returns, and the main loop
\* dispatches the idle sources that are attached to it.
JobFairness ==
  WF_jobVars(JobThread) /\ WF_jobVars(CancelReturns) /\ WF_jobVars(MainLoop)
JobSpec == JobInit /\ [][JobNext]_jobVars /\ JobFairness

-----------------------------------------------------------------------------
(* Properties.                                                             *)

JobTypeOK ==
  /\ bits \subseteq Bits /\ cancellable \in BOOLEAN
  /\ idle \subseteq 1 .. MaxRuns /\ idle_finished_id \in 0 .. MaxRuns
  /\ runs \in 0 .. MaxRuns /\ queued \in BOOLEAN
  /\ tpc \in {"off", "clear", "run", "mark", "test", "finish", "add", "assign"}
  /\ wword \in (SUBSET Bits) \union {NoWord} /\ wrun \in 0 .. MaxRuns
  /\ outcome \in {"ok", "error", "silent"}
  /\ cpc \in {"loop", "set", "trigger", "finished", "id", "emit"}
  /\ mword \in (SUBSET Bits) \union {NoWord}
  /\ told \in Seq({"finished", "cancelled"})

\* A job whose cancellable is set before the worker passed the test of
\* ev_job_emit_finished, with no notice already on its way, never reports
\* "finished" again, however far its run had got and whatever became of the
\* cancelled bit.
SettledCancel ==
  cancellable /\ idle = {} /\ tpc \notin {"finish", "add"}
CancelledStaysSilent ==
  [][SettledCancel => SettledCancel' /\ Times("finished")' = Times("finished")]_jobVars

\* When a client is told "finished", what it reads in the flags is the end of
\* the run it is told about: finished is set, and failed is set if and only if
\* that run failed, whatever an earlier run or a concurrent cancel stored.
FinishedTellsTheRun ==
  [][Times("finished")' > Times("finished") =>
       "finished" \in bits /\ ("failed" \in bits <=> outcome = "error")]_jobVars

\* Both: a signal says what happened to the run that it is about.
SignalsTellTheTruth == CancelledStaysSilent /\ FinishedTellsTheRun

\* No client is told "finished" twice of one push, however ev_job_cancel and the worker
\* interleave; it is told "cancelled" once, and once more for each store of the worker
\* that undoes the bit before ev_job_cancel is called again, which is three times at
\* most.
SignalsAreFew == Times("finished") <= runs /\ Times("cancelled") <= 3

\* Every push is answered with "finished", unless the client cancels the job.
\* (For runs that end with succeeded or failed; a silent end is a hazard.)
EveryRunTold ==
  \A r \in 1 .. MaxRuns :
    runs = r ~> (Times("finished") >= r \/ cpc # "loop" \/ cancellable)

\* The debug message of emit_finished, "job was cancelled, do not emit
\* finished": once ev_job_cancel has returned, "finished" is not emitted.
FinishedNotAfterCancel ==
  [][cancellable /\ cpc = "loop" => Times("finished")' = Times("finished")]_jobVars
=============================================================================
