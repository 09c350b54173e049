---------------------------- MODULE DocumentLocks ----------------------------
(***************************************************************************)
(* The two process-wide locks around document back ends, ev_doc_mutex and  *)
(* ev_fc_mutex (libdocument/ev-document.c), and the jobs of run mode       *)
(* EV_JOB_RUN_MAIN_LOOP, find and fonts (libview/ev-jobs.c), which run     *)
(* from an idle source of the main loop and only try the locks.            *)
(*                                                                         *)
(* The worker runs thread jobs (EvJobScheduler) that lock doc, doc then    *)
(* fc, or fc alone.  The main thread also locks one of the two directly in *)
(* the handlers of the view, the window, the sidebars and the print        *)
(* operation.                                                              *)
(***************************************************************************)
EXTENDS Integers, Sequences

CONSTANTS
  MaxJobs,           \* bound: thread jobs run
  Steps,             \* pages to search, batches of 20 pages to scan for fonts
  ReloadUnderDialog  \* may a document be loaded while fonts are scanned

ASSUME LocksAssumption ==
  MaxJobs \in Nat /\ Steps \in Nat \ {0} /\ ReloadUnderDialog \in BOOLEAN

VARIABLES
  doc, fc,    \* who holds the mutex
  dialog,     \* the font page of the properties dialog is there
  wkind,      \* the job the worker runs
  wheld,      \* how many of its locks it holds
  workerAt,   \* "idle", "lock", or "unlock"
  jobs,       \* thread jobs started
  mainAt,     \* where the main thread is
  state,      \* of the find and of the fonts job
  source,     \* their idle source is attached
  entry,      \* their EvSchedulerJob is in job_list
  left        \* steps they have left

mutexes  == <<doc, fc>>
worker   == <<wkind, wheld, workerAt, jobs>>
mainJobs == <<state, source, entry, left>>
lockVars == <<mutexes, dialog, worker, mainAt, mainJobs>>

MainJob == {"find", "fonts"}

-----------------------------------------------------------------------------
(* The worker.                                                             *)

\* The locks a thread job takes, in order.  "page" stands for links,
\* attachments, annotations, page data, save, layers, export and print.
Locks(kind) ==
  CASE kind = "render"    -> <<"doc", "fc">>
    [] kind = "thumbnail" -> <<"doc", "fc">>   \* fc in ev-poppler.cc
    [] kind = "page"      -> <<"doc">>
    [] kind = "load"      -> <<"fc">>

SetLock(lock, owner) ==
  /\ doc' = IF lock = "doc" THEN owner ELSE doc
  /\ fc'  = IF lock = "fc" THEN owner ELSE fc
IsFree(lock) == IF lock = "doc" THEN doc = "free" ELSE fc = "free"

StartJob(kind) ==
  /\ workerAt = "idle" /\ jobs < MaxJobs
  /\ kind = "load" => ReloadUnderDialog \/ ~dialog
  /\ jobs' = jobs + 1
  /\ wkind' = kind /\ wheld' = 0 /\ workerAt' = "lock"
  /\ UNCHANGED <<mutexes, dialog, mainAt, mainJobs>>

\* g_mutex_lock of the next lock.
WorkerLocks ==
  /\ workerAt = "lock"
  /\ LET lock == Locks(wkind)[wheld + 1] IN IsFree(lock) /\ SetLock(lock, "worker")
  /\ wheld' = wheld + 1
  /\ workerAt' = IF wheld + 1 = Len(Locks(wkind)) THEN "unlock" ELSE "lock"
  /\ UNCHANGED <<dialog, wkind, jobs, mainAt, mainJobs>>

\* The job is done with the document: the locks go in reverse order.
WorkerUnlocks ==
  /\ workerAt = "unlock"
  /\ SetLock(Locks(wkind)[wheld], "free")
  /\ wheld' = wheld - 1
  /\ workerAt' = IF wheld = 1 THEN "idle" ELSE "unlock"
  /\ UNCHANGED <<dialog, wkind, jobs, mainAt, mainJobs>>

-----------------------------------------------------------------------------
(* The main thread.                                                        *)

\* A handler that locks one of the two mutexes around a call of the document.
Handler(lock) ==
  /\ mainAt = "loop"
  /\ mainAt' = IF lock = "doc" THEN "wants_doc" ELSE "wants_fc"
  /\ UNCHANGED <<mutexes, dialog, worker, mainJobs>>

HandlerLocks ==
  LET lock == IF mainAt = "wants_doc" THEN "doc" ELSE "fc" IN
  /\ mainAt \in {"wants_doc", "wants_fc"}
  /\ IsFree(lock) /\ SetLock(lock, "main")
  /\ mainAt' = IF lock = "doc" THEN "in_doc" ELSE "in_fc"
  /\ UNCHANGED <<dialog, worker, mainJobs>>

\* Mutant: an early return leaves the mutex locked.
HandlerReturnsEarly ==
  /\ mainAt \in {"in_doc", "in_fc"}
  /\ mainAt' = "loop"
  /\ UNCHANGED <<mutexes, dialog, worker, mainJobs>>

HandlerUnlocks ==
  /\ mainAt \in {"in_doc", "in_fc"}
  /\ SetLock(IF mainAt = "in_doc" THEN "doc" ELSE "fc", "free")
  /\ mainAt' = "loop"
  /\ UNCHANGED <<dialog, worker, mainJobs>>

\* ev_job_scheduler_push_job of a main loop job: an entry with a handler on
\* both signals of the job, and an idle source.
PushMain(j) ==
  /\ mainAt = "loop" /\ state[j] = "new"
  /\ j = "fonts" => dialog
  /\ state'  = [state EXCEPT ![j] = "active"]
  /\ source' = [source EXCEPT ![j] = TRUE]
  /\ entry'  = [entry EXCEPT ![j] = TRUE]
  /\ UNCHANGED <<mutexes, dialog, worker, mainAt, left>>

\* Mutant: the entry's handler is not connected to "cancelled".
CancelMainUnheard(j) ==
  /\ mainAt = "loop" /\ state[j] = "active"
  /\ state' = [state EXCEPT ![j] = "cancelled"]
  /\ UNCHANGED <<mutexes, dialog, worker, mainAt, source, entry, left>>

\* ev_job_cancel of an unfinished main loop job: "cancelled" is emitted and
\* ev_scheduler_job_destroy runs; the source stays until it is dispatched.
CancelMain(j) ==
  /\ mainAt = "loop" /\ state[j] = "active"
  /\ state' = [state EXCEPT ![j] = "cancelled"]
  /\ entry' = [entry EXCEPT ![j] = FALSE]
  /\ UNCHANGED <<mutexes, dialog, worker, mainAt, source, left>>

\* ev_job_idle of a cancelled job: the source is removed.
IdleCancelled(j) ==
  /\ mainAt = "loop" /\ source[j] /\ state[j] = "cancelled"
  /\ source' = [source EXCEPT ![j] = FALSE]
  /\ UNCHANGED <<mutexes, dialog, worker, mainAt, state, entry, left>>

\* ev_job_idle, then the run of the job: trylock of doc, or another round.
IdleTriesDoc(j) ==
  /\ mainAt = "loop" /\ source[j] /\ state[j] = "active"
  /\ \/ IsFree("doc") /\ doc' = "main" /\ mainAt' = j
     \/ ~IsFree("doc") /\ UNCHANGED <<doc, mainAt>>
  /\ UNCHANGED <<fc, dialog, worker, mainJobs>>

\* ev_job_fonts_run: trylock of fc; when it fails the run returns TRUE.
FontsTriesFc ==
  /\ mainAt = "fonts"
  /\ \/ IsFree("fc") /\ fc' = "main" /\ mainAt' = "scan"
     \/ ~IsFree("fc") /\ mainAt' = "loop" /\ UNCHANGED fc
  /\ UNCHANGED <<doc, dialog, worker, mainJobs>>

\* The rest of ev_job_find_run and of ev_job_fonts_run: one page or one
\* batch, the locks released, and after the last one ev_job_succeeded, whose
\* "finished" destroys the entry, and FALSE, which removes the source.
Step(j) ==
  /\ mainAt = (IF j = "find" THEN "find" ELSE "scan")
  /\ mainAt' = "loop"
  /\ doc' = "free"
  /\ fc' = IF j = "fonts" THEN "free" ELSE fc
  /\ left' = [left EXCEPT ![j] = @ - 1]
  /\ IF left[j] = 1
     THEN /\ state'  = [state EXCEPT ![j] = "finished"]
          /\ source' = [source EXCEPT ![j] = FALSE]
          /\ entry'  = [entry EXCEPT ![j] = FALSE]
     ELSE UNCHANGED <<state, source, entry>>
  /\ UNCHANGED <<dialog, worker>>

-----------------------------------------------------------------------------
LockInit ==
  /\ doc = "free" /\ fc = "free"
  /\ dialog \in BOOLEAN
  /\ wkind = "page" /\ wheld = 0 /\ workerAt = "idle" /\ jobs = 0
  /\ mainAt = "loop"
  /\ state = [j \in MainJob |-> "new"]
  /\ source = [j \in MainJob |-> FALSE] /\ entry = [j \in MainJob |-> FALSE]
  /\ left = [j \in MainJob |-> Steps]

HandlerReturns == HandlerLocks \/ HandlerUnlocks
Idle(j) == IdleTriesDoc(j) \/ IdleCancelled(j)
StepReturns == FontsTriesFc \/ \E j \in MainJob : Step(j)
LockNext ==
  \/ \E kind \in {"render", "thumbnail", "page", "load"} : StartJob(kind)
  \/ WorkerLocks \/ WorkerUnlocks
  \/ \E lock \in {"doc", "fc"} : Handler(lock)
  \/ HandlerReturns \/ StepReturns
  \/ \E j \in MainJob : PushMain(j) \/ CancelMain(j) \/ Idle(j)

\* A thread that waits for a mutex which is free again and again gets it; what
\* a handler or a run has begun it ends; the main loop, whose handlers return
\* to it, comes round to each of its idle sources.
LockFairness ==
  /\ SF_lockVars(WorkerLocks) /\ WF_lockVars(WorkerUnlocks)
  /\ SF_lockVars(HandlerLocks) /\ WF_lockVars(HandlerUnlocks) /\ WF_lockVars(StepReturns)
  /\ \A j \in MainJob : SF_lockVars(Idle(j))

LockSpec == LockInit /\ [][LockNext]_lockVars /\ LockFairness

-----------------------------------------------------------------------------
(* Properties.                                                             *)

LockTypeOK ==
  /\ {doc, fc} \subseteq {"free", "worker", "main"} /\ dialog \in BOOLEAN
  /\ wkind \in {"render", "thumbnail", "page", "load"}
  /\ wheld \in 0 .. 2 /\ workerAt \in {"idle", "lock", "unlock"}
  /\ jobs \in 0 .. MaxJobs
  /\ mainAt \in {"loop", "wants_doc", "in_doc", "wants_fc", "in_fc", "find",
                 "fonts", "scan"}
  /\ state \in [MainJob -> {"new", "active", "cancelled", "finished"}]
  /\ source \in [MainJob -> BOOLEAN] /\ entry \in [MainJob -> BOOLEAN]
  /\ left \in [MainJob -> 0 .. Steps]

\* "Do not block the main loop", say ev_job_fonts_run and ev_job_find_run: the
\* main thread never waits for a mutex that it holds itself, and never goes
\* back to the main loop with one.
MainLoopNotBlocked ==
  mainAt \in {"loop", "wants_doc", "wants_fc"} => "main" \notin {doc, fc}

\* The scheduler's entry of a main loop job lives exactly as long as the job:
\* while it is listed the idle source that will end it is attached, and when
\* the source goes the entry has gone, whichever signal released it.
EntryHasSource ==
  \A j \in MainJob : entry[j] <=> state[j] = "active" /\ source[j]

\* Neither thread waits for a mutex for ever: the order doc, fc and the
\* trylocks of the main loop leave no cycle.
NobodyWaitsForEver ==
  /\ (workerAt = "lock" ~> workerAt = "unlock")
  /\ (mainAt \in {"wants_doc", "wants_fc"} ~> mainAt = "loop")

\* A search or a font scan ends although it never waits for the locks (the
\* thread jobs that hold them are finitely many here).
MainJobsEnd == \A j \in MainJob : state[j] = "active" ~> ~source[j]

\* Both: the mutexes keep nobody from coming to an end.
EverybodyGetsOn == NobodyWaitsForEver /\ MainJobsEnd
=============================================================================
