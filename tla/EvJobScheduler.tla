--------------------------- MODULE EvJobScheduler ---------------------------
(***************************************************************************)
(* The scheduler of thread jobs, libview/ev-job-scheduler.c.               *)
(*                                                                         *)
(* Two threads.  The main thread pushes jobs, moves them between the       *)
(* priority queues and cancels them; the "EvJobScheduler" thread (here the *)
(* worker) takes the first entry of the most urgent queue that has one,    *)
(* runs its job and destroys the entry.  An entry is an EvSchedulerJob:    *)
(* one g_new0 per push, numbered in the order of the pushes, so that the   *)
(* same EvJob pushed again (a load retried with a password, the next page  *)
(* of a print job) has a new entry.                                        *)
(*                                                                         *)
(* A step is what one thread does between two points where the other can   *)
(* observe it.  A section under job_queue_mutex or G_LOCK (job_list) is    *)
(* one step; where the code takes both one after the other on data the     *)
(* other thread cannot reach yet or any more, they are one step too.       *)
(*                                                                         *)
(* What a run of a job does is in EvJob; jobs that run in the main loop    *)
(* never enter the queues and are in DocumentLocks.                        *)
(***************************************************************************)
EXTENDS Integers, FiniteSets, Sequences, SequencesExt

CONSTANTS
  Jobs,         \* the EvJobs of run mode EV_JOB_RUN_THREAD
  NoJob,        \* the NULL EvJob
  NPriorities,  \* EV_JOB_N_PRIORITIES
  MaxPushes     \* bound: entries ever allocated

ASSUME SchedulerAssumption ==
  /\ NoJob \notin Jobs
  /\ NPriorities \in Nat \ {0}
  /\ MaxPushes \in Nat

Priority == 0 .. (NPriorities - 1)   \* 0 is EV_JOB_PRIORITY_URGENT
Entry    == 1 .. MaxPushes
NoEntry  == 0

VARIABLES
  pushed,       \* entries allocated so far: 1 .. pushed
  freed,        \* entries released by ev_scheduler_job_free
  jobOf,        \* s_job->job
  priority,     \* s_job->priority
  job_queue,    \* the four GQueues
  job_list,     \* the entries of the GSList job_list
  handlers,     \* entries connected to "cancelled" of their job's cancellable
  cancelled,    \* jobs whose GCancellable is cancelled
  running_job,
  wpc,          \* where the worker is
  wentry,       \* the worker's local variable job
  mpc,          \* where the main thread is in a call that spans steps
  mjob,         \* the job being cancelled
  mentry,       \* the entry the main thread holds a pointer to
  mprio,        \* the argument priority of ev_job_scheduler_update_job
  asked         \* history: the priority last asked for an entry

entryVars  == <<pushed, jobOf, priority>>
workerVars == <<running_job, wpc, wentry>>
mainVars   == <<mpc, mjob, mentry, mprio>>
vars == <<entryVars, freed, job_queue, job_list, handlers, cancelled,
          workerVars, mainVars, asked>>

-----------------------------------------------------------------------------
Live == (1 .. pushed) \ freed

InQueue(e, p) == \E i \in DOMAIN job_queue[p] : job_queue[p][i] = e
Queued(e)     == \E p \in Priority : InQueue(e, p)

\* Mutant: the link is not deleted.
WithoutNothing(q, e) == q

\* g_queue_delete_link of the link that holds e
Without(q, e) == RemoveAt(q, CHOOSE i \in DOMAIN q : q[i] = e)

\* Mutant: no g_cond_broadcast.
NotWoken == wpc

\* g_cond_broadcast: a worker in g_cond_wait goes round its loop
Woken == IF wpc = "wait" THEN "pop" ELSE wpc

EntriesOf(j) == {e \in job_list : jobOf[e] = j}

\* job_list is only prepended to: the first match is the newest entry.
Found(j, e) == e \in EntriesOf(j) /\ \A f \in EntriesOf(j) : f <= e

\* ev_scheduler_job_free: the entry and what it holds are gone.
JobFree(e) ==
  /\ freed'    = freed \union {e}
  /\ jobOf'    = [jobOf EXCEPT ![e] = NoJob]
  /\ priority' = [priority EXCEPT ![e] = 0]
  /\ asked'    = [asked EXCEPT ![e] = 0]

-----------------------------------------------------------------------------
(* The main thread.  mpc = "loop" is the main loop between two calls.      *)

\* Mutant: g_queue_push_head.
PushHead(j, p) ==
  LET e == pushed + 1 IN
  /\ mpc = "loop"
  /\ j \notin cancelled
  /\ pushed < MaxPushes
  /\ pushed'    = e
  /\ jobOf'     = [jobOf EXCEPT ![e] = j]
  /\ priority'  = [priority EXCEPT ![e] = p]
  /\ job_list'  = job_list \union {e}
  /\ handlers'  = handlers \union {e}
  /\ job_queue' = [job_queue EXCEPT ![p] = <<e>> \o @]
  /\ wpc'       = IF wpc = "none" THEN "pop" ELSE Woken
  /\ asked'     = [asked EXCEPT ![e] = p]
  /\ UNCHANGED <<freed, cancelled, running_job, wentry, mainVars>>

\* ev_job_scheduler_push_job for a thread job.  The entry is unknown to the
\* worker until it is in its queue, hence one step.  No caller pushes a job
\* it has cancelled.  The first push starts the thread.
Push(j, p) ==
  LET e == pushed + 1 IN
  /\ mpc = "loop"
  /\ j \notin cancelled
  /\ pushed < MaxPushes
  /\ pushed'    = e
  /\ jobOf'     = [jobOf EXCEPT ![e] = j]
  /\ priority'  = [priority EXCEPT ![e] = p]
  /\ job_list'  = job_list \union {e}
  /\ handlers'  = handlers \union {e}
  /\ job_queue' = [job_queue EXCEPT ![p] = Append(@, e)]
  /\ wpc'       = IF wpc = "none" THEN "pop" ELSE Woken
  /\ asked'     = [asked EXCEPT ![e] = p]
  /\ UNCHANGED <<freed, cancelled, running_job, wentry, mainVars>>

\* Mutant: the priority is taken for a count of queues.
UpdateFindOffByOne(j, p) ==
  /\ mpc = "loop"
  /\ \E e \in Entry : Found(j, e) /\ mentry' = e
  /\ mpc' = "resort" /\ mprio' = p + 1
  /\ UNCHANGED <<entryVars, freed, job_queue, job_list, handlers, cancelled,
                 workerVars, mjob, asked>>

\* ev_job_scheduler_update_job, up to G_UNLOCK (job_list): the search and
\* need_resort.
UpdateFind(j, p) ==
  /\ mpc = "loop"
  /\ \E e \in Entry :
       /\ Found(j, e)
       /\ asked' = [asked EXCEPT ![e] = p]
       /\ IF priority[e] # p
          THEN mpc' = "resort" /\ mentry' = e /\ mprio' = p
          ELSE UNCHANGED <<mpc, mentry, mprio>>
  /\ UNCHANGED <<entryVars, freed, job_queue, job_list, handlers, cancelled,
                 workerVars, mjob>>

\* ev_job_scheduler_update_job, the section under job_queue_mutex.  s_job is
\* used after the list was unlocked, and the worker may have freed it by then.
\* What s_job->priority then reads is taken to be one of the priorities: no
\* queue holds a freed entry, so the search finds nothing whichever it is, and
\* no new entry has its address, as only this thread makes them.  (That a
\* freed slice gives an index outside job_queue is beyond the model.)
\* s_job->priority is not written.
UpdateMove ==
  LET e == mentry IN
  /\ mpc = "resort"
  /\ mpc' = "loop"
  /\ mentry' = NoEntry /\ mprio' = 0
  /\ \/ /\ e \notin freed /\ InQueue(e, priority[e])
        /\ LET shorter == [job_queue EXCEPT ![priority[e]] = Without(@, e)]
           IN  job_queue' = [shorter EXCEPT ![mprio] = Append(@, e)]
        /\ wpc' = Woken
     \/ /\ e \in freed \/ ~InQueue(e, priority[e])
        /\ UNCHANGED <<job_queue, wpc>>
  /\ UNCHANGED <<entryVars, freed, job_list, handlers, cancelled, running_job,
                 wentry, mjob, asked>>

\* ev_job_cancel: the cancellable is set, then its handlers are called.
Cancel(j) ==
  /\ mpc = "loop"
  /\ j \notin cancelled
  /\ cancelled' = cancelled \union {j}
  /\ mpc' = "emit" /\ mjob' = j /\ mentry' = NoEntry
  /\ UNCHANGED <<entryVars, freed, job_queue, job_list, handlers, workerVars,
                 mprio, asked>>

\* The emission reaches its next handler, in the order they were connected.
\* It keeps the closure alive, not the entry the closure points to.
EmitNext ==
  LET later == {e \in handlers : jobOf[e] = mjob /\ e > mentry} IN
  /\ mpc = "emit"
  /\ \/ /\ \E e \in later : (\A f \in later : e <= f) /\ mentry' = e
        /\ mpc' = "handler"
        /\ UNCHANGED mjob
     \/ /\ later = {}
        /\ mpc' = "loop" /\ mentry' = NoEntry /\ mjob' = NoJob
  /\ UNCHANGED <<entryVars, freed, job_queue, job_list, handlers, cancelled,
                 workerVars, mprio, asked>>

\* Mutant: the handler destroys the entry whether or not it found it queued.
DestroyRunningToo ==
  LET e == mentry IN
  /\ mpc = "handler"
  /\ mpc' = "emit"
  /\ job_queue' = [p \in Priority |-> SelectSeq(job_queue[p], LAMBDA f : f # e)]
  /\ handlers'  = handlers \ {e}
  /\ job_list'  = job_list \ {e}
  /\ JobFree(e)
  /\ UNCHANGED <<pushed, cancelled, workerVars, mjob, mentry, mprio>>

\* ev_scheduler_thread_job_cancelled, with ev_scheduler_job_destroy when the
\* entry is still queued: once it is out of the queue no other thread knows it.
\* The worker may have freed the entry since the emission chose the handler;
\* as in UpdateMove, no queue holds it, whatever priority is read.
ThreadJobCancelled ==
  LET e == mentry IN
  /\ mpc = "handler"
  /\ mpc' = "emit"
  /\ \/ /\ e \notin freed /\ InQueue(e, priority[e])
        /\ job_queue' = [job_queue EXCEPT ![priority[e]] = Without(@, e)]
        /\ handlers'  = handlers \ {e}
        /\ job_list'  = job_list \ {e}
        /\ JobFree(e)
     \/ /\ e \in freed \/ ~InQueue(e, priority[e])
        /\ UNCHANGED <<job_queue, handlers, job_list, freed, jobOf, priority,
                       asked>>
  /\ UNCHANGED <<pushed, cancelled, workerVars, mjob, mentry, mprio>>

-----------------------------------------------------------------------------
(* The worker, ev_job_thread_proxy.                                        *)

Backlog == {p \in Priority : job_queue[p] # << >>}
\* Mutant: the queues are tried from the last one.
LeastUrgent(p) == p \in Backlog /\ \A q \in Backlog : p >= q

MostUrgent(p) == p \in Backlog /\ \A q \in Backlog : p <= q

\* ev_job_queue_get_next_unlocked finds a job.
Pop ==
  /\ wpc = "pop"
  /\ \E p \in Priority :
       /\ MostUrgent(p)
       /\ wentry' = Head(job_queue[p])
       /\ job_queue' = [job_queue EXCEPT ![p] = Tail(@)]
  /\ wpc' = "check"
  /\ UNCHANGED <<entryVars, freed, job_list, handlers, cancelled, running_job,
                 mainVars, asked>>

\* No job: g_cond_wait releases job_queue_mutex.
Wait ==
  /\ wpc = "pop"
  /\ Backlog = {}
  /\ wpc' = "wait"
  /\ UNCHANGED <<entryVars, freed, job_queue, job_list, handlers, cancelled,
                 running_job, wentry, mainVars, asked>>

\* A wait on a condition variable may return without a broadcast.
SpuriousWakeup ==
  /\ wpc = "wait"
  /\ wpc' = "pop"
  /\ UNCHANGED <<entryVars, freed, job_queue, job_list, handlers, cancelled,
                 running_job, wentry, mainVars, asked>>

\* ev_job_thread: skip a cancelled job, or publish it and run it.
Check ==
  /\ wpc = "check"
  /\ IF jobOf[wentry] \in cancelled
     THEN wpc' = "unset" /\ UNCHANGED running_job
     ELSE wpc' = "run" /\ running_job' = jobOf[wentry]
  /\ UNCHANGED <<entryVars, freed, job_queue, job_list, handlers, cancelled,
                 wentry, mainVars, asked>>

\* ev_job_run returns: FALSE for every job of run mode THREAD.
RunReturns ==
  /\ wpc = "run"
  /\ wpc' = "unset"
  /\ UNCHANGED <<entryVars, freed, job_queue, job_list, handlers, cancelled,
                 running_job, wentry, mainVars, asked>>

Unset ==
  /\ wpc = "unset"
  /\ running_job' = NoJob
  /\ wpc' = "disconnect"
  /\ UNCHANGED <<entryVars, freed, job_queue, job_list, handlers, cancelled,
                 wentry, mainVars, asked>>

\* Mutant: the handler stays connected.
DisconnectForgotten ==
  /\ wpc = "disconnect"
  /\ wpc' = "unlist"
  /\ UNCHANGED <<entryVars, freed, job_queue, job_list, handlers, cancelled,
                 running_job, wentry, mainVars, asked>>

\* ev_scheduler_job_destroy on the worker, three steps.
Disconnect ==
  /\ wpc = "disconnect"
  /\ handlers' = handlers \ {wentry}
  /\ wpc' = "unlist"
  /\ UNCHANGED <<entryVars, freed, job_queue, job_list, cancelled, running_job,
                 wentry, mainVars, asked>>

Unlist ==
  /\ wpc = "unlist"
  /\ job_list' = job_list \ {wentry}
  /\ wpc' = "free"
  /\ UNCHANGED <<entryVars, freed, job_queue, handlers, cancelled, running_job,
                 wentry, mainVars, asked>>

Free ==
  /\ wpc = "free"
  /\ JobFree(wentry)
  /\ wentry' = NoEntry
  /\ wpc' = "pop"
  /\ UNCHANGED <<pushed, job_queue, job_list, handlers, cancelled, running_job,
                 mainVars>>

-----------------------------------------------------------------------------
Init ==
  /\ pushed = 0 /\ freed = {}
  /\ jobOf = [e \in Entry |-> NoJob]
  /\ priority = [e \in Entry |-> 0]
  /\ job_queue = [p \in Priority |-> << >>]
  /\ job_list = {} /\ handlers = {} /\ cancelled = {}
  /\ running_job = NoJob /\ wpc = "none" /\ wentry = NoEntry
  /\ mpc = "loop" /\ mjob = NoJob /\ mentry = NoEntry /\ mprio = 0
  /\ asked = [e \in Entry |-> 0]

Worker == Pop \/ Wait \/ Check \/ RunReturns \/ Unset \/ Disconnect \/ Unlist \/ Free
MainReturns == UpdateMove \/ EmitNext \/ ThreadJobCancelled
MainCalls ==
  \/ \E j \in Jobs, p \in Priority : Push(j, p)
  \/ \E j \in Jobs, p \in Priority : UpdateFind(j, p)
  \/ \E j \in Jobs : Cancel(j)

Next == MainCalls \/ MainReturns \/ Worker \/ SpuriousWakeup

\* The worker is an operating-system thread whose jobs return, and a call of
\* the main thread runs to its end; what the user does next is not promised.
Fairness == WF_vars(Worker) /\ WF_vars(MainReturns)

Spec == Init /\ [][Next]_vars /\ Fairness

-----------------------------------------------------------------------------
(* Properties.                                                             *)

TypeOK ==
  /\ pushed \in 0 .. MaxPushes
  /\ freed \subseteq Entry
  /\ jobOf \in [Entry -> Jobs \union {NoJob}]
  /\ priority \in [Entry -> Priority]
  /\ job_queue \in [Priority -> Seq(Entry)]
  /\ job_list \subseteq Entry /\ handlers \subseteq Entry
  /\ cancelled \subseteq Jobs
  /\ running_job \in Jobs \union {NoJob}
  /\ wpc \in {"none", "pop", "wait", "check", "run", "unset", "disconnect",
              "unlist", "free"}
  /\ wentry \in Entry \union {NoEntry}
  /\ mpc \in {"loop", "resort", "emit", "handler"}
  /\ mjob \in Jobs \union {NoJob}
  /\ mentry \in Entry \union {NoEntry}
  /\ mprio \in Priority
  /\ asked \in [Entry -> Priority]

\* A live entry is either queued or in the worker's hands, never both and
\* never neither: cancelling and finishing cannot destroy it twice (both
\* threads call ev_scheduler_job_destroy) nor forget it.
Busy == {"check", "run", "unset", "disconnect", "unlist", "free"}
OneOwner ==
  /\ wpc \in Busy <=> wentry # NoEntry
  /\ \A e \in Entry : e \in Live <=> (Queued(e) \/ e = wentry)
  /\ wentry # NoEntry => ~Queued(wentry)

\* No entry has two links in the queues, whatever update_job moved.
QueuedOnce ==
  \A p, q \in Priority :
    \A i \in DOMAIN job_queue[p], k \in DOMAIN job_queue[q] :
      job_queue[p][i] = job_queue[q][k] => p = q /\ i = k

\* job_list and the "cancelled" handlers cover exactly the live entries, but
\* for the one the worker is taking down: update_job and cancel find them all.
ListedWhileLive ==
  /\ job_list = Live \ (IF wpc = "free" THEN {wentry} ELSE {})
  /\ handlers = Live \ (IF wpc \in {"unlist", "free"} THEN {wentry} ELSE {})

\* The worker sleeps only when there is nothing to run: no wakeup is lost
\* between ev_job_queue_get_next_unlocked and g_cond_wait.
SleepsOnlyWhenIdle == wpc = "wait" => Backlog = {}

\* running_job, which the print dialog compares with its own job, is the job
\* of the entry the worker holds, and is NULL when it holds none.
RunningJobIsHeld ==
  running_job # NoJob =>
    wpc \in {"run", "unset"} /\ running_job = jobOf[wentry]

\* Within one queue, entries that were never moved are in the order of their
\* pushes.
FirstComeFirstServed ==
  \A p \in Priority : \A i, k \in DOMAIN job_queue[p] :
    /\ i < k
    /\ priority[job_queue[p][i]] = p
    /\ priority[job_queue[p][k]] = p
    => job_queue[p][i] < job_queue[p][k]

\* Every job pushed is eventually run to its end, skipped or withdrawn, and
\* its entry released.  (With MaxPushes entries in all, this says it of each.)
EveryEntryReleased == Live # {} ~> Live = {}

\* The priority comments of ev-job-scheduler.h: a queued job is in the queue
\* last asked for it (a visible page in the urgent one).
PriorityHonoured ==
  mpc = "loop" =>
    \A e \in Entry, p \in Priority : InQueue(e, p) => p = asked[e]

\* What the scheduler promises, see JobPool.
Phase ==
  [e \in Entry |->
    IF e > pushed THEN "new"
    ELSE IF e \in freed THEN "retired"
    ELSE IF e = wentry THEN "running" ELSE "waiting"]
Class ==
  [e \in Entry |->
    IF Queued(e) THEN CHOOSE p \in Priority : InQueue(e, p) ELSE NPriorities]
Pool == INSTANCE JobPool WITH phase <- Phase, class <- Class
PoolSpec == Pool!Spec
=============================================================================
