----------------------------- MODULE EvPageCache -----------------------------
(***************************************************************************)
(* The data of the pages of a view that are not pixels (links, text,       *)
(* annotations, ...), libview/ev-page-cache.c, with the job that collects  *)
(* them, ev_job_page_data_run, and the view that adds an annotation.       *)
(*                                                                         *)
(* A kind of data is an element of Kinds, and flags are sets of kinds.     *)
(* What a page has of a kind is a list or NULL; the list of annotations is *)
(* the back end's own, so that only whether it is there matters.           *)
(***************************************************************************)
EXTENDS Integers, Sequences, FiniteSets, SequencesExt

CONSTANTS
  DataPages,  \* bound: pages of the document
  Kinds,      \* EvJobPageDataFlags
  DataJobs,   \* bound: jobs alive at a time
  DataCalls   \* bound: changes of the range

ASSUME PageCacheAssumption ==
  /\ DataPages \in Nat \ {0} /\ DataJobs \in Nat /\ DataCalls \in Nat
  /\ {"links", "annots"} \subseteq Kinds

VARIABLES
  data,       \* page_list: EvPageCacheData
  wanted,     \* start_page, end_page and flags of EvPageCache; calls made
  dataJob,    \* the EvJobPageData alive, by number
  dataQueue,  \* waiting (scheduler), running (0 is none), idle (main loop)
  contents    \* the kinds that each page of the document has

pageVars == <<data, wanted, dataJob, dataQueue, contents>>

DataPage == 0 .. (DataPages - 1)
DefaultFlags == {"links", "annots"}
PreCacheSize == 1
NoData == [job |-> 0, done |-> FALSE, dirty |-> FALSE, flags |-> {}, have |-> {}]
NoDataJob == [page |-> -1, flags |-> {}, got |-> {}]

State == [data |-> data, wanted |-> wanted, job |-> dataJob, queue |-> dataQueue]
Become(s) == /\ data' = s.data /\ wanted' = s.wanted
             /\ dataJob' = s.job /\ dataQueue' = s.queue

AliveFor(p) == {j \in 1 .. DataJobs : dataJob[j].page = p}
UnusedJob(s) == CHOOSE j \in 1 .. DataJobs :
                  /\ s.job[j].page = -1
                  /\ \A i \in 1 .. (j - 1) : s.job[i].page # -1

-----------------------------------------------------------------------------
\* ev_job_cancel: the handler job_page_data_cancelled_cb forgets the job.  A job
\* whose run has ended but whose idle source is not yet attached is not told
\* (EvJob), and finishes.
CancelData(s, p) ==
  LET j == s.data[p].job IN
  IF j = 0 \/ s.queue.running = j THEN s
  ELSE [s EXCEPT !.data[p].job = 0, !.job[j] = NoDataJob,
                 !.queue.waiting = RemoveFirst(@, j), !.queue.idle = RemoveFirst(@, j)]

\* ev_page_cache_get_flags_for_data: only what is missing is asked for again.
FlagsForData(s, p) ==
  LET d == s.data[p] IN
  IF d.flags = s.wanted.flags /\ ~d.dirty THEN s.wanted.flags
  ELSE s.wanted.flags \ d.have

\* ev_page_cache_schedule_job_if_needed
ScheduleJobIfNeeded(s, p) ==
  LET d == s.data[p]
      flags == FlagsForData(s, p)
      c == CancelData(s, p)
      j == UnusedJob(c)
  IN IF d.flags = s.wanted.flags /\ ~d.dirty /\ (d.done \/ d.job # 0) THEN s
     ELSE [c EXCEPT !.data[p] = [@ EXCEPT !.flags = s.wanted.flags, !.job = j],
                    !.job[j] = [page |-> p, flags |-> flags, got |-> {}],
                    !.queue.waiting = Append(@, j)]

\* The pages of ev_page_cache_set_page_range, in order: the range, then the
\* nearest pages after and before it, at most 2 * PRE_CACHE_SIZE.  Page 0 is never
\* one of them.
RangeOrder(start, end) ==
  LET around[i \in 0 .. DataPages] ==
        IF i = 0 THEN <<>>
        ELSE around[i - 1] \o (IF end + i < DataPages THEN <<end + i>> ELSE <<>>)
                           \o (IF start - i > 0 THEN <<start - i>> ELSE <<>>)
      extra == around[DataPages]
      n == IF Len(extra) < 2 * PreCacheSize THEN Len(extra) ELSE 2 * PreCacheSize
  IN [i \in 1 .. (end - start + 1) |-> start + i - 1] \o SubSeq(extra, 1, n)

\* ev_page_cache_set_page_range
ScheduleJobs(s, order) ==
  LET pushed[i \in 0 .. Len(order)] ==
        IF i = 0 THEN s ELSE ScheduleJobIfNeeded(pushed[i - 1], order[i])
  IN pushed[Len(order)]
SetRange(s, start, end) ==
  IF s.wanted.flags = {} THEN s
  ELSE [ScheduleJobs(s, RangeOrder(start, end)) EXCEPT
         !.wanted.start = start, !.wanted.end = end]

\* The getters, ev_page_cache_get_annot_mapping and the others: before the job
\* has finished, what it has already found is given.
Get(kind, p) ==
  /\ kind \in wanted.flags
  /\ IF data[p].done \/ data[p].job = 0 THEN kind \in data[p].have
     ELSE kind \in dataJob[data[p].job].got

-----------------------------------------------------------------------------
(* The view.                                                               *)

\* bound: every page that is scheduled finds a job that is not alive.
Spare == Cardinality({j \in 1 .. DataJobs : dataJob[j].page = -1}) >= 2 + 2 * PreCacheSize
MayCall == wanted.calls < DataCalls
Counted == [State EXCEPT !.wanted.calls = @ + 1]

\* view_update_range_and_current_page, whenever the view is scrolled or resized
\* (hence also for the range it has)
SetPageRangeData(start, end) ==
  /\ MayCall /\ Spare /\ end - start \in {0, 1}
  /\ Become(SetRange(Counted, start, end))
  /\ UNCHANGED contents

\* setup_caches: ev_page_cache_set_flags, which updates the range 0 .. 0
SetFlags(flags) ==
  /\ flags # wanted.flags /\ Spare
  /\ Become(SetRange([State EXCEPT !.wanted.flags = flags], wanted.start, wanted.end))
  /\ UNCHANGED contents

\* ev_view_create_annotation on the current page; a page that had no annotations
\* is marked dirty (ev_page_cache_mark_dirty).
AddAnnotation(p) ==
  /\ MayCall /\ Spare /\ wanted.start <= p /\ p <= wanted.end
  /\ contents' = [contents EXCEPT ![p] = @ \cup {"annots"}]
  /\ IF Get("annots", p) THEN Become(Counted)
     ELSE Become(SetRange([Counted EXCEPT !.data[p].dirty = TRUE],
                          wanted.start, wanted.end))

-----------------------------------------------------------------------------
(* The worker and the callback.                                            *)

\* ev_job_page_data_run, under the document lock
RunData ==
  /\ dataQueue.running = 0 /\ dataQueue.waiting # <<>>
  /\ LET j == Head(dataQueue.waiting) IN
       /\ dataJob' = [dataJob EXCEPT ![j].got = @ \cup (contents[dataJob[j].page]
                                                        \cap dataJob[j].flags)]
       /\ dataQueue' = [dataQueue EXCEPT !.waiting = Tail(@), !.running = j]
  /\ UNCHANGED <<data, wanted, contents>>

\* ev_job_emit_finished attaches the idle source.
AttachData ==
  /\ dataQueue.running # 0
  /\ dataQueue' = [dataQueue EXCEPT !.running = 0,
                                    !.idle = Append(@, dataQueue.running)]
  /\ UNCHANGED <<data, wanted, dataJob, contents>>

\* job_page_data_finished_cb forgets the job that the page has now.
Finished(s, j) ==
  LET p == s.job[j].page
      have == (s.data[p].have \ s.job[j].flags) \cup s.job[j].got
  IN [s EXCEPT !.data[p] = [@ EXCEPT !.have = have, !.done = TRUE, !.dirty = FALSE, !.job = 0],
               !.job[j] = NoDataJob, !.queue.idle = Tail(@)]

DataFinished ==
  /\ dataQueue.idle # <<>>
  /\ Become(Finished(State, Head(dataQueue.idle)))
  /\ UNCHANGED contents

-----------------------------------------------------------------------------
PageInit ==
  /\ data = [p \in DataPage |-> NoData]
  /\ wanted = [start |-> 0, end |-> 0, flags |-> DefaultFlags, calls |-> 0]
  /\ dataJob = [j \in 1 .. DataJobs |-> NoDataJob]
  /\ dataQueue = [waiting |-> <<>>, running |-> 0, idle |-> <<>>]
  /\ contents = [p \in DataPage |-> IF p = 0 THEN Kinds ELSE Kinds \ {"annots"}]

PageNext ==
  \/ \E s, e \in DataPage : SetPageRangeData(s, e)
  \/ SetFlags(Kinds)
  \/ \E p \in DataPage : AddAnnotation(p)
  \/ RunData
  \/ AttachData
  \/ DataFinished

\* The worker and the main loop do not stop.
PageFairness == WF_pageVars(RunData \/ AttachData \/ DataFinished)
PageSpec == PageInit /\ [][PageNext]_pageVars /\ PageFairness

-----------------------------------------------------------------------------
PageTypeOK ==
  /\ data \in [DataPage -> [job : 0 .. DataJobs, done : BOOLEAN, dirty : BOOLEAN,
                            flags : SUBSET Kinds, have : SUBSET Kinds]]
  /\ dataJob \in [1 .. DataJobs -> [page : -1 .. (DataPages - 1),
                                    flags : SUBSET Kinds, got : SUBSET Kinds]]
  /\ dataQueue.waiting \in Seq(1 .. DataJobs) /\ dataQueue.idle \in Seq(1 .. DataJobs)
  /\ dataQueue.running \in 0 .. DataJobs

\* Data that are said to be complete are those of the document: whatever was
\* added while a job was waiting, running or finished is seen when no job of the
\* page is left.
DataComplete ==
  \A p \in DataPage :
    (data[p].done /\ ~data[p].dirty /\ AliveFor(p) = {})
      => data[p].have = contents[p] \cap data[p].flags

\* When the user rests, every page in the range has its data in the end, in spite
\* of jobs that are cancelled, replaced, or forgotten by the end of another one.
DataMissing == {p \in DataPage : /\ wanted.start <= p /\ p <= wanted.end
                                 /\ data[p].flags # {}
                                 /\ ~data[p].done \/ data[p].dirty}
DataArrives == (DataMissing # {}) ~> (DataMissing = {})
=============================================================================
