---------------------------- MODULE EvPixbufCache ----------------------------
(***************************************************************************)
(* The cache of rendered pages of a view, libview/ev-pixbuf-cache.c, with  *)
(* the rendering jobs it keeps in flight and the handlers of the view      *)
(* (libview/ev-view.c) that drive it.                                      *)
(*                                                                         *)
(* The three arrays prev_job, job_list and next_job are one function from  *)
(* pages to slots: a page outside the range has the empty slot.  What a    *)
(* job renders is the version of the document at the time, a size and the  *)
(* selection it was asked to include.  Each call of the main thread is one *)
(* step; the worker renders between them.                                  *)
(***************************************************************************)
EXTENDS Integers, Sequences, FiniteSets, SequencesExt

CONSTANTS
  CachePages,     \* bound: pages of the document
  CacheMaxSizes,  \* bound: values of max_size, in pages at scale 1
  CacheJobs,      \* bound: jobs alive at a time
  CacheVersions,  \* bound: versions of a page
  CacheSelections,\* bound: rectangles that the user selects
  CacheRotations, \* the rotations that the user chooses, of 0, 90, 180, 270
  CacheCalls      \* bound: calls of the user

ASSUME CacheAssumption ==
  /\ CachePages \in Nat \ {0} /\ CacheMaxSizes \in SUBSET Nat
  /\ \E m \in CacheMaxSizes : \A n \in CacheMaxSizes : n <= m
  /\ CacheJobs \in Nat /\ CacheVersions \in Nat \ {0} /\ CacheSelections \in Nat
  /\ CacheRotations \subseteq {0, 90, 180, 270} /\ 0 \in CacheRotations
  /\ CacheCalls \in Nat

VARIABLES
  cache,   \* EvPixbufCache: range, preload, dir, inverted, max, slot
  render,  \* the EvJobRender alive, by number
  queues,  \* where they are: urgent, low (scheduler), idle (main loop)
  shown    \* EvView and its model: scale, rotation, inverted colours,
           \* selection, a resize that is queued, the version of each page;
           \* history: cleared (the cache, since the range was last updated)
           \* and the number of calls of the user

cacheVars == <<cache, render, queues, shown>>

CachePage == 0 .. (CachePages - 1)
Scales    == 1 .. 2
SelectedPage == 1
MaxPreloadedPages == 3

\* The size of the surface of a page: no page is a square
SizeFor(scale, rotation) == <<scale, rotation % 180>>
Sizes == {SizeFor(s, r) : s \in Scales, r \in CacheRotations}
NoSurface == [size |-> <<0, 0>>, rotation |-> 0, version |-> 0, inverted |-> FALSE,
              doubtful |-> FALSE]
Surfaces == {NoSurface} \cup
  [size : Sizes, rotation : CacheRotations, version : 1 .. CacheVersions,
   inverted : BOOLEAN, doubtful : BOOLEAN]

\* doubtful is history: the surface comes from a job that the slot had given
\* up, or the job that would have replaced it was cancelled for its size.

\* CacheJobInfo.  target and points stand for target_points (when points_set)
\* and selection_points, -1 when x1 is negative; the selection region is kept
\* by the same rules as the selection surface and is not repeated.
EmptySlot == [job |-> 0, ready |-> FALSE, surface |-> NoSurface,
              set |-> FALSE, target |-> 0,
              selection |-> FALSE, points |-> 0, scale |-> 0]

NoRender == [page |-> 0, size |-> <<0, 0>>, rotation |-> 0, scale |-> 0,
             include |-> FALSE, points |-> 0, prio |-> "none", version |-> 0]
Alive == {j \in 1 .. CacheJobs : render[j].prio # "none"}

Visible(c) == {p \in CachePage : c.start <= p /\ p <= c.end}
\* The pages that have a slot
Kept(c) == {p \in CachePage : c.start - c.preload <= p /\ p <= c.end + c.preload}

-----------------------------------------------------------------------------
(* The operators take and return the state w of the program: the values of *)
(* the variables, so that a call is a composition of the functions of the  *)
(* code.                                                                   *)

World == [cache |-> cache, render |-> render, queues |-> queues, shown |-> shown]
Becomes(w) == /\ cache' = w.cache /\ render' = w.render
              /\ queues' = w.queues /\ shown' = w.shown

\* The members of seq that are in J, in their order, and those that are not
OnlyIn(seq, J) ==
  LET only[i \in 0 .. Len(seq)] ==
        IF i = 0 THEN <<>>
        ELSE IF seq[i] \in J THEN Append(only[i - 1], seq[i]) ELSE only[i - 1]
  IN only[Len(seq)]
NotIn(seq, J) == OnlyIn(seq, ToSet(seq) \ J)

\* Disconnect, cancel and unref: nothing more is heard of the jobs J.
Cancelled(w, J) ==
  [w EXCEPT !.render = [j \in 1 .. CacheJobs |-> IF j \in J THEN NoRender ELSE w.render[j]],
            !.queues = [q \in DOMAIN w.queues |-> NotIn(w.queues[q], J)]]

\* copy_job_to_job_info: the job that is cancelled is the one the slot has now,
\* which need not be the one that has finished.
CopyJobToJobInfo(w, j, p) ==
  LET job == w.render[j]
      s == w.cache.slot[p]
      new == [job |-> 0, ready |-> TRUE,
              surface |-> [size |-> job.size, rotation |-> job.rotation,
                           version |-> job.version,
                           inverted |-> w.cache.inverted, doubtful |-> s.job # j],
              set |-> job.include, target |-> s.target,
              selection |-> s.selection \/ job.include,
              points |-> IF job.include THEN job.points ELSE s.points,
              scale |-> IF job.include THEN job.scale ELSE s.scale]
  IN [Cancelled(w, {s.job} \cup {j}) EXCEPT !.cache.slot[p] = new]

\* dispose_cache_job_info
Disposed(w, P) ==
  [Cancelled(w, {w.cache.slot[p].job : p \in P}) EXCEPT
    !.cache.slot = [p \in CachePage |->
      IF p \in P
        THEN [w.cache.slot[p] EXCEPT !.job = 0, !.surface = NoSurface,
                                     !.selection = FALSE, !.set = FALSE]
        ELSE w.cache.slot[p]]]

-----------------------------------------------------------------------------
(* The range.                                                              *)

\* ev_pixbuf_cache_get_preload_size, for pages of one size.  Page 0 is never
\* counted.
PreloadTurn(b, i, start, end, scale, max) ==
  LET next == end + i < CachePages
      prev == start - i > 0
      one == IF next THEN b.size + scale ELSE b.size
      two == IF prev THEN one + scale ELSE one
  IN IF ~b.go \/ ~(next \/ prev) \/ (next /\ one > max) THEN [b EXCEPT !.go = FALSE]
     ELSE IF prev /\ two > max
       THEN [size |-> one, n |-> IF next THEN b.n + 1 ELSE b.n, go |-> FALSE]
     ELSE [size |-> two, n |-> b.n + 1, go |-> TRUE]
\* At most MaxPreloadedPages turns, as each counts a page or is the last
PreloadSize(start, end, scale, max) ==
  LET size == (end - start + 1) * scale
      Turn(b, i) == PreloadTurn(b, i, start, end, scale, max)
  IN Turn(Turn(Turn([size |-> size, n |-> 0, go |-> size < max], 1), 2), MaxPreloadedPages).n

PriorityIn(c, p) == IF p \in Visible(c) THEN "urgent" ELSE "low"

\* move_one_job: the jobs that are to go to the queue prio.  The scheduler looks for
\* each in the queue it was pushed to (ev_job_scheduler_update_job), whatever
\* happened since.
Movers(w, new, prio) ==
  LET old == w.cache
      Moves(p) == LET j == old.slot[p].job
                  IN /\ PriorityIn(old, p) # prio /\ PriorityIn(new, p) = prio
                     /\ j # 0 /\ w.render[j].prio # prio /\ j \in ToSet(w.queues[w.render[j].prio])
  IN {old.slot[p].job : p \in {p \in Kept(old) \cap Kept(new) : Moves(p)}}
Moved(w, new) ==
  LET up == Movers(w, new, "urgent")
      down == Movers(w, new, "low")
      jobs == [i \in 1 .. CachePages |-> w.cache.slot[i - 1].job]
  IN [q \in DOMAIN w.queues |->
        IF q = "urgent" THEN NotIn(w.queues[q], down) \o OnlyIn(jobs, up)
        ELSE IF q = "low" THEN NotIn(w.queues[q], up) \o OnlyIn(jobs, down)
        ELSE w.queues[q]]

\* ev_pixbuf_cache_update_range: slots that leave the range are disposed of, jobs
\* that become visible or cease to be are moved.
UpdateRange(w, start, end) ==
  LET old == w.cache
      new == [old EXCEPT !.start = start, !.end = end,
                !.preload = PreloadSize(start, end, w.shown.scale, old.max)]
      clean == Disposed(w, Kept(old) \ Kept(new))
      slot == [p \in CachePage |->
                 IF p \in Kept(old) \cap Kept(new) THEN old.slot[p] ELSE EmptySlot]
  IN IF old.start = start /\ old.end = end /\ old.preload = new.preload THEN w
     ELSE [clean EXCEPT !.cache = [new EXCEPT !.slot = slot], !.queues = Moved(clean, new)]

\* ev_pixbuf_cache_clear_job_sizes: the size is computed with the job's own
\* rotation, so that only a change of scale is noticed.
ClearJobSizes(w) ==
  LET Wrong(p) == LET j == w.cache.slot[p].job
                  IN j # 0 /\ w.render[j].size
                              # SizeFor(w.shown.scale, w.render[j].rotation)
      P == {p \in Kept(w.cache) : Wrong(p)}
  IN [Cancelled(w, {w.cache.slot[p].job : p \in P}) EXCEPT
       !.cache.slot = [p \in CachePage |->
                         LET s == w.cache.slot[p] IN
                         IF p \in P
                           THEN [s EXCEPT !.job = 0, !.surface =
                                   [s.surface EXCEPT !.doubtful = s.surface # NoSurface]]
                           ELSE s]]

\* ev_pixbuf_cache_set_selection_list, update_job_selection, clear_job_selection
SetSelectionList(w) ==
  [w EXCEPT !.cache.slot = [p \in CachePage |->
     LET s == w.cache.slot[p] IN
     IF p \notin Kept(w.cache) THEN s
     ELSE IF p = SelectedPage /\ w.shown.selection # 0
       THEN [s EXCEPT !.set = TRUE, !.target = w.shown.selection]
       ELSE [s EXCEPT !.set = FALSE, !.points = -1, !.selection = FALSE]]]

\* new_selection_surface_needed
SelectionNeeded(s, scale) == IF s.selection THEN s.scale # scale ELSE s.set

\* add_job.  The job that the slot has, if any, is forgotten, not cancelled.
FreeJob(w) == CHOOSE j \in 1 .. CacheJobs :
                /\ w.render[j].prio = "none"
                /\ \A i \in 1 .. (j - 1) : w.render[i].prio # "none"
AddJob(w, p, prio) ==
  LET j == FreeJob(w)
      s == w.cache.slot[p]
      include == SelectionNeeded(s, w.shown.scale)
      job == [page |-> p, size |-> SizeFor(w.shown.scale, w.shown.rotation),
              rotation |-> w.shown.rotation, scale |-> w.shown.scale,
              include |-> include, points |-> IF include THEN s.target ELSE 0,
              prio |-> prio, version |-> 0]
  IN [w EXCEPT !.cache.slot[p] = [s EXCEPT !.job = j, !.ready = FALSE],
               !.render[j] = job, !.queues[prio] = Append(@, j)]

\* Mutant: a page whose surface has another size keeps it for want of a job.
AddJobIfBlank(w, p) ==
  IF w.cache.slot[p].job # 0 \/ w.cache.slot[p].ready THEN w
  ELSE AddJob(w, p, PriorityIn(w.cache, p))

\* add_job_if_needed
AddJobIfNeeded(w, p) ==
  LET s == w.cache.slot[p]
      prio == PriorityIn(w.cache, p)
      freed == IF prio = "low"
                 THEN [w EXCEPT !.cache.slot[p] =
                         [s EXCEPT !.surface = NoSurface, !.selection = FALSE]]
                 ELSE w
  IN IF s.job # 0 \/ s.surface.size = SizeFor(w.shown.scale, w.shown.rotation)
       THEN w
       ELSE AddJob(freed, p, prio)

\* ev_pixbuf_cache_add_jobs_if_needed: the visible pages, then those in the
\* direction of the scroll, the nearest first, then the others.
PushOrder(c) ==
  LET before == IF c.preload < c.start THEN c.preload ELSE c.start
      after == IF c.preload < CachePages - 1 - c.end THEN c.preload ELSE CachePages - 1 - c.end
      up == [i \in 1 .. before |-> c.start - i]
      down == [i \in 1 .. after |-> c.end + i]
      here == [i \in 1 .. c.end - c.start + 1 |-> c.start + i - 1]
  IN here \o (IF c.dir = "up" THEN up \o down ELSE down \o up)
AddJobsIfNeeded(w) ==
  LET order == PushOrder(w.cache)
      pushed[i \in 0 .. Len(order)] ==
        IF i = 0 THEN w ELSE AddJobIfNeeded(pushed[i - 1], order[i])
  IN pushed[Len(order)]

\* ev_pixbuf_cache_get_scroll_direction
ScrollDirection(c, start, end) ==
  IF start < c.start THEN "up"
  ELSE IF end > c.end \/ start > c.start THEN "down"
  ELSE IF end < c.end THEN "up"
  ELSE c.dir

\* ev_pixbuf_cache_set_page_range
SetPageRange(w, start, end) ==
  LET turned == [w EXCEPT !.cache.dir = ScrollDirection(w.cache, start, end)]
  IN AddJobsIfNeeded(SetSelectionList(ClearJobSizes(UpdateRange(turned, start, end))))

\* ev_pixbuf_cache_get_surface: a job that has rendered is used before its
\* callback.
GetSurface(w, p) ==
  LET s == w.cache.slot[p] IN
  IF p \in Kept(w.cache) /\ ~s.ready /\ s.job # 0 /\ w.render[s.job].version # 0
    THEN CopyJobToJobInfo(w, s.job, p)
    ELSE w

\* ev_pixbuf_cache_get_selection_surface, which renders in the main thread
GetSelectionSurface(w, p) ==
  LET s == w.cache.slot[p]
      scale == w.shown.scale
      c == IF SelectionNeeded(s, scale)
             THEN [s EXCEPT !.selection = FALSE, !.points = -1] ELSE s
      new == IF c.target # c.points
               THEN [c EXCEPT !.selection = TRUE, !.points = c.target, !.scale = scale]
               ELSE c
  IN IF ~s.set \/ (s.job # 0 /\ w.render[s.job].include) THEN w
     ELSE [w EXCEPT !.cache.slot[p] = new]

-----------------------------------------------------------------------------
(* The view.                                                               *)

\* The end of view_update_range_and_current_page
Updated(w, start, end) ==
  [GetSurface(SetPageRange(w, start, end), start) EXCEPT !.shown.cleared = FALSE]
\* The user does something: bounded.
Call == shown.calls < CacheCalls
Called == [World EXCEPT !.shown.calls = @ + 1]
Room(w) == Cardinality({j \in 1 .. CacheJobs : w.render[j].prio = "none"}) >= CachePages

\* on_adjustment_value_changed: one or two pages are in the window
Scroll(start, end) ==
  /\ Call /\ end - start \in {0, 1} /\ Room(World)
  /\ <<start, end>> # <<cache.start, cache.end>>
  /\ Becomes(Updated(Called, start, end))

\* ev_view_scale_changed_cb queues a resize
Zoom(scale) ==
  /\ Call /\ scale # shown.scale
  /\ Becomes([Called EXCEPT !.shown.scale = scale, !.shown.resize = TRUE])

\* ev_view_rotation_changed_cb clears the cache: sizes would not tell 0 from 180
Rotate(rotation) ==
  /\ Call /\ rotation # shown.rotation
  /\ LET w == Disposed(Called, Kept(cache))
         turned == [w EXCEPT !.shown.rotation = rotation, !.shown.resize = TRUE,
                             !.shown.cleared = TRUE]
     IN Becomes(IF rotation = 0 THEN turned
                ELSE SetSelectionList([turned EXCEPT !.shown.selection = 0]))

\* ev_view_size_allocate
SizeAllocate ==
  /\ shown.resize /\ Room(World) /\ cache.start >= 0
  /\ Becomes([Updated(World, cache.start, cache.end) EXCEPT !.shown.resize = FALSE])

\* ev_pixbuf_cache_set_inverted_colors, and the model
Inverted(w) ==
  [w EXCEPT !.shown.inverted = ~@, !.cache.inverted = ~@,
    !.cache.slot = [p \in CachePage |->
      LET s == w.cache.slot[p] IN
      IF s.surface # NoSurface
        THEN [s EXCEPT !.surface = [s.surface EXCEPT !.inverted = ~@]] ELSE s]]

\* ev_view_inverted_colors_changed_cb
InvertColors == Call /\ Becomes(Inverted(Called))

\* A form field is changed under the document lock and its page is reloaded:
\* ev_view_reload_page, ev_pixbuf_cache_reload_page.
EditPage(p) ==
  /\ Call /\ p \in Visible(cache) /\ Room(World)
  /\ shown.version[p] < CacheVersions
  /\ Becomes(AddJob([Called EXCEPT !.shown.version[p] = @ + 1], p, "urgent"))

\* ev_view_reload: a layer is shown or hidden
ReloadView ==
  /\ Call /\ cache.start >= 0 /\ Room(World)
  /\ \A p \in CachePage : shown.version[p] < CacheVersions
  /\ LET w == [Called EXCEPT !.shown.version = [p \in CachePage |-> @[p] + 1]]
     IN Becomes(Updated(Disposed(w, Kept(cache)), cache.start, cache.end))

\* The user selects or unselects text: merge_selection_region
Select(selection) ==
  /\ Call /\ selection # shown.selection /\ shown.rotation = 0
  /\ SelectedPage \in Visible(cache)
  /\ LET w == SetSelectionList([Called EXCEPT !.shown.selection = selection])
     IN Becomes(IF selection = 0 THEN w ELSE GetSelectionSurface(w, SelectedPage))

\* ev_view_set_page_cache_size, ev_pixbuf_cache_set_max_size: nothing makes the
\* view update the range.
SetCacheSize(max) ==
  /\ Call /\ max # cache.max
  /\ LET w == IF max < cache.max
                THEN [Disposed(Called, Kept(cache)) EXCEPT !.shown.cleared = TRUE]
                ELSE Called
     IN Becomes([w EXCEPT !.cache.max = max])

\* ev_pixbuf_cache_style_changed: focus comes or goes
StyleChanged ==
  /\ Call /\ \E p \in Kept(cache) : cache.slot[p].selection
  /\ Becomes([Called EXCEPT !.cache.slot = [p \in CachePage |->
       LET s == cache.slot[p] IN
       IF s.selection THEN [s EXCEPT !.selection = FALSE, !.points = -1] ELSE s]])

\* draw_one_page for the visible pages
DrawPage(w, p) ==
  LET v == GetSurface(w, p)
  IN IF v.cache.slot[p].surface # NoSurface /\ p = SelectedPage /\ v.shown.selection # 0
       THEN GetSelectionSurface(v, p) ELSE v
Draw ==
  /\ cache.start >= 0
  /\ LET first == DrawPage(World, cache.start)
         w == IF cache.end = cache.start THEN first ELSE DrawPage(first, cache.end)
     IN w # World /\ Becomes(w)

-----------------------------------------------------------------------------
(* The worker and the callback.                                            *)

\* ev_job_render_run, in the order of the scheduler
Render ==
  LET q == IF queues["urgent"] # <<>> THEN "urgent" ELSE "low" IN
  /\ queues[q] # <<>>
  /\ LET j == Head(queues[q])
     IN render' = [render EXCEPT ![j].version = shown.version[render[j].page]]
  /\ queues' = [queues EXCEPT ![q] = Tail(@), !["idle"] = Append(@, Head(queues[q]))]
  /\ UNCHANGED <<cache, shown>>

\* job_finished_cb: the page may have left the range, or its slot may have
\* another job.
RenderFinished ==
  /\ queues["idle"] # <<>>
  /\ LET j == Head(queues["idle"])
         p == render[j].page
     IN Becomes(IF p \in Kept(cache) THEN CopyJobToJobInfo(World, j, p)
                ELSE Cancelled(World, {j}))

-----------------------------------------------------------------------------
CacheInit ==
  /\ cache = [start |-> -1, end |-> -1, preload |-> 0, dir |-> "down",
              inverted |-> FALSE, max |-> CHOOSE m \in CacheMaxSizes :
                                            \A n \in CacheMaxSizes : n <= m,
              slot |-> [p \in CachePage |-> EmptySlot]]
  /\ render = [j \in 1 .. CacheJobs |-> NoRender]
  /\ queues = [q \in {"urgent", "low", "idle"} |-> <<>>]
  /\ shown = [scale |-> 1, rotation |-> 0, inverted |-> FALSE, selection |-> 0,
              resize |-> FALSE, version |-> [p \in CachePage |-> 1],
              cleared |-> FALSE, calls |-> 0]

CacheNext ==
  \/ \E s, e \in CachePage : Scroll(s, e)
  \/ \E s \in Scales : Zoom(s)
  \/ \E r \in CacheRotations : Rotate(r)
  \/ SizeAllocate
  \/ InvertColors
  \/ \E p \in CachePage : EditPage(p)
  \/ ReloadView
  \/ \E s \in 0 .. CacheSelections : Select(s)
  \/ \E m \in CacheMaxSizes : SetCacheSize(m)
  \/ StyleChanged
  \/ Draw
  \/ Render
  \/ RenderFinished

CacheSpec == CacheInit /\ [][CacheNext]_cacheVars

-----------------------------------------------------------------------------
CacheTypeOK ==
  /\ cache.start \in -1 .. (CachePages - 1) /\ cache.end \in -1 .. (CachePages - 1)
  /\ cache.preload \in 0 .. MaxPreloadedPages
  /\ cache.slot \in [CachePage -> [job : 0 .. CacheJobs, ready : BOOLEAN,
       surface : Surfaces, set : BOOLEAN, target : 0 .. CacheSelections,
       selection : BOOLEAN, points : -1 .. CacheSelections, scale : {0} \cup Scales]]
  /\ \A p \in CachePage \ Kept(cache) : cache.slot[p] = EmptySlot
  /\ \A j \in Alive : render[j].version \in 0 .. shown.version[render[j].page]
  /\ \A q \in DOMAIN queues : queues[q] \in Seq(1 .. CacheJobs)

\* Whatever was rendered, moved, reloaded or finished late, a page is shown in
\* the colours of the document model.
PixbufColours ==
  \A p \in CachePage : cache.slot[p].surface # NoSurface
                         => cache.slot[p].surface.inverted = shown.inverted

\* A page of the range is never left blank with nobody to render it, since the
\* range was last updated: a job that is moved, replaced, overtaken or cancelled
\* has a successor or a result.
PixbufServed ==
  ~shown.cleared =>
    \A p \in Kept(cache) :
      LET s == cache.slot[p]
      IN IF s.job = 0 THEN s.surface # NoSurface
         ELSE s.job \in Alive /\ render[s.job].page = p

\* What is shown when nothing is in flight is the last version of the page, in
\* the scale and rotation of the view.  The exceptions: a job that was replaced
\* by ev_pixbuf_cache_reload_page but finished all the same, and a reload that
\* was cancelled because the scale changed, and changed back.
PixbufCurrent ==
  \A p \in Visible(cache) :
    LET s == cache.slot[p]
    IN (~shown.resize /\ ~shown.cleared /\ s.job = 0 /\ ~s.surface.doubtful)
         => /\ s.surface.size = SizeFor(shown.scale, shown.rotation)
            /\ s.surface.rotation = shown.rotation
            /\ s.surface.version = shown.version[p]
=============================================================================
