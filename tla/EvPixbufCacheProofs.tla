---------------------------- MODULE EvPixbufCacheProofs ----------------------------
(***************************************************************************)
(* Theorems about the cache of rendered pages, for every value of the      *)
(* constants: what a view shows is the last version of the page, in the    *)
(* scale, the rotation and the colours of now, or a job makes it so.       *)
(***************************************************************************)
EXTENDS EvPixbufCache, WellFoundedInduction, FiniteSetTheorems, TLAPS

-----------------------------------------------------------------------------
(* Recursions over the naturals.                                           *)

LEMMA PixLeast ==
  ASSUME NEW T \in SUBSET Nat, T # {}
  PROVE  \E x \in T : \A y \in T : x <= y
<1> DEFINE R == OpToRel(<, Nat)
<1>1. \E x \in T : \A y \in T : ~(<<y, x>> \in R)
  BY WFMin, NatLessThanWellFounded
<1>2. R = {ss \in Nat \X Nat : ss[1] < ss[2]}
  BY Zenon DEF OpToRel
<1> HIDE DEF R
<1>3. ASSUME NEW x \in Nat, NEW y \in Nat, y < x PROVE <<y, x>> \in R
  <2>1. <<y, x>> \in Nat \X Nat /\ <<y, x>>[1] < <<y, x>>[2]
    BY <1>3
  <2> QED
    BY <1>2, <2>1, Zenon
<1>4. PICK x \in T : \A y \in T : ~(<<y, x>> \in R)
  BY <1>1
<1>5. ASSUME NEW y \in T PROVE x <= y
  <2>1. x \in Nat /\ y \in Nat
    OBVIOUS
  <2>2. ~(y < x)
    BY <1>3, <1>4, <2>1, Zenon
  <2> QED
    BY <2>1, <2>2
<1> QED
  BY <1>5

\* What is in a first number and stays is in every one.
LEMMA PixAll ==
  ASSUME NEW n \in Nat, NEW T \in SUBSET (0 .. n), 0 \in T,
         \A k \in 1 .. n : k - 1 \in T => k \in T
  PROVE  n \in T
<1> DEFINE F == {k \in Nat : k <= n /\ k \notin T}
<1>1. SUFFICES ASSUME F # {} PROVE FALSE
  OBVIOUS
<1>2. PICK k \in F : \A y \in F : k <= y
  <2>1. F \in SUBSET Nat
    OBVIOUS
  <2> HIDE DEF F
  <2> QED
    BY <1>1, <2>1, PixLeast
<1>3. k \in Nat /\ k <= n /\ k \notin T /\ k # 0
  OBVIOUS
<1>4. k - 1 \in Nat /\ k - 1 <= n /\ k \in 1 .. n
  BY <1>3
<1>5. k - 1 \notin F
  <2> HIDE DEF F
  <2> QED
    BY <1>2, <1>3, <1>4
<1> QED
  BY <1>3, <1>4, <1>5

\* The recursion of OnlyIn has a solution.
OnlySolves(f, n, seq, J) ==
  f = [i \in 0 .. n |-> IF i = 0 THEN <<>>
                        ELSE IF seq[i] \in J THEN Append(f[i - 1], seq[i]) ELSE f[i - 1]]
LEMMA OnlyExists ==
  ASSUME NEW n \in Nat, NEW seq, NEW J
  PROVE  \E f : OnlySolves(f, n, seq, J)
<1> DEFINE T == {k \in 0 .. n : \E f : OnlySolves(f, k, seq, J)}
<1>1. 0 \in T
  <2> DEFINE f == [i \in 0 .. 0 |-> <<>>]
  <2>1. OnlySolves(f, 0, seq, J)
    BY DEF OnlySolves
  <2> QED
    BY <2>1
<1>2. ASSUME NEW k \in 1 .. n, k - 1 \in T
      PROVE  k \in T
  <2>1. PICK f : OnlySolves(f, k - 1, seq, J)
    BY <1>2
  <2> DEFINE g == [i \in 0 .. k |-> IF i = 0 THEN <<>>
                     ELSE IF seq[i] \in J THEN Append(f[i - 1], seq[i]) ELSE f[i - 1]]
  <2>2. \A i \in 0 .. k - 1 : i \in 0 .. k /\ f[i] = g[i]
    <3>1. \A i \in 0 .. k - 1 : i \in 0 .. k
      OBVIOUS
    <3>2. \A i \in 0 .. k - 1 :
            f[i] = IF i = 0 THEN <<>>
                   ELSE IF seq[i] \in J THEN Append(f[i - 1], seq[i]) ELSE f[i - 1]
      BY <2>1, Zenon DEF OnlySolves
    <3> QED
      BY <3>1, <3>2
  <2>3. \A i \in 0 .. k : i # 0 => i - 1 \in 0 .. k - 1
    OBVIOUS
  <2>4. g = [i \in 0 .. k |-> g[i]] /\ DOMAIN g = 0 .. k
    OBVIOUS
  <2>5. \A i \in 0 .. k : g[i] = IF i = 0 THEN <<>>
                                 ELSE IF seq[i] \in J THEN Append(f[i - 1], seq[i]) ELSE f[i - 1]
    OBVIOUS
  <2> HIDE DEF g
  <2>6. \A i \in 0 .. k : g[i] = IF i = 0 THEN <<>>
                                 ELSE IF seq[i] \in J THEN Append(g[i - 1], seq[i]) ELSE g[i - 1]
    BY <2>2, <2>3, <2>5
  <2>7. OnlySolves(g, k, seq, J)
    BY <2>4, <2>6 DEF OnlySolves
  <2> QED
    BY <2>7
<1> HIDE DEF T
<1>3. n \in T
  <2>1. T \in SUBSET (0 .. n)
    BY DEF T
  <2> QED
    BY <1>1, <1>2, <2>1, PixAll
<1> QED
  BY <1>3 DEF T

\* Members of the sequence that are in the set, and no others
LEMMA OnlyInFacts ==
  ASSUME NEW S, NEW seq \in Seq(S), NEW J
  PROVE  /\ OnlyIn(seq, J) \in Seq(S)
         /\ \A i \in DOMAIN OnlyIn(seq, J) :
              OnlyIn(seq, J)[i] \in J /\ \E k \in DOMAIN seq : OnlyIn(seq, J)[i] = seq[k]
<1> DEFINE n == Len(seq)
           f == CHOOSE only : OnlySolves(only, n, seq, J)
           Right(q) == /\ q \in Seq(S)
                       /\ \A i \in DOMAIN q : q[i] \in J /\ \E k \in DOMAIN seq : q[i] = seq[k]
           T == {k \in 0 .. n : Right(f[k])}
<1>1. n \in Nat /\ DOMAIN seq = 1 .. n
  OBVIOUS
<1>2. OnlyIn(seq, J) = f[n]
  BY Zenon DEF OnlyIn, OnlySolves
<1>3. OnlySolves(f, n, seq, J)
  BY <1>1, OnlyExists
<1> HIDE DEF f
<1>4. \A i \in 0 .. n : f[i] = IF i = 0 THEN <<>>
                               ELSE IF seq[i] \in J THEN Append(f[i - 1], seq[i]) ELSE f[i - 1]
  BY <1>3, Zenon DEF OnlySolves
<1>5. 0 \in T
  <2>1. 0 \in 0 .. n /\ f[0] = <<>>
    BY <1>1, <1>4
  <2>2. Right(<<>>)
    OBVIOUS
  <2> HIDE DEF Right
  <2> QED
    BY <2>1, <2>2
<1>6. ASSUME NEW k \in 1 .. n, k - 1 \in T
      PROVE  k \in T
  <2>1. k \in 0 .. n /\ k # 0 /\ k \in DOMAIN seq /\ seq[k] \in S
    BY <1>1
  <2>2. Right(f[k - 1])
    BY <1>6
  <2>3. CASE seq[k] \in J
    <3> DEFINE q == f[k - 1]
               r == Append(q, seq[k])
    <3>1. f[k] = r
      BY <1>4, <2>1, <2>3
    <3>2. q \in Seq(S) /\ \A i \in DOMAIN q : q[i] \in J /\ \E m \in DOMAIN seq : q[i] = seq[m]
      BY <2>2
    <3> HIDE DEF q
    <3>3. r \in Seq(S) /\ DOMAIN r = 1 .. Len(q) + 1 /\ Len(q) \in Nat /\ DOMAIN q = 1 .. Len(q)
          /\ r[Len(q) + 1] = seq[k] /\ \A i \in 1 .. Len(q) : r[i] = q[i]
      BY <2>1, <3>2
    <3> HIDE DEF r
    <3>4. \A i \in DOMAIN r : r[i] \in J /\ \E m \in DOMAIN seq : r[i] = seq[m]
      <4> SUFFICES ASSUME NEW i \in DOMAIN r
                   PROVE  r[i] \in J /\ \E m \in DOMAIN seq : r[i] = seq[m]
        OBVIOUS
      <4>1. CASE i = Len(q) + 1
        BY <2>1, <2>3, <3>3, <4>1
      <4>2. CASE i \in 1 .. Len(q)
        BY <3>2, <3>3, <4>2
      <4> QED
        BY <3>3, <4>1, <4>2
    <3> QED
      BY <2>1, <3>1, <3>3, <3>4
  <2>4. CASE seq[k] \notin J
    <3>1. f[k] = f[k - 1]
      BY <1>4, <2>1, <2>4
    <3> HIDE DEF Right
    <3> QED
      BY <2>1, <2>2, <3>1
  <2> QED
    BY <2>3, <2>4
<1> HIDE DEF T
<1>7. n \in T
  <2>1. T \in SUBSET (0 .. n)
    BY DEF T
  <2> QED
    BY <1>1, <1>5, <1>6, <2>1, PixAll
<1> QED
  BY <1>2, <1>7 DEF T

-----------------------------------------------------------------------------
(* The invariant, about the record of the program.                         *)

QueueNames == {"urgent", "low", "idle"}
PixSlot ==
  [job : 0 .. CacheJobs, ready : BOOLEAN, surface : Surfaces, set : BOOLEAN,
   target : 0 .. CacheSelections, selection : BOOLEAN, points : -1 .. CacheSelections,
   scale : {0} \union Scales]
PixCache ==
  [start : -1 .. (CachePages - 1), end : -1 .. (CachePages - 1), preload : 0 .. MaxPreloadedPages,
   dir : {"up", "down"}, inverted : BOOLEAN, max : CacheMaxSizes, slot : [CachePage -> PixSlot]]
PixRender ==
  [page : CachePage, size : {<<0, 0>>} \union Sizes, rotation : CacheRotations,
   scale : {0} \union Scales, include : BOOLEAN, points : 0 .. CacheSelections,
   prio : {"none", "urgent", "low"}, version : 0 .. CacheVersions]
PixShown ==
  [scale : Scales, rotation : CacheRotations, inverted : BOOLEAN, selection : 0 .. CacheSelections,
   resize : BOOLEAN, version : [CachePage -> 1 .. CacheVersions], cleared : BOOLEAN, calls : Nat]
PixRenders == [1 .. CacheJobs -> PixRender]
PixQueues == [QueueNames -> Seq(1 .. CacheJobs)]
PixWorld == [cache : PixCache, render : PixRenders, queues : PixQueues, shown : PixShown]

\* A range there is or not.
RangeRight(c) == \/ c.start = -1 /\ c.end = -1 /\ c.preload = 0
                 \/ c.start >= 0 /\ c.start <= c.end
\* A slot has a job of its page, in the rotation of the view, and the picture has its colours.
SlotRight(w, p) ==
  LET s == w.cache.slot[p] IN
  /\ s.job # 0 => /\ w.render[s.job].prio # "none" /\ w.render[s.job].page = p
                  /\ w.render[s.job].rotation = w.shown.rotation
  /\ s.surface # NoSurface => s.surface.inverted = w.cache.inverted
\* What the job of a slot renders, or has rendered, is the last version of the page.
UpToDate(w, p) ==
  LET s == w.cache.slot[p] IN
  /\ s.job # 0 => w.render[s.job].version \in {0, w.shown.version[p]}
  /\ (s.job = 0 /\ s.surface # NoSurface /\ ~s.surface.doubtful) =>
       s.surface.rotation = w.shown.rotation /\ s.surface.version = w.shown.version[p]
\* A job alive has a size to render, and has not rendered what is yet to come.
JobRight(w, j) ==
  w.render[j].prio # "none" =>
    /\ w.render[j].size \in Sizes /\ w.render[j].scale \in Scales
    /\ w.render[j].version <= w.shown.version[w.render[j].page]
\* What is queued is alive, and what has rendered has a version.
QueuesRight(w) ==
  \A q \in QueueNames : \A i \in DOMAIN w.queues[q] :
    LET job == w.render[w.queues[q][i]]
    IN job.prio # "none" /\ (q = "idle" => job.version # 0)
\* All of it, but for the versions of the pages P
GoodBut(w, P) ==
  /\ w \in PixWorld /\ RangeRight(w.cache) /\ w.cache.inverted = w.shown.inverted
  /\ \A p \in CachePage : p \notin Kept(w.cache) => w.cache.slot[p] = EmptySlot
  /\ \A p \in CachePage : SlotRight(w, p) /\ (p \notin P => UpToDate(w, p))
  /\ \A j \in 1 .. CacheJobs : JobRight(w, j)
  /\ QueuesRight(w)
Good(w) == GoodBut(w, {})

Fitting(w) == SizeFor(w.shown.scale, w.shown.rotation)
\* Every page of the range has a picture or a job.
ServedAt(w, p) == w.cache.slot[p].job # 0 \/ w.cache.slot[p].surface # NoSurface
\* And it has the size of now, unless an older job came late.
JobFits(w, p) == w.cache.slot[p].job # 0 => w.render[w.cache.slot[p].job].size = Fitting(w)
FitsAt(w, p) ==
  /\ JobFits(w, p)
  /\ w.cache.slot[p].job = 0 => \/ w.cache.slot[p].surface.doubtful
                                \/ w.cache.slot[p].surface.size = Fitting(w)
CacheGood(w) ==
  /\ Good(w)
  /\ ~w.shown.cleared => \A p \in Kept(w.cache) : ServedAt(w, p)
  /\ (~w.shown.cleared /\ ~w.shown.resize) => \A p \in Kept(w.cache) : FitsAt(w, p)
CacheIs == CacheGood(World)

\* The jobs that can be had
FreeJobs(w) == {j \in 1 .. CacheJobs : w.render[j].prio = "none"}

-----------------------------------------------------------------------------
(* The parts of the record.                                                *)

LEMMA PixFacts ==
  /\ EmptySlot \in PixSlot /\ EmptySlot.job = 0 /\ EmptySlot.surface = NoSurface
  /\ NoRender \in PixRender /\ NoRender.prio = "none" /\ NoSurface \in Surfaces
  /\ \A s \in Scales, r \in CacheRotations : SizeFor(s, r) \in Sizes
  /\ \A z \in Sizes : z # <<0, 0>> /\ z # NoSurface.size
  /\ CachePages \in Nat /\ CacheJobs \in Nat /\ CacheVersions \in Nat /\ CacheSelections \in Nat
<1>1. CachePages \in Nat \ {0} /\ CacheJobs \in Nat /\ CacheVersions \in Nat /\ CacheSelections \in Nat
      /\ 0 \in CacheRotations /\ CacheRotations \subseteq {0, 90, 180, 270}
  BY CacheAssumption
<1>2. NoSurface \in Surfaces /\ NoSurface.size = <<0, 0>>
  BY DEF Surfaces, NoSurface
<1>3. NoRender \in PixRender /\ NoRender.prio = "none"
  BY <1>1 DEF NoRender, PixRender, CachePage
<1>4. EmptySlot \in PixSlot
  <2> HIDE DEF NoSurface
  <2> QED
    BY <1>1, <1>2 DEF EmptySlot, PixSlot
<1>5. EmptySlot.job = 0 /\ EmptySlot.surface = NoSurface
  BY DEF EmptySlot
<1>6. \A s \in Scales, r \in CacheRotations : SizeFor(s, r) \in Sizes
  BY DEF Sizes
<1>7. \A z \in Sizes : z # <<0, 0>>
  <2> SUFFICES ASSUME NEW z \in Sizes PROVE z # <<0, 0>>
    OBVIOUS
  <2>1. PICK s \in Scales, r \in CacheRotations : z = SizeFor(s, r)
    BY DEF Sizes
  <2>2. s # 0
    BY DEF Scales
  <2> QED
    BY <2>1, <2>2 DEF SizeFor
<1> QED
  BY <1>1, <1>2, <1>3, <1>4, <1>5, <1>6, <1>7

\* Other slots
LEMMA PixWithSlots ==
  ASSUME NEW w \in PixWorld, NEW slot \in [CachePage -> PixSlot],
         NEW v, v = [w EXCEPT !.cache.slot = slot]
  PROVE  /\ v \in PixWorld /\ v.cache.slot = slot /\ v.cache = [w.cache EXCEPT !.slot = slot]
         /\ v.render = w.render /\ v.queues = w.queues /\ v.shown = w.shown
         /\ v.cache.start = w.cache.start /\ v.cache.end = w.cache.end
         /\ v.cache.preload = w.cache.preload /\ v.cache.dir = w.cache.dir
         /\ v.cache.inverted = w.cache.inverted /\ v.cache.max = w.cache.max
<1> DEFINE c == [w.cache EXCEPT !.slot = slot]
<1>1. v = [w EXCEPT !.cache = c]
  OBVIOUS
<1>2. w.cache \in PixCache
  BY DEF PixWorld
<1>3. /\ c \in PixCache /\ c.slot = slot /\ c.start = w.cache.start /\ c.end = w.cache.end
      /\ c.preload = w.cache.preload /\ c.dir = w.cache.dir /\ c.inverted = w.cache.inverted
      /\ c.max = w.cache.max
  BY <1>2 DEF PixCache
<1> HIDE DEF c
<1>4. v \in PixWorld /\ v.cache = c /\ v.render = w.render /\ v.queues = w.queues
      /\ v.shown = w.shown
  BY <1>1, <1>3 DEF PixWorld
<1> QED
  BY <1>3, <1>4 DEF c

LEMMA SeqEntry ==
  ASSUME NEW S, NEW seq \in Seq(S), NEW k \in DOMAIN seq
  PROVE  seq[k] \in S
OBVIOUS

LEMMA NoneOfThem ==
  ASSUME NEW S, NEW seq \in Seq(S), NEW J
  PROVE  /\ NotIn(seq, J) \in Seq(S)
         /\ \A i \in DOMAIN NotIn(seq, J) :
              NotIn(seq, J)[i] \notin J /\ \E k \in DOMAIN seq : NotIn(seq, J)[i] = seq[k]
<1> DEFINE K == ToSet(seq) \ J
<1>1. NotIn(seq, J) = OnlyIn(seq, K)
  BY DEF NotIn
<1>2. K \intersect J = {}
  OBVIOUS
<1> HIDE DEF K
<1>3. /\ OnlyIn(seq, K) \in Seq(S)
      /\ \A i \in DOMAIN OnlyIn(seq, K) :
           OnlyIn(seq, K)[i] \in K /\ \E k \in DOMAIN seq : OnlyIn(seq, K)[i] = seq[k]
  BY OnlyInFacts
<1> QED
  BY <1>1, <1>2, <1>3

\* Nothing is left of jobs that are cancelled.
CancelledIs(w, J, v) ==
  /\ v \in PixWorld /\ v.cache = w.cache /\ v.shown = w.shown
  /\ \A j \in 1 .. CacheJobs : v.render[j] = IF j \in J THEN NoRender ELSE w.render[j]
  /\ \A q \in QueueNames : \A i \in DOMAIN v.queues[q] :
       v.queues[q][i] \notin J /\ \E k \in DOMAIN w.queues[q] : v.queues[q][i] = w.queues[q][k]
LEMMA PixCancelled ==
  ASSUME NEW w \in PixWorld, NEW J
  PROVE  CancelledIs(w, J, Cancelled(w, J))
<1> DEFINE r == [j \in 1 .. CacheJobs |-> IF j \in J THEN NoRender ELSE w.render[j]]
           q == [n \in DOMAIN w.queues |-> NotIn(w.queues[n], J)]
           v == Cancelled(w, J)
<1>1. v = [w EXCEPT !.render = r, !.queues = q]
  BY DEF Cancelled
<1>2. w.render \in PixRenders /\ w.queues \in PixQueues
  BY DEF PixWorld
<1>3. r \in PixRenders
  BY <1>2, PixFacts DEF PixRenders
<1>4. DOMAIN w.queues = QueueNames /\ \A n \in QueueNames : w.queues[n] \in Seq(1 .. CacheJobs)
  BY <1>2 DEF PixQueues
<1>5. \A n \in QueueNames :
        /\ q[n] \in Seq(1 .. CacheJobs)
        /\ \A i \in DOMAIN q[n] : q[n][i] \notin J /\ \E k \in DOMAIN w.queues[n] : q[n][i] = w.queues[n][k]
  BY <1>4, NoneOfThem
<1>6. q \in PixQueues
  BY <1>4, <1>5 DEF PixQueues
<1>7. \A j \in 1 .. CacheJobs : r[j] = IF j \in J THEN NoRender ELSE w.render[j]
  OBVIOUS
<1> HIDE DEF r, q, v
<1>8. v \in PixWorld /\ v.cache = w.cache /\ v.shown = w.shown /\ v.render = r /\ v.queues = q
  BY <1>1, <1>3, <1>6 DEF PixWorld
<1> QED
  BY <1>5, <1>7, <1>8 DEF CancelledIs, v
LEMMA CancelledJobs ==
  ASSUME NEW w, NEW J, NEW v, CancelledIs(w, J, v), w \in PixWorld,
         \A j \in 1 .. CacheJobs : JobRight(w, j), QueuesRight(w)
  PROVE  (\A j \in 1 .. CacheJobs : JobRight(v, j)) /\ QueuesRight(v)
<1>1. \A j \in 1 .. CacheJobs : JobRight(v, j)
  BY PixFacts DEF CancelledIs, JobRight
<1>2. ASSUME NEW q \in QueueNames, NEW i \in DOMAIN v.queues[q]
      PROVE  /\ v.render[v.queues[q][i]].prio # "none"
             /\ q = "idle" => v.render[v.queues[q][i]].version # 0
  <2>1. PICK k \in DOMAIN w.queues[q] : v.queues[q][i] = w.queues[q][k]
    BY DEF CancelledIs
  <2>2. v.queues[q][i] \notin J
    BY DEF CancelledIs
  <2>3. w.queues[q][k] \in 1 .. CacheJobs
    <3>1. w.queues \in PixQueues
      BY DEF PixWorld
    <3>2. w.queues[q] \in Seq(1 .. CacheJobs)
      BY <3>1 DEF PixQueues
    <3> QED
      BY <2>1, <3>2, SeqEntry
  <2>4. v.render[v.queues[q][i]] = w.render[w.queues[q][k]]
    BY <2>1, <2>2, <2>3 DEF CancelledIs
  <2> QED
    BY <2>4 DEF QueuesRight
<1> QED
  BY <1>1, <1>2 DEF QueuesRight

-----------------------------------------------------------------------------
(* Slots that stay and slots that are emptied.                             *)

\* All of the cache but the slots
SameRange(v, w) ==
  /\ v.shown = w.shown /\ v.cache.start = w.cache.start /\ v.cache.end = w.cache.end
  /\ v.cache.preload = w.cache.preload /\ v.cache.inverted = w.cache.inverted
RendersLeft(w, J, v) ==
  \A j \in 1 .. CacheJobs : v.render[j] = IF j \in J THEN NoRender ELSE w.render[j]
SlotStays(s, t, J) == t.job = s.job /\ t.surface = s.surface /\ (s.job # 0 => s.job \notin J)
SlotEmptied(w, t) ==
  t.job = 0 /\ (t.surface # NoSurface => t.surface.inverted = w.cache.inverted)
SlotCurrent(w, p, t) ==
  (t.surface # NoSurface /\ ~t.surface.doubtful) =>
    t.surface.rotation = w.shown.rotation /\ t.surface.version = w.shown.version[p]

LEMMA KeptSame ==
  ASSUME NEW c, NEW d, c.start = d.start, c.end = d.end, c.preload = d.preload
  PROVE  Kept(c) = Kept(d) /\ Visible(c) = Visible(d)
BY DEF Kept, Visible

\* v has the slots slot, and some of them have been emptied.
SlotsSet(w, u, slot, v) ==
  /\ slot \in [CachePage -> PixSlot] /\ v = [u EXCEPT !.cache.slot = slot]
  /\ \A p \in CachePage : p \notin Kept(w.cache) => slot[p] = EmptySlot
StayOrEmptied(w, slot, J, P, P2) ==
  \A p \in CachePage :
    \/ SlotStays(w.cache.slot[p], slot[p], J) /\ (p \in P => p \in P2)
    \/ SlotEmptied(w, slot[p]) /\ (p \notin P2 => SlotCurrent(w, p, slot[p]))
SlotsKept(w, J, slot, v) ==
  /\ SameRange(v, w) /\ v.cache.slot = slot /\ RendersLeft(w, J, v)
  /\ Kept(v.cache) = Kept(w.cache)
LEMMA PixKeeps ==
  ASSUME NEW w, NEW P, NEW P2, GoodBut(w, P), NEW J, NEW u, CancelledIs(w, J, u),
         NEW slot, NEW v, SlotsSet(w, u, slot, v), StayOrEmptied(w, slot, J, P, P2)
  PROVE  GoodBut(v, P2) /\ SlotsKept(w, J, slot, v)
<1>0. /\ slot \in [CachePage -> PixSlot] /\ v = [u EXCEPT !.cache.slot = slot]
      /\ \A p \in CachePage : p \notin Kept(w.cache) => slot[p] = EmptySlot
      /\ \A p \in CachePage :
           \/ SlotStays(w.cache.slot[p], slot[p], J) /\ (p \in P => p \in P2)
           \/ SlotEmptied(w, slot[p]) /\ (p \notin P2 => SlotCurrent(w, p, slot[p]))
  BY DEF SlotsSet, StayOrEmptied
<1>1. w \in PixWorld /\ RangeRight(w.cache) /\ w.cache.inverted = w.shown.inverted
  BY DEF GoodBut
<1>2. u \in PixWorld /\ u.cache = w.cache /\ u.shown = w.shown
  BY DEF CancelledIs
<1>3. /\ v \in PixWorld /\ v.cache.slot = slot /\ v.render = u.render /\ v.queues = u.queues
      /\ v.shown = u.shown /\ v.cache.start = u.cache.start /\ v.cache.end = u.cache.end
      /\ v.cache.preload = u.cache.preload /\ v.cache.inverted = u.cache.inverted
  BY <1>0, <1>2, PixWithSlots
<1>4. SameRange(v, w)
  BY <1>2, <1>3 DEF SameRange
<1>5. Kept(v.cache) = Kept(w.cache)
  BY <1>4, KeptSame DEF SameRange
<1>6. RendersLeft(w, J, v)
  BY <1>3 DEF CancelledIs, RendersLeft
<1>7. RangeRight(v.cache) /\ v.cache.inverted = v.shown.inverted
  BY <1>1, <1>4 DEF SameRange, RangeRight
<1>8. \A j \in 1 .. CacheJobs : JobRight(u, j)
  BY <1>1, CancelledJobs DEF GoodBut
<1>9. QueuesRight(u)
  BY <1>1, CancelledJobs DEF GoodBut
<1>10. \A j \in 1 .. CacheJobs : JobRight(v, j)
  BY <1>3, <1>8 DEF JobRight
<1>11. QueuesRight(v)
  BY <1>3, <1>9 DEF QueuesRight
<1>12. w.cache.slot \in [CachePage -> PixSlot] /\ CacheJobs \in Nat
  BY <1>1, PixFacts DEF PixWorld, PixCache
<1>13. ASSUME NEW p \in CachePage
       PROVE  SlotRight(v, p) /\ (p \notin P2 => UpToDate(v, p))
  <2>1. w.cache.slot[p] \in PixSlot /\ SlotRight(w, p) /\ (p \notin P => UpToDate(w, p))
    BY <1>12 DEF GoodBut
  <2>2. CASE SlotStays(w.cache.slot[p], slot[p], J) /\ (p \in P => p \in P2)
    <3> DEFINE j == slot[p].job
    <3>1. j = w.cache.slot[p].job /\ slot[p].surface = w.cache.slot[p].surface
      BY <2>2 DEF SlotStays
    <3>2. j # 0 => j \in 1 .. CacheJobs /\ v.render[j] = w.render[j]
      BY <1>6, <1>12, <2>1, <2>2, <3>1 DEF SlotStays, RendersLeft, PixSlot
    <3>3. SlotRight(v, p)
      BY <1>3, <1>4, <2>1, <3>1, <3>2 DEF SlotRight, SameRange
    <3>4. p \notin P2 => UpToDate(v, p)
      BY <1>3, <1>4, <2>1, <2>2, <3>1, <3>2 DEF UpToDate, SameRange
    <3> QED
      BY <3>3, <3>4
  <2>3. CASE SlotEmptied(w, slot[p]) /\ (p \notin P2 => SlotCurrent(w, p, slot[p]))
    <3>1. SlotRight(v, p)
      BY <1>3, <1>4, <2>3 DEF SlotRight, SameRange, SlotEmptied
    <3>2. p \notin P2 => UpToDate(v, p)
      BY <1>3, <1>4, <2>3 DEF UpToDate, SameRange, SlotEmptied, SlotCurrent
    <3> QED
      BY <3>1, <3>2
  <2> QED
    BY <1>0, <2>2, <2>3
<1>14. \A p \in CachePage : p \notin Kept(v.cache) => v.cache.slot[p] = EmptySlot
  BY <1>0, <1>3, <1>5
<1> QED
  BY <1>3, <1>4, <1>5, <1>6, <1>7, <1>10, <1>11, <1>13, <1>14 DEF GoodBut, SlotsKept

\* Nothing is cancelled.
LEMMA NoneCancelled == ASSUME NEW w \in PixWorld PROVE CancelledIs(w, {}, w)
BY DEF CancelledIs

\* The jobs of two slots are two.
LEMMA JobOfOne ==
  ASSUME NEW w, NEW P, GoodBut(w, P), NEW p \in CachePage, NEW r \in CachePage, p # r,
         w.cache.slot[p].job # 0
  PROVE  w.cache.slot[p].job # w.cache.slot[r].job
BY DEF GoodBut, SlotRight

-----------------------------------------------------------------------------
(* What the functions of the cache do to it.                               *)

LEMMA DisposedSlot ==
  ASSUME NEW s \in PixSlot, NEW t,
         t = [s EXCEPT !.job = 0, !.surface = NoSurface, !.selection = FALSE, !.set = FALSE]
  PROVE  t \in PixSlot /\ t.job = 0 /\ t.surface = NoSurface
<1> DEFINE no == FALSE
           a == [s EXCEPT !.job = 0]
           b == [a EXCEPT !.surface = NoSurface]
           c == [b EXCEPT !.selection = no]
           d == [c EXCEPT !.set = no]
<1>1. no \in BOOLEAN
  OBVIOUS
<1>2. t = d
  BY Zenon
<1> HIDE DEF no
<1>3. a \in PixSlot /\ a.job = 0
  BY PixFacts DEF PixSlot
<1> HIDE DEF a
<1>4. b \in PixSlot /\ b.job = 0 /\ b.surface = NoSurface
  BY <1>3, PixFacts DEF PixSlot
<1> HIDE DEF b
<1>5. c \in PixSlot /\ c.job = 0 /\ c.surface = NoSurface
  BY <1>1, <1>4 DEF PixSlot
<1> HIDE DEF c
<1>6. d \in PixSlot /\ d.job = 0 /\ d.surface = NoSurface
  BY <1>1, <1>5 DEF PixSlot
<1> QED
  BY <1>2, <1>6

\* What no function undoes: a job that is free stays free.
FreeStays(w, v) ==
  \A j \in 1 .. CacheJobs : w.render[j].prio = "none" => v.render[j].prio = "none"
\* The slot and what its job renders
SlotKept(w, v, p) ==
  /\ v.cache.slot[p] = w.cache.slot[p]
  /\ v.cache.slot[p].job # 0 =>
       v.render[v.cache.slot[p].job] = w.render[v.cache.slot[p].job]

LEMMA FreeLeft == ASSUME NEW w, NEW J, NEW v, RendersLeft(w, J, v) PROVE FreeStays(w, v)
BY PixFacts DEF RendersLeft, FreeStays

LEMMA PixDisposed ==
  ASSUME NEW w, NEW P, GoodBut(w, P), NEW P2 \in SUBSET CachePage, P \subseteq P2,
         P2 \subseteq Kept(w.cache), NEW v, v = Disposed(w, P2)
  PROVE  /\ Good(v) /\ SameRange(v, w) /\ Kept(v.cache) = Kept(w.cache) /\ FreeStays(w, v)
         /\ \A p \in P2 : v.cache.slot[p].job = 0 /\ v.cache.slot[p].surface = NoSurface
         /\ \A p \in CachePage : p \notin P2 => SlotKept(w, v, p)
<1> DEFINE J == {w.cache.slot[p].job : p \in P2}
           u == Cancelled(w, J)
           none == {}
           slot == [p \in CachePage |->
                      IF p \in P2
                        THEN [w.cache.slot[p] EXCEPT !.job = 0, !.surface = NoSurface,
                                                     !.selection = FALSE, !.set = FALSE]
                        ELSE w.cache.slot[p]]
<1>1. w \in PixWorld /\ w.cache.slot \in [CachePage -> PixSlot]
  BY DEF GoodBut, PixWorld, PixCache
<1>2. v = [u EXCEPT !.cache.slot = slot]
  BY DEF Disposed
<1>3. CancelledIs(w, J, u)
  BY <1>1, PixCancelled
<1>4. \A p \in P2 : slot[p] \in PixSlot /\ slot[p].job = 0 /\ slot[p].surface = NoSurface
  BY <1>1, DisposedSlot
<1>5. \A p \in CachePage : p \notin P2 => slot[p] = w.cache.slot[p]
  OBVIOUS
<1>6. slot = [p \in CachePage |-> slot[p]]
  OBVIOUS
<1>7. ASSUME NEW p \in CachePage, p \notin P2, w.cache.slot[p].job # 0
      PROVE  w.cache.slot[p].job \notin J
  BY <1>7, JobOfOne
<1> HIDE DEF slot, u, J
<1>8. slot \in [CachePage -> PixSlot]
  BY <1>1, <1>4, <1>5, <1>6
<1>9. SlotsSet(w, u, slot, v)
  <2>1. \A p \in CachePage : p \notin Kept(w.cache) => slot[p] = EmptySlot
    BY <1>5 DEF GoodBut
  <2> QED
    BY <1>2, <1>8, <2>1 DEF SlotsSet
<1>10. StayOrEmptied(w, slot, J, P, none)
  BY <1>4, <1>5, <1>7 DEF StayOrEmptied, SlotStays, SlotEmptied, SlotCurrent
<1> HIDE DEF none
<1>14. GoodBut(v, none) /\ SlotsKept(w, J, slot, v)
  BY <1>3, <1>9, <1>10, PixKeeps
<1>11. /\ SameRange(v, w) /\ v.cache.slot = slot /\ RendersLeft(w, J, v)
       /\ Kept(v.cache) = Kept(w.cache)
  BY <1>14 DEF SlotsKept
<1>12. FreeStays(w, v)
  BY <1>11, FreeLeft
<1>13. ASSUME NEW p \in CachePage, p \notin P2 PROVE SlotKept(w, v, p)
  <2>1. v.cache.slot[p] = w.cache.slot[p] /\ w.cache.slot[p] \in PixSlot
    BY <1>1, <1>5, <1>11, <1>13
  <2>2. w.cache.slot[p].job # 0 => w.cache.slot[p].job \in 1 .. CacheJobs
    BY <2>1, PixFacts DEF PixSlot
  <2> QED
    BY <1>7, <1>11, <1>13, <2>1, <2>2 DEF SlotKept, RendersLeft
<1> QED
  BY <1>4, <1>11, <1>12, <1>13, <1>14 DEF Good, none

LEMMA PixCopied ==
  ASSUME NEW w, Good(w), NEW j \in 1 .. CacheJobs, NEW p \in CachePage, p \in Kept(w.cache),
         w.render[j].prio # "none", w.render[j].page = p, w.render[j].version # 0,
         NEW v, v = CopyJobToJobInfo(w, j, p)
  PROVE  /\ Good(v) /\ SameRange(v, w) /\ Kept(v.cache) = Kept(w.cache) /\ FreeStays(w, v)
         /\ v.cache.slot[p].job = 0 /\ v.cache.slot[p].surface # NoSurface
         /\ v.cache.slot[p].surface.size = w.render[j].size
         /\ w.cache.slot[p].job # j => v.cache.slot[p].surface.doubtful
         /\ \A r \in CachePage : r # p => SlotKept(w, v, r)
<1> DEFINE job == w.render[j]
           s == w.cache.slot[p]
           J == {s.job} \union {j}
           u == Cancelled(w, J)
           none == {}
           pix == [size |-> job.size, rotation |-> job.rotation, version |-> job.version,
                   inverted |-> w.cache.inverted, doubtful |-> s.job # j]
           new == [job |-> 0, ready |-> TRUE, surface |-> pix,
                   set |-> job.include, target |-> s.target,
                   selection |-> s.selection \/ job.include,
                   points |-> IF job.include THEN job.points ELSE s.points,
                   scale |-> IF job.include THEN job.scale ELSE s.scale]
           slot == [w.cache.slot EXCEPT ![p] = new]
<1>1. w \in PixWorld /\ w.cache.slot \in [CachePage -> PixSlot] /\ w.render \in PixRenders
      /\ w.cache.inverted \in BOOLEAN
  BY DEF Good, GoodBut, PixWorld, PixCache
<1>2. job \in PixRender /\ s \in PixSlot
  BY <1>1 DEF PixRenders
<1>3. JobRight(w, j) /\ SlotRight(w, p) /\ UpToDate(w, p)
  BY DEF Good, GoodBut
<1>4. v = [u EXCEPT !.cache.slot[p] = new]
  BY DEF CopyJobToJobInfo
<1>5. CancelledIs(w, J, u)
  BY <1>1, PixCancelled
<1>6. v = [u EXCEPT !.cache.slot = slot]
  <2>1. u.cache.slot = w.cache.slot
    BY <1>5 DEF CancelledIs
  <2> HIDE DEF u, new
  <2> QED
    BY <1>4, <2>1
<1>7. pix.size = job.size /\ pix.rotation = job.rotation /\ pix.version = job.version
      /\ pix.inverted = w.cache.inverted /\ (s.job # j => pix.doubtful) /\ (pix.doubtful => s.job # j)
  OBVIOUS
<1>8. job.size \in Sizes /\ job.rotation \in CacheRotations /\ job.version \in 1 .. CacheVersions
  BY <1>2, <1>3, PixFacts DEF JobRight, PixRender
<1>9. pix \in Surfaces /\ pix # NoSurface
  <2>1. pix \in [size : Sizes, rotation : CacheRotations, version : 1 .. CacheVersions,
                 inverted : BOOLEAN, doubtful : BOOLEAN]
    <3> DEFINE late == s.job # j
    <3>1. late \in BOOLEAN
      OBVIOUS
    <3> HIDE DEF late, job
    <3> QED
      BY <1>1, <1>8, <3>1
  <2>2. pix.size # NoSurface.size
    BY <1>7, <1>8, PixFacts
  <2> HIDE DEF pix
  <2> QED
    BY <2>1, <2>2 DEF Surfaces
<1> HIDE DEF pix
<1>10. new \in PixSlot /\ new.job = 0 /\ new.surface = pix
  <2>1. /\ job.include \in BOOLEAN /\ job.points \in 0 .. CacheSelections
        /\ job.scale \in {0} \union Scales
    BY <1>2 DEF PixRender
  <2>2. /\ s.target \in 0 .. CacheSelections /\ s.points \in -1 .. CacheSelections
        /\ s.scale \in {0} \union Scales /\ s.selection \in BOOLEAN
    BY <1>2 DEF PixSlot
  <2> DEFINE yes == TRUE
             sel == s.selection \/ job.include
             pts == IF job.include THEN job.points ELSE s.points
             sc == IF job.include THEN job.scale ELSE s.scale
  <2>3. sel \in BOOLEAN /\ pts \in -1 .. CacheSelections /\ sc \in {0} \union Scales
        /\ yes \in BOOLEAN /\ 0 \in 0 .. CacheJobs
    BY <2>1, <2>2, PixFacts
  <2>4. new = [job |-> 0, ready |-> yes, surface |-> pix, set |-> job.include, target |-> s.target,
               selection |-> sel, points |-> pts, scale |-> sc]
    BY Zenon
  <2> HIDE DEF yes, sel, pts, sc, s, job, new
  <2> QED
    BY <1>9, <2>1, <2>2, <2>3, <2>4 DEF PixSlot
<1> HIDE DEF new
<1>11. slot \in [CachePage -> PixSlot] /\ slot[p] = new
       /\ \A r \in CachePage : r # p => slot[r] = w.cache.slot[r]
  BY <1>1, <1>10
<1>12. ASSUME NEW r \in CachePage, r # p, w.cache.slot[r].job # 0
       PROVE  w.cache.slot[r].job \notin J
  <2>1. w.cache.slot[r].job # s.job
    BY <1>12, JobOfOne DEF Good
  <2>2. w.cache.slot[r].job # j
    BY <1>12 DEF Good, GoodBut, SlotRight
  <2> QED
    BY <2>1, <2>2
<1> HIDE DEF slot, u, J
<1>13. SlotsSet(w, u, slot, v)
  <2>1. \A r \in CachePage : r \notin Kept(w.cache) => slot[r] = EmptySlot
    BY <1>11 DEF Good, GoodBut
  <2> QED
    BY <1>6, <1>11, <2>1 DEF SlotsSet
<1>14. SlotEmptied(w, slot[p]) /\ SlotCurrent(w, p, slot[p])
  <2>1. SlotEmptied(w, slot[p])
    BY <1>7, <1>10, <1>11 DEF SlotEmptied
  <2>2. ASSUME ~pix.doubtful
        PROVE  pix.rotation = w.shown.rotation /\ pix.version = w.shown.version[p]
    <3>1. s.job = j /\ j # 0
      BY <1>7, <2>2
    <3>2. job.rotation = w.shown.rotation
      BY <1>3, <3>1 DEF SlotRight
    <3>3. job.version \in {0, w.shown.version[p]}
      BY <1>3, <3>1 DEF UpToDate
    <3> QED
      BY <1>7, <3>2, <3>3
  <2> QED
    BY <1>10, <1>11, <2>1, <2>2 DEF SlotCurrent
<1>15. StayOrEmptied(w, slot, J, none, none)
  BY <1>11, <1>12, <1>14 DEF StayOrEmptied, SlotStays
<1>19. GoodBut(w, none)
  BY DEF Good, none
<1> HIDE DEF none
<1>20. GoodBut(v, none) /\ SlotsKept(w, J, slot, v)
  BY <1>5, <1>13, <1>15, <1>19, PixKeeps
<1>16. /\ SameRange(v, w) /\ v.cache.slot = slot /\ RendersLeft(w, J, v)
       /\ Kept(v.cache) = Kept(w.cache)
  BY <1>20 DEF SlotsKept
<1>17. FreeStays(w, v)
  BY <1>16, FreeLeft
<1>18. ASSUME NEW r \in CachePage, r # p PROVE SlotKept(w, v, r)
  <2>1. v.cache.slot[r] = w.cache.slot[r] /\ w.cache.slot[r] \in PixSlot
    BY <1>1, <1>11, <1>16, <1>18
  <2>2. w.cache.slot[r].job # 0 => w.cache.slot[r].job \in 1 .. CacheJobs
    BY <2>1, PixFacts DEF PixSlot
  <2> QED
    BY <1>12, <1>16, <1>18, <2>1, <2>2 DEF SlotKept, RendersLeft
<1> QED
  BY <1>7, <1>9, <1>10, <1>11, <1>16, <1>17, <1>18, <1>20 DEF Good, none

\* Every page that has something, or the right thing, has it still.
Serves(w, v) ==
  \A p \in CachePage : /\ ServedAt(w, p) => ServedAt(v, p)
                       /\ FitsAt(w, p) => FitsAt(v, p)
Keeps(w, v) == Good(v) /\ SameRange(v, w) /\ Kept(v.cache) = Kept(w.cache) /\ Serves(w, v)

LEMMA SlotServes ==
  ASSUME NEW w, NEW v, NEW p \in CachePage, SameRange(v, w), SlotKept(w, v, p)
  PROVE  (ServedAt(w, p) => ServedAt(v, p)) /\ (FitsAt(w, p) => FitsAt(v, p))
<1>1. v.cache.slot[p] = w.cache.slot[p] /\ Fitting(v) = Fitting(w)
  BY DEF SlotKept, SameRange, Fitting
<1>2. ServedAt(w, p) => ServedAt(v, p)
  BY <1>1 DEF ServedAt
<1>3. JobFits(w, p) => JobFits(v, p)
  BY <1>1 DEF JobFits, SlotKept
<1> QED
  BY <1>1, <1>2, <1>3 DEF FitsAt

\* A change of the selections only
Reselected(w, v) ==
  /\ Keeps(w, v) /\ v.render = w.render /\ v.queues = w.queues
  /\ \A p \in CachePage : /\ v.cache.slot[p].job = w.cache.slot[p].job
                          /\ v.cache.slot[p].surface = w.cache.slot[p].surface
LEMMA PixReselected ==
  ASSUME NEW w, Good(w), NEW slot \in [CachePage -> PixSlot],
         \A p \in CachePage : /\ slot[p].job = w.cache.slot[p].job
                              /\ slot[p].surface = w.cache.slot[p].surface
                              /\ p \notin Kept(w.cache) => slot[p] = w.cache.slot[p],
         NEW v, v = [w EXCEPT !.cache.slot = slot]
  PROVE  Reselected(w, v)
<1> DEFINE none == {}
<1>1. w \in PixWorld /\ GoodBut(w, none)
  BY DEF Good, GoodBut
<1>2. CancelledIs(w, none, w)
  BY <1>1, NoneCancelled
<1>3. SlotsSet(w, w, slot, v)
  BY DEF SlotsSet, Good, GoodBut
<1>4. StayOrEmptied(w, slot, none, none, none)
  BY DEF StayOrEmptied, SlotStays
<1> HIDE DEF none
<1>5. GoodBut(v, none) /\ SlotsKept(w, none, slot, v)
  BY <1>1, <1>2, <1>3, <1>4, PixKeeps
<1>6. v.render = w.render /\ v.queues = w.queues /\ v.cache.slot = slot
  BY <1>1, PixWithSlots
<1>7. SameRange(v, w) /\ Kept(v.cache) = Kept(w.cache)
  BY <1>5 DEF SlotsKept
<1>8. Fitting(v) = Fitting(w)
  BY <1>7 DEF Fitting, SameRange
<1>9. Serves(w, v)
  BY <1>6, <1>8 DEF Serves, ServedAt, FitsAt, JobFits
<1>10. Good(v)
  BY <1>5 DEF Good, none
<1> QED
  BY <1>6, <1>7, <1>9, <1>10 DEF Reselected, Keeps

\* A slot with another selection
LEMMA ReselectedSlots ==
  ASSUME NEW s \in PixSlot, NEW n \in 0 .. CacheSelections, NEW x \in Scales
  PROVE  /\ [s EXCEPT !.set = TRUE, !.target = n] \in PixSlot
         /\ [s EXCEPT !.set = TRUE, !.target = n].job = s.job
         /\ [s EXCEPT !.set = TRUE, !.target = n].surface = s.surface
         /\ [s EXCEPT !.set = FALSE, !.points = -1, !.selection = FALSE] \in PixSlot
         /\ [s EXCEPT !.set = FALSE, !.points = -1, !.selection = FALSE].job = s.job
         /\ [s EXCEPT !.set = FALSE, !.points = -1, !.selection = FALSE].surface = s.surface
         /\ [s EXCEPT !.selection = FALSE, !.points = -1] \in PixSlot
         /\ [s EXCEPT !.selection = FALSE, !.points = -1].job = s.job
         /\ [s EXCEPT !.selection = FALSE, !.points = -1].surface = s.surface
         /\ [s EXCEPT !.selection = TRUE, !.points = s.target, !.scale = x] \in PixSlot
         /\ [s EXCEPT !.selection = TRUE, !.points = s.target, !.scale = x].job = s.job
         /\ [s EXCEPT !.selection = TRUE, !.points = s.target, !.scale = x].surface = s.surface
<1> DEFINE yes == TRUE
           no == FALSE
           a == [s EXCEPT !.set = yes]
           b == [a EXCEPT !.target = n]
           c == [s EXCEPT !.set = no]
           d == [c EXCEPT !.points = -1]
           e == [d EXCEPT !.selection = no]
           f == [s EXCEPT !.selection = no]
           g == [f EXCEPT !.points = -1]
           h == [s EXCEPT !.selection = yes]
           k == [h EXCEPT !.points = s.target]
           m == [k EXCEPT !.scale = x]
           Alike(t) == t \in PixSlot /\ t.job = s.job /\ t.surface = s.surface
<1>1. yes \in BOOLEAN /\ no \in BOOLEAN /\ -1 \in -1 .. CacheSelections
      /\ s.target \in -1 .. CacheSelections
  BY PixFacts DEF PixSlot
<1>2. /\ [s EXCEPT !.set = TRUE, !.target = n] = b
      /\ [s EXCEPT !.set = FALSE, !.points = -1, !.selection = FALSE] = e
      /\ [s EXCEPT !.selection = FALSE, !.points = -1] = g
      /\ [s EXCEPT !.selection = TRUE, !.points = s.target, !.scale = x] = m
  BY Zenon
<1> HIDE DEF yes, no
<1>3. Alike(a) /\ Alike(c) /\ Alike(f) /\ Alike(h)
  BY <1>1 DEF PixSlot
<1> HIDE DEF a, c, f, h
<1>4. Alike(b) /\ Alike(d) /\ Alike(g) /\ Alike(k)
  BY <1>1, <1>3 DEF PixSlot
<1> HIDE DEF b, d, g, k
<1>5. Alike(e) /\ Alike(m)
  BY <1>1, <1>4 DEF PixSlot
<1> HIDE DEF e, m
<1> QED
  BY <1>2, <1>4, <1>5

LEMMA SelectionListSet ==
  ASSUME NEW w, Good(w)
  PROVE  Reselected(w, SetSelectionList(w))
<1> DEFINE slot == [p \in CachePage |->
     LET s == w.cache.slot[p] IN
     IF p \notin Kept(w.cache) THEN s
     ELSE IF p = SelectedPage /\ w.shown.selection # 0
       THEN [s EXCEPT !.set = TRUE, !.target = w.shown.selection]
       ELSE [s EXCEPT !.set = FALSE, !.points = -1, !.selection = FALSE]]
           v == SetSelectionList(w)
<1>1. v = [w EXCEPT !.cache.slot = slot]
  BY DEF SetSelectionList
<1>2. /\ w.cache.slot \in [CachePage -> PixSlot]
      /\ w.shown.selection \in 0 .. CacheSelections /\ w.shown.scale \in Scales
  BY DEF Good, GoodBut, PixWorld, PixCache, PixShown
<1>3. ASSUME NEW p \in CachePage
      PROVE  /\ slot[p] \in PixSlot /\ slot[p].job = w.cache.slot[p].job
             /\ slot[p].surface = w.cache.slot[p].surface
             /\ p \notin Kept(w.cache) => slot[p] = w.cache.slot[p]
  <2> DEFINE s == w.cache.slot[p]
             n == w.shown.selection
             t == [s EXCEPT !.set = TRUE, !.target = n]
             u == [s EXCEPT !.set = FALSE, !.points = -1, !.selection = FALSE]
  <2>1. slot[p] = IF p \notin Kept(w.cache) THEN s
                  ELSE IF p = SelectedPage /\ n # 0 THEN t ELSE u
    OBVIOUS
  <2>2. s \in PixSlot
    BY <1>2
  <2>3. /\ t \in PixSlot /\ t.job = s.job /\ t.surface = s.surface
        /\ u \in PixSlot /\ u.job = s.job /\ u.surface = s.surface
    BY <1>2, <2>2, ReselectedSlots
  <2> HIDE DEF slot, t, u
  <2> QED
    BY <2>1, <2>2, <2>3
<1>4. slot = [p \in CachePage |-> slot[p]]
  OBVIOUS
<1> HIDE DEF slot, v
<1>5. slot \in [CachePage -> PixSlot]
  BY <1>3, <1>4
<1>6. Reselected(w, v)
  BY <1>1, <1>3, <1>5, PixReselected
<1> QED
  BY <1>6 DEF v

LEMMA SelectionSurfaceGot ==
  ASSUME NEW w, Good(w), NEW p \in CachePage, p \in Kept(w.cache)
  PROVE  Good(GetSelectionSurface(w, p)) /\ Reselected(w, GetSelectionSurface(w, p))
<1> DEFINE s == w.cache.slot[p]
           scale == w.shown.scale
           c == IF SelectionNeeded(s, scale)
                  THEN [s EXCEPT !.selection = FALSE, !.points = -1] ELSE s
           new == IF c.target # c.points
                    THEN [c EXCEPT !.selection = TRUE, !.points = c.target, !.scale = scale]
                    ELSE c
           idle == ~s.set \/ (s.job # 0 /\ w.render[s.job].include)
           slot == IF idle THEN w.cache.slot ELSE [w.cache.slot EXCEPT ![p] = new]
           v == GetSelectionSurface(w, p)
<1>1. /\ w \in PixWorld /\ w.cache.slot \in [CachePage -> PixSlot] /\ w.cache \in PixCache
      /\ 0 \in 0 .. CacheSelections /\ scale \in Scales
  BY PixFacts DEF Good, GoodBut, PixWorld, PixCache, PixShown
<1>2. v = IF idle THEN w ELSE [w EXCEPT !.cache.slot[p] = new]
  BY DEF GetSelectionSurface
<1>3. c \in PixSlot /\ c.job = s.job /\ c.surface = s.surface
  <2>1. s \in PixSlot
    BY <1>1
  <2> HIDE DEF s, scale
  <2> QED
    BY <1>1, <2>1, ReselectedSlots
<1>4. new \in PixSlot /\ new.job = s.job /\ new.surface = s.surface
  <2> HIDE DEF s, scale, c
  <2> QED
    BY <1>1, <1>3, ReselectedSlots
<1> HIDE DEF new
<1>5. v = [w EXCEPT !.cache.slot = slot]
  <2>1. CASE idle
    <3>1. w = [w EXCEPT !.cache = w.cache] /\ w.cache = [w.cache EXCEPT !.slot = w.cache.slot]
      BY <1>1 DEF PixWorld, PixCache
    <3> QED
      BY <1>2, <2>1, <3>1
  <2>2. CASE ~idle
    <3> HIDE DEF idle
    <3> QED
      BY <1>2, <2>2
  <2> QED
    BY <2>1, <2>2
<1> HIDE DEF idle, v
<1>6. /\ slot \in [CachePage -> PixSlot]
      /\ \A r \in CachePage : /\ slot[r].job = w.cache.slot[r].job
                              /\ slot[r].surface = w.cache.slot[r].surface
                              /\ r \notin Kept(w.cache) => slot[r] = w.cache.slot[r]
  BY <1>1, <1>4
<1> HIDE DEF slot
<1>7. Reselected(w, v)
  BY <1>5, <1>6, PixReselected
<1> QED
  BY <1>7 DEF Reselected, Keeps, v

LEMMA SurfaceGot ==
  ASSUME NEW w, Good(w), NEW p \in CachePage
  PROVE  Keeps(w, GetSurface(w, p)) /\ FreeStays(w, GetSurface(w, p))
<1> DEFINE s == w.cache.slot[p]
           j == s.job
           v == GetSurface(w, p)
           got == p \in Kept(w.cache) /\ ~s.ready /\ j # 0 /\ w.render[j].version # 0
<1>1. v = IF got THEN CopyJobToJobInfo(w, j, p) ELSE w
  BY DEF GetSurface
<1>2. CASE ~got
  <2>1. v = w
    BY <1>1, <1>2
  <2> HIDE DEF v
  <2>2. Keeps(w, v) /\ FreeStays(w, v)
    BY <2>1 DEF Keeps, SameRange, Serves, FreeStays
  <2> QED
    BY <2>2 DEF v
<1>3. CASE got
  <2>1. s \in PixSlot /\ SlotRight(w, p)
    BY DEF Good, GoodBut, PixWorld, PixCache
  <2>2. j \in 1 .. CacheJobs
    BY <1>3, <2>1, PixFacts DEF PixSlot
  <2>3. w.render[j].prio # "none" /\ w.render[j].page = p
    BY <1>3, <2>1 DEF SlotRight
  <2>4. v = CopyJobToJobInfo(w, j, p) /\ p \in Kept(w.cache) /\ w.render[j].version # 0
    BY <1>1, <1>3
  <2>9. s.job = j
    OBVIOUS
  <2> HIDE DEF v, j
  <2>5. /\ Good(v) /\ SameRange(v, w) /\ Kept(v.cache) = Kept(w.cache) /\ FreeStays(w, v)
        /\ v.cache.slot[p].job = 0 /\ v.cache.slot[p].surface # NoSurface
        /\ v.cache.slot[p].surface.size = w.render[j].size
        /\ \A r \in CachePage : r # p => SlotKept(w, v, r)
    BY <2>2, <2>3, <2>4, PixCopied
  <2>6. Fitting(v) = Fitting(w)
    BY <2>5 DEF Fitting, SameRange
  <2>7. ServedAt(v, p) /\ (FitsAt(w, p) => FitsAt(v, p))
    BY <1>3, <2>5, <2>6, <2>9 DEF ServedAt, FitsAt, JobFits, j
  <2>8. Serves(w, v)
    BY <2>5, <2>7, SlotServes DEF Serves
  <2> QED
    BY <2>5, <2>8 DEF Keeps, v
<1> QED
  BY <1>2, <1>3

\* After the sizes are cleared every job that is left renders the size of now.
LEMMA JobSizesCleared ==
  ASSUME NEW w, Good(w), NEW v, v = ClearJobSizes(w)
  PROVE  /\ Good(v) /\ SameRange(v, w) /\ Kept(v.cache) = Kept(w.cache) /\ FreeStays(w, v)
         /\ \A p \in CachePage : JobFits(v, p)
<1> DEFINE Wrong(p) == LET j == w.cache.slot[p].job
                       IN j # 0 /\ w.render[j].size
                                     # SizeFor(w.shown.scale, w.render[j].rotation)
           P == {p \in Kept(w.cache) : Wrong(p)}
           J == {w.cache.slot[p].job : p \in P}
           u == Cancelled(w, J)
           none == {}
           Cleared(s) == [s EXCEPT !.job = 0, !.surface =
                           [s.surface EXCEPT !.doubtful = s.surface # NoSurface]]
           slot == [p \in CachePage |->
                      LET s == w.cache.slot[p] IN
                      IF p \in P
                        THEN [s EXCEPT !.job = 0, !.surface =
                               [s.surface EXCEPT !.doubtful = s.surface # NoSurface]]
                        ELSE s]
<1>1. w \in PixWorld /\ w.cache.slot \in [CachePage -> PixSlot] /\ GoodBut(w, none)
  BY DEF Good, GoodBut, PixWorld, PixCache
<1>2. v = [u EXCEPT !.cache.slot = slot]
  BY DEF ClearJobSizes
<1>3. CancelledIs(w, J, u)
  BY <1>1, PixCancelled
<1>4. ASSUME NEW s \in PixSlot
      PROVE  /\ Cleared(s) \in PixSlot /\ Cleared(s).job = 0
             /\ Cleared(s).surface # NoSurface =>
                  s.surface # NoSurface /\ Cleared(s).surface.doubtful
                  /\ Cleared(s).surface.inverted = s.surface.inverted
  <2> DEFINE t == [s.surface EXCEPT !.doubtful = s.surface # NoSurface]
             a == [s EXCEPT !.job = 0]
             b == [a EXCEPT !.surface = t]
  <2>1. s.surface \in Surfaces
    BY DEF PixSlot
  <2>2. t \in Surfaces /\ (t # NoSurface => s.surface # NoSurface)
    <3>1. CASE s.surface = NoSurface
      <4> DEFINE no == s.surface # NoSurface
      <4>1. no = FALSE
        BY <3>1
      <4>2. NoSurface.doubtful = FALSE
        BY DEF NoSurface
      <4>3. t = [s.surface EXCEPT !.doubtful = no]
        OBVIOUS
      <4> HIDE DEF no
      <4>4. t = NoSurface
        BY <3>1, <4>1, <4>2, <4>3 DEF NoSurface
      <4> QED
        BY <3>1, <4>4, PixFacts
    <3>2. CASE s.surface # NoSurface
      <4> DEFINE no == s.surface # NoSurface
      <4>1. no \in BOOLEAN
        OBVIOUS
      <4>2. s.surface \in [size : Sizes, rotation : CacheRotations, version : 1 .. CacheVersions,
                           inverted : BOOLEAN, doubtful : BOOLEAN]
        BY <2>1, <3>2 DEF Surfaces
      <4>3. t = [s.surface EXCEPT !.doubtful = no]
        OBVIOUS
      <4> HIDE DEF no, t
      <4>4. t \in [size : Sizes, rotation : CacheRotations, version : 1 .. CacheVersions,
                   inverted : BOOLEAN, doubtful : BOOLEAN]
        BY <4>1, <4>2, <4>3
      <4> QED
        BY <3>2, <4>4 DEF Surfaces
    <3> QED
      BY <3>1, <3>2
  <2>3. t # NoSurface => t.doubtful /\ t.inverted = s.surface.inverted
    <3> SUFFICES ASSUME t # NoSurface PROVE t.doubtful /\ t.inverted = s.surface.inverted
      OBVIOUS
    <3>1. s.surface # NoSurface
      BY <2>2
    <3> DEFINE no == s.surface # NoSurface
    <3>2. no = TRUE
      BY <3>1
    <3>3. s.surface \in [size : Sizes, rotation : CacheRotations, version : 1 .. CacheVersions,
                         inverted : BOOLEAN, doubtful : BOOLEAN]
      BY <2>1, <3>1 DEF Surfaces
    <3>4. t = [s.surface EXCEPT !.doubtful = no]
      OBVIOUS
    <3> HIDE DEF no, t
    <3>5. t.doubtful = no /\ t.inverted = s.surface.inverted
      BY <3>3, <3>4
    <3> QED
      BY <3>2, <3>5
  <2>4. Cleared(s) = b
    BY Zenon
  <2> HIDE DEF t
  <2>5. a \in PixSlot /\ a.job = 0
    BY PixFacts DEF PixSlot
  <2> HIDE DEF a
  <2>6. b \in PixSlot /\ b.job = 0 /\ b.surface = t
    BY <2>2, <2>5 DEF PixSlot
  <2> HIDE DEF b
  <2> QED
    BY <2>2, <2>3, <2>4, <2>6
<1>5. \A p \in CachePage : p \in P => slot[p] = Cleared(w.cache.slot[p])
  OBVIOUS
<1>6. \A p \in CachePage : p \notin P => slot[p] = w.cache.slot[p]
  OBVIOUS
<1>7. slot = [p \in CachePage |-> slot[p]]
  OBVIOUS
<1>8. ASSUME NEW p \in CachePage, p \notin P, w.cache.slot[p].job # 0
      PROVE  w.cache.slot[p].job \notin J
  <2>1. P \subseteq CachePage
    BY DEF Kept
  <2> HIDE DEF P
  <2> QED
    BY <1>1, <1>8, <2>1, JobOfOne
<1>9. P \subseteq Kept(w.cache)
  OBVIOUS
<1>10. ASSUME NEW p \in CachePage, p \notin P
       PROVE  w.cache.slot[p].job # 0 =>
                w.render[w.cache.slot[p].job].size
                  = SizeFor(w.shown.scale, w.render[w.cache.slot[p].job].rotation)
  <2>1. p \notin Kept(w.cache) => w.cache.slot[p].job = 0
    BY PixFacts DEF Good, GoodBut
  <2> QED
    BY <1>10, <2>1
<1> HIDE DEF slot, u, J, P, Cleared, none
<1>11. slot \in [CachePage -> PixSlot]
  BY <1>1, <1>4, <1>5, <1>6, <1>7
<1>12. SlotsSet(w, u, slot, v)
  <2>1. \A p \in CachePage : p \notin Kept(w.cache) => slot[p] = EmptySlot
    BY <1>1, <1>6, <1>9 DEF GoodBut
  <2> QED
    BY <1>2, <1>11, <2>1 DEF SlotsSet
<1>13. ASSUME NEW p \in CachePage, p \in P
       PROVE  SlotEmptied(w, slot[p]) /\ SlotCurrent(w, p, slot[p])
  <2>1. w.cache.slot[p] \in PixSlot /\ SlotRight(w, p)
    BY <1>1 DEF GoodBut
  <2> QED
    BY <1>4, <1>5, <1>13, <2>1 DEF SlotEmptied, SlotCurrent, SlotRight
<1>14. StayOrEmptied(w, slot, J, none, none)
  BY <1>6, <1>8, <1>13 DEF StayOrEmptied, SlotStays
<1>15. GoodBut(v, none) /\ SlotsKept(w, J, slot, v)
  BY <1>1, <1>3, <1>12, <1>14, PixKeeps
<1>16. /\ SameRange(v, w) /\ v.cache.slot = slot /\ RendersLeft(w, J, v)
       /\ Kept(v.cache) = Kept(w.cache)
  BY <1>15 DEF SlotsKept
<1>17. FreeStays(w, v)
  BY <1>16, FreeLeft
<1>18. ASSUME NEW p \in CachePage PROVE JobFits(v, p)
  <2>1. CASE p \in P
    BY <1>1, <1>4, <1>5, <1>16, <2>1 DEF JobFits
  <2>2. CASE p \notin P
    <3> DEFINE j == w.cache.slot[p].job
    <3>1. v.cache.slot[p].job = j /\ w.cache.slot[p] \in PixSlot /\ SlotRight(w, p)
      BY <1>1, <1>6, <1>16, <2>2 DEF GoodBut
    <3>2. j # 0 => j \in 1 .. CacheJobs
      BY <3>1, PixFacts DEF PixSlot
    <3>3. j # 0 => v.render[j] = w.render[j]
      BY <1>8, <1>16, <2>2, <3>2 DEF RendersLeft
    <3>4. j # 0 => w.render[j].rotation = w.shown.rotation
      BY <3>1 DEF SlotRight
    <3>5. j # 0 => w.render[j].size = SizeFor(w.shown.scale, w.render[j].rotation)
      BY <1>10, <2>2
    <3>6. v.shown = w.shown
      BY <1>16 DEF SameRange
    <3> QED
      BY <3>1, <3>3, <3>4, <3>5, <3>6 DEF JobFits, Fitting
  <2> QED
    BY <2>1, <2>2
<1> QED
  BY <1>15, <1>16, <1>17, <1>18 DEF Good, none

-----------------------------------------------------------------------------
(* The range.                                                              *)

LEMMA SeqOfThese ==
  ASSUME NEW S, NEW T, NEW seq \in Seq(S), \A i \in DOMAIN seq : seq[i] \in T
  PROVE  seq \in Seq(T)
<1>1. Len(seq) \in Nat /\ DOMAIN seq = 1 .. Len(seq) /\ seq = [i \in 1 .. Len(seq) |-> seq[i]]
  OBVIOUS
<1> DEFINE n == Len(seq)
<1>2. seq \in [1 .. n -> T]
  <2> HIDE DEF n
  <2>1. DOMAIN seq = 1 .. n /\ seq = [i \in 1 .. n |-> seq[i]]
    BY <1>1 DEF n
  <2> QED
    BY <2>1
<1>3. n \in Nat
  BY <1>1
<1> HIDE DEF n
<1> QED
  BY <1>2, <1>3

LEMMA SeqJoined ==
  ASSUME NEW S, NEW s \in Seq(S), NEW t \in Seq(S)
  PROVE  /\ s \o t \in Seq(S)
         /\ \A i \in DOMAIN (s \o t) : \/ \E k \in DOMAIN s : (s \o t)[i] = s[k]
                                       \/ \E k \in DOMAIN t : (s \o t)[i] = t[k]
<1>1. s \o t \in Seq(S) /\ Len(s \o t) = Len(s) + Len(t) /\ Len(s) \in Nat /\ Len(t) \in Nat
  OBVIOUS
<1>2. ASSUME NEW i \in DOMAIN (s \o t)
      PROVE  \/ \E k \in DOMAIN s : (s \o t)[i] = s[k]
             \/ \E k \in DOMAIN t : (s \o t)[i] = t[k]
  <2>1. i \in 1 .. Len(s) + Len(t)
    BY <1>1
  <2>2. CASE i <= Len(s)
    <3>1. i \in DOMAIN s /\ (s \o t)[i] = s[i]
      BY <1>1, <2>1, <2>2
    <3> QED
      BY <3>1
  <2>3. CASE ~(i <= Len(s))
    <3>1. i - Len(s) \in DOMAIN t /\ (s \o t)[i] = t[i - Len(s)]
      BY <1>1, <2>1, <2>3
    <3> QED
      BY <3>1
  <2> QED
    BY <2>2, <2>3
<1> QED
  BY <1>1, <1>2

\* What is moved is alive, and nothing that is alive comes to the wrong queue.
LEMMA PixMoved ==
  ASSUME NEW w, Good(w), NEW new
  PROVE  /\ Moved(w, new) \in PixQueues
         /\ \A q \in QueueNames : \A i \in DOMAIN Moved(w, new)[q] :
              LET job == w.render[Moved(w, new)[q][i]]
              IN job.prio # "none" /\ (q = "idle" => job.version # 0)
<1> DEFINE up == Movers(w, new, "urgent")
           down == Movers(w, new, "low")
           jobs == [i \in 1 .. CachePages |-> w.cache.slot[i - 1].job]
           qs == w.queues
           J == 1 .. CacheJobs
           Living(s) == s \in Seq(J) /\ \A i \in DOMAIN s : w.render[s[i]].prio # "none"
           m == [q \in DOMAIN qs |->
                   IF q = "urgent" THEN NotIn(qs[q], down) \o OnlyIn(jobs, up)
                   ELSE IF q = "low" THEN NotIn(qs[q], up) \o OnlyIn(jobs, down)
                   ELSE qs[q]]
<1>1. w \in PixWorld /\ qs \in PixQueues /\ w.cache.slot \in [CachePage -> PixSlot]
  BY DEF Good, GoodBut, PixWorld, PixCache
<1>2. Moved(w, new) = m
  BY DEF Moved
<1>3. DOMAIN qs = QueueNames /\ \A q \in QueueNames : qs[q] \in Seq(J)
  BY <1>1 DEF PixQueues
<1>4. jobs \in Seq(0 .. CacheJobs)
  <2>1. \A i \in 1 .. CachePages : w.cache.slot[i - 1].job \in 0 .. CacheJobs
    <3>1. \A i \in 1 .. CachePages : i - 1 \in CachePage
      BY PixFacts DEF CachePage
    <3>2. \A i \in 1 .. CachePages : w.cache.slot[i - 1] \in PixSlot
      BY <1>1, <3>1
    <3> QED
      BY <3>2 DEF PixSlot
  <2>2. CachePages \in Nat
    BY PixFacts
  <2> QED
    BY <2>1, <2>2
<1>5. ASSUME NEW prio, NEW j \in Movers(w, new, prio)
      PROVE  j \in J /\ w.render[j].prio # "none"
  <2>1. PICK p \in Kept(w.cache) : j = w.cache.slot[p].job /\ w.cache.slot[p].job # 0
    BY DEF Movers
  <2>2. p \in CachePage
    BY DEF Kept
  <2>3. w.cache.slot[p] \in PixSlot /\ SlotRight(w, p)
    BY <1>1, <2>2 DEF Good, GoodBut
  <2>4. j \in 0 .. CacheJobs /\ j # 0
    BY <2>1, <2>3 DEF PixSlot
  <2> QED
    BY <2>1, <2>3, <2>4, PixFacts DEF SlotRight
<1> HIDE DEF jobs
<1>6. \A q \in QueueNames : \A i \in DOMAIN qs[q] :
        w.render[qs[q][i]].prio # "none" /\ (q = "idle" => w.render[qs[q][i]].version # 0)
  BY DEF Good, GoodBut, QueuesRight
<1>7. ASSUME NEW prio PROVE Living(OnlyIn(jobs, Movers(w, new, prio)))
  <2> DEFINE K == Movers(w, new, prio)
             s == OnlyIn(jobs, K)
  <2>1. \A j \in K : j \in J /\ w.render[j].prio # "none"
    BY <1>5
  <2> HIDE DEF K
  <2>2. s \in Seq(0 .. CacheJobs) /\ \A i \in DOMAIN s : s[i] \in K
    BY <1>4, OnlyInFacts
  <2> HIDE DEF s
  <2>3. s \in Seq(J)
    BY <2>1, <2>2, SeqOfThese
  <2> QED
    BY <2>1, <2>2, <2>3 DEF s, K
<1>8. ASSUME NEW q \in QueueNames, NEW K PROVE Living(NotIn(qs[q], K))
  <2> DEFINE s == NotIn(qs[q], K)
             t == qs[q]
  <2>1. t \in Seq(J)
    BY <1>3
  <2>2. \A i \in DOMAIN t : w.render[t[i]].prio # "none"
    BY <1>6
  <2> HIDE DEF t
  <2>3. NotIn(t, K) \in Seq(J) /\ \A i \in DOMAIN NotIn(t, K) : \E k \in DOMAIN t : NotIn(t, K)[i] = t[k]
    BY <2>1, NoneOfThem
  <2>4. Living(NotIn(t, K))
    BY <2>2, <2>3
  <2> QED
    BY <2>4 DEF t
<1>9. ASSUME NEW s, NEW t, Living(s), Living(t) PROVE Living(s \o t)
  <2>1. s \in Seq(J) /\ t \in Seq(J)
    BY <1>9
  <2>2. /\ s \o t \in Seq(J)
        /\ \A i \in DOMAIN (s \o t) : \/ \E k \in DOMAIN s : (s \o t)[i] = s[k]
                                      \/ \E k \in DOMAIN t : (s \o t)[i] = t[k]
    BY <2>1, SeqJoined
  <2>3. ASSUME NEW i \in DOMAIN (s \o t) PROVE w.render[(s \o t)[i]].prio # "none"
    BY <1>9, <2>2
  <2> QED
    BY <2>2, <2>3
<1> HIDE DEF Living, up, down
<1>10. \A q \in QueueNames : m[q] = IF q = "urgent" THEN NotIn(qs[q], down) \o OnlyIn(jobs, up)
                                    ELSE IF q = "low" THEN NotIn(qs[q], up) \o OnlyIn(jobs, down)
                                    ELSE qs[q]
  BY <1>3
<1>11. Living(OnlyIn(jobs, up)) /\ Living(OnlyIn(jobs, down))
  BY <1>7 DEF up, down
<1>12. Living(m["urgent"])
  <2>1. Living(NotIn(qs["urgent"], down)) /\ "urgent" \in QueueNames
    BY <1>8 DEF QueueNames
  <2>2. Living(NotIn(qs["urgent"], down) \o OnlyIn(jobs, up))
    BY <1>9, <1>11, <2>1
  <2> QED
    BY <1>10, <2>1, <2>2
<1>13. Living(m["low"])
  <2>1. Living(NotIn(qs["low"], up)) /\ "low" \in QueueNames
    BY <1>8 DEF QueueNames
  <2>2. Living(NotIn(qs["low"], up) \o OnlyIn(jobs, down))
    BY <1>9, <1>11, <2>1
  <2> QED
    BY <1>10, <2>1, <2>2
<1>14. m["idle"] = qs["idle"]
  BY <1>10 DEF QueueNames
<1>15. m = [q \in QueueNames |-> m[q]]
  BY <1>3
<1> HIDE DEF m
<1>16. \A q \in QueueNames : m[q] \in Seq(J)
  BY <1>3, <1>12, <1>13, <1>14 DEF Living, QueueNames
<1>17. m \in PixQueues
  BY <1>15, <1>16 DEF PixQueues
<1>18. \A q \in QueueNames : \A i \in DOMAIN m[q] :
         w.render[m[q][i]].prio # "none" /\ (q = "idle" => w.render[m[q][i]].version # 0)
  BY <1>6, <1>12, <1>13, <1>14 DEF Living, QueueNames
<1> QED
  BY <1>2, <1>17, <1>18

\* A turn counts a page at the most.
LEMMA PreloadTurns ==
  ASSUME NEW k \in Nat, NEW b \in [size : Int, n : 0 .. k, go : BOOLEAN], NEW i \in Int,
         NEW start \in Int, NEW end \in Int, NEW scale \in Int, NEW max
  PROVE  PreloadTurn(b, i, start, end, scale, max) \in [size : Int, n : 0 .. (k + 1), go : BOOLEAN]
<1> DEFINE next == end + i < CachePages
           prev == start - i > 0
           one == IF next THEN b.size + scale ELSE b.size
           two == IF prev THEN one + scale ELSE one
           no == FALSE
           yes == TRUE
           a == [b EXCEPT !.go = no]
           c == [size |-> one, n |-> IF next THEN b.n + 1 ELSE b.n, go |-> no]
           d == [size |-> two, n |-> b.n + 1, go |-> yes]
           R == [size : Int, n : 0 .. (k + 1), go : BOOLEAN]
<1>1. b.size \in Int /\ b.n \in 0 .. (k + 1) /\ b.n + 1 \in 0 .. (k + 1) /\ b.go \in BOOLEAN
  OBVIOUS
<1>2. one \in Int /\ two \in Int
  BY <1>1
<1>3. PreloadTurn(b, i, start, end, scale, max) =
        IF ~b.go \/ ~(next \/ prev) \/ (next /\ one > max) THEN a
        ELSE IF prev /\ two > max THEN c ELSE d
  BY DEF PreloadTurn
<1>4. no \in BOOLEAN /\ yes \in BOOLEAN
  OBVIOUS
<1> HIDE DEF no, yes, one, two
<1>5. a \in R
  BY <1>1, <1>4
<1>6. c \in R
  <2> DEFINE m == IF next THEN b.n + 1 ELSE b.n
  <2>1. m \in 0 .. (k + 1)
    BY <1>1
  <2> HIDE DEF m, next
  <2> QED
    BY <1>2, <1>4, <2>1
<1>7. d \in R
  BY <1>1, <1>2, <1>4
<1> HIDE DEF a, c, d, R, next, prev
<1>8. PreloadTurn(b, i, start, end, scale, max) \in R
  BY <1>3, <1>5, <1>6, <1>7
<1> QED
  BY <1>8 DEF R
LEMMA PreloadBound ==
  ASSUME NEW start \in Int, NEW end \in Int, NEW scale \in Int, NEW max
  PROVE  PreloadSize(start, end, scale, max) \in 0 .. MaxPreloadedPages
<1> DEFINE size == (end - start + 1) * scale
           go == size < max
           Turn(b, i) == PreloadTurn(b, i, start, end, scale, max)
           R(k) == [size : Int, n : 0 .. k, go : BOOLEAN]
           zero == [size |-> size, n |-> 0, go |-> go]
           one == Turn(zero, 1)
           two == Turn(one, 2)
           three == Turn(two, 3)
<1>1. PreloadSize(start, end, scale, max) = three.n /\ MaxPreloadedPages = 3
  BY Zenon DEF PreloadSize, MaxPreloadedPages
<1>2. size \in Int /\ go \in BOOLEAN
  OBVIOUS
<1> HIDE DEF size, go
<1>3. zero \in R(0)
  BY <1>2
<1> HIDE DEF zero
<1>4. one \in R(0 + 1)
  BY <1>3, PreloadTurns
<1>5. one \in R(1)
  BY <1>4
<1> HIDE DEF one
<1>6. two \in R(1 + 1)
  BY <1>5, PreloadTurns
<1>7. two \in R(2)
  BY <1>6
<1> HIDE DEF two
<1>8. three \in R(2 + 1)
  BY <1>7, PreloadTurns
<1> HIDE DEF three
<1>9. three.n \in 0 .. 3
  BY <1>8
<1> QED
  BY <1>1, <1>9

\* What the invariant is about
PixPartsSame(v, w) ==
  /\ v.cache.start = w.cache.start /\ v.cache.end = w.cache.end
  /\ v.cache.preload = w.cache.preload /\ v.cache.inverted = w.cache.inverted
  /\ v.cache.slot = w.cache.slot /\ v.render = w.render /\ v.queues = w.queues
  /\ v.shown.inverted = w.shown.inverted
Bare(w, p) == w.cache.slot[p].job = 0 /\ w.cache.slot[p].surface = NoSurface
\* What the view shows changes for pages that have nothing yet, and versions of others.
SeenSame(w, v, P, P2) ==
  /\ P \subseteq P2
  /\ \A p \in CachePage :
       /\ w.shown.version[p] <= v.shown.version[p]
       /\ \/ Bare(w, p)
          \/ /\ v.shown.rotation = w.shown.rotation
             /\ p \notin P2 => v.shown.version[p] = w.shown.version[p]
LEMMA GoodSame ==
  ASSUME NEW w, NEW P, GoodBut(w, P), NEW v \in PixWorld, PixPartsSame(v, w), NEW P2,
         SeenSame(w, v, P, P2)
  PROVE  GoodBut(v, P2) /\ Kept(v.cache) = Kept(w.cache)
<1>1. Kept(v.cache) = Kept(w.cache)
  BY KeptSame DEF PixPartsSame
<1>2. RangeRight(v.cache) /\ v.cache.inverted = v.shown.inverted
  BY DEF GoodBut, RangeRight, PixPartsSame
<1>3. \A p \in CachePage : p \notin Kept(v.cache) => v.cache.slot[p] = EmptySlot
  BY <1>1 DEF GoodBut, PixPartsSame
<1>4. \A p \in CachePage : SlotRight(v, p)
  BY DEF GoodBut, PixPartsSame, SlotRight, SeenSame, Bare
<1>5. \A p \in CachePage : p \notin P2 => UpToDate(v, p)
  BY DEF GoodBut, PixPartsSame, UpToDate, SeenSame, Bare
<1>6. ASSUME NEW j \in 1 .. CacheJobs PROVE JobRight(v, j)
  <2>1. JobRight(w, j) /\ v.render = w.render
    BY DEF GoodBut, PixPartsSame
  <2>2. /\ w.render[j].page \in CachePage /\ w.render[j].version \in Int
        /\ w.shown.version \in [CachePage -> Int] /\ v.shown.version \in [CachePage -> Int]
    <3>1. w \in PixWorld /\ CacheVersions \in Nat
      BY PixFacts DEF GoodBut
    <3>2. w.render \in PixRenders /\ w.shown \in PixShown /\ v.shown \in PixShown
      BY <3>1 DEF PixWorld
    <3>3. w.render[j] \in PixRender
      BY <3>2 DEF PixRenders
    <3>4. w.render[j].version \in Int
      BY <3>1, <3>3 DEF PixRender
    <3> QED
      BY <3>1, <3>2, <3>3, <3>4 DEF PixRender, PixShown
  <2> QED
    BY <2>1, <2>2 DEF JobRight, SeenSame
<1>7. QueuesRight(v)
  BY DEF GoodBut, PixPartsSame, QueuesRight
<1> QED
  BY <1>1, <1>2, <1>3, <1>4, <1>5, <1>6, <1>7 DEF GoodBut

\* Slots that leave the range are disposed of, those that enter it are empty.
LEMMA PixRangeUpdated ==
  ASSUME NEW w, Good(w), NEW start \in CachePage, NEW end \in CachePage, start <= end,
         NEW v, v = UpdateRange(w, start, end)
  PROVE  /\ Good(v) /\ v.shown = w.shown /\ v.cache.start = start /\ v.cache.end = end
         /\ FreeStays(w, v)
<1> DEFINE old == w.cache
           size == PreloadSize(start, end, w.shown.scale, old.max)
           new == [old EXCEPT !.start = start, !.end = end, !.preload = size]
           P == Kept(old) \ Kept(new)
           both == Kept(old) \intersect Kept(new)
           clean == Disposed(w, P)
           slot == [p \in CachePage |-> IF p \in both THEN old.slot[p] ELSE EmptySlot]
           c == [new EXCEPT !.slot = slot]
           qs == Moved(clean, new)
           same == old.start = start /\ old.end = end /\ old.preload = size
           none == {}
<1>1. w \in PixWorld /\ old \in PixCache /\ old.slot \in [CachePage -> PixSlot]
      /\ w.shown \in PixShown /\ GoodBut(w, none)
  BY DEF Good, GoodBut, PixWorld, PixCache
<1>2. size \in 0 .. MaxPreloadedPages /\ start \in -1 .. (CachePages - 1) /\ start \in Int
      /\ end \in -1 .. (CachePages - 1) /\ start >= 0
  <2>1. w.shown.scale \in Int
    BY <1>1 DEF PixShown, Scales
  <2>2. start \in Int /\ end \in Int /\ start >= 0 /\ start \in -1 .. (CachePages - 1)
        /\ end \in -1 .. (CachePages - 1)
    BY PixFacts DEF CachePage
  <2> QED
    BY <2>1, <2>2, PreloadBound
<1> HIDE DEF size
<1>3. /\ new \in PixCache /\ new.start = start /\ new.end = end /\ new.preload = size
      /\ new.slot = old.slot /\ new.inverted = old.inverted
  BY <1>1, <1>2 DEF PixCache
<1>4. v = IF same THEN w
          ELSE [clean EXCEPT !.cache = c, !.queues = qs]
  <2>1. new.preload = size
    BY <1>3
  <2> QED
    BY <2>1, Zenon DEF UpdateRange, size
<1>5. CASE same
  <2>1. v = w
    BY <1>4, <1>5
  <2> QED
    BY <1>5, <2>1 DEF FreeStays
<1>6. CASE ~same
  <2> HIDE DEF new, c, qs
  <2>1. P \in SUBSET CachePage /\ P \subseteq Kept(old) /\ none \subseteq P
    BY DEF Kept
  <2> HIDE DEF P, none
  <2>2. /\ Good(clean) /\ SameRange(clean, w) /\ Kept(clean.cache) = Kept(old) /\ FreeStays(w, clean)
        /\ \A p \in CachePage : p \notin P => SlotKept(w, clean, p)
    BY <1>1, <2>1, PixDisposed
  <2>3. clean \in PixWorld
    BY <2>2 DEF Good, GoodBut
  <2>4. /\ qs \in PixQueues
        /\ \A q \in QueueNames : \A i \in DOMAIN qs[q] :
             clean.render[qs[q][i]].prio # "none"
             /\ (q = "idle" => clean.render[qs[q][i]].version # 0)
    BY <2>2, PixMoved DEF qs
  <2>5. v = [clean EXCEPT !.cache = c, !.queues = qs]
    BY <1>4, <1>6
  <2> HIDE DEF clean
  <2>6. slot \in [CachePage -> PixSlot]
    BY <1>1, PixFacts
  <2>7. \A p \in CachePage : slot[p] = IF p \in both THEN old.slot[p] ELSE EmptySlot
    OBVIOUS
  <2> HIDE DEF slot
  <2>8. /\ c \in PixCache /\ c.start = start /\ c.end = end /\ c.preload = size
        /\ c.slot = slot /\ c.inverted = old.inverted
    BY <1>3, <2>6 DEF PixCache, c
  <2>9. v \in PixWorld /\ v.cache = c /\ v.render = clean.render /\ v.queues = qs
        /\ v.shown = clean.shown
    BY <2>3, <2>4, <2>5, <2>8 DEF PixWorld
  <2>10. v.shown = w.shown
    BY <2>2, <2>9 DEF SameRange
  <2>11. Kept(c) = Kept(new)
    BY <1>3, <2>8, KeptSame
  <2>12. RangeRight(v.cache) /\ v.cache.inverted = v.shown.inverted
    BY <1>1, <1>2, <2>8, <2>9, <2>10 DEF RangeRight, GoodBut
  <2>13. \A p \in CachePage : p \notin Kept(v.cache) => v.cache.slot[p] = EmptySlot
    BY <2>7, <2>8, <2>9, <2>11
  <2>14. ASSUME NEW p \in CachePage PROVE SlotRight(v, p) /\ UpToDate(v, p)
    <3>1. CASE p \in both
      <4>1. p \notin P /\ SlotKept(w, clean, p)
        BY <2>2, <3>1 DEF P
      <4>2. v.cache.slot[p] = clean.cache.slot[p]
        BY <2>7, <2>8, <2>9, <3>1, <4>1 DEF SlotKept
      <4>3. SlotRight(clean, p) /\ UpToDate(clean, p)
        BY <2>2 DEF Good, GoodBut
      <4>4. v.cache.inverted = clean.cache.inverted
        BY <2>2, <2>8, <2>9 DEF SameRange
      <4> QED
        BY <2>9, <4>2, <4>3, <4>4 DEF SlotRight, UpToDate
    <3>2. CASE p \notin both
      <4>1. v.cache.slot[p] = EmptySlot
        BY <2>7, <2>8, <2>9, <3>2
      <4> QED
        BY <4>1, PixFacts DEF SlotRight, UpToDate
    <3> QED
      BY <3>1, <3>2
  <2>15. \A j \in 1 .. CacheJobs : JobRight(v, j)
    BY <2>2, <2>9 DEF JobRight, Good, GoodBut
  <2>16. QueuesRight(v)
    BY <2>4, <2>9 DEF QueuesRight
  <2>17. Good(v)
    BY <2>9, <2>12, <2>13, <2>14, <2>15, <2>16 DEF Good, GoodBut
  <2>18. FreeStays(w, v)
    BY <2>2, <2>9 DEF FreeStays
  <2> QED
    BY <2>8, <2>9, <2>10, <2>17, <2>18
<1> QED
  BY <1>5, <1>6

-----------------------------------------------------------------------------
(* Jobs for the pages of the range.                                        *)

LEMMA FreeJobIs ==
  ASSUME NEW w, FreeJobs(w) # {}
  PROVE  FreeJob(w) \in 1 .. CacheJobs /\ w.render[FreeJob(w)].prio = "none"
<1>1. FreeJobs(w) \in SUBSET Nat /\ CacheJobs \in Nat
  BY PixFacts DEF FreeJobs
<1>2. PICK j \in FreeJobs(w) : \A i \in FreeJobs(w) : j <= i
  BY <1>1, PixLeast
<1>3. j \in 1 .. CacheJobs /\ w.render[j].prio = "none"
  BY DEF FreeJobs
<1>4. ASSUME NEW i \in 1 .. (j - 1) PROVE w.render[i].prio # "none"
  <2>1. i \in 1 .. CacheJobs /\ ~(j <= i)
    BY <1>1, <1>3
  <2> QED
    BY <1>2, <2>1 DEF FreeJobs
<1> QED
  BY <1>3, <1>4 DEF FreeJob

LEMMA SeqAppended ==
  ASSUME NEW S, NEW s \in Seq(S), NEW x \in S
  PROVE  /\ Append(s, x) \in Seq(S)
         /\ \A i \in DOMAIN Append(s, x) :
              Append(s, x)[i] = x \/ \E k \in DOMAIN s : Append(s, x)[i] = s[k]
<1>1. Append(s, x) \in Seq(S) /\ Len(Append(s, x)) = Len(s) + 1 /\ Len(s) \in Nat
  OBVIOUS
<1>2. ASSUME NEW i \in DOMAIN Append(s, x)
      PROVE  Append(s, x)[i] = x \/ \E k \in DOMAIN s : Append(s, x)[i] = s[k]
  <2>1. i \in 1 .. Len(s) + 1
    BY <1>1
  <2>2. CASE i = Len(s) + 1
    BY <2>2
  <2>3. CASE i # Len(s) + 1
    <3>1. i \in DOMAIN s /\ Append(s, x)[i] = s[i]
      BY <1>1, <2>1, <2>3
    <3> QED
      BY <3>1
  <2> QED
    BY <2>2, <2>3
<1> QED
  BY <1>1, <1>2

\* The page whose version is new, if any, is in good order again.
LEMMA PixJobAdded ==
  ASSUME NEW w, NEW p \in CachePage, NEW P, P \subseteq {p}, GoodBut(w, P), p \in Kept(w.cache), FreeJobs(w) # {},
         NEW prio \in {"urgent", "low"}, NEW v, v = AddJob(w, p, prio)
  PROVE  /\ Good(v) /\ SameRange(v, w) /\ Kept(v.cache) = Kept(w.cache)
         /\ v.cache.slot[p].job # 0 /\ JobFits(v, p)
         /\ \A r \in CachePage : r # p => SlotKept(w, v, r)
         /\ \E j \in FreeJobs(w) : FreeJobs(v) = FreeJobs(w) \ {j}
<1> DEFINE j == FreeJob(w)
           s == w.cache.slot[p]
           include == SelectionNeeded(s, w.shown.scale)
           job == [page |-> p, size |-> SizeFor(w.shown.scale, w.shown.rotation),
                   rotation |-> w.shown.rotation, scale |-> w.shown.scale,
                   include |-> include, points |-> IF include THEN s.target ELSE 0,
                   prio |-> prio, version |-> 0]
           no == FALSE
           a == [s EXCEPT !.job = j]
           t == [a EXCEPT !.ready = no]
           slot == [w.cache.slot EXCEPT ![p] = t]
           r == [w.render EXCEPT ![j] = job]
           q == [w.queues EXCEPT ![prio] = Append(w.queues[prio], j)]
           c == [w.cache EXCEPT !.slot = slot]
<1>1. /\ w \in PixWorld /\ w.cache \in PixCache /\ w.cache.slot \in [CachePage -> PixSlot]
      /\ w.render \in PixRenders /\ w.queues \in PixQueues /\ w.shown \in PixShown
  BY DEF GoodBut, PixWorld, PixCache
<1>2. j \in 1 .. CacheJobs /\ w.render[j].prio = "none"
  BY FreeJobIs
<1>3. s \in PixSlot /\ w.shown.scale \in Scales /\ w.shown.rotation \in CacheRotations
      /\ no \in BOOLEAN /\ CacheJobs \in Nat
  BY <1>1, PixFacts DEF PixShown
<1>4. v = [w EXCEPT !.cache.slot[p] = [s EXCEPT !.job = j, !.ready = FALSE],
                    !.render[j] = job, !.queues[prio] = Append(@, j)]
  BY DEF AddJob
<1>5. [s EXCEPT !.job = j, !.ready = FALSE] = t
  BY Zenon
<1>6. v = [w EXCEPT !.cache = c, !.render = r, !.queues = q]
  <2> HIDE DEF j, job, t
  <2> QED
    BY <1>4, <1>5
<1> HIDE DEF no
<1>7. t \in PixSlot /\ t.job = j /\ t.surface = s.surface /\ j # 0
  <2> HIDE DEF s, j
  <2>1. a \in PixSlot /\ a.job = j /\ a.surface = s.surface
    BY <1>2, <1>3 DEF PixSlot
  <2> HIDE DEF a
  <2> QED
    BY <1>2, <1>3, <2>1 DEF PixSlot
<1>8. /\ job \in PixRender /\ job.page = p /\ job.prio = prio /\ job.version = 0
      /\ job.rotation = w.shown.rotation /\ job.size = SizeFor(w.shown.scale, w.shown.rotation)
      /\ job.scale = w.shown.scale
  <2>1. include \in BOOLEAN /\ s.target \in 0 .. CacheSelections
    BY <1>3 DEF SelectionNeeded, PixSlot
  <2> DEFINE points == IF include THEN s.target ELSE 0
             size == SizeFor(w.shown.scale, w.shown.rotation)
  <2>2. points \in 0 .. CacheSelections /\ size \in Sizes /\ 0 \in 0 .. CacheVersions
    BY <1>3, <2>1, PixFacts
  <2> HIDE DEF points, include, size
  <2>3. job = [page |-> p, size |-> size, rotation |-> w.shown.rotation, scale |-> w.shown.scale,
               include |-> include, points |-> points, prio |-> prio, version |-> 0]
    BY DEF size, points, include
  <2> HIDE DEF job
  <2> QED
    BY <1>3, <2>1, <2>2, <2>3 DEF PixRender, size
<1> HIDE DEF t, a, job
<1>9. slot \in [CachePage -> PixSlot] /\ slot[p] = t
      /\ \A x \in CachePage : x # p => slot[x] = w.cache.slot[x]
  BY <1>1, <1>7
<1>10. r \in PixRenders /\ r[j] = job /\ \A i \in 1 .. CacheJobs : i # j => r[i] = w.render[i]
  BY <1>1, <1>2, <1>8 DEF PixRenders
<1>11. /\ q \in PixQueues /\ q[prio] = Append(w.queues[prio], j)
       /\ \A n \in QueueNames : n # prio => q[n] = w.queues[n]
  <2>1. w.queues \in [QueueNames -> Seq(1 .. CacheJobs)] /\ prio \in QueueNames
    BY <1>1 DEF PixQueues, QueueNames
  <2>2. Append(w.queues[prio], j) \in Seq(1 .. CacheJobs)
    BY <1>2, <2>1
  <2> QED
    BY <2>1, <2>2 DEF PixQueues
<1> HIDE DEF slot, r, q
<1>12. /\ c \in PixCache /\ c.slot = slot /\ c.start = w.cache.start /\ c.end = w.cache.end
       /\ c.preload = w.cache.preload /\ c.inverted = w.cache.inverted
  BY <1>1, <1>9 DEF PixCache
<1> HIDE DEF c
<1>13. v \in PixWorld /\ v.cache = c /\ v.render = r /\ v.queues = q /\ v.shown = w.shown
  BY <1>1, <1>6, <1>10, <1>11, <1>12 DEF PixWorld
<1> HIDE DEF j
<1>14. SameRange(v, w)
  BY <1>12, <1>13 DEF SameRange
<1>15. Kept(v.cache) = Kept(w.cache)
  BY <1>14, KeptSame DEF SameRange
<1>16. ASSUME NEW x \in CachePage, x # p
       PROVE  SlotKept(w, v, x)
  <2>1. v.cache.slot[x] = w.cache.slot[x] /\ w.cache.slot[x] \in PixSlot /\ SlotRight(w, x)
    BY <1>1, <1>9, <1>12, <1>13, <1>16 DEF GoodBut
  <2>2. w.cache.slot[x].job # 0 => w.cache.slot[x].job \in 1 .. CacheJobs /\ w.cache.slot[x].job # j
    BY <1>2, <1>3, <2>1 DEF PixSlot, SlotRight
  <2> QED
    BY <1>10, <1>13, <2>1, <2>2 DEF SlotKept
<1>17. v.cache.slot[p] = t /\ v.render[j] = job
  BY <1>9, <1>10, <1>12, <1>13
<1>18. ASSUME NEW x \in CachePage PROVE SlotRight(v, x) /\ UpToDate(v, x)
  <2>1. CASE x = p
    <3>1. s.surface # NoSurface => s.surface.inverted = w.cache.inverted
      BY DEF GoodBut, SlotRight
    <3> HIDE DEF s
    <3>2. SlotRight(v, x)
      BY <1>7, <1>8, <1>12, <1>13, <1>17, <2>1, <3>1 DEF SlotRight
    <3>3. UpToDate(v, x)
      BY <1>7, <1>8, <1>17, <2>1 DEF UpToDate
    <3> QED
      BY <3>2, <3>3
  <2>2. CASE x # p
    <3>1. SlotKept(w, v, x) /\ SlotRight(w, x) /\ UpToDate(w, x)
      BY <1>16, <2>2 DEF GoodBut
    <3> QED
      BY <1>14, <3>1 DEF SlotKept, SlotRight, UpToDate, SameRange
  <2> QED
    BY <2>1, <2>2
<1>19. ASSUME NEW i \in 1 .. CacheJobs PROVE JobRight(v, i)
  <2>1. CASE i = j
    <3>1. /\ w.shown.version \in [CachePage -> 1 .. CacheVersions] /\ CacheVersions \in Nat
      BY <1>1, PixFacts DEF PixShown
    <3>2. 0 <= w.shown.version[p]
      BY <3>1
    <3> QED
      BY <1>3, <1>8, <1>13, <1>17, <2>1, <3>2, PixFacts DEF JobRight
  <2>2. CASE i # j
    BY <1>10, <1>13, <2>2 DEF JobRight, GoodBut
  <2> QED
    BY <2>1, <2>2
<1>20. ASSUME NEW n \in QueueNames, NEW i \in DOMAIN q[n]
       PROVE  r[q[n][i]].prio # "none" /\ (n = "idle" => r[q[n][i]].version # 0)
  <2>1. ASSUME NEW k \in DOMAIN w.queues[n]
        PROVE  /\ r[w.queues[n][k]].prio # "none"
               /\ n = "idle" => r[w.queues[n][k]].version # 0
    <3>1. w.queues[n] \in Seq(1 .. CacheJobs)
      BY <1>1 DEF PixQueues
    <3>2. w.queues[n][k] \in 1 .. CacheJobs
      BY <3>1, SeqEntry
    <3>3. w.render[w.queues[n][k]].prio # "none" /\ (n = "idle" => w.render[w.queues[n][k]].version # 0)
      BY DEF GoodBut, QueuesRight
    <3>4. w.queues[n][k] # j
      BY <1>2, <3>3
    <3> QED
      BY <1>10, <3>2, <3>3, <3>4
  <2>2. CASE n # prio
    BY <1>11, <2>1, <2>2
  <2>3. CASE n = prio
    <3>1. w.queues[n] \in Seq(1 .. CacheJobs) /\ q[n] = Append(w.queues[n], j)
      BY <1>1, <1>11, <2>3 DEF PixQueues
    <3>2. q[n][i] = j \/ \E k \in DOMAIN w.queues[n] : q[n][i] = w.queues[n][k]
      BY <1>2, <3>1, SeqAppended
    <3>3. n # "idle" /\ r[j].prio # "none"
      BY <1>8, <1>10, <2>3
    <3> QED
      BY <2>1, <3>2, <3>3
  <2> QED
    BY <2>2, <2>3
<1>21. QueuesRight(v)
  BY <1>13, <1>20 DEF QueuesRight
<1>22. \A x \in CachePage : x \notin Kept(v.cache) => v.cache.slot[x] = EmptySlot
  BY <1>9, <1>12, <1>13, <1>15 DEF GoodBut
<1>23. RangeRight(v.cache) /\ v.cache.inverted = v.shown.inverted
  BY <1>12, <1>13 DEF RangeRight, GoodBut
<1>24. Good(v)
  BY <1>13, <1>18, <1>19, <1>21, <1>22, <1>23 DEF Good, GoodBut
<1>25. v.cache.slot[p].job # 0 /\ JobFits(v, p)
  BY <1>7, <1>8, <1>13, <1>17 DEF JobFits, Fitting
<1>26. FreeJobs(v) = FreeJobs(w) \ {j} /\ j \in FreeJobs(w)
  BY <1>2, <1>8, <1>10, <1>13 DEF FreeJobs
<1> QED
  BY <1>14, <1>15, <1>16, <1>24, <1>25, <1>26

LEMMA FreeFinite ==
  ASSUME NEW w
  PROVE  IsFiniteSet(FreeJobs(w)) /\ Cardinality(FreeJobs(w)) \in Nat
<1>1. IsFiniteSet(1 .. CacheJobs)
  <2>1. CacheJobs \in Int /\ 1 \in Int
    BY PixFacts
  <2> QED
    BY <2>1, FS_Interval
<1>2. FreeJobs(w) \subseteq 1 .. CacheJobs
  BY DEF FreeJobs
<1>3. IsFiniteSet(FreeJobs(w))
  BY <1>1, <1>2, FS_Subset
<1> QED
  BY <1>3, FS_CardinalityType
LEMMA FreeGrow ==
  ASSUME NEW w, NEW v, FreeStays(w, v)
  PROVE  Cardinality(FreeJobs(w)) <= Cardinality(FreeJobs(v))
<1>1. FreeJobs(w) \subseteq FreeJobs(v)
  BY DEF FreeJobs, FreeStays
<1> QED
  BY <1>1, FreeFinite, FS_Subset
LEMMA FreeLess ==
  ASSUME NEW w, NEW v, NEW j \in FreeJobs(w), FreeJobs(v) = FreeJobs(w) \ {j}
  PROVE  Cardinality(FreeJobs(v)) = Cardinality(FreeJobs(w)) - 1
BY FreeFinite, FS_RemoveElement

\* What is so after the turn of a page, and before it
Filling(w, v) ==
  /\ Good(v) /\ SameRange(v, w) /\ Kept(v.cache) = Kept(w.cache)
  /\ \A p \in CachePage : JobFits(v, p)
RightAt(w, p) == ServedAt(w, p) /\ FitsAt(w, p)

LEMMA PixJobIfNeeded ==
  ASSUME NEW w, Filling(w, w), NEW p \in CachePage, p \in Kept(w.cache), FreeJobs(w) # {},
         NEW v, v = AddJobIfNeeded(w, p)
  PROVE  /\ Filling(w, v) /\ RightAt(v, p)
         /\ \A r \in CachePage : RightAt(w, r) => RightAt(v, r)
         /\ Cardinality(FreeJobs(v)) >= Cardinality(FreeJobs(w)) - 1
<1> DEFINE s == w.cache.slot[p]
           prio == PriorityIn(w.cache, p)
           no == FALSE
           a == [s EXCEPT !.surface = NoSurface]
           t == [a EXCEPT !.selection = no]
           slot == [w.cache.slot EXCEPT ![p] = t]
           blank == [w EXCEPT !.cache.slot = slot]
           freed == IF prio = "low" THEN blank ELSE w
           none == {}
           enough == s.job # 0 \/ s.surface.size = SizeFor(w.shown.scale, w.shown.rotation)
<1>1. /\ w \in PixWorld /\ w.cache.slot \in [CachePage -> PixSlot] /\ w.shown \in PixShown
      /\ Good(w) /\ GoodBut(w, none) /\ \A r \in CachePage : JobFits(w, r)
  BY DEF Filling, Good, GoodBut, PixWorld, PixCache
<1>2. s \in PixSlot /\ no \in BOOLEAN
  BY <1>1
<1>3. v = IF enough THEN w ELSE AddJob(freed, p, prio)
  <2>1. [w EXCEPT !.cache.slot[p] = [s EXCEPT !.surface = NoSurface, !.selection = FALSE]] = blank
    <3>1. [s EXCEPT !.surface = NoSurface, !.selection = FALSE] = t
      BY Zenon
    <3> HIDE DEF t
    <3> QED
      BY <3>1
  <2> HIDE DEF blank
  <2> QED
    BY <2>1, Zenon DEF AddJobIfNeeded
<1>4. CASE enough
  <2>1. v = w
    BY <1>3, <1>4
  <2>2. ServedAt(w, p)
    <3>1. Fitting(w) # NoSurface.size
      BY <1>1, PixFacts DEF Fitting, PixShown
    <3> QED
      BY <1>4, <3>1 DEF ServedAt, Fitting
  <2>3. FitsAt(w, p)
    BY <1>1, <1>4 DEF FitsAt, Fitting
  <2>4. Cardinality(FreeJobs(w)) \in Nat
    BY FreeFinite
  <2> QED
    BY <2>1, <2>2, <2>3, <2>4 DEF RightAt
<1>5. CASE ~enough
  <2>1. s.job = 0
    BY <1>5
  <2>2. v = AddJob(freed, p, prio)
    BY <1>3, <1>5
  <2> HIDE DEF no
  <2>3. t \in PixSlot /\ t.job = 0 /\ t.surface = NoSurface
    <3> HIDE DEF s
    <3>1. a \in PixSlot /\ a.job = s.job /\ a.surface = NoSurface
      BY <1>2, PixFacts DEF PixSlot
    <3> HIDE DEF a
    <3>2. t \in PixSlot /\ t.job = s.job /\ t.surface = NoSurface
      BY <1>2, <3>1 DEF PixSlot
    <3> QED
      BY <2>1, <3>2
  <2> HIDE DEF t
  <2>4. slot \in [CachePage -> PixSlot] /\ slot[p] = t
        /\ \A r \in CachePage : r # p => slot[r] = w.cache.slot[r]
    BY <1>1, <2>3
  <2> HIDE DEF slot
  <2>5. SlotsSet(w, w, slot, blank)
    <3>1. \A r \in CachePage : r \notin Kept(w.cache) => slot[r] = EmptySlot
      BY <1>1, <2>4 DEF GoodBut
    <3> QED
      BY <2>4, <3>1 DEF SlotsSet
  <2>6. CancelledIs(w, none, w)
    BY <1>1, NoneCancelled
  <2>7. StayOrEmptied(w, slot, none, none, none)
    BY <2>1, <2>3, <2>4 DEF StayOrEmptied, SlotStays, SlotEmptied, SlotCurrent
  <2> HIDE DEF none, blank
  <2>8. GoodBut(blank, none) /\ SlotsKept(w, none, slot, blank)
    BY <1>1, <2>5, <2>6, <2>7, PixKeeps
  <2>9. /\ SameRange(blank, w) /\ blank.cache.slot = slot /\ RendersLeft(w, none, blank)
        /\ Kept(blank.cache) = Kept(w.cache)
    BY <2>8 DEF SlotsKept
  <2>10. \A j \in 1 .. CacheJobs : blank.render[j] = w.render[j]
    BY <2>9 DEF RendersLeft, none
  <2>11. /\ GoodBut(freed, none) /\ SameRange(freed, w) /\ Kept(freed.cache) = Kept(w.cache)
         /\ \A r \in CachePage : r # p => freed.cache.slot[r] = w.cache.slot[r]
         /\ \A j \in 1 .. CacheJobs : freed.render[j] = w.render[j]
    <3>1. CASE prio = "low"
      BY <2>4, <2>8, <2>9, <2>10, <3>1
    <3>2. CASE prio # "low"
      BY <1>1, <3>2 DEF SameRange
    <3> QED
      BY <3>1, <3>2
  <2> HIDE DEF freed
  <2>12. none \subseteq {p}
    BY DEF none
  <2>13. FreeJobs(freed) = FreeJobs(w)
    BY <2>11 DEF FreeJobs
  <2>14. prio \in {"urgent", "low"}
    BY DEF PriorityIn
  <2> HIDE DEF prio
  <2>15. p \in Kept(freed.cache) /\ FreeJobs(freed) # {}
    BY <2>11, <2>13
  <2>16. /\ Good(v) /\ SameRange(v, freed) /\ Kept(v.cache) = Kept(freed.cache)
         /\ v.cache.slot[p].job # 0 /\ JobFits(v, p)
         /\ \A r \in CachePage : r # p => SlotKept(freed, v, r)
         /\ \E j \in FreeJobs(freed) : FreeJobs(v) = FreeJobs(freed) \ {j}
    BY <2>2, <2>11, <2>12, <2>14, <2>15, PixJobAdded
  <2>17. SameRange(v, w) /\ Kept(v.cache) = Kept(w.cache)
    BY <2>11, <2>16 DEF SameRange
  <2>18. ASSUME NEW r \in CachePage, r # p PROVE SlotKept(w, v, r)
    <3>1. SlotKept(freed, v, r) /\ freed.cache.slot[r] = w.cache.slot[r] /\ w.cache.slot[r] \in PixSlot
      BY <1>1, <2>11, <2>16, <2>18
    <3>2. w.cache.slot[r].job # 0 => w.cache.slot[r].job \in 1 .. CacheJobs
      BY <3>1, PixFacts DEF PixSlot
    <3> QED
      BY <2>11, <3>1, <3>2 DEF SlotKept
  <2>19. RightAt(v, p)
    BY <2>16 DEF RightAt, ServedAt, FitsAt
  <2>20. \A r \in CachePage : RightAt(w, r) => RightAt(v, r)
    BY <2>17, <2>18, <2>19, SlotServes DEF RightAt
  <2>21. Fitting(v) = Fitting(w)
    BY <2>17 DEF Fitting, SameRange
  <2>22. \A r \in CachePage : JobFits(v, r)
    BY <1>1, <2>16, <2>18, <2>21 DEF JobFits, SlotKept
  <2>23. Cardinality(FreeJobs(v)) >= Cardinality(FreeJobs(w)) - 1
    <3>1. PICK j \in FreeJobs(w) : FreeJobs(v) = FreeJobs(w) \ {j}
      BY <2>13, <2>16
    <3> QED
      BY <3>1, FreeLess, FreeFinite
  <2> QED
    BY <2>16, <2>17, <2>19, <2>20, <2>22, <2>23 DEF Filling
<1> QED
  BY <1>4, <1>5

JoinOf(j, s, t, a, b) ==
  /\ j \in Seq(Int) /\ Len(j) = a + b
  /\ \A i \in 1 .. a : i \in 1 .. a + b /\ j[i] = s[i]
  /\ \A i \in 1 .. b : a + i \in 1 .. a + b /\ j[a + i] = t[i]
LEMMA JoinedParts ==
  ASSUME NEW s \in Seq(Int), NEW t \in Seq(Int)
  PROVE  JoinOf(s \o t, s, t, Len(s), Len(t))
<1> DEFINE a == Len(s)
           b == Len(t)
           j == s \o t
<1>1. a \in Nat /\ b \in Nat /\ j \in Seq(Int) /\ Len(j) = a + b
  OBVIOUS
<1>2. ASSUME NEW i \in 1 .. a PROVE i \in 1 .. a + b /\ j[i] = s[i]
  OBVIOUS
<1>3. ASSUME NEW i \in 1 .. b PROVE a + i \in 1 .. a + b /\ j[a + i] = t[i]
  <2>1. a + i \in 1 .. a + b /\ ~(a + i <= a) /\ (a + i) - a = i
    OBVIOUS
  <2> QED
    BY <2>1
<1> QED
  BY <1>1, <1>2, <1>3 DEF JoinOf

\* Every page of the range has its turn, and the others have none.
LEMMA PushOrderIs ==
  ASSUME NEW c \in PixCache, c.start >= 0, c.start <= c.end
  PROVE  /\ Len(PushOrder(c)) \in 0 .. CachePages
         /\ \A i \in 1 .. Len(PushOrder(c)) : PushOrder(c)[i] \in Kept(c)
         /\ \A p \in Kept(c) : \E i \in 1 .. Len(PushOrder(c)) : PushOrder(c)[i] = p
<1> DEFINE s == c.start
           e == c.end
           k == c.preload
           n == CachePages
           before == IF k < s THEN k ELSE s
           after == IF k < n - 1 - e THEN k ELSE n - 1 - e
           up == [i \in 1 .. before |-> s - i]
           down == [i \in 1 .. after |-> e + i]
           here == [i \in 1 .. e - s + 1 |-> s + i - 1]
           rest == IF c.dir = "up" THEN up \o down ELSE down \o up
           all == here \o rest
<1>1. s \in Nat /\ e \in Nat /\ k \in Nat /\ n \in Nat /\ s <= e /\ e <= n - 1
  BY PixFacts DEF PixCache, MaxPreloadedPages
<1>2. PushOrder(c) = all
  BY DEF PushOrder
<1>3. \A p : p \in Kept(c) <=> p \in 0 .. (n - 1) /\ s - k <= p /\ p <= e + k
  BY DEF Kept, CachePage
<1> HIDE DEF s, e, k, n
<1>4. before \in Nat /\ after \in Nat /\ e - s + 1 \in Nat /\ before <= s /\ after <= n - 1 - e
      /\ before <= k /\ after <= k
      /\ e - s + 1 + before + after <= n
  BY <1>1
<1>5. \A p \in Int : (p \in 0 .. (n - 1) /\ s - k <= p /\ p < s) => p \in s - before .. s - 1
  BY <1>1
<1>6. \A p \in Int : (p \in 0 .. (n - 1) /\ p > e /\ p <= e + k) => p \in e + 1 .. e + after
  BY <1>1
<1>7. \A p \in s - before .. e + after : p \in 0 .. (n - 1) /\ s - k <= p /\ p <= e + k
  BY <1>1, <1>4
<1> HIDE DEF before, after
<1>8. up \in Seq(Int) /\ Len(up) = before /\ \A i \in 1 .. before : up[i] = s - i
  BY <1>1, <1>4
<1>9. down \in Seq(Int) /\ Len(down) = after /\ \A i \in 1 .. after : down[i] = e + i
  BY <1>1, <1>4
<1>10. here \in Seq(Int) /\ Len(here) = e - s + 1 /\ \A i \in 1 .. e - s + 1 : here[i] = s + i - 1
  BY <1>1, <1>4
<1> HIDE DEF up, down, here
<1>11. /\ rest \in Seq(Int) /\ Len(rest) = before + after
       /\ \A i \in 1 .. before + after : rest[i] \in (s - before .. s - 1) \union (e + 1 .. e + after)
       /\ \A p \in (s - before .. s - 1) \union (e + 1 .. e + after) :
            \E i \in 1 .. before + after : rest[i] = p
  <2>1. CASE c.dir = "up"
    <3>1. rest = up \o down
      BY <2>1
    <3> HIDE DEF rest
    <3>9. JoinOf(rest, up, down, before, after)
      BY <1>8, <1>9, <3>1, JoinedParts
    <3>2. /\ rest \in Seq(Int) /\ Len(rest) = before + after
          /\ \A i \in 1 .. before : i \in 1 .. before + after /\ rest[i] = up[i]
          /\ \A i \in 1 .. after : before + i \in 1 .. before + after /\ rest[before + i] = down[i]
      BY <3>9 DEF JoinOf
    <3>3. \A i \in 1 .. before : i \in 1 .. before + after /\ rest[i] = s - i
      BY <1>8, <3>2
    <3>4. \A i \in 1 .. after : before + i \in 1 .. before + after /\ rest[before + i] = e + i
      BY <1>9, <3>2
    <3>5. ASSUME NEW i \in 1 .. before + after
          PROVE  rest[i] \in (s - before .. s - 1) \union (e + 1 .. e + after)
      <4>1. CASE i <= before
        <5>1. rest[i] = s - i /\ s - i \in s - before .. s - 1
          BY <1>1, <1>4, <3>3, <4>1
        <5> QED
          BY <5>1
      <4>2. CASE i > before
        <5>1. i - before \in 1 .. after /\ before + (i - before) = i
          BY <1>4, <4>2
        <5>2. rest[i] = e + (i - before)
          BY <3>4, <5>1
        <5>3. e + (i - before) \in e + 1 .. e + after
          BY <1>1, <1>4, <5>1
        <5> QED
          BY <5>2, <5>3
      <4> QED
        BY <1>4, <4>1, <4>2
    <3>6. ASSUME NEW p \in s - before .. s - 1 PROVE \E i \in 1 .. before + after : rest[i] = p
      <4>1. s - p \in 1 .. before /\ s - (s - p) = p
        BY <1>1, <1>4
      <4> QED
        BY <3>3, <4>1
    <3>7. ASSUME NEW p \in e + 1 .. e + after PROVE \E i \in 1 .. before + after : rest[i] = p
      <4>1. p - e \in 1 .. after /\ e + (p - e) = p
        BY <1>1, <1>4
      <4> QED
        BY <3>4, <4>1
    <3>10. \A i \in 1 .. before + after :
             rest[i] \in (s - before .. s - 1) \union (e + 1 .. e + after)
      BY <3>5
    <3>11. \A p \in (s - before .. s - 1) \union (e + 1 .. e + after) :
             \E i \in 1 .. before + after : rest[i] = p
      BY <3>6, <3>7
    <3> QED
      BY <3>2, <3>10, <3>11
  <2>2. CASE c.dir # "up"
    <3>1. rest = down \o up
      BY <2>2
    <3> HIDE DEF rest
    <3>8. after + before = before + after
      BY <1>4
    <3>9. JoinOf(rest, down, up, after, before)
      BY <1>8, <1>9, <3>1, JoinedParts
    <3>2. /\ rest \in Seq(Int) /\ Len(rest) = after + before
          /\ \A i \in 1 .. after : i \in 1 .. after + before /\ rest[i] = down[i]
          /\ \A i \in 1 .. before : after + i \in 1 .. after + before /\ rest[after + i] = up[i]
      BY <3>9 DEF JoinOf
    <3>3. \A i \in 1 .. after : i \in 1 .. before + after /\ rest[i] = e + i
      BY <1>9, <3>2, <3>8
    <3>4. \A i \in 1 .. before : after + i \in 1 .. before + after /\ rest[after + i] = s - i
      BY <1>8, <3>2, <3>8
    <3>5. ASSUME NEW i \in 1 .. before + after
          PROVE  rest[i] \in (s - before .. s - 1) \union (e + 1 .. e + after)
      <4>1. CASE i <= after
        <5>1. rest[i] = e + i /\ e + i \in e + 1 .. e + after
          BY <1>1, <1>4, <3>3, <4>1
        <5> QED
          BY <5>1
      <4>2. CASE i > after
        <5>1. i - after \in 1 .. before /\ after + (i - after) = i
          BY <1>4, <4>2
        <5>2. rest[i] = s - (i - after)
          BY <3>4, <5>1
        <5>3. s - (i - after) \in s - before .. s - 1
          BY <1>1, <1>4, <5>1
        <5> QED
          BY <5>2, <5>3
      <4> QED
        BY <1>4, <4>1, <4>2
    <3>6. ASSUME NEW p \in s - before .. s - 1 PROVE \E i \in 1 .. before + after : rest[i] = p
      <4>1. s - p \in 1 .. before /\ s - (s - p) = p
        BY <1>1, <1>4
      <4>2. after + (s - p) \in 1 .. before + after /\ rest[after + (s - p)] = p
        BY <3>4, <4>1
      <4> QED
        BY <4>2
    <3>7. ASSUME NEW p \in e + 1 .. e + after PROVE \E i \in 1 .. before + after : rest[i] = p
      <4>1. p - e \in 1 .. after /\ e + (p - e) = p
        BY <1>1, <1>4
      <4> QED
        BY <3>3, <4>1
    <3>10. \A i \in 1 .. before + after :
             rest[i] \in (s - before .. s - 1) \union (e + 1 .. e + after)
      BY <3>5
    <3>11. \A p \in (s - before .. s - 1) \union (e + 1 .. e + after) :
             \E i \in 1 .. before + after : rest[i] = p
      BY <3>6, <3>7
    <3> QED
      BY <3>2, <3>8, <3>10, <3>11
  <2> QED
    BY <2>1, <2>2
<1> HIDE DEF rest
<1> DEFINE seen == e - s + 1
           others == before + after
<1>20. seen \in Nat /\ others \in Nat /\ seen = e - s + 1 /\ others = before + after
  BY <1>4
<1>21. all = here \o rest /\ Len(here) = seen /\ Len(rest) = others
  BY <1>10, <1>11
<1> HIDE DEF all, seen, others
<1>23. JoinOf(all, here, rest, seen, others)
  BY <1>10, <1>11, <1>21, JoinedParts
<1>22. /\ all \in Seq(Int) /\ Len(all) = seen + others
       /\ \A i \in 1 .. seen : i \in 1 .. seen + others /\ all[i] = here[i]
       /\ \A i \in 1 .. others : seen + i \in 1 .. seen + others /\ all[seen + i] = rest[i]
  BY <1>23 DEF JoinOf
<1>12. Len(all) = e - s + 1 + before + after /\ Len(all) = seen + others
  BY <1>1, <1>4, <1>20, <1>22
<1>13. \A i \in 1 .. e - s + 1 : i \in 1 .. Len(all) /\ all[i] = s + i - 1
  BY <1>10, <1>20, <1>22
<1>14. \A i \in 1 .. before + after :
         e - s + 1 + i \in 1 .. Len(all) /\ all[e - s + 1 + i] = rest[i]
  BY <1>20, <1>22
<1>15. ASSUME NEW i \in 1 .. Len(all) PROVE all[i] \in s - before .. e + after
  <2>1. CASE i <= e - s + 1
    BY <1>1, <1>4, <1>12, <1>13, <2>1
  <2>2. CASE i > e - s + 1
    <3>1. i - (e - s + 1) \in 1 .. before + after /\ e - s + 1 + (i - (e - s + 1)) = i
      BY <1>1, <1>4, <1>12, <2>2
    <3>2. all[i] = rest[i - (e - s + 1)]
      BY <1>14, <3>1
    <3>3. all[i] \in (s - before .. s - 1) \union (e + 1 .. e + after)
      BY <1>11, <3>1, <3>2
    <3> QED
      BY <1>1, <1>4, <3>3
  <2> QED
    BY <1>1, <1>12, <2>1, <2>2
<1>16. ASSUME NEW p \in 0 .. (n - 1), s - k <= p, p <= e + k
       PROVE  \E i \in 1 .. Len(all) : all[i] = p
  <2>1. CASE s <= p /\ p <= e
    <3>1. p - s + 1 \in 1 .. e - s + 1 /\ s + (p - s + 1) - 1 = p
      BY <1>1, <2>1
    <3> QED
      BY <1>13, <3>1
  <2>2. CASE ~(s <= p /\ p <= e)
    <3>1. p \in (s - before .. s - 1) \union (e + 1 .. e + after)
      BY <1>1, <1>5, <1>6, <1>16, <2>2
    <3>2. PICK i \in 1 .. before + after : rest[i] = p
      BY <1>11, <3>1
    <3> QED
      BY <1>14, <3>2
  <2> QED
    BY <2>1, <2>2
<1>17. Len(all) \in 0 .. n
  BY <1>1, <1>4, <1>12
<1>18. \A i \in 1 .. Len(all) : all[i] \in Kept(c)
  BY <1>3, <1>7, <1>15
<1>19. \A p \in Kept(c) : \E i \in 1 .. Len(all) : all[i] = p
  BY <1>3, <1>16
<1> QED
  BY <1>2, <1>17, <1>18, <1>19 DEF n

\* The recursion of AddJobsIfNeeded has a solution.
PushesSolve(f, n, w, order) ==
  f = [i \in 0 .. n |-> IF i = 0 THEN w ELSE AddJobIfNeeded(f[i - 1], order[i])]
LEMMA PushesExist ==
  ASSUME NEW n \in Nat, NEW w, NEW order
  PROVE  \E f : PushesSolve(f, n, w, order)
<1> DEFINE T == {k \in 0 .. n : \E f : PushesSolve(f, k, w, order)}
<1>1. 0 \in T
  <2> DEFINE f == [i \in 0 .. 0 |-> w]
  <2>1. PushesSolve(f, 0, w, order)
    BY DEF PushesSolve
  <2> QED
    BY <2>1
<1>2. ASSUME NEW k \in 1 .. n, k - 1 \in T
      PROVE  k \in T
  <2>1. PICK f : PushesSolve(f, k - 1, w, order)
    BY <1>2
  <2> DEFINE g == [i \in 0 .. k |-> IF i = 0 THEN w ELSE AddJobIfNeeded(f[i - 1], order[i])]
  <2>2. \A i \in 0 .. k - 1 : i \in 0 .. k /\ f[i] = g[i]
    <3>1. \A i \in 0 .. k - 1 : i \in 0 .. k
      OBVIOUS
    <3>2. \A i \in 0 .. k - 1 :
            f[i] = IF i = 0 THEN w ELSE AddJobIfNeeded(f[i - 1], order[i])
      BY <2>1, Zenon DEF PushesSolve
    <3> QED
      BY <3>1, <3>2
  <2>3. \A i \in 0 .. k : i # 0 => i - 1 \in 0 .. k - 1
    OBVIOUS
  <2>4. g = [i \in 0 .. k |-> g[i]] /\ DOMAIN g = 0 .. k
    OBVIOUS
  <2>5. \A i \in 0 .. k : g[i] = IF i = 0 THEN w ELSE AddJobIfNeeded(f[i - 1], order[i])
    OBVIOUS
  <2> HIDE DEF g
  <2>6. \A i \in 0 .. k : g[i] = IF i = 0 THEN w ELSE AddJobIfNeeded(g[i - 1], order[i])
    BY <2>2, <2>3, <2>5
  <2>7. PushesSolve(g, k, w, order)
    BY <2>4, <2>6 DEF PushesSolve
  <2> QED
    BY <2>7
<1> HIDE DEF T
<1>3. n \in T
  <2>1. T \in SUBSET (0 .. n)
    BY DEF T
  <2> QED
    BY <1>1, <1>2, <2>1, PixAll
<1> QED
  BY <1>3 DEF T

\* Afterwards every page of the range has the right picture or a job for it.
LEMMA PixJobsIfNeeded ==
  ASSUME NEW w, Filling(w, w), w.cache.start >= 0, w.cache.start <= w.cache.end,
         Cardinality(FreeJobs(w)) >= CachePages, NEW v, v = AddJobsIfNeeded(w)
  PROVE  Filling(w, v) /\ \A p \in Kept(w.cache) : RightAt(v, p)
<1> DEFINE order == PushOrder(w.cache)
           n == Len(order)
           f == CHOOSE pushed : PushesSolve(pushed, n, w, order)
           free == Cardinality(FreeJobs(w))
           Done(k) == /\ Filling(w, f[k]) /\ \A i \in 1 .. k : RightAt(f[k], order[i])
                      /\ Cardinality(FreeJobs(f[k])) >= free - k
           T == {k \in 0 .. n : Done(k)}
<1>1. w.cache \in PixCache
  BY DEF Filling, Good, GoodBut, PixWorld
<1>2. /\ n \in 0 .. CachePages
      /\ \A i \in 1 .. n : order[i] \in Kept(w.cache)
      /\ \A p \in Kept(w.cache) : \E i \in 1 .. n : order[i] = p
  BY <1>1, PushOrderIs
<1>3. v = f[n]
  BY Zenon DEF AddJobsIfNeeded, PushesSolve
<1> HIDE DEF order, n
<1>4. n \in Nat /\ n <= CachePages /\ free \in Nat /\ CachePages \in Nat
  BY <1>2, FreeFinite, PixFacts
<1>5. PushesSolve(f, n, w, order)
  BY <1>4, PushesExist
<1> HIDE DEF f
<1>6. \A i \in 0 .. n : f[i] = IF i = 0 THEN w ELSE AddJobIfNeeded(f[i - 1], order[i])
  BY <1>5, Zenon DEF PushesSolve
<1>7. 0 \in T
  <2>1. 0 \in 0 .. n /\ f[0] = w
    BY <1>4, <1>6
  <2> HIDE DEF free
  <2>2. free >= free - 0
    BY <1>4
  <2> QED
    BY <2>1, <2>2 DEF free
<1>8. ASSUME NEW k \in 1 .. n, k - 1 \in T PROVE k \in T
  <2> DEFINE old == f[k - 1]
             new == f[k]
             p == order[k]
  <2>1. new = AddJobIfNeeded(old, p) /\ k \in 0 .. n
    BY <1>4, <1>6
  <2>2. Filling(w, old) /\ \A i \in 1 .. (k - 1) : RightAt(old, order[i])
    BY <1>8
  <2>3. Cardinality(FreeJobs(old)) >= free - (k - 1)
    BY <1>8
  <2>4. p \in Kept(w.cache) /\ p \in CachePage
    BY <1>2 DEF Kept
  <2> HIDE DEF old, new, p, free
  <2>5. FreeJobs(old) # {}
    <3>1. Cardinality(FreeJobs(old)) \in Nat
      BY FreeFinite
    <3>2. free >= CachePages
      BY DEF free
    <3>3. Cardinality(FreeJobs(old)) # 0
      BY <1>4, <2>3, <3>1, <3>2
    <3> QED
      BY <3>3, FS_EmptySet
  <2>6. Filling(old, old) /\ p \in Kept(old.cache)
    BY <2>2, <2>4 DEF Filling, SameRange
  <2>7. /\ Filling(old, new) /\ RightAt(new, p)
        /\ \A r \in CachePage : RightAt(old, r) => RightAt(new, r)
        /\ Cardinality(FreeJobs(new)) >= Cardinality(FreeJobs(old)) - 1
    BY <2>1, <2>4, <2>5, <2>6, PixJobIfNeeded
  <2>8. Filling(w, new)
    BY <2>2, <2>7 DEF Filling, SameRange
  <2>9. ASSUME NEW i \in 1 .. k PROVE RightAt(new, order[i])
    <3>1. CASE i = k
      BY <2>7, <3>1 DEF p
    <3>2. CASE i # k
      <4>1. i \in 1 .. (k - 1) /\ i \in 1 .. n
        BY <1>4, <3>2
      <4>2. order[i] \in CachePage
        BY <1>2, <4>1 DEF Kept
      <4> QED
        BY <2>2, <2>7, <4>1, <4>2
    <3> QED
      BY <3>1, <3>2
  <2>10. Cardinality(FreeJobs(new)) >= free - k
    <3>1. Cardinality(FreeJobs(new)) \in Nat /\ Cardinality(FreeJobs(old)) \in Nat
      BY FreeFinite
    <3> QED
      BY <1>4, <2>3, <2>7, <3>1
  <2> QED
    BY <2>1, <2>8, <2>9, <2>10 DEF new, free
<1> HIDE DEF T
<1>9. n \in T
  <2>1. T \in SUBSET (0 .. n)
    BY DEF T
  <2> QED
    BY <1>4, <1>7, <1>8, <2>1, PixAll
<1>10. Filling(w, f[n]) /\ \A i \in 1 .. n : RightAt(f[n], order[i])
  BY <1>9 DEF T
<1> QED
  BY <1>2, <1>3, <1>10

\* An update of the range leaves every page of it right, whatever was so before.
LEMMA PixUpdated ==
  ASSUME NEW w, Good(w), Room(w), NEW start \in CachePage, NEW end \in CachePage, start <= end,
         NEW v, v = Updated(w, start, end)
  PROVE  /\ Good(v) /\ ~v.shown.cleared /\ v.shown.resize = w.shown.resize
         /\ v.cache.start = start /\ v.cache.end = end
         /\ v.shown.calls = w.shown.calls
         /\ \A p \in Kept(v.cache) : RightAt(v, p)
<1> DEFINE d == ScrollDirection(w.cache, start, end)
           turned == [w EXCEPT !.cache.dir = d]
           ranged == UpdateRange(turned, start, end)
           sized == ClearJobSizes(ranged)
           listed == SetSelectionList(sized)
           filled == AddJobsIfNeeded(listed)
           got == GetSurface(filled, start)
           no == FALSE
           none == {}
<1>1. w \in PixWorld /\ w.cache \in PixCache /\ GoodBut(w, none)
  BY DEF Good, GoodBut, PixWorld
<1>2. d \in {"up", "down"}
  <2>1. w.cache.dir \in {"up", "down"}
    BY <1>1 DEF PixCache
  <2> QED
    BY <2>1 DEF ScrollDirection
<1>3. v = [got EXCEPT !.shown.cleared = no]
  BY Zenon DEF Updated, SetPageRange
<1> HIDE DEF d, no
<1>4. turned \in PixWorld /\ PixPartsSame(turned, w) /\ turned.shown = w.shown
  <2> DEFINE c == [w.cache EXCEPT !.dir = d]
  <2>1. turned = [w EXCEPT !.cache = c]
    OBVIOUS
  <2>2. /\ c \in PixCache /\ c.start = w.cache.start /\ c.end = w.cache.end
        /\ c.preload = w.cache.preload /\ c.inverted = w.cache.inverted /\ c.slot = w.cache.slot
    BY <1>1, <1>2 DEF PixCache
  <2> HIDE DEF c
  <2> QED
    BY <1>1, <2>1, <2>2 DEF PixWorld, PixPartsSame
<1> HIDE DEF turned
<1>5. Good(turned)
  <2>1. SeenSame(w, turned, none, none)
    <3>1. w.shown.version \in [CachePage -> Int]
      <4>1. w.shown \in PixShown /\ CacheVersions \in Nat
        BY <1>1, PixFacts DEF PixWorld
      <4> QED
        BY <4>1 DEF PixShown
    <3> QED
      BY <1>4, <3>1 DEF SeenSame
  <2> HIDE DEF none
  <2>2. GoodBut(turned, none)
    BY <1>1, <1>4, <2>1, GoodSame
  <2> QED
    BY <2>2 DEF Good, none
<1>6. FreeStays(w, turned)
  BY <1>4 DEF FreeStays, PixPartsSame
<1>7. /\ Good(ranged) /\ ranged.shown = w.shown /\ ranged.cache.start = start
      /\ ranged.cache.end = end /\ FreeStays(turned, ranged)
  BY <1>4, <1>5, PixRangeUpdated
<1> HIDE DEF ranged
<1>8. /\ Good(sized) /\ SameRange(sized, ranged) /\ FreeStays(ranged, sized)
      /\ \A p \in CachePage : JobFits(sized, p)
  BY <1>7, JobSizesCleared
<1> HIDE DEF sized
<1>9. Reselected(sized, listed)
  BY <1>8, SelectionListSet
<1> HIDE DEF listed
<1>10. /\ Good(listed) /\ listed.shown = w.shown /\ listed.cache.start = start
       /\ listed.cache.end = end /\ listed.render = sized.render
       /\ \A p \in CachePage : listed.cache.slot[p].job = sized.cache.slot[p].job
  BY <1>7, <1>8, <1>9 DEF Reselected, Keeps, SameRange
<1>11. Filling(listed, listed)
  <2>1. sized.shown = listed.shown
    BY <1>7, <1>8, <1>10 DEF SameRange
  <2>2. Fitting(listed) = Fitting(sized)
    BY <2>1 DEF Fitting
  <2>3. \A p \in CachePage : JobFits(listed, p)
    BY <1>8, <1>10, <2>2 DEF JobFits
  <2> QED
    BY <1>10, <2>3 DEF Filling, SameRange
<1>12. Cardinality(FreeJobs(listed)) >= CachePages
  <2>1. FreeStays(w, listed)
    BY <1>6, <1>7, <1>8, <1>10 DEF FreeStays
  <2>2. Cardinality(FreeJobs(w)) <= Cardinality(FreeJobs(listed))
    BY <2>1, FreeGrow
  <2>3. Cardinality(FreeJobs(w)) >= CachePages
    BY DEF Room, FreeJobs
  <2> QED
    BY <2>2, <2>3, FreeFinite, PixFacts
<1>13. start >= 0
  BY PixFacts DEF CachePage
<1>14. Filling(listed, filled) /\ \A p \in Kept(listed.cache) : RightAt(filled, p)
  BY <1>10, <1>11, <1>12, <1>13, PixJobsIfNeeded
<1> HIDE DEF filled
<1>15. /\ Good(filled) /\ SameRange(filled, listed) /\ Kept(filled.cache) = Kept(listed.cache)
  BY <1>14 DEF Filling
<1>16. Keeps(filled, got)
  BY <1>15, SurfaceGot
<1> HIDE DEF got
<1>17. /\ Good(got) /\ got.shown = w.shown /\ got.cache.start = start /\ got.cache.end = end
       /\ Kept(got.cache) = Kept(listed.cache)
       /\ \A p \in Kept(got.cache) : RightAt(got, p)
  <2>1. Kept(listed.cache) \subseteq CachePage
    BY DEF Kept
  <2> QED
    BY <1>10, <1>14, <1>15, <1>16, <2>1 DEF Keeps, SameRange, Serves, RightAt
<1> DEFINE sh == [got.shown EXCEPT !.cleared = no]
<1>18. got \in PixWorld /\ got.shown \in PixShown /\ no \in BOOLEAN /\ GoodBut(got, none)
  BY <1>17 DEF Good, GoodBut, PixWorld, no
<1>19. /\ sh \in PixShown /\ sh.cleared = no /\ sh.resize = got.shown.resize
       /\ sh.calls = got.shown.calls
       /\ sh.rotation = got.shown.rotation /\ sh.inverted = got.shown.inverted
       /\ sh.scale = got.shown.scale /\ sh.version = got.shown.version
  BY <1>18 DEF PixShown
<1>20. v = [got EXCEPT !.shown = sh]
  BY <1>3
<1> HIDE DEF sh
<1>21. v \in PixWorld /\ PixPartsSame(v, got) /\ v.shown = sh /\ v.cache = got.cache
  BY <1>18, <1>19, <1>20 DEF PixWorld, PixPartsSame
<1>22. Good(v)
  <2>1. SeenSame(got, v, none, none)
    <3>1. got.shown.version \in [CachePage -> Int]
      <4>1. CacheVersions \in Nat
        BY PixFacts
      <4> QED
        BY <1>18, <4>1 DEF PixShown
    <3> QED
      BY <1>19, <1>21, <3>1 DEF SeenSame
  <2> HIDE DEF none
  <2>2. GoodBut(v, none)
    BY <1>18, <1>21, <2>1, GoodSame
  <2> QED
    BY <2>2 DEF Good, none
<1>23. Fitting(v) = Fitting(got)
  BY <1>19, <1>21 DEF Fitting
<1>24. \A p \in Kept(v.cache) : RightAt(v, p)
  BY <1>17, <1>21, <1>23 DEF RightAt, ServedAt, FitsAt, JobFits, PixPartsSame
<1>25. ~v.shown.cleared
  BY <1>19, <1>21 DEF no
<1> QED
  BY <1>17, <1>19, <1>21, <1>22, <1>24, <1>25

-----------------------------------------------------------------------------
(* The calls of the user and of the view.                                  *)

LEMMA CacheBecomes ==
  ASSUME NEW w, CacheGood(w), Becomes(w)
  PROVE  CacheIs'
<1>1. w \in PixWorld
  BY DEF CacheGood, Good, GoodBut
<1>2. World' = w
  BY <1>1 DEF World, Becomes, PixWorld
<1> QED
  BY <1>2 DEF CacheIs

\* What the view shows is something else.
LEMMA WithShown ==
  ASSUME NEW w \in PixWorld, NEW sh \in PixShown, NEW v, v = [w EXCEPT !.shown = sh]
  PROVE  /\ v \in PixWorld /\ v.shown = sh /\ v.cache = w.cache /\ v.render = w.render
         /\ v.queues = w.queues
BY DEF PixWorld

LEMMA VersionsAre ==
  ASSUME NEW w \in PixWorld
  PROVE  w.shown \in PixShown /\ w.shown.version \in [CachePage -> 1 .. CacheVersions]
         /\ CacheVersions \in Nat /\ w.shown.version \in [CachePage -> Int]
<1>1. w.shown \in PixShown /\ CacheVersions \in Nat
  BY PixFacts DEF PixWorld
<1>2. w.shown.version \in [CachePage -> 1 .. CacheVersions]
  BY <1>1 DEF PixShown
<1> QED
  BY <1>1, <1>2

\* The view shows something else of the same versions and in the same rotation.
LEMMA GoodShown ==
  ASSUME NEW w, NEW P, GoodBut(w, P), NEW v \in PixWorld, PixPartsSame(v, w),
         v.shown.rotation = w.shown.rotation, v.shown.version = w.shown.version
  PROVE  GoodBut(v, P) /\ Kept(v.cache) = Kept(w.cache)
<1>1. w \in PixWorld
  BY DEF GoodBut
<1>2. w.shown.version \in [CachePage -> Int]
  BY <1>1, VersionsAre
<1>3. SeenSame(w, v, P, P)
  BY <1>2 DEF SeenSame
<1> QED
  BY <1>3, GoodSame

LEMMA CalledIs ==
  ASSUME CacheIs
  PROVE  /\ Called \in PixWorld /\ Good(Called) /\ CacheGood(Called)
         /\ Called.cache = cache /\ Called.render = render /\ Called.queues = queues
         /\ Called.shown.scale = shown.scale /\ Called.shown.rotation = shown.rotation
         /\ Called.shown.inverted = shown.inverted /\ Called.shown.selection = shown.selection
         /\ Called.shown.resize = shown.resize /\ Called.shown.version = shown.version
         /\ Called.shown.cleared = shown.cleared
         /\ (Room(World) => Room(Called))
<1> DEFINE sh == [shown EXCEPT !.calls = shown.calls + 1]
           w == World
           v == Called
           none == {}
<1>1. w \in PixWorld /\ GoodBut(w, none) /\ CacheGood(w)
  BY DEF CacheIs, CacheGood, Good, GoodBut
<1>2. w.shown = shown /\ w.cache = cache /\ w.render = render /\ w.queues = queues
  BY DEF World
<1>3. shown \in PixShown
  BY <1>1, <1>2 DEF PixWorld
<1>4. /\ sh \in PixShown /\ sh.scale = shown.scale /\ sh.rotation = shown.rotation
      /\ sh.inverted = shown.inverted /\ sh.selection = shown.selection
      /\ sh.resize = shown.resize /\ sh.version = shown.version /\ sh.cleared = shown.cleared
  BY <1>3 DEF PixShown
<1>5. v = [w EXCEPT !.shown = sh]
  BY <1>2 DEF Called
<1> HIDE DEF w, v, sh
<1>6. /\ v \in PixWorld /\ v.shown = sh /\ v.cache = w.cache /\ v.render = w.render
      /\ v.queues = w.queues
  BY <1>1, <1>4, <1>5, WithShown
<1>7. PixPartsSame(v, w) /\ v.shown.rotation = w.shown.rotation /\ v.shown.version = w.shown.version
  BY <1>2, <1>4, <1>6 DEF PixPartsSame
<1> HIDE DEF none
<1>8. GoodBut(v, none) /\ Kept(v.cache) = Kept(w.cache)
  BY <1>1, <1>6, <1>7, GoodShown
<1>9. Good(v)
  BY <1>8 DEF Good, none
<1>10. Fitting(v) = Fitting(w)
  BY <1>2, <1>4, <1>6 DEF Fitting
<1>11. CacheGood(v)
  BY <1>1, <1>2, <1>4, <1>6, <1>8, <1>9, <1>10 DEF CacheGood, ServedAt, FitsAt, JobFits
<1>12. Room(w) => Room(v)
  BY <1>6 DEF Room
<1> QED
  BY <1>2, <1>4, <1>6, <1>9, <1>11, <1>12 DEF v, w

LEMMA KeptVisible ==
  ASSUME NEW w, NEW P, GoodBut(w, P)
  PROVE  /\ \A p \in Visible(w.cache) : p \in Kept(w.cache)
         /\ w.cache.start >= 0 =>
              /\ w.cache.start \in CachePage /\ w.cache.end \in CachePage
              /\ w.cache.start <= w.cache.end
              /\ w.cache.start \in Kept(w.cache) /\ w.cache.end \in Kept(w.cache)
<1> DEFINE s == w.cache.start
           e == w.cache.end
           k == w.cache.preload
<1>1. w.cache \in PixCache /\ CachePages \in Nat /\ RangeRight(w.cache)
  BY PixFacts DEF GoodBut, PixWorld
<1>2. s \in -1 .. (CachePages - 1) /\ e \in -1 .. (CachePages - 1) /\ k \in Nat
  BY <1>1 DEF PixCache, MaxPreloadedPages
<1>3. s >= 0 => s <= e
  BY <1>1, <1>2 DEF RangeRight
<1>4. /\ Visible(w.cache) = {p \in CachePage : s <= p /\ p <= e}
      /\ Kept(w.cache) = {p \in CachePage : s - k <= p /\ p <= e + k}
  BY DEF Visible, Kept
<1>5. CachePage = 0 .. (CachePages - 1)
  BY DEF CachePage
<1> HIDE DEF s, e, k
<1>6. \A p \in CachePage : (s <= p /\ p <= e) => (s - k <= p /\ p <= e + k)
  BY <1>1, <1>2, <1>5
<1>7. s >= 0 => s \in CachePage /\ e \in CachePage /\ s - k <= s /\ s <= e + k /\ s - k <= e
                /\ e <= e + k /\ s <= e
  BY <1>1, <1>2, <1>3, <1>5
<1> QED
  BY <1>4, <1>6, <1>7 DEF s, e

LEMMA CacheUpdated ==
  ASSUME NEW w, Good(w), Room(w), NEW start \in CachePage, NEW end \in CachePage, start <= end
  PROVE  CacheGood(Updated(w, start, end))
<1> DEFINE v == Updated(w, start, end)
<1>1. /\ Good(v) /\ ~v.shown.cleared /\ \A p \in Kept(v.cache) : RightAt(v, p)
  BY PixUpdated
<1> QED
  BY <1>1 DEF CacheGood, RightAt

LEMMA ScrollStep ==
  ASSUME CacheIs, NEW start \in CachePage, NEW end \in CachePage, Scroll(start, end)
  PROVE  CacheIs'
<1>1. Room(Called) /\ Good(Called)
  BY CalledIs DEF Scroll
<1>2. start <= end
  BY PixFacts DEF Scroll, CachePage
<1>3. CacheGood(Updated(Called, start, end))
  BY <1>1, <1>2, CacheUpdated
<1>4. Becomes(Updated(Called, start, end))
  BY DEF Scroll
<1> QED
  BY <1>3, <1>4, CacheBecomes

\* A scale that is not the view's yet: the resize is to come.
LEMMA ZoomStep ==
  ASSUME CacheIs, NEW scale \in Scales, Zoom(scale)
  PROVE  CacheIs'
<1> DEFINE w == Called
           yes == TRUE
           a == [w.shown EXCEPT !.scale = scale]
           sh == [a EXCEPT !.resize = yes]
           v == [w EXCEPT !.shown = sh]
           none == {}
<1>1. w \in PixWorld /\ GoodBut(w, none) /\ CacheGood(w)
  BY CalledIs DEF Good
<1>2. [Called EXCEPT !.shown.scale = scale, !.shown.resize = TRUE] = v
  OBVIOUS
<1>3. Becomes([Called EXCEPT !.shown.scale = scale, !.shown.resize = TRUE])
  BY DEF Zoom
<1>4. Becomes(v)
  BY <1>2, <1>3, Zenon
<1>5. yes \in BOOLEAN /\ yes
  OBVIOUS
<1> HIDE DEF w, yes
<1>6. w.shown \in PixShown
  BY <1>1 DEF PixWorld
<1>7. /\ a \in PixShown /\ a.rotation = w.shown.rotation /\ a.inverted = w.shown.inverted
      /\ a.version = w.shown.version /\ a.cleared = w.shown.cleared
  BY <1>6 DEF PixShown
<1> HIDE DEF a
<1>8. /\ sh \in PixShown /\ sh.rotation = w.shown.rotation /\ sh.inverted = w.shown.inverted
      /\ sh.version = w.shown.version /\ sh.cleared = w.shown.cleared /\ sh.resize = yes
  BY <1>5, <1>7 DEF PixShown
<1> HIDE DEF sh
<1>9. v = [w EXCEPT !.shown = sh]
  OBVIOUS
<1> HIDE DEF v, none
<1>10. /\ v \in PixWorld /\ v.shown = sh /\ v.cache = w.cache /\ v.render = w.render
       /\ v.queues = w.queues
  BY <1>1, <1>8, <1>9, WithShown
<1>11. PixPartsSame(v, w) /\ v.shown.rotation = w.shown.rotation /\ v.shown.version = w.shown.version
  BY <1>8, <1>10 DEF PixPartsSame
<1>12. GoodBut(v, none) /\ Kept(v.cache) = Kept(w.cache)
  BY <1>1, <1>10, <1>11, GoodShown
<1>13. CacheGood(v)
  BY <1>1, <1>5, <1>8, <1>10, <1>12 DEF CacheGood, Good, ServedAt, none
<1> QED
  BY <1>4, <1>13, CacheBecomes

LEMMA SizeAllocateStep ==
  ASSUME CacheIs, SizeAllocate
  PROVE  CacheIs'
<1> DEFINE w == World
           u == Updated(w, cache.start, cache.end)
           no == FALSE
           sh == [u.shown EXCEPT !.resize = no]
           v == [u EXCEPT !.shown = sh]
           none == {}
<1>1. Good(w) /\ GoodBut(w, none) /\ w.cache = cache /\ Room(w) /\ w.cache.start >= 0
  BY DEF CacheIs, CacheGood, Good, SizeAllocate, World
<1>2. Becomes(v)
  BY DEF SizeAllocate
<1> HIDE DEF w, none, no
<1>3. cache.start \in CachePage /\ cache.end \in CachePage /\ cache.start <= cache.end
  BY <1>1, KeptVisible
<1>4. /\ Good(u) /\ ~u.shown.cleared /\ \A p \in Kept(u.cache) : RightAt(u, p)
  BY <1>1, <1>3, PixUpdated
<1> HIDE DEF u
<1>5. GoodBut(u, none) /\ u \in PixWorld /\ u.shown \in PixShown /\ no \in BOOLEAN
  BY <1>4 DEF Good, GoodBut, PixWorld, none, no
<1>6. /\ sh \in PixShown /\ sh.rotation = u.shown.rotation /\ sh.inverted = u.shown.inverted
      /\ sh.version = u.shown.version /\ sh.cleared = u.shown.cleared /\ sh.scale = u.shown.scale
  BY <1>5 DEF PixShown
<1>7. v = [u EXCEPT !.shown = sh]
  OBVIOUS
<1> HIDE DEF sh, v
<1>8. /\ v \in PixWorld /\ v.shown = sh /\ v.cache = u.cache /\ v.render = u.render
      /\ v.queues = u.queues
  BY <1>5, <1>6, <1>7, WithShown
<1>9. PixPartsSame(v, u) /\ v.shown.rotation = u.shown.rotation /\ v.shown.version = u.shown.version
  BY <1>6, <1>8 DEF PixPartsSame
<1>10. GoodBut(v, none) /\ Kept(v.cache) = Kept(u.cache)
  BY <1>5, <1>8, <1>9, GoodShown
<1>11. Fitting(v) = Fitting(u)
  BY <1>6, <1>8 DEF Fitting
<1>12. \A p \in Kept(v.cache) : ServedAt(v, p) /\ FitsAt(v, p)
  BY <1>4, <1>8, <1>10, <1>11 DEF RightAt, ServedAt, FitsAt, JobFits
<1>13. CacheGood(v)
  BY <1>10, <1>12 DEF CacheGood, Good, none
<1> QED
  BY <1>2, <1>13, CacheBecomes

\* A cache that is cleared has nothing of the old rotation.
LEMMA RotateStep ==
  ASSUME CacheIs, NEW rotation \in CacheRotations, Rotate(rotation)
  PROVE  CacheIs'
<1> DEFINE c == Called
           w == Disposed(c, Kept(cache))
           yes == TRUE
           none == {}
           a == [w.shown EXCEPT !.rotation = rotation]
           b == [a EXCEPT !.resize = yes]
           sh == [b EXCEPT !.cleared = yes]
           turned == [w EXCEPT !.shown = sh]
           sh2 == [sh EXCEPT !.selection = 0]
           bare == [turned EXCEPT !.shown = sh2]
           listed == SetSelectionList(bare)
           t == [w EXCEPT !.shown.rotation = rotation, !.shown.resize = TRUE,
                             !.shown.cleared = TRUE]
<1>1. c \in PixWorld /\ GoodBut(c, none) /\ c.cache = cache
  BY CalledIs DEF Good
<1>2. Becomes(IF rotation = 0 THEN t
              ELSE SetSelectionList([t EXCEPT !.shown.selection = 0]))
  BY DEF Rotate
<1>3. t = turned
  OBVIOUS
<1>4. Becomes(IF rotation = 0 THEN turned ELSE SetSelectionList([turned EXCEPT !.shown.selection = 0]))
  BY <1>2, <1>3, Zenon
<1>5. yes \in BOOLEAN /\ yes
  OBVIOUS
<1> HIDE DEF yes, c, turned
<1>6. [turned EXCEPT !.shown.selection = 0] = [turned EXCEPT !.shown = [turned.shown EXCEPT !.selection = 0]]
  OBVIOUS
<1>7. Kept(cache) \in SUBSET CachePage /\ none \subseteq Kept(cache)
  BY DEF Kept
<1>8. /\ Good(w) /\ SameRange(w, c) /\ Kept(w.cache) = Kept(c.cache)
      /\ \A p \in Kept(cache) : w.cache.slot[p].job = 0 /\ w.cache.slot[p].surface = NoSurface
  <2> DEFINE P == Kept(cache)
  <2>1. P \in SUBSET CachePage /\ none \subseteq P /\ P \subseteq Kept(c.cache)
    BY <1>1, <1>7
  <2>2. w = Disposed(c, P)
    OBVIOUS
  <2> HIDE DEF P, none, w
  <2>3. /\ Good(w) /\ SameRange(w, c) /\ Kept(w.cache) = Kept(c.cache)
        /\ \A p \in P : w.cache.slot[p].job = 0 /\ w.cache.slot[p].surface = NoSurface
    BY <1>1, <2>1, <2>2, PixDisposed
  <2> QED
    BY <2>3 DEF P
<1> HIDE DEF w
<1>9. w \in PixWorld /\ GoodBut(w, none)
  BY <1>8 DEF Good, GoodBut
<1>10. \A p \in CachePage : Bare(w, p)
  BY <1>1, <1>8, <1>9, PixFacts DEF Bare, GoodBut
<1>11. w.shown \in PixShown /\ w.shown.version \in [CachePage -> Int]
  BY <1>9, VersionsAre
<1>12. a \in PixShown /\ a.inverted = w.shown.inverted /\ a.version = w.shown.version
  BY <1>11 DEF PixShown
<1> HIDE DEF a
<1>13. b \in PixShown /\ b.inverted = w.shown.inverted /\ b.version = w.shown.version
  BY <1>5, <1>12 DEF PixShown
<1> HIDE DEF b
<1>14. /\ sh \in PixShown /\ sh.inverted = w.shown.inverted /\ sh.version = w.shown.version
       /\ sh.cleared = yes
  BY <1>5, <1>13 DEF PixShown
<1> HIDE DEF sh
<1>15. turned = [w EXCEPT !.shown = sh]
  BY DEF turned
<1>16. /\ turned \in PixWorld /\ turned.shown = sh /\ turned.cache = w.cache
       /\ turned.render = w.render /\ turned.queues = w.queues
  BY <1>9, <1>14, <1>15, WithShown
<1>17. PixPartsSame(turned, w)
  BY <1>14, <1>16 DEF PixPartsSame
<1>18. SeenSame(w, turned, none, none)
  BY <1>10, <1>11, <1>14, <1>16 DEF SeenSame
<1> HIDE DEF none
<1>19. GoodBut(turned, none)
  BY <1>9, <1>16, <1>17, <1>18, GoodSame
<1>20. CacheGood(turned)
  BY <1>5, <1>14, <1>16, <1>19 DEF CacheGood, Good, none
<1>21. /\ sh2 \in PixShown /\ sh2.inverted = sh.inverted /\ sh2.version = sh.version
       /\ sh2.rotation = sh.rotation /\ sh2.cleared = yes
  BY <1>14, PixFacts DEF PixShown
<1> HIDE DEF sh2
<1>22. /\ bare \in PixWorld /\ bare.shown = sh2 /\ bare.cache = turned.cache
       /\ bare.render = turned.render /\ bare.queues = turned.queues
  BY <1>16, <1>21, WithShown
<1> HIDE DEF bare
<1>23. PixPartsSame(bare, turned) /\ bare.shown.rotation = turned.shown.rotation
       /\ bare.shown.version = turned.shown.version
  BY <1>16, <1>21, <1>22 DEF PixPartsSame
<1>24. GoodBut(bare, none)
  BY <1>19, <1>22, <1>23, GoodShown
<1>25. Reselected(bare, listed)
  BY <1>24, SelectionListSet DEF Good, none
<1>26. CacheGood(listed)
  <2>1. Good(listed) /\ listed.shown = bare.shown
    BY <1>25 DEF Reselected, Keeps, SameRange
  <2> QED
    BY <1>5, <1>21, <1>22, <2>1 DEF CacheGood
<1>27. CASE rotation = 0
  <2>1. Becomes(turned)
    BY <1>4, <1>27
  <2> QED
    BY <1>20, <2>1, CacheBecomes
<1>28. CASE rotation # 0
  <2>1. Becomes(SetSelectionList([turned EXCEPT !.shown.selection = 0]))
    BY <1>4, <1>28
  <2>2. [turned EXCEPT !.shown.selection = 0] = bare
    BY <1>6, <1>16 DEF bare, sh2
  <2>3. Becomes(listed)
    BY <2>1, <2>2
  <2> QED
    BY <1>26, <2>3, CacheBecomes
<1> QED
  BY <1>27, <1>28

\* The pictures that there are are turned to the other colours.
LEMMA InvertColorsStep ==
  ASSUME CacheIs, InvertColors
  PROVE  CacheIs'
<1> DEFINE w == Called
           in == ~w.shown.inverted
           ic == ~w.cache.inverted
           Other(s) == [s EXCEPT !.surface = [s.surface EXCEPT !.inverted = ~@]]
           slot == [p \in CachePage |->
                      LET s == w.cache.slot[p] IN
                      IF s.surface # NoSurface
                        THEN [s EXCEPT !.surface = [s.surface EXCEPT !.inverted = ~@]] ELSE s]
           sh == [w.shown EXCEPT !.inverted = in]
           c1 == [w.cache EXCEPT !.inverted = ic]
           c == [c1 EXCEPT !.slot = slot]
           v == [w EXCEPT !.shown = sh, !.cache = c]
           S == [size : Sizes, rotation : CacheRotations, version : 1 .. CacheVersions,
                 inverted : BOOLEAN, doubtful : BOOLEAN]
<1>1. w \in PixWorld /\ Good(w) /\ CacheGood(w)
  BY CalledIs
<1>2. Inverted(w) = v
  BY DEF Inverted
<1>3. Becomes(v)
  BY <1>2 DEF InvertColors
<1> HIDE DEF w
<1>4. /\ w.shown \in PixShown /\ w.cache \in PixCache /\ w.cache.slot \in [CachePage -> PixSlot]
      /\ in \in BOOLEAN /\ ic \in BOOLEAN /\ w.cache.inverted \in BOOLEAN
      /\ w.cache.inverted = w.shown.inverted
  BY <1>1 DEF PixWorld, PixCache, Good, GoodBut
<1>5. ASSUME NEW s \in PixSlot, s.surface # NoSurface, s.surface.inverted = w.cache.inverted
      PROVE  /\ Other(s) \in PixSlot /\ Other(s).job = s.job /\ Other(s).surface # NoSurface
             /\ Other(s).surface.inverted = ic /\ Other(s).surface.size = s.surface.size
             /\ Other(s).surface.rotation = s.surface.rotation
             /\ Other(s).surface.version = s.surface.version
             /\ Other(s).surface.doubtful = s.surface.doubtful
  <2> DEFINE x == s.surface
             other == ~x.inverted
             y == [x EXCEPT !.inverted = other]
             t == [s EXCEPT !.surface = y]
  <2>1. x \in S
    BY <1>5 DEF PixSlot, Surfaces
  <2>2. other \in BOOLEAN /\ other = ic
    BY <1>5
  <2>3. Other(s) = t
    OBVIOUS
  <2> HIDE DEF x, other, ic
  <2>4. /\ y \in S /\ y.inverted = other /\ y.size = x.size /\ y.rotation = x.rotation
        /\ y.version = x.version /\ y.doubtful = x.doubtful
    BY <2>1, <2>2
  <2> HIDE DEF y
  <2>5. y # NoSurface /\ y \in Surfaces
    <3>1. y.size # NoSurface.size
      BY <2>4, PixFacts
    <3> QED
      BY <2>4, <3>1 DEF Surfaces
  <2>6. t \in PixSlot /\ t.job = s.job /\ t.surface = y
    BY <2>5 DEF PixSlot
  <2> QED
    BY <2>2, <2>3, <2>4, <2>5, <2>6 DEF x
<1>6. \A p \in CachePage : slot[p] = IF w.cache.slot[p].surface # NoSurface
                                     THEN Other(w.cache.slot[p]) ELSE w.cache.slot[p]
  OBVIOUS
<1>7. slot = [p \in CachePage |-> slot[p]]
  OBVIOUS
<1> HIDE DEF slot, Other, S
<1>8. ASSUME NEW p \in CachePage
      PROVE  /\ slot[p] \in PixSlot /\ slot[p].job = w.cache.slot[p].job
             /\ slot[p].surface = NoSurface <=> w.cache.slot[p].surface = NoSurface
             /\ w.cache.slot[p].surface = NoSurface => slot[p] = w.cache.slot[p]
             /\ slot[p].surface # NoSurface =>
                  /\ slot[p].surface.inverted = ic
                  /\ slot[p].surface.size = w.cache.slot[p].surface.size
                  /\ slot[p].surface.rotation = w.cache.slot[p].surface.rotation
                  /\ slot[p].surface.version = w.cache.slot[p].surface.version
                  /\ slot[p].surface.doubtful = w.cache.slot[p].surface.doubtful
  <2>1. w.cache.slot[p] \in PixSlot /\ SlotRight(w, p)
    BY <1>1, <1>4 DEF Good, GoodBut
  <2>2. CASE w.cache.slot[p].surface # NoSurface
    <3>1. w.cache.slot[p].surface.inverted = w.cache.inverted
      BY <2>1, <2>2 DEF SlotRight
    <3> DEFINE s == w.cache.slot[p]
    <3>2. slot[p] = Other(s)
      BY <1>6, <2>2
    <3> HIDE DEF ic
    <3> QED
      BY <1>5, <2>1, <2>2, <3>1, <3>2
  <2>3. CASE w.cache.slot[p].surface = NoSurface
    BY <1>6, <2>1, <2>3
  <2> QED
    BY <2>2, <2>3
<1>9. slot \in [CachePage -> PixSlot]
  BY <1>7, <1>8
<1>21. in = ic
  BY <1>4
<1> HIDE DEF in, ic
<1>10. /\ sh \in PixShown /\ sh.inverted = in /\ sh.rotation = w.shown.rotation
       /\ sh.version = w.shown.version /\ sh.cleared = w.shown.cleared
       /\ sh.scale = w.shown.scale /\ sh.resize = w.shown.resize
  BY <1>4 DEF PixShown
<1>11. /\ c1 \in PixCache /\ c1.inverted = ic /\ c1.start = w.cache.start /\ c1.end = w.cache.end
       /\ c1.preload = w.cache.preload
  BY <1>4 DEF PixCache
<1> HIDE DEF c1
<1>12. /\ c \in PixCache /\ c.inverted = ic /\ c.start = w.cache.start /\ c.end = w.cache.end
       /\ c.preload = w.cache.preload /\ c.slot = slot
  BY <1>9, <1>11 DEF PixCache
<1> HIDE DEF c, sh
<1>13. /\ v \in PixWorld /\ v.shown = sh /\ v.cache = c /\ v.render = w.render
       /\ v.queues = w.queues
  BY <1>1, <1>10, <1>12 DEF PixWorld
<1> HIDE DEF v
<1>14. Kept(v.cache) = Kept(w.cache)
  BY <1>12, <1>13, KeptSame
<1>15. ASSUME NEW p \in CachePage PROVE SlotRight(v, p) /\ UpToDate(v, p)
  <2>1. SlotRight(w, p) /\ UpToDate(w, p)
    BY <1>1 DEF Good, GoodBut
  <2>2. v.cache.slot[p] = slot[p] /\ v.cache.inverted = ic /\ v.render = w.render
        /\ v.shown.rotation = w.shown.rotation /\ v.shown.version = w.shown.version
    BY <1>10, <1>12, <1>13
  <2>3. SlotRight(v, p)
    BY <1>8, <2>1, <2>2 DEF SlotRight
  <2>4. UpToDate(v, p)
    BY <1>8, <2>1, <2>2 DEF UpToDate
  <2> QED
    BY <2>3, <2>4
<1>16. \A j \in 1 .. CacheJobs : JobRight(v, j)
  BY <1>1, <1>10, <1>13 DEF JobRight, Good, GoodBut
<1>17. QueuesRight(v)
  BY <1>1, <1>13 DEF QueuesRight, Good, GoodBut
<1>18. \A p \in CachePage : p \notin Kept(v.cache) => v.cache.slot[p] = EmptySlot
  BY <1>1, <1>8, <1>12, <1>13, <1>14, PixFacts DEF Good, GoodBut
<1>19. RangeRight(v.cache) /\ v.cache.inverted = v.shown.inverted
  BY <1>1, <1>10, <1>12, <1>13, <1>21 DEF RangeRight, Good, GoodBut
<1>20. Good(v)
  BY <1>13, <1>15, <1>16, <1>17, <1>18, <1>19 DEF Good, GoodBut
<1>22. Fitting(v) = Fitting(w)
  BY <1>10, <1>13 DEF Fitting
<1>23. ASSUME NEW p \in CachePage
       PROVE  (ServedAt(w, p) => ServedAt(v, p)) /\ (FitsAt(w, p) => FitsAt(v, p))
  <2>1. slot[p].job = w.cache.slot[p].job /\ v.cache.slot[p] = slot[p]
        /\ (slot[p].surface = NoSurface <=> w.cache.slot[p].surface = NoSurface)
    BY <1>8, <1>12, <1>13
  <2>2. slot[p].surface.size = w.cache.slot[p].surface.size
        /\ slot[p].surface.doubtful = w.cache.slot[p].surface.doubtful
    BY <1>8
  <2> QED
    BY <1>13, <1>22, <2>1, <2>2 DEF ServedAt, FitsAt, JobFits
<1>24. CacheGood(v)
  <2>1. Kept(v.cache) \subseteq CachePage
    BY DEF Kept
  <2> QED
    BY <1>1, <1>10, <1>13, <1>14, <1>20, <1>23, <2>1 DEF CacheGood
<1> QED
  BY <1>3, <1>24, CacheBecomes

\* A page with another version gets another job.
LEMMA EditPageStep ==
  ASSUME CacheIs, NEW p \in CachePage, EditPage(p)
  PROVE  CacheIs'
<1> DEFINE c == Called
           ver == [c.shown.version EXCEPT ![p] = c.shown.version[p] + 1]
           sh == [c.shown EXCEPT !.version = ver]
           w == [c EXCEPT !.shown = sh]
           v == AddJob(w, p, "urgent")
           none == {}
           one == {p}
<1>1. c \in PixWorld /\ GoodBut(c, none) /\ CacheGood(c) /\ c.cache = cache /\ Room(c)
      /\ c.shown.version = shown.version
  BY CalledIs DEF Good, EditPage
<1>2. Becomes(v)
  <2>1. [Called EXCEPT !.shown.version[p] = @ + 1] = w
    OBVIOUS
  <2> HIDE DEF w
  <2> QED
    BY <2>1, Zenon DEF EditPage
<1>3. shown.version[p] < CacheVersions /\ p \in Visible(cache)
  BY DEF EditPage
<1> HIDE DEF c
<1>4. c.shown \in PixShown /\ c.shown.version \in [CachePage -> 1 .. CacheVersions]
      /\ CacheVersions \in Nat
  BY <1>1, VersionsAre
<1>5. /\ ver \in [CachePage -> 1 .. CacheVersions] /\ ver[p] >= c.shown.version[p]
      /\ \A r \in CachePage : r # p => ver[r] = c.shown.version[r]
  <2>1. c.shown.version[p] + 1 \in 1 .. CacheVersions
    BY <1>1, <1>3, <1>4
  <2> QED
    BY <1>4, <2>1
<1> HIDE DEF ver
<1>6. /\ sh \in PixShown /\ sh.version = ver /\ sh.rotation = c.shown.rotation
      /\ sh.inverted = c.shown.inverted /\ sh.scale = c.shown.scale
      /\ sh.cleared = c.shown.cleared /\ sh.resize = c.shown.resize
  BY <1>4, <1>5 DEF PixShown
<1> HIDE DEF sh
<1>7. /\ w \in PixWorld /\ w.shown = sh /\ w.cache = c.cache /\ w.render = c.render
      /\ w.queues = c.queues
  BY <1>1, <1>6, WithShown
<1> HIDE DEF w
<1>8. PixPartsSame(w, c)
  BY <1>6, <1>7 DEF PixPartsSame
<1>9. SeenSame(c, w, none, one)
  <2>1. ASSUME NEW r \in CachePage
        PROVE  c.shown.version[r] <= ver[r] /\ (r \notin one => ver[r] = c.shown.version[r])
    <3>1. c.shown.version[r] \in Int
      BY <1>4
    <3> QED
      BY <1>5, <3>1
  <2> QED
    BY <1>6, <1>7, <2>1 DEF SeenSame
<1>10. GoodBut(w, one) /\ Kept(w.cache) = Kept(c.cache)
  <2> HIDE DEF none, one
  <2> QED
    BY <1>1, <1>7, <1>8, <1>9, GoodSame
<1>11. p \in Kept(w.cache)
  BY <1>1, <1>3, <1>10, KeptVisible
<1>12. FreeJobs(w) # {}
  <2>1. Cardinality(FreeJobs(w)) >= CachePages
    BY <1>1, <1>7 DEF Room, FreeJobs
  <2>2. Cardinality(FreeJobs(w)) # 0
    BY <2>1, FreeFinite, CacheAssumption
  <2> QED
    BY <2>2, FS_EmptySet
<1> HIDE DEF v
<1>13. /\ Good(v) /\ SameRange(v, w) /\ Kept(v.cache) = Kept(w.cache)
       /\ v.cache.slot[p].job # 0 /\ JobFits(v, p)
       /\ \A r \in CachePage : r # p => SlotKept(w, v, r)
  <2>1. v = AddJob(w, p, "urgent") /\ one \subseteq {p} /\ "urgent" \in {"urgent", "low"}
    BY DEF v
  <2> HIDE DEF one
  <2> QED
    BY <1>10, <1>11, <1>12, <2>1, PixJobAdded
<1>14. Fitting(w) = Fitting(c)
  BY <1>6, <1>7 DEF Fitting
<1>15. \A r \in CachePage : (ServedAt(c, r) => ServedAt(w, r)) /\ (FitsAt(c, r) => FitsAt(w, r))
  BY <1>7, <1>14 DEF ServedAt, FitsAt, JobFits
<1>16. ServedAt(v, p) /\ FitsAt(v, p)
  BY <1>13 DEF ServedAt, FitsAt
<1>17. \A r \in CachePage : (ServedAt(c, r) => ServedAt(v, r)) /\ (FitsAt(c, r) => FitsAt(v, r))
  BY <1>13, <1>15, <1>16, SlotServes
<1>18. CacheGood(v)
  <2>1. v.shown = sh /\ Kept(v.cache) = Kept(c.cache) /\ Kept(v.cache) \subseteq CachePage
    BY <1>7, <1>10, <1>13 DEF SameRange, Kept
  <2> QED
    BY <1>1, <1>6, <1>13, <1>17, <2>1 DEF CacheGood
<1> QED
  BY <1>2, <1>18, CacheBecomes DEF v

\* Every page has another version: all of the cache is disposed of and made again.
LEMMA ReloadViewStep ==
  ASSUME CacheIs, ReloadView
  PROVE  CacheIs'
<1> DEFINE c == Called
           ver == [p \in CachePage |-> c.shown.version[p] + 1]
           sh == [c.shown EXCEPT !.version = ver]
           w == [c EXCEPT !.shown = sh]
           K == Kept(cache)
           d == Disposed(w, K)
           none == {}
<1>1. c \in PixWorld /\ GoodBut(c, none) /\ c.cache = cache /\ Room(c)
      /\ c.shown.version = shown.version
  BY CalledIs DEF Good, ReloadView
<1>2. Becomes(Updated(d, cache.start, cache.end))
  <2>1. [Called EXCEPT !.shown.version = [p \in CachePage |-> @[p] + 1]] = w
    OBVIOUS
  <2> HIDE DEF w
  <2> QED
    BY <2>1, Zenon DEF ReloadView
<1>3. cache.start >= 0 /\ \A p \in CachePage : shown.version[p] < CacheVersions
  BY DEF ReloadView
<1> HIDE DEF c
<1>4. c.shown \in PixShown /\ c.shown.version \in [CachePage -> 1 .. CacheVersions]
      /\ CacheVersions \in Nat
  BY <1>1, VersionsAre
<1>5. /\ ver \in [CachePage -> 1 .. CacheVersions]
      /\ \A p \in CachePage : c.shown.version[p] <= ver[p]
  BY <1>1, <1>3, <1>4
<1> HIDE DEF ver
<1>6. /\ sh \in PixShown /\ sh.version = ver /\ sh.rotation = c.shown.rotation
      /\ sh.inverted = c.shown.inverted
  BY <1>4, <1>5 DEF PixShown
<1> HIDE DEF sh
<1>7. /\ w \in PixWorld /\ w.shown = sh /\ w.cache = c.cache /\ w.render = c.render
      /\ w.queues = c.queues
  BY <1>1, <1>6, WithShown
<1> HIDE DEF w
<1>8. PixPartsSame(w, c)
  BY <1>6, <1>7 DEF PixPartsSame
<1>9. SeenSame(c, w, none, K)
  <2>1. \A p \in CachePage : p \notin K => Bare(c, p)
    BY <1>1, PixFacts DEF GoodBut, Bare
  <2> QED
    BY <1>5, <1>6, <1>7, <2>1 DEF SeenSame
<1>10. GoodBut(w, K) /\ Kept(w.cache) = Kept(c.cache)
  <2> HIDE DEF none, K
  <2> QED
    BY <1>1, <1>7, <1>8, <1>9, GoodSame
<1>11. K \in SUBSET CachePage /\ K \subseteq K /\ K \subseteq Kept(w.cache)
  BY <1>1, <1>10 DEF Kept
<1> HIDE DEF K, d
<1>12. Good(d) /\ SameRange(d, w) /\ FreeStays(w, d)
  BY <1>10, <1>11, PixDisposed DEF d
<1>13. Room(d)
  <2>1. Cardinality(FreeJobs(w)) >= CachePages
    BY <1>1, <1>7 DEF Room, FreeJobs
  <2>2. Cardinality(FreeJobs(w)) <= Cardinality(FreeJobs(d))
    BY <1>12, FreeGrow
  <2>3. Cardinality(FreeJobs(d)) >= CachePages
    BY <2>1, <2>2, FreeFinite, PixFacts
  <2> QED
    BY <2>3 DEF Room, FreeJobs
<1>14. cache.start \in CachePage /\ cache.end \in CachePage /\ cache.start <= cache.end
  BY <1>1, <1>3, KeptVisible
<1>15. CacheGood(Updated(d, cache.start, cache.end))
  BY <1>12, <1>13, <1>14, CacheUpdated
<1> QED
  BY <1>2, <1>15, CacheBecomes

\* Nothing but the selections has changed.
LEMMA KeepsGood ==
  ASSUME NEW w, NEW v, CacheGood(w), Keeps(w, v)
  PROVE  CacheGood(v)
<1>1. v.shown = w.shown /\ Kept(v.cache) = Kept(w.cache) /\ Kept(v.cache) \subseteq CachePage
  BY DEF Keeps, SameRange, Kept
<1> QED
  BY <1>1 DEF CacheGood, Keeps, Serves

LEMMA SelectStep ==
  ASSUME CacheIs, NEW selection \in 0 .. CacheSelections, Select(selection)
  PROVE  CacheIs'
<1> DEFINE c == Called
           sh == [c.shown EXCEPT !.selection = selection]
           a == [c EXCEPT !.shown = sh]
           w == SetSelectionList(a)
           v == GetSelectionSurface(w, SelectedPage)
           none == {}
<1>1. c \in PixWorld /\ GoodBut(c, none) /\ CacheGood(c) /\ c.cache = cache
  BY CalledIs DEF Good
<1>2. Becomes(IF selection = 0 THEN w ELSE v) /\ SelectedPage \in Visible(cache)
  <2>1. [Called EXCEPT !.shown.selection = selection] = a
    OBVIOUS
  <2> HIDE DEF a
  <2> QED
    BY <2>1, Zenon DEF Select
<1> HIDE DEF c
<1>3. c.shown \in PixShown
  BY <1>1 DEF PixWorld
<1>4. /\ sh \in PixShown /\ sh.version = c.shown.version /\ sh.rotation = c.shown.rotation
      /\ sh.inverted = c.shown.inverted /\ sh.scale = c.shown.scale
      /\ sh.cleared = c.shown.cleared /\ sh.resize = c.shown.resize
  BY <1>3 DEF PixShown
<1> HIDE DEF sh
<1>5. /\ a \in PixWorld /\ a.shown = sh /\ a.cache = c.cache /\ a.render = c.render
      /\ a.queues = c.queues
  BY <1>1, <1>4, WithShown
<1> HIDE DEF a
<1>6. PixPartsSame(a, c) /\ a.shown.rotation = c.shown.rotation /\ a.shown.version = c.shown.version
  BY <1>4, <1>5 DEF PixPartsSame
<1>7. GoodBut(a, none) /\ Kept(a.cache) = Kept(c.cache)
  <2> HIDE DEF none
  <2> QED
    BY <1>1, <1>5, <1>6, GoodShown
<1>8. Good(a)
  BY <1>7 DEF Good
<1>9. CacheGood(a)
  <2>1. Fitting(a) = Fitting(c)
    BY <1>4, <1>5 DEF Fitting
  <2> QED
    BY <1>1, <1>4, <1>5, <1>7, <1>8, <2>1 DEF CacheGood, ServedAt, FitsAt, JobFits
<1>10. Keeps(a, w)
  BY <1>8, SelectionListSet DEF Reselected
<1> HIDE DEF w
<1>11. CacheGood(w)
  BY <1>9, <1>10, KeepsGood
<1>12. Good(w) /\ Kept(w.cache) = Kept(c.cache)
  BY <1>7, <1>10 DEF Keeps
<1>13. SelectedPage \in CachePage /\ SelectedPage \in Kept(w.cache)
  <2>1. SelectedPage \in Kept(c.cache)
    BY <1>1, <1>2, KeptVisible
  <2> QED
    BY <1>12, <2>1 DEF Kept
<1>14. Keeps(w, v)
  BY <1>12, <1>13, SelectionSurfaceGot DEF Reselected
<1> HIDE DEF v
<1>15. CacheGood(v)
  BY <1>11, <1>14, KeepsGood
<1> QED
  BY <1>2, <1>11, <1>15, CacheBecomes

LEMMA SetCacheSizeStep ==
  ASSUME CacheIs, NEW max \in CacheMaxSizes, SetCacheSize(max)
  PROVE  CacheIs'
<1> DEFINE c == Called
           K == Kept(cache)
           d == Disposed(c, K)
           yes == TRUE
           sh == [d.shown EXCEPT !.cleared = yes]
           e == [d EXCEPT !.shown = sh]
           w == IF max < cache.max THEN e ELSE c
           k == [w.cache EXCEPT !.max = max]
           v == [w EXCEPT !.cache = k]
           none == {}
<1>1. c \in PixWorld /\ GoodBut(c, none) /\ CacheGood(c) /\ c.cache = cache
  BY CalledIs DEF Good
<1>2. Becomes(v)
  <2>1. [Disposed(Called, Kept(cache)) EXCEPT !.shown.cleared = TRUE] = e
    OBVIOUS
  <2> HIDE DEF e
  <2> QED
    BY <2>1 DEF SetCacheSize
<1>3. yes \in BOOLEAN /\ yes
  OBVIOUS
<1> HIDE DEF yes, c
<1>4. CacheGood(e)
  <2>1. K \in SUBSET CachePage /\ none \subseteq K /\ K \subseteq Kept(c.cache)
    BY <1>1 DEF Kept
  <2> HIDE DEF K, none
  <2>2. Good(d) /\ SameRange(d, c)
    BY <1>1, <2>1, PixDisposed
  <2> HIDE DEF d
  <2>3. d \in PixWorld /\ GoodBut(d, none) /\ d.shown \in PixShown
    BY <2>2 DEF Good, GoodBut, PixWorld, none
  <2>4. /\ sh \in PixShown /\ sh.version = d.shown.version /\ sh.rotation = d.shown.rotation
        /\ sh.inverted = d.shown.inverted /\ sh.cleared = yes
    BY <1>3, <2>3 DEF PixShown
  <2> HIDE DEF sh
  <2>5. /\ e \in PixWorld /\ e.shown = sh /\ e.cache = d.cache /\ e.render = d.render
        /\ e.queues = d.queues
    BY <2>3, <2>4, WithShown
  <2> HIDE DEF e
  <2>6. PixPartsSame(e, d) /\ e.shown.rotation = d.shown.rotation /\ e.shown.version = d.shown.version
    BY <2>4, <2>5 DEF PixPartsSame
  <2>7. GoodBut(e, none)
    BY <2>3, <2>5, <2>6, GoodShown
  <2> QED
    BY <1>3, <2>4, <2>5, <2>7 DEF CacheGood, Good, none
<1> HIDE DEF e
<1>5. CacheGood(w)
  BY <1>1, <1>4
<1> HIDE DEF w
<1>6. w \in PixWorld /\ w.cache \in PixCache /\ GoodBut(w, none)
  BY <1>5 DEF CacheGood, Good, GoodBut, PixWorld
<1>7. /\ k \in PixCache /\ k.start = w.cache.start /\ k.end = w.cache.end
      /\ k.preload = w.cache.preload /\ k.inverted = w.cache.inverted /\ k.slot = w.cache.slot
  BY <1>6 DEF PixCache
<1> HIDE DEF k
<1>8. v \in PixWorld /\ v.cache = k /\ v.shown = w.shown /\ v.render = w.render
      /\ v.queues = w.queues
  BY <1>6, <1>7 DEF PixWorld
<1> HIDE DEF v
<1>9. PixPartsSame(v, w)
  BY <1>7, <1>8 DEF PixPartsSame
<1>10. GoodBut(v, none) /\ Kept(v.cache) = Kept(w.cache)
  <2> HIDE DEF none
  <2> QED
    BY <1>6, <1>8, <1>9, GoodShown
<1>11. CacheGood(v)
  <2>1. Fitting(v) = Fitting(w)
    BY <1>8 DEF Fitting
  <2> QED
    BY <1>5, <1>7, <1>8, <1>10, <2>1 DEF CacheGood, Good, ServedAt, FitsAt, JobFits
<1> QED
  BY <1>2, <1>11, CacheBecomes

LEMMA StyleChangedStep ==
  ASSUME CacheIs, StyleChanged
  PROVE  CacheIs'
<1> DEFINE w == Called
           slot == [p \in CachePage |->
       LET s == cache.slot[p] IN
       IF s.selection THEN [s EXCEPT !.selection = FALSE, !.points = -1] ELSE s]
           v == [w EXCEPT !.cache.slot = slot]
<1>1. w \in PixWorld /\ Good(w) /\ CacheGood(w) /\ w.cache = cache
  BY CalledIs
<1>2. Becomes(v)
  BY DEF StyleChanged
<1> HIDE DEF w
<1>3. w.cache.slot \in [CachePage -> PixSlot] /\ w.shown.scale \in Scales /\ 0 \in 0 .. CacheSelections
  BY <1>1, PixFacts DEF PixWorld, PixCache, PixShown
<1>4. ASSUME NEW p \in CachePage
      PROVE  /\ slot[p] \in PixSlot /\ slot[p].job = w.cache.slot[p].job
             /\ slot[p].surface = w.cache.slot[p].surface
             /\ p \notin Kept(w.cache) => slot[p] = w.cache.slot[p]
  <2>1. w.cache.slot[p] \in PixSlot /\ cache.slot[p] = w.cache.slot[p]
    BY <1>1, <1>3
  <2>2. p \notin Kept(w.cache) => ~w.cache.slot[p].selection
    BY <1>1 DEF Good, GoodBut, EmptySlot
  <2> DEFINE s == w.cache.slot[p]
             t == [s EXCEPT !.selection = FALSE, !.points = -1]
  <2>3. slot[p] = IF s.selection THEN t ELSE s
    BY <2>1
  <2>4. t \in PixSlot /\ t.job = s.job /\ t.surface = s.surface
    BY <1>3, <2>1, ReselectedSlots
  <2> HIDE DEF slot, t
  <2> QED
    BY <2>1, <2>2, <2>3, <2>4
<1>5. slot = [p \in CachePage |-> slot[p]]
  OBVIOUS
<1> HIDE DEF slot
<1>6. slot \in [CachePage -> PixSlot]
  BY <1>4, <1>5
<1> HIDE DEF v
<1>7. Reselected(w, v)
  BY <1>1, <1>4, <1>6, PixReselected DEF v
<1>8. CacheGood(v)
  BY <1>1, <1>7, KeepsGood DEF Reselected
<1> QED
  BY <1>2, <1>8, CacheBecomes

LEMMA DrawnPage ==
  ASSUME NEW w, CacheGood(w), NEW p \in CachePage, p \in Kept(w.cache)
  PROVE  CacheGood(DrawPage(w, p)) /\ Keeps(w, DrawPage(w, p))
<1> DEFINE v == GetSurface(w, p)
           u == GetSelectionSurface(v, p)
           more == v.cache.slot[p].surface # NoSurface /\ p = SelectedPage /\ v.shown.selection # 0
           d == DrawPage(w, p)
<1>1. d = IF more THEN u ELSE v
  BY DEF DrawPage
<1>2. Keeps(w, v)
  BY SurfaceGot DEF CacheGood
<1> HIDE DEF v, d, more
<1>3. Good(v) /\ p \in Kept(v.cache) /\ CacheGood(v)
  BY <1>2, KeepsGood DEF Keeps
<1>4. Keeps(v, u)
  BY <1>3, SelectionSurfaceGot DEF Reselected
<1> HIDE DEF u
<1>5. CacheGood(u)
  BY <1>3, <1>4, KeepsGood
<1>6. Keeps(w, u)
  BY <1>2, <1>4 DEF Keeps, SameRange, Serves
<1> QED
  BY <1>1, <1>2, <1>3, <1>5, <1>6 DEF d

LEMMA DrawStep ==
  ASSUME CacheIs, Draw
  PROVE  CacheIs'
<1> DEFINE w == World
           first == DrawPage(w, cache.start)
           last == DrawPage(first, cache.end)
           v == IF cache.end = cache.start THEN first ELSE last
           none == {}
<1>1. CacheGood(w) /\ GoodBut(w, none) /\ w.cache = cache /\ w.cache.start >= 0
  BY DEF CacheIs, CacheGood, Good, World, Draw
<1>2. Becomes(v)
  BY DEF Draw
<1> HIDE DEF w, none
<1>3. /\ cache.start \in CachePage /\ cache.end \in CachePage
      /\ cache.start \in Kept(w.cache) /\ cache.end \in Kept(w.cache)
  BY <1>1, KeptVisible
<1>4. CacheGood(first) /\ Keeps(w, first)
  BY <1>1, <1>3, DrawnPage
<1> HIDE DEF first
<1>5. cache.end \in Kept(first.cache)
  BY <1>3, <1>4 DEF Keeps
<1>6. CacheGood(last)
  BY <1>3, <1>4, <1>5, DrawnPage
<1>7. CacheGood(v)
  BY <1>4, <1>6
<1> QED
  BY <1>2, <1>7, CacheBecomes

LEMMA SeqHead ==
  ASSUME NEW S, NEW s \in Seq(S), s # <<>>
  PROVE  Head(s) = s[1] /\ s[1] \in S /\ 1 \in DOMAIN s
<1>1. Head(s) = s[1]
  OBVIOUS
<1>2. Len(s) \in Nat /\ Len(s) # 0 /\ DOMAIN s = 1 .. Len(s)
  OBVIOUS
<1>3. 1 \in DOMAIN s
  BY <1>2
<1> QED
  BY <1>1, <1>3, SeqEntry

\* The worker renders what is queued first, of the page as it is.
LEMMA RenderStep ==
  ASSUME CacheIs, Render
  PROVE  CacheIs'
<1> DEFINE w == World
           q == IF queues["urgent"] # <<>> THEN "urgent" ELSE "low"
           j == Head(queues[q])
           job == [render[j] EXCEPT !.version = shown.version[render[j].page]]
           v == World'
           none == {}
<1>1. /\ w \in PixWorld /\ GoodBut(w, none) /\ CacheGood(w) /\ w.cache = cache
      /\ w.render = render /\ w.queues = queues /\ w.shown = shown
  BY DEF CacheIs, CacheGood, Good, GoodBut, World
<1>2. /\ queues[q] # <<>> /\ render' = [render EXCEPT ![j] = job]
      /\ queues' = [queues EXCEPT ![q] = Tail(@), !["idle"] = Append(@, j)]
      /\ cache' = cache /\ shown' = shown
  BY DEF Render
<1>3. v.cache = cache /\ v.render = render' /\ v.queues = queues' /\ v.shown = shown
      /\ v = [cache |-> v.cache, render |-> v.render, queues |-> v.queues, shown |-> v.shown]
  BY <1>2 DEF World
<1>4. q \in {"urgent", "low"}
  OBVIOUS
<1> HIDE DEF w, v, q, none
<1>5. /\ cache \in PixCache /\ render \in [1 .. CacheJobs -> PixRender] /\ shown \in PixShown
      /\ queues \in [QueueNames -> Seq(1 .. CacheJobs)] /\ CacheJobs \in Nat
  BY <1>1, PixFacts DEF PixWorld, PixRenders, PixQueues
<1>6. queues[q] \in Seq(1 .. CacheJobs) /\ queues["idle"] \in Seq(1 .. CacheJobs)
  BY <1>4, <1>5 DEF QueueNames
<1>7. j \in 1 .. CacheJobs /\ j = queues[q][1] /\ 1 \in DOMAIN queues[q]
  <2> DEFINE s == queues[q]
  <2>1. s \in Seq(1 .. CacheJobs) /\ s # <<>>
    BY <1>2, <1>6
  <2> HIDE DEF s
  <2>2. Len(s) \in Nat /\ Len(s) # 0 /\ DOMAIN s = 1 .. Len(s)
    BY <2>1
  <2>3. 1 \in DOMAIN s
    BY <2>2
  <2>4. Head(s) = s[1] /\ s[1] \in 1 .. CacheJobs
    BY <2>1, SeqHead
  <2> QED
    BY <2>3, <2>4 DEF s
<1>8. render[j].prio # "none"
  BY <1>1, <1>4, <1>7 DEF GoodBut, QueuesRight, QueueNames
<1> DEFINE n == shown.version[render[j].page]
<1>9. /\ shown.version \in [CachePage -> 1 .. CacheVersions] /\ render[j] \in PixRender
      /\ CacheVersions \in Nat
  BY <1>1, <1>5, <1>7, VersionsAre
<1>10. n \in 1 .. CacheVersions /\ n \in 0 .. CacheVersions
  <2>1. render[j].page \in CachePage
    BY <1>9 DEF PixRender
  <2> QED
    BY <1>9, <2>1
<1>11. /\ job \in PixRender /\ job.version = n /\ job.page = render[j].page
       /\ job.size = render[j].size /\ job.rotation = render[j].rotation
       /\ job.prio = render[j].prio /\ job.scale = render[j].scale
  BY <1>9, <1>10 DEF PixRender
<1> DEFINE rest == Tail(queues[q])
           idle == Append(queues["idle"], j)
<1>12. rest \in Seq(1 .. CacheJobs)
       /\ \A i \in DOMAIN rest : \E k \in DOMAIN queues[q] : rest[i] = queues[q][k]
  <2> DEFINE s == queues[q]
             t == Tail(s)
  <2>1. s \in Seq(1 .. CacheJobs) /\ s # <<>>
    BY <1>2, <1>6
  <2> HIDE DEF s
  <2>2. /\ t \in Seq(1 .. CacheJobs) /\ Len(s) \in Nat /\ Len(s) # 0 /\ Len(t) = Len(s) - 1
        /\ DOMAIN s = 1 .. Len(s) /\ DOMAIN t = 1 .. Len(t)
        /\ \A i \in 1 .. Len(s) - 1 : t[i] = s[i + 1]
    BY <2>1
  <2> HIDE DEF t
  <2>3. \A i \in DOMAIN t : i + 1 \in DOMAIN s /\ t[i] = s[i + 1]
    BY <2>2
  <2> QED
    BY <2>2, <2>3 DEF s, t
<1>13. /\ idle \in Seq(1 .. CacheJobs)
       /\ \A i \in DOMAIN idle :
            idle[i] = j \/ \E k \in DOMAIN queues["idle"] : idle[i] = queues["idle"][k]
  BY <1>6, <1>7, SeqAppended
<1>14. queues' = [queues EXCEPT ![q] = rest, !["idle"] = idle]
  <2>1. q # "idle"
    BY <1>4
  <2> QED
    BY <1>2, <2>1
<1> HIDE DEF rest, idle, job, j
<1>15. /\ queues' \in [QueueNames -> Seq(1 .. CacheJobs)]
       /\ queues'[q] = rest /\ queues'["idle"] = idle
       /\ \A x \in QueueNames : x # q /\ x # "idle" => queues'[x] = queues[x]
  BY <1>4, <1>5, <1>12, <1>13, <1>14 DEF QueueNames
<1>16. /\ render' \in [1 .. CacheJobs -> PixRender] /\ render'[j] = job
       /\ \A i \in 1 .. CacheJobs : i # j => render'[i] = render[i]
  BY <1>2, <1>5, <1>7, <1>11
<1>17. v \in PixWorld
  BY <1>3, <1>5, <1>15, <1>16 DEF PixWorld, PixRenders, PixQueues
<1>18. \A i \in 1 .. CacheJobs :
         /\ render'[i].page = render[i].page /\ render'[i].size = render[i].size
         /\ render'[i].rotation = render[i].rotation /\ render'[i].prio = render[i].prio
         /\ render'[i].scale = render[i].scale
         /\ render'[i].version = IF i = j THEN n ELSE render[i].version
  BY <1>11, <1>16
<1> HIDE DEF n
<1>19. \A p \in CachePage : cache.slot[p] \in PixSlot /\ cache.slot[p].job \in 0 .. CacheJobs
  <2>1. \A p \in CachePage : cache.slot[p] \in PixSlot
    BY <1>5 DEF PixCache
  <2> QED
    BY <2>1 DEF PixSlot
<1>20. ASSUME NEW p \in CachePage
       PROVE  SlotRight(v, p) /\ UpToDate(v, p)
  <2>1. SlotRight(w, p) /\ UpToDate(w, p)
    BY <1>1 DEF GoodBut, none
  <2> DEFINE i == cache.slot[p].job
  <2>2. i \in 0 .. CacheJobs /\ i # 0 => i \in 1 .. CacheJobs
    BY <1>5
  <2>3. i \in 0 .. CacheJobs
    BY <1>19
  <2>4. i # 0 => render[i].page = p
    BY <1>1, <2>1 DEF SlotRight
  <2>5. i # 0 => /\ render'[i].page = render[i].page /\ render'[i].rotation = render[i].rotation
                 /\ render'[i].prio = render[i].prio
                 /\ render'[i].version = IF i = j THEN n ELSE render[i].version
    BY <1>18, <2>2, <2>3
  <2> QED
    BY <1>1, <1>3, <2>1, <2>4, <2>5 DEF SlotRight, UpToDate, n
<1>21. ASSUME NEW i \in 1 .. CacheJobs
       PROVE  JobRight(v, i)
  <2>1. JobRight(w, i)
    BY <1>1 DEF GoodBut
  <2>2. i = j => n <= shown.version[render[i].page]
    BY <1>10 DEF n
  <2> QED
    BY <1>1, <1>3, <1>18, <2>1, <2>2 DEF JobRight
<1>22. QueuesRight(v)
  <2>1. \A x \in QueueNames : \A i \in DOMAIN queues[x] :
          /\ queues[x][i] \in 1 .. CacheJobs /\ render[queues[x][i]].prio # "none"
          /\ x = "idle" => render[queues[x][i]].version # 0
    <3>1. QueuesRight(w)
      BY <1>1 DEF GoodBut
    <3>2. \A x \in QueueNames : queues[x] \in Seq(1 .. CacheJobs)
      BY <1>5
    <3>3. \A x \in QueueNames : \A i \in DOMAIN queues[x] : queues[x][i] \in 1 .. CacheJobs
      BY <3>2, SeqEntry
    <3> QED
      BY <1>1, <3>1, <3>3 DEF QueuesRight
  <2>2. n # 0
    BY <1>10
  <2>3. ASSUME NEW x \in QueueNames, NEW i \in DOMAIN queues'[x]
        PROVE  render'[queues'[x][i]].prio # "none"
               /\ (x = "idle" => render'[queues'[x][i]].version # 0)
    <3> DEFINE y == queues'[x][i]
    <3>1. y \in 1 .. CacheJobs /\ (render[y].prio # "none")
          /\ (x = "idle" => (y = j \/ render[y].version # 0))
      <4>1. CASE x = "idle"
        <5>1. i \in DOMAIN idle /\ y = idle[i]
          BY <1>15, <4>1
        <5> HIDE DEF y
        <5>2. y = j \/ \E k \in DOMAIN queues["idle"] : y = queues["idle"][k]
          BY <1>13, <5>1
        <5> QED
          BY <1>7, <1>8, <2>1, <4>1, <5>2
      <4>2. CASE x = q /\ x # "idle"
        <5>1. i \in DOMAIN rest /\ y = rest[i]
          BY <1>15, <4>2
        <5> HIDE DEF y
        <5>2. \E k \in DOMAIN queues[q] : y = queues[q][k]
          BY <1>12, <5>1
        <5> QED
          BY <2>1, <4>2, <5>2
      <4>3. CASE x # q /\ x # "idle"
        <5>1. i \in DOMAIN queues[x] /\ y = queues[x][i]
          BY <1>15, <4>3
        <5> HIDE DEF y
        <5> QED
          BY <2>1, <4>3, <5>1
      <4> QED
        BY <4>1, <4>2, <4>3
    <3> HIDE DEF y
    <3>2. render'[y].prio # "none" /\ (x = "idle" => render'[y].version # 0)
      BY <1>18, <2>2, <3>1
    <3> QED
      BY <3>2 DEF y
  <2> QED
    BY <1>3, <2>3 DEF QueuesRight
<1>23. Good(v)
  <2>1. RangeRight(v.cache) /\ v.cache.inverted = v.shown.inverted
    BY <1>1, <1>3 DEF GoodBut
  <2>2. \A p \in CachePage : p \notin Kept(v.cache) => v.cache.slot[p] = EmptySlot
    BY <1>1, <1>3 DEF GoodBut
  <2> QED
    BY <1>17, <1>20, <1>21, <1>22, <2>1, <2>2 DEF Good, GoodBut
<1>24. ASSUME NEW p \in CachePage
       PROVE  (ServedAt(w, p) => ServedAt(v, p)) /\ (FitsAt(w, p) => FitsAt(v, p))
  <2>1. Fitting(v) = Fitting(w)
    BY <1>1, <1>3 DEF Fitting
  <2>2. cache.slot[p].job # 0 => v.render[cache.slot[p].job].size = w.render[cache.slot[p].job].size
    BY <1>1, <1>3, <1>5, <1>18, <1>19
  <2> QED
    BY <1>1, <1>3, <2>1, <2>2 DEF ServedAt, FitsAt, JobFits
<1>25. CacheGood(v)
  <2>1. Kept(v.cache) \subseteq CachePage /\ v.cache = w.cache /\ v.shown = w.shown
    BY <1>1, <1>3 DEF Kept
  <2> QED
    BY <1>1, <1>23, <1>24, <2>1 DEF CacheGood
<1> QED
  BY <1>25 DEF CacheIs, v

\* What has rendered reaches the slot of its page, be it the slot's job or not.
LEMMA RenderFinishedStep ==
  ASSUME CacheIs, RenderFinished
  PROVE  CacheIs'
<1> DEFINE w == World
           j == Head(queues["idle"])
           p == render[j].page
           v == CopyJobToJobInfo(w, j, p)
           one == {j}
           u == Cancelled(w, one)
           none == {}
<1>1. /\ w \in PixWorld /\ GoodBut(w, none) /\ Good(w) /\ CacheGood(w) /\ w.cache = cache
      /\ w.render = render /\ w.queues = queues /\ w.shown = shown
  BY DEF CacheIs, CacheGood, Good, GoodBut, World
<1>2. queues["idle"] # <<>> /\ Becomes(IF p \in Kept(cache) THEN v ELSE u)
  BY Zenon DEF RenderFinished
<1> HIDE DEF w, none
<1>3. /\ cache \in PixCache /\ render \in [1 .. CacheJobs -> PixRender] /\ CacheJobs \in Nat
      /\ queues["idle"] \in Seq(1 .. CacheJobs)
  BY <1>1, PixFacts DEF PixWorld, PixRenders, PixQueues, QueueNames
<1>4. j \in 1 .. CacheJobs /\ j = queues["idle"][1] /\ 1 \in DOMAIN queues["idle"]
  BY <1>2, <1>3
<1> HIDE DEF j
<1>5. render[j].prio # "none" /\ render[j].version # 0
  BY <1>1, <1>4 DEF GoodBut, QueuesRight, QueueNames
<1>6. p \in CachePage /\ w.render[j].page = p /\ p = render[j].page
  <2>1. render[j] \in PixRender
    BY <1>3, <1>4
  <2> QED
    BY <1>1, <2>1 DEF PixRender
<1> HIDE DEF p, v, u
<1>7. CASE p \in Kept(cache)
  <2>1. /\ Good(v) /\ SameRange(v, w) /\ Kept(v.cache) = Kept(w.cache)
        /\ v.cache.slot[p].job = 0 /\ v.cache.slot[p].surface # NoSurface
        /\ v.cache.slot[p].surface.size = w.render[j].size
        /\ w.cache.slot[p].job # j => v.cache.slot[p].surface.doubtful
        /\ \A r \in CachePage : r # p => SlotKept(w, v, r)
    <3>1. /\ w.render[j].prio # "none" /\ w.render[j].version # 0 /\ p \in Kept(w.cache)
          /\ v = CopyJobToJobInfo(w, j, p)
      BY <1>1, <1>5, <1>7 DEF v
    <3>2. Good(w) /\ j \in 1 .. CacheJobs /\ p \in CachePage /\ w.render[j].page = p
      BY <1>1, <1>4, <1>6
    <3> QED
      BY <3>1, <3>2, PixCopied
  <2>2. ServedAt(v, p)
    BY <2>1 DEF ServedAt
  <2>3. FitsAt(w, p) => FitsAt(v, p)
    <3>1. Fitting(v) = Fitting(w)
      BY <2>1 DEF SameRange, Fitting
    <3>2. j # 0
      BY <1>3, <1>4
    <3>3. CASE w.cache.slot[p].job = j
      BY <2>1, <3>1, <3>2, <3>3 DEF FitsAt, JobFits
    <3>4. CASE w.cache.slot[p].job # j
      BY <2>1, <3>4 DEF FitsAt, JobFits
    <3> QED
      BY <3>3, <3>4
  <2>4. \A r \in CachePage : (ServedAt(w, r) => ServedAt(v, r)) /\ (FitsAt(w, r) => FitsAt(v, r))
    BY <2>1, <2>2, <2>3, SlotServes
  <2>5. Keeps(w, v)
    BY <2>1, <2>4 DEF Keeps, Serves
  <2>6. CacheGood(v)
    BY <1>1, <2>5, KeepsGood
  <2> QED
    BY <1>2, <1>7, <2>6, CacheBecomes
<1>8. CASE p \notin Kept(cache)
  <2> DEFINE slot == w.cache.slot
  <2>1. CancelledIs(w, one, u)
    BY <1>1, PixCancelled DEF u
  <2>2. u \in PixWorld /\ u.cache = w.cache /\ u.shown = w.shown
    BY <2>1 DEF CancelledIs
  <2>3. slot \in [CachePage -> PixSlot] /\ u.cache \in PixCache
    BY <1>1, <2>2 DEF PixWorld, PixCache
  <2>4. u = [u EXCEPT !.cache.slot = slot]
    <3>1. slot = u.cache.slot
      BY <2>2
    <3> HIDE DEF slot
    <3>2. u.cache = [u.cache EXCEPT !.slot = slot]
      BY <2>3, <3>1 DEF PixCache
    <3> QED
      BY <2>2, <3>2 DEF PixWorld
  <2>5. SlotsSet(w, u, slot, u)
    BY <1>1, <2>3, <2>4 DEF SlotsSet, GoodBut
  <2>6. ASSUME NEW r \in CachePage
        PROVE  slot[r].job \notin one \/ slot[r].job = 0
    <3>1. CASE r \in Kept(w.cache)
      <4>1. SlotRight(w, r) /\ r # p
        BY <1>1, <1>8, <3>1 DEF GoodBut
      <4> QED
        BY <1>1, <1>6, <4>1 DEF SlotRight
    <3>2. CASE r \notin Kept(w.cache)
      BY <1>1, <3>2, PixFacts DEF GoodBut
    <3> QED
      BY <3>1, <3>2
  <2>7. StayOrEmptied(w, slot, one, none, none)
    BY <2>6 DEF StayOrEmptied, SlotStays
  <2> HIDE DEF slot, one
  <2>8. GoodBut(u, none) /\ SlotsKept(w, one, slot, u)
    BY <1>1, <2>1, <2>5, <2>7, PixKeeps
  <2>9. \A r \in CachePage : SlotKept(w, u, r)
    <3>1. \A r \in CachePage : slot[r].job \in 0 .. CacheJobs
      <4>1. \A r \in CachePage : slot[r] \in PixSlot
        BY <2>3
      <4> QED
        BY <4>1 DEF PixSlot
    <3> QED
      BY <1>3, <2>6, <2>8, <3>1 DEF SlotsKept, RendersLeft, SlotKept, slot
  <2>10. SameRange(u, w) /\ Kept(u.cache) = Kept(w.cache) /\ Good(u)
    BY <2>8 DEF SlotsKept, Good, none
  <2>11. Keeps(w, u)
    BY <2>9, <2>10, SlotServes DEF Keeps, Serves
  <2>12. CacheGood(u)
    BY <1>1, <2>11, KeepsGood
  <2> QED
    BY <1>2, <1>8, <2>12, CacheBecomes
<1> QED
  BY <1>7, <1>8

-----------------------------------------------------------------------------
(* All the steps.                                                          *)

LEMMA CacheBegins ==
  ASSUME CacheInit
  PROVE  CacheIs
<1> DEFINE w == World
           biggest == CHOOSE m \in CacheMaxSizes : \A n \in CacheMaxSizes : n <= m
           slot == [p \in CachePage |-> EmptySlot]
           ver == [p \in CachePage |-> 1]
<1>1. /\ cache = [start |-> -1, end |-> -1, preload |-> 0, dir |-> "down",
                  inverted |-> FALSE, max |-> biggest, slot |-> slot]
      /\ render = [j \in 1 .. CacheJobs |-> NoRender]
      /\ queues = [q \in {"urgent", "low", "idle"} |-> <<>>]
      /\ shown = [scale |-> 1, rotation |-> 0, inverted |-> FALSE, selection |-> 0,
                  resize |-> FALSE, version |-> ver, cleared |-> FALSE, calls |-> 0]
  BY DEF CacheInit
<1>2. biggest \in CacheMaxSizes
  BY CacheAssumption
<1> HIDE DEF biggest
<1>3. slot \in [CachePage -> PixSlot] /\ \A p \in CachePage : slot[p] = EmptySlot
  BY PixFacts
<1> HIDE DEF slot
<1>4. CachePages \in Nat \ {0} /\ CacheVersions \in Nat \ {0} /\ 0 \in CacheRotations
      /\ CacheSelections \in Nat
  BY CacheAssumption
<1>5. ver \in [CachePage -> 1 .. CacheVersions]
  BY <1>4
<1> HIDE DEF ver
<1>6. cache \in PixCache /\ RangeRight(cache) /\ cache.slot = slot /\ ~cache.inverted
  <2>1. -1 \in -1 .. (CachePages - 1) /\ 0 \in 0 .. MaxPreloadedPages
    BY <1>4 DEF MaxPreloadedPages
  <2> QED
    BY <1>1, <1>2, <1>3, <2>1 DEF PixCache, RangeRight
<1>7. shown \in PixShown /\ ~shown.inverted
  BY <1>1, <1>4, <1>5 DEF PixShown, Scales
<1>8. render \in PixRenders /\ \A j \in 1 .. CacheJobs : render[j] = NoRender
  BY <1>1, PixFacts DEF PixRenders
<1>9. queues \in PixQueues /\ \A q \in QueueNames : DOMAIN queues[q] = {}
  BY <1>1 DEF PixQueues, QueueNames
<1>10. /\ w \in PixWorld /\ w.cache = cache /\ w.render = render /\ w.queues = queues
       /\ w.shown = shown
  BY <1>6, <1>7, <1>8, <1>9 DEF PixWorld, World
<1> HIDE DEF w
<1>11. \A p \in CachePage : SlotRight(w, p) /\ UpToDate(w, p)
  BY <1>3, <1>6, <1>10, PixFacts DEF SlotRight, UpToDate
<1>12. \A j \in 1 .. CacheJobs : JobRight(w, j)
  BY <1>8, <1>10, PixFacts DEF JobRight
<1>13. QueuesRight(w)
  BY <1>9, <1>10 DEF QueuesRight
<1>14. Good(w)
  <2>1. \A p \in CachePage : p \notin Kept(w.cache) => w.cache.slot[p] = EmptySlot
    BY <1>3, <1>6, <1>10
  <2>2. RangeRight(w.cache) /\ w.cache.inverted = w.shown.inverted
    BY <1>1, <1>6, <1>10
  <2> QED
    BY <1>10, <1>11, <1>12, <1>13, <2>1, <2>2 DEF Good, GoodBut
<1>15. Kept(w.cache) = {}
  <2>1. w.cache.start = -1 /\ w.cache.end = -1 /\ w.cache.preload = 0
    BY <1>1, <1>10
  <2> QED
    BY <1>4, <2>1 DEF Kept, CachePage
<1> QED
  BY <1>14, <1>15 DEF CacheIs, CacheGood, w

LEMMA CacheStutter ==
  ASSUME CacheIs, UNCHANGED cacheVars
  PROVE  CacheIs'
<1>1. World' = World
  BY DEF cacheVars, World
<1> QED
  BY <1>1 DEF CacheIs

LEMMA CacheStep ==
  ASSUME CacheIs, CacheNext
  PROVE  CacheIs'
<1>1. CASE \E s, e \in CachePage : Scroll(s, e)
  BY <1>1, ScrollStep
<1>2. CASE \E s \in Scales : Zoom(s)
  BY <1>2, ZoomStep
<1>3. CASE \E r \in CacheRotations : Rotate(r)
  BY <1>3, RotateStep
<1>4. CASE SizeAllocate
  BY <1>4, SizeAllocateStep
<1>5. CASE InvertColors
  BY <1>5, InvertColorsStep
<1>6. CASE \E p \in CachePage : EditPage(p)
  BY <1>6, EditPageStep
<1>7. CASE ReloadView
  BY <1>7, ReloadViewStep
<1>8. CASE \E s \in 0 .. CacheSelections : Select(s)
  BY <1>8, SelectStep
<1>9. CASE \E m \in CacheMaxSizes : SetCacheSize(m)
  BY <1>9, SetCacheSizeStep
<1>10. CASE StyleChanged
  BY <1>10, StyleChangedStep
<1>11. CASE Draw
  BY <1>11, DrawStep
<1>12. CASE Render
  BY <1>12, RenderStep
<1>13. CASE RenderFinished
  BY <1>13, RenderFinishedStep
<1> QED
  BY <1>1, <1>2, <1>3, <1>4, <1>5, <1>6, <1>7, <1>8, <1>9, <1>10, <1>11, <1>12, <1>13
     DEF CacheNext

\* What the invariant says of what is seen.
LEMMA CacheShows ==
  ASSUME CacheIs
  PROVE  CacheTypeOK /\ PixbufColours /\ PixbufServed /\ PixbufCurrent
<1> DEFINE w == World
           none == {}
<1>1. /\ w \in PixWorld /\ GoodBut(w, none) /\ CacheGood(w) /\ w.cache = cache
      /\ w.render = render /\ w.queues = queues /\ w.shown = shown
  BY DEF CacheIs, CacheGood, Good, GoodBut, World
<1> HIDE DEF w
<1>2. /\ cache \in PixCache /\ render \in [1 .. CacheJobs -> PixRender]
      /\ queues \in [QueueNames -> Seq(1 .. CacheJobs)] /\ CacheJobs \in Nat
  BY <1>1, PixFacts DEF PixWorld, PixRenders, PixQueues
<1>3. \A p \in CachePage : SlotRight(w, p) /\ UpToDate(w, p)
  BY <1>1 DEF GoodBut
<1>4. \A p \in CachePage : cache.slot[p].job \in 0 .. CacheJobs
  <2>1. \A p \in CachePage : cache.slot[p] \in PixSlot
    BY <1>2 DEF PixCache
  <2> QED
    BY <2>1 DEF PixSlot
<1>5. CacheTypeOK
  <2>1. /\ cache.start \in -1 .. (CachePages - 1) /\ cache.end \in -1 .. (CachePages - 1)
        /\ cache.preload \in 0 .. MaxPreloadedPages
        /\ cache.slot \in [CachePage -> PixSlot]
    BY <1>2 DEF PixCache
  <2>2. \A p \in CachePage \ Kept(cache) : cache.slot[p] = EmptySlot
    BY <1>1 DEF GoodBut
  <2>3. ASSUME NEW j \in Alive
        PROVE  render[j].version \in 0 .. shown.version[render[j].page]
    <3>1. j \in 1 .. CacheJobs /\ render[j].prio # "none" /\ render[j] \in PixRender
      BY <1>2 DEF Alive
    <3>2. JobRight(w, j)
      BY <1>1, <3>1 DEF GoodBut
    <3>3. render[j].version <= shown.version[render[j].page]
      BY <1>1, <3>1, <3>2 DEF JobRight
    <3>4. render[j].version \in 0 .. CacheVersions /\ render[j].page \in CachePage
      BY <3>1 DEF PixRender
    <3>5. shown.version[render[j].page] \in 1 .. CacheVersions /\ CacheVersions \in Nat
      BY <1>1, <3>4, VersionsAre
    <3> QED
      BY <3>3, <3>4, <3>5
  <2>4. \A q \in DOMAIN queues : queues[q] \in Seq(1 .. CacheJobs)
    BY <1>2
  <2> QED
    BY <2>1, <2>2, <2>3, <2>4 DEF CacheTypeOK, PixSlot
<1>6. PixbufColours
  BY <1>1, <1>3 DEF PixbufColours, SlotRight, GoodBut
<1>7. PixbufServed
  <2> SUFFICES ASSUME ~shown.cleared, NEW p \in Kept(cache)
               PROVE  IF cache.slot[p].job = 0 THEN cache.slot[p].surface # NoSurface
                      ELSE cache.slot[p].job \in Alive /\ render[cache.slot[p].job].page = p
    BY DEF PixbufServed
  <2>1. p \in CachePage /\ ServedAt(w, p) /\ SlotRight(w, p)
    BY <1>1, <1>3 DEF Kept, CacheGood
  <2>2. cache.slot[p].job # 0 => cache.slot[p].job \in 1 .. CacheJobs
    BY <1>2, <1>4, <2>1
  <2> QED
    BY <1>1, <2>1, <2>2 DEF ServedAt, SlotRight, Alive
<1>8. PixbufCurrent
  <2> SUFFICES ASSUME NEW p \in Visible(cache), ~shown.resize, ~shown.cleared,
                      cache.slot[p].job = 0, ~cache.slot[p].surface.doubtful
               PROVE  /\ cache.slot[p].surface.size = SizeFor(shown.scale, shown.rotation)
                      /\ cache.slot[p].surface.rotation = shown.rotation
                      /\ cache.slot[p].surface.version = shown.version[p]
    BY DEF PixbufCurrent
  <2>1. p \in Kept(w.cache) /\ p \in CachePage
    <3> HIDE DEF none
    <3> QED
      BY <1>1, KeptVisible DEF Visible
  <2>2. ServedAt(w, p) /\ FitsAt(w, p) /\ UpToDate(w, p)
    BY <1>1, <1>3, <2>1 DEF CacheGood
  <2> QED
    BY <1>1, <2>2 DEF ServedAt, FitsAt, UpToDate, Fitting
<1> QED
  BY <1>5, <1>6, <1>7, <1>8

\* Whatever the user does and whenever the worker answers, a page is drawn in
\* the colours of the model, a page of the range has a picture or a job that
\* makes one, and what is drawn when nothing is in flight is the last version
\* of the page in the scale and the rotation of the view.
\* libview/ev-pixbuf-cache.c, the handlers of libview/ev-view.c
THEOREM PixbufsAlwaysRight ==
  CacheSpec => [](CacheTypeOK /\ PixbufColours /\ PixbufServed /\ PixbufCurrent)
<1>1. CacheInit => CacheIs
  BY CacheBegins
<1>2. CacheIs /\ [CacheNext]_cacheVars => CacheIs'
  BY CacheStep, CacheStutter
<1>3. CacheIs => CacheTypeOK /\ PixbufColours /\ PixbufServed /\ PixbufCurrent
  BY CacheShows
<1> QED
  BY <1>1, <1>2, <1>3, PTL DEF CacheSpec
=============================================================================
