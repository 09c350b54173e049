------------------------- MODULE EvJobSchedulerProofs -------------------------
(***************************************************************************)
(* Theorems about EvJobScheduler for any number of jobs, priorities and    *)
(* pushes: its types, that every entry has exactly one owner, and what     *)
(* follows for the worker.                                                 *)
(***************************************************************************)
EXTENDS EvJobScheduler, SequenceTheorems, TLAPS

-----------------------------------------------------------------------------
(* Lemmas about the queues.                                                *)

Holds(q, e) == \E i \in DOMAIN q : q[i] = e
Once(q) == \A i, k \in DOMAIN q : q[i] = q[k] => i = k

\* g_queue_delete_link: every other element keeps its place in the order.
LEMMA WithoutIsFunction ==
  ASSUME NEW S, NEW q \in Seq(S), NEW e, Holds(q, e)
  PROVE  \E i \in 1 .. Len(q) :
           /\ q[i] = e
           /\ Without(q, e) \in Seq(S)
           /\ Len(Without(q, e)) = Len(q) - 1
           /\ \A k \in 1 .. (Len(q) - 1) :
                Without(q, e)[k] = IF k < i THEN q[k] ELSE q[k + 1]
<1> DEFINE i == CHOOSE k \in DOMAIN q : q[k] = e
<1>1. i \in DOMAIN q /\ q[i] = e
  BY DEF Holds
<1>2. DOMAIN q = 1 .. Len(q) /\ Len(q) \in Nat
  BY LenProperties
<1>3. i \in 1 .. Len(q) /\ \A k \in 1 .. Len(q) : q[k] \in S
  BY <1>1, <1>2, ElementOfSeq
<1> DEFINE a == SubSeq(q, 1, i - 1)
           b == SubSeq(q, i + 1, Len(q))
<1> HIDE DEF i
<1>4. a \in Seq(S) /\ Len(a) = i - 1 /\ \A k \in 1 .. (i - 1) : a[k] = q[k]
  <2>1. 1 \in Int /\ i - 1 \in Int /\ \A k \in 1 .. (i - 1) : q[k] \in S
    BY <1>2, <1>3
  <2>2. /\ a \in Seq(S)
        /\ Len(a) = IF 1 <= i - 1 THEN (i - 1) - 1 + 1 ELSE 0
        /\ \A k \in 1 .. ((i - 1) - 1 + 1) : a[k] = q[1 + k - 1]
    BY <2>1, SubSeqProperties
  <2> HIDE DEF a
  <2> QED
    BY <1>2, <1>3, <2>2
<1>5. b \in Seq(S) /\ Len(b) = Len(q) - i /\ \A k \in 1 .. (Len(q) - i) : b[k] = q[i + k]
  <2>1. i + 1 \in Int /\ Len(q) \in Int /\ \A k \in (i + 1) .. Len(q) : q[k] \in S
    BY <1>2, <1>3
  <2>2. /\ b \in Seq(S)
        /\ Len(b) = IF i + 1 <= Len(q) THEN Len(q) - (i + 1) + 1 ELSE 0
        /\ \A k \in 1 .. (Len(q) - (i + 1) + 1) : b[k] = q[(i + 1) + k - 1]
    BY <2>1, SubSeqProperties
  <2> HIDE DEF b
  <2>3. Len(b) = Len(q) - i
    <3>1. CASE i + 1 <= Len(q)
      BY <1>2, <1>3, <2>2, <3>1
    <3>2. CASE i = Len(q)
      BY <1>2, <1>3, <2>2, <3>2
    <3>3. i \in Int /\ Len(q) \in Int /\ i <= Len(q)
      BY <1>2, <1>3
    <3>4. i + 1 <= Len(q) \/ i = Len(q)
      BY <3>3
    <3> QED
      BY <3>1, <3>2, <3>4
  <2>4. ASSUME NEW k \in 1 .. (Len(q) - i)
        PROVE  b[k] = q[i + k]
    <3>1. k \in 1 .. (Len(q) - (i + 1) + 1) /\ (i + 1) + k - 1 = i + k
      BY <1>2, <1>3
    <3> QED
      BY <2>2, <3>1
  <2> QED
    BY <2>2, <2>3, <2>4
<1>6. Without(q, e) = a \o b
  BY DEF Without, RemoveAt, i
<1> HIDE DEF a, b
<1>7. /\ a \o b \in Seq(S)
      /\ Len(a \o b) = Len(a) + Len(b)
      /\ \A k \in 1 .. (Len(a) + Len(b)) :
           (a \o b)[k] = IF k <= Len(a) THEN a[k] ELSE b[k - Len(a)]
  BY <1>4, <1>5, ConcatProperties
<1>8. ASSUME NEW k \in 1 .. (Len(q) - 1)
      PROVE  (a \o b)[k] = IF k < i THEN q[k] ELSE q[k + 1]
  <2>1. k \in 1 .. (Len(a) + Len(b))
    BY <1>2, <1>3, <1>4, <1>5
  <2>2. CASE k < i
    <3>1. k \in 1 .. (i - 1) /\ k <= Len(a)
      BY <1>3, <1>4, <2>2
    <3>2. (a \o b)[k] = a[k]
      BY <1>7, <2>1, <3>1
    <3> QED
      BY <1>4, <2>2, <3>1, <3>2
  <2>3. CASE ~(k < i)
    <3>1. /\ k - Len(a) \in 1 .. (Len(q) - i) /\ ~(k <= Len(a))
          /\ i + (k - Len(a)) = k + 1
      BY <1>2, <1>3, <1>4, <2>3
    <3>2. (a \o b)[k] = b[k - Len(a)]
      BY <1>7, <2>1, <3>1
    <3>3. b[k - Len(a)] = q[i + (k - Len(a))]
      BY <1>5, <3>1
    <3> QED
      BY <2>3, <3>1, <3>2, <3>3
  <2> QED
    BY <2>2, <2>3
<1>9. Len(a \o b) = Len(q) - 1
  BY <1>2, <1>3, <1>4, <1>5, <1>7
<1> DEFINE w == Without(q, e)
<1>10. /\ w \in Seq(S) /\ Len(w) = Len(q) - 1
       /\ \A k \in 1 .. (Len(q) - 1) : w[k] = IF k < i THEN q[k] ELSE q[k + 1]
  BY <1>6, <1>7, <1>8, <1>9
<1> HIDE DEF w
<1>11. \E m \in 1 .. Len(q) :
         /\ q[m] = e /\ w \in Seq(S) /\ Len(w) = Len(q) - 1
         /\ \A k \in 1 .. (Len(q) - 1) : w[k] = IF k < m THEN q[k] ELSE q[k + 1]
  BY <1>1, <1>3, <1>10
<1> QED
  BY <1>11 DEF w

\* In a queue without repetitions g_queue_delete_link takes out just that entry.
LEMMA WithoutHolds ==
  ASSUME NEW S, NEW q \in Seq(S), NEW e, Holds(q, e), Once(q)
  PROVE  /\ Without(q, e) \in Seq(S)
         /\ Once(Without(q, e))
         /\ \A f : Holds(Without(q, e), f) <=> Holds(q, f) /\ f # e
<1> DEFINE w == Without(q, e)
<1>1. PICK i \in 1 .. Len(q) :
           /\ q[i] = e
           /\ w \in Seq(S)
           /\ Len(w) = Len(q) - 1
           /\ \A k \in 1 .. (Len(q) - 1) : w[k] = IF k < i THEN q[k] ELSE q[k + 1]
  BY WithoutIsFunction
<1> HIDE DEF w
<1>2. DOMAIN q = 1 .. Len(q) /\ Len(q) \in Nat /\ DOMAIN w = 1 .. (Len(q) - 1)
  BY <1>1, LenProperties
<1> DEFINE from(k) == IF k < i THEN k ELSE k + 1
<1>3. ASSUME NEW k \in 1 .. (Len(q) - 1)
      PROVE  from(k) \in 1 .. Len(q) /\ from(k) # i /\ w[k] = q[from(k)]
  BY <1>1, <1>2
<1>4. Once(w)
  <2>1. SUFFICES ASSUME NEW k \in 1 .. (Len(q) - 1), NEW m \in 1 .. (Len(q) - 1),
                        w[k] = w[m]
                 PROVE  k = m
    BY <1>2 DEF Once
  <2>2. from(k) = from(m)
    <3> HIDE DEF from
    <3> QED
      BY <1>2, <1>3, <2>1 DEF Once
  <2> QED
    BY <1>2, <2>2
<1>5. ASSUME NEW f, Holds(w, f)
      PROVE  Holds(q, f) /\ f # e
  <2>1. PICK k \in 1 .. (Len(q) - 1) : w[k] = f
    BY <1>2, <1>5 DEF Holds
  <2> HIDE DEF from
  <2> QED
    BY <1>1, <1>2, <1>3, <2>1 DEF Once, Holds
<1>6. ASSUME NEW f, Holds(q, f), f # e
      PROVE  Holds(w, f)
  <2>1. PICK m \in 1 .. Len(q) : q[m] = f
    BY <1>2, <1>6 DEF Holds
  <2>2. m # i
    BY <1>1, <1>6, <2>1
  <2>3. CASE m < i
    BY <1>1, <1>2, <2>1, <2>3 DEF Holds
  <2>4. CASE m > i
    <3>1. m - 1 \in 1 .. (Len(q) - 1) /\ ~(m - 1 < i) /\ (m - 1) + 1 = m
      BY <1>2, <2>1, <2>4
    <3>2. w[m - 1] = f
      BY <1>1, <2>1, <3>1
    <3> QED
      BY <1>2, <3>1, <3>2 DEF Holds
  <2> QED
    BY <1>2, <2>1, <2>2, <2>3, <2>4
<1> QED
  BY <1>1, <1>4, <1>5, <1>6 DEF w

\* g_queue_push_tail
LEMMA AppendHolds ==
  ASSUME NEW S, NEW q \in Seq(S), NEW e \in S
  PROVE  /\ Append(q, e) \in Seq(S)
         /\ Once(q) /\ ~Holds(q, e) => Once(Append(q, e))
         /\ \A f : Holds(Append(q, e), f) <=> Holds(q, f) \/ f = e
<1> DEFINE w == Append(q, e)
<1>1. /\ w \in Seq(S) /\ Len(w) = Len(q) + 1
      /\ \A k \in 1 .. Len(q) : w[k] = q[k]
      /\ w[Len(q) + 1] = e
  BY AppendProperties
<1> HIDE DEF w
<1>2. DOMAIN q = 1 .. Len(q) /\ Len(q) \in Nat /\ DOMAIN w = 1 .. (Len(q) + 1)
  BY <1>1, LenProperties
<1>3. ASSUME Once(q), ~Holds(q, e)
      PROVE  Once(w)
  BY <1>1, <1>2, <1>3 DEF Once, Holds
<1>4. \A f : Holds(w, f) <=> Holds(q, f) \/ f = e
  BY <1>1, <1>2 DEF Holds
<1> QED
  BY <1>1, <1>3, <1>4 DEF w

\* g_queue_pop_head
LEMMA TailHolds ==
  ASSUME NEW S, NEW q \in Seq(S), q # << >>, Once(q)
  PROVE  /\ Head(q) \in S /\ Holds(q, Head(q))
         /\ Tail(q) \in Seq(S) /\ Once(Tail(q))
         /\ \A f : Holds(Tail(q), f) <=> Holds(q, f) /\ f # Head(q)
<1> DEFINE w == Tail(q)
<1>1. /\ Len(q) \in Nat \ {0} /\ DOMAIN q = 1 .. Len(q)
      /\ Head(q) = q[1]
      /\ w \in Seq(S) /\ Len(w) = Len(q) - 1
      /\ \A k \in 1 .. Len(w) : w[k] = q[k + 1]
  BY HeadTailProperties, LenProperties, EmptySeq
<1> HIDE DEF w
<1>2. DOMAIN w = 1 .. (Len(q) - 1)
  BY <1>1, LenProperties
<1>3. Head(q) \in S /\ Holds(q, Head(q))
  BY <1>1, ElementOfSeq DEF Holds
<1>4. Once(w)
  <2>1. SUFFICES ASSUME NEW k \in 1 .. (Len(q) - 1), NEW m \in 1 .. (Len(q) - 1),
                        w[k] = w[m]
                 PROVE  k = m
    BY <1>2 DEF Once
  <2>2. k + 1 \in 1 .. Len(q) /\ m + 1 \in 1 .. Len(q) /\ q[k + 1] = q[m + 1]
    BY <1>1, <2>1
  <2>3. k + 1 = m + 1
    BY <1>1, <2>2 DEF Once
  <2> QED
    BY <2>3
<1>5. ASSUME NEW f, Holds(w, f)
      PROVE  Holds(q, f) /\ f # Head(q)
  <2>1. PICK k \in 1 .. (Len(q) - 1) : w[k] = f
    BY <1>2, <1>5 DEF Holds
  <2>2. k + 1 \in 1 .. Len(q) /\ k + 1 # 1 /\ 1 \in 1 .. Len(q) /\ q[k + 1] = f
    BY <1>1, <2>1
  <2> QED
    BY <1>1, <2>2 DEF Once, Holds
<1>6. ASSUME NEW f, Holds(q, f), f # Head(q)
      PROVE  Holds(w, f)
  <2>1. PICK m \in 1 .. Len(q) : q[m] = f
    BY <1>1, <1>6 DEF Holds
  <2>2. m - 1 \in 1 .. (Len(q) - 1) /\ (m - 1) + 1 = m
    BY <1>1, <1>6, <2>1
  <2>3. w[m - 1] = f
    BY <1>1, <2>1, <2>2
  <2> QED
    BY <1>2, <2>2, <2>3 DEF Holds
<1> QED
  BY <1>1, <1>3, <1>4, <1>5, <1>6 DEF w

-----------------------------------------------------------------------------
(* The types.                                                              *)

\* A thread that is about to use its entry has one.
HoldsEntry ==
  /\ mpc \in {"resort", "handler"} => mentry \in Entry
  /\ wpc \in Busy => wentry \in Entry

\* The types hold before the first push.
LEMMA InitTypes == Init => TypeOK /\ HoldsEntry
<1> SUFFICES ASSUME Init PROVE TypeOK /\ HoldsEntry
  OBVIOUS
<1>1. << >> \in Seq(Entry)
  BY EmptySeq
<1>2. job_queue \in [Priority -> Seq(Entry)]
  BY <1>1 DEF Init
<1>3. 0 \in Priority
  BY SchedulerAssumption DEF Priority
<1> QED
  BY <1>2, <1>3, SchedulerAssumption DEF Init, TypeOK, HoldsEntry, Busy, NoEntry, Entry

\* Every step of either thread keeps the types: one case for each action.
LEMMA NextTypes == TypeOK /\ HoldsEntry /\ [Next]_vars => TypeOK' /\ HoldsEntry'
<1> SUFFICES ASSUME TypeOK, HoldsEntry, [Next]_vars
             PROVE  TypeOK' /\ HoldsEntry'
  OBVIOUS
<1> USE SchedulerAssumption
<1>a. 0 \in Priority
  BY DEF Priority
<1>1. ASSUME NEW j \in Jobs, NEW p \in Priority, Push(j, p)
      PROVE  TypeOK' /\ HoldsEntry'
  <2>1. pushed + 1 \in Entry
    BY <1>1 DEF TypeOK, Push, Entry
  <2>2. Append(job_queue[p], pushed + 1) \in Seq(Entry)
    BY <2>1, AppendProperties DEF TypeOK
  <2>3. job_queue' \in [Priority -> Seq(Entry)]
    BY <1>1, <2>2 DEF TypeOK, Push
  <2>4. pushed' \in 0 .. MaxPushes
    BY <1>1 DEF TypeOK, Push
  <2>5. HoldsEntry'
    BY <1>1 DEF TypeOK, HoldsEntry, Busy, Push, Woken, mainVars
  <2> QED
    BY <1>1, <2>1, <2>3, <2>4, <2>5 DEF TypeOK, Push, Woken, mainVars
<1>2. ASSUME NEW j \in Jobs, NEW p \in Priority, UpdateFind(j, p)
      PROVE  TypeOK' /\ HoldsEntry'
  BY <1>2 DEF TypeOK, HoldsEntry, Busy, UpdateFind, entryVars, workerVars
<1>3. ASSUME NEW j \in Jobs, Cancel(j)
      PROVE  TypeOK' /\ HoldsEntry'
  BY <1>3 DEF TypeOK, HoldsEntry, Busy, Cancel, entryVars, workerVars
<1>4. CASE UpdateMove
  <2>1. job_queue' \in [Priority -> Seq(Entry)]
    <3>1. mentry \in Entry /\ priority[mentry] \in Priority /\ mprio \in Priority
      BY <1>4 DEF TypeOK, HoldsEntry, Busy, UpdateMove
    <3> DEFINE w == Without(job_queue[priority[mentry]], mentry)
               q == [job_queue EXCEPT ![priority[mentry]] = w]
    <3>2. CASE InQueue(mentry, priority[mentry])
               /\ job_queue' = [q EXCEPT ![mprio] = Append(@, mentry)]
      <4>1. w \in Seq(Entry)
        BY <3>1, <3>2, WithoutIsFunction DEF TypeOK, InQueue, Holds
      <4> HIDE DEF w
      <4>2. q \in [Priority -> Seq(Entry)]
        BY <4>1 DEF TypeOK
      <4> HIDE DEF q
      <4>3. Append(q[mprio], mentry) \in Seq(Entry)
        BY <3>1, <4>2, AppendProperties
      <4> QED
        BY <3>2, <4>2, <4>3
    <3>3. CASE UNCHANGED job_queue
      BY <3>3 DEF TypeOK
    <3> QED
      BY <1>4, <3>2, <3>3 DEF UpdateMove
  <2> QED
    BY <1>4, <1>a, <2>1 DEF TypeOK, HoldsEntry, Busy, UpdateMove, entryVars, Woken, NoEntry
<1>5. CASE EmitNext
  BY <1>5 DEF TypeOK, HoldsEntry, Busy, EmitNext, entryVars, workerVars, NoEntry
<1>6. CASE ThreadJobCancelled
  <2>1. mentry \in Entry /\ priority[mentry] \in Priority
    BY <1>6 DEF TypeOK, HoldsEntry, Busy, ThreadJobCancelled
  <2>2. CASE UNCHANGED <<job_queue, handlers, job_list, freed, jobOf, priority, asked>>
    BY <1>6, <2>2 DEF TypeOK, HoldsEntry, Busy, ThreadJobCancelled, workerVars
  <2>3. CASE /\ mentry \notin freed /\ InQueue(mentry, priority[mentry])
             /\ job_queue' = [job_queue EXCEPT ![priority[mentry]] = Without(@, mentry)]
             /\ handlers' = handlers \ {mentry}
             /\ job_list' = job_list \ {mentry}
             /\ JobFree(mentry)
    <3>1. Without(job_queue[priority[mentry]], mentry) \in Seq(Entry)
      BY <2>1, <2>3, WithoutIsFunction DEF TypeOK, InQueue, Holds
    <3>2. job_queue' \in [Priority -> Seq(Entry)]
      BY <2>3, <3>1 DEF TypeOK
    <3> QED
      BY <1>6, <1>a, <2>1, <2>3, <3>2
      DEF TypeOK, HoldsEntry, Busy, ThreadJobCancelled, JobFree, workerVars
  <2> QED
    BY <1>6, <2>2, <2>3 DEF ThreadJobCancelled
<1>7. CASE Pop
  <2>1. PICK p \in Priority : /\ job_queue[p] # << >>
                              /\ wentry' = Head(job_queue[p])
                              /\ job_queue' = [job_queue EXCEPT ![p] = Tail(@)]
    BY <1>7 DEF Pop, MostUrgent, Backlog
  <2>2. Head(job_queue[p]) \in Entry /\ Tail(job_queue[p]) \in Seq(Entry)
    BY <2>1, HeadTailProperties DEF TypeOK
  <2>3. job_queue' \in [Priority -> Seq(Entry)]
    BY <2>1, <2>2 DEF TypeOK
  <2> QED
    BY <1>7, <2>1, <2>2, <2>3 DEF TypeOK, HoldsEntry, Busy, Pop, entryVars, mainVars
<1>8. CASE Wait \/ SpuriousWakeup
  BY <1>8 DEF TypeOK, HoldsEntry, Busy, Wait, SpuriousWakeup, entryVars, mainVars
<1>9. CASE Check
  <2>1. jobOf[wentry] \in Jobs \union {NoJob}
    BY <1>9 DEF TypeOK, HoldsEntry, Busy, Check
  <2> QED
    BY <1>9, <2>1 DEF TypeOK, HoldsEntry, Busy, Check, entryVars, mainVars
<1>10. CASE RunReturns \/ Unset
  BY <1>10 DEF TypeOK, HoldsEntry, Busy, RunReturns, Unset, entryVars, mainVars
<1>11. CASE Disconnect \/ Unlist
  BY <1>11 DEF TypeOK, HoldsEntry, Busy, Disconnect, Unlist, entryVars, mainVars
<1>12. CASE Free
  BY <1>12, <1>a DEF TypeOK, HoldsEntry, Busy, Free, JobFree, mainVars
<1>13. CASE UNCHANGED vars
  BY <1>13 DEF TypeOK, HoldsEntry, Busy, vars, entryVars, workerVars, mainVars
<1> QED
  BY <1>1, <1>2, <1>3, <1>4, <1>5, <1>6, <1>7, <1>8, <1>9, <1>10, <1>11, <1>12, <1>13
  DEF Next, MainCalls, MainReturns, Worker

\* Type correctness: what every variable holds, for any number of jobs,
\* priorities and pushes.
THEOREM TypeCorrect == Spec => [](TypeOK /\ HoldsEntry)
<1>1. Init => TypeOK /\ HoldsEntry
  BY InitTypes
<1>2. TypeOK /\ HoldsEntry /\ [Next]_vars => TypeOK' /\ HoldsEntry'
  BY NextTypes
<1> QED
  BY <1>1, <1>2, PTL DEF Spec

-----------------------------------------------------------------------------
(* One owner.                                                              *)

\* QueuedOnce, for the queues Q: no queue has an entry twice and no two queues
\* have the same entry.
Disjoint(Q) ==
  /\ \A p \in Priority : Once(Q[p])
  /\ \A p, q \in Priority, e \in Entry : Holds(Q[p], e) /\ Holds(Q[q], e) => p = q

\* QueuedOnce says that each queue holds an entry once and no two queues share
\* one.
LEMMA OnceIsDisjoint ==
  ASSUME NEW Q \in [Priority -> Seq(Entry)]
  PROVE  Disjoint(Q) <=>
           \A p, q \in Priority :
             \A i \in DOMAIN Q[p], k \in DOMAIN Q[q] :
               Q[p][i] = Q[q][k] => p = q /\ i = k
<1>1. ASSUME NEW p \in Priority, NEW i \in DOMAIN Q[p]
      PROVE  Q[p][i] \in Entry
  BY LenProperties, ElementOfSeq
<1> QED
  BY <1>1 DEF Disjoint, Once, Holds

\* What an entry's arrival in queue p, its departure, and its move to queue p make
\* of the queues.
Joins(R, Q, p, e) ==
  \A q \in Priority, f \in Entry :
    Holds(R[q], f) <=> Holds(Q[q], f) \/ (q = p /\ f = e)
Leaves(R, Q, e) ==
  \A q \in Priority, f \in Entry : Holds(R[q], f) <=> Holds(Q[q], f) /\ f # e
Moves(R, Q, p, e) ==
  \A q \in Priority, f \in Entry :
    Holds(R[q], f) <=> (Holds(Q[q], f) /\ f # e) \/ (q = p /\ f = e)

Nowhere(Q, e) == \A q \in Priority : ~Holds(Q[q], e)

\* R is Q with w for queue p.
QueueReplaced(R, Q, p, w) == R[p] = w /\ \A q \in Priority : q # p => R[q] = Q[q]

\* An assignment to one queue, as QueueReplaced says it.
LEMMA ExceptReplaces ==
  ASSUME NEW Q \in [Priority -> Seq(Entry)], NEW p \in Priority,
         NEW w \in Seq(Entry), NEW R, R = [Q EXCEPT ![p] = w]
  PROVE  R \in [Priority -> Seq(Entry)] /\ QueueReplaced(R, Q, p, w)
BY DEF QueueReplaced

\* One queue loses e: the queues stay disjoint.
LEMMA Removal ==
  ASSUME NEW Q \in [Priority -> Seq(Entry)], Disjoint(Q),
         NEW p \in Priority, NEW e \in Entry, Holds(Q[p], e),
         NEW w, Once(w), \A f : Holds(w, f) <=> Holds(Q[p], f) /\ f # e,
         NEW R, QueueReplaced(R, Q, p, w)
  PROVE  Disjoint(R) /\ Leaves(R, Q, e)
<1>1. ASSUME NEW q \in Priority, NEW f \in Entry
      PROVE  Holds(R[q], f) <=> Holds(Q[q], f) /\ f # e
  <2>1. CASE q = p
    BY <2>1 DEF QueueReplaced
  <2>2. CASE q # p
    BY <2>2 DEF Disjoint, QueueReplaced
  <2> QED
    BY <2>1, <2>2
<1>2. \A q \in Priority : Once(R[q])
  BY DEF Disjoint, QueueReplaced
<1>3. Disjoint(R)
  BY <1>1, <1>2 DEF Disjoint
<1> QED
  BY <1>1, <1>3 DEF Leaves

\* One queue gets e, which was in none: the queues stay disjoint.
LEMMA Addition ==
  ASSUME NEW Q \in [Priority -> Seq(Entry)], Disjoint(Q),
         NEW p \in Priority, NEW e \in Entry, Nowhere(Q, e),
         NEW R, QueueReplaced(R, Q, p, Append(Q[p], e))
  PROVE  Disjoint(R) /\ Joins(R, Q, p, e)
<1>1. /\ Once(Append(Q[p], e))
      /\ \A f : Holds(Append(Q[p], e), f) <=> Holds(Q[p], f) \/ f = e
  <2>1. Q[p] \in Seq(Entry) /\ Once(Q[p]) /\ ~Holds(Q[p], e)
    BY DEF Disjoint, Nowhere
  <2> QED
    BY <2>1, AppendHolds
<1>2. ASSUME NEW q \in Priority, NEW f \in Entry
      PROVE  Holds(R[q], f) <=> Holds(Q[q], f) \/ (q = p /\ f = e)
  BY <1>1 DEF QueueReplaced
<1>3. \A q \in Priority : Once(R[q])
  BY <1>1 DEF Disjoint, QueueReplaced
<1>4. ASSUME NEW q \in Priority, NEW r \in Priority, NEW f \in Entry,
             Holds(R[q], f), Holds(R[r], f)
      PROVE  q = r
  <2>1. CASE f = e
    BY <1>2, <1>4, <2>1 DEF Nowhere
  <2>2. CASE f # e
    BY <1>2, <1>4, <2>2 DEF Disjoint
  <2> QED
    BY <2>1, <2>2
<1>5. Disjoint(R)
  BY <1>3, <1>4 DEF Disjoint
<1> QED
  BY <1>2, <1>5 DEF Joins

\* An entry is freed only after it was pushed.
Ownership == OneOwner /\ QueuedOnce /\ freed \subseteq 1 .. pushed

\* Nothing is owned before the first push.
LEMMA InitOwnership == Init => Ownership
<1> SUFFICES ASSUME Init PROVE Ownership
  OBVIOUS
<1>1. \A p \in Priority : job_queue[p] = << >> /\ DOMAIN job_queue[p] = {}
  BY DEF Init
<1>2. QueuedOnce /\ \A e, p : p \in Priority => ~InQueue(e, p)
  BY <1>1 DEF QueuedOnce, InQueue
<1> QED
  BY <1>2, SchedulerAssumption
  DEF Init, Ownership, OneOwner, Busy, NoEntry, Queued, Live, Entry

\* The steps that leave the queues alone and change neither who is live nor
\* who is in the worker's hands.
LEMMA OwnershipUnmoved ==
  ASSUME Ownership, UNCHANGED <<job_queue, pushed, freed, wentry>>,
         wpc' \in Busy <=> wpc \in Busy
  PROVE  Ownership'
<1>1. \A e : Queued(e)' <=> Queued(e)
  BY DEF Queued, InQueue
<1>2. QueuedOnce'
  BY DEF Ownership, QueuedOnce
<1> QED
  BY <1>1, <1>2 DEF Ownership, OneOwner, Live

\* ev_job_scheduler_push_job: the new entry is queued, and in no other place.
LEMMA PushOwnership ==
  ASSUME TypeOK, Ownership, NEW j \in Jobs, NEW p \in Priority, Push(j, p)
  PROVE  Ownership' /\ Joins(job_queue', job_queue, p, pushed + 1)
<1> DEFINE n == pushed + 1
<1>1. n \in Entry /\ n \notin Live /\ freed' = freed /\ pushed' = n
  BY SchedulerAssumption DEF TypeOK, Push, Entry, Live
<1>2. Disjoint(job_queue) /\ ~Queued(n) /\ n # wentry
  BY <1>1, OnceIsDisjoint DEF TypeOK, Ownership, OneOwner, QueuedOnce
<1>3. Nowhere(job_queue, n)
  BY <1>2 DEF Queued, InQueue, Holds, Nowhere
<1>4. job_queue' = [job_queue EXCEPT ![p] = Append(job_queue[p], n)]
  BY DEF Push
<1>5. job_queue \in [Priority -> Seq(Entry)]
  BY DEF TypeOK
<1> HIDE DEF n
<1>6. /\ job_queue' \in [Priority -> Seq(Entry)]
      /\ Disjoint(job_queue') /\ Joins(job_queue', job_queue, p, n)
  <2>1. Append(job_queue[p], n) \in Seq(Entry)
    BY <1>1, <1>5, AppendProperties
  <2>2. /\ job_queue' \in [Priority -> Seq(Entry)]
        /\ QueueReplaced(job_queue', job_queue, p, Append(job_queue[p], n))
    BY <1>4, <1>5, <2>1, ExceptReplaces
  <2> QED
    BY <1>1, <1>2, <1>3, <1>5, <2>2, Addition
<1>7. \A f \in Entry : Queued(f)' <=> Queued(f) \/ f = n
  BY <1>6 DEF Queued, InQueue, Holds, Joins
<1>8. QueuedOnce'
  BY <1>6, OnceIsDisjoint DEF QueuedOnce
<1>9. wentry' = wentry /\ (wpc' \in Busy <=> wpc \in Busy)
  BY DEF Push, Woken, Busy
<1>10. \A e \in Entry : e \in Live' <=> e \in Live \/ e = n
  BY <1>1 DEF Live, Ownership, TypeOK, n, Entry
<1>11. freed' \subseteq 1 .. pushed'
  BY <1>1 DEF n, Ownership, TypeOK
<1>12. wentry' # NoEntry => ~Queued(wentry)'
  BY <1>2, <1>7, <1>9 DEF Ownership, OneOwner, TypeOK
<1> QED
  BY <1>6, <1>7, <1>8, <1>9, <1>10, <1>11, <1>12 DEF Ownership, OneOwner, n

\* The queues lose e, which becomes the worker's or is freed.
LEMMA RemovalOwnership ==
  ASSUME TypeOK, Ownership, NEW p \in Priority, NEW e \in Entry, InQueue(e, p),
         NEW w \in Seq(Entry), Once(w),
         \A f : Holds(w, f) <=> Holds(job_queue[p], f) /\ f # e,
         job_queue' = [job_queue EXCEPT ![p] = w]
  PROVE  /\ QueuedOnce' /\ Leaves(job_queue', job_queue, e)
         /\ \A f \in Entry : Queued(f)' <=> Queued(f) /\ f # e
<1>1. job_queue \in [Priority -> Seq(Entry)] /\ Holds(job_queue[p], e)
  BY DEF TypeOK, InQueue, Holds
<1>2. Disjoint(job_queue)
  BY <1>1, OnceIsDisjoint DEF Ownership, QueuedOnce
<1>3. /\ job_queue' \in [Priority -> Seq(Entry)]
      /\ QueueReplaced(job_queue', job_queue, p, w)
  BY <1>1, ExceptReplaces
<1>4. Disjoint(job_queue') /\ Leaves(job_queue', job_queue, e)
  BY <1>1, <1>2, <1>3, Removal
<1>5. QueuedOnce'
  BY <1>3, <1>4, OnceIsDisjoint DEF QueuedOnce
<1> QED
  BY <1>4, <1>5 DEF Queued, InQueue, Holds, Leaves

\* ev_job_thread_proxy takes an entry out of the queues and into its hands.
LEMMA PopOwnership ==
  ASSUME TypeOK, Ownership, Pop
  PROVE  Ownership' /\ Leaves(job_queue', job_queue, wentry')
<1>1. PICK p \in Priority : /\ job_queue[p] # << >>
                            /\ wentry' = Head(job_queue[p])
                            /\ job_queue' = [job_queue EXCEPT ![p] = Tail(@)]
  BY DEF Pop, MostUrgent, Backlog
<1>2. job_queue[p] \in Seq(Entry) /\ Once(job_queue[p])
  BY OnceIsDisjoint DEF TypeOK, Ownership, QueuedOnce, Disjoint
<1> DEFINE e == Head(job_queue[p])
           w == Tail(job_queue[p])
<1>3. /\ e \in Entry /\ Holds(job_queue[p], e)
      /\ w \in Seq(Entry) /\ Once(w)
      /\ \A f : Holds(w, f) <=> Holds(job_queue[p], f) /\ f # e
  BY <1>1, <1>2, TailHolds
<1>4. wentry' = e /\ job_queue' = [job_queue EXCEPT ![p] = w]
  BY <1>1
<1> HIDE DEF e, w
<1>5. InQueue(e, p)
  BY <1>3 DEF InQueue, Holds
<1>6. /\ QueuedOnce' /\ Leaves(job_queue', job_queue, e)
      /\ \A f \in Entry : Queued(f)' <=> Queued(f) /\ f # e
  BY <1>3, <1>4, <1>5, RemovalOwnership
<1>7. /\ wpc' = "check" /\ wpc = "pop" /\ UNCHANGED <<pushed, freed>>
  BY DEF Pop, entryVars
<1>8. wentry = NoEntry /\ e # NoEntry
  BY <1>3, <1>7, SchedulerAssumption DEF Ownership, OneOwner, Busy, NoEntry, Entry
<1>9. Queued(e)
  BY <1>5 DEF Queued
<1> QED
  BY <1>3, <1>4, <1>6, <1>7, <1>8, <1>9
  DEF Ownership, OneOwner, Live, Busy, NoEntry, Entry

\* The worker frees the entry that it holds, which is in no queue.
LEMMA FreeOwnership ==
  ASSUME TypeOK, Ownership, Free
  PROVE  Ownership'
<1>1. wentry # NoEntry /\ wentry \in Entry
  BY DEF Free, Ownership, OneOwner, Busy, TypeOK
<1>2. /\ freed' = freed \union {wentry} /\ wentry' = NoEntry /\ wpc' = "pop"
      /\ UNCHANGED <<pushed, job_queue>>
  BY DEF Free, JobFree
<1>3. QueuedOnce' /\ \A f : Queued(f)' <=> Queued(f)
  BY <1>2 DEF Ownership, QueuedOnce, Queued, InQueue
<1>4. wentry \in Live /\ ~Queued(wentry)
  BY <1>1 DEF Ownership, OneOwner
<1> QED
  BY <1>1, <1>2, <1>3, <1>4, SchedulerAssumption
  DEF Ownership, OneOwner, Live, Busy, NoEntry, Entry

\* The cancelled handler frees an entry only when it finds it queued, and then
\* the worker does not hold it.
LEMMA CancelledOwnership ==
  ASSUME TypeOK, HoldsEntry, Ownership, ThreadJobCancelled
  PROVE  /\ Ownership'
         /\ \/ UNCHANGED <<job_queue, freed>>
            \/ Queued(mentry) /\ Leaves(job_queue', job_queue, mentry)
<1> DEFINE e == mentry
           p == priority[mentry]
           w == Without(job_queue[p], e)
<1>1. e \in Entry /\ p \in Priority
  BY DEF TypeOK, HoldsEntry, ThreadJobCancelled
<1>2. wentry' = wentry /\ wpc' = wpc /\ pushed' = pushed
  BY DEF ThreadJobCancelled, workerVars
<1>3. CASE UNCHANGED <<job_queue, freed>>
  BY <1>2, <1>3, OwnershipUnmoved
<1>4. CASE /\ e \notin freed /\ InQueue(e, p)
           /\ job_queue' = [job_queue EXCEPT ![p] = w]
           /\ freed' = freed \union {e}
  <2>1. job_queue[p] \in Seq(Entry) /\ Once(job_queue[p])
    BY <1>1, OnceIsDisjoint DEF TypeOK, Ownership, QueuedOnce, Disjoint
  <2>2. Holds(job_queue[p], e)
    BY <1>4 DEF InQueue, Holds
  <2>3. /\ w \in Seq(Entry) /\ Once(w)
        /\ \A f : Holds(w, f) <=> Holds(job_queue[p], f) /\ f # e
    BY <1>1, <2>1, <2>2, WithoutHolds
  <2>4. job_queue' = [job_queue EXCEPT ![p] = w]
    BY <1>4
  <2> HIDE DEF w
  <2>5. /\ QueuedOnce' /\ Leaves(job_queue', job_queue, e)
        /\ \A f \in Entry : Queued(f)' <=> Queued(f) /\ f # e
    BY <1>1, <1>4, <2>3, <2>4, RemovalOwnership
  <2>6. Queued(e) /\ e # wentry /\ e \in Live
    BY <1>1, <1>4 DEF Queued, Ownership, OneOwner, NoEntry, Entry
  <2> QED
    BY <1>1, <1>2, <1>4, <2>5, <2>6
    DEF Ownership, OneOwner, Live, TypeOK
<1> QED
  BY <1>3, <1>4 DEF ThreadJobCancelled, JobFree

\* ev_job_scheduler_update_job moves an entry from the queue where it found it
\* to the tail of another, or of the same one.
LEMMA MoveOwnership ==
  ASSUME TypeOK, HoldsEntry, Ownership, UpdateMove
  PROVE  /\ Ownership'
         /\ \/ UNCHANGED job_queue
            \/ Queued(mentry) /\ Moves(job_queue', job_queue, mprio, mentry)
<1> DEFINE e == mentry
           p == priority[mentry]
           m == mprio
           w == Without(job_queue[p], e)
           shorter == [job_queue EXCEPT ![p] = w]
<1>1. e \in Entry /\ p \in Priority /\ m \in Priority
  BY DEF TypeOK, HoldsEntry, UpdateMove
<1>2. UNCHANGED <<pushed, freed, wentry>> /\ (wpc' \in Busy <=> wpc \in Busy)
  BY DEF UpdateMove, entryVars, Woken, Busy
<1>3. CASE UNCHANGED job_queue
  BY <1>2, <1>3, OwnershipUnmoved
<1>4. CASE InQueue(e, p) /\ job_queue' = [shorter EXCEPT ![m] = Append(@, e)]
  <2>1. job_queue' = [shorter EXCEPT ![m] = Append(shorter[m], e)]
    BY <1>4
  <2>2. shorter = [job_queue EXCEPT ![p] = w]
    OBVIOUS
  <2>3. w = Without(job_queue[p], e)
    OBVIOUS
  <2> HIDE DEF e, p, m, w, shorter
  <2>4. job_queue \in [Priority -> Seq(Entry)] /\ Disjoint(job_queue)
    BY OnceIsDisjoint DEF TypeOK, Ownership, QueuedOnce
  <2>5. job_queue[p] \in Seq(Entry) /\ Once(job_queue[p]) /\ Holds(job_queue[p], e)
    BY <1>1, <1>4, <2>4 DEF Disjoint, InQueue, Holds
  <2>6. /\ w \in Seq(Entry) /\ Once(w)
        /\ \A f : Holds(w, f) <=> Holds(job_queue[p], f) /\ f # e
    BY <2>3, <2>5, WithoutHolds
  <2>7. shorter \in [Priority -> Seq(Entry)] /\ QueueReplaced(shorter, job_queue, p, w)
    BY <1>1, <2>2, <2>4, <2>6, ExceptReplaces
  <2>8. Disjoint(shorter) /\ Leaves(shorter, job_queue, e)
    BY <1>1, <2>4, <2>5, <2>6, <2>7, Removal
  <2>9. Append(shorter[m], e) \in Seq(Entry)
    BY <1>1, <2>7, AppendProperties
  <2>10. /\ job_queue' \in [Priority -> Seq(Entry)]
         /\ QueueReplaced(job_queue', shorter, m, Append(shorter[m], e))
    BY <1>1, <2>1, <2>7, <2>9, ExceptReplaces
  <2>11. Nowhere(shorter, e)
    BY <1>1, <2>8 DEF Nowhere, Leaves
  <2>12. Disjoint(job_queue') /\ Joins(job_queue', shorter, m, e)
    BY <1>1, <2>7, <2>8, <2>10, <2>11, Addition
  <2>13. QueuedOnce'
    BY <2>10, <2>12, OnceIsDisjoint DEF QueuedOnce
  <2>14. Queued(e)
    BY <1>1, <1>4 DEF Queued
  <2>15. ASSUME NEW f \in Entry
         PROVE  Queued(f)' <=> Queued(f)
    <3>1. Queued(f)' <=> \E q \in Priority : Holds(job_queue'[q], f)
      BY DEF Queued, InQueue, Holds
    <3>2. Queued(f) <=> \E q \in Priority : Holds(job_queue[q], f)
      BY DEF Queued, InQueue, Holds
    <3>3. CASE f = e
      BY <1>1, <2>12, <2>14, <3>1, <3>3 DEF Joins
    <3>4. CASE f # e
      BY <2>8, <2>12, <3>1, <3>2, <3>4 DEF Joins, Leaves
    <3> QED
      BY <3>3, <3>4
  <2>16. Moves(job_queue', job_queue, m, e)
    BY <1>1, <2>8, <2>12 DEF Moves, Joins, Leaves
  <2> QED
    BY <1>2, <2>13, <2>14, <2>15, <2>16 DEF Ownership, OneOwner, Live, TypeOK, e, m
<1> QED
  BY <1>3, <1>4 DEF UpdateMove

\* Every step of either thread keeps the ownership: one case for each action.
LEMMA NextOwnership ==
  TypeOK /\ HoldsEntry /\ Ownership /\ [Next]_vars => Ownership'
<1> SUFFICES ASSUME TypeOK, HoldsEntry, Ownership, [Next]_vars
             PROVE  Ownership'
  OBVIOUS
<1>1. ASSUME NEW j \in Jobs, NEW p \in Priority, Push(j, p)
      PROVE  Ownership'
  BY <1>1, PushOwnership
<1>2. ASSUME NEW j \in Jobs, NEW p \in Priority, UpdateFind(j, p)
      PROVE  Ownership'
  BY <1>2, OwnershipUnmoved DEF UpdateFind, entryVars, workerVars
<1>3. ASSUME NEW j \in Jobs, Cancel(j)
      PROVE  Ownership'
  BY <1>3, OwnershipUnmoved DEF Cancel, entryVars, workerVars
<1>4. CASE EmitNext
  BY <1>4, OwnershipUnmoved DEF EmitNext, entryVars, workerVars
<1>5. CASE Wait \/ SpuriousWakeup
  BY <1>5, OwnershipUnmoved DEF Wait, SpuriousWakeup, entryVars, Busy
<1>6. CASE Check \/ RunReturns \/ Unset
  BY <1>6, OwnershipUnmoved DEF Check, RunReturns, Unset, entryVars, Busy
<1>7. CASE Disconnect \/ Unlist
  BY <1>7, OwnershipUnmoved DEF Disconnect, Unlist, entryVars, Busy
<1>8. CASE UNCHANGED vars
  BY <1>8, OwnershipUnmoved DEF vars, entryVars, workerVars
<1> QED
  BY <1>1, <1>2, <1>3, <1>4, <1>5, <1>6, <1>7, <1>8,
     MoveOwnership, CancelledOwnership, PopOwnership, FreeOwnership
  DEF Next, MainCalls, MainReturns, Worker

\* Ownership is inductive relative to the types.
LEMMA OwnershipInvariant == Spec => []Ownership
<1>1. Init => Ownership
  BY InitOwnership
<1>2. TypeOK /\ HoldsEntry /\ Ownership /\ [Next]_vars => Ownership'
  BY NextOwnership
<1> QED
  BY <1>1, <1>2, TypeCorrect, PTL DEF Spec

\* Every live entry is queued once or in the worker's hands, never both:
\* neither thread destroys an entry the other one will use, and none is lost,
\* however pushes, moves, cancels and the worker's steps interleave.
THEOREM OneOwnerAlways == Spec => []OneOwner
<1>1. Ownership => OneOwner
  BY DEF Ownership
<1> QED
  BY <1>1, OwnershipInvariant, PTL

\* No entry has two links in the queues: update_job deletes the link it found
\* before it adds one.
THEOREM QueuedOnceAlways == Spec => []QueuedOnce
<1>1. Ownership => QueuedOnce
  BY DEF Ownership
<1> QED
  BY <1>1, OwnershipInvariant, PTL

-----------------------------------------------------------------------------
(* What follows for the worker and for job_list.                           *)

\* The worker never sleeps while a queue holds a job: update_job broadcasts
\* too, and a cancelled job leaves a queue only if one holds it.
THEOREM NoLostWakeup == Spec => []SleepsOnlyWhenIdle
<1>1. Init => SleepsOnlyWhenIdle
  BY DEF Init, SleepsOnlyWhenIdle
<1>2. TypeOK /\ HoldsEntry /\ SleepsOnlyWhenIdle /\ [Next]_vars => SleepsOnlyWhenIdle'
  <2> SUFFICES ASSUME TypeOK, HoldsEntry, SleepsOnlyWhenIdle, [Next]_vars
               PROVE  SleepsOnlyWhenIdle'
    OBVIOUS
  <2>1. CASE UNCHANGED <<wpc, job_queue>>
    BY <2>1 DEF SleepsOnlyWhenIdle, Backlog
  <2>2. CASE wpc' # "wait"
    BY <2>2 DEF SleepsOnlyWhenIdle
  <2>3. ASSUME NEW j \in Jobs, NEW p \in Priority, Push(j, p)
        PROVE  SleepsOnlyWhenIdle'
    BY <2>2, <2>3 DEF Push, Woken
  <2>4. ASSUME NEW j \in Jobs, NEW p \in Priority, UpdateFind(j, p)
        PROVE  SleepsOnlyWhenIdle'
    BY <2>1, <2>4 DEF UpdateFind, workerVars
  <2>5. ASSUME NEW j \in Jobs, Cancel(j)
        PROVE  SleepsOnlyWhenIdle'
    BY <2>1, <2>5 DEF Cancel, workerVars
  <2>6. CASE UpdateMove
    BY <2>1, <2>2, <2>6 DEF UpdateMove, Woken
  <2>7. CASE EmitNext
    BY <2>1, <2>7 DEF EmitNext, workerVars
  <2>8. CASE ThreadJobCancelled
    <3>1. mentry \in Entry /\ priority[mentry] \in Priority
      BY <2>8 DEF TypeOK, HoldsEntry, ThreadJobCancelled
    <3>2. CASE wpc = "wait"
      <4>1. job_queue[priority[mentry]] = << >>
        BY <3>1, <3>2 DEF SleepsOnlyWhenIdle, Backlog
      <4>2. ~InQueue(mentry, priority[mentry])
        BY <4>1 DEF InQueue
      <4> QED
        BY <2>1, <2>8, <4>2 DEF ThreadJobCancelled, workerVars
    <3>3. CASE wpc # "wait"
      BY <2>2, <2>8, <3>3 DEF ThreadJobCancelled, workerVars
    <3> QED
      BY <3>2, <3>3
  <2>9. CASE Wait
    BY <2>9 DEF Wait, SleepsOnlyWhenIdle, Backlog
  <2>10. CASE Pop \/ SpuriousWakeup \/ Check \/ RunReturns \/ Unset
    BY <2>2, <2>10 DEF Pop, SpuriousWakeup, Check, RunReturns, Unset
  <2>11. CASE Disconnect \/ Unlist \/ Free
    BY <2>2, <2>11 DEF Disconnect, Unlist, Free
  <2>12. CASE UNCHANGED vars
    BY <2>1, <2>12 DEF vars, workerVars
  <2> QED
    BY <2>3, <2>4, <2>5, <2>6, <2>7, <2>8, <2>9, <2>10, <2>11, <2>12
    DEF Next, MainCalls, MainReturns, Worker
<1> QED
  BY <1>1, <1>2, TypeCorrect, PTL DEF Spec

\* What becomes of the worker's own entry when the main thread moves: nothing.
LEMMA WorkersEntryUntouched ==
  ASSUME TypeOK, HoldsEntry, Ownership, wentry # NoEntry,
         \/ \E j \in Jobs, p \in Priority : Push(j, p)
         \/ ThreadJobCancelled
  PROVE  jobOf'[wentry] = jobOf[wentry]
<1>1. wentry \in Entry /\ wentry \in Live /\ ~Queued(wentry)
  BY DEF TypeOK, Ownership, OneOwner
<1>2. ASSUME NEW j \in Jobs, NEW p \in Priority, Push(j, p)
      PROVE  jobOf'[wentry] = jobOf[wentry]
  <2>1. wentry # pushed + 1
    BY <1>1 DEF Live, TypeOK
  <2> QED
    BY <1>1, <1>2, <2>1 DEF Push, TypeOK
<1>3. CASE ThreadJobCancelled
  <2>1. mentry \in Entry /\ priority[mentry] \in Priority
    BY <1>3 DEF TypeOK, HoldsEntry, ThreadJobCancelled
  <2>2. CASE InQueue(mentry, priority[mentry])
    <3>1. mentry # wentry
      BY <1>1, <2>1, <2>2 DEF Queued
    <3> QED
      BY <1>1, <1>3, <3>1 DEF ThreadJobCancelled, JobFree, TypeOK
  <2>3. CASE ~InQueue(mentry, priority[mentry])
    BY <1>3, <2>3 DEF ThreadJobCancelled
  <2> QED
    BY <2>2, <2>3
<1> QED
  BY <1>2, <1>3

\* ev_job_scheduler_get_running_thread_job never returns a job whose entry has
\* been destroyed: the print operation compares it with its own job.
THEOREM RunningJobAlwaysHeld == Spec => []RunningJobIsHeld
<1>1. Init => RunningJobIsHeld
  BY DEF Init, RunningJobIsHeld
<1>2. TypeOK /\ HoldsEntry /\ Ownership /\ RunningJobIsHeld /\ [Next]_vars
      => RunningJobIsHeld'
  <2> SUFFICES ASSUME TypeOK, HoldsEntry, Ownership, RunningJobIsHeld, [Next]_vars
               PROVE  RunningJobIsHeld'
    OBVIOUS
  <2>1. CASE UNCHANGED <<workerVars, jobOf>>
    BY <2>1 DEF RunningJobIsHeld, workerVars
  <2>2. running_job # NoJob => wentry # NoEntry
    BY DEF RunningJobIsHeld, Ownership, OneOwner, Busy
  <2>3. CASE \E j \in Jobs, p \in Priority : Push(j, p)
    <3>1. UNCHANGED <<running_job, wentry>> /\ (wpc \in {"run", "unset"} => wpc' = wpc)
      BY <2>3 DEF Push, Woken
    <3> QED
      BY <2>2, <2>3, <3>1, WorkersEntryUntouched DEF RunningJobIsHeld
  <2>4. CASE ThreadJobCancelled
    <3>1. UNCHANGED workerVars
      BY <2>4 DEF ThreadJobCancelled
    <3> QED
      BY <2>2, <2>4, <3>1, WorkersEntryUntouched DEF RunningJobIsHeld, workerVars
  <2>5. ASSUME NEW j \in Jobs, NEW p \in Priority, UpdateFind(j, p)
        PROVE  RunningJobIsHeld'
    BY <2>1, <2>5 DEF UpdateFind, entryVars
  <2>6. ASSUME NEW j \in Jobs, Cancel(j)
        PROVE  RunningJobIsHeld'
    BY <2>1, <2>6 DEF Cancel, entryVars
  <2>7. CASE EmitNext
    BY <2>1, <2>7 DEF EmitNext, entryVars
  <2>8. CASE UpdateMove
    BY <2>8 DEF UpdateMove, entryVars, Woken, RunningJobIsHeld
  <2>9. CASE Wait \/ SpuriousWakeup \/ Pop
    BY <2>9 DEF Wait, SpuriousWakeup, Pop, RunningJobIsHeld
  <2>10. CASE Check \/ RunReturns \/ Unset
    BY <2>10 DEF Check, RunReturns, Unset, entryVars, RunningJobIsHeld
  <2>11. CASE Disconnect \/ Unlist \/ Free
    BY <2>11 DEF Disconnect, Unlist, Free, RunningJobIsHeld
  <2>12. CASE UNCHANGED vars
    BY <2>1, <2>12 DEF vars, entryVars
  <2> QED
    BY <2>3, <2>4, <2>5, <2>6, <2>7, <2>8, <2>9, <2>10, <2>11, <2>12
    DEF Next, MainCalls, MainReturns, Worker
<1> QED
  BY <1>1, <1>2, TypeCorrect, OwnershipInvariant, PTL DEF Spec

\* Every live entry can be found by update_job and by a cancel until the
\* worker has begun to destroy it.
THEOREM ListedWhileLiveAlways == Spec => []ListedWhileLive
<1>1. Init => ListedWhileLive
  BY DEF Init, ListedWhileLive, Live
<1>2. TypeOK /\ HoldsEntry /\ Ownership /\ ListedWhileLive /\ [Next]_vars
      => ListedWhileLive'
  <2> SUFFICES ASSUME TypeOK, HoldsEntry, Ownership, ListedWhileLive, [Next]_vars
               PROVE  ListedWhileLive'
    OBVIOUS
  <2>1. CASE UNCHANGED <<pushed, freed, job_list, handlers, wpc, wentry>>
    BY <2>1 DEF ListedWhileLive, Live
  <2>2. ASSUME NEW j \in Jobs, NEW p \in Priority, Push(j, p)
        PROVE  ListedWhileLive'
    <3> DEFINE n == pushed + 1
    <3>1. Live' = Live \union {n}
      <4>1. n \notin freed /\ pushed \in Nat /\ 1 .. n = (1 .. pushed) \union {n}
        BY DEF Ownership, TypeOK
      <4>2. pushed' = n /\ freed' = freed
        BY <2>2 DEF Push
      <4> QED
        BY <4>1, <4>2 DEF Live
    <3>2. /\ job_list' = job_list \union {n} /\ handlers' = handlers \union {n}
          /\ wentry' = wentry
          /\ wpc' \in {"unlist", "free"} => wpc' = wpc
          /\ wpc \in {"unlist", "free"} => wpc' = wpc
      BY <2>2 DEF Push, Woken
    <3>3. wentry # n
      BY DEF Ownership, OneOwner, Live, TypeOK, NoEntry
    <3> HIDE DEF n
    <3> QED
      BY <3>1, <3>2, <3>3 DEF ListedWhileLive
  <2>3. ASSUME NEW j \in Jobs, NEW p \in Priority, UpdateFind(j, p)
        PROVE  ListedWhileLive'
    BY <2>1, <2>3 DEF UpdateFind, entryVars, workerVars
  <2>4. ASSUME NEW j \in Jobs, Cancel(j)
        PROVE  ListedWhileLive'
    BY <2>1, <2>4 DEF Cancel, entryVars, workerVars
  <2>5. CASE UpdateMove
    BY <2>5 DEF UpdateMove, entryVars, Woken, ListedWhileLive, Live
  <2>6. CASE EmitNext
    BY <2>1, <2>6 DEF EmitNext, entryVars, workerVars
  <2>7. CASE ThreadJobCancelled
    <3>1. mentry \in Entry /\ priority[mentry] \in Priority
      BY <2>7 DEF TypeOK, HoldsEntry, ThreadJobCancelled
    <3>2. CASE UNCHANGED <<freed, job_list, handlers>>
      BY <2>1, <2>7, <3>2 DEF ThreadJobCancelled, workerVars
    <3>3. CASE /\ InQueue(mentry, priority[mentry])
               /\ handlers' = handlers \ {mentry}
               /\ job_list' = job_list \ {mentry}
               /\ freed' = freed \union {mentry}
      <4>1. mentry # wentry
        BY <3>1, <3>3 DEF Queued, Ownership, OneOwner, NoEntry, Entry
      <4>2. Live' = Live \ {mentry} /\ UNCHANGED <<wpc, wentry>>
        BY <2>7, <3>3 DEF Live, ThreadJobCancelled, workerVars
      <4> QED
        BY <3>3, <4>1, <4>2 DEF ListedWhileLive
    <3> QED
      BY <2>7, <3>2, <3>3 DEF ThreadJobCancelled, JobFree
  <2>8. CASE Pop
    BY <2>8 DEF Pop, entryVars, ListedWhileLive, Live
  <2>9. CASE Wait \/ SpuriousWakeup
    BY <2>9 DEF Wait, SpuriousWakeup, entryVars, ListedWhileLive, Live
  <2>10. CASE Check \/ RunReturns \/ Unset
    BY <2>10 DEF Check, RunReturns, Unset, entryVars, ListedWhileLive, Live
  <2>11. CASE Disconnect \/ Unlist
    BY <2>11 DEF Disconnect, Unlist, entryVars, ListedWhileLive, Live
  <2>12. CASE Free
    <3>1. Live' = Live \ {wentry} /\ UNCHANGED <<job_list, handlers>> /\ wpc = "free"
      BY <2>12 DEF Free, JobFree, Live
    <3>2. wpc' = "pop"
      BY <2>12 DEF Free
    <3> QED
      BY <3>1, <3>2 DEF ListedWhileLive
  <2>13. CASE UNCHANGED vars
    BY <2>1, <2>13 DEF vars, entryVars, workerVars
  <2> QED
    BY <2>2, <2>3, <2>4, <2>5, <2>6, <2>7, <2>8, <2>9, <2>10, <2>11, <2>12, <2>13
    DEF Next, MainCalls, MainReturns, Worker
<1> QED
  BY <1>1, <1>2, TypeCorrect, OwnershipInvariant, PTL DEF Spec

-----------------------------------------------------------------------------
(* The order of a queue.                                                   *)

\* FirstComeFirstServed for the queue q of priority p, when prio is the
\* priority of the entries.
InTurn(q, prio, p) ==
  \A i, k \in DOMAIN q :
    i < k /\ prio[q[i]] = p /\ prio[q[k]] = p => q[i] < q[k]

\* Taking an entry out keeps the others in their order.
LEMMA WithoutInTurn ==
  ASSUME NEW q \in Seq(Entry), NEW e, Holds(q, e), NEW prio, NEW p, InTurn(q, prio, p)
  PROVE  InTurn(Without(q, e), prio, p)
<1> DEFINE w == Without(q, e)
<1>1. PICK i \in 1 .. Len(q) :
           /\ w \in Seq(Entry)
           /\ Len(w) = Len(q) - 1
           /\ \A k \in 1 .. (Len(q) - 1) : w[k] = IF k < i THEN q[k] ELSE q[k + 1]
  BY WithoutIsFunction
<1> HIDE DEF w
<1>2. DOMAIN q = 1 .. Len(q) /\ Len(q) \in Nat /\ DOMAIN w = 1 .. (Len(q) - 1)
  BY <1>1, LenProperties
<1> DEFINE from(k) == IF k < i THEN k ELSE k + 1
<1>3. ASSUME NEW k \in 1 .. (Len(q) - 1)
      PROVE  from(k) \in 1 .. Len(q) /\ w[k] = q[from(k)]
  BY <1>1, <1>2
<1>4. \A k, m \in 1 .. (Len(q) - 1) : k < m => from(k) < from(m)
  BY <1>2
<1> HIDE DEF from
<1>5. ASSUME NEW k \in DOMAIN w, NEW m \in DOMAIN w, k < m,
             prio[w[k]] = p, prio[w[m]] = p
      PROVE  w[k] < w[m]
  <2>1. from(k) \in DOMAIN q /\ from(m) \in DOMAIN q /\ from(k) < from(m)
    BY <1>2, <1>3, <1>4, <1>5
  <2>2. w[k] = q[from(k)] /\ w[m] = q[from(m)]
    BY <1>2, <1>3, <1>5
  <2> QED
    BY <1>5, <2>1, <2>2 DEF InTurn
<1> QED
  BY <1>5 DEF InTurn, w

\* A new entry at the tail keeps the order if it is of another priority, or
\* newer than all the queue has.
LEMMA AppendInTurn ==
  ASSUME NEW q \in Seq(Entry), NEW e \in Entry, NEW prio, NEW p, InTurn(q, prio, p),
         prio[e] = p => \A i \in DOMAIN q : q[i] < e
  PROVE  InTurn(Append(q, e), prio, p)
<1> DEFINE w == Append(q, e)
<1>1. /\ w \in Seq(Entry) /\ Len(w) = Len(q) + 1
      /\ \A k \in 1 .. Len(q) : w[k] = q[k]
      /\ w[Len(q) + 1] = e
  BY AppendProperties
<1> HIDE DEF w
<1>2. DOMAIN q = 1 .. Len(q) /\ Len(q) \in Nat /\ DOMAIN w = 1 .. (Len(q) + 1)
  BY <1>1, LenProperties
<1>3. ASSUME NEW k \in DOMAIN w, NEW m \in DOMAIN w, k < m,
             prio[w[k]] = p, prio[w[m]] = p
      PROVE  w[k] < w[m]
  <2>1. k \in DOMAIN q /\ w[k] = q[k]
    BY <1>1, <1>2, <1>3
  <2>2. CASE m \in DOMAIN q
    BY <1>1, <1>2, <1>3, <2>1, <2>2 DEF InTurn
  <2>3. CASE m \notin DOMAIN q
    <3>1. w[m] = e
      BY <1>1, <1>2, <2>3
    <3> QED
      BY <1>3, <2>1, <3>1
  <2> QED
    BY <2>2, <2>3
<1> QED
  BY <1>3 DEF InTurn, w

\* So does taking the head.
LEMMA TailInTurn ==
  ASSUME NEW q \in Seq(Entry), q # << >>, NEW prio, NEW p, InTurn(q, prio, p)
  PROVE  InTurn(Tail(q), prio, p)
<1> DEFINE w == Tail(q)
<1>1. /\ Len(q) \in Nat \ {0} /\ DOMAIN q = 1 .. Len(q)
      /\ w \in Seq(Entry) /\ Len(w) = Len(q) - 1
      /\ \A k \in 1 .. Len(w) : w[k] = q[k + 1]
  BY HeadTailProperties, LenProperties, EmptySeq
<1> HIDE DEF w
<1>2. DOMAIN w = 1 .. (Len(q) - 1)
  BY <1>1, LenProperties
<1>3. ASSUME NEW k \in DOMAIN w, NEW m \in DOMAIN w, k < m,
             prio[w[k]] = p, prio[w[m]] = p
      PROVE  w[k] < w[m]
  <2>1. k + 1 \in DOMAIN q /\ m + 1 \in DOMAIN q /\ k + 1 < m + 1
    BY <1>1, <1>2, <1>3
  <2>2. w[k] = q[k + 1] /\ w[m] = q[m + 1]
    BY <1>1, <1>2
  <2> QED
    BY <1>3, <2>1, <2>2 DEF InTurn
<1> QED
  BY <1>3 DEF InTurn, w

\* update_job moves an entry to another queue than that of its pushing: its
\* comparison still holds when it has the mutex, unless the entry was freed.
MovesAway ==
  mpc = "resort" => mentry \in 1 .. pushed
                    /\ (mentry \notin freed => priority[mentry] # mprio)

\* What is queued is live, and so is neither freed nor the worker's.
LEMMA QueuedIsLive ==
  ASSUME TypeOK, Ownership, NEW p \in Priority, NEW i \in DOMAIN job_queue[p]
  PROVE  /\ job_queue[p][i] \in Entry /\ job_queue[p][i] \in 1 .. pushed
         /\ job_queue[p][i] \notin freed /\ job_queue[p][i] # wentry
         /\ InQueue(job_queue[p][i], p)
<1>1. job_queue[p][i] \in Entry
  BY LenProperties, ElementOfSeq DEF TypeOK
<1>2. InQueue(job_queue[p][i], p) /\ Queued(job_queue[p][i])
  BY DEF InQueue, Queued
<1> QED
  BY <1>1, <1>2 DEF Ownership, OneOwner, Live, NoEntry, Entry

\* Every step keeps the comparison of update_job true.
LEMMA NextMovesAway ==
  TypeOK /\ HoldsEntry /\ Ownership /\ ListedWhileLive /\ MovesAway /\ [Next]_vars => MovesAway'
<1> SUFFICES ASSUME TypeOK, HoldsEntry, Ownership, ListedWhileLive, MovesAway, [Next]_vars
             PROVE  MovesAway'
  OBVIOUS
<1>1. CASE mpc' # "resort"
  BY <1>1 DEF MovesAway
<1>2. CASE UNCHANGED <<mpc, mentry, mprio, pushed, freed, priority>>
  BY <1>2 DEF MovesAway
<1>3. ASSUME NEW j \in Jobs, NEW p \in Priority, Push(j, p)
      PROVE  MovesAway'
  BY <1>1, <1>3 DEF Push, mainVars
<1>4. ASSUME NEW j \in Jobs, NEW p \in Priority, UpdateFind(j, p)
      PROVE  MovesAway'
  <2>1. CASE mpc' # "resort"
    BY <1>1, <2>1
  <2>2. CASE mpc' = "resort"
    <3>1. PICK e \in Entry : Found(j, e) /\ priority[e] # p /\ mentry' = e /\ mprio' = p
      BY <1>4, <2>2 DEF UpdateFind
    <3>2. e \in 1 .. pushed
      BY <3>1 DEF Found, EntriesOf, ListedWhileLive, Live
    <3>3. UNCHANGED <<pushed, freed, priority>>
      BY <1>4 DEF UpdateFind, entryVars
    <3> QED
      BY <3>1, <3>2, <3>3 DEF MovesAway
  <2> QED
    BY <2>1, <2>2
<1>5. CASE Free
  <2>1. /\ UNCHANGED <<mpc, mentry, mprio, pushed>> /\ freed' = freed \union {wentry}
        /\ priority' = [priority EXCEPT ![wentry] = 0]
    BY <1>5 DEF Free, JobFree, mainVars
  <2>2. \A e \in Entry : e \notin freed' => priority'[e] = priority[e]
    BY <2>1 DEF TypeOK
  <2> QED
    BY <2>1, <2>2 DEF MovesAway, HoldsEntry
<1>6. CASE \E j \in Jobs : Cancel(j)
  BY <1>1, <1>6 DEF Cancel
<1>7. CASE UpdateMove \/ EmitNext \/ ThreadJobCancelled
  BY <1>1, <1>7 DEF UpdateMove, EmitNext, ThreadJobCancelled
<1>8. CASE Wait \/ SpuriousWakeup \/ Pop \/ Check \/ RunReturns \/ Unset \/ Disconnect \/ Unlist
  BY <1>2, <1>8
  DEF Wait, SpuriousWakeup, Pop, Check, RunReturns, Unset, Disconnect, Unlist, mainVars, entryVars
<1>9. CASE UNCHANGED vars
  BY <1>2, <1>9 DEF vars, mainVars, entryVars
<1> QED
  BY <1>3, <1>4, <1>5, <1>6, <1>7, <1>8, <1>9 DEF Next, MainCalls, MainReturns, Worker

\* The comparison of update_job holds in every state.
LEMMA MovesAwayInvariant == Spec => []MovesAway
<1>1. Init => MovesAway
  BY DEF Init, MovesAway
<1> QED
  BY <1>1, NextMovesAway, TypeCorrect, OwnershipInvariant, ListedWhileLiveAlways, PTL DEF Spec

\* The queues stay in order: one case for each action that changes them, or the
\* priority of an entry.
LEMMA NextInTurn ==
  TypeOK /\ HoldsEntry /\ Ownership /\ MovesAway /\ FirstComeFirstServed /\ [Next]_vars
  => FirstComeFirstServed'
<1> SUFFICES ASSUME TypeOK, HoldsEntry, Ownership, MovesAway, FirstComeFirstServed, [Next]_vars
             PROVE  FirstComeFirstServed'
  OBVIOUS
<1>1. /\ \A p \in Priority : job_queue[p] \in Seq(Entry) /\ InTurn(job_queue[p], priority, p)
      /\ \A p \in Priority : \A i \in DOMAIN job_queue[p] :
           /\ job_queue[p][i] \in Entry /\ job_queue[p][i] <= pushed
           /\ job_queue[p][i] \notin freed /\ job_queue[p][i] # wentry
  BY QueuedIsLive DEF TypeOK, FirstComeFirstServed, InTurn
<1>2. (\A p \in Priority : InTurn(job_queue'[p], priority', p)) => FirstComeFirstServed'
  BY DEF FirstComeFirstServed, InTurn
<1>3. CASE UNCHANGED <<job_queue, priority>>
  BY <1>3 DEF FirstComeFirstServed
<1>4. ASSUME NEW Q \in [Priority -> Seq(Entry)],
             \A q \in Priority : InTurn(Q[q], priority, q),
             NEW p \in Priority, NEW w \in Seq(Entry), InTurn(w, priority, p),
             NEW R, R = [Q EXCEPT ![p] = w]
      PROVE  \A q \in Priority : InTurn(R[q], priority, q)
  BY <1>4
<1>5. ASSUME NEW j \in Jobs, NEW p \in Priority, Push(j, p)
      PROVE  FirstComeFirstServed'
  <2> DEFINE n == pushed + 1
  <2>1. n \in Entry /\ pushed \in Nat
    BY <1>5, SchedulerAssumption DEF TypeOK, Push, Entry
  <2>2. priority' = [priority EXCEPT ![n] = p]
    BY <1>5 DEF Push
  <2>3. job_queue' = [job_queue EXCEPT ![p] = Append(job_queue[p], n)]
    BY <1>5 DEF Push
  <2>4. \A q \in Priority : \A i \in DOMAIN job_queue[q] :
          job_queue[q][i] < n /\ priority'[job_queue[q][i]] = priority[job_queue[q][i]]
    <3> SUFFICES ASSUME NEW q \in Priority, NEW i \in DOMAIN job_queue[q]
                 PROVE  /\ job_queue[q][i] < n
                        /\ priority'[job_queue[q][i]] = priority[job_queue[q][i]]
      OBVIOUS
    <3>1. job_queue[q][i] \in Entry /\ job_queue[q][i] <= pushed
      BY <1>1
    <3>2. job_queue[q][i] < n /\ job_queue[q][i] # n
      BY <2>1, <3>1 DEF Entry
    <3> QED
      BY <2>2, <3>1, <3>2 DEF TypeOK
  <2> HIDE DEF n
  <2>5. \A q \in Priority : InTurn(job_queue[q], priority', q)
    BY <1>1, <2>4 DEF InTurn
  <2>6. InTurn(Append(job_queue[p], n), priority', p)
    BY <1>1, <2>1, <2>4, <2>5, AppendInTurn
  <2>7. \A q \in Priority : InTurn(job_queue'[q], priority', q)
    BY <2>3, <2>5, <2>6 DEF TypeOK
  <2> QED
    BY <1>2, <2>7
<1>6. CASE UpdateMove
  <2> DEFINE e == mentry
             p == priority[mentry]
             m == mprio
             w == Without(job_queue[p], e)
             shorter == [job_queue EXCEPT ![p] = w]
  <2>1. e \in Entry /\ p \in Priority /\ m \in Priority /\ priority' = priority
    BY <1>6 DEF TypeOK, HoldsEntry, UpdateMove, entryVars
  <2>2. CASE UNCHANGED job_queue
    BY <1>3, <2>1, <2>2
  <2>3. CASE e \notin freed /\ InQueue(e, p) /\ job_queue' = [shorter EXCEPT ![m] = Append(@, e)]
    <3>1. p # m
      BY <1>6, <2>3 DEF MovesAway, UpdateMove
    <3>2. p = priority[e] /\ w = Without(job_queue[p], e)
          /\ shorter = [job_queue EXCEPT ![p] = w]
          /\ job_queue' = [shorter EXCEPT ![m] = Append(shorter[m], e)]
      BY <2>3
    <3> HIDE DEF e, p, m, w, shorter
    <3>3. Holds(job_queue[p], e)
      BY <2>3 DEF InQueue, Holds
    <3>4. w \in Seq(Entry) /\ InTurn(w, priority, p)
      BY <1>1, <2>1, <3>2, <3>3, WithoutInTurn, WithoutIsFunction
    <3>5. shorter \in [Priority -> Seq(Entry)]
      BY <2>1, <3>2, <3>4 DEF TypeOK
    <3>6. \A q \in Priority : InTurn(shorter[q], priority, q)
      BY <1>1, <1>4, <2>1, <3>2, <3>4 DEF TypeOK
    <3>7. Append(shorter[m], e) \in Seq(Entry) /\ InTurn(Append(shorter[m], e), priority, m)
      <4>1. shorter[m] \in Seq(Entry)
        BY <2>1, <3>5
      <4> QED
        BY <2>1, <3>1, <3>2, <3>6, <4>1, AppendInTurn, AppendProperties
    <3>8. \A q \in Priority : InTurn(job_queue'[q], priority, q)
      BY <1>4, <2>1, <3>2, <3>5, <3>6, <3>7
    <3> QED
      BY <1>2, <2>1, <3>8
  <2> QED
    BY <1>6, <2>2, <2>3 DEF UpdateMove
<1>7. CASE ThreadJobCancelled
  <2> DEFINE e == mentry
             p == priority[mentry]
             w == Without(job_queue[p], e)
  <2>1. e \in Entry /\ p \in Priority
    BY <1>7 DEF TypeOK, HoldsEntry, ThreadJobCancelled
  <2>2. CASE UNCHANGED <<job_queue, priority>>
    BY <1>3, <2>2
  <2>3. CASE /\ InQueue(e, p)
             /\ job_queue' = [job_queue EXCEPT ![p] = w]
             /\ freed' = freed \union {e} /\ priority' = [priority EXCEPT ![e] = 0]
    <3>1. Holds(job_queue[p], e)
      BY <2>3 DEF InQueue, Holds
    <3>2. w \in Seq(Entry) /\ InTurn(w, priority, p)
      BY <1>1, <2>1, <3>1, WithoutInTurn, WithoutIsFunction
    <3>3. job_queue' = [job_queue EXCEPT ![p] = w]
      BY <2>3
    <3> HIDE DEF w
    <3>4. \A q \in Priority : InTurn(job_queue'[q], priority, q)
      BY <1>1, <1>4, <2>1, <3>2, <3>3 DEF TypeOK
    <3>5. \A f : Holds(w, f) => Holds(job_queue[p], f) /\ f # e
      <4>1. Once(job_queue[p]) /\ job_queue[p] \in Seq(Entry)
        BY <2>1, OnceIsDisjoint DEF TypeOK, Ownership, QueuedOnce, Disjoint
      <4> QED
        BY <3>1, <4>1, WithoutHolds DEF w
    <3>6. ASSUME NEW q \in Priority, NEW i \in DOMAIN job_queue'[q]
          PROVE  priority'[job_queue'[q][i]] = priority[job_queue'[q][i]]
      <4>1. CASE q = p
        <5>1. job_queue'[q] = w
          BY <2>1, <3>3, <4>1 DEF TypeOK
        <5>2. Holds(w, w[i]) /\ w[i] \in Entry
          BY <3>2, <3>6, <5>1, LenProperties, ElementOfSeq DEF Holds
        <5>3. w[i] # e
          BY <3>5, <5>2
        <5> QED
          BY <2>3, <5>1, <5>2, <5>3 DEF TypeOK
      <4>2. CASE q # p
        <5>1. job_queue'[q] = job_queue[q]
          BY <2>1, <3>3, <4>2 DEF TypeOK
        <5>2. job_queue[q][i] # e
          BY <2>1, <2>3, <3>6, <4>2, <5>1 DEF InQueue, Ownership, QueuedOnce
        <5> QED
          BY <1>1, <2>3, <3>6, <5>1, <5>2 DEF TypeOK
      <4> QED
        BY <4>1, <4>2
    <3>7. \A q \in Priority : InTurn(job_queue'[q], priority', q)
      BY <3>4, <3>6 DEF InTurn
    <3> QED
      BY <1>2, <3>7
  <2> QED
    BY <1>7, <2>2, <2>3 DEF ThreadJobCancelled, JobFree
<1>8. CASE Pop
  <2>1. PICK p \in Priority : /\ job_queue[p] # << >>
                              /\ job_queue' = [job_queue EXCEPT ![p] = Tail(job_queue[p])]
    BY <1>8 DEF Pop, MostUrgent, Backlog
  <2>2. Tail(job_queue[p]) \in Seq(Entry) /\ InTurn(Tail(job_queue[p]), priority, p)
    BY <1>1, <2>1, TailInTurn, HeadTailProperties
  <2>3. \A q \in Priority : InTurn(job_queue'[q], priority, q)
    BY <1>1, <1>4, <2>1, <2>2 DEF TypeOK
  <2>4. priority' = priority
    BY <1>8 DEF Pop, entryVars
  <2> QED
    BY <1>2, <2>3, <2>4
<1>9. CASE Free
  <2>1. job_queue' = job_queue /\ priority' = [priority EXCEPT ![wentry] = 0]
    BY <1>9 DEF Free, JobFree
  <2>2. \A q \in Priority : \A i \in DOMAIN job_queue[q] :
          priority'[job_queue[q][i]] = priority[job_queue[q][i]]
    BY <1>1, <2>1 DEF TypeOK
  <2>3. \A q \in Priority : InTurn(job_queue'[q], priority', q)
    BY <1>1, <2>1, <2>2 DEF InTurn
  <2> QED
    BY <1>2, <2>3
<1>10. ASSUME NEW j \in Jobs, NEW p \in Priority, UpdateFind(j, p)
       PROVE  FirstComeFirstServed'
  BY <1>3, <1>10 DEF UpdateFind, entryVars
<1>11. CASE (\E j \in Jobs : Cancel(j)) \/ EmitNext
  BY <1>3, <1>11 DEF Cancel, EmitNext, entryVars
<1>12. CASE Wait \/ SpuriousWakeup \/ Check \/ RunReturns \/ Unset \/ Disconnect \/ Unlist
  BY <1>3, <1>12
  DEF Wait, SpuriousWakeup, Check, RunReturns, Unset, Disconnect, Unlist, entryVars
<1>13. CASE UNCHANGED vars
  BY <1>3, <1>13 DEF vars, entryVars
<1> QED
  BY <1>5, <1>6, <1>7, <1>8, <1>9, <1>10, <1>11, <1>12, <1>13
  DEF Next, MainCalls, MainReturns, Worker

\* The entries of a queue that were never moved are served in the order of their
\* pushes, whatever is moved in, withdrawn or freed around them.
THEOREM FirstComeFirstServedAlways == Spec => []FirstComeFirstServed
<1>1. Init => FirstComeFirstServed
  <2> SUFFICES ASSUME Init PROVE FirstComeFirstServed
    OBVIOUS
  <2>1. \A p \in Priority : DOMAIN job_queue[p] = {}
    BY DEF Init
  <2> QED
    BY <2>1 DEF FirstComeFirstServed
<1> QED
  BY <1>1, NextInTurn, TypeCorrect, OwnershipInvariant, MovesAwayInvariant, PTL DEF Spec

-----------------------------------------------------------------------------
(* The scheduler implements JobPool.                                       *)

\* Class, for the queues Q
ClassIn(Q) ==
  [e \in Entry |-> IF \E p \in Priority : Holds(Q[p], e)
                   THEN CHOOSE p \in Priority : Holds(Q[p], e) ELSE NPriorities]

\* The refinement mapping of the classes says of each state what its queues are.
LEMMA ClassIsClassIn == Class = ClassIn(job_queue) /\ Class' = ClassIn(job_queue')
BY DEF Class, ClassIn, Queued, InQueue, Holds

\* An entry waits in the class of the one queue that holds it.
LEMMA ClassOf ==
  ASSUME NEW Q, Disjoint(Q), NEW e \in Entry
  PROVE  /\ \A p \in Priority : Holds(Q[p], e) => ClassIn(Q)[e] = p
         /\ Nowhere(Q, e) => ClassIn(Q)[e] = NPriorities
<1>1. ASSUME NEW p \in Priority, Holds(Q[p], e)
      PROVE  ClassIn(Q)[e] = p
  <2> DEFINE c == CHOOSE q \in Priority : Holds(Q[q], e)
  <2>1. c \in Priority /\ Holds(Q[c], e)
    BY <1>1
  <2>2. ClassIn(Q)[e] = c
    BY <1>1 DEF ClassIn
  <2> HIDE DEF c
  <2> QED
    BY <1>1, <2>1, <2>2 DEF Disjoint
<1> QED
  BY <1>1 DEF ClassIn, Nowhere

SameBut(R, Q, e) ==
  \A q \in Priority, f \in Entry : f # e => (Holds(R[q], f) <=> Holds(Q[q], f))

\* A change of the queues that concerns one entry changes its class only.
LEMMA ClassChanges ==
  ASSUME NEW Q, Disjoint(Q), NEW R, Disjoint(R), NEW e \in Entry,
         NEW c, ClassIn(R)[e] = c,
         SameBut(R, Q, e)
  PROVE  ClassIn(R) = [ClassIn(Q) EXCEPT ![e] = c]
<1>1. ASSUME NEW f \in Entry, f # e
      PROVE  ClassIn(R)[f] = ClassIn(Q)[f]
  <2>1. CASE Nowhere(Q, f)
    <3>1. Nowhere(R, f)
      BY <1>1, <2>1 DEF Nowhere, SameBut
    <3> QED
      BY <2>1, <3>1, ClassOf
  <2>2. ASSUME NEW p \in Priority, Holds(Q[p], f)
        PROVE  ClassIn(R)[f] = ClassIn(Q)[f]
    <3>1. Holds(R[p], f)
      BY <1>1, <2>2 DEF SameBut
    <3> QED
      BY <2>2, <3>1, ClassOf
  <2> QED
    BY <2>1, <2>2 DEF Nowhere
<1> QED
  BY <1>1 DEF ClassIn

\* Every step of the threads is a step of the pool, or none.
LEMMA PoolStep ==
  ASSUME TypeOK, HoldsEntry, Ownership, [Next]_vars
  PROVE  [Pool!Next]_(Pool!poolVars)
<1> DEFINE Q == job_queue
           R == job_queue'
<1>1. TypeOK' /\ Ownership'
  BY NextTypes, NextOwnership
<1>2. Q \in [Priority -> Seq(Entry)] /\ Disjoint(Q) /\ R \in [Priority -> Seq(Entry)]
  BY <1>1, OnceIsDisjoint DEF TypeOK, Ownership, QueuedOnce
<1>3. Disjoint(R)
  BY <1>1, <1>2, OnceIsDisjoint DEF Ownership, QueuedOnce
<1>4. Class = ClassIn(Q) /\ Class' = ClassIn(R)
  BY ClassIsClassIn
<1>5. /\ Pool!Priority = Priority /\ Pool!Entry = Entry
      /\ \A e \in Entry : Queued(e) => Phase[e] = "waiting"
      /\ \A e \in Entry : Queued(e) <=> ~Nowhere(Q, e)
  <2>1. ASSUME NEW e \in Entry, Queued(e)
        PROVE  Phase[e] = "waiting"
    <3>1. e \in Live /\ e # wentry
      BY <2>1 DEF Ownership, OneOwner, NoEntry, Entry
    <3> QED
      BY <3>1 DEF Phase, Live, TypeOK
  <2> QED
    BY <2>1 DEF Pool!Priority, Pool!Entry, Priority, Entry, Queued, InQueue, Nowhere, Holds
<1>6. CASE UNCHANGED <<job_queue, pushed, freed, wentry>>
  BY <1>6 DEF Pool!poolVars, Phase, Class, Queued, InQueue
<1>7. ASSUME NEW j \in Jobs, NEW p \in Priority, Push(j, p)
      PROVE  Pool!Next
  <2> DEFINE n == pushed + 1
  <2>1. n \in Entry /\ pushed \in Nat
    BY <1>7, SchedulerAssumption DEF TypeOK, Push, Entry
  <2>2. pushed' = n /\ UNCHANGED <<freed, wentry>>
    BY <1>7 DEF Push
  <2>3. n \notin freed /\ n # wentry /\ n # NoEntry
    BY <2>1 DEF Ownership, OneOwner, Live, NoEntry, Entry
  <2>4. Joins(R, Q, p, n)
    BY <1>7, PushOwnership
  <2>5. Phase[n] = "new" /\ Phase' = [Phase EXCEPT ![n] = "waiting"]
    <3>1. Phase'[n] = "waiting" /\ Phase[n] = "new"
      BY <2>1, <2>2, <2>3 DEF Phase
    <3>2. \A f \in Entry : f # n => Phase'[f] = Phase[f]
      BY <2>1, <2>2 DEF Phase, Entry
    <3> HIDE DEF n
    <3> QED
      BY <3>1, <3>2, <2>1 DEF Phase
  <2> HIDE DEF n, Q, R
  <2>6. Class' = [Class EXCEPT ![n] = p]
    <3>1. SameBut(R, Q, n)
      BY <2>4 DEF Joins, SameBut
    <3>2. Holds(R[p], n)
      BY <2>1, <2>4 DEF Joins
    <3>3. ClassIn(R)[n] = p
      BY <1>3, <2>1, <3>2, ClassOf
    <3>4. ClassIn(R) = [ClassIn(Q) EXCEPT ![n] = p]
      BY <1>2, <1>3, <2>1, <3>1, <3>3, ClassChanges
    <3> QED
      BY <1>4, <3>4
  <2>7. Pool!Submit(n, p)
    BY <2>5, <2>6 DEF Pool!Submit, Pool!Move
  <2> QED
    BY <1>5, <2>1, <2>7 DEF Pool!Next
<1>8. CASE UpdateMove
  <2> DEFINE e == mentry
             m == mprio
  <2>1. e \in Entry /\ m \in Priority /\ UNCHANGED <<pushed, freed, wentry>>
    BY <1>8 DEF TypeOK, HoldsEntry, UpdateMove, entryVars
  <2>2. CASE UNCHANGED job_queue
    BY <1>6, <2>1, <2>2
  <2>3. CASE Queued(e) /\ Moves(R, Q, m, e)
    <3>1. Phase' = Phase /\ Phase[e] = "waiting"
      BY <1>5, <2>1, <2>3 DEF Phase
    <3> HIDE DEF Q, R, e, m
    <3>2. Class' = [Class EXCEPT ![e] = m]
      <4>1. SameBut(R, Q, e)
        BY <2>3 DEF Moves, SameBut
      <4>2. Holds(R[m], e)
        BY <2>1, <2>3 DEF Moves
      <4>3. ClassIn(R)[e] = m
        BY <1>3, <2>1, <4>2, ClassOf
      <4>4. ClassIn(R) = [ClassIn(Q) EXCEPT ![e] = m]
        BY <1>2, <1>3, <2>1, <4>1, <4>3, ClassChanges
      <4> QED
        BY <1>4, <4>4
    <3>3. Pool!Reclass(e, m)
      BY <3>1, <3>2 DEF Pool!Reclass
    <3> QED
      BY <1>5, <2>1, <3>3 DEF Pool!Next
  <2> QED
    BY <1>8, <2>2, <2>3, MoveOwnership
<1>9. ASSUME NEW e \in Entry, Leaves(R, Q, e)
      PROVE  Class' = [Class EXCEPT ![e] = NPriorities]
  <2> HIDE DEF Q, R
  <2>1. SameBut(R, Q, e)
    BY <1>9 DEF Leaves, SameBut
  <2>2. Nowhere(R, e)
    BY <1>9 DEF Leaves, Nowhere
  <2>3. ClassIn(R)[e] = NPriorities
    BY <1>3, <1>9, <2>2, ClassOf
  <2>4. ClassIn(R) = [ClassIn(Q) EXCEPT ![e] = NPriorities]
    BY <1>2, <1>3, <2>1, <2>3, ClassChanges
  <2> QED
    BY <1>4, <2>4
<1>10. CASE ThreadJobCancelled
  <2> DEFINE e == mentry
  <2>1. e \in Entry /\ UNCHANGED <<pushed, wentry>>
    BY <1>10 DEF TypeOK, HoldsEntry, ThreadJobCancelled, workerVars
  <2>2. CASE UNCHANGED <<job_queue, freed>>
    BY <1>6, <2>1, <2>2
  <2>3. CASE Queued(e) /\ Leaves(R, Q, e) /\ freed' = freed \union {e}
    <3>1. Class' = [Class EXCEPT ![e] = NPriorities]
      BY <1>9, <2>1, <2>3
    <3>2. e \in 1 .. pushed
      BY <2>1, <2>3 DEF Ownership, OneOwner, Live
    <3>3. Phase[e] = "waiting" /\ Phase' = [Phase EXCEPT ![e] = "retired"]
      <4>1. Phase'[e] = "retired" /\ Phase[e] = "waiting"
        BY <1>5, <2>1, <2>3, <3>2 DEF Phase, TypeOK
      <4>2. \A f \in Entry : f # e => Phase'[f] = Phase[f]
        BY <2>1, <2>3 DEF Phase
      <4> QED
        BY <2>1, <4>1, <4>2 DEF Phase
    <3>4. Pool!Withdraw(e)
      BY <3>1, <3>3 DEF Pool!Withdraw, Pool!Move
    <3> QED
      BY <1>5, <2>1, <3>4 DEF Pool!Next
  <2> QED
    BY <1>10, <2>2, <2>3, CancelledOwnership DEF ThreadJobCancelled, JobFree
<1>11. CASE Pop
  <2>1. PICK p \in Priority : MostUrgent(p) /\ wentry' = Head(Q[p])
    BY <1>11 DEF Pop
  <2> DEFINE e == wentry'
  <2>2. wpc = "pop" /\ wpc' = "check" /\ UNCHANGED <<pushed, freed>> /\ wentry = NoEntry
    BY <1>11 DEF Pop, entryVars, Ownership, OneOwner, Busy
  <2>3. e \in Entry /\ Holds(Q[p], e)
    <3>1. Q[p] \in Seq(Entry) /\ Q[p] # << >>
      BY <1>2, <2>1 DEF MostUrgent, Backlog
    <3> QED
      BY <1>2, <2>1, <3>1, TailHolds DEF Disjoint
  <2>4. Leaves(R, Q, e)
    BY <1>11, PopOwnership
  <2>5. Class' = [Class EXCEPT ![e] = NPriorities]
    BY <1>9, <2>3, <2>4
  <2>6. Queued(e) /\ e \in 1 .. pushed /\ e \notin freed
    <3>1. Queued(e)
      BY <1>5, <2>3 DEF Nowhere
    <3> QED
      BY <2>3, <3>1 DEF Ownership, OneOwner, Live
  <2>7. Phase[e] = "waiting" /\ Phase' = [Phase EXCEPT ![e] = "running"]
    <3>1. Phase'[e] = "running" /\ Phase[e] = "waiting"
      BY <1>5, <2>2, <2>3, <2>6 DEF Phase, TypeOK
    <3>2. \A f \in Entry : f # e => Phase'[f] = Phase[f]
      BY <2>2 DEF Phase, NoEntry, Entry
    <3> QED
      BY <2>3, <3>1, <3>2 DEF Phase
  <2>8. ASSUME NEW f \in Entry
        PROVE  Phase[f] # "running" /\ Class[e] <= Class[f]
    <3>1. Phase[f] # "running"
      BY <2>2 DEF Phase, NoEntry, Entry
    <3>2. Class[e] = p
      BY <1>2, <1>4, <2>3, ClassOf
    <3>3. CASE Nowhere(Q, f)
      <4>1. Class[f] = NPriorities
        BY <1>2, <1>4, <3>3, ClassOf
      <4> QED
        BY <3>1, <3>2, <4>1, SchedulerAssumption DEF Priority
    <3>4. ASSUME NEW q \in Priority, Holds(Q[q], f)
          PROVE  Class[e] <= Class[f]
      <4>1. Class[f] = q
        BY <1>2, <1>4, <3>4, ClassOf
      <4>2. q \in Backlog
        BY <3>4 DEF Backlog, Holds
      <4> QED
        BY <2>1, <3>2, <4>1, <4>2 DEF MostUrgent
    <3> QED
      BY <3>1, <3>3, <3>4 DEF Nowhere
  <2> HIDE DEF e
  <2>9. Pool!Start(e)
    BY <1>5, <2>5, <2>7, <2>8 DEF Pool!Start, Pool!Move
  <2> QED
    BY <1>5, <2>3, <2>9 DEF Pool!Next
<1>12. CASE Free
  <2> DEFINE e == wentry
  <2>1. e \in Entry /\ e \in Live
    BY <1>12 DEF Free, Busy, HoldsEntry, Ownership, OneOwner, NoEntry, Entry
  <2>2. /\ freed' = freed \union {e} /\ wentry' = NoEntry /\ UNCHANGED <<pushed, job_queue>>
    BY <1>12 DEF Free, JobFree
  <2>3. Phase[e] = "running" /\ Phase' = [Phase EXCEPT ![e] = "retired"]
    <3>1. Phase'[e] = "retired" /\ Phase[e] = "running"
      BY <2>1, <2>2 DEF Phase, Live, TypeOK
    <3>2. \A f \in Entry : f # e => Phase'[f] = Phase[f]
      BY <2>1, <2>2 DEF Phase, NoEntry, Entry
    <3> QED
      BY <2>1, <3>1, <3>2 DEF Phase
  <2>4. Class' = Class
    BY <2>2 DEF Class, Queued, InQueue
  <2>5. Pool!Retire(e)
    BY <2>3, <2>4 DEF Pool!Retire, Pool!Move
  <2> QED
    BY <1>5, <2>1, <2>5 DEF Pool!Next
<1>13. ASSUME NEW j \in Jobs, NEW p \in Priority, UpdateFind(j, p)
       PROVE  [Pool!Next]_(Pool!poolVars)
  BY <1>6, <1>13 DEF UpdateFind, entryVars, workerVars
<1>14. CASE (\E j \in Jobs : Cancel(j)) \/ EmitNext
  BY <1>6, <1>14 DEF Cancel, EmitNext, entryVars, workerVars
<1>15. CASE Wait \/ SpuriousWakeup \/ Check \/ RunReturns \/ Unset \/ Disconnect \/ Unlist
  BY <1>6, <1>15
  DEF Wait, SpuriousWakeup, Check, RunReturns, Unset, Disconnect, Unlist, entryVars
<1>16. CASE UNCHANGED vars
  BY <1>6, <1>16 DEF vars, entryVars, workerVars
<1> QED
  BY <1>7, <1>8, <1>10, <1>11, <1>12, <1>13, <1>14, <1>15, <1>16
  DEF Next, MainCalls, MainReturns, Worker

\* For any number of jobs, priorities and pushes the two threads, their queues
\* and their list are a pool: what starts is of the most urgent class that has
\* any, one runs at a time, and what was withdrawn or has run never runs again.
THEOREM SchedulerIsPool == Spec => PoolSpec
<1>1. Init => Pool!Init
  <2> SUFFICES ASSUME Init PROVE Pool!Init
    OBVIOUS
  <2>1. \A e \in Entry : ~Queued(e) /\ e > pushed
    BY DEF Init, Queued, InQueue, Entry
  <2> QED
    BY <2>1 DEF Pool!Init, Pool!Entry, Entry, Phase, Class
<1>2. TypeOK /\ HoldsEntry /\ Ownership /\ [Next]_vars => [Pool!Next]_(Pool!poolVars)
  BY PoolStep
<1> QED
  BY <1>1, <1>2, TypeCorrect, OwnershipInvariant, PTL DEF Spec, PoolSpec, Pool!Spec
=============================================================================
