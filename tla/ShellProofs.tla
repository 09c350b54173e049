------------------------------ MODULE ShellProofs ------------------------------
(***************************************************************************)
(* Theorems about EvWindowLoad, for a file, a keyring and a user of any    *)
(* kind: a window with a local file hears of one reload job only, follows  *)
(* the destinations in the order in which they were asked for, and is      *)
(* never told of a load it has given up.  And about EvDaemon, for any      *)
(* processes, documents and clients: a document has one owner, of whom the *)
(* daemon knows.                                                           *)
(***************************************************************************)
EXTENDS EvWindowLoad, EvDaemon, WellFoundedInduction, FiniteSetTheorems, TLAPS

-----------------------------------------------------------------------------
(* Induction.  A non-empty set of naturals has a least element: the        *)
(* library's well-founded minimum, with the order written out.             *)

LEMMA Least ==
  ASSUME NEW T \in SUBSET Nat, T # {}
  PROVE  \E x \in T : \A y \in T : x <= y
<1> DEFINE R == OpToRel(<, Nat)
<1>1. \E x \in T : \A y \in T : ~(<<y, x>> \in R)
  BY WFMin, NatLessThanWellFounded
<1>2. R = {ss \in Nat \X Nat : ss[1] < ss[2]}
  BY Zenon DEF OpToRel
<1> HIDE DEF R
<1>3. ASSUME NEW x \in Nat, NEW y \in Nat, y < x PROVE <<y, x>> \in R
  <2>1. <<y, x>> \in Nat \X Nat /\ <<y, x>>[1] < <<y, x>>[2]
    BY <1>3
  <2> QED
    BY <1>2, <2>1, Zenon
<1>4. PICK x \in T : \A y \in T : ~(<<y, x>> \in R)
  BY <1>1
<1>5. ASSUME NEW y \in T PROVE x <= y
  <2>1. x \in Nat /\ y \in Nat
    OBVIOUS
  <2>2. ~(y < x)
    BY <1>3, <1>4, <2>1, Zenon
  <2> QED
    BY <2>1, <2>2
<1> QED
  BY <1>5

\* A set of naturals that has 0 and with every number the next one has them all.
LEMMA AllNaturals ==
  ASSUME NEW T \in SUBSET Nat, 0 \in T, \A n \in T : n + 1 \in T
  PROVE  T = Nat
<1> SUFFICES ASSUME Nat \ T # {} PROVE FALSE
  OBVIOUS
<1>1. PICK m \in Nat \ T : \A n \in Nat \ T : m <= n
  BY Least
<1>2. m # 0 /\ m - 1 \in Nat
  OBVIOUS
<1>3. m - 1 \in T
  BY <1>1, <1>2
<1> QED
  BY <1>2, <1>3

-----------------------------------------------------------------------------
(* The queue without some jobs.                                            *)

\* The function that Without defines, as far as it goes.
Keeps(f, q, gone, n) ==
  f = [i \in 0 .. n |-> IF i = 0 THEN <<>>
                        ELSE IF i \in gone THEN f[i - 1] ELSE Append(f[i - 1], q[i])]

\* There is such a function.
LEMMA KeepsExists == \A q, gone : \A n \in Nat : \E f : Keeps(f, q, gone, n)
<1> SUFFICES ASSUME NEW q, NEW gone PROVE \A n \in Nat : \E f : Keeps(f, q, gone, n)
  OBVIOUS
<1> DEFINE T == {n \in Nat : \E f : Keeps(f, q, gone, n)}
<1>1. 0 \in T
  <2> DEFINE f == [i \in 0 .. 0 |-> <<>>]
  <2>1. Keeps(f, q, gone, 0)
    BY DEF Keeps
  <2> QED
    BY <2>1
<1>2. ASSUME NEW n \in T PROVE n + 1 \in T
  <2>1. PICK f : Keeps(f, q, gone, n)
    OBVIOUS
  <2> DEFINE g == [i \in 0 .. (n + 1) |->
                     IF i = n + 1 THEN IF n + 1 \in gone THEN f[n] ELSE Append(f[n], q[n + 1])
                     ELSE f[i]]
  <2>2. ASSUME NEW i \in 0 .. (n + 1)
        PROVE  g[i] = IF i = 0 THEN <<>>
                      ELSE IF i \in gone THEN g[i - 1] ELSE Append(g[i - 1], q[i])
    <3>1. CASE i = n + 1
      BY <3>1
    <3>2. CASE i # n + 1
      <4>1. i \in 0 .. n /\ (i # 0 => i - 1 \in 0 .. n /\ i - 1 # n + 1)
        BY <3>2
      <4>2. f[i] = IF i = 0 THEN <<>>
                   ELSE IF i \in gone THEN f[i - 1] ELSE Append(f[i - 1], q[i])
        BY <2>1, <4>1 DEF Keeps
      <4> QED
        BY <3>2, <4>1, <4>2
    <3> QED
      BY <3>1, <3>2
  <2>3. Keeps(g, q, gone, n + 1)
    BY <2>2 DEF Keeps
  <2> QED
    BY <2>3
<1> HIDE DEF T
<1>3. T = Nat
  BY <1>1, <1>2, AllNaturals DEF T
<1> QED
  BY <1>3 DEF T

\* What is left comes from other places than those that are gone, up to n, in their
\* order.
Left(r, q, gone, n) ==
  /\ \A i \in DOMAIN r : \E a \in (1 .. n) \ gone : r[i] = q[a]
  /\ \A i, k \in DOMAIN r : i < k =>
       \E a, b \in (1 .. n) \ gone : a < b /\ r[i] = q[a] /\ r[k] = q[b]

\* One more place that is gone, and one more that is left.
LEMMA LeftOne ==
  ASSUME NEW S, NEW q \in Seq(S), NEW gone, NEW n \in Nat, n + 1 <= Len(q),
         NEW r \in Seq(S), Left(r, q, gone, n)
  PROVE  /\ Left(r, q, gone, n + 1)
         /\ n + 1 \notin gone => Left(Append(r, q[n + 1]), q, gone, n + 1)
<1>1. (1 .. n) \ gone \subseteq (1 .. (n + 1)) \ gone
  OBVIOUS
<1>2. Left(r, q, gone, n + 1)
  <2>1. ASSUME NEW i \in DOMAIN r PROVE \E a \in (1 .. (n + 1)) \ gone : r[i] = q[a]
    BY <1>1, Zenon DEF Left
  <2>2. ASSUME NEW i \in DOMAIN r, NEW k \in DOMAIN r, i < k
        PROVE  \E a, b \in (1 .. (n + 1)) \ gone : a < b /\ r[i] = q[a] /\ r[k] = q[b]
    <3>1. PICK a \in (1 .. n) \ gone, b \in (1 .. n) \ gone :
            a < b /\ r[i] = q[a] /\ r[k] = q[b]
      BY <2>2, Zenon DEF Left
    <3>2. a \in (1 .. (n + 1)) \ gone /\ b \in (1 .. (n + 1)) \ gone
      BY <1>1
    <3> QED
      BY <3>1, <3>2
  <2> QED
    BY <2>1, <2>2 DEF Left
<1>3. ASSUME n + 1 \notin gone PROVE Left(Append(r, q[n + 1]), q, gone, n + 1)
  <2> DEFINE e == q[n + 1]
             t == Append(r, e)
  <2>1. /\ DOMAIN t = 1 .. (Len(r) + 1) /\ DOMAIN r = 1 .. Len(r) /\ Len(r) \in Nat
        /\ t[Len(r) + 1] = e /\ \A i \in 1 .. Len(r) : t[i] = r[i]
    <3>1. e \in S
      OBVIOUS
    <3> QED
      BY <3>1
  <2>2. n + 1 \in (1 .. (n + 1)) \ gone
    BY <1>3
  <2> HIDE DEF t
  <2>3. ASSUME NEW i \in DOMAIN t PROVE \E a \in (1 .. (n + 1)) \ gone : t[i] = q[a]
    <3>1. CASE i = Len(r) + 1
      BY <2>1, <2>2, <3>1
    <3>2. CASE i \in DOMAIN r
      BY <1>2, <2>1, <3>2 DEF Left
    <3> QED
      BY <2>1, <3>1, <3>2
  <2>4. ASSUME NEW i \in DOMAIN t, NEW k \in DOMAIN t, i < k
        PROVE  \E a, b \in (1 .. (n + 1)) \ gone : a < b /\ t[i] = q[a] /\ t[k] = q[b]
    <3>1. i \in DOMAIN r
      BY <2>1, <2>4
    <3>2. CASE k = Len(r) + 1
      <4>1. PICK a \in (1 .. n) \ gone : r[i] = q[a]
        BY <3>1 DEF Left
      <4>2. a < n + 1 /\ a \in (1 .. (n + 1)) \ gone
        OBVIOUS
      <4>3. t[i] = q[a] /\ t[k] = q[n + 1]
        BY <2>1, <3>1, <3>2, <4>1
      <4> QED
        BY <2>2, <4>2, <4>3
    <3>3. CASE k \in DOMAIN r
      <4>1. PICK a \in (1 .. (n + 1)) \ gone, b \in (1 .. (n + 1)) \ gone :
              a < b /\ r[i] = q[a] /\ r[k] = q[b]
        BY <1>2, <2>4, <3>1, <3>3, Zenon DEF Left
      <4>2. t[i] = r[i] /\ t[k] = r[k]
        BY <2>1, <3>1, <3>3
      <4> QED
        BY <4>1, <4>2
    <3> QED
      BY <2>1, <3>2, <3>3
  <2> QED
    BY <2>3, <2>4 DEF Left, t
<1> QED
  BY <1>2, <1>3

\* What is left of a queue is a queue of jobs that were not gone, in their order.
LEMMA WithoutLeaves ==
  ASSUME NEW S, NEW q \in Seq(S), NEW gone
  PROVE  Without(q, gone) \in Seq(S) /\ Left(Without(q, gone), q, gone, Len(q))
<1> DEFINE kept == CHOOSE f : Keeps(f, q, gone, Len(q))
<1>1. Without(q, gone) = kept[Len(q)]
  BY DEF Without, Keeps
<1>2. Keeps(kept, q, gone, Len(q))
  BY KeepsExists
<1> HIDE DEF kept
<1> DEFINE T == {n \in Nat : n <= Len(q) => kept[n] \in Seq(S) /\ Left(kept[n], q, gone, n)}
<1>3. 0 \in T
  <2>1. kept[0] = <<>>
    BY <1>2 DEF Keeps
  <2>2. kept[0] \in Seq(S) /\ DOMAIN kept[0] = {}
    BY <2>1
  <2> QED
    BY <2>2 DEF Left
<1>4. ASSUME NEW n \in T PROVE n + 1 \in T
  <2> SUFFICES ASSUME n + 1 <= Len(q)
               PROVE  kept[n + 1] \in Seq(S) /\ Left(kept[n + 1], q, gone, n + 1)
    OBVIOUS
  <2>1. kept[n] \in Seq(S) /\ Left(kept[n], q, gone, n)
    OBVIOUS
  <2>2. q[n + 1] \in S
    OBVIOUS
  <2>3. kept[n + 1] = IF n + 1 \in gone THEN kept[n] ELSE Append(kept[n], q[n + 1])
    <3>1. n + 1 \in 0 .. Len(q) /\ n + 1 # 0 /\ (n + 1) - 1 = n
      OBVIOUS
    <3> HIDE DEF T
    <3> QED
      BY <1>2, <3>1 DEF Keeps
  <2> QED
    BY <2>1, <2>2, <2>3, LeftOne
<1> HIDE DEF T
<1>5. T = Nat
  BY <1>3, <1>4, AllNaturals DEF T
<1> QED
  BY <1>1, <1>5 DEF T

-----------------------------------------------------------------------------
(* The inductive invariant of the window.                                  *)

Results == {"ok", "failed", "encrypted"}
FileStates == [version : Nat, writing : BOOLEAN, remote : BOOLEAN, mounted : BOOLEAN,
               secret : BOOLEAN, keyring : Passwords]
LoadJobs == [has : BOOLEAN, password : Passwords, from : {"file", "copy"}, result : Results,
             doc : Int]
Windows == [uri : BOOLEAN, doc : Int, mode : {"document", "password"}, setup : BOOLEAN,
            dest : Nat, seen : Nat, load : LoadJobs, copy : Int, mtime : Int,
            area : {"none", "message", "progress"}, progress : BOOLEAN, cancelled : BOOLEAN,
            loading : {"hidden", "timer", "shown"}, dialogs : Nat, sensitive : BOOLEAN,
            keep : BOOLEAN, monitor : BOOLEAN, events : Seq({"changed", "done"}),
            timer : BOOLEAN, missed : BOOLEAN, aborted : BOOLEAN, calls : Nat]
QueueJobs == [kind : {"load", "reload"}, ran : BOOLEAN, mine : BOOLEAN,
              from : {"file", "copy", "nothing"}, result : Results, doc : Int]
LoaderStates == [f : FileStates, w : Windows, q : Seq(QueueJobs), o : [OpKinds -> Nat]]

HasLoad(q) == \E i \in DOMAIN q : q[i].kind = "load"
HasReload(q) == \E i \in DOMAIN q : q[i].kind = "reload"

\* The remote file is being fetched for the load, or its volume mounted.
Fetching(s) == s.o["copy"] + s.o["mount"] > 0

\* Destinations have the numbers of the calls that asked for them.
InTurn(s) == /\ s.w.dest <= s.w.calls /\ s.w.seen <= s.w.calls
             /\ s.w.dest = Nowhere \/ s.w.dest > s.w.seen

\* Only the last reload job can be the window's own, and there is no other unless the file
\* is remote; nothing is fetched then.
LastIsOwn(q) ==
  \A i, k \in DOMAIN q : q[i].kind = "reload" /\ q[k].kind = "reload" /\ i < k => ~q[i].mine
OneReload(s) ==
  /\ LastIsOwn(s.q)
  /\ \/ s.f.remote
     \/ /\ \A i, k \in DOMAIN s.q :
             s.q[i].kind = "reload" /\ s.q[k].kind = "reload" => i = k /\ s.q[i].mine
        /\ s.w.copy = NoCopy /\ \A kind \in OpKinds : s.o[kind] = 0

\* A window without a file loads nothing and asks for nothing.  It fetches one file at a
\* time, for a load job that it has and has not pushed, before any password is asked for.
Calm(s) == ~HasLoad(s.q) /\ s.w.dialogs = 0 /\ s.w.mode = "document"
OneFetch(s) ==
  /\ HasLoad(s.q) => s.w.load.has
  /\ s.o["copy"] + s.o["mount"] <= 1
  /\ Fetching(s) => s.w.uri /\ s.w.load.has /\ Calm(s)
  /\ ~s.w.uri => ~Fetching(s) /\ Calm(s)

Tracks(s) == s \in LoaderStates /\ InTurn(s) /\ OneReload(s) /\ OneFetch(s)

-----------------------------------------------------------------------------
(* The operations of the window.                                           *)

\* What is left of a queue has no job at a place that is gone, and of reload jobs, when
\* there was one at most, no second one.
LEMMA QueueLeft ==
  ASSUME NEW q \in Seq(QueueJobs), NEW gone
  PROVE  /\ Without(q, gone) \in Seq(QueueJobs)
         /\ \A i \in DOMAIN Without(q, gone) :
              \E a \in DOMAIN q \ gone : Without(q, gone)[i] = q[a]
         /\ \A i, k \in DOMAIN Without(q, gone) : i # k =>
              \E a, b \in DOMAIN q \ gone :
                a # b /\ Without(q, gone)[i] = q[a] /\ Without(q, gone)[k] = q[b]
         /\ LastIsOwn(q) => LastIsOwn(Without(q, gone))
<1> DEFINE r == Without(q, gone)
<1>1. r \in Seq(QueueJobs) /\ Left(r, q, gone, Len(q))
  BY WithoutLeaves
<1> HIDE DEF r
<1>2. DOMAIN q = 1 .. Len(q) /\ DOMAIN r = 1 .. Len(r)
  BY <1>1
<1>3. ASSUME NEW i \in DOMAIN r PROVE \E a \in DOMAIN q \ gone : r[i] = q[a]
  BY <1>1, <1>2, Zenon DEF Left
<1>4. ASSUME NEW i \in DOMAIN r, NEW k \in DOMAIN r, i # k
      PROVE  \E a, b \in DOMAIN q \ gone : a # b /\ r[i] = q[a] /\ r[k] = q[b]
  <2>1. \A j, l \in DOMAIN r : j < l =>
          \E a, b \in (1 .. Len(q)) \ gone : a < b /\ r[j] = q[a] /\ r[l] = q[b]
    BY <1>1, Zenon DEF Left
  <2>2. CASE i < k
    <3>1. PICK a \in (1 .. Len(q)) \ gone, b \in (1 .. Len(q)) \ gone :
            a < b /\ r[i] = q[a] /\ r[k] = q[b]
      BY <2>1, <2>2, Zenon
    <3>2. a # b /\ a \in DOMAIN q \ gone /\ b \in DOMAIN q \ gone
      BY <1>2, <3>1
    <3> QED
      BY <3>1, <3>2
  <2>3. CASE k < i
    <3>1. PICK a \in (1 .. Len(q)) \ gone, b \in (1 .. Len(q)) \ gone :
            a < b /\ r[k] = q[a] /\ r[i] = q[b]
      BY <2>1, <2>3, Zenon
    <3>2. a # b /\ a \in DOMAIN q \ gone /\ b \in DOMAIN q \ gone
      BY <1>2, <3>1
    <3> QED
      BY <3>1, <3>2
  <2> QED
    BY <1>2, <1>4, <2>2, <2>3
<1>5. ASSUME LastIsOwn(q) PROVE LastIsOwn(r)
  <2>1. \A j, l \in DOMAIN r : j < l =>
          \E a, b \in (1 .. Len(q)) \ gone : a < b /\ r[j] = q[a] /\ r[l] = q[b]
    BY <1>1, Zenon DEF Left
  <2>2. ASSUME NEW j \in DOMAIN r, NEW l \in DOMAIN r, j < l,
               r[j].kind = "reload", r[l].kind = "reload"
        PROVE  ~r[j].mine
    <3>1. PICK a \in (1 .. Len(q)) \ gone, b \in (1 .. Len(q)) \ gone :
            a < b /\ r[j] = q[a] /\ r[l] = q[b]
      BY <2>1, <2>2, Zenon
    <3>2. a \in DOMAIN q /\ b \in DOMAIN q
      BY <1>2, <3>1
    <3> QED
      BY <1>5, <2>2, <3>1, <3>2 DEF LastIsOwn
  <2> QED
    BY <2>2 DEF LastIsOwn
<1> QED
  BY <1>1, <1>3, <1>4, <1>5 DEF r

\* Another queue.
LEMMA OtherQueue ==
  ASSUME NEW s \in LoaderStates, NEW r \in Seq(QueueJobs)
  PROVE  LET c == [s EXCEPT !.q = r]
         IN  c \in LoaderStates /\ c.f = s.f /\ c.o = s.o /\ c.w = s.w /\ c.q = r
BY DEF LoaderStates

\* One more call of GIO, or one less.
LEMMA OtherCalls ==
  ASSUME NEW s \in LoaderStates, NEW kind \in OpKinds, NEW n \in Nat
  PROVE  LET c == [s EXCEPT !.o[kind] = n]
         IN  /\ c \in LoaderStates /\ c.f = s.f /\ c.w = s.w /\ c.q = s.q
             /\ \A other \in OpKinds : c.o[other] = IF other = kind THEN n ELSE s.o[other]
<1>1. s.o \in [OpKinds -> Nat]
  BY DEF LoaderStates
<1>2. [s.o EXCEPT ![kind] = n] \in [OpKinds -> Nat]
  BY <1>1
<1>3. [s EXCEPT !.o[kind] = n] = [s EXCEPT !.o = [s.o EXCEPT ![kind] = n]]
  OBVIOUS
<1> DEFINE o == [s.o EXCEPT ![kind] = n]
<1>4. \A other \in OpKinds : o[other] = IF other = kind THEN n ELSE s.o[other]
  BY <1>1
<1> HIDE DEF o
<1> QED
  BY <1>2, <1>3, <1>4 DEF LoaderStates, o

\* ev_window_clear_load_job: no load job is left, in the window or in the queue.
LEMMA ClearLoadTracks ==
  ASSUME NEW s \in LoaderStates
  PROVE  LET c == ClearLoad(s)
         IN  /\ c \in LoaderStates /\ c.f = s.f /\ c.o = s.o
             /\ c.w = [s.w EXCEPT !.load = NoLoadJob]
             /\ ~HasLoad(c.q) /\ (OneReload(s) => OneReload(c))
<1> DEFINE gone == {i \in DOMAIN s.q : s.q[i].kind = "load"}
           r == Without(s.q, gone)
           c == ClearLoad(s)
<1>1. s.q \in Seq(QueueJobs) /\ s.w \in Windows
  BY DEF LoaderStates
<1> HIDE DEF gone
<1>2. /\ r \in Seq(QueueJobs)
      /\ \A i \in DOMAIN r : \E a \in DOMAIN s.q \ gone : r[i] = s.q[a]
      /\ \A i, k \in DOMAIN r : i # k =>
           \E a, b \in DOMAIN s.q \ gone : a # b /\ r[i] = s.q[a] /\ r[k] = s.q[b]
      /\ LastIsOwn(s.q) => LastIsOwn(r)
  BY <1>1, QueueLeft
<1>3. c = [s EXCEPT !.w.load = NoLoadJob, !.q = r]
  BY DEF ClearLoad, gone
<1> HIDE DEF r, c
<1>4. [s.w EXCEPT !.load = NoLoadJob] \in Windows
  <2>1. NoLoadJob \in LoadJobs
    BY DEF NoLoadJob, LoadJobs, Passwords, Results
  <2> QED
    BY <1>1, <2>1 DEF Windows
<1>5. /\ c \in LoaderStates /\ c.f = s.f /\ c.o = s.o /\ c.q = r
      /\ c.w = [s.w EXCEPT !.load = NoLoadJob]
  BY <1>2, <1>3, <1>4 DEF LoaderStates
<1>6. ~HasLoad(c.q)
  BY <1>2, <1>5 DEF HasLoad, gone
<1>7. ASSUME OneReload(s) PROVE OneReload(c)
  <2>1. c.w.copy = s.w.copy
    BY <1>1, <1>5 DEF Windows
  <2> QED
    BY <1>2, <1>5, <1>7, <2>1 DEF OneReload
<1> QED
  BY <1>5, <1>6, <1>7 DEF c

\* ev_window_clear_reload_job: the window's own reload job goes.
LEMMA ClearReloadTracks ==
  ASSUME NEW s \in LoaderStates
  PROVE  LET c == ClearReload(s)
         IN  /\ c \in LoaderStates /\ c.f = s.f /\ c.o = s.o /\ c.w = s.w
             /\ HasLoad(c.q) => HasLoad(s.q)
             /\ OneReload(s) => OneReload(c) /\ (s.f.remote \/ ~HasReload(c.q))
<1> DEFINE gone == {i \in DOMAIN s.q : s.q[i].kind = "reload" /\ s.q[i].mine}
           r == Without(s.q, gone)
           c == ClearReload(s)
<1>1. s.q \in Seq(QueueJobs) /\ s.w \in Windows
  BY DEF LoaderStates
<1> HIDE DEF gone
<1>2. /\ r \in Seq(QueueJobs)
      /\ \A i \in DOMAIN r : \E a \in DOMAIN s.q \ gone : r[i] = s.q[a]
      /\ \A i, k \in DOMAIN r : i # k =>
           \E a, b \in DOMAIN s.q \ gone : a # b /\ r[i] = s.q[a] /\ r[k] = s.q[b]
      /\ LastIsOwn(s.q) => LastIsOwn(r)
  BY <1>1, QueueLeft
<1>3. c = [s EXCEPT !.q = r]
  BY DEF ClearReload, gone
<1> HIDE DEF r, c
<1>4. c \in LoaderStates /\ c.f = s.f /\ c.o = s.o /\ c.q = r /\ c.w = s.w
  BY <1>2, <1>3, OtherQueue, SMTT(60)
<1>5. HasLoad(c.q) => HasLoad(s.q)
  BY <1>2, <1>4 DEF HasLoad
<1>6. ASSUME OneReload(s) PROVE OneReload(c) /\ (s.f.remote \/ ~HasReload(c.q))
  <2>1. s.f.remote \/ ~HasReload(c.q)
    BY <1>2, <1>4, <1>6 DEF OneReload, HasReload, gone
  <2> QED
    BY <1>2, <1>4, <1>6, <2>1 DEF OneReload, HasReload
<1> QED
  BY <1>4, <1>5, <1>6 DEF c

\* A load job is pushed.
LEMMA PushLoadTracks ==
  ASSUME NEW s \in LoaderStates
  PROVE  LET c == PushLoad(s)
         IN  /\ c \in LoaderStates /\ c.f = s.f /\ c.o = s.o /\ c.w = s.w
             /\ OneReload(s) => OneReload(c)
<1> DEFINE j == [kind |-> "load", ran |-> FALSE, mine |-> TRUE, from |-> s.w.load.from,
                 result |-> "ok", doc |-> 0]
           c == PushLoad(s)
<1>1. s.q \in Seq(QueueJobs) /\ s.w.load.from \in {"file", "copy"}
  BY DEF LoaderStates, Windows, LoadJobs
<1>2. j \in QueueJobs /\ j.kind = "load"
  BY <1>1 DEF QueueJobs, Results
<1> HIDE DEF j
<1>3. c = [s EXCEPT !.q = Append(s.q, j)]
  BY DEF PushLoad, j
<1> HIDE DEF c
<1>4. /\ c \in LoaderStates /\ c.f = s.f /\ c.o = s.o /\ c.w = s.w /\ c.q = Append(s.q, j)
  <2> DEFINE r == Append(s.q, j)
  <2>1. r \in Seq(QueueJobs)
    BY <1>1, <1>2
  <2> HIDE DEF r
  <2>2. LET d == [s EXCEPT !.q = r]
        IN  d \in LoaderStates /\ d.f = s.f /\ d.o = s.o /\ d.w = s.w /\ d.q = r
    BY <2>1, OtherQueue, Zenon
  <2> USE DEF r
  <2> QED
    BY <1>3, <2>1, <2>2
<1>5. /\ DOMAIN c.q = 1 .. (Len(s.q) + 1) /\ DOMAIN s.q = 1 .. Len(s.q) /\ Len(s.q) \in Nat
      /\ c.q[Len(s.q) + 1] = j /\ \A i \in DOMAIN s.q : c.q[i] = s.q[i]
  BY <1>1, <1>2, <1>4
<1>6. OneReload(s) => OneReload(c)
  <2>1. LastIsOwn(s.q) => LastIsOwn(c.q)
    BY <1>2, <1>5 DEF LastIsOwn
  <2> QED
    BY <1>2, <1>4, <1>5, <2>1 DEF OneReload
<1> QED
  BY <1>4, <1>6 DEF c

\* A reload job is pushed; the one before is no longer the window's.
LEMMA ReloadLocalTracks ==
  ASSUME NEW s \in LoaderStates
  PROVE  LET c == ReloadLocal(s)
         IN  /\ c \in LoaderStates /\ c.f = s.f /\ c.o = s.o /\ c.w = s.w
             /\ HasLoad(c.q) => HasLoad(s.q)
             /\ OneReload(s) /\ (s.f.remote \/ ~HasReload(s.q)) => OneReload(c)
<1> DEFINE from == IF s.w.copy # NoCopy THEN "copy"
                   ELSE IF s.w.uri /\ ~s.f.remote THEN "file" ELSE "nothing"
           older == [i \in DOMAIN s.q |-> IF s.q[i].kind = "reload"
                                            THEN [s.q[i] EXCEPT !.mine = FALSE] ELSE s.q[i]]
           j == [kind |-> "reload", ran |-> FALSE, mine |-> TRUE, from |-> from,
                 result |-> "ok", doc |-> 0]
           c == ReloadLocal(s)
<1>1. s.q \in Seq(QueueJobs) /\ Len(s.q) \in Nat /\ DOMAIN s.q = 1 .. Len(s.q)
  BY DEF LoaderStates
<1>2. j \in QueueJobs /\ j.kind = "reload" /\ j.mine
  BY DEF QueueJobs, Results
<1>3. c = [s EXCEPT !.q = Append(older, j)]
  BY DEF ReloadLocal
<1>4. /\ older \in Seq(QueueJobs) /\ Len(older) = Len(s.q)
      /\ \A i \in DOMAIN s.q : older[i].kind = s.q[i].kind
  <2>1. \A i \in DOMAIN s.q : older[i] \in QueueJobs /\ older[i].kind = s.q[i].kind
    <3>1. ASSUME NEW i \in DOMAIN s.q PROVE older[i] \in QueueJobs /\ older[i].kind = s.q[i].kind
      <4>1. s.q[i] \in QueueJobs
        BY <1>1
      <4> QED
        BY <4>1 DEF QueueJobs
    <3> QED
      BY <3>1
  <2>2. older \in [1 .. Len(s.q) -> QueueJobs]
    BY <1>1, <2>1
  <2> HIDE DEF older
  <2> QED
    BY <1>1, <2>1, <2>2
<1>9. \A i \in DOMAIN s.q : s.q[i].kind = "reload" => ~older[i].mine
  <2>1. ASSUME NEW i \in DOMAIN s.q, s.q[i].kind = "reload"
        PROVE  ~older[i].mine
    <3>1. s.q[i] \in QueueJobs
      BY <1>1
    <3>2. older[i] = [s.q[i] EXCEPT !.mine = FALSE]
      BY <2>1
    <3> QED
      BY <3>1, <3>2 DEF QueueJobs
  <2> QED
    BY <2>1
<1> HIDE DEF j, older, c
<1>5. /\ c \in LoaderStates /\ c.f = s.f /\ c.o = s.o /\ c.w = s.w /\ c.q = Append(older, j)
  <2> DEFINE r == Append(older, j)
  <2>1. r \in Seq(QueueJobs)
    BY <1>2, <1>4
  <2> HIDE DEF r
  <2>2. LET d == [s EXCEPT !.q = r]
        IN  d \in LoaderStates /\ d.f = s.f /\ d.o = s.o /\ d.w = s.w /\ d.q = r
    BY <2>1, OtherQueue, Zenon
  <2> USE DEF r
  <2> QED
    BY <1>3, <2>1, <2>2
<1>6. /\ DOMAIN c.q = 1 .. (Len(s.q) + 1) /\ c.q[Len(s.q) + 1] = j
      /\ \A i \in DOMAIN s.q : /\ c.q[i].kind = s.q[i].kind
                               /\ s.q[i].kind = "reload" => ~c.q[i].mine
  BY <1>1, <1>2, <1>4, <1>5, <1>9
<1>7. HasLoad(c.q) => HasLoad(s.q)
  BY <1>1, <1>2, <1>6 DEF HasLoad
<1>8. OneReload(s) /\ (s.f.remote \/ ~HasReload(s.q)) => OneReload(c)
  <2>1. LastIsOwn(c.q)
    <3>1. \A i, k \in DOMAIN c.q : i < k => i \in DOMAIN s.q
      BY <1>1, <1>6
    <3> QED
      BY <1>6, <3>1 DEF LastIsOwn
  <2> QED
    BY <1>1, <1>2, <1>5, <1>6, <2>1 DEF OneReload, HasReload
<1> QED
  BY <1>5, <1>7, <1>8 DEF c

\* What of a state the invariant depends on: with the same file, the same calls of GIO
\* for the load, and a queue with no new load job, a window keeps track.
LEMMA TracksAgain ==
  ASSUME NEW s, Tracks(s), NEW c \in LoaderStates,
         InTurn(c), OneReload(c), HasLoad(c.q) => HasLoad(s.q),
         c.w.load.has = s.w.load.has, c.w.uri = s.w.uri,
         c.o["copy"] = s.o["copy"], c.o["mount"] = s.o["mount"],
         \/ c.w.dialogs = s.w.dialogs /\ c.w.mode = s.w.mode
         \/ s.w.uri /\ ~Fetching(s)
  PROVE  Tracks(c)
BY DEF Tracks, OneFetch, Fetching, Calm

\* The same for the reload jobs.
LEMMA ReloadAgain ==
  ASSUME NEW s, OneReload(s), NEW c, c.q = s.q, c.f.remote = s.f.remote,
         c.w.copy = s.w.copy, c.o = s.o
  PROVE  OneReload(c)
BY DEF OneReload

\* Only what the user sees of the window changes.
Sees(s, c) ==
  /\ c \in LoaderStates /\ c.f.remote = s.f.remote /\ c.q = s.q /\ c.o = s.o
  /\ c.w.uri = s.w.uri /\ c.w.copy = s.w.copy /\ c.w.load.has = s.w.load.has
  /\ c.w.dest = s.w.dest /\ c.w.seen = s.w.seen /\ c.w.calls = s.w.calls

\* What only the user sees leaves the window tracking.
LEMMA SeesTracks ==
  ASSUME NEW s, Tracks(s), NEW c, Sees(s, c),
         \/ c.w.dialogs = s.w.dialogs /\ c.w.mode = s.w.mode
         \/ s.w.uri /\ ~Fetching(s)
  PROVE  Tracks(c)
<1>1. InTurn(c)
  BY DEF Tracks, InTurn, Sees
<1>2. OneReload(c)
  BY DEF Tracks, OneReload, Sees
<1> QED
  BY <1>1, <1>2, TracksAgain DEF Sees

\* ev_window_reload_document, for whatever destination.
LEMMA ReloadDocumentTracks ==
  ASSUME NEW s, Tracks(s), NEW dest \in Nat, dest <= s.w.calls,
         dest = Nowhere \/ dest > s.w.seen
  PROVE  LET c == ReloadDocument(s, dest)
         IN  Tracks(c) /\ c.w.calls = s.w.calls /\ c.w.seen = s.w.seen
<1> DEFINE a == ClearReload(s)
           b == [a EXCEPT !.w.dest = dest]
           c == ReloadDocument(s, dest)
<1>1. s \in LoaderStates /\ OneReload(s) /\ s.w \in Windows
  BY DEF Tracks, LoaderStates
<1>2. /\ a \in LoaderStates /\ a.f = s.f /\ a.o = s.o /\ a.w = s.w
      /\ HasLoad(a.q) => HasLoad(s.q)
      /\ OneReload(a) /\ (s.f.remote \/ ~HasReload(a.q))
  BY <1>1, ClearReloadTracks
<1>3. c = IF b.w.copy # NoCopy THEN [b EXCEPT !.o["query"] = @ + 1] ELSE ReloadLocal(b)
  BY DEF ReloadDocument
<1> HIDE DEF a, c
<1>4. /\ b \in LoaderStates /\ b.f = s.f /\ b.o = s.o /\ b.q = a.q
      /\ b.w = [s.w EXCEPT !.dest = dest]
  BY <1>2 DEF LoaderStates, Windows
<1>5. /\ b.w.copy = s.w.copy /\ b.w.load = s.w.load /\ b.w.uri = s.w.uri
      /\ b.w.dialogs = s.w.dialogs /\ b.w.mode = s.w.mode /\ b.w.dest = dest
      /\ b.w.calls = s.w.calls /\ b.w.seen = s.w.seen
  BY <1>1, <1>4, SMTT(60) DEF Windows
<1> HIDE DEF b
<1>6. OneReload(b)
  BY <1>2, <1>4, <1>5 DEF OneReload
<1>7. InTurn(b)
  BY <1>5 DEF InTurn, Tracks
<1>8. CASE b.w.copy # NoCopy
  <2>1. c = [b EXCEPT !.o["query"] = @ + 1]
    BY <1>3, <1>8
  <2>2. /\ c \in LoaderStates /\ c.f = b.f /\ c.w = b.w /\ c.q = b.q
        /\ c.o["copy"] = b.o["copy"] /\ c.o["mount"] = b.o["mount"]
    <3>1. b.o["query"] + 1 \in Nat /\ {"query", "copy", "mount"} \subseteq OpKinds
      <4>1. b.o \in [OpKinds -> Nat]
        BY <1>4 DEF LoaderStates
      <4>2. {"query", "copy", "mount"} \subseteq OpKinds
        BY DEF OpKinds
      <4> QED
        BY <4>1, <4>2
    <3>2. c = [b EXCEPT !.o["query"] = b.o["query"] + 1]
      BY <2>1
    <3> QED
      BY <1>4, <3>1, <3>2, OtherCalls
  <2>3. OneReload(c)
    BY <1>6, <1>8, <2>2 DEF OneReload
  <2> QED
    BY <1>2, <1>4, <1>5, <1>7, <2>2, <2>3, TracksAgain, ZenonT(60) DEF InTurn, c
<1>9. CASE b.w.copy = NoCopy
  <2>1. c = ReloadLocal(b)
    BY <1>3, <1>9
  <2>2. /\ c \in LoaderStates /\ c.f = b.f /\ c.o = b.o /\ c.w = b.w
        /\ HasLoad(c.q) => HasLoad(b.q)
        /\ OneReload(b) /\ (b.f.remote \/ ~HasReload(b.q)) => OneReload(c)
    BY <1>4, <2>1, ReloadLocalTracks
  <2> QED
    BY <1>2, <1>4, <1>5, <1>6, <1>7, <2>2, TracksAgain DEF InTurn, c
<1> QED
  BY <1>8, <1>9 DEF c

\* A step to a state that keeps track.
LEMMA LoaderStep ==
  ASSUME NEW c, LoaderIs(c), Tracks(c)
  PROVE  Tracks(Loader)'
<1>1. c \in LoaderStates
  BY DEF Tracks
<1>2. c = [f |-> c.f, w |-> c.w, q |-> c.q, o |-> c.o]
  BY <1>1 DEF LoaderStates
<1>3. Loader' = c
  BY <1>2 DEF Loader, LoaderIs
<1> QED
  BY <1>3 DEF Tracks, InTurn, OneReload, OneFetch, Fetching, Calm, HasLoad

\* A load job that the window has is pushed, while nothing is fetched for it.
LEMMA PushTracks ==
  ASSUME NEW s \in LoaderStates, InTurn(s), OneReload(s), s.w.uri, s.w.load.has, ~Fetching(s)
  PROVE  Tracks(PushLoad(s))
<1> DEFINE c == PushLoad(s)
<1>1. c \in LoaderStates /\ c.f = s.f /\ c.o = s.o /\ c.w = s.w /\ OneReload(c)
  BY PushLoadTracks
<1> HIDE DEF c
<1>2. s.o["copy"] \in Nat /\ s.o["mount"] \in Nat
  BY DEF LoaderStates, OpKinds
<1>3. Tracks(c)
  BY <1>1, <1>2 DEF Tracks, InTurn, OneFetch, Fetching
<1> QED
  BY <1>3 DEF c

\* ev_window_load_file_remote: the file is fetched for a load job that was not pushed.
LEMMA LoadRemoteTracks ==
  ASSUME NEW s \in LoaderStates, InTurn(s), s.f.remote, OneReload(s), s.w.uri,
         s.w.load.has, Calm(s), ~Fetching(s)
  PROVE  Tracks(LoadRemote(s))
<1> DEFINE b == IF s.w.copy # NoCopy THEN s
                ELSE [s EXCEPT !.w.copy = 0, !.w.load.from = "copy"]
           d == [b EXCEPT !.w.cancelled = FALSE, !.w.progress = TRUE]
           c == LoadRemote(s)
<1>1. s.w \in Windows /\ s.w.load \in LoadJobs /\ s.o \in [OpKinds -> Nat]
  BY DEF LoaderStates, Windows
<1>2. /\ b \in LoaderStates /\ b.f = s.f /\ b.o = s.o /\ b.q = s.q
      /\ b.w.uri = s.w.uri /\ b.w.load.has = s.w.load.has /\ b.w.dest = s.w.dest
      /\ b.w.seen = s.w.seen /\ b.w.calls = s.w.calls /\ b.w.dialogs = s.w.dialogs
      /\ b.w.mode = s.w.mode
  <2>1. CASE s.w.copy # NoCopy
    BY <2>1
  <2>2. CASE s.w.copy = NoCopy
    <3> DEFINE job == [s.w.load EXCEPT !.from = "copy"]
               v == [s.w EXCEPT !.load = job]
               w == [v EXCEPT !.copy = 0]
    <3>1. job \in LoadJobs /\ job.has = s.w.load.has
      BY <1>1 DEF LoadJobs
    <3> HIDE DEF job
    <3>0. /\ v \in Windows /\ v.uri = s.w.uri /\ v.load = job /\ v.dest = s.w.dest
          /\ v.seen = s.w.seen /\ v.calls = s.w.calls /\ v.dialogs = s.w.dialogs
          /\ v.mode = s.w.mode
      BY <1>1, <3>1 DEF Windows
    <3> HIDE DEF v
    <3>2. /\ w \in Windows /\ w.uri = s.w.uri /\ w.load = job /\ w.dest = s.w.dest
          /\ w.seen = s.w.seen /\ w.calls = s.w.calls /\ w.dialogs = s.w.dialogs
          /\ w.mode = s.w.mode
      <4>1. w \in Windows
        BY <3>0 DEF Windows
      <4>2. /\ w.uri = v.uri /\ w.load = v.load /\ w.dest = v.dest /\ w.seen = v.seen
            /\ w.calls = v.calls /\ w.dialogs = v.dialogs /\ w.mode = v.mode
        BY <3>0 DEF Windows
      <4> QED
        BY <3>0, <4>1, <4>2
    <3>3. b = [s EXCEPT !.w = w]
      BY <2>2 DEF job, v
    <3> HIDE DEF w
    <3> QED
      BY <3>1, <3>2, <3>3 DEF LoaderStates
  <2> QED
    BY <2>1, <2>2
<1>3. c = [b EXCEPT !.w.cancelled = FALSE, !.o["copy"] = @ + 1, !.w.progress = TRUE]
  BY DEF LoadRemote
<1> HIDE DEF b
<1>4. /\ d \in LoaderStates /\ d.f = s.f /\ d.o = s.o /\ d.q = s.q
      /\ d.w.uri = s.w.uri /\ d.w.load.has = s.w.load.has /\ d.w.dest = s.w.dest
      /\ d.w.seen = s.w.seen /\ d.w.calls = s.w.calls /\ d.w.dialogs = s.w.dialogs
      /\ d.w.mode = s.w.mode
  BY <1>2 DEF LoaderStates, Windows
<1>5. c = [d EXCEPT !.o["copy"] = s.o["copy"] + 1]
  BY <1>2, <1>3 DEF LoaderStates
<1> HIDE DEF d, c
<1>6. {"copy", "mount"} \subseteq OpKinds /\ s.o["copy"] \in Nat /\ s.o["mount"] \in Nat
  BY <1>1 DEF OpKinds
<1>7. /\ c \in LoaderStates /\ c.f = d.f /\ c.w = d.w /\ c.q = d.q
      /\ c.o["copy"] = s.o["copy"] + 1 /\ c.o["mount"] = s.o["mount"]
  BY <1>4, <1>5, <1>6, OtherCalls
<1>8. c.o["copy"] + c.o["mount"] = 1 /\ InTurn(c) /\ OneReload(c) /\ Calm(c)
  <2>1. InTurn(c) /\ Calm(c)
    BY <1>4, <1>7 DEF InTurn, Calm
  <2>2. OneReload(c)
    BY <1>2, <1>4, <1>6, <1>7 DEF OneReload
  <2>3. c.o["copy"] + c.o["mount"] = 1
    BY <1>6, <1>7 DEF Fetching
  <2> QED
    BY <2>1, <2>2, <2>3
<1>9. c.w.uri /\ c.w.load.has
  BY <1>4, <1>7
<1>10. Tracks(c)
  BY <1>7, <1>8, <1>9 DEF Tracks, OneFetch, Calm
<1> QED
  BY <1>10 DEF c

-----------------------------------------------------------------------------
(* The user and the application.                                           *)

\* The fields of the loader.
LEMMA LoaderFields ==
  /\ Loader.f = loadFile /\ Loader.w = loadWin /\ Loader.q = loadQueue /\ Loader.o = loadOps
BY DEF Loader

\* A call of the user changes nothing but the number of calls.
LEMMA LoadCallTracks ==
  ASSUME Tracks(Loader)
  PROVE  /\ Tracks(LoadCall) /\ LoadCall \in LoaderStates
         /\ LoadCall.f = loadFile /\ LoadCall.q = loadQueue /\ LoadCall.o = loadOps
         /\ LoadCall.w = [loadWin EXCEPT !.calls = loadWin.calls + 1]
         /\ LoadCall.w \in Windows /\ LoadCall.w.calls = loadWin.calls + 1
         /\ LoadCall.w.seen = loadWin.seen /\ LoadCall.w.dest = loadWin.dest
         /\ LoadCall.w.uri = loadWin.uri /\ LoadCall.w.load = loadWin.load
         /\ LoadCall.w.dialogs = loadWin.dialogs /\ LoadCall.w.mode = loadWin.mode
<1> DEFINE c == LoadCall
<1>1. Loader \in LoaderStates /\ loadWin \in Windows
  BY LoaderFields DEF Tracks, LoaderStates
<1>2. c = [Loader EXCEPT !.w = [loadWin EXCEPT !.calls = loadWin.calls + 1]]
  BY LoaderFields DEF LoadCall
<1> DEFINE w == [loadWin EXCEPT !.calls = loadWin.calls + 1]
<1>3. w \in Windows
  BY <1>1, SMTT(60) DEF Windows
<1>4. /\ w.calls = loadWin.calls + 1 /\ w.seen = loadWin.seen /\ w.dest = loadWin.dest
      /\ w.uri = loadWin.uri /\ w.load = loadWin.load /\ w.dialogs = loadWin.dialogs
      /\ w.mode = loadWin.mode /\ w.copy = loadWin.copy
  BY <1>1 DEF Windows
<1> HIDE DEF w, c
<1>5. c \in LoaderStates /\ c.f = loadFile /\ c.q = loadQueue /\ c.o = loadOps /\ c.w = w
  BY <1>1, <1>2, <1>3, LoaderFields DEF LoaderStates, w
<1>6. InTurn(c)
  <2>1. /\ loadWin.dest <= loadWin.calls /\ loadWin.seen <= loadWin.calls
        /\ loadWin.dest = Nowhere \/ loadWin.dest > loadWin.seen
    BY LoaderFields DEF Tracks, InTurn
  <2>2. loadWin.dest \in Nat /\ loadWin.seen \in Nat /\ loadWin.calls \in Nat
    BY <1>1 DEF Windows
  <2> QED
    BY <1>4, <1>5, <2>1, <2>2 DEF InTurn
<1>7. OneReload(c)
  BY <1>4, <1>5, LoaderFields, ReloadAgain DEF Tracks
<1>8. Tracks(c)
  BY <1>4, <1>5, <1>6, <1>7, LoaderFields, TracksAgain
<1> QED
  BY <1>3, <1>4, <1>5, <1>8 DEF c, w

\* ev_window_open_uri
LEMMA OpenUriTracks ==
  ASSUME Tracks(Loader), NEW there \in BOOLEAN, OpenUri(there)
  PROVE  Tracks(Loader)'
<1> DEFINE dest == IF there THEN loadWin.calls + 1 ELSE Nowhere
           s == LoadCall
           a == ClearLoad(s)
           b == ClearCopy(a)
           v == [b.w EXCEPT !.monitor = FALSE, !.events = <<>>, !.timer = FALSE]
           w == [v EXCEPT !.uri = TRUE, !.dest = dest, !.load = [NoLoadJob EXCEPT !.has = TRUE]]
           c == [b EXCEPT !.w.monitor = FALSE, !.w.events = <<>>, !.w.timer = FALSE,
                          !.w.uri = TRUE, !.w.dest = dest,
                          !.w.load = [NoLoadJob EXCEPT !.has = TRUE]]
           d == [c EXCEPT !.w.loading = IF @ = "shown" THEN "shown" ELSE "timer"]
<1>1. /\ Tracks(s) /\ s \in LoaderStates /\ s.f = loadFile /\ s.w.calls = loadWin.calls + 1
      /\ s.w.seen = loadWin.seen /\ s.w.uri = loadWin.uri /\ s.w \in Windows
  BY LoadCallTracks
<1>2. /\ loadWin.calls \in Nat /\ loadWin.seen \in Nat /\ loadWin.seen <= loadWin.calls
  BY LoaderFields DEF Tracks, LoaderStates, Windows, InTurn
<1>3. /\ dest \in Nat /\ dest <= s.w.calls /\ (dest = Nowhere \/ dest > s.w.seen)
  BY <1>1, <1>2 DEF Nowhere
<1>4. LoaderIs(IF loadWin.uri THEN ReloadDocument(s, dest)
               ELSE IF loadFile.remote THEN LoadRemote(c) ELSE PushLoad(d))
  BY DEF OpenUri
<1> HIDE DEF s, dest
<1>5. CASE loadWin.uri
  <2>1. Tracks(ReloadDocument(s, dest))
    BY <1>1, <1>3, ReloadDocumentTracks
  <2> QED
    BY <1>4, <1>5, <2>1, LoaderStep
<1>6. CASE ~loadWin.uri
  <2>1. ~Fetching(s) /\ s.w.dialogs = 0 /\ s.w.mode = "document" /\ OneReload(s)
    BY <1>1, <1>6 DEF Tracks, OneFetch, Calm
  <2>2. /\ a \in LoaderStates /\ a.f = s.f /\ a.o = s.o /\ a.w = [s.w EXCEPT !.load = NoLoadJob]
        /\ ~HasLoad(a.q) /\ OneReload(a)
    BY <1>1, <2>1, ClearLoadTracks
  <2> HIDE DEF a
  <2>3. /\ b \in LoaderStates /\ b.f = s.f /\ b.o = s.o /\ b.q = a.q
        /\ b.w = [a.w EXCEPT !.copy = NoCopy] /\ b.w \in Windows
    <3>1. a.w \in Windows /\ NoCopy \in Int
      BY <2>2, SMTT(60) DEF LoaderStates, NoCopy
    <3>2. [a.w EXCEPT !.copy = NoCopy] \in Windows
      BY <3>1 DEF Windows
    <3> QED
      BY <2>2, <3>2 DEF ClearCopy, LoaderStates
  <2>4. /\ b.w.dialogs = 0 /\ b.w.mode = "document" /\ b.w.calls = s.w.calls
        /\ b.w.seen = s.w.seen /\ b.w.copy = NoCopy
    BY <1>1, <2>1, <2>2, <2>3 DEF Windows
  <2> HIDE DEF b
  <2>5. /\ v \in Windows /\ v.dialogs = 0 /\ v.mode = "document" /\ v.calls = s.w.calls
        /\ v.seen = s.w.seen /\ v.copy = NoCopy
    <3>1. <<>> \in Seq({"changed", "done"})
      OBVIOUS
    <3> QED
      BY <2>3, <2>4, <3>1 DEF Windows
  <2> HIDE DEF v
  <2>6. /\ w \in Windows /\ w.dialogs = 0 /\ w.mode = "document" /\ w.calls = s.w.calls
        /\ w.seen = s.w.seen /\ w.copy = NoCopy /\ w.uri /\ w.dest = dest /\ w.load.has
    <3> DEFINE job == [NoLoadJob EXCEPT !.has = TRUE]
    <3>1. job \in LoadJobs /\ job.has
      <4>1. NoLoadJob \in LoadJobs
        BY DEF NoLoadJob, LoadJobs, Passwords, Results
      <4> QED
        BY <4>1 DEF LoadJobs
    <3> HIDE DEF job
    <3>2. w = [v EXCEPT !.uri = TRUE, !.dest = dest, !.load = job]
      BY DEF job
    <3> HIDE DEF w
    <3>3. w \in Windows
      BY <1>3, <2>5, <3>1, <3>2 DEF Windows
    <3> QED
      BY <2>5, <3>1, <3>2, <3>3 DEF Windows
  <2> HIDE DEF w
  <2>7. c \in LoaderStates /\ c.f = s.f /\ c.o = s.o /\ c.q = a.q /\ c.w = w
    <3>1. c = [b EXCEPT !.w = w]
      BY <2>3 DEF LoaderStates, w, v
    <3> HIDE DEF c
    <3> QED
      BY <2>3, <2>6, <3>1 DEF LoaderStates
  <2> HIDE DEF c
  <2>8. InTurn(c) /\ Calm(c) /\ ~Fetching(c) /\ OneReload(c)
    <3>1. InTurn(c)
      BY <1>1, <1>2, <1>3, <2>6, <2>7 DEF InTurn
    <3>2. Calm(c) /\ ~Fetching(c)
      BY <2>1, <2>2, <2>6, <2>7 DEF Calm, Fetching
    <3>3. OneReload(c)
      BY <2>2, <2>6, <2>7 DEF OneReload
    <3> QED
      BY <3>1, <3>2, <3>3
  <2>9. CASE loadFile.remote
    <3>1. Tracks(LoadRemote(c))
      BY <1>1, <2>6, <2>7, <2>8, <2>9, LoadRemoteTracks
    <3> QED
      BY <1>4, <1>6, <2>9, <3>1, LoaderStep
  <2>10. CASE ~loadFile.remote
    <3>1. /\ d \in LoaderStates /\ d.f = c.f /\ d.o = c.o /\ d.q = c.q /\ d.w.uri = c.w.uri
          /\ d.w.load = c.w.load /\ d.w.copy = c.w.copy /\ d.w.dest = c.w.dest
          /\ d.w.seen = c.w.seen /\ d.w.calls = c.w.calls
      BY <2>7 DEF LoaderStates, Windows
    <3> HIDE DEF d
    <3>2. InTurn(d) /\ ~Fetching(d) /\ OneReload(d)
      BY <2>8, <3>1 DEF InTurn, Fetching, OneReload
    <3>3. Tracks(PushLoad(d))
      BY <2>6, <2>7, <3>1, <3>2, PushTracks
    <3> QED
      BY <1>4, <1>6, <2>10, <3>3, LoaderStep DEF d
  <2> QED
    BY <2>9, <2>10
<1> QED
  BY <1>5, <1>6

\* A dialog that asks for the password, or a view that waits for it, belongs to a window
\* with a file that fetches nothing.
LEMMA AskedTracks ==
  ASSUME NEW s, Tracks(s), s.w.dialogs > 0 \/ s.w.mode = "password"
  PROVE  s.w.uri /\ ~Fetching(s)
<1>1. ~Calm(s)
  BY DEF Calm
<1>2. s.w.uri \in BOOLEAN
  BY DEF Tracks, LoaderStates, Windows
<1> QED
  BY <1>1, <1>2 DEF Tracks, OneFetch

\* Another window, of which only what the user sees is new.
Alike(v, w) ==
  /\ w \in Windows /\ w.uri = v.uri /\ w.copy = v.copy /\ w.load = v.load
  /\ w.dest = v.dest /\ w.seen = v.seen /\ w.calls = v.calls
Quiet(v, w) == Alike(v, w) /\ w.dialogs = v.dialogs /\ w.mode = v.mode

\* The same loader with another window.
LEMMA OtherWindow ==
  ASSUME NEW s \in LoaderStates, NEW w \in Windows
  PROVE  LET c == [s EXCEPT !.w = w]
         IN  /\ c \in LoaderStates /\ c.f = s.f /\ c.q = s.q /\ c.o = s.o /\ c.w = w
             /\ Alike(s.w, w) => Sees(s, c)
<1>1. LET c == [s EXCEPT !.w = w]
      IN  c \in LoaderStates /\ c.f = s.f /\ c.q = s.q /\ c.o = s.o /\ c.w = w
  BY DEF LoaderStates
<1> QED
  BY <1>1 DEF Alike, Sees

\* The message area and the cancellable.
LEMMA WindowAreas ==
  ASSUME NEW v \in Windows, NEW area \in {"none", "message", "progress"},
         NEW cancelled \in BOOLEAN
  PROVE  /\ Quiet(v, [v EXCEPT !.area = area])
         /\ Quiet(v, [v EXCEPT !.cancelled = cancelled, !.area = area])
<1>1. Quiet(v, [v EXCEPT !.area = area])
  BY DEF Windows, Quiet, Alike
<1>2. Quiet(v, [v EXCEPT !.cancelled = cancelled, !.area = area])
  <2> DEFINE w == [v EXCEPT !.cancelled = cancelled, !.area = area]
  <2>1. w \in Windows
    BY DEF Windows
  <2>2. /\ w.uri = v.uri /\ w.copy = v.copy /\ w.load = v.load /\ w.dest = v.dest
        /\ w.seen = v.seen /\ w.calls = v.calls /\ w.dialogs = v.dialogs /\ w.mode = v.mode
    BY DEF Windows
  <2> HIDE DEF w
  <2>3. Quiet(v, w)
    BY <2>1, <2>2 DEF Quiet, Alike
  <2> QED
    BY <2>3 DEF w
<1> QED
  BY <1>1, <1>2

\* The dialogs that ask for the password.
LEMMA WindowDialogs ==
  ASSUME NEW v \in Windows, NEW n \in Nat, NEW sensitive \in BOOLEAN
  PROVE  LET w == [v EXCEPT !.dialogs = n, !.sensitive = sensitive]
         IN  Alike(v, w) /\ w.dialogs = n /\ w.mode = v.mode
<1> DEFINE w == [v EXCEPT !.dialogs = n, !.sensitive = sensitive]
<1>1. w \in Windows
  BY DEF Windows
<1>2. /\ w.uri = v.uri /\ w.copy = v.copy /\ w.load = v.load /\ w.dest = v.dest
      /\ w.seen = v.seen /\ w.calls = v.calls /\ w.dialogs = n /\ w.mode = v.mode
  BY DEF Windows
<1> HIDE DEF w
<1>3. Alike(v, w) /\ w.dialogs = n /\ w.mode = v.mode
  BY <1>1, <1>2 DEF Alike
<1> QED
  BY <1>3 DEF w

\* Steps after which only what the user sees of the window is new.
LEMMA AlikeTracks ==
  ASSUME NEW s, Tracks(s), NEW w, Alike(s.w, w), Quiet(s.w, w) \/ (s.w.uri /\ ~Fetching(s))
  PROVE  Tracks([s EXCEPT !.w = w])
<1> DEFINE c == [s EXCEPT !.w = w]
<1>1. s \in LoaderStates /\ w \in Windows
  BY DEF Tracks, Alike
<1>2. Sees(s, c) /\ c.w = w
  BY <1>1, OtherWindow
<1> HIDE DEF c
<1>3. Tracks(c)
  BY <1>2, SeesTracks DEF Quiet
<1> QED
  BY <1>3 DEF c

\* The other calls of the user.
LEMMA UserTracks ==
  ASSUME Tracks(Loader), UserLoads
  PROVE  Tracks(Loader)'
<1> DEFINE s == LoadCall
<1>1. /\ Tracks(s) /\ s \in LoaderStates /\ s.f = loadFile /\ s.w.calls = loadWin.calls + 1
      /\ s.w.seen = loadWin.seen /\ s.w.uri = loadWin.uri /\ s.w \in Windows
      /\ s.w.load = loadWin.load /\ s.w.dialogs = loadWin.dialogs /\ s.w.mode = loadWin.mode
      /\ s.o = loadOps /\ s.w.dialogs \in Nat
  <2>1. s.w \in Windows
    BY LoadCallTracks
  <2>2. s.w.dialogs \in Nat
    BY <2>1 DEF Windows
  <2> QED
    BY <2>2, LoadCallTracks
<1> HIDE DEF s
<1>2. CASE \E there \in BOOLEAN : OpenUri(there)
  BY <1>2, OpenUriTracks
<1>3. CASE UserReload
  <2>1. LoaderIs(ReloadDocument(s, Nowhere))
    BY <1>3 DEF UserReload, s
  <2>2. Nowhere \in Nat /\ Nowhere <= s.w.calls
    BY <1>1 DEF Nowhere, Windows
  <2>3. Tracks(ReloadDocument(s, Nowhere))
    BY <1>1, <2>2, ReloadDocumentTracks
  <2> QED
    BY <2>1, <2>3, LoaderStep
<1>4. CASE CancelProgress
  <2> DEFINE w == [s.w EXCEPT !.cancelled = TRUE, !.area = "none"]
  <2>1. LoaderIs([s EXCEPT !.w = w])
    BY <1>4 DEF CancelProgress, s
  <2>2. Quiet(s.w, w)
    BY <1>1, WindowAreas
  <2>3. Tracks([s EXCEPT !.w = w])
    <3> HIDE DEF w
    <3> QED
      BY <1>1, <2>2, AlikeTracks DEF Quiet
  <2> QED
    BY <2>1, <2>3, LoaderStep
<1>5. CASE CloseMessage
  <2> DEFINE w == [s.w EXCEPT !.area = "none"]
  <2>1. LoaderIs([s EXCEPT !.w = w])
    BY <1>5 DEF CloseMessage, s
  <2>2. Quiet(s.w, w)
    BY <1>1, WindowAreas
  <2>3. Tracks([s EXCEPT !.w = w])
    <3> HIDE DEF w
    <3> QED
      BY <1>1, <2>2, AlikeTracks DEF Quiet
  <2> QED
    BY <2>1, <2>3, LoaderStep
<1>6. CASE UnlockClicked
  <2> DEFINE n == s.w.dialogs + 1
             w == [s.w EXCEPT !.dialogs = n, !.sensitive = FALSE]
  <2>1. LoaderIs([s EXCEPT !.w = w]) /\ s.w.mode = "password"
    BY <1>1, <1>6 DEF UnlockClicked, AskPassword, s
  <2>2. Alike(s.w, w)
    <3>1. n \in Nat
      BY <1>1
    <3> HIDE DEF n
    <3> QED
      BY <1>1, <3>1, WindowDialogs
  <2>3. Tracks([s EXCEPT !.w = w])
    <3> HIDE DEF w
    <3>1. s.w.uri /\ ~Fetching(s)
      BY <1>1, <2>1, AskedTracks
    <3> QED
      BY <1>1, <2>2, <3>1, AlikeTracks
  <2> QED
    BY <2>1, <2>3, LoaderStep
<1>7. CASE PasswordRefused
  <2> DEFINE n == s.w.dialogs - 1
             w == [s.w EXCEPT !.dialogs = n, !.sensitive = TRUE]
  <2>1. LoaderIs([s EXCEPT !.w = w]) /\ s.w.dialogs > 0
    BY <1>1, <1>7 DEF PasswordRefused, s
  <2>2. Alike(s.w, w)
    <3>1. n \in Nat
      BY <1>1, <2>1
    <3> HIDE DEF n
    <3> QED
      BY <1>1, <3>1, WindowDialogs
  <2>3. Tracks([s EXCEPT !.w = w])
    <3> HIDE DEF w
    <3>1. s.w.uri /\ ~Fetching(s)
      BY <1>1, <2>1, AskedTracks
    <3> QED
      BY <1>1, <2>2, <3>1, AlikeTracks
  <2> QED
    BY <2>1, <2>3, LoaderStep
<1>8. ASSUME NEW password \in {"right", "typed"}, NEW keep \in BOOLEAN,
             PasswordGiven(password, keep)
      PROVE  Tracks(Loader)'
  <2> DEFINE v == [s.w EXCEPT !.dialogs = s.w.dialogs - 1, !.sensitive = TRUE]
             w == [v EXCEPT !.keep = keep]
             b == [s EXCEPT !.w = w]
             c == [s EXCEPT !.w.dialogs = @ - 1, !.w.sensitive = TRUE, !.w.keep = keep]
             job == [w.load EXCEPT !.password = password]
  <2>1. /\ LoaderIs(IF ~c.w.load.has THEN [c EXCEPT !.w.aborted = TRUE]
                    ELSE PushLoad([c EXCEPT !.w.load.password = password]))
        /\ s.w.dialogs > 0
    BY <1>1, <1>8 DEF PasswordGiven, s
  <2>2. s.w.uri /\ ~Fetching(s)
    BY <1>1, <2>1, AskedTracks
  <2>3. Alike(s.w, v)
    <3>1. s.w.dialogs - 1 \in Nat
      BY <1>1, <2>1
    <3> QED
      BY <1>1, <3>1, WindowDialogs
  <2>4. c = b
    BY DEF LoaderStates
  <2> HIDE DEF v, c
  <2>5. w \in Windows /\ Alike(s.w, w)
    BY <2>3 DEF Alike, Windows
  <2> HIDE DEF w
  <2>6. Sees(s, b) /\ b.w = w
    BY <1>1, <2>5, OtherWindow
  <2>7. Tracks(b) /\ b \in LoaderStates
    BY <1>1, <2>2, <2>6, SeesTracks DEF Sees
  <2> HIDE DEF b
  <2>8. CASE ~b.w.load.has
    <3> DEFINE x == [w EXCEPT !.aborted = TRUE]
    <3>1. LoaderIs([b EXCEPT !.w = x])
      BY <2>1, <2>4, <2>6, <2>8
    <3>2. Quiet(w, x)
      BY <2>5 DEF Quiet, Alike, Windows
    <3>3. Tracks([b EXCEPT !.w = x])
      <4> HIDE DEF x
      <4> QED
        BY <2>6, <2>7, <3>2, AlikeTracks DEF Quiet
    <3> QED
      BY <3>1, <3>3, LoaderStep
  <2>9. CASE b.w.load.has
    <3> DEFINE x == [w EXCEPT !.load = job]
               d == [b EXCEPT !.w = x]
    <3>1. LoaderIs(PushLoad(d))
      BY <2>1, <2>4, <2>6, <2>9
    <3>2. job \in LoadJobs /\ job.has
      BY <2>5, <2>6, <2>9 DEF Windows, LoadJobs, Passwords
    <3> HIDE DEF job
    <3>3. /\ x \in Windows /\ x.uri = w.uri /\ x.copy = w.copy /\ x.load = job
          /\ x.dest = w.dest /\ x.seen = w.seen /\ x.calls = w.calls
      BY <2>5, <3>2 DEF Windows
    <3> HIDE DEF x
    <3>4. d \in LoaderStates /\ d.f = b.f /\ d.q = b.q /\ d.o = b.o /\ d.w = x
      BY <2>7, <3>3, OtherWindow
    <3> HIDE DEF d
    <3>5. InTurn(d) /\ OneReload(d)
      BY <2>6, <2>7, <3>3, <3>4 DEF InTurn, OneReload, Tracks
    <3>6. ~Fetching(d) /\ d.w.uri
      BY <2>2, <2>6, <3>3, <3>4 DEF Sees, Fetching
    <3>7. Tracks(PushLoad(d))
      BY <3>2, <3>3, <3>4, <3>5, <3>6, PushTracks
    <3> QED
      BY <3>1, <3>7, LoaderStep
  <2> QED
    BY <2>8, <2>9
<1> QED
  BY <1>2, <1>3, <1>4, <1>5, <1>6, <1>7, <1>8 DEF UserLoads

-----------------------------------------------------------------------------
(* The answers of GIO.                                                     *)

\* A call of GIO has been answered: one call less of its kind, and nothing else.  While
\* a fetch is under way there is only one.
LEMMA AnsweredTracks ==
  ASSUME Tracks(Loader), NEW kind \in OpKinds, UnderWay(kind)
  PROVE  LET c == Answered(kind)
         IN  /\ c \in LoaderStates /\ c.f = loadFile /\ c.w = loadWin /\ c.q = loadQueue
             /\ c.w \in Windows
             /\ InTurn(c) /\ loadFile.remote /\ OneReload(c)
             /\ \A other \in OpKinds :
                  c.o[other] = IF other = kind THEN loadOps[kind] - 1 ELSE loadOps[other]
             /\ loadOps \in [OpKinds -> Nat]
             /\ kind \in {"mtime", "query", "recopy"} => Tracks(c)
             /\ kind \in {"copy", "mount"} =>
                  ~Fetching(c) /\ c.w.uri /\ c.w.load.has /\ Calm(c)
<1> DEFINE c == Answered(kind)
           n == loadOps[kind] - 1
<1>1. Loader \in LoaderStates /\ loadWin \in Windows /\ loadOps \in [OpKinds -> Nat]
  BY LoaderFields DEF Tracks, LoaderStates
<1>2. n \in Nat /\ loadOps[kind] > 0
  BY <1>1 DEF UnderWay
<1>3. c = [Loader EXCEPT !.o[kind] = n]
  BY LoaderFields DEF Answered
<1> HIDE DEF n, c
<1>4. /\ c \in LoaderStates /\ c.f = loadFile /\ c.w = loadWin /\ c.q = loadQueue
      /\ \A other \in OpKinds : c.o[other] = IF other = kind THEN n ELSE loadOps[other]
  BY <1>1, <1>2, <1>3, LoaderFields, OtherCalls
<1>5. loadFile.remote /\ OneReload(c)
  BY <1>2, <1>4, LoaderFields DEF Tracks, OneReload
<1>6. InTurn(c)
  BY <1>4, LoaderFields DEF Tracks, InTurn
<1>7. {"copy", "mount"} \subseteq OpKinds
  BY DEF OpKinds
<1>8. loadOps["copy"] \in Nat /\ loadOps["mount"] \in Nat
  BY <1>1, <1>7
<1>9. ASSUME kind \in {"mtime", "query", "recopy"} PROVE Tracks(c)
  BY <1>4, <1>5, <1>6, <1>7, <1>9, LoaderFields, TracksAgain
<1>10. ASSUME kind \in {"copy", "mount"}
       PROVE  ~Fetching(c) /\ c.w.uri /\ c.w.load.has /\ Calm(c)
  <2>1. /\ Loader.w.uri /\ Loader.w.load.has /\ Calm(Loader)
        /\ loadOps["copy"] + loadOps["mount"] <= 1
    BY <1>2, <1>8, <1>10, LoaderFields DEF Tracks, OneFetch, Fetching
  <2>2. ~Fetching(c)
    BY <1>2, <1>4, <1>7, <1>8, <1>10, <2>1 DEF Fetching, n
  <2> QED
    BY <1>4, <2>1, <2>2, LoaderFields DEF Calm
<1> QED
  BY <1>1, <1>4, <1>5, <1>6, <1>9, <1>10 DEF c, n

\* A message in the window.
LEMMA ErrorTracks ==
  ASSUME NEW s, Tracks(s)
  PROVE  Tracks(ErrorMessage(s))
<1>1. s \in LoaderStates /\ s.w \in Windows
  BY DEF Tracks, LoaderStates
<1>2. CASE s.w.area # "none"
  BY <1>2 DEF ErrorMessage
<1>3. CASE s.w.area = "none"
  <2> DEFINE w == [s.w EXCEPT !.area = "message"]
  <2>1. Quiet(s.w, w)
    BY <1>1, WindowAreas
  <2>2. Tracks([s EXCEPT !.w = w])
    <3> HIDE DEF w
    <3> QED
      BY <1>1, <2>1, AlikeTracks DEF Quiet
  <2> QED
    BY <1>3, <2>2 DEF ErrorMessage
<1> QED
  BY <1>2, <1>3

\* The copy of the file.
LEMMA WindowCopy ==
  ASSUME NEW v \in Windows, NEW n \in Int
  PROVE  LET w == [v EXCEPT !.copy = n]
         IN  /\ w \in Windows /\ w.copy = n /\ w.uri = v.uri /\ w.load = v.load
             /\ w.dest = v.dest /\ w.seen = v.seen /\ w.calls = v.calls
             /\ w.dialogs = v.dialogs /\ w.mode = v.mode
<1> DEFINE w == [v EXCEPT !.copy = n]
<1>1. w \in Windows
  BY DEF Windows
<1>2. /\ w.copy = n /\ w.uri = v.uri /\ w.load = v.load
      /\ w.dest = v.dest /\ w.seen = v.seen /\ w.calls = v.calls
      /\ w.dialogs = v.dialogs /\ w.mode = v.mode
  BY DEF Windows
<1> QED
  BY <1>1, <1>2

\* The time of the file.
LEMMA WindowMtime ==
  ASSUME NEW v \in Windows, NEW n \in Int
  PROVE  Quiet(v, [v EXCEPT !.mtime = n])
<1> DEFINE w == [v EXCEPT !.mtime = n]
<1>1. w \in Windows
  BY DEF Windows
<1>2. Quiet(v, w)
  BY <1>1 DEF Windows, Quiet, Alike
<1> QED
  BY <1>2

\* The page that is shown while the file loads.
LEMMA WindowLoading ==
  ASSUME NEW v \in Windows, NEW loading \in {"hidden", "timer", "shown"}
  PROVE  Quiet(v, [v EXCEPT !.loading = loading])
<1> DEFINE w == [v EXCEPT !.loading = loading]
<1>1. w \in Windows
  BY DEF Windows
<1>2. Quiet(v, w)
  BY <1>1 DEF Windows, Quiet, Alike
<1> QED
  BY <1>2

\* ev_window_load_remote_failed: the window has the load job, and no copy, from now on.
LEMMA LoadRemoteFailedTracks ==
  ASSUME NEW s, Tracks(s), s.f.remote
  PROVE  Tracks(LoadRemoteFailed(s))
<1> DEFINE v == [s.w EXCEPT !.copy = NoCopy]
           u == [v EXCEPT !.loading = "hidden"]
           w == [u EXCEPT !.mtime = 0]
           c == [s EXCEPT !.w = w]
<1>1. s \in LoaderStates /\ s.w \in Windows
  BY DEF Tracks, LoaderStates
<1>2. [ClearCopy(s) EXCEPT !.w.loading = "hidden", !.w.mtime = 0] = c
  BY <1>1 DEF ClearCopy, LoaderStates
<1>3. /\ v \in Windows /\ v.uri = s.w.uri /\ v.load = s.w.load /\ v.dest = s.w.dest
      /\ v.seen = s.w.seen /\ v.calls = s.w.calls /\ v.dialogs = s.w.dialogs
      /\ v.mode = s.w.mode
  <2>1. NoCopy \in Int
    BY DEF NoCopy
  <2> QED
    BY <1>1, <2>1, WindowCopy
<1> HIDE DEF v
<1>4. Quiet(v, u) /\ u \in Windows
  BY <1>3, WindowLoading DEF Quiet, Alike
<1> HIDE DEF u
<1>5. Quiet(u, w)
  BY <1>4, WindowMtime
<1> HIDE DEF w
<1>6. /\ w \in Windows /\ w.uri = s.w.uri /\ w.load = s.w.load /\ w.dest = s.w.dest
      /\ w.seen = s.w.seen /\ w.calls = s.w.calls /\ w.dialogs = s.w.dialogs
      /\ w.mode = s.w.mode
  BY <1>3, <1>4, <1>5 DEF Quiet, Alike
<1>7. c \in LoaderStates /\ c.f = s.f /\ c.q = s.q /\ c.o = s.o /\ c.w = w
  BY <1>1, <1>6, OtherWindow
<1> HIDE DEF c
<1>8. InTurn(c) /\ OneReload(c)
  BY <1>6, <1>7 DEF InTurn, OneReload, Tracks
<1>9. Tracks(c)
  BY <1>6, <1>7, <1>8, TracksAgain
<1>10. Tracks(ErrorMessage(c))
  BY <1>9, ErrorTracks
<1> QED
  BY <1>2, <1>10 DEF LoadRemoteFailed

\* The progress of the copy.
LEMMA WindowProgress ==
  ASSUME NEW v \in Windows, NEW progress \in BOOLEAN
  PROVE  Quiet(v, [v EXCEPT !.progress = progress])
<1> DEFINE w == [v EXCEPT !.progress = progress]
<1>1. w \in Windows
  BY DEF Windows
<1>2. Quiet(v, w)
  BY <1>1 DEF Windows, Quiet, Alike
<1> QED
  BY <1>2

\* Nothing is under way for a load.
LEMMA CalmTracks ==
  ASSUME NEW s \in LoaderStates, InTurn(s), OneReload(s), Calm(s), ~Fetching(s)
  PROVE  Tracks(s)
<1>1. s.o["copy"] \in Nat /\ s.o["mount"] \in Nat
  BY DEF LoaderStates, OpKinds
<1> QED
  BY <1>1 DEF Tracks, OneFetch, Fetching, Calm

\* One more question to GIO, which is not a fetch.
LEMMA AskTracks ==
  ASSUME NEW s, Tracks(s), s.f.remote, NEW kind \in {"mtime", "query", "recopy"}
  PROVE  Tracks([s EXCEPT !.o[kind] = s.o[kind] + 1])
<1> DEFINE n == s.o[kind] + 1
           c == [s EXCEPT !.o[kind] = n]
<1>1. s \in LoaderStates /\ s.o \in [OpKinds -> Nat]
  BY DEF Tracks, LoaderStates
<1>2. kind \in OpKinds /\ {"copy", "mount"} \subseteq OpKinds
  BY DEF OpKinds
<1>3. n \in Nat
  <2>1. \A other \in OpKinds : s.o[other] \in Nat
    BY <1>1
  <2>2. s.o[kind] \in Nat
    BY <1>2, <2>1, Zenon
  <2>3. \A k \in Nat : k + 1 \in Nat
    OBVIOUS
  <2> QED
    BY <2>2, <2>3, Zenon
<1> HIDE DEF n
<1>4. /\ c \in LoaderStates /\ c.f = s.f /\ c.w = s.w /\ c.q = s.q
      /\ \A other \in OpKinds : c.o[other] = IF other = kind THEN n ELSE s.o[other]
  BY <1>1, <1>2, <1>3, OtherCalls
<1> HIDE DEF c
<1>5. InTurn(c) /\ OneReload(c) /\ c.o["copy"] = s.o["copy"] /\ c.o["mount"] = s.o["mount"]
  BY <1>2, <1>4 DEF InTurn, OneReload, Tracks
<1>6. Tracks(c)
  BY <1>4, <1>5, TracksAgain
<1> QED
  BY <1>6 DEF c, n

\* mount_volume_ready_cb and set_uri_mtime
LEMMA MountTracks ==
  ASSUME Tracks(Loader), NEW ok \in BOOLEAN, MountReady(ok)
  PROVE  Tracks(Loader)'
<1> DEFINE s == Answered("mount")
           c == [s EXCEPT !.f.mounted = TRUE]
<1>1. /\ s \in LoaderStates /\ s.f = loadFile /\ s.f.remote /\ InTurn(s) /\ OneReload(s)
      /\ ~Fetching(s) /\ s.w.uri /\ s.w.load.has /\ Calm(s)
  BY AnsweredTracks DEF MountReady, OpKinds
<1>2. LoaderIs(IF ok THEN LoadRemote(c) ELSE LoadRemoteFailed(s))
  BY DEF MountReady
<1> HIDE DEF s
<1>3. /\ c \in LoaderStates /\ c.f.remote = s.f.remote /\ c.w = s.w /\ c.q = s.q /\ c.o = s.o
  BY <1>1 DEF LoaderStates, FileStates
<1> HIDE DEF c
<1>4. InTurn(c) /\ ~Fetching(c) /\ Calm(c) /\ OneReload(c)
  BY <1>1, <1>3 DEF InTurn, Fetching, Calm, OneReload
<1>5. Tracks(LoadRemote(c))
  BY <1>1, <1>3, <1>4, LoadRemoteTracks
<1>6. Tracks(LoadRemoteFailed(s))
  BY <1>1, CalmTracks, LoadRemoteFailedTracks
<1> QED
  BY <1>2, <1>5, <1>6, LoaderStep

\* The time of the remote file has come.
LEMMA MtimeTracks ==
  ASSUME Tracks(Loader), NEW ok \in BOOLEAN, MtimeReady(ok)
  PROVE  Tracks(Loader)'
<1> DEFINE s == Answered("mtime")
           n == IF ok THEN loadFile.version ELSE 0
           w == [s.w EXCEPT !.mtime = n]
<1>1. Tracks(s) /\ s.w \in Windows /\ s.f = loadFile /\ s \in LoaderStates
  BY AnsweredTracks DEF MtimeReady, OpKinds
<1>2. LoaderIs([s EXCEPT !.w = w])
  BY DEF MtimeReady
<1> HIDE DEF s
<1>3. n \in Int
  BY <1>1 DEF LoaderStates, FileStates
<1> HIDE DEF n
<1>4. Quiet(s.w, w)
  BY <1>1, <1>3, WindowMtime
<1>5. Tracks([s EXCEPT !.w = w])
  <2> HIDE DEF w
  <2> QED
    BY <1>1, <1>4, AlikeTracks DEF Quiet
<1> QED
  BY <1>2, <1>5, LoaderStep

\* A reload of a remote file.
LEMMA ReloadRemoteTracks ==
  ASSUME NEW s, Tracks(s), s.f.remote
  PROVE  Tracks(ReloadLocal(s))
<1> DEFINE c == ReloadLocal(s)
<1>1. s \in LoaderStates /\ OneReload(s)
  BY DEF Tracks
<1>2. /\ c \in LoaderStates /\ c.f = s.f /\ c.o = s.o /\ c.w = s.w
      /\ HasLoad(c.q) => HasLoad(s.q)
      /\ OneReload(c)
  BY <1>1, ReloadLocalTracks
<1> HIDE DEF c
<1>3. InTurn(c)
  BY <1>2 DEF Tracks, InTurn
<1>4. Tracks(c)
  BY <1>2, <1>3, TracksAgain
<1> QED
  BY <1>4 DEF c

\* query_remote_uri_mtime_cb
LEMMA QueryTracks ==
  ASSUME Tracks(Loader), NEW ok \in BOOLEAN, QueryReady(ok)
  PROVE  Tracks(Loader)'
<1> DEFINE s == Answered("query")
           t == [s.w EXCEPT !.mtime = loadFile.version]
           u == [t EXCEPT !.cancelled = FALSE, !.area = t.area]
           w == [u EXCEPT !.progress = TRUE]
           c == [s EXCEPT !.w = w]
           b == [s EXCEPT !.w.mtime = loadFile.version, !.w.cancelled = FALSE,
                          !.w.progress = TRUE]
<1>1. Tracks(s) /\ s.w \in Windows /\ s.f = loadFile /\ s \in LoaderStates /\ s.f.remote
  BY AnsweredTracks DEF QueryReady, OpKinds
<1>2. LoaderIs(IF ~ok \/ loadWin.mtime = loadFile.version THEN ReloadLocal(s)
               ELSE IF loadWin.copy = NoCopy THEN b
               ELSE [b EXCEPT !.o["recopy"] = @ + 1])
  BY DEF QueryReady
<1> HIDE DEF s
<1>3. b = c
  <2>1. s.w.area = t.area /\ u = [t EXCEPT !.cancelled = FALSE]
    BY <1>1 DEF Windows
  <2> HIDE DEF u
  <2> QED
    BY <2>1 DEF LoaderStates
<1>4. loadFile.version \in Int
  BY <1>1 DEF LoaderStates, FileStates
<1>5. Quiet(s.w, t) /\ t \in Windows
  BY <1>1, <1>4, WindowMtime DEF Quiet, Alike
<1> HIDE DEF t, b
<1>6. Quiet(t, u) /\ u \in Windows
  <2>1. t.area \in {"none", "message", "progress"}
    BY <1>5 DEF Windows
  <2> QED
    BY <1>5, <2>1, WindowAreas, ZenonT(60) DEF Quiet, Alike
<1> HIDE DEF u
<1>7. Quiet(u, w)
  BY <1>6, WindowProgress
<1> HIDE DEF w
<1>8. Quiet(s.w, w)
  BY <1>5, <1>6, <1>7 DEF Quiet, Alike
<1>9. Tracks(c) /\ c.f.remote
  BY <1>1, <1>8, AlikeTracks, OtherWindow DEF Quiet, Alike
<1> HIDE DEF c
<1>10. Tracks([c EXCEPT !.o["recopy"] = c.o["recopy"] + 1])
  BY <1>9, AskTracks
<1>11. Tracks(ReloadLocal(s))
  BY <1>1, ReloadRemoteTracks
<1> QED
  BY <1>2, <1>3, <1>9, <1>10, <1>11, LoaderStep

\* reload_remote_copy_ready_cb
LEMMA ReloadCopyTracks ==
  ASSUME Tracks(Loader), NEW result \in CopyResults, ReloadCopyReady(result)
  PROVE  Tracks(Loader)'
<1> DEFINE s == Answered("recopy")
           u == [s.w EXCEPT !.progress = FALSE]
           c == [s EXCEPT !.w = u]
           n == IF c.w.copy = NoCopy THEN NoCopy ELSE loadFile.version
           w == [c.w EXCEPT !.copy = n]
           d == [c EXCEPT !.w = w]
<1>1. Tracks(s) /\ s.w \in Windows /\ s.f = loadFile /\ s \in LoaderStates /\ s.f.remote
  BY AnsweredTracks DEF ReloadCopyReady, OpKinds
<1>2. LoaderIs(CASE result = "ok" -> ReloadLocal([c EXCEPT !.w.copy = n])
                 [] result = "cancelled" -> c
                 [] result = "failed" -> ErrorMessage(c))
  BY DEF ReloadCopyReady
<1> HIDE DEF s
<1>3. n \in Int
  BY <1>1 DEF LoaderStates, FileStates, NoCopy
<1>4. Quiet(s.w, u) /\ u \in Windows
  BY <1>1, WindowProgress DEF Quiet, Alike
<1> HIDE DEF u
<1>5. Tracks(c) /\ c.f.remote /\ c \in LoaderStates /\ c.w = u
  BY <1>1, <1>4, AlikeTracks, OtherWindow DEF Quiet
<1> HIDE DEF n
<1>6. [c EXCEPT !.w.copy = n] = d
  OBVIOUS
<1> HIDE DEF c
<1>7. /\ w \in Windows /\ w.uri = c.w.uri /\ w.load = c.w.load
      /\ w.dest = c.w.dest /\ w.seen = c.w.seen /\ w.calls = c.w.calls
      /\ w.dialogs = c.w.dialogs /\ w.mode = c.w.mode
  BY <1>3, <1>4, <1>5, WindowCopy
<1> HIDE DEF w
<1>8. d \in LoaderStates /\ d.f = c.f /\ d.q = c.q /\ d.o = c.o /\ d.w = w
  BY <1>5, <1>7, OtherWindow
<1> HIDE DEF d
<1>9. InTurn(d) /\ OneReload(d)
  BY <1>5, <1>7, <1>8 DEF InTurn, OneReload, Tracks
<1>10. Tracks(d)
  BY <1>5, <1>7, <1>8, <1>9, TracksAgain
<1>11. Tracks(ReloadLocal(d)) /\ Tracks(ErrorMessage(c))
  BY <1>5, <1>8, <1>10, ReloadRemoteTracks, ErrorTracks
<1> QED
  BY <1>2, <1>5, <1>6, <1>11, LoaderStep DEF CopyResults

\* A fetch that was cancelled: the window is without a file again.
LEMMA CancelledTracks ==
  ASSUME NEW s \in LoaderStates, InTurn(s), OneReload(s), Calm(s), ~Fetching(s), s.f.remote
  PROVE  Tracks([ClearCopy(ClearLoad(s)) EXCEPT !.w.uri = FALSE, !.w.loading = "hidden"])
<1> DEFINE a == ClearLoad(s)
           t == [a.w EXCEPT !.copy = NoCopy]
           u == [t EXCEPT !.uri = FALSE]
           w == [u EXCEPT !.loading = "hidden"]
           c == [a EXCEPT !.w = w]
           b == [ClearCopy(a) EXCEPT !.w.uri = FALSE, !.w.loading = "hidden"]
<1>1. s.w \in Windows
  BY DEF LoaderStates
<1>2. /\ a \in LoaderStates /\ a.f = s.f /\ a.o = s.o /\ a.w = [s.w EXCEPT !.load = NoLoadJob]
      /\ ~HasLoad(a.q) /\ OneReload(a)
  BY ClearLoadTracks
<1> HIDE DEF a
<1>3. b = c
  BY <1>2 DEF LoaderStates, ClearCopy
<1>4. /\ a.w \in Windows /\ a.w.dest = s.w.dest /\ a.w.seen = s.w.seen /\ a.w.calls = s.w.calls
      /\ a.w.dialogs = s.w.dialogs /\ a.w.mode = s.w.mode
  <2>1. a.w \in Windows
    BY <1>2 DEF LoaderStates
  <2> QED
    BY <1>1, <1>2, <2>1 DEF Windows
<1>5. /\ t \in Windows /\ t.dest = a.w.dest /\ t.seen = a.w.seen /\ t.calls = a.w.calls
      /\ t.dialogs = a.w.dialogs /\ t.mode = a.w.mode
  <2>1. NoCopy \in Int
    BY DEF NoCopy
  <2> QED
    BY <1>4, <2>1, WindowCopy
<1> HIDE DEF t, b
<1>6. /\ u \in Windows /\ u.dest = t.dest /\ u.seen = t.seen /\ u.calls = t.calls
      /\ u.dialogs = t.dialogs /\ u.mode = t.mode
  <2>1. u \in Windows
    BY <1>5 DEF Windows
  <2> QED
    BY <1>5, <2>1 DEF Windows
<1> HIDE DEF u
<1>7. Quiet(u, w)
  BY <1>6, WindowLoading
<1> HIDE DEF w
<1>8. w \in Windows /\ c \in LoaderStates /\ c.f = a.f /\ c.q = a.q /\ c.o = a.o /\ c.w = w
  <2>1. w \in Windows
    BY <1>7 DEF Quiet, Alike
  <2> QED
    BY <1>2, <2>1, OtherWindow
<1> HIDE DEF c
<1>9. InTurn(c) /\ OneReload(c)
  BY <1>2, <1>4, <1>5, <1>6, <1>7, <1>8 DEF InTurn, OneReload, Quiet, Alike
<1>10. Calm(c) /\ ~Fetching(c)
  BY <1>2, <1>4, <1>5, <1>6, <1>7, <1>8 DEF Calm, Fetching, Quiet
<1>11. Tracks(c)
  BY <1>8, <1>9, <1>10, CalmTracks
<1> QED
  BY <1>3, <1>11 DEF a, b

\* window_open_file_copy_ready_cb
LEMMA CopyTracks ==
  ASSUME Tracks(Loader), NEW result \in CopyResults \cup {"unmounted"}, CopyReady(result)
  PROVE  Tracks(Loader)'
<1> DEFINE s == Answered("copy")
           u == [s.w EXCEPT !.progress = FALSE]
           v == [u EXCEPT !.area = "none"]
           b == [s EXCEPT !.w.progress = FALSE, !.w.area = "none"]
           c == [s EXCEPT !.w = v]
           p == PushLoad(c)
           w == [p.w EXCEPT !.copy = loadFile.version]
           d == [p EXCEPT !.w = w]
<1>1. /\ s \in LoaderStates /\ s.f = loadFile /\ s.f.remote /\ s.w \in Windows
      /\ InTurn(s) /\ OneReload(s) /\ ~Fetching(s) /\ s.w.uri /\ s.w.load.has /\ Calm(s)
  BY AnsweredTracks DEF CopyReady, OpKinds
<1>2. LoaderIs(CASE result = "ok" ->
                      [PushLoad(b) EXCEPT !.w.copy = loadFile.version, !.o["mtime"] = @ + 1]
                 [] result = "unmounted" -> [b EXCEPT !.o["mount"] = @ + 1]
                 [] result = "cancelled" ->
                      [ClearCopy(ClearLoad(b)) EXCEPT !.w.uri = FALSE, !.w.loading = "hidden"]
                 [] result = "failed" -> LoadRemoteFailed(b))
  BY DEF CopyReady
<1> HIDE DEF s
<1>3. b = c
  BY DEF LoaderStates
<1>4. Quiet(s.w, u) /\ u \in Windows
  BY <1>1, WindowProgress DEF Quiet, Alike
<1> HIDE DEF b, u
<1>5. Quiet(u, v)
  BY <1>4, WindowAreas
<1> HIDE DEF v
<1>6. Quiet(s.w, v) /\ v \in Windows
  BY <1>4, <1>5 DEF Quiet, Alike
<1>7. c \in LoaderStates /\ c.f = s.f /\ c.q = s.q /\ c.o = s.o /\ c.w = v
  BY <1>1, <1>6, OtherWindow
<1> HIDE DEF c
<1>8. InTurn(c) /\ OneReload(c) /\ ~Fetching(c) /\ c.w.uri /\ c.w.load.has /\ Calm(c)
  BY <1>1, <1>6, <1>7 DEF InTurn, OneReload, Fetching, Calm, Quiet, Alike
<1>9. CASE result = "ok"
  <2>1. Tracks(p) /\ p \in LoaderStates /\ p.w = c.w /\ p.f = c.f /\ p.o = c.o
    BY <1>7, <1>8, PushTracks, PushLoadTracks
  <2> HIDE DEF p
  <2>2. /\ w \in Windows /\ w.uri = p.w.uri /\ w.load = p.w.load
        /\ w.dest = p.w.dest /\ w.seen = p.w.seen /\ w.calls = p.w.calls
        /\ w.dialogs = p.w.dialogs /\ w.mode = p.w.mode
    <3>1. s.f \in FileStates
      BY <1>1 DEF LoaderStates
    <3>2. s.f.version \in Nat
      BY <3>1 DEF FileStates
    <3>3. loadFile.version \in Int
      BY <1>1, <3>2
    <3> QED
      BY <1>6, <1>7, <2>1, <3>3, WindowCopy
  <2>3. LoaderIs([d EXCEPT !.o["mtime"] = d.o["mtime"] + 1])
    <3>1. [p EXCEPT !.w.copy = loadFile.version, !.o["mtime"] = @ + 1]
            = [d EXCEPT !.o["mtime"] = d.o["mtime"] + 1]
      BY <2>1 DEF LoaderStates
    <3>2. LoaderIs([p EXCEPT !.w.copy = loadFile.version, !.o["mtime"] = @ + 1])
      BY <1>2, <1>3, <1>9 DEF p
    <3> QED
      BY <3>1, <3>2
  <2> HIDE DEF w
  <2>4. d \in LoaderStates /\ d.f = p.f /\ d.q = p.q /\ d.o = p.o /\ d.w = w
    BY <2>1, <2>2, OtherWindow
  <2> HIDE DEF d
  <2>5. InTurn(d) /\ OneReload(d)
    BY <1>1, <1>7, <2>1, <2>2, <2>4 DEF InTurn, OneReload, Tracks
  <2>6. Tracks(d) /\ d.f.remote
    BY <1>1, <1>7, <2>1, <2>2, <2>4, <2>5, TracksAgain
  <2>7. Tracks([d EXCEPT !.o["mtime"] = d.o["mtime"] + 1])
    BY <2>6, AskTracks
  <2> QED
    BY <2>3, <2>7, LoaderStep
<1>10. CASE result = "unmounted"
  <2> DEFINE n == c.o["mount"] + 1
             e == [c EXCEPT !.o["mount"] = n]
  <2>1. LoaderIs(e)
    BY <1>2, <1>3, <1>10
  <2>2. {"copy", "mount"} \subseteq OpKinds /\ c.o["copy"] = 0 /\ c.o["mount"] = 0
    <3>1. {"copy", "mount"} \subseteq OpKinds
      BY DEF OpKinds
    <3>2. \A kind \in OpKinds : c.o[kind] \in Nat
      BY <1>7 DEF LoaderStates
    <3>3. c.o["copy"] \in Nat /\ c.o["mount"] \in Nat
      BY <3>1, <3>2
    <3>4. ~(c.o["copy"] + c.o["mount"] > 0)
      BY <1>8 DEF Fetching
    <3>5. \A x, y \in Nat : ~(x + y > 0) => x = 0 /\ y = 0
      OBVIOUS
    <3> QED
      BY <3>1, <3>3, <3>4, <3>5, Zenon
  <2>3. n = 1
    <3>1. 0 + 1 = 1
      OBVIOUS
    <3> QED
      BY <2>2, <3>1, Zenon
  <2> HIDE DEF n
  <2>4. /\ e \in LoaderStates /\ e.f = c.f /\ e.w = c.w /\ e.q = c.q
        /\ \A other \in OpKinds : e.o[other] = IF other = "mount" THEN n ELSE c.o[other]
    <3>1. n \in Nat /\ "mount" \in OpKinds
      BY <2>2, <2>3
    <3> QED
      BY <1>7, <3>1, OtherCalls
  <2> HIDE DEF e
  <2>5. InTurn(e) /\ OneReload(e) /\ Calm(e)
    BY <1>1, <1>7, <1>8, <2>4 DEF InTurn, OneReload, Calm
  <2>6. e.o["copy"] + e.o["mount"] = 1
    <3>1. e.o["copy"] = 0 /\ e.o["mount"] = 1
      BY <2>2, <2>3, <2>4
    <3>2. 0 + 1 = 1
      OBVIOUS
    <3> QED
      BY <3>1, <3>2, Zenon
  <2>7. Tracks(e)
    BY <1>8, <2>4, <2>5, <2>6 DEF Tracks, OneFetch, Calm
  <2> QED
    BY <2>1, <2>7, LoaderStep
<1>11. CASE result = "cancelled"
  BY <1>1, <1>2, <1>3, <1>7, <1>8, <1>11, CancelledTracks, LoaderStep
<1>12. CASE result = "failed"
  BY <1>1, <1>2, <1>3, <1>7, <1>8, <1>12, CalmTracks, LoadRemoteFailedTracks, LoaderStep
<1> QED
  BY <1>9, <1>10, <1>11, <1>12 DEF CopyResults

\* Every answer of GIO.
LEMMA GioTracks ==
  ASSUME Tracks(Loader), GioAnswers
  PROVE  Tracks(Loader)'
BY CopyTracks, ReloadCopyTracks, MountTracks, MtimeTracks, QueryTracks DEF GioAnswers

-----------------------------------------------------------------------------
(* The worker and the main loop.                                           *)

\* What a job reads is a document or a failure.
LEMMA ReadIs ==
  ASSUME NEW s \in LoaderStates, NEW j \in QueueJobs
  PROVE  Read(s, j).doc \in Int /\ Read(s, j).result \in Results
<1>1. s.w \in Windows /\ s.f \in FileStates
  BY DEF LoaderStates
<1>2. s.w.copy \in Int /\ s.f.version \in Int
  <2>1. s.w.copy \in Int
    BY <1>1 DEF Windows
  <2>2. s.f.version \in Nat
    BY <1>1 DEF FileStates
  <2> QED
    BY <2>1, <2>2
<1>3. Read(s, j).doc = IF j.from = "copy" THEN s.w.copy ELSE s.f.version
  BY DEF Read
<1>4. Read(s, j).result \in {"failed", "encrypted", "ok"}
  BY DEF Read
<1> QED
  BY <1>2, <1>3, <1>4 DEF Results

\* What the load job knows.
LEMMA WindowLoad ==
  ASSUME NEW v \in Windows, NEW job \in LoadJobs
  PROVE  LET w == [v EXCEPT !.load = job]
         IN  /\ w \in Windows /\ w.load = job /\ w.uri = v.uri /\ w.copy = v.copy
             /\ w.dest = v.dest /\ w.seen = v.seen /\ w.calls = v.calls
             /\ w.dialogs = v.dialogs /\ w.mode = v.mode
<1> DEFINE w == [v EXCEPT !.load = job]
<1>1. w \in Windows
  BY DEF Windows
<1>2. /\ w.load = job /\ w.uri = v.uri /\ w.copy = v.copy
      /\ w.dest = v.dest /\ w.seen = v.seen /\ w.calls = v.calls
      /\ w.dialogs = v.dialogs /\ w.mode = v.mode
  BY DEF Windows
<1> QED
  BY <1>1, <1>2

\* A job of the queue runs: it is the same job for the window.
LEMMA RanTracks ==
  ASSUME NEW s, Tracks(s), NEW i \in DOMAIN s.q, NEW job \in QueueJobs,
         job.kind = s.q[i].kind, job.mine = s.q[i].mine
  PROVE  LET c == [s EXCEPT !.q = [s.q EXCEPT ![i] = job]]
         IN  Tracks(c) /\ c.w = s.w /\ c.f = s.f /\ c.o = s.o
<1> DEFINE r == [s.q EXCEPT ![i] = job]
           c == [s EXCEPT !.q = r]
<1>1. s \in LoaderStates /\ s.q \in Seq(QueueJobs)
  BY DEF Tracks, LoaderStates
<1>2. /\ r \in Seq(QueueJobs) /\ DOMAIN r = DOMAIN s.q
      /\ \A k \in DOMAIN s.q : r[k].kind = s.q[k].kind /\ r[k].mine = s.q[k].mine
  <2>1. r \in Seq(QueueJobs) /\ DOMAIN r = DOMAIN s.q
    BY <1>1
  <2>2. \A k \in DOMAIN s.q : r[k] = IF k = i THEN job ELSE s.q[k]
    BY <1>1
  <2> HIDE DEF r
  <2> QED
    BY <2>1, <2>2
<1> HIDE DEF r
<1>3. c \in LoaderStates /\ c.f = s.f /\ c.o = s.o /\ c.w = s.w /\ c.q = r
  BY <1>1, <1>2, OtherQueue, SMTT(60)
<1> HIDE DEF c
<1>4. InTurn(c) /\ OneReload(c)
  <2>1. LastIsOwn(c.q)
    BY <1>2, <1>3 DEF Tracks, OneReload, LastIsOwn
  <2> QED
    BY <1>2, <1>3, <2>1 DEF Tracks, InTurn, OneReload
<1>5. HasLoad(c.q) => HasLoad(s.q)
  BY <1>2, <1>3 DEF HasLoad
<1>6. Tracks(c)
  BY <1>3, <1>4, <1>5, TracksAgain
<1> QED
  BY <1>3, <1>6 DEF c, r

\* ev_job_load_run
LEMMA RunTracks ==
  ASSUME Tracks(Loader), RunLoad
  PROVE  Tracks(Loader)'
<1>1. PICK i \in DOMAIN loadQueue :
        LET got == Read(Loader, loadQueue[i])
            ran == [Loader EXCEPT !.q[i].ran = TRUE, !.q[i].doc = got.doc,
                                  !.q[i].result = got.result]
        IN LoaderIs(IF loadQueue[i].kind = "reload" THEN ran
                    ELSE [ran EXCEPT !.w.load.doc = got.doc, !.w.load.result = got.result])
  BY ZenonT(60) DEF RunLoad
<1> DEFINE j == loadQueue[i]
           got == Read(Loader, j)
           job == [j EXCEPT !.ran = TRUE, !.doc = got.doc, !.result = got.result]
           c == [Loader EXCEPT !.q = [Loader.q EXCEPT ![i] = job]]
           ran == [Loader EXCEPT !.q[i].ran = TRUE, !.q[i].doc = got.doc,
                                 !.q[i].result = got.result]
           load == [c.w.load EXCEPT !.doc = got.doc, !.result = got.result]
           w == [c.w EXCEPT !.load = load]
<1>2. /\ Loader \in LoaderStates /\ loadQueue \in Seq(QueueJobs) /\ loadWin \in Windows
      /\ j \in QueueJobs
  BY LoaderFields DEF Tracks, LoaderStates
<1>3. LoaderIs(IF j.kind = "reload" THEN ran
               ELSE [ran EXCEPT !.w.load.doc = got.doc, !.w.load.result = got.result])
  BY <1>1
<1>4. got.doc \in Int /\ got.result \in Results
  BY <1>2, ReadIs
<1>5. ran = c
  <2>1. ran = [Loader EXCEPT !.q = [Loader.q EXCEPT ![i] =
                 [Loader.q[i] EXCEPT !.ran = TRUE, !.doc = got.doc, !.result = got.result]]]
    BY <1>2, LoaderFields DEF LoaderStates
  <2> QED
    BY <2>1, LoaderFields
<1> HIDE DEF got, ran
<1>6. job \in QueueJobs /\ job.kind = j.kind /\ job.mine = j.mine
  BY <1>2, <1>4 DEF QueueJobs
<1> HIDE DEF job
<1>7. Tracks(c) /\ c.w = loadWin
  BY <1>6, LoaderFields, RanTracks
<1> HIDE DEF c
<1>8. load \in LoadJobs /\ load.has = c.w.load.has
  <2>1. c.w.load \in LoadJobs
    BY <1>2, <1>7 DEF Windows
  <2> QED
    BY <1>4, <2>1 DEF LoadJobs
<1>9. LoaderIs(IF j.kind = "reload" THEN c ELSE [c EXCEPT !.w = w])
  <2>1. [c EXCEPT !.w.load.doc = got.doc, !.w.load.result = got.result] = [c EXCEPT !.w = w]
    OBVIOUS
  <2> QED
    BY <1>3, <1>5, <2>1
<1> HIDE DEF load
<1>10. /\ w \in Windows /\ w.load = load /\ w.uri = c.w.uri /\ w.copy = c.w.copy
       /\ w.dest = c.w.dest /\ w.seen = c.w.seen /\ w.calls = c.w.calls
       /\ w.dialogs = c.w.dialogs /\ w.mode = c.w.mode
  BY <1>2, <1>7, <1>8, WindowLoad
<1> HIDE DEF w
<1> DEFINE d == [c EXCEPT !.w = w]
<1>11. d \in LoaderStates /\ d.f = c.f /\ d.q = c.q /\ d.o = c.o /\ d.w = w
  BY <1>7, <1>10, OtherWindow DEF Tracks
<1> HIDE DEF d
<1>12. Sees(c, d) /\ d.w.dialogs = c.w.dialogs /\ d.w.mode = c.w.mode
  BY <1>8, <1>10, <1>11 DEF Sees
<1>13. Tracks(d)
  BY <1>7, <1>12, SeesTracks
<1> QED
  BY <1>7, <1>9, <1>13, LoaderStep DEF d

\* A job that has finished is a job of the queue; a load job among them is one that the
\* window has, with nothing fetched.
LEMMA FinishedKnown ==
  ASSUME Tracks(Loader), NEW kind \in {"load", "reload"}, Finished(kind)
  PROVE  /\ Loader \in LoaderStates /\ loadWin \in Windows /\ loadQueue \in Seq(QueueJobs)
         /\ loadQueue # <<>> /\ Head(loadQueue) \in QueueJobs
         /\ kind = "load" => loadWin.load.has /\ loadWin.uri /\ ~Fetching(Loader)
<1>1. Loader \in LoaderStates /\ loadWin \in Windows /\ loadQueue \in Seq(QueueJobs)
  BY LoaderFields DEF Tracks, LoaderStates
<1>2. loadQueue # <<>> /\ loadQueue[1].kind = kind /\ Head(loadQueue) \in QueueJobs
  BY <1>1 DEF Finished
<1>3. ASSUME kind = "load" PROVE loadWin.load.has /\ loadWin.uri /\ ~Fetching(Loader)
  <2>1. 1 \in DOMAIN loadQueue
    BY <1>1, <1>2
  <2>2. HasLoad(Loader.q)
    BY <1>2, <1>3, <2>1, LoaderFields DEF HasLoad
  <2>3. ~Calm(Loader) /\ loadWin.uri \in BOOLEAN
    BY <1>1, <2>2 DEF Calm, Windows
  <2> QED
    BY <2>2, <2>3, LoaderFields DEF Tracks, OneFetch
<1> QED
  BY <1>1, <1>2, <1>3

\* The queue without its first job.
LEMMA TailTracks ==
  ASSUME NEW s, Tracks(s), s.q # <<>>
  PROVE  LET c == [s EXCEPT !.q = Tail(s.q)]
         IN  Tracks(c) /\ c.w = s.w /\ c.f = s.f /\ c.o = s.o
<1> DEFINE r == Tail(s.q)
           c == [s EXCEPT !.q = r]
<1>1. s \in LoaderStates /\ s.q \in Seq(QueueJobs)
  BY DEF Tracks, LoaderStates
<1>2. /\ r \in Seq(QueueJobs) /\ DOMAIN r = 1 .. (Len(s.q) - 1) /\ DOMAIN s.q = 1 .. Len(s.q)
      /\ \A i \in DOMAIN r : r[i] = s.q[i + 1]
      /\ Len(s.q) \in Nat
  BY <1>1
<1> HIDE DEF r
<1>3. c \in LoaderStates /\ c.f = s.f /\ c.o = s.o /\ c.w = s.w /\ c.q = r
  BY <1>1, <1>2, OtherQueue, SMTT(60)
<1> HIDE DEF c
<1>4. \A i \in DOMAIN r : i + 1 \in DOMAIN s.q
  BY <1>2
<1>5. OneReload(c)
  <2>3. LastIsOwn(c.q)
    <3>1. ASSUME NEW i \in DOMAIN r, NEW k \in DOMAIN r, i < k,
                 r[i].kind = "reload", r[k].kind = "reload"
          PROVE  ~r[i].mine
      <4>1. i + 1 < k + 1 /\ i + 1 \in DOMAIN s.q /\ k + 1 \in DOMAIN s.q
        BY <1>2, <3>1
      <4> QED
        BY <1>2, <3>1, <4>1 DEF Tracks, OneReload, LastIsOwn
    <3> QED
      BY <1>3, <3>1 DEF LastIsOwn
  <2>1. CASE s.f.remote
    BY <1>3, <2>1, <2>3 DEF OneReload
  <2>2. CASE ~s.f.remote
    <3>1. ASSUME NEW i \in DOMAIN r, NEW k \in DOMAIN r,
                 r[i].kind = "reload", r[k].kind = "reload"
          PROVE  i = k /\ r[i].mine
      <4>1. i + 1 = k + 1 /\ s.q[i + 1].mine
        BY <1>2, <1>4, <2>2, <3>1 DEF Tracks, OneReload
      <4>2. i \in Int /\ k \in Int
        BY <1>2
      <4> QED
        BY <1>2, <4>1, <4>2
    <3> QED
      BY <1>3, <2>2, <2>3, <3>1 DEF Tracks, OneReload
  <2> QED
    BY <2>1, <2>2
<1>6. InTurn(c)
  BY <1>3 DEF Tracks, InTurn
<1>7. HasLoad(c.q) => HasLoad(s.q)
  BY <1>2, <1>3, <1>4 DEF HasLoad
<1>8. Tracks(c)
  BY <1>3, <1>5, <1>6, <1>7, TracksAgain
<1> QED
  BY <1>3, <1>8 DEF c, r

\* The job at the head of the queue is gone, and the page that says that the file loads.
LEMMA HeadGoneTracks ==
  ASSUME Tracks(Loader), loadQueue # <<>>
  PROVE  /\ Tracks(HeadGone) /\ HeadGone.f = loadFile /\ HeadGone.o = loadOps
         /\ Quiet(loadWin, HeadGone.w) /\ HeadGone.w \in Windows
<1> DEFINE c == [Loader EXCEPT !.q = Tail(Loader.q)]
           w == [c.w EXCEPT !.loading = "hidden"]
           d == [c EXCEPT !.w = w]
<1>1. HeadGone = d
  BY LoaderFields DEF HeadGone
<1>2. Tracks(c) /\ c.w = loadWin /\ c.f = loadFile /\ c.o = loadOps
  BY LoaderFields, TailTracks
<1>3. c \in LoaderStates /\ c.w \in Windows
  BY <1>2 DEF Tracks, LoaderStates
<1> HIDE DEF c
<1>4. Quiet(c.w, w)
  BY <1>3, WindowLoading
<1> HIDE DEF w
<1>5. Tracks(d)
  BY <1>2, <1>4, AlikeTracks DEF Quiet
<1>6. w \in Windows
  BY <1>4 DEF Quiet, Alike
<1>7. d.w = w /\ d.f = c.f /\ d.o = c.o
  BY <1>3, <1>6, OtherWindow
<1> QED
  BY <1>1, <1>2, <1>4, <1>5, <1>6, <1>7

\* ev_window_clear_load_job when nothing is fetched
LEMMA ClearLoadSteps ==
  ASSUME NEW s, Tracks(s), ~Fetching(s)
  PROVE  Tracks(ClearLoad(s))
<1> DEFINE c == ClearLoad(s)
<1>1. s \in LoaderStates /\ s.w \in Windows /\ OneReload(s)
  BY DEF Tracks, LoaderStates
<1>2. /\ c \in LoaderStates /\ c.f = s.f /\ c.o = s.o
      /\ c.w = [s.w EXCEPT !.load = NoLoadJob] /\ ~HasLoad(c.q) /\ OneReload(c)
  BY <1>1, ClearLoadTracks
<1>3. NoLoadJob \in LoadJobs
  BY DEF NoLoadJob, LoadJobs, Passwords, Results
<1> HIDE DEF c
<1>4. /\ c.w.uri = s.w.uri /\ c.w.dest = s.w.dest /\ c.w.seen = s.w.seen
      /\ c.w.calls = s.w.calls /\ c.w.dialogs = s.w.dialogs /\ c.w.mode = s.w.mode
  BY <1>1, <1>2, <1>3, WindowLoad
<1>5. InTurn(c) /\ ~Fetching(c)
  BY <1>2, <1>4 DEF Tracks, InTurn, Fetching
<1>6. s.o["copy"] + s.o["mount"] <= 1 /\ c.o = s.o
  BY <1>2 DEF Tracks, OneFetch
<1>7. ~c.w.uri => Calm(c)
  BY <1>2, <1>4 DEF Tracks, OneFetch, Calm
<1>8. Tracks(c)
  BY <1>2, <1>5, <1>6, <1>7 DEF Tracks, OneFetch
<1> QED
  BY <1>8 DEF c

\* ev_window_clear_reload_job
LEMMA ClearReloadSteps ==
  ASSUME NEW s, Tracks(s)
  PROVE  Tracks(ClearReload(s))
<1> DEFINE c == ClearReload(s)
<1>1. s \in LoaderStates /\ OneReload(s)
  BY DEF Tracks
<1>2. /\ c \in LoaderStates /\ c.f = s.f /\ c.o = s.o /\ c.w = s.w
      /\ HasLoad(c.q) => HasLoad(s.q)
      /\ OneReload(c)
  BY <1>1, ClearReloadTracks
<1> HIDE DEF c
<1>3. InTurn(c)
  BY <1>2 DEF Tracks, InTurn
<1>4. Tracks(c)
  BY <1>2, <1>3, TracksAgain
<1> QED
  BY <1>4 DEF c

\* ev_window_set_document
LEMMA ShowTracks ==
  ASSUME NEW s, Tracks(s), NEW doc \in Int
  PROVE  LET c == ShowDocument(s, doc) IN Tracks(c) /\ Sees(s, c)
<1> DEFINE w == [s.w EXCEPT !.doc = doc, !.area = "none", !.setup = TRUE]
           c == [s EXCEPT !.w = w]
<1>1. s \in LoaderStates /\ s.w \in Windows
  BY DEF Tracks, LoaderStates
<1>2. ShowDocument(s, doc) = c
  BY DEF ShowDocument
<1>3. w \in Windows
  BY <1>1 DEF Windows
<1>4. /\ w.uri = s.w.uri /\ w.copy = s.w.copy /\ w.load = s.w.load
      /\ w.dest = s.w.dest /\ w.seen = s.w.seen /\ w.calls = s.w.calls
      /\ w.dialogs = s.w.dialogs /\ w.mode = s.w.mode
  BY <1>1 DEF Windows
<1> HIDE DEF w
<1>5. Quiet(s.w, w)
  BY <1>3, <1>4 DEF Quiet, Alike
<1>6. Tracks(c) /\ Sees(s, c)
  BY <1>1, <1>3, <1>5, AlikeTracks, OtherWindow DEF Quiet
<1> QED
  BY <1>2, <1>6

\* The window goes to the destination, or forgets it.
LEMMA DestTracks ==
  ASSUME NEW s, Tracks(s)
  PROVE  /\ Tracks([s EXCEPT !.w.dest = Nowhere])
         /\ LET c == FollowDest(s)
            IN  Tracks(c) /\ c.f = s.f /\ c.o = s.o /\ c.w.uri = s.w.uri
<1>1. s \in LoaderStates /\ s.w \in Windows
  BY DEF Tracks, LoaderStates
<1>2. ASSUME NEW seen \in {s.w.seen, s.w.dest}
      PROVE  LET c == [s EXCEPT !.w = [s.w EXCEPT !.seen = seen, !.dest = Nowhere]]
             IN  Tracks(c) /\ c.f = s.f /\ c.o = s.o /\ c.w.uri = s.w.uri
  <2> DEFINE w == [s.w EXCEPT !.seen = seen, !.dest = Nowhere]
             c == [s EXCEPT !.w = w]
  <2>1. seen \in Nat /\ seen <= s.w.calls
    BY <1>1 DEF Windows, Tracks, InTurn
  <2>2. w \in Windows
    BY <1>1, <2>1 DEF Windows, Nowhere
  <2>3. /\ w.uri = s.w.uri /\ w.copy = s.w.copy /\ w.load = s.w.load
        /\ w.dest = Nowhere /\ w.seen = seen /\ w.calls = s.w.calls
        /\ w.dialogs = s.w.dialogs /\ w.mode = s.w.mode
    BY <1>1 DEF Windows
  <2> HIDE DEF w
  <2>4. c \in LoaderStates /\ c.f = s.f /\ c.q = s.q /\ c.o = s.o /\ c.w = w
    BY <1>1, <2>2, OtherWindow
  <2> HIDE DEF c
  <2>5. OneReload(c)
    BY <2>3, <2>4 DEF Tracks, OneReload
  <2>6. InTurn(c)
    <3>1. Nowhere <= s.w.calls
      BY <1>1 DEF Windows, Nowhere
    <3> QED
      BY <2>1, <2>3, <2>4, <3>1 DEF InTurn
  <2>7. Tracks(c)
    BY <2>3, <2>4, <2>5, <2>6, TracksAgain
  <2> QED
    BY <2>3, <2>4, <2>7 DEF c, w
<1>3. Tracks([s EXCEPT !.w.dest = Nowhere])
  <2>1. [s EXCEPT !.w.dest = Nowhere]
          = [s EXCEPT !.w = [s.w EXCEPT !.seen = s.w.seen, !.dest = Nowhere]]
    BY <1>1 DEF Windows
  <2> QED
    BY <1>2, <2>1
<1>4. LET c == FollowDest(s)
      IN  Tracks(c) /\ c.f = s.f /\ c.o = s.o /\ c.w.uri = s.w.uri
  <2>1. CASE s.w.dest = Nowhere
    BY <2>1 DEF FollowDest
  <2>2. CASE s.w.dest # Nowhere
    <3>1. FollowDest(s) = [s EXCEPT !.w = [s.w EXCEPT !.seen = s.w.dest, !.dest = Nowhere]]
      BY <2>2 DEF FollowDest
    <3> QED
      BY <1>2, <3>1
  <2> QED
    BY <2>1, <2>2
<1> QED
  BY <1>3, <1>4

\* ev_file_monitor_new and what the monitor tells.
LEMMA WindowMonitor ==
  ASSUME NEW v \in Windows, NEW monitor \in BOOLEAN, NEW events \in Seq({"changed", "done"}),
         NEW timer \in BOOLEAN, NEW missed \in BOOLEAN
  PROVE  Quiet(v, [v EXCEPT !.monitor = monitor, !.events = events, !.timer = timer,
                            !.missed = missed])
<1> DEFINE a == [v EXCEPT !.monitor = monitor]
           b == [a EXCEPT !.events = events]
           c == [b EXCEPT !.timer = timer]
           d == [c EXCEPT !.missed = missed]
<1>1. Quiet(v, a) /\ a \in Windows
  <2>1. a \in Windows
    BY DEF Windows
  <2> QED
    BY <2>1 DEF Quiet, Alike, Windows
<1> HIDE DEF a
<1>2. Quiet(a, b) /\ b \in Windows
  <2>1. b \in Windows
    BY <1>1 DEF Windows
  <2> QED
    BY <1>1, <2>1 DEF Quiet, Alike, Windows
<1> HIDE DEF b
<1>3. Quiet(b, c) /\ c \in Windows
  <2>1. c \in Windows
    BY <1>2 DEF Windows
  <2> QED
    BY <1>2, <2>1 DEF Quiet, Alike, Windows
<1> HIDE DEF c
<1>4. Quiet(c, d) /\ d \in Windows
  <2>1. d \in Windows
    BY <1>3 DEF Windows
  <2> QED
    BY <1>3, <2>1 DEF Quiet, Alike, Windows
<1> HIDE DEF d
<1>5. Quiet(v, d)
  BY <1>1, <1>2, <1>3, <1>4 DEF Quiet, Alike
<1> QED
  BY <1>5 DEF a, b, c, d

\* ev_file_monitor_new: the file as it is now is the one that is watched.
LEMMA MonitorTracks ==
  ASSUME NEW s, Tracks(s)
  PROVE  LET c == NewMonitor(s) IN Tracks(c) /\ Sees(s, c)
<1> DEFINE missed == s.f.version # s.w.doc /\ ~s.f.writing
           w == [s.w EXCEPT !.monitor = TRUE, !.events = <<>>, !.timer = FALSE,
                            !.missed = missed]
<1>1. s \in LoaderStates /\ s.w \in Windows
  BY DEF Tracks, LoaderStates
<1>2. NewMonitor(s) = [s EXCEPT !.w = w]
  BY DEF NewMonitor
<1>3. <<>> \in Seq({"changed", "done"}) /\ missed \in BOOLEAN
  OBVIOUS
<1> HIDE DEF missed
<1>4. Quiet(s.w, w)
  BY <1>1, <1>3, WindowMonitor
<1> HIDE DEF w
<1>5. Tracks([s EXCEPT !.w = w]) /\ Sees(s, [s EXCEPT !.w = w])
  BY <1>1, <1>4, AlikeTracks, OtherWindow DEF Quiet, Alike
<1> QED
  BY <1>2, <1>5

\* ev_window_load_job_cb, for a document
LEMMA SucceededTracks ==
  ASSUME Tracks(Loader), LoadSucceeded
  PROVE  Tracks(Loader)'
<1> DEFINE h == HeadGone
           doc == loadWin.load.doc
           a == ShowDocument(h, doc)
           c == FollowDest(a)
           k == IF c.w.load.password # "none" /\ c.w.keep
                  THEN [c EXCEPT !.f.keyring = c.w.load.password] ELSE c
           m == NewMonitor(k)
<1>1. LoaderIs(ClearLoad(m))
  BY DEF LoadSucceeded
<1>2. loadWin.uri /\ ~Fetching(Loader) /\ loadQueue # <<>> /\ loadWin \in Windows
  BY FinishedKnown DEF LoadSucceeded
<1>3. Tracks(h) /\ h.o = loadOps
  BY <1>2, HeadGoneTracks
<1> HIDE DEF h
<1>4. Tracks(a) /\ a.o = loadOps
  <2>1. doc \in Int
    <3>1. loadWin.load \in LoadJobs
      BY <1>2 DEF Windows
    <3> QED
      BY <3>1 DEF LoadJobs
  <2> HIDE DEF doc
  <2> QED
    BY <1>3, <2>1, ShowTracks DEF Sees
<1> HIDE DEF a
<1>5. Tracks(c) /\ c.o = loadOps
  BY <1>4, DestTracks
<1> HIDE DEF c
<1>6. Tracks(k) /\ k.o = loadOps
  <2>1. CASE k = c
    BY <1>5, <2>1
  <2>2. CASE k = [c EXCEPT !.f.keyring = c.w.load.password]
    <3> DEFINE f == [c.f EXCEPT !.keyring = c.w.load.password]
    <3>1. c \in LoaderStates /\ c.w \in Windows /\ c.f \in FileStates
      BY <1>5 DEF Tracks, LoaderStates
    <3>2. c.w.load.password \in Passwords
      <4>1. c.w.load \in LoadJobs
        BY <3>1 DEF Windows
      <4> QED
        BY <4>1 DEF LoadJobs
    <3>3. f \in FileStates /\ f.remote = c.f.remote
      BY <3>1, <3>2 DEF FileStates
    <3>4. k = [c EXCEPT !.f = f]
      BY <2>2
    <3> HIDE DEF f, k
    <3>5. k \in LoaderStates /\ k.f = f /\ k.w = c.w /\ k.q = c.q /\ k.o = c.o
      BY <3>1, <3>3, <3>4 DEF LoaderStates
    <3>6. Sees(c, k)
      BY <3>3, <3>5 DEF Sees
    <3> QED
      BY <1>5, <3>5, <3>6, SeesTracks
  <2> QED
    BY <2>1, <2>2
<1> HIDE DEF k
<1>7. Tracks(m) /\ m.o = loadOps
  BY <1>6, MonitorTracks DEF Sees
<1> HIDE DEF m
<1>8. Tracks(ClearLoad(m))
  BY <1>2, <1>7, LoaderFields, ClearLoadSteps DEF Fetching
<1> QED
  BY <1>1, <1>8, LoaderStep

\* ev_window_load_job_cb, for an encrypted document
LEMMA EncryptedTracks ==
  ASSUME Tracks(Loader), LoadEncrypted
  PROVE  Tracks(Loader)'
<1> DEFINE h == HeadGone
           known == loadFile.keyring
           job == [h.w.load EXCEPT !.password = known]
           w == [h.w EXCEPT !.load = job]
           c == [h EXCEPT !.w = w]
           none == [h.w.load EXCEPT !.password = "none"]
           t == [h.w EXCEPT !.load = none]
           u == [t EXCEPT !.mode = "password"]
           n == u.dialogs + 1
           v == [u EXCEPT !.dialogs = n, !.sensitive = FALSE]
           d == [h EXCEPT !.w = v]
<1>1. /\ loadWin.load.has /\ loadWin.uri /\ ~Fetching(Loader) /\ loadQueue # <<>>
      /\ loadWin \in Windows
  BY FinishedKnown DEF LoadEncrypted
<1>2. /\ Tracks(h) /\ h.f = loadFile /\ h.o = loadOps /\ Quiet(loadWin, h.w)
      /\ h.w \in Windows /\ h \in LoaderStates
  BY <1>1, HeadGoneTracks DEF Tracks
<1>3. LoaderIs(IF known # "none" /\ known # loadWin.load.password THEN PushLoad(c)
               ELSE AskPassword([h EXCEPT !.w.load.password = "none",
                                          !.w.mode = "password"]))
  BY DEF LoadEncrypted
<1> HIDE DEF h
<1>4. h.w.load \in LoadJobs /\ h.w.load.has /\ h.w.uri /\ known \in Passwords
  <2>1. h.w.load \in LoadJobs
    BY <1>2 DEF Windows
  <2>2. h.f \in FileStates
    BY <1>2 DEF LoaderStates
  <2>3. known \in Passwords
    BY <1>2, <2>2 DEF FileStates
  <2> QED
    BY <1>1, <1>2, <2>1, <2>3 DEF Quiet, Alike
<1>5. AskPassword([h EXCEPT !.w.load.password = "none", !.w.mode = "password"]) = d
  <2> DEFINE x == [h EXCEPT !.w = u]
  <2>1. [h EXCEPT !.w.load.password = "none", !.w.mode = "password"] = x
    OBVIOUS
  <2>2. x.w = u
    BY <1>2 DEF LoaderStates
  <2> HIDE DEF u
  <2>3. AskPassword(x) = [x EXCEPT !.w = [u EXCEPT !.dialogs = u.dialogs + 1,
                                                    !.sensitive = FALSE]]
    BY <2>2 DEF AskPassword
  <2>4. AskPassword(x) = d
    BY <2>3
  <2> QED
    BY <2>1, <2>4
<1> HIDE DEF known
<1>6. job \in LoadJobs /\ job.has /\ none \in LoadJobs /\ none.has
  BY <1>4 DEF LoadJobs, Passwords
<1> HIDE DEF job, none
<1>7. Tracks(PushLoad(c))
  <2>1. /\ w \in Windows /\ w.load = job /\ w.uri = h.w.uri /\ w.copy = h.w.copy
        /\ w.dest = h.w.dest /\ w.seen = h.w.seen /\ w.calls = h.w.calls
    BY <1>2, <1>6, WindowLoad
  <2> HIDE DEF w
  <2>2. c \in LoaderStates /\ c.f = h.f /\ c.q = h.q /\ c.o = h.o /\ c.w = w
    BY <1>2, <2>1, OtherWindow
  <2> HIDE DEF c
  <2>3. InTurn(c) /\ OneReload(c)
    BY <1>2, <2>1, <2>2 DEF InTurn, OneReload, Tracks
  <2>4. c.w.uri /\ c.w.load.has /\ ~Fetching(c)
    BY <1>1, <1>2, <1>4, <1>6, <2>1, <2>2, LoaderFields DEF Fetching
  <2> QED
    BY <2>2, <2>3, <2>4, PushTracks
<1>8. Tracks(d)
  <2>1. /\ t \in Windows /\ t.load = none /\ t.uri = h.w.uri /\ t.copy = h.w.copy
        /\ t.dest = h.w.dest /\ t.seen = h.w.seen /\ t.calls = h.w.calls
    BY <1>2, <1>6, WindowLoad
  <2> HIDE DEF t
  <2>2. u \in Windows
    BY <2>1 DEF Windows
  <2>3. /\ u.load = t.load /\ u.uri = t.uri /\ u.copy = t.copy
        /\ u.dest = t.dest /\ u.seen = t.seen /\ u.calls = t.calls
    BY <2>1 DEF Windows
  <2> HIDE DEF u
  <2>4. n \in Nat
    BY <2>2 DEF Windows
  <2> HIDE DEF n
  <2>5. Alike(u, v)
    BY <2>2, <2>4, WindowDialogs
  <2> HIDE DEF v
  <2>6. /\ v \in Windows /\ v.load.has /\ v.uri = h.w.uri /\ v.copy = h.w.copy
        /\ v.dest = h.w.dest /\ v.seen = h.w.seen /\ v.calls = h.w.calls
    BY <1>6, <2>1, <2>3, <2>5 DEF Alike
  <2>7. d \in LoaderStates /\ d.f = h.f /\ d.q = h.q /\ d.o = h.o /\ d.w = v
    BY <1>2, <2>6, OtherWindow
  <2> HIDE DEF d
  <2>8. Sees(h, d) /\ h.w.uri /\ ~Fetching(h)
    BY <1>1, <1>2, <1>4, <2>6, <2>7, LoaderFields DEF Sees, Fetching
  <2> QED
    BY <1>2, <2>8, SeesTracks
<1> QED
  BY <1>3, <1>5, <1>7, <1>8, LoaderStep

\* ev_window_load_job_cb, for any other error
LEMMA FailedTracks ==
  ASSUME Tracks(Loader), LoadFailed
  PROVE  Tracks(Loader)'
<1> DEFINE h == HeadGone
           e == ErrorMessage(h)
<1>1. LoaderIs(ClearLoad(e))
  BY DEF LoadFailed
<1>2. ~Fetching(Loader) /\ loadQueue # <<>>
  BY FinishedKnown DEF LoadFailed
<1>3. Tracks(h) /\ h.o = loadOps
  BY <1>2, HeadGoneTracks
<1> HIDE DEF h
<1>4. Tracks(e)
  BY <1>3, ErrorTracks
<1>5. e.o = h.o
  <2>1. h \in LoaderStates
    BY <1>3 DEF Tracks
  <2> QED
    BY <2>1 DEF ErrorMessage, LoaderStates
<1> HIDE DEF e
<1>6. Tracks(ClearLoad(e))
  BY <1>2, <1>3, <1>4, <1>5, LoaderFields, ClearLoadSteps DEF Fetching
<1> QED
  BY <1>1, <1>6, LoaderStep

\* ev_window_reload_job_cb
LEMMA ReloadFinishedTracks ==
  ASSUME Tracks(Loader), ReloadFinished
  PROVE  Tracks(Loader)'
<1> DEFINE j == Head(loadQueue)
           doc == j.doc
           c == [Loader EXCEPT !.q = Tail(Loader.q)]
           a == [c EXCEPT !.w.dest = Nowhere]
           b == FollowDest(ShowDocument(c, doc))
<1>1. LoaderIs(ClearReload(IF j.result # "ok" THEN a ELSE b))
  BY LoaderFields DEF ReloadFinished
<1>2. loadQueue # <<>> /\ j \in QueueJobs
  BY FinishedKnown DEF ReloadFinished
<1>3. Tracks(c)
  BY <1>2, LoaderFields, TailTracks
<1> HIDE DEF c
<1>4. Tracks(a)
  BY <1>3, DestTracks
<1>5. Tracks(b)
  <2>1. doc \in Int
    BY <1>2 DEF QueueJobs
  <2> HIDE DEF doc
  <2>2. Tracks(ShowDocument(c, doc))
    BY <1>3, <2>1, ShowTracks
  <2> QED
    BY <2>2, DestTracks
<1> HIDE DEF a, b
<1>6. Tracks(ClearReload(a)) /\ Tracks(ClearReload(b))
  BY <1>4, <1>5, ClearReloadSteps
<1> QED
  BY <1>1, <1>6, LoaderStep

\* ev_window_setup_document: the view of the document is there again.
LEMMA SetupTracks ==
  ASSUME Tracks(Loader), SetupDocument
  PROVE  Tracks(Loader)'
<1> DEFINE w == [loadWin EXCEPT !.setup = FALSE, !.mode = "document"]
           c == [Loader EXCEPT !.w = w]
<1>1. LoaderIs(c)
  BY LoaderFields DEF SetupDocument
<1>2. Loader \in LoaderStates /\ loadWin \in Windows
  BY LoaderFields DEF Tracks, LoaderStates
<1>3. w \in Windows
  BY <1>2 DEF Windows
<1>4. /\ w.uri = loadWin.uri /\ w.copy = loadWin.copy /\ w.load = loadWin.load
      /\ w.dest = loadWin.dest /\ w.seen = loadWin.seen /\ w.calls = loadWin.calls
      /\ w.dialogs = loadWin.dialogs /\ w.mode = "document"
  BY <1>2 DEF Windows
<1> HIDE DEF w
<1>5. c.w = w /\ Sees(Loader, c)
  BY <1>2, <1>3, <1>4, LoaderFields, OtherWindow DEF Alike
<1> HIDE DEF c
<1>6. \/ c.w.dialogs = Loader.w.dialogs /\ c.w.mode = Loader.w.mode
      \/ Loader.w.uri /\ ~Fetching(Loader)
  <2>1. CASE Loader.w.uri /\ ~Fetching(Loader)
    BY <2>1
  <2>2. CASE ~(Loader.w.uri /\ ~Fetching(Loader))
    <3>1. Calm(Loader)
      BY <2>2 DEF Tracks, OneFetch
    <3> QED
      BY <1>4, <1>5, <3>1, LoaderFields DEF Calm
  <2> QED
    BY <2>1, <2>2
<1>7. Tracks(c)
  BY <1>5, <1>6, SeesTracks
<1> QED
  BY <1>1, <1>7, LoaderStep

\* A step after which only what the user sees is new.
LEMMA QuietStep ==
  ASSUME Tracks(Loader), NEW w, Quiet(loadWin, w), LoaderIs([Loader EXCEPT !.w = w])
  PROVE  Tracks(Loader)'
<1> DEFINE c == [Loader EXCEPT !.w = w]
<1>1. Tracks(c)
  BY LoaderFields, AlikeTracks DEF Quiet
<1> HIDE DEF c
<1>2. LoaderIs(c)
  BY DEF c
<1> QED
  BY <1>1, <1>2, LoaderStep

\* show_loading_message_cb; show_loading_progress and show_reloading_progress
LEMMA ShowingTracks ==
  ASSUME Tracks(Loader), ShowLoading \/ ShowProgress
  PROVE  Tracks(Loader)'
<1>1. loadWin \in Windows
  BY LoaderFields DEF Tracks, LoaderStates
<1>2. CASE ShowLoading
  <2> DEFINE w == [loadWin EXCEPT !.loading = "shown"]
  <2>1. LoaderIs([Loader EXCEPT !.w = w])
    BY <1>2, LoaderFields DEF ShowLoading
  <2>2. Quiet(loadWin, w)
    BY <1>1, WindowLoading
  <2> HIDE DEF w
  <2> QED
    BY <2>1, <2>2, QuietStep
<1>3. CASE ShowProgress
  <2> DEFINE area == IF loadWin.area = "none" THEN "progress" ELSE loadWin.area
             v == [loadWin EXCEPT !.progress = FALSE]
             w == [v EXCEPT !.area = area]
  <2>1. LoaderIs([Loader EXCEPT !.w = w])
    BY <1>3, LoaderFields DEF ShowProgress
  <2>2. area \in {"none", "message", "progress"}
    BY <1>1 DEF Windows
  <2> HIDE DEF area
  <2>3. Quiet(loadWin, v) /\ v \in Windows
    BY <1>1, WindowProgress DEF Quiet, Alike
  <2> HIDE DEF v
  <2>4. Quiet(v, w)
    BY <2>2, <2>3, WindowAreas
  <2> HIDE DEF w
  <2>5. Quiet(loadWin, w)
    BY <2>3, <2>4 DEF Quiet, Alike
  <2> QED
    BY <2>1, <2>5, QuietStep
<1> QED
  BY <1>2, <1>3

\* The monitor's signals and its timer: the document is reloaded at no destination.
LEMMA WindowTimer ==
  ASSUME NEW v \in Windows, NEW events \in Seq({"changed", "done"}), NEW timer \in BOOLEAN
  PROVE  /\ Quiet(v, [v EXCEPT !.events = events])
         /\ Quiet(v, [v EXCEPT !.timer = timer])
<1>1. Quiet(v, [v EXCEPT !.events = events])
  <2> DEFINE w == [v EXCEPT !.events = events]
  <2>1. w \in Windows
    BY DEF Windows
  <2> QED
    BY <2>1 DEF Quiet, Alike, Windows
<1>2. Quiet(v, [v EXCEPT !.timer = timer])
  <2> DEFINE w == [v EXCEPT !.timer = timer]
  <2>1. w \in Windows
    BY DEF Windows
  <2> QED
    BY <2>1 DEF Quiet, Alike, Windows
<1> QED
  BY <1>1, <1>2

\* The monitor reloads the document, whatever the user sees.
LEMMA ReloadAnyTracks ==
  ASSUME Tracks(Loader), NEW w, Quiet(loadWin, w)
  PROVE  Tracks(ReloadDocument([Loader EXCEPT !.w = w], Nowhere))
<1> DEFINE c == [Loader EXCEPT !.w = w]
<1>1. Tracks(c)
  BY LoaderFields, AlikeTracks DEF Quiet
<1>2. c.w = w
  BY LoaderFields, OtherWindow DEF Tracks, Quiet, Alike
<1> HIDE DEF c
<1>3. Nowhere \in Nat /\ Nowhere <= c.w.calls
  <2>1. c.w.calls \in Nat
    BY <1>1 DEF Tracks, LoaderStates, Windows
  <2> QED
    BY <2>1 DEF Nowhere
<1>4. Tracks(ReloadDocument(c, Nowhere))
  BY <1>1, <1>3, ReloadDocumentTracks
<1> QED
  BY <1>4 DEF c

\* The file monitor tells of a change, or its timer does.
LEMMA ChangedTracks ==
  ASSUME Tracks(Loader), FileChanged \/ MonitorTimeout
  PROVE  Tracks(Loader)'
<1>1. loadWin \in Windows
  BY LoaderFields DEF Tracks, LoaderStates
<1>2. CASE FileChanged
  <2> DEFINE events == Tail(loadWin.events)
             v == [loadWin EXCEPT !.events = events]
             on == [v EXCEPT !.timer = TRUE]
             off == [v EXCEPT !.timer = FALSE]
  <2>1. LoaderIs(IF Head(loadWin.events) = "changed" THEN [Loader EXCEPT !.w = on]
                 ELSE ReloadDocument([Loader EXCEPT !.w = off], Nowhere))
    BY <1>2, LoaderFields DEF FileChanged
  <2>2. events \in Seq({"changed", "done"})
    <3>1. loadWin.events \in Seq({"changed", "done"}) /\ loadWin.events # <<>>
      BY <1>1, <1>2 DEF Windows, FileChanged
    <3> QED
      BY <3>1
  <2> HIDE DEF events
  <2>3. Quiet(loadWin, v) /\ v \in Windows
    BY <1>1, <2>2, WindowTimer DEF Quiet, Alike
  <2> HIDE DEF v
  <2>4. <<>> \in Seq({"changed", "done"})
    OBVIOUS
  <2>5. Quiet(v, on) /\ Quiet(v, off)
    BY <2>3, <2>4, WindowTimer
  <2> HIDE DEF on, off
  <2>6. Quiet(loadWin, on) /\ Quiet(loadWin, off)
    BY <2>3, <2>5 DEF Quiet, Alike
  <2>7. Tracks(ReloadDocument([Loader EXCEPT !.w = off], Nowhere))
    BY <2>6, ReloadAnyTracks
  <2> QED
    BY <2>1, <2>6, <2>7, LoaderStep, QuietStep
<1>3. CASE MonitorTimeout
  <2> DEFINE w == [loadWin EXCEPT !.timer = FALSE]
  <2>1. LoaderIs(ReloadDocument([Loader EXCEPT !.w = w], Nowhere))
    BY <1>3, LoaderFields DEF MonitorTimeout
  <2>2. <<>> \in Seq({"changed", "done"})
    OBVIOUS
  <2>3. Quiet(loadWin, w)
    BY <1>1, <2>2, WindowTimer
  <2> HIDE DEF w
  <2>4. Tracks(ReloadDocument([Loader EXCEPT !.w = w], Nowhere))
    BY <2>3, ReloadAnyTracks
  <2> QED
    BY <2>1, <2>4, LoaderStep
<1> QED
  BY <1>2, <1>3

\* Another program writes the file.
LEMMA TellTracks ==
  ASSUME NEW s, Tracks(s), NEW event \in {"changed", "done"}
  PROVE  Tracks(Tell(s, event))
<1>1. s \in LoaderStates /\ s.w \in Windows
  BY DEF Tracks, LoaderStates
<1>2. CASE ~(s.w.monitor /\ ~s.f.remote)
  BY <1>2 DEF Tell
<1>3. CASE s.w.monitor /\ ~s.f.remote
  <2> DEFINE events == Append(s.w.events, event)
             w == [s.w EXCEPT !.monitor = s.w.monitor, !.events = events,
                              !.timer = s.w.timer, !.missed = FALSE]
  <2>1. Tell(s, event) = [s EXCEPT !.w = w]
    <3>1. Tell(s, event) = [s EXCEPT !.w = [s.w EXCEPT !.events = events, !.missed = FALSE]]
      BY <1>3 DEF Tell
    <3>2. [s.w EXCEPT !.events = events, !.missed = FALSE] = w
      BY <1>1 DEF Windows
    <3> QED
      BY <3>1, <3>2
  <2>2. events \in Seq({"changed", "done"})
    <3>1. s.w.events \in Seq({"changed", "done"})
      BY <1>1 DEF Windows
    <3> QED
      BY <3>1
  <2> HIDE DEF events
  <2>3. s.w.monitor \in BOOLEAN /\ s.w.timer \in BOOLEAN
    BY <1>1 DEF Windows
  <2>4. Quiet(s.w, w)
    BY <1>1, <2>2, <2>3, WindowMonitor
  <2> HIDE DEF w
  <2>5. Tracks([s EXCEPT !.w = w])
    BY <2>4, AlikeTracks DEF Quiet
  <2> QED
    BY <2>1, <2>5
<1> QED
  BY <1>2, <1>3

\* Another program writes the file.
LEMMA FileTracks ==
  ASSUME Tracks(Loader), WriteFile \/ CloseFile
  PROVE  Tracks(Loader)'
<1>1. Loader \in LoaderStates /\ loadFile \in FileStates
  BY LoaderFields DEF Tracks, LoaderStates
<1>2. ASSUME NEW f \in FileStates, f.remote = loadFile.remote
      PROVE  Tracks([Loader EXCEPT !.f = f])
  <2> DEFINE c == [Loader EXCEPT !.f = f]
  <2>1. c \in LoaderStates /\ c.f = f /\ c.w = Loader.w /\ c.q = Loader.q /\ c.o = Loader.o
    BY <1>1 DEF LoaderStates
  <2> HIDE DEF c
  <2>2. Sees(Loader, c)
    BY <1>2, <2>1, LoaderFields DEF Sees
  <2>3. Tracks(c)
    BY <2>1, <2>2, SeesTracks
  <2> QED
    BY <2>3 DEF c
<1>3. CASE WriteFile
  <2> DEFINE n == loadFile.version + 1
             f == [loadFile EXCEPT !.version = n, !.writing = TRUE]
             c == [Loader EXCEPT !.f = f]
  <2>1. LoaderIs(Tell(c, "changed"))
    BY <1>3, LoaderFields DEF WriteFile
  <2>2. f \in FileStates /\ f.remote = loadFile.remote
    <3>1. n \in Nat
      BY <1>1 DEF FileStates
    <3> HIDE DEF n
    <3> QED
      BY <1>1, <3>1 DEF FileStates
  <2> HIDE DEF f
  <2>3. Tracks(Tell(c, "changed"))
    BY <1>2, <2>2, TellTracks
  <2> QED
    BY <2>1, <2>3, LoaderStep
<1>4. CASE CloseFile
  <2> DEFINE f == [loadFile EXCEPT !.writing = FALSE]
             c == [Loader EXCEPT !.f = f]
  <2>1. LoaderIs(Tell(c, "done"))
    BY <1>4, LoaderFields DEF CloseFile
  <2>2. f \in FileStates /\ f.remote = loadFile.remote
    BY <1>1 DEF FileStates
  <2> HIDE DEF f
  <2>3. Tracks(Tell(c, "done"))
    BY <1>2, <2>2, TellTracks
  <2> QED
    BY <2>1, <2>3, LoaderStep
<1> QED
  BY <1>3, <1>4

-----------------------------------------------------------------------------
(* The theorem.                                                            *)

\* A window that has not been asked for anything keeps track.
LEMMA InitTracks == LoadInit => Tracks(Loader)
<1> SUFFICES ASSUME LoadInit PROVE Tracks(Loader)
  OBVIOUS
<1>1. loadFile \in FileStates
  <2>1. loadFile \in [version : {1}, writing : {FALSE}, remote : BOOLEAN, mounted : BOOLEAN,
                      secret : BOOLEAN, keyring : {"none", "right", "stale"}]
    BY DEF LoadInit
  <2>2. {1} \subseteq Nat /\ {FALSE} \subseteq BOOLEAN
        /\ {"none", "right", "stale"} \subseteq Passwords
    BY DEF Passwords
  <2> QED
    BY <2>1, <2>2 DEF FileStates
<1>2. NoLoadJob \in LoadJobs
  BY DEF NoLoadJob, LoadJobs, Passwords, Results
<1>3. <<>> \in Seq({"changed", "done"}) /\ <<>> \in Seq(QueueJobs)
  OBVIOUS
<1>4. loadWin \in Windows
  BY <1>2, <1>3 DEF LoadInit, Windows, Nowhere, NoCopy
<1>5. loadQueue = <<>> /\ loadOps = [kind \in OpKinds |-> 0]
  BY DEF LoadInit
<1>6. Loader \in LoaderStates
  BY <1>1, <1>3, <1>4, <1>5 DEF Loader, LoaderStates
<1>7. InTurn(Loader)
  BY LoaderFields DEF LoadInit, InTurn, Nowhere
<1>8. OneReload(Loader)
  <2>1. loadWin.copy = NoCopy /\ DOMAIN loadQueue = {}
    BY <1>5 DEF LoadInit
  <2> QED
    BY <1>5, <2>1, LoaderFields DEF OneReload, LastIsOwn
<1>9. Calm(Loader)
  <2>1. loadWin.dialogs = 0 /\ loadWin.mode = "document" /\ DOMAIN loadQueue = {}
    BY <1>5 DEF LoadInit
  <2> QED
    BY <2>1, LoaderFields DEF Calm, HasLoad
<1>10. ~Fetching(Loader)
  BY <1>5, LoaderFields DEF Fetching, OpKinds
<1> QED
  BY <1>6, <1>7, <1>8, <1>9, <1>10, CalmTracks

\* What the invariant says of the window.
LEMMA TracksTell == Tracks(Loader) => WindowKeepsTrack
<1> SUFFICES ASSUME Tracks(Loader) PROVE WindowKeepsTrack
  OBVIOUS
<1>1. OneReloadJob
  BY LoaderFields DEF Tracks, OneReload, LastIsOwn, OneReloadJob, IsReload
<1>4. OneFetchAtATime
  <2>1. loadOps["copy"] \in Nat /\ loadOps["mount"] \in Nat
    BY LoaderFields DEF Tracks, LoaderStates, OpKinds
  <2> QED
    BY <2>1, LoaderFields
       DEF Tracks, OneFetch, Fetching, Calm, HasLoad, OneFetchAtATime, LoadPending
<1>2. DestinationsInOrder
  BY LoaderFields DEF Tracks, InTurn, DestinationsInOrder
<1>3. LoadJobIsHeld
  BY LoaderFields DEF Tracks, OneFetch, LoadJobIsHeld, LoadPending, HasLoad
<1> QED
  BY <1>1, <1>2, <1>3, <1>4 DEF WindowKeepsTrack

\* For every file, local or remote, with a password or without, whatever the user, the
\* worker, GIO and the programs that write the file do, and in whatever order: only
\* the last of the reload jobs that a window waits for can be its own, and a window with a
\* local file waits for no other; a copy is fetched once at a time, for the load job; a
\* destination is followed once, never after one that was asked for later; and a load job
\* on its way is one that the window has (ev_window_open_uri, ev_window_reload_document and their callbacks).
THEOREM WindowTracks == LoadSpec => []WindowKeepsTrack
<1>1. LoadInit => Tracks(Loader)
  BY InitTracks
<1>2. Tracks(Loader) /\ [LoadNext]_loadVars => Tracks(Loader)'
  <2> SUFFICES ASSUME Tracks(Loader), [LoadNext]_loadVars PROVE Tracks(Loader)'
    OBVIOUS
  <2>1. CASE UserLoads
    BY <2>1, UserTracks
  <2>2. CASE GioAnswers
    BY <2>2, GioTracks
  <2>3. CASE LoadWork
    BY <2>3, RunTracks, SucceededTracks, EncryptedTracks, FailedTracks,
       ReloadFinishedTracks, SetupTracks, ShowingTracks, ChangedTracks DEF LoadWork
  <2>4. CASE WriteFile \/ CloseFile
    BY <2>4, FileTracks
  <2>5. CASE UNCHANGED loadVars
    <3>1. LoaderIs(Loader)
      BY <2>5, LoaderFields DEF loadVars, LoaderIs
    <3> QED
      BY <3>1, LoaderStep
  <2> QED
    BY <2>1, <2>2, <2>3, <2>4, <2>5 DEF LoadNext
<1>3. Tracks(Loader) => WindowKeepsTrack
  BY TracksTell
<1> QED
  BY <1>1, <1>2, <1>3, PTL DEF LoadSpec

-----------------------------------------------------------------------------
(* The processes and the daemon: the inductive invariant.                  *)

Started == {"up", "quitting", "gone"}

Requests ==
  [kind : {"register", "unregister", "loaded"}, from : Instances, uri : Uris]
  \cup [kind : {"vanished"}, from : Instances, uri : {"none"}]
  \cup [kind : {"find"}, from : Callers, uri : Uris]
Answers ==
  [kind : {"registered"}, owner : Instances \cup {NoInstance, "error"}]
  \cup [kind : {"reload"}, from : Instances] \cup [kind : {"reloaded", "unregistered"}]

Daemons ==
  [docs : [Uris -> [owner : Instances \cup {NoInstance}, subscribed : BOOLEAN]],
   pending : [Uris -> SUBSET Callers], holds : Int, inbox : Seq(Requests)]
Processes ==
  [at : {"absent", "starting", "up", "quitting", "gone"}, uri : Uris \cup {"none"}, opens : Nat,
   doc_registered : BOOLEAN, windows : Int, loading : Int, shown : BOOLEAN, holds : Int,
   served : BOOLEAN, inbox : Seq(Answers)]
Askers == [uri : Uris \cup {"none"}, spawn : BOOLEAN, answered : BOOLEAN]
Sessions ==
  [d : Daemons, i : [Instances -> Processes], c : [Callers -> Askers],
   t : [calls : Nat, faults : Nat]]

\* A process has registered its document, or the answer is on its way to it.
Promise(m) == m.kind = "registered" /\ m.owner = NoInstance
Promised(p) == p.doc_registered \/ \E k \in DOMAIN p.inbox : Promise(p.inbox[k])

\* Nobody writes to a process before it has started or when it has gone, and a document
\* is handed over to it only after the answer that it is registered.
ProcessSound(p) ==
  /\ p.at \in {"absent", "starting", "gone"} =>
       p.inbox = << >> /\ ~p.doc_registered /\ ~p.served
  /\ p.at \in {"starting", "up", "quitting"} => p.uri \in Uris
  /\ p.served => p.doc_registered
  /\ \A k \in DOMAIN p.inbox :
       p.inbox[k].kind = "reload" =>
         p.doc_registered \/ \E n \in 1 .. (k - 1) : Promise(p.inbox[n])

\* An owner of whom the daemon tells.
Known(s, i) ==
  \/ s.i[i].at = "gone"
  \/ s.i[i].at \in {"up", "quitting"} /\ Promised(s.i[i])

\* No other document than uri is that of the process i.
OwnsOnly(s, i, uri) ==
  /\ s.i[i].at # "gone" => s.i[i].uri = uri
  /\ \A other \in Uris : s.d.docs[other].owner = i => other = uri
  /\ \A k \in DOMAIN s.d.inbox :
       s.d.inbox[k].kind = "register" /\ s.d.inbox[k].from = i => s.d.inbox[k].uri = uri

RequestSound(s, m) ==
  m.kind # "find" =>
    /\ s.i[m.from].at \in Started
    /\ m.kind = "unregister" => s.i[m.from].at # "up"
    /\ m.kind = "vanished" => s.i[m.from].at = "gone"
    /\ m.kind = "register" => OwnsOnly(s, m.from, m.uri)
RequestsSound(s) == \A k \in DOMAIN s.d.inbox : RequestSound(s, s.d.inbox[k])

AnswersSound(s) ==
  \A i, owner \in Instances : \A k \in DOMAIN s.i[i].inbox :
    s.i[i].inbox[k].kind = "registered" /\ s.i[i].inbox[k].owner = owner => Known(s, owner)

OwnersSound(s) ==
  \A uri \in Uris, i \in Instances :
    s.d.docs[uri].owner = i => Known(s, i) /\ OwnsOnly(s, i, uri)

\* As long as no daemon was killed.
Trusted(s) ==
  s.t.faults = 0 =>
    \A i \in Instances :
      s.i[i].at = "up" /\ Promised(s.i[i]) => s.d.docs[s.i[i].uri].owner = i

Held(s) == IsFiniteSet(Registered(s.d)) /\ s.d.holds = Cardinality(Registered(s.d))

Sane(s) ==
  /\ s \in Sessions /\ \A i \in Instances : ProcessSound(s.i[i])
  /\ RequestsSound(s) /\ AnswersSound(s) /\ OwnersSound(s) /\ Trusted(s) /\ Held(s)

\* The daemon will hear of an owner that has gone.
Told(s, i) ==
  \E k \in DOMAIN s.d.inbox : s.d.inbox[k].kind = "vanished" /\ s.d.inbox[k].from = i
Alive(s) ==
  \A uri \in Uris, i \in Instances :
    s.d.docs[uri].owner = i /\ s.i[i].at = "gone" => Told(s, i)

Good(s) == Sane(s) /\ Alive(s)

-----------------------------------------------------------------------------
(* Messages.                                                               *)

\* One more message in an inbox, and one message less.
LEMMA OneMore ==
  ASSUME NEW S, NEW q \in Seq(S), NEW m \in S
  PROVE  /\ Append(q, m) \in Seq(S) /\ DOMAIN Append(q, m) = 1 .. (Len(q) + 1)
         /\ DOMAIN q = 1 .. Len(q) /\ Len(q) \in Nat
         /\ Append(q, m)[Len(q) + 1] = m
         /\ \A k \in DOMAIN q : Append(q, m)[k] = q[k]
  OBVIOUS

\* The first message is taken: the others move up.
LEMMA OneLess ==
  ASSUME NEW S, NEW q \in Seq(S), q # << >>
  PROVE  /\ Tail(q) \in Seq(S) /\ DOMAIN Tail(q) = 1 .. (Len(q) - 1)
         /\ DOMAIN q = 1 .. Len(q) /\ Len(q) \in Nat \ {0}
         /\ Head(q) = q[1] /\ Head(q) \in S
         /\ \A k \in DOMAIN Tail(q) : Tail(q)[k] = q[k + 1]
<1>1. Len(q) \in Nat \ {0} /\ DOMAIN q = 1 .. Len(q)
  OBVIOUS
<1>2. Tail(q) \in Seq(S) /\ Len(Tail(q)) = Len(q) - 1
  OBVIOUS
<1>3. DOMAIN Tail(q) = 1 .. (Len(q) - 1)
  BY <1>1, <1>2
<1>4. Head(q) = q[1] /\ q[1] \in S
  BY <1>1
<1>5. \A k \in 1 .. (Len(q) - 1) : Tail(q)[k] = q[k + 1]
  BY <1>1
<1> QED
  BY <1>1, <1>2, <1>3, <1>4, <1>5

\* The process i of a session becomes p.
LEMMA Puts ==
  ASSUME NEW s \in Sessions, NEW i \in Instances, NEW p \in Processes
  PROVE  LET c == [s EXCEPT !.i[i] = p]
         IN  /\ c \in Sessions /\ c.d = s.d /\ c.c = s.c /\ c.t = s.t /\ c.i[i] = p
             /\ \A j \in Instances : j # i => c.i[j] = s.i[j]
BY DEF Sessions

\* What a session has.
LEMMA Fields ==
  ASSUME NEW s \in Sessions
  PROVE  /\ s.d \in Daemons /\ s.i \in [Instances -> Processes] /\ s.c \in [Callers -> Askers]
         /\ s.t \in [calls : Nat, faults : Nat] /\ s.d.inbox \in Seq(Requests)
         /\ \A i \in Instances : s.i[i] \in Processes /\ s.i[i].inbox \in Seq(Answers)
BY DEF Sessions, Daemons, Processes

\* Who sends a message to the daemon, and about which document.
LEMMA RequestsFrom ==
  ASSUME NEW m \in Requests
  PROVE  /\ m.kind # "find" => m.from \in Instances
         /\ m.kind = "find" => m.from \in Callers
         /\ m.kind # "vanished" => m.uri \in Uris
BY DEF Requests

-----------------------------------------------------------------------------
(* Steps that leave the table of the daemon alone.                         *)

\* What happens to a process that others depend on.
Grows(p, q) ==
  /\ ProcessSound(q)
  /\ p.at \in Started => q.at \in Started
  /\ p.at = "gone" => q.at = "gone"
  /\ p.at \in Started /\ q.at = "up" => p.at = "up"
  /\ p.at \in Started /\ q.at # "gone" => q.uri = p.uri
  /\ p.at \in {"up", "quitting"} /\ Promised(p) /\ q.at # "gone" => Promised(q)
  /\ q.at = "up" /\ Promised(q) => p.at = "up" /\ Promised(p)

\* Owners, requests and faults are those before.
SameTable(s, c) ==
  /\ \A uri \in Uris : c.d.docs[uri].owner = s.d.docs[uri].owner
  /\ c.d.holds = s.d.holds /\ c.t.faults = s.t.faults

AnswersKnown(s, c) ==
  \A i, owner \in Instances : \A k \in DOMAIN c.i[i].inbox :
    c.i[i].inbox[k].kind = "registered" /\ c.i[i].inbox[k].owner = owner => Known(s, owner)

\* The daemon is held as before when its table is as before.
LEMMA HeldStays ==
  ASSUME NEW s, Held(s), NEW c, SameTable(s, c)
  PROVE  Held(c)
<1>1. Registered(c.d) = Registered(s.d)
  BY DEF Registered, SameTable
<1> QED
  BY <1>1 DEF Held, SameTable

\* An owner of whom the daemon tells stays one.
LEMMA GrowsKnown ==
  ASSUME NEW s, NEW c, NEW i \in Instances, Grows(s.i[i], c.i[i]), Known(s, i)
  PROVE  Known(c, i)
BY DEF Grows, Known, Started

\* Processes move on while the daemon keeps its table and its messages.
LEMMA GrowsSane ==
  ASSUME NEW s, Sane(s), NEW c \in Sessions,
         \A i \in Instances : Grows(s.i[i], c.i[i]),
         AnswersKnown(s, c), SameTable(s, c), c.d.inbox = s.d.inbox
  PROVE  Sane(c)
<1>1. s \in Sessions /\ \A i \in Instances : Known(s, i) => Known(c, i)
  BY GrowsKnown DEF Sane
<1>2. ASSUME NEW i \in Instances, NEW uri \in Uris, s.i[i].at \in Started, OwnsOnly(s, i, uri)
      PROVE  OwnsOnly(c, i, uri)
  <2>1. c.i[i].at # "gone" => s.i[i].at # "gone" /\ c.i[i].uri = s.i[i].uri
    BY <1>2 DEF Grows
  <2> QED
    BY <1>2, <2>1 DEF OwnsOnly, SameTable
<1>3. RequestsSound(c)
  <2> SUFFICES ASSUME NEW k \in DOMAIN s.d.inbox, s.d.inbox[k].kind # "find"
               PROVE  RequestSound(c, s.d.inbox[k])
    BY DEF RequestsSound, RequestSound
  <2> DEFINE m == s.d.inbox[k]
  <2>1. m \in Requests
    BY <1>1, Fields
  <2>2. RequestSound(s, m)
    BY DEF Sane, RequestsSound
  <2> HIDE DEF m
  <2>3. m.from \in Instances /\ m.kind # "find" /\ (m.kind # "vanished" => m.uri \in Uris)
    BY <2>1, RequestsFrom DEF m
  <2>4. Grows(s.i[m.from], c.i[m.from])
    BY <2>3
  <2>5. /\ c.i[m.from].at \in Started /\ s.i[m.from].at \in Started
        /\ m.kind = "unregister" => c.i[m.from].at # "up"
        /\ m.kind = "vanished" => c.i[m.from].at = "gone"
    BY <2>2, <2>3, <2>4 DEF Grows, RequestSound
  <2>6. m.kind = "register" => OwnsOnly(c, m.from, m.uri)
    BY <1>2, <2>2, <2>3, <2>5 DEF RequestSound
  <2>7. RequestSound(c, m)
    BY <2>5, <2>6 DEF RequestSound
  <2> QED
    BY <2>7 DEF m
<1>4. AnswersSound(c)
  BY <1>1 DEF AnswersSound, AnswersKnown
<1>5. OwnersSound(c)
  <2> SUFFICES ASSUME NEW uri \in Uris, NEW i \in Instances, c.d.docs[uri].owner = i
               PROVE  Known(c, i) /\ OwnsOnly(c, i, uri)
    BY DEF OwnersSound
  <2>1. Known(s, i) /\ OwnsOnly(s, i, uri)
    BY DEF Sane, OwnersSound, SameTable
  <2>2. s.i[i].at \in Started
    BY <2>1 DEF Known, Started
  <2> QED
    BY <1>1, <1>2, <2>1, <2>2
<1>6. Trusted(c)
  <2> SUFFICES ASSUME c.t.faults = 0, NEW i \in Instances, c.i[i].at = "up", Promised(c.i[i])
               PROVE  c.d.docs[c.i[i].uri].owner = i
    BY DEF Trusted
  <2>1. Grows(s.i[i], c.i[i]) /\ ProcessSound(s.i[i])
    BY DEF Sane
  <2>2. s.i[i].at = "up" /\ Promised(s.i[i]) /\ c.i[i].uri = s.i[i].uri /\ s.i[i].uri \in Uris
    BY <2>1 DEF Grows, Started, ProcessSound
  <2> QED
    BY <2>2 DEF Sane, Trusted, SameTable
<1>7. Held(c)
  BY HeldStays DEF Sane
<1> QED
  BY <1>3, <1>4, <1>5, <1>6, <1>7 DEF Sane, Grows

\* No owner goes, and the daemon keeps its messages.
LEMMA StaysAlive ==
  ASSUME NEW s, Alive(s), NEW c, SameTable(s, c),
         \A i \in Instances : c.i[i].at = "gone" => s.i[i].at = "gone",
         \A i \in Instances : Told(s, i) => Told(c, i)
  PROVE  Alive(c)
BY DEF Alive, SameTable

\* A process that does nothing.
LEMMA GrowsSelf ==
  ASSUME NEW p, ProcessSound(p)
  PROVE  Grows(p, p)
BY DEF Grows

\* A session of which the parts that others depend on are those before.
LEMMA AsideGood ==
  ASSUME NEW s, Good(s), NEW c \in Sessions, c.i = s.i, SameTable(s, c),
         c.d.inbox = s.d.inbox
  PROVE  Good(c)
<1>1. \A i \in Instances : Grows(s.i[i], c.i[i])
  BY GrowsSelf DEF Good, Sane
<1>2. AnswersKnown(s, c)
  BY DEF Good, Sane, AnswersSound, AnswersKnown
<1>3. Sane(c)
  BY <1>1, <1>2, GrowsSane DEF Good
<1>4. Alive(c)
  BY StaysAlive DEF Good, Told
<1> QED
  BY <1>3, <1>4 DEF Good

\* One process moves on and does not go.
LEMMA OneGrows ==
  ASSUME NEW s, Good(s), NEW i \in Instances, NEW q \in Processes, Grows(s.i[i], q),
         q.at = "gone" => s.i[i].at = "gone",
         \A owner \in Instances : \A k \in DOMAIN q.inbox :
           q.inbox[k].kind = "registered" /\ q.inbox[k].owner = owner => Known(s, owner)
  PROVE  LET c == [s EXCEPT !.i[i] = q]
         IN  /\ Good(c) /\ c.d = s.d /\ c.c = s.c /\ c.t = s.t /\ c.i[i] = q
             /\ \A j \in Instances : j # i => c.i[j] = s.i[j]
             /\ \A j \in Instances : Known(s, j) => Known(c, j)
<1> DEFINE c == [s EXCEPT !.i[i] = q]
<1>1. s \in Sessions
  BY DEF Good, Sane
<1>2. /\ c \in Sessions /\ c.d = s.d /\ c.c = s.c /\ c.t = s.t /\ c.i[i] = q
      /\ \A j \in Instances : j # i => c.i[j] = s.i[j]
  BY <1>1, Puts
<1> HIDE DEF c
<1>3. \A j \in Instances : Grows(s.i[j], c.i[j])
  BY <1>2, GrowsSelf DEF Good, Sane
<1>4. AnswersKnown(s, c)
  <2> SUFFICES ASSUME NEW j \in Instances, NEW owner \in Instances, NEW k \in DOMAIN c.i[j].inbox,
                      c.i[j].inbox[k].kind = "registered", c.i[j].inbox[k].owner = owner
               PROVE  Known(s, owner)
    BY DEF AnswersKnown
  <2>1. CASE j = i
    BY <1>2, <2>1
  <2>2. CASE j # i
    BY <1>2, <2>2 DEF Good, Sane, AnswersSound
  <2> QED
    BY <2>1, <2>2
<1>5. SameTable(s, c) /\ c.d.inbox = s.d.inbox
  BY <1>2 DEF SameTable
<1>6. Sane(c)
  BY <1>2, <1>3, <1>4, <1>5, GrowsSane DEF Good
<1>7. Alive(c)
  <2>1. \A j \in Instances : c.i[j].at = "gone" => s.i[j].at = "gone"
    BY <1>2
  <2>2. \A j \in Instances : Told(s, j) => Told(c, j)
    BY <1>5 DEF Told
  <2> QED
    BY <1>5, <2>1, <2>2, StaysAlive DEF Good
<1>8. \A j \in Instances : Known(s, j) => Known(c, j)
  BY <1>3, GrowsKnown
<1> QED
  BY <1>2, <1>6, <1>7, <1>8 DEF Good, c

\* Windows, loads and what holds the application.
LEMMA WorksOn ==
  ASSUME NEW s, Good(s), NEW i \in Instances, NEW q \in Processes,
         q.at = s.i[i].at, q.uri = s.i[i].uri, q.doc_registered = s.i[i].doc_registered,
         q.served = s.i[i].served, q.inbox = s.i[i].inbox
  PROVE  LET c == [s EXCEPT !.i[i] = q]
         IN  /\ Good(c) /\ c.d = s.d /\ c.c = s.c /\ c.t = s.t /\ c.i[i] = q
             /\ \A j \in Instances : j # i => c.i[j] = s.i[j]
             /\ \A j \in Instances : Known(s, j) => Known(c, j)
<1>1. Promised(q) = Promised(s.i[i])
  BY DEF Promised
<1>2. ProcessSound(s.i[i])
  BY DEF Good, Sane
<1>3. ProcessSound(q)
  BY <1>2 DEF ProcessSound
<1>4. Grows(s.i[i], q)
  BY <1>1, <1>3 DEF Grows
<1>5. \A owner \in Instances : \A k \in DOMAIN q.inbox :
        q.inbox[k].kind = "registered" /\ q.inbox[k].owner = owner => Known(s, owner)
  BY DEF Good, Sane, AnswersSound
<1> QED
  BY <1>4, <1>5, OneGrows

\* A message that is put into an inbox.
LEMMA AppendsTo ==
  ASSUME NEW p \in Processes, ProcessSound(p), NEW m \in Answers, p.at \in {"up", "quitting"},
         m.kind = "reload" => Promised(p)
  PROVE  LET q == [p EXCEPT !.inbox = Append(p.inbox, m)]
         IN  /\ q \in Processes /\ q.at = p.at /\ q.uri = p.uri
             /\ q.doc_registered = p.doc_registered /\ ProcessSound(q)
             /\ Promised(q) <=> (Promised(p) \/ Promise(m))
             /\ \A k \in DOMAIN q.inbox :
                  q.inbox[k] = m \/ (k \in DOMAIN p.inbox /\ q.inbox[k] = p.inbox[k])
<1> DEFINE inbox == Append(p.inbox, m)
           q == [p EXCEPT !.inbox = inbox]
           n == Len(p.inbox)
<1>1. p.inbox \in Seq(Answers)
  BY DEF Processes
<1>2. /\ inbox \in Seq(Answers) /\ DOMAIN inbox = 1 .. (n + 1) /\ DOMAIN p.inbox = 1 .. n
      /\ n \in Nat /\ inbox[n + 1] = m /\ \A k \in DOMAIN p.inbox : inbox[k] = p.inbox[k]
  BY <1>1, OneMore
<1> HIDE DEF inbox, n
<1>3. /\ q \in Processes /\ q.at = p.at /\ q.uri = p.uri /\ q.inbox = inbox
      /\ q.doc_registered = p.doc_registered /\ q.served = p.served
  BY <1>2 DEF Processes
<1> HIDE DEF q
<1>4. \A k \in DOMAIN q.inbox :
        q.inbox[k] = m \/ (k \in DOMAIN p.inbox /\ q.inbox[k] = p.inbox[k])
  BY <1>2, <1>3
<1>5. \A k \in DOMAIN p.inbox : k \in DOMAIN q.inbox /\ q.inbox[k] = p.inbox[k]
  BY <1>2, <1>3
<1>6. n + 1 \in DOMAIN q.inbox /\ q.inbox[n + 1] = m
  BY <1>2, <1>3
<1>7. Promised(q) <=> (Promised(p) \/ Promise(m))
  BY <1>3, <1>4, <1>5, <1>6 DEF Promised
<1>8. ASSUME NEW k \in DOMAIN q.inbox, q.inbox[k].kind = "reload", ~q.doc_registered
      PROVE  \E o \in 1 .. (k - 1) : Promise(q.inbox[o])
  <2>1. CASE k \in DOMAIN p.inbox
    <3>1. PICK o \in 1 .. (k - 1) : Promise(p.inbox[o])
      BY <1>3, <1>5, <1>8, <2>1 DEF ProcessSound
    <3>2. o \in DOMAIN p.inbox
      BY <1>2, <2>1
    <3> QED
      BY <1>5, <3>1, <3>2
  <2>2. CASE k \notin DOMAIN p.inbox
    <3>1. k = n + 1 /\ m.kind = "reload"
      BY <1>2, <1>3, <1>8, <2>2
    <3>2. PICK o \in DOMAIN p.inbox : Promise(p.inbox[o])
      BY <1>3, <1>8, <3>1 DEF Promised
    <3>3. o \in 1 .. (k - 1)
      BY <1>2, <3>1
    <3> QED
      BY <1>5, <3>2, <3>3
  <2> QED
    BY <2>1, <2>2
<1>9. ProcessSound(q)
  BY <1>3, <1>8 DEF ProcessSound
<1> QED
  BY <1>3, <1>4, <1>7, <1>9 DEF q, inbox

\* A message to a process, unless it says that the document is registered.
LEMMA SaysGood ==
  ASSUME NEW s, Good(s), NEW i \in Instances, NEW m \in Answers, ~Promise(m),
         m.kind = "registered" /\ m.owner \in Instances => Known(s, m.owner),
         m.kind = "reload" => Known(s, i)
  PROVE  LET c == ToInstance(s, i, m)
         IN  /\ Good(c) /\ c.d = s.d /\ c.c = s.c /\ c.t = s.t
             /\ \A j \in Instances : Known(s, j) => Known(c, j)
             /\ \A j \in Instances : c.i[j].at = s.i[j].at
<1> DEFINE c == ToInstance(s, i, m)
<1>1. s \in Sessions /\ s.i[i] \in Processes /\ ProcessSound(s.i[i])
  BY Fields DEF Good, Sane
<1>2. CASE s.i[i].at \notin {"up", "quitting"}
  <2>1. c = s
    BY <1>2 DEF ToInstance
  <2> HIDE DEF c
  <2> QED
    BY <2>1 DEF c
<1>3. CASE s.i[i].at \in {"up", "quitting"}
  <2> DEFINE p == s.i[i]
             q == [p EXCEPT !.inbox = Append(p.inbox, m)]
  <2>1. c = [s EXCEPT !.i[i] = q]
    BY <1>3 DEF ToInstance
  <2> HIDE DEF c
  <2>2. m.kind = "reload" => Promised(p)
    BY <1>3 DEF Known
  <2>3. p \in Processes /\ ProcessSound(p) /\ p.at \in {"up", "quitting"}
    BY <1>1, <1>3
  <2>9. s.i[i] = p
    OBVIOUS
  <2> HIDE DEF p
  <2>4. /\ q \in Processes /\ q.at = p.at /\ q.uri = p.uri
        /\ q.doc_registered = p.doc_registered /\ ProcessSound(q)
        /\ Promised(q) <=> (Promised(p) \/ Promise(m))
        /\ \A k \in DOMAIN q.inbox :
             q.inbox[k] = m \/ (k \in DOMAIN p.inbox /\ q.inbox[k] = p.inbox[k])
    BY <2>2, <2>3, AppendsTo
  <2> HIDE DEF q
  <2>5. Grows(s.i[i], q)
    BY <2>3, <2>4, <2>9 DEF Grows
  <2>6. \A owner \in Instances : \A k \in DOMAIN q.inbox :
          q.inbox[k].kind = "registered" /\ q.inbox[k].owner = owner => Known(s, owner)
    BY <2>4, <2>9 DEF Good, Sane, AnswersSound
  <2>7. q.at = "gone" => s.i[i].at = "gone"
    BY <2>4, <2>9
  <2>8. /\ Good(c) /\ c.d = s.d /\ c.c = s.c /\ c.t = s.t /\ c.i[i] = q
        /\ \A j \in Instances : j # i => c.i[j] = s.i[j]
        /\ \A j \in Instances : Known(s, j) => Known(c, j)
    BY <2>1, <2>4, <2>5, <2>6, <2>7, OneGrows
  <2> QED
    BY <2>4, <2>8, <2>9 DEF c
<1> QED
  BY <1>2, <1>3

\* The first message of a process is taken out of its inbox.
LEMMA TakesGood ==
  ASSUME NEW s, Good(s), NEW i \in Instances, NEW q \in Processes,
         s.i[i].at = "up", s.i[i].inbox # << >>,
         q.at = "up", q.uri = s.i[i].uri, q.inbox = Tail(s.i[i].inbox),
         q.doc_registered <=> (s.i[i].doc_registered \/ Promise(Head(s.i[i].inbox))),
         q.served => s.i[i].served \/ Head(s.i[i].inbox).kind = "reload"
  PROVE  LET c == [s EXCEPT !.i[i] = q]
         IN  /\ Good(c) /\ c.d = s.d /\ c.c = s.c /\ c.t = s.t /\ c.i[i] = q
             /\ \A j \in Instances : j # i => c.i[j] = s.i[j]
             /\ \A j \in Instances : Known(s, j) => Known(c, j)
<1> DEFINE p == s.i[i]
           n == Len(p.inbox)
<1>1. p \in Processes /\ ProcessSound(p) /\ p.inbox \in Seq(Answers)
  BY Fields DEF Good, Sane
<1>2. /\ DOMAIN q.inbox = 1 .. (n - 1) /\ DOMAIN p.inbox = 1 .. n /\ n \in Nat \ {0}
      /\ Head(p.inbox) = p.inbox[1]
      /\ \A k \in DOMAIN q.inbox : q.inbox[k] = p.inbox[k + 1]
  BY <1>1, OneLess
<1>3. s.i[i] = p
  OBVIOUS
<1> HIDE DEF p, n
<1>4. \A k \in DOMAIN q.inbox : k + 1 \in DOMAIN p.inbox
  BY <1>2
<1>5. Promised(q) <=> Promised(p)
  <2>1. ASSUME Promised(q) PROVE Promised(p)
    <3>1. CASE q.doc_registered
      BY <1>2, <1>3, <3>1 DEF Promised
    <3>2. CASE \E k \in DOMAIN q.inbox : Promise(q.inbox[k])
      BY <1>2, <1>4, <3>2 DEF Promised
    <3> QED
      BY <2>1, <3>1, <3>2 DEF Promised
  <2>2. ASSUME Promised(p) PROVE Promised(q)
    <3>1. CASE p.doc_registered \/ Promise(p.inbox[1])
      BY <1>2, <1>3, <3>1 DEF Promised
    <3>2. ASSUME NEW k \in DOMAIN p.inbox, Promise(p.inbox[k]), k # 1 PROVE Promised(q)
      <4>1. k - 1 \in DOMAIN q.inbox /\ q.inbox[k - 1] = p.inbox[(k - 1) + 1] /\ (k - 1) + 1 = k
        BY <1>2, <3>2
      <4> QED
        BY <3>2, <4>1 DEF Promised
    <3> QED
      BY <2>2, <3>1, <3>2 DEF Promised
  <2> QED
    BY <2>1, <2>2
<1>6. ASSUME NEW k \in DOMAIN q.inbox, q.inbox[k].kind = "reload", ~q.doc_registered
      PROVE  \E o \in 1 .. (k - 1) : Promise(q.inbox[o])
  <2>1. k + 1 \in DOMAIN p.inbox /\ p.inbox[k + 1].kind = "reload" /\ k \in Nat
    BY <1>2, <1>4, <1>6
  <2>2. PICK o \in 1 .. ((k + 1) - 1) : Promise(p.inbox[o])
    BY <1>1, <1>3, <1>6, <2>1 DEF ProcessSound
  <2>3. o # 1
    <3>1. ~Promise(p.inbox[1])
      BY <1>2, <1>3, <1>6
    <3> QED
      BY <2>2, <3>1
  <2>6. o \in 1 .. k /\ k \in 1 .. (n - 1)
    BY <1>2, <1>6, <2>1, <2>2
  <2>4. o - 1 \in 1 .. (k - 1) /\ o - 1 \in DOMAIN q.inbox /\ (o - 1) + 1 = o
    <3>1. DOMAIN q.inbox = 1 .. (n - 1) /\ n \in Nat
      BY <1>2
    <3> QED
      BY <2>3, <2>6, <3>1
  <2>5. q.inbox[o - 1] = p.inbox[(o - 1) + 1]
    BY <1>2, <2>4
  <2> QED
    BY <2>2, <2>4, <2>5
<1>7. q.served => q.doc_registered
  <2>1. ASSUME Head(p.inbox).kind = "reload" PROVE q.doc_registered
    <3>1. 1 \in DOMAIN p.inbox /\ p.inbox[1].kind = "reload"
      BY <1>2, <2>1
    <3>2. p.doc_registered \/ \E o \in 1 .. (1 - 1) : Promise(p.inbox[o])
      BY <1>1, <3>1 DEF ProcessSound
    <3> QED
      BY <1>3, <3>2
  <2> QED
    BY <1>1, <1>3, <2>1 DEF ProcessSound
<1>8. ProcessSound(q)
  BY <1>1, <1>3, <1>6, <1>7 DEF ProcessSound
<1>9. Grows(s.i[i], q)
  BY <1>3, <1>5, <1>8 DEF Grows
<1>10. \A owner \in Instances : \A k \in DOMAIN q.inbox :
         q.inbox[k].kind = "registered" /\ q.inbox[k].owner = owner => Known(s, owner)
  BY <1>2, <1>3, <1>4 DEF Good, Sane, AnswersSound
<1> QED
  BY <1>9, <1>10, OneGrows

-----------------------------------------------------------------------------
(* Messages to the daemon.                                                 *)

\* The daemon of a session becomes d.
LEMMA PutsDaemon ==
  ASSUME NEW s \in Sessions, NEW d \in Daemons
  PROVE  LET c == [s EXCEPT !.d = d]
         IN  c \in Sessions /\ c.d = d /\ c.i = s.i /\ c.c = s.c /\ c.t = s.t
BY DEF Sessions

\* A message that is sound is put into the inbox of the daemon.
LEMMA AsksSane ==
  ASSUME NEW s, Sane(s), NEW m \in Requests, RequestSound(s, m)
  PROVE  LET c == ToDaemon(s, m)
         IN  /\ Sane(c) /\ c.i = s.i /\ c.c = s.c /\ c.t = s.t /\ c.d.docs = s.d.docs
             /\ \A j \in Instances : Told(s, j) => Told(c, j)
             /\ m.kind = "vanished" => Told(c, m.from)
<1> DEFINE c == ToDaemon(s, m)
           inbox == Append(s.d.inbox, m)
           d == [s.d EXCEPT !.inbox = inbox]
           n == Len(s.d.inbox)
<1>1. s \in Sessions /\ s.d \in Daemons /\ s.d.inbox \in Seq(Requests)
  BY Fields DEF Sane
<1>2. /\ inbox \in Seq(Requests) /\ DOMAIN inbox = 1 .. (n + 1) /\ DOMAIN s.d.inbox = 1 .. n
      /\ n \in Nat /\ inbox[n + 1] = m /\ \A k \in DOMAIN s.d.inbox : inbox[k] = s.d.inbox[k]
  BY <1>1, OneMore
<1>3. c = [s EXCEPT !.d = d]
  BY <1>1 DEF ToDaemon, Sessions
<1> HIDE DEF inbox, n, c
<1>4. /\ d \in Daemons /\ d.docs = s.d.docs /\ d.holds = s.d.holds /\ d.inbox = inbox
  BY <1>1, <1>2 DEF Daemons
<1> HIDE DEF d
<1>5. c \in Sessions /\ c.d = d /\ c.i = s.i /\ c.c = s.c /\ c.t = s.t
  BY <1>1, <1>3, <1>4, PutsDaemon
<1>6. \A k \in DOMAIN c.d.inbox :
        c.d.inbox[k] = m \/ (k \in DOMAIN s.d.inbox /\ c.d.inbox[k] = s.d.inbox[k])
  BY <1>2, <1>4, <1>5
<1>7. \A k \in DOMAIN s.d.inbox : k \in DOMAIN c.d.inbox /\ c.d.inbox[k] = s.d.inbox[k]
  BY <1>2, <1>4, <1>5
<1>8. n + 1 \in DOMAIN c.d.inbox /\ c.d.inbox[n + 1] = m
  BY <1>2, <1>4, <1>5
<1>9. c.d.docs = s.d.docs /\ SameTable(s, c)
  BY <1>4, <1>5 DEF SameTable
<1>10. ASSUME NEW i \in Instances, NEW uri, OwnsOnly(s, i, uri),
              m.kind = "register" /\ m.from = i => m.uri = uri
       PROVE  OwnsOnly(c, i, uri)
  BY <1>5, <1>6, <1>9, <1>10 DEF OwnsOnly
<1>11. RequestsSound(c)
  <2> SUFFICES ASSUME NEW k \in DOMAIN c.d.inbox
               PROVE  RequestSound(c, c.d.inbox[k])
    BY DEF RequestsSound
  <2> DEFINE r == c.d.inbox[k]
  <2>1. r = m \/ (k \in DOMAIN s.d.inbox /\ r = s.d.inbox[k])
    BY <1>6
  <2>2. r \in Requests /\ RequestSound(s, r)
    BY <1>1, <2>1 DEF Sane, RequestsSound
  <2>4. ASSUME m.kind = "register", r.kind = "register", m.from = r.from PROVE m.uri = r.uri
    <3>1. CASE r = m
      BY <3>1
    <3>2. CASE k \in DOMAIN s.d.inbox /\ r = s.d.inbox[k]
      BY <2>4, <3>2 DEF RequestSound, OwnsOnly
    <3> QED
      BY <2>1, <3>1, <3>2
  <2> HIDE DEF r
  <2>5. ASSUME r.kind = "find" PROVE RequestSound(c, r)
    BY <2>5 DEF RequestSound
  <2>6. ASSUME r.kind # "find" PROVE RequestSound(c, r)
    <3>1. r.from \in Instances
      BY <2>2, <2>6, RequestsFrom
    <3>2. r.kind = "register" => OwnsOnly(c, r.from, r.uri)
      BY <1>10, <2>2, <2>4, <2>6, <3>1 DEF RequestSound
    <3> QED
      BY <1>5, <2>2, <2>6, <3>2 DEF RequestSound
  <2>7. RequestSound(c, r)
    BY <2>5, <2>6
  <2> QED
    BY <2>7 DEF r
<1>12. \A i \in Instances : Known(s, i) => Known(c, i)
  BY <1>5 DEF Known
<1>13. AnswersSound(c)
  BY <1>5, <1>12 DEF Sane, AnswersSound
<1>14. OwnersSound(c)
  <2> SUFFICES ASSUME NEW uri \in Uris, NEW i \in Instances, s.d.docs[uri].owner = i
               PROVE  Known(c, i) /\ OwnsOnly(c, i, uri)
    BY <1>9 DEF OwnersSound
  <2>1. Known(s, i) /\ OwnsOnly(s, i, uri)
    BY DEF Sane, OwnersSound
  <2>2. m.kind = "register" /\ m.from = i => m.uri = uri
    BY DEF RequestSound, OwnsOnly
  <2> QED
    BY <1>10, <1>12, <2>1, <2>2
<1>15. Trusted(c)
  BY <1>5, <1>9 DEF Sane, Trusted
<1>16. Held(c)
  BY <1>9, HeldStays DEF Sane
<1>17. Sane(c)
  BY <1>5, <1>11, <1>13, <1>14, <1>15, <1>16 DEF Sane
<1>18. \A j \in Instances : Told(s, j) => Told(c, j)
  BY <1>7 DEF Told
<1>19. m.kind = "vanished" => Told(c, m.from)
  BY <1>8 DEF Told
<1> QED
  BY <1>5, <1>9, <1>17, <1>18, <1>19 DEF c

\* The same, with what the daemon will hear of owners that have gone.
LEMMA AsksGood ==
  ASSUME NEW s, Good(s), NEW m \in Requests, RequestSound(s, m)
  PROVE  LET c == ToDaemon(s, m)
         IN  /\ Good(c) /\ c.i = s.i /\ c.c = s.c /\ c.t = s.t /\ c.d.docs = s.d.docs
<1> DEFINE c == ToDaemon(s, m)
<1>1. /\ Sane(c) /\ c.i = s.i /\ c.c = s.c /\ c.t = s.t /\ c.d.docs = s.d.docs
      /\ \A j \in Instances : Told(s, j) => Told(c, j)
  BY AsksSane DEF Good
<1> HIDE DEF c
<1>2. Alive(c)
  BY <1>1 DEF Good, Alive
<1> QED
  BY <1>1, <1>2 DEF Good, c

\* What is true of a process that registers its document.
LEMMA OwnDocument ==
  ASSUME NEW s, Sane(s), NEW i \in Instances, s.i[i].at # "gone"
  PROVE  OwnsOnly(s, i, s.i[i].uri)
<1>1. \A other \in Uris : s.d.docs[other].owner = i => other = s.i[i].uri
  BY DEF Sane, OwnersSound, OwnsOnly
<1>2. ASSUME NEW k \in DOMAIN s.d.inbox, s.d.inbox[k].kind = "register", s.d.inbox[k].from = i
      PROVE  s.d.inbox[k].uri = s.i[i].uri
  BY <1>2 DEF Sane, RequestsSound, RequestSound, OwnsOnly
<1> QED
  BY <1>1, <1>2 DEF OwnsOnly

-----------------------------------------------------------------------------
(* A process goes.                                                         *)

\* Answers of which none says that the document is registered.
LEMMA AppendsMany ==
  ASSUME NEW p \in Processes, ProcessSound(p),
         NEW t \in Seq(Answers),
         \A k \in DOMAIN t : /\ t[k].kind # "reload"
                             /\ t[k].kind = "registered" => t[k].owner = "error"
  PROVE  LET q == Receives(p, t)
         IN  /\ q \in Processes /\ q.at = p.at /\ Grows(p, q)
             /\ \A k \in DOMAIN q.inbox, owner \in Instances :
                  q.inbox[k].kind = "registered" /\ q.inbox[k].owner = owner =>
                    k \in DOMAIN p.inbox /\ q.inbox[k] = p.inbox[k]
<1>1. CASE p.at \notin {"up", "quitting"}
  <2> DEFINE q == Receives(p, t)
  <2>1. q = p
    BY <1>1 DEF Receives
  <2> HIDE DEF q
  <2>2. Grows(p, q)
    BY <2>1, GrowsSelf
  <2> QED
    BY <2>1, <2>2 DEF q
<1>2. CASE p.at \in {"up", "quitting"}
  <2> DEFINE inbox == p.inbox \o t
             q == Receives(p, t)
             n == Len(p.inbox)
  <2>1. p.inbox \in Seq(Answers)
    BY DEF Processes
  <2>2. /\ inbox \in Seq(Answers) /\ n \in Nat /\ Len(t) \in Nat
        /\ DOMAIN p.inbox = 1 .. n /\ DOMAIN t = 1 .. Len(t)
    BY <2>1
  <2>3. DOMAIN inbox = 1 .. (n + Len(t))
    BY <2>1
  <2>4. \A k \in 1 .. n : inbox[k] = p.inbox[k]
    BY <2>1
  <2>5. \A k \in 1 .. (n + Len(t)) : k \notin 1 .. n => inbox[k] = t[k - n] /\ k - n \in DOMAIN t
    BY <2>1
  <2>0. q = [p EXCEPT !.inbox = inbox]
    BY <1>2 DEF Receives
  <2> HIDE DEF inbox, n, q
  <2>6. /\ q \in Processes /\ q.at = p.at /\ q.uri = p.uri /\ q.inbox = inbox
        /\ q.doc_registered = p.doc_registered /\ q.served = p.served
    BY <2>0, <2>2 DEF Processes
  <2>7. \A k \in DOMAIN p.inbox : k \in DOMAIN q.inbox /\ q.inbox[k] = p.inbox[k]
    BY <2>2, <2>3, <2>4, <2>6
  <2>8. ASSUME NEW k \in DOMAIN q.inbox, k \notin DOMAIN p.inbox
        PROVE  q.inbox[k].kind # "reload" /\ (q.inbox[k].kind = "registered" => q.inbox[k].owner = "error")
    BY <2>2, <2>3, <2>5, <2>6, <2>8
  <2>9. NoInstance # "error" /\ "error" \notin Instances
    BY DaemonAssumption DEF NoInstance
  <2>10. Promised(q) <=> Promised(p)
    BY <2>6, <2>7, <2>8, <2>9 DEF Promised, Promise
  <2>11. ASSUME NEW k \in DOMAIN q.inbox, q.inbox[k].kind = "reload", ~q.doc_registered
         PROVE  \E o \in 1 .. (k - 1) : Promise(q.inbox[o])
    <3>1. k \in DOMAIN p.inbox /\ p.inbox[k].kind = "reload"
      BY <2>7, <2>8, <2>11
    <3>2. PICK o \in 1 .. (k - 1) : Promise(p.inbox[o])
      BY <2>6, <2>11, <3>1 DEF ProcessSound
    <3>3. o \in DOMAIN p.inbox
      BY <2>2, <3>1
    <3> QED
      BY <2>7, <3>2, <3>3
  <2>12. ProcessSound(q)
    BY <1>2, <2>6, <2>11 DEF ProcessSound
  <2>13. Grows(p, q)
    BY <2>6, <2>10, <2>12 DEF Grows
  <2>14. \A k \in DOMAIN q.inbox, owner \in Instances :
           q.inbox[k].kind = "registered" /\ q.inbox[k].owner = owner =>
             k \in DOMAIN p.inbox /\ q.inbox[k] = p.inbox[k]
    BY <2>7, <2>8, <2>9
  <2> QED
    BY <2>6, <2>13, <2>14 DEF q
<1> QED
  BY <1>1, <1>2

\* The answers that someone gets who waits.
LEMMA AnswersEach ==
  ASSUME NEW inbox, NEW kind, NEW from, NEW message \in Answers,
         IsFiniteSet(Sent(inbox, kind, from))
  PROVE  LET t == AnswerEach(Sent(inbox, kind, from), message)
         IN  t \in Seq(Answers) /\ \A k \in DOMAIN t : t[k] = message
<1>1. Cardinality(Sent(inbox, kind, from)) \in Nat
  BY FS_CardinalityType
<1> QED
  BY <1>1 DEF AnswerEach

\* A message waits at finitely many places.
LEMMA FewSent ==
  ASSUME NEW S, NEW inbox \in Seq(S), NEW kind, NEW from
  PROVE  IsFiniteSet(Sent(inbox, kind, from))
<1>1. Len(inbox) \in Nat /\ DOMAIN inbox = 1 .. Len(inbox)
  OBVIOUS
<1>2. IsFiniteSet(1 .. Len(inbox))
  BY <1>1, FS_Interval
<1>3. Sent(inbox, kind, from) \subseteq 1 .. Len(inbox)
  BY <1>1 DEF Sent
<1> QED
  BY <1>2, <1>3, FS_Subset

\* A process that has started, or is about to, goes; an owner's name is watched.
LEMMA GoneGood ==
  ASSUME NEW s, Good(s), NEW i \in Instances, s.i[i].at \in {"starting", "up", "quitting"}
  PROVE  Good(Gone(s, i))
<1> DEFINE none == Process("gone", "none", 0)
           gone == [s EXCEPT !.i[i] = none]
           Waits(j) == AnswerEach(Sent(s.i[i].inbox, "reload", j), [kind |-> "reloaded"])
           After(j) == Receives(gone.i[j], Waits(j))
           f == [j \in Instances |-> After(j)]
           told == [gone EXCEPT !.i = f]
           m == [kind |-> "vanished", from |-> i, uri |-> "none"]
<1>1. s \in Sessions /\ s.i[i] \in Processes /\ s.i[i].inbox \in Seq(Answers)
  BY Fields DEF Good, Sane
<1>2. /\ none \in Processes /\ none.at = "gone" /\ none.inbox = << >>
      /\ ~none.doc_registered /\ ~none.served
  BY DEF Process, Processes
<1>3. /\ gone \in Sessions /\ gone.d = s.d /\ gone.c = s.c /\ gone.t = s.t /\ gone.i[i] = none
      /\ \A j \in Instances : j # i => gone.i[j] = s.i[j]
  BY <1>1, <1>2, Puts
<1>4. Gone(s, i) = IF \E uri \in Uris : s.d.docs[uri].owner = i THEN Watch(told, i) ELSE told
  BY DEF Gone
<1> HIDE DEF none, gone
<1>20. ProcessSound(none)
  BY <1>2 DEF ProcessSound
<1>5. told.i = f /\ told.d = s.d /\ told.c = s.c /\ told.t = s.t
  BY <1>3 DEF Sessions
<1>6. ASSUME NEW j \in Instances, j # i
      PROVE  /\ After(j) \in Processes /\ After(j).at = s.i[j].at /\ Grows(s.i[j], After(j))
             /\ \A k \in DOMAIN After(j).inbox, owner \in Instances :
                  After(j).inbox[k].kind = "registered" /\ After(j).inbox[k].owner = owner =>
                    k \in DOMAIN s.i[j].inbox /\ After(j).inbox[k] = s.i[j].inbox[k]
  <2> DEFINE p == s.i[j]
             t == Waits(j)
  <2>1. p \in Processes /\ ProcessSound(p) /\ gone.i[j] = p
    BY <1>1, <1>3, <1>6, Fields DEF Good, Sane
  <2>2. [kind |-> "reloaded"] \in Answers
    BY DEF Answers
  <2>3. t \in Seq(Answers) /\ \A k \in DOMAIN t : t[k] = [kind |-> "reloaded"]
    BY <1>1, <2>2, FewSent, AnswersEach
  <2>4. s.i[j] = p /\ After(j) = Receives(p, t)
    BY <2>1
  <2> HIDE DEF t, p, After
  <2>5. \A k \in DOMAIN t : /\ t[k].kind # "reload"
                            /\ t[k].kind = "registered" => t[k].owner = "error"
    BY <2>3
  <2> DEFINE q == Receives(p, t)
  <2>6. /\ q \in Processes /\ q.at = p.at /\ Grows(p, q)
        /\ \A k \in DOMAIN q.inbox, owner \in Instances :
             q.inbox[k].kind = "registered" /\ q.inbox[k].owner = owner =>
               k \in DOMAIN p.inbox /\ q.inbox[k] = p.inbox[k]
    BY <2>1, <2>3, <2>5, AppendsMany
  <2>7. After(j) = q
    BY <2>4
  <2> HIDE DEF q
  <2> QED
    BY <2>4, <2>6, <2>7
<1>7. After(i) = none
  BY <1>2, <1>3 DEF Receives
<1> HIDE DEF After, told
<1>8. \A j \in Instances : told.i[j] = After(j)
  BY <1>5
<1>9. told \in Sessions
  <2>1. f \in [Instances -> Processes]
    BY <1>2, <1>6, <1>7
  <2> QED
    BY <1>3, <2>1 DEF told, Sessions
<1> HIDE DEF f
<1>10. Grows(s.i[i], none)
  <2>1. ~Promised(none)
    BY <1>2 DEF Promised
  <2> QED
    BY <1>2, <1>20, <2>1 DEF Grows, Started
<1>11. \A j \in Instances : Grows(s.i[j], told.i[j])
  BY <1>6, <1>7, <1>8, <1>10
<1>12. AnswersKnown(s, told)
  <2> SUFFICES ASSUME NEW j \in Instances, NEW owner \in Instances, NEW k \in DOMAIN told.i[j].inbox,
                      told.i[j].inbox[k].kind = "registered", told.i[j].inbox[k].owner = owner
               PROVE  Known(s, owner)
    BY DEF AnswersKnown
  <2>1. CASE j = i
    BY <1>2, <1>7, <1>8, <2>1
  <2>2. CASE j # i
    BY <1>6, <1>8, <2>2 DEF Good, Sane, AnswersSound
  <2> QED
    BY <2>1, <2>2
<1>13. SameTable(s, told) /\ told.d.inbox = s.d.inbox /\ told.d.docs = s.d.docs
  BY <1>5 DEF SameTable
<1>14. Sane(told)
  BY <1>9, <1>11, <1>12, <1>13, GrowsSane DEF Good
<1>15. told.i[i].at = "gone" /\ \A j \in Instances : j # i => told.i[j].at = s.i[j].at
  BY <1>2, <1>6, <1>7, <1>8
<1>16. \A j \in Instances : Told(s, j) => Told(told, j)
  BY <1>13 DEF Told
<1>17. CASE \E uri \in Uris : s.d.docs[uri].owner = i
  <2>1. Gone(s, i) = ToDaemon(told, m)
    BY <1>4, <1>15, <1>17 DEF Watch
  <2>2. m \in Requests /\ m.kind = "vanished" /\ m.from = i
    BY DEF Requests
  <2> HIDE DEF m
  <2>3. RequestSound(told, m)
    BY <1>15, <2>2 DEF RequestSound, Started
  <2> DEFINE c == ToDaemon(told, m)
  <2>4. /\ Sane(c) /\ c.i = told.i /\ c.d.docs = told.d.docs
        /\ \A j \in Instances : Told(told, j) => Told(c, j)
        /\ Told(c, i)
    BY <1>14, <2>2, <2>3, AsksSane
  <2> HIDE DEF c
  <2>5. Alive(c)
    BY <1>13, <1>15, <1>16, <2>4 DEF Good, Alive
  <2>6. Good(c)
    BY <2>4, <2>5 DEF Good
  <2> QED
    BY <2>1, <2>6 DEF c
<1>18. CASE ~\E uri \in Uris : s.d.docs[uri].owner = i
  <2>1. Gone(s, i) = told
    BY <1>4, <1>18
  <2>2. Alive(told)
    BY <1>13, <1>15, <1>16, <1>18 DEF Good, Alive
  <2> QED
    BY <1>14, <2>1, <2>2 DEF Good
<1> QED
  BY <1>17, <1>18

-----------------------------------------------------------------------------
(* A process: what it does.                                                *)

\* The calls that are made are counted.
LEMMA CountsGood ==
  ASSUME NEW s, Good(s)
  PROVE  LET c == [s EXCEPT !.t.calls = @ + 1]
         IN  /\ Good(c) /\ c.d = s.d /\ c.i = s.i /\ c.c = s.c /\ c.t.faults = s.t.faults
<1> DEFINE c == [s EXCEPT !.t.calls = @ + 1]
<1>1. s \in Sessions
  BY DEF Good, Sane
<1>2. /\ c \in Sessions /\ c.d = s.d /\ c.i = s.i /\ c.c = s.c /\ c.t.faults = s.t.faults
  BY <1>1 DEF Sessions
<1> HIDE DEF c
<1>3. SameTable(s, c)
  BY <1>2 DEF SameTable
<1>4. Good(c)
  BY <1>2, <1>3, AsideGood
<1> QED
  BY <1>2, <1>4 DEF c

\* A document is registered at most once, but asked for as often as it is opened.
LEMMA RegisterUriGood ==
  ASSUME NEW s, Good(s), NEW i \in Instances, s.i[i].at = "up"
  PROVE  LET c == RegisterUri(s, i) IN Good(c) /\ c.i[i].at = "up"
<1> DEFINE c == RegisterUri(s, i)
<1>1. s \in Sessions /\ s.i[i] \in Processes /\ ProcessSound(s.i[i])
  BY Fields DEF Good, Sane
<1>2. CASE s.i[i].doc_registered
  <2>1. c = s
    BY <1>2 DEF RegisterUri, OpenInWindows
  <2> HIDE DEF c
  <2> QED
    BY <2>1 DEF c
<1>3. CASE ~s.i[i].doc_registered
  <2> DEFINE p == s.i[i]
             q == [p EXCEPT !.holds = @ + 1]
             w == [s EXCEPT !.i[i] = q]
             m == [kind |-> "register", from |-> i, uri |-> p.uri]
  <2>1. c = ToDaemon(w, m)
    BY <1>1, <1>3 DEF RegisterUri
  <2>2. s.i[i] = p
    OBVIOUS
  <2> HIDE DEF p
  <2>3. /\ q \in Processes /\ q.at = p.at /\ q.uri = p.uri /\ q.doc_registered = p.doc_registered
        /\ q.served = p.served /\ q.inbox = p.inbox
    BY <1>1, <2>2 DEF Processes
  <2> HIDE DEF q
  <2>4. Good(w) /\ w.i[i] = q
    BY <2>2, <2>3, WorksOn
  <2> HIDE DEF w
  <2>5. p.uri \in Uris
    BY <1>1, <2>2 DEF ProcessSound
  <2>6. m \in Requests /\ m.kind = "register" /\ m.from = i /\ m.uri = p.uri
    BY <2>5 DEF Requests
  <2> HIDE DEF m, c
  <2>7. OwnsOnly(w, i, p.uri)
    BY <2>2, <2>3, <2>4, OwnDocument DEF Good
  <2>8. RequestSound(w, m)
    BY <2>2, <2>3, <2>4, <2>6, <2>7 DEF RequestSound, Started
  <2> DEFINE e == ToDaemon(w, m)
  <2>9. Good(e) /\ e.i = w.i
    BY <2>4, <2>6, <2>8, AsksGood
  <2> HIDE DEF e
  <2>10. c = e
    BY <2>1 DEF e
  <2>11. Good(c) /\ c.i[i].at = "up"
    BY <2>2, <2>3, <2>4, <2>9, <2>10
  <2> QED
    BY <2>11 DEF c
<1> QED
  BY <1>2, <1>3

\* The application goes on, waits for the daemon, or ends.
LEMMA ReleaseGood ==
  ASSUME NEW s, Good(s), NEW i \in Instances, s.i[i].at = "up"
  PROVE  Good(Release(s, i))
<1>1. s \in Sessions /\ s.i[i] \in Processes /\ ProcessSound(s.i[i])
  BY Fields DEF Good, Sane
<1>2. CASE s.i[i].windows > 0 \/ s.i[i].holds > 0
  BY <1>2 DEF Release
<1>3. CASE ~(s.i[i].windows > 0 \/ s.i[i].holds > 0) /\ s.i[i].doc_registered
  <2> DEFINE p == s.i[i]
             q == [p EXCEPT !.at = "quitting"]
             w == [s EXCEPT !.i[i] = q]
             m == [kind |-> "unregister", from |-> i, uri |-> p.uri]
  <2>1. Release(s, i) = ToDaemon(w, m)
    BY <1>1, <1>3 DEF Release
  <2>2. s.i[i] = p
    OBVIOUS
  <2> HIDE DEF p
  <2>3. /\ q \in Processes /\ q.at = "quitting" /\ q.uri = p.uri
        /\ q.doc_registered = p.doc_registered /\ q.served = p.served /\ q.inbox = p.inbox
    BY <1>1, <2>2 DEF Processes
  <2> HIDE DEF q
  <2>4. Promised(q) = Promised(p)
    BY <2>3 DEF Promised
  <2>5. ProcessSound(q)
    BY <1>1, <2>2, <2>3 DEF ProcessSound
  <2>6. Grows(s.i[i], q)
    BY <2>2, <2>3, <2>4, <2>5 DEF Grows, Started
  <2>7. \A owner \in Instances : \A k \in DOMAIN q.inbox :
          q.inbox[k].kind = "registered" /\ q.inbox[k].owner = owner => Known(s, owner)
    BY <2>2, <2>3 DEF Good, Sane, AnswersSound
  <2>8. Good(w) /\ w.i[i] = q
    BY <2>3, <2>6, <2>7, OneGrows
  <2> HIDE DEF w
  <2>9. p.uri \in Uris
    BY <1>1, <2>2 DEF ProcessSound
  <2>10. m \in Requests /\ m.kind = "unregister" /\ m.from = i
    BY <2>9 DEF Requests
  <2> HIDE DEF m
  <2>11. RequestSound(w, m)
    BY <2>3, <2>8, <2>10 DEF RequestSound, Started
  <2> QED
    BY <2>1, <2>8, <2>10, <2>11, AsksGood
<1>4. CASE ~(s.i[i].windows > 0 \/ s.i[i].holds > 0) /\ ~s.i[i].doc_registered
  <2>1. Release(s, i) = Gone(s, i)
    BY <1>4 DEF Release
  <2> QED
    BY <2>1, GoneGood
<1> QED
  BY <1>2, <1>3, <1>4

\* A process is started for a document.
LEMMA SpawnedGood ==
  ASSUME NEW s, Good(s), NEW i \in Instances, NEW uri \in Uris, NEW opens \in Nat,
         s.i[i].at = "absent"
  PROVE  Good(Spawned(s, i, uri, opens))
<1> DEFINE q == Process("starting", uri, opens)
<1>1. /\ q \in Processes /\ q.at = "starting" /\ q.uri = uri /\ q.inbox = << >>
      /\ ~q.doc_registered /\ ~q.served
  BY DEF Process, Processes
<1>2. Spawned(s, i, uri, opens) = [s EXCEPT !.i[i] = q]
  BY DEF Spawned
<1> HIDE DEF q
<1>3. ProcessSound(q)
  BY <1>1 DEF ProcessSound
<1>4. Grows(s.i[i], q)
  BY <1>1, <1>3 DEF Grows, Started
<1>5. \A k \in DOMAIN q.inbox : FALSE
  BY <1>1
<1>6. Good([s EXCEPT !.i[i] = q])
  BY <1>1, <1>4, <1>5, OneGrows
<1> QED
  BY <1>2, <1>6

-----------------------------------------------------------------------------
(* A process: its actions.                                                 *)

\* The actions take the session apart and put it together again.
LEMMA SessionParts ==
  ASSUME NEW s, SessionIs(s), s \in Sessions
  PROVE  Session' = s
BY DEF SessionIs, Session, Sessions

\* The user starts a process.
LEMMA StartEvinceGood ==
  ASSUME Good(Session), NEW i \in Instances, NEW uri \in Uris, NEW opens \in 1 .. 2,
         StartEvince(i, uri, opens)
  PROVE  Good(Session')
<1> DEFINE c == Spawned(Session, i, uri, opens)
<1>1. SessionIs(c) /\ Session.i[i].at = "absent"
  BY DEF StartEvince, Session
<1> HIDE DEF c
<1>2. opens \in Nat
  OBVIOUS
<1>3. Good(c)
  BY <1>1, <1>2, SpawnedGood DEF c
<1> QED
  BY <1>1, <1>3, SessionParts DEF Good, Sane

\* A process that starts registers its document, once or twice.
LEMMA StartupGood ==
  ASSUME Good(Session), NEW i \in Instances, Startup(i)
  PROVE  Good(Session')
<1> DEFINE p == Session.i[i]
           q == [p EXCEPT !.at = "up", !.opens = 0]
           up == [Session EXCEPT !.i[i].at = "up", !.i[i].opens = 0]
           once == RegisterUri(up, i)
           twice == RegisterUri(once, i)
<1>1. /\ p.at = "starting" /\ SessionIs(IF instances[i].opens = 2 THEN twice ELSE once)
  BY DEF Startup, Session
<1>2. Session \in Sessions /\ p \in Processes /\ ProcessSound(p)
  BY Fields DEF Good, Sane
<1>3. up = [Session EXCEPT !.i[i] = q]
  BY <1>2 DEF Sessions
<1>4. Session.i[i] = p
  OBVIOUS
<1> HIDE DEF p, up
<1>5. /\ q \in Processes /\ q.at = "up" /\ q.uri = p.uri /\ q.inbox = p.inbox
      /\ q.doc_registered = p.doc_registered /\ q.served = p.served
  BY <1>2 DEF Processes
<1> HIDE DEF q
<1>6. q.inbox = << >> /\ ~q.doc_registered /\ ~q.served /\ q.uri \in Uris
  BY <1>1, <1>2, <1>5 DEF ProcessSound
<1>7. ~Promised(q) /\ ProcessSound(q)
  BY <1>5, <1>6 DEF Promised, ProcessSound
<1>8. Grows(Session.i[i], q)
  BY <1>1, <1>4, <1>5, <1>7 DEF Grows, Started
<1>9. \A k \in DOMAIN q.inbox : FALSE
  BY <1>6
<1>10. Good(up) /\ up.i[i] = q
  BY <1>3, <1>5, <1>8, <1>9, OneGrows
<1>11. Good(once) /\ once.i[i].at = "up"
  BY <1>5, <1>10, RegisterUriGood
<1> HIDE DEF once
<1>12. Good(twice)
  BY <1>11, RegisterUriGood
<1> HIDE DEF twice
<1>13. CASE instances[i].opens = 2
  BY <1>1, <1>12, <1>13, SessionParts DEF Good, Sane
<1>14. CASE instances[i].opens # 2
  BY <1>1, <1>11, <1>14, SessionParts DEF Good, Sane
<1> QED
  BY <1>13, <1>14

\* A call of the user or a client.
LEMMA OpenedGood ==
  ASSUME Good(Session)
  PROVE  Good(Opened) /\ Opened.i = Session.i /\ Opened.d = Session.d /\ Opened.c = Session.c
         /\ Opened.t.faults = Session.t.faults
BY CountsGood DEF Opened

\* The user opens the document again.
LEMMA OpenAgainGood ==
  ASSUME Good(Session), NEW i \in Instances, OpenAgain(i)
  PROVE  Good(Session')
<1> DEFINE c == RegisterUri(Opened, i)
<1>1. SessionIs(c) /\ Session.i[i].at = "up"
  BY DEF OpenAgain, MayOpen, Session
<1>2. Good(c)
  BY <1>1, OpenedGood, RegisterUriGood
<1> HIDE DEF c
<1> QED
  BY <1>1, <1>2, SessionParts DEF Good, Sane

\* A window is closed, and perhaps the application ends.
LEMMA CloseWindowGood ==
  ASSUME Good(Session), NEW i \in Instances, CloseWindow(i)
  PROVE  Good(Session')
<1> DEFINE C(loading) == [Opened EXCEPT !.i[i].windows = @ - 1, !.i[i].loading = loading]
<1>1. PICK loading \in {instances[i].loading, instances[i].loading - 1} :
        SessionIs(Release(C(loading), i))
  BY DEF CloseWindow
<1>2. Session.i[i].at = "up" /\ instances[i] = Session.i[i]
  BY DEF CloseWindow, MayOpen, Session
<1>3. Good(Opened) /\ Opened.i = Session.i
  BY OpenedGood
<1> DEFINE p == Opened.i[i]
           q == [p EXCEPT !.windows = @ - 1, !.loading = loading]
<1>4. Opened \in Sessions /\ p \in Processes
  BY <1>3, Fields DEF Good, Sane
<1>5. C(loading) = [Opened EXCEPT !.i[i] = q]
  BY <1>4 DEF Sessions
<1>6. p.at = "up" /\ Opened.i[i] = p /\ instances[i] = p
  BY <1>2, <1>3
<1> HIDE DEF p
<1> DEFINE n == p.windows - 1
<1>7. loading \in Int /\ n \in Int /\ q = [p EXCEPT !.windows = n, !.loading = loading]
  BY <1>4, <1>6 DEF Processes
<1> HIDE DEF n, q
<1>8. /\ q \in Processes /\ q.at = p.at /\ q.uri = p.uri /\ q.doc_registered = p.doc_registered
      /\ q.served = p.served /\ q.inbox = p.inbox
  BY <1>4, <1>7 DEF Processes
<1> DEFINE c == C(loading)
<1>9. c = [Opened EXCEPT !.i[i] = q] /\ SessionIs(Release(c, i))
  BY <1>1, <1>5
<1> HIDE DEF c, C
<1>10. Good(c) /\ c.i[i] = q
  BY <1>3, <1>6, <1>8, <1>9, WorksOn
<1>11. Good(Release(c, i))
  BY <1>6, <1>8, <1>10, ReleaseGood
<1> QED
  BY <1>9, <1>11, SessionParts DEF Good, Sane

\* A process crashes, in whatever state it is.
LEMMA CrashGood ==
  ASSUME Good(Session), NEW i \in Instances, Crash(i)
  PROVE  Good(Session')
<1> DEFINE c == Gone(Opened, i)
<1>1. SessionIs(c) /\ Session.i[i].at \in {"starting", "up"}
  BY DEF Crash, Session
<1>2. Good(c)
  BY <1>1, OpenedGood, GoneGood
<1> HIDE DEF c
<1> QED
  BY <1>1, <1>2, SessionParts DEF Good, Sane

\* A process that unregistered its document goes.
LEMMA UnregisteredGood ==
  ASSUME Good(Session), NEW i \in Instances, Unregistered(i)
  PROVE  Good(Session')
<1> DEFINE c == Gone(Session, i)
<1>1. SessionIs(c) /\ Session.i[i].at = "quitting"
  BY DEF Unregistered, Session
<1>2. Good(c)
  BY <1>1, GoneGood
<1> HIDE DEF c
<1> QED
  BY <1>1, <1>2, SessionParts DEF Good, Sane

\* The message that a process takes next.
LEMMA MessageSound ==
  ASSUME Good(Session), NEW i \in Instances, NEW kind, Hears(i, kind)
  PROVE  /\ Session \in Sessions /\ Session.i[i] \in Processes /\ Session.i[i].at = "up"
         /\ Session.i[i].inbox # << >> /\ Message(i) = Head(Session.i[i].inbox)
         /\ Message(i) \in Answers /\ Message(i).kind = kind
         /\ Tail(Session.i[i].inbox) \in Seq(Answers)
         /\ \A owner \in Instances :
              Message(i).kind = "registered" /\ Message(i).owner = owner => Known(Session, owner)
<1> DEFINE p == Session.i[i]
<1>1. Session \in Sessions /\ p \in Processes /\ p.inbox \in Seq(Answers)
  BY Fields DEF Good, Sane
<1>2. p.at = "up" /\ p.inbox # << >> /\ Message(i).kind = kind /\ Message(i) = Head(p.inbox)
  BY DEF Hears, Message, Session
<1>3. /\ Head(p.inbox) = p.inbox[1] /\ Head(p.inbox) \in Answers /\ Tail(p.inbox) \in Seq(Answers)
      /\ 1 \in DOMAIN p.inbox
  <2> HIDE DEF p
  <2> QED
    BY <1>1, <1>2, OneLess
<1>4. \A owner \in Instances :
        p.inbox[1].kind = "registered" /\ p.inbox[1].owner = owner => Known(Session, owner)
  BY <1>3 DEF Good, Sane, AnswersSound
<1> QED
  BY <1>1, <1>2, <1>3, <1>4

\* A process of which the first message was taken, and that has changed since.
LEMMA TakenIs ==
  ASSUME Session \in Sessions, NEW i \in Instances
  PROVE  LET p == [Session.i[i] EXCEPT !.inbox = Tail(@)]
         IN  /\ Taken(i).i[i] = p
             /\ \A q : [Taken(i) EXCEPT !.i[i] = q] = [Session EXCEPT !.i[i] = q]
BY DEF Taken, Sessions

\* A process reloads its document for another one, which gets an answer.
LEMMA HandleReloadGood ==
  ASSUME Good(Session), NEW i \in Instances, HandleReload(i)
  PROVE  Good(Session')
<1> DEFINE p == Session.i[i]
           m == Message(i)
           q == [p EXCEPT !.inbox = Tail(@), !.served = TRUE]
           w == [Taken(i) EXCEPT !.i[i].served = TRUE]
           a == [kind |-> "reloaded"]
           c == ToInstance(w, m.from, a)
<1>1. Hears(i, "reload") /\ SessionIs(c)
  BY DEF HandleReload, OpenInWindows
<1>2. /\ Session \in Sessions /\ p \in Processes /\ p.at = "up" /\ p.inbox # << >>
      /\ m = Head(p.inbox) /\ m \in Answers /\ m.kind = "reload" /\ Tail(p.inbox) \in Seq(Answers)
  BY <1>1, MessageSound
<1>3. w = [Session EXCEPT !.i[i] = q]
  BY <1>2 DEF Taken, Sessions
<1>4. Session.i[i] = p
  OBVIOUS
<1> HIDE DEF p, w, m
<1>5. /\ q \in Processes /\ q.at = p.at /\ q.uri = p.uri /\ q.doc_registered = p.doc_registered
      /\ q.served = TRUE /\ q.inbox = Tail(p.inbox)
  BY <1>2 DEF Processes
<1> HIDE DEF q
<1>6. m.from \in Instances /\ ~Promise(m) /\ Head(p.inbox) = m
  BY <1>2 DEF Answers, Promise
<1>7. /\ q.doc_registered <=> (Session.i[i].doc_registered \/ Promise(Head(Session.i[i].inbox)))
      /\ q.served => Session.i[i].served \/ Head(Session.i[i].inbox).kind = "reload"
  BY <1>2, <1>4, <1>5, <1>6
<1>11. /\ Session.i[i].at = "up" /\ Session.i[i].inbox # << >> /\ q.at = "up"
       /\ q.uri = Session.i[i].uri /\ q.inbox = Tail(Session.i[i].inbox)
  BY <1>2, <1>4, <1>5
<1>8. Good(w)
  BY <1>3, <1>5, <1>7, <1>11, TakesGood
<1>9. a \in Answers /\ a.kind = "reloaded" /\ ~Promise(a)
  BY DEF Answers, Promise
<1> HIDE DEF a
<1>10. Good(c)
  BY <1>6, <1>8, <1>9, SaysGood
<1> HIDE DEF c
<1> QED
  BY <1>1, <1>10, SessionParts DEF Good, Sane

\* A message is taken, and nobody waits for it any more: one that does not say that the
\* document is registered.
LEMMA OneTaken ==
  ASSUME Good(Session), NEW i \in Instances, NEW kind, Hears(i, kind), ~Promise(Message(i))
  PROVE  LET w == [Taken(i) EXCEPT !.i[i].holds = @ - 1]
         IN  /\ Good(w) /\ \A j \in Instances : w.i[j].at = Session.i[j].at
             /\ \A j \in Instances : Known(Session, j) => Known(w, j)
<1> DEFINE p == Session.i[i]
           m == Message(i)
           t == Tail(p.inbox)
           h == p.holds - 1
           q == [p EXCEPT !.inbox = t, !.holds = h]
           w == [Taken(i) EXCEPT !.i[i].holds = @ - 1]
<1>1. /\ Session \in Sessions /\ p \in Processes /\ p.at = "up" /\ p.inbox # << >>
      /\ m = Head(p.inbox) /\ Tail(p.inbox) \in Seq(Answers)
  BY MessageSound
<1>2. Session.i[i] = p /\ t \in Seq(Answers) /\ h \in Int
  BY <1>1 DEF Processes
<1> HIDE DEF t
<1>3. Taken(i).i[i] = [p EXCEPT !.inbox = t]
  BY <1>1, TakenIs DEF t
<1>4. w = [Session EXCEPT !.i[i] = q]
  <2>1. Taken(i) \in Sessions
    BY <1>1, <1>2 DEF Taken, Sessions, Processes, t
  <2>2. Taken(i).i[i].holds - 1 = h
    BY <1>3, <1>1 DEF Processes
  <2>3. [Taken(i).i[i] EXCEPT !.holds = h] = q
    BY <1>3, <1>1 DEF Processes
  <2>4. w = [Taken(i) EXCEPT !.i[i] = [Taken(i).i[i] EXCEPT !.holds = h]]
    BY <2>1, <2>2 DEF Sessions
  <2> HIDE DEF w, q
  <2>5. w = [Taken(i) EXCEPT !.i[i] = q]
    BY <2>3, <2>4
  <2> QED
    BY <1>1, <2>5, TakenIs
<1>5. ~Promise(Head(p.inbox))
  BY <1>1
<1> HIDE DEF p, w, m, h
<1>6. /\ q \in Processes /\ q.at = p.at /\ q.uri = p.uri /\ q.doc_registered = p.doc_registered
      /\ q.served = p.served /\ q.inbox = Tail(p.inbox)
  BY <1>1, <1>2 DEF Processes, t
<1> HIDE DEF q
<1>7. /\ q.doc_registered <=> (Session.i[i].doc_registered \/ Promise(Head(Session.i[i].inbox)))
      /\ q.served => Session.i[i].served \/ Head(Session.i[i].inbox).kind = "reload"
  BY <1>2, <1>5, <1>6
<1>10. /\ Session.i[i].at = "up" /\ Session.i[i].inbox # << >> /\ q.at = "up"
       /\ q.uri = Session.i[i].uri /\ q.inbox = Tail(Session.i[i].inbox)
  BY <1>1, <1>2, <1>6
<1>8. /\ Good(w) /\ w.i[i] = q /\ \A j \in Instances : j # i => w.i[j] = Session.i[j]
      /\ \A j \in Instances : Known(Session, j) => Known(w, j)
  BY <1>4, <1>6, <1>7, <1>10, TakesGood
<1>9. \A j \in Instances : w.i[j].at = Session.i[j].at
  BY <1>2, <1>6, <1>8
<1> QED
  BY <1>8, <1>9 DEF w

\* The other process has the document now, and this one may end.
LEMMA OnReloadGood ==
  ASSUME Good(Session), NEW i \in Instances, OnReload(i)
  PROVE  Good(Session')
<1> DEFINE w == [Taken(i) EXCEPT !.i[i].holds = @ - 1]
<1>1. Hears(i, "reloaded") /\ SessionIs(Release(w, i)) /\ ~Promise(Message(i))
  BY DEF OnReload, Hears, Promise
<1>2. Session.i[i].at = "up"
  BY <1>1 DEF Hears, Session
<1>3. Good(w) /\ w.i[i].at = "up"
  BY <1>1, <1>2, OneTaken
<1> HIDE DEF w
<1>4. Good(Release(w, i))
  BY <1>3, ReleaseGood
<1> QED
  BY <1>1, <1>4, SessionParts DEF Good, Sane

\* A document is opened in a window.
LEMMA OpenAtDestGood ==
  ASSUME NEW s, Good(s), NEW i \in Instances
  PROVE  Good(OpenAtDest(s, i))
<1> DEFINE p == s.i[i]
           n == p.windows + 1
           l == p.loading + 1
           q == [p EXCEPT !.windows = n, !.loading = l]
<1>1. s \in Sessions /\ p \in Processes
  BY Fields DEF Good, Sane
<1>2. OpenAtDest(s, i) = [s EXCEPT !.i[i] = q]
  BY <1>1 DEF OpenAtDest, Sessions
<1>3. n \in Int /\ l \in Int /\ s.i[i] = p
  BY <1>1 DEF Processes
<1> HIDE DEF p, n, l
<1>4. /\ q \in Processes /\ q.at = p.at /\ q.uri = p.uri /\ q.doc_registered = p.doc_registered
      /\ q.served = p.served /\ q.inbox = p.inbox
  BY <1>1, <1>3 DEF Processes
<1> HIDE DEF q
<1>5. Good([s EXCEPT !.i[i] = q])
  BY <1>3, <1>4, WorksOn
<1> QED
  BY <1>2, <1>5

\* The answer is that the document is registered.
LEMMA OwnerOpens ==
  ASSUME Good(Session), NEW i \in Instances, Hears(i, "registered"),
         Message(i).owner = NoInstance
  PROVE  Good([[Taken(i) EXCEPT !.i[i].holds = @ - 1] EXCEPT !.i[i].doc_registered = TRUE])
<1> DEFINE p == Session.i[i]
           m == Message(i)
           t == Tail(p.inbox)
           h == p.holds - 1
           r == [p EXCEPT !.inbox = t, !.holds = h]
           q == [p EXCEPT !.inbox = t, !.holds = h, !.doc_registered = TRUE]
           w == [Taken(i) EXCEPT !.i[i].holds = @ - 1]
           c == [w EXCEPT !.i[i].doc_registered = TRUE]
<1>1. /\ Session \in Sessions /\ p \in Processes /\ p.at = "up" /\ p.inbox # << >>
      /\ m = Head(p.inbox) /\ m.kind = "registered" /\ Tail(p.inbox) \in Seq(Answers)
  BY MessageSound
<1>2. Session.i[i] = p /\ t \in Seq(Answers) /\ h \in Int
  BY <1>1 DEF Processes
<1> HIDE DEF t
<1>3. Taken(i).i[i] = [p EXCEPT !.inbox = t]
  BY <1>1, TakenIs DEF t
<1>4. Taken(i) \in Sessions /\ Taken(i).i[i].holds - 1 = h
  <2>1. Taken(i) \in Sessions
    BY <1>1, <1>2 DEF Taken, Sessions, Processes, t
  <2>2. Taken(i).i[i].holds - 1 = h
    BY <1>3, <1>1 DEF Processes
  <2> QED
    BY <2>1, <2>2
<1>5. w = [Taken(i) EXCEPT !.i[i] = r]
  <2>3. [Taken(i).i[i] EXCEPT !.holds = h] = r
    BY <1>3, <1>1 DEF Processes
  <2>4. w = [Taken(i) EXCEPT !.i[i] = [Taken(i).i[i] EXCEPT !.holds = h]]
    BY <1>4 DEF Sessions
  <2> HIDE DEF w, r
  <2> QED
    BY <2>3, <2>4
<1>6. r \in Processes /\ [r EXCEPT !.doc_registered = TRUE] = q
  BY <1>1, <1>2 DEF Processes
<1>7. c = [Taken(i) EXCEPT !.i[i] = q]
  <2> HIDE DEF r, w, q
  <2>1. w.i[i] = r /\ w \in Sessions
    BY <1>4, <1>5, <1>6, Puts
  <2>2. c = [w EXCEPT !.i[i] = [r EXCEPT !.doc_registered = TRUE]]
    BY <2>1 DEF Sessions
  <2> HIDE DEF c
  <2>3. c = [w EXCEPT !.i[i] = q]
    BY <2>2, <1>6
  <2> QED
    BY <2>3, <1>4, <1>5 DEF Sessions
<1>8. c = [Session EXCEPT !.i[i] = q]
  <2> HIDE DEF c, q
  <2> QED
    BY <1>1, <1>7, TakenIs
<1> HIDE DEF w, r, h
<1>9. /\ q \in Processes /\ q.at = p.at /\ q.uri = p.uri /\ q.doc_registered = TRUE
      /\ q.served = p.served /\ q.inbox = Tail(p.inbox)
  BY <1>1, <1>2 DEF Processes, t
<1> HIDE DEF p, m, q, c
<1>10. Promise(Head(p.inbox))
  BY <1>1 DEF Promise, m
<1>11. /\ q.doc_registered <=> (Session.i[i].doc_registered \/ Promise(Head(Session.i[i].inbox)))
       /\ q.served => Session.i[i].served \/ Head(Session.i[i].inbox).kind = "reload"
  BY <1>2, <1>9, <1>10
<1>13. /\ Session.i[i].at = "up" /\ Session.i[i].inbox # << >> /\ q.at = "up"
       /\ q.uri = Session.i[i].uri /\ q.inbox = Tail(Session.i[i].inbox)
  BY <1>1, <1>2, <1>9
<1>12. Good(c)
  BY <1>8, <1>9, <1>11, <1>13, TakesGood
<1> QED
  BY <1>12 DEF c, w

\* What a process does with the answer: open the document, or hand it over.
LEMMA OnRegisterUriGood ==
  ASSUME Good(Session), NEW i \in Instances, OnRegisterUri(i)
  PROVE  Good(Session')
<1> DEFINE w == [Taken(i) EXCEPT !.i[i].holds = @ - 1]
           owned == [w EXCEPT !.i[i].doc_registered = TRUE]
           waits == [w EXCEPT !.i[i].holds = @ + 1]
           owner == Message(i).owner
           reload == [kind |-> "reload", from |-> i]
           reloaded == [kind |-> "reloaded"]
           next ==
             CASE owner = "error" -> OpenAtDest(w, i)
               [] owner = NoInstance -> OpenAtDest(owned, i)
               [] owner \in Instances ->
                    IF w.i[owner].at \in {"up", "quitting"}
                      THEN ToInstance(waits, owner, reload) ELSE ToInstance(waits, i, reloaded)
<1>1. Hears(i, "registered") /\ SessionIs(next)
  BY DEF OnRegisterUri
<1>2. /\ Message(i) \in Answers /\ Message(i).kind = "registered"
      /\ owner \in Instances => Known(Session, owner)
  BY <1>1, MessageSound
<1>3. owner \in Instances \cup {NoInstance, "error"}
  BY <1>2 DEF Answers
<1>4. NoInstance # "error" /\ NoInstance \notin Instances /\ "error" \notin Instances
  BY DaemonAssumption DEF NoInstance
<1> HIDE DEF w, owned, waits
<1>5. Good(next)
  <2>1. CASE owner = NoInstance
    <3>1. next = OpenAtDest(owned, i)
      BY <1>4, <2>1
    <3>2. Good(owned)
      BY <1>1, <2>1, OwnerOpens DEF owned, w
    <3> QED
      BY <3>1, <3>2, OpenAtDestGood
  <2>2. ASSUME owner # NoInstance
        PROVE  /\ Good(w) /\ \A j \in Instances : Known(Session, j) => Known(w, j)
    <3>1. ~Promise(Message(i))
      BY <2>2 DEF Promise
    <3> QED
      BY <1>1, <3>1, OneTaken DEF w
  <2>3. CASE owner = "error"
    <3>1. next = OpenAtDest(w, i)
      BY <1>4, <2>3
    <3> QED
      BY <1>4, <2>2, <2>3, <3>1, OpenAtDestGood
  <2>4. CASE owner \in Instances
    <3>1. Good(w) /\ Known(w, owner)
      BY <1>2, <1>4, <2>2, <2>4
    <3> DEFINE p == w.i[i]
               h == p.holds + 1
               q == [p EXCEPT !.holds = h]
    <3>2. w \in Sessions /\ p \in Processes
      BY <3>1, Fields DEF Good, Sane
    <3>3. waits = [w EXCEPT !.i[i] = q]
      BY <3>2 DEF waits, Sessions
    <3>4. h \in Int /\ w.i[i] = p
      BY <3>2 DEF Processes
    <3> HIDE DEF p, h
    <3>5. /\ q \in Processes /\ q.at = p.at /\ q.uri = p.uri
          /\ q.doc_registered = p.doc_registered /\ q.served = p.served /\ q.inbox = p.inbox
      BY <3>2, <3>4 DEF Processes
    <3> HIDE DEF q, owner
    <3>6. Good(waits) /\ Known(waits, owner)
      BY <2>4, <3>1, <3>3, <3>4, <3>5, WorksOn
    <3>7. /\ reload \in Answers /\ reload.kind = "reload" /\ ~Promise(reload)
          /\ reloaded \in Answers /\ reloaded.kind = "reloaded" /\ ~Promise(reloaded)
      BY DEF Answers, Promise
    <3> HIDE DEF reload, reloaded
    <3>8. Good(ToInstance(waits, owner, reload))
      BY <2>4, <3>6, <3>7, SaysGood
    <3>9. Good(ToInstance(waits, i, reloaded))
      BY <3>6, <3>7, SaysGood
    <3>10. next = IF w.i[owner].at \in {"up", "quitting"}
                    THEN ToInstance(waits, owner, reload) ELSE ToInstance(waits, i, reloaded)
      BY <1>4, <2>4
    <3> HIDE DEF next
    <3> QED
      BY <3>8, <3>9, <3>10
  <2> QED
    BY <1>3, <2>1, <2>3, <2>4
<1> HIDE DEF next
<1> QED
  BY <1>1, <1>5, SessionParts DEF Good, Sane

\* A document was loaded, and the daemon hears of it.
LEMMA DocumentLoadsGood ==
  ASSUME Good(Session), NEW i \in Instances, NEW ok \in BOOLEAN, DocumentLoads(i, ok)
  PROVE  Good(Session')
<1> DEFINE p == Session.i[i]
           l == p.loading - 1
           shown == p.shown \/ ok
           q == [p EXCEPT !.loading = l, !.shown = shown]
           c == [Session EXCEPT !.i[i].loading = @ - 1, !.i[i].shown = @ \/ ok]
           m == [kind |-> "loaded", from |-> i, uri |-> p.uri]
           says == ok /\ daemon.docs[p.uri].owner = i /\ daemon.docs[p.uri].subscribed
<1>1. p.at = "up" /\ SessionIs(IF says THEN ToDaemon(c, m) ELSE c)
  BY DEF DocumentLoads, Session
<1>2. Session \in Sessions /\ p \in Processes /\ ProcessSound(p)
  BY Fields DEF Good, Sane
<1>3. c = [Session EXCEPT !.i[i] = q]
  BY <1>2 DEF Sessions
<1>4. l \in Int /\ shown \in BOOLEAN /\ Session.i[i] = p
  BY <1>2 DEF Processes
<1> HIDE DEF p, l, shown
<1>5. /\ q \in Processes /\ q.at = p.at /\ q.uri = p.uri /\ q.doc_registered = p.doc_registered
      /\ q.served = p.served /\ q.inbox = p.inbox
  BY <1>2, <1>4 DEF Processes
<1> HIDE DEF q, c, says
<1>6. Good(c) /\ c.i[i] = q
  BY <1>3, <1>4, <1>5, WorksOn
<1>7. p.uri \in Uris
  BY <1>1, <1>2 DEF ProcessSound
<1>8. m \in Requests /\ m.kind = "loaded" /\ m.from = i
  BY <1>7 DEF Requests
<1> HIDE DEF m
<1>9. RequestSound(c, m)
  BY <1>1, <1>5, <1>6, <1>8 DEF RequestSound, Started
<1>10. Good(ToDaemon(c, m))
  BY <1>6, <1>8, <1>9, AsksGood
<1>11. CASE says
  BY <1>1, <1>10, <1>11, SessionParts DEF Good, Sane
<1>12. CASE ~says
  BY <1>1, <1>6, <1>12, SessionParts DEF Good, Sane
<1> QED
  BY <1>11, <1>12

\* A client asks for a document.
LEMMA FindDocumentGood ==
  ASSUME Good(Session), NEW c \in Callers, NEW uri \in Uris, NEW spawn \in BOOLEAN,
         FindDocument(c, uri, spawn)
  PROVE  Good(Session')
<1> DEFINE w == [Opened EXCEPT !.c[c].uri = uri, !.c[c].spawn = spawn]
           m == [kind |-> "find", from |-> c, uri |-> uri]
<1>1. SessionIs(ToDaemon(w, m))
  BY DEF FindDocument
<1>2. Good(Opened) /\ Opened \in Sessions
  BY OpenedGood DEF Good, Sane
<1> DEFINE a == [Opened.c[c] EXCEPT !.uri = uri, !.spawn = spawn]
<1>9. w = [Opened EXCEPT !.c[c] = a]
  BY <1>2 DEF Sessions
<1>10. a \in Askers
  <2> DEFINE b == Opened.c[c]
  <2>1. b \in Askers
    BY <1>2 DEF Sessions
  <2> HIDE DEF b
  <2>2. [b EXCEPT !.uri = uri, !.spawn = spawn] \in Askers
    BY <2>1 DEF Askers
  <2> QED
    BY <2>2 DEF b
<1> HIDE DEF a, w
<1>3. w \in Sessions /\ w.i = Opened.i /\ w.d = Opened.d /\ w.t = Opened.t
  BY <1>2, <1>9, <1>10 DEF Sessions
<1> HIDE DEF w
<1>4. SameTable(Opened, w)
  BY <1>3 DEF SameTable
<1>5. Good(w)
  BY <1>2, <1>3, <1>4, AsideGood
<1>6. m \in Requests /\ m.kind = "find"
  BY DEF Requests
<1> HIDE DEF m
<1>7. RequestSound(w, m)
  BY <1>6 DEF RequestSound
<1>8. Good(ToDaemon(w, m))
  BY <1>5, <1>6, <1>7, AsksGood
<1> QED
  BY <1>1, <1>8, SessionParts DEF Good, Sane

-----------------------------------------------------------------------------
(* The daemon: what it does.                                               *)

\* A message that the daemon takes, and what is left.
LEMMA CallSound ==
  ASSUME Good(Session), NEW kind, DaemonHears(kind)
  PROVE  /\ Call \in Requests /\ Call.kind = kind /\ RequestSound(Session, Call)
         /\ kind # "find" => Call.from \in Instances
         /\ kind = "find" => Call.from \in Callers
         /\ kind # "vanished" => Call.uri \in Uris
         /\ Sane(Handled) /\ Handled.i = Session.i /\ Handled.c = Session.c
         /\ Handled.t = Session.t /\ Handled.d.docs = Session.d.docs
         /\ Handled.d.pending = Session.d.pending
         /\ \A j \in Instances : Told(Session, j) =>
              Told(Handled, j) \/ (kind = "vanished" /\ j = Call.from)
         /\ kind = "register" => OwnsOnly(Handled, Call.from, Call.uri)
<1> DEFINE c == Handled
           r == Session.d.inbox
           t == Tail(r)
           d == [Session.d EXCEPT !.inbox = t]
           n == Len(r)
<1>1. Session \in Sessions /\ Session.d \in Daemons /\ r \in Seq(Requests)
  BY Fields DEF Good, Sane
<1>2. r # << >> /\ Call = Head(r) /\ Call.kind = kind
  BY DEF DaemonHears, Call, Session
<1>3. c = [Session EXCEPT !.d = d]
  BY <1>1 DEF Handled, Sessions
<1>4. Session.d.inbox = r
  OBVIOUS
<1> HIDE DEF r, c
<1>5. /\ t \in Seq(Requests) /\ DOMAIN t = 1 .. (n - 1) /\ DOMAIN r = 1 .. n /\ n \in Nat \ {0}
      /\ Head(r) = r[1] /\ Head(r) \in Requests /\ \A k \in DOMAIN t : t[k] = r[k + 1]
  BY <1>1, <1>2, OneLess
<1> HIDE DEF t, n
<1>6. d \in Daemons /\ d.docs = Session.d.docs /\ d.holds = Session.d.holds /\ d.inbox = t
      /\ d.pending = Session.d.pending
  BY <1>1, <1>5 DEF Daemons
<1> HIDE DEF d
<1>7. /\ c \in Sessions /\ c.d = d /\ c.i = Session.i /\ c.c = Session.c /\ c.t = Session.t
  BY <1>1, <1>3, <1>6, PutsDaemon
<1>8. SameTable(Session, c) /\ c.d.docs = Session.d.docs /\ c.d.pending = Session.d.pending
  BY <1>6, <1>7 DEF SameTable
<1>9. \A k \in DOMAIN c.d.inbox : k + 1 \in DOMAIN r /\ c.d.inbox[k] = r[k + 1]
  BY <1>5, <1>6, <1>7
<1>10. \A k \in DOMAIN r : k # 1 => k - 1 \in DOMAIN c.d.inbox /\ c.d.inbox[k - 1] = r[k]
  <2> SUFFICES ASSUME NEW k \in DOMAIN r, k # 1
               PROVE  k - 1 \in DOMAIN c.d.inbox /\ c.d.inbox[k - 1] = r[k]
    OBVIOUS
  <2>1. k - 1 \in DOMAIN t /\ (k - 1) + 1 = k
    BY <1>5
  <2>2. t[k - 1] = r[(k - 1) + 1]
    BY <1>5, <2>1
  <2> QED
    BY <1>6, <1>7, <2>1, <2>2
<1>11. Call = r[1] /\ 1 \in DOMAIN r /\ Call \in Requests
  BY <1>2, <1>5
<1>12. RequestSound(Session, Call)
  BY <1>4, <1>11 DEF Good, Sane, RequestsSound
<1>13. ASSUME NEW i, NEW uri, OwnsOnly(Session, i, uri)
       PROVE  OwnsOnly(c, i, uri)
  BY <1>4, <1>7, <1>8, <1>9, <1>13 DEF OwnsOnly
<1>14. ASSUME NEW m, RequestSound(Session, m) PROVE RequestSound(c, m)
  BY <1>7, <1>13, <1>14 DEF RequestSound
<1>15. RequestsSound(c)
  BY <1>4, <1>9, <1>14 DEF Good, Sane, RequestsSound
<1>16. \A i \in Instances : Known(Session, i) => Known(c, i)
  BY <1>7 DEF Known
<1>17. AnswersSound(c)
  BY <1>7, <1>16 DEF Good, Sane, AnswersSound
<1>18. OwnersSound(c)
  BY <1>8, <1>13, <1>16 DEF Good, Sane, OwnersSound
<1>19. Trusted(c)
  BY <1>7, <1>8 DEF Good, Sane, Trusted
<1>20. Held(c)
  BY <1>8, HeldStays DEF Good, Sane
<1>21. Sane(c)
  BY <1>7, <1>15, <1>17, <1>18, <1>19, <1>20 DEF Good, Sane
<1>22. ASSUME NEW j \in Instances, Told(Session, j)
       PROVE  Told(c, j) \/ (kind = "vanished" /\ j = Call.from)
  <2>1. PICK k \in DOMAIN r : r[k].kind = "vanished" /\ r[k].from = j
    BY <1>4, <1>22 DEF Told
  <2>2. CASE k = 1
    BY <1>2, <1>11, <2>1, <2>2
  <2>3. CASE k # 1
    BY <1>10, <2>1, <2>3 DEF Told
  <2> QED
    BY <2>2, <2>3
<1>23. /\ kind # "find" => Call.from \in Instances
       /\ kind = "find" => Call.from \in Callers
       /\ kind # "vanished" => Call.uri \in Uris
  BY <1>2, <1>11, RequestsFrom
<1>24. kind = "register" => OwnsOnly(c, Call.from, Call.uri)
  BY <1>2, <1>12, <1>13 DEF RequestSound
<1>25. Handled = c
  BY DEF c
<1> QED
  BY <1>2, <1>7, <1>8, <1>11, <1>12, <1>21, <1>22, <1>23, <1>24, <1>25

\* Any message but that a process has gone may be taken and nothing done.
LEMMA HandledGood ==
  ASSUME Good(Session), NEW kind, DaemonHears(kind), kind # "vanished"
  PROVE  Good(Handled)
BY CallSound DEF Good, Alive

\* A document that has an owner who does not need it any more is forgotten.
LEMMA ForgottenSane ==
  ASSUME NEW s, Sane(s), NEW uri \in Uris, NEW i \in Instances, s.d.docs[uri].owner = i,
         s.i[i].at # "up"
  PROVE  LET c == Forgets(s, uri)
         IN  /\ Sane(c) /\ c.i = s.i
             /\ \A j \in Instances : Told(s, j) => Told(c, j)
             /\ \A other \in Uris, j \in Instances :
                  c.d.docs[other].owner = j => s.d.docs[other].owner = j /\ j # i
<1> DEFINE h == s.d.holds - 1
           docs == [s.d.docs EXCEPT ![uri] = NoDoc]
           d == [s.d EXCEPT !.docs = docs, !.holds = h]
           c == Forgets(s, uri)
<1>1. s \in Sessions /\ s.d \in Daemons /\ s.i \in [Instances -> Processes]
  BY Fields DEF Sane
<1>2. c = [s EXCEPT !.d = d]
  BY <1>1 DEF Forgets, Sessions
<1>3. h \in Int /\ docs \in [Uris -> [owner : Instances \cup {NoInstance}, subscribed : BOOLEAN]]
  BY <1>1 DEF Daemons, NoDoc
<1>4. /\ docs[uri].owner = NoInstance
      /\ \A other \in Uris : other # uri => docs[other] = s.d.docs[other]
  BY <1>1 DEF Daemons, NoDoc
<1> HIDE DEF docs, c
<1>5. d \in Daemons /\ d.docs = docs /\ d.holds = h /\ d.inbox = s.d.inbox
  BY <1>1, <1>3 DEF Daemons
<1> HIDE DEF d
<1>6. /\ c \in Sessions /\ c.d = d /\ c.i = s.i /\ c.t = s.t
  BY <1>1, <1>2, <1>5, PutsDaemon
<1>7. NoInstance \notin Instances
  BY DaemonAssumption
<1>8. \A other \in Uris, j \in Instances :
        c.d.docs[other].owner = j => s.d.docs[other].owner = j /\ other # uri
  BY <1>4, <1>5, <1>6, <1>7
<1>9. \A other \in Uris : s.d.docs[other].owner = i => other = uri
  BY DEF Sane, OwnersSound, OwnsOnly
<1>10. \A other \in Uris, j \in Instances :
         c.d.docs[other].owner = j => s.d.docs[other].owner = j /\ j # i
  BY <1>8, <1>9
<1>11. c.d.inbox = s.d.inbox
  BY <1>5, <1>6
<1>12. ASSUME NEW j \in Instances, NEW u, OwnsOnly(s, j, u) PROVE OwnsOnly(c, j, u)
  BY <1>6, <1>8, <1>11, <1>12 DEF OwnsOnly
<1>13. RequestsSound(c)
  <2> SUFFICES ASSUME NEW k \in DOMAIN s.d.inbox PROVE RequestSound(c, s.d.inbox[k])
    BY <1>11 DEF RequestsSound
  <2> DEFINE m == s.d.inbox[k]
  <2>1. m \in Requests /\ RequestSound(s, m)
    BY <1>1 DEF Sane, RequestsSound, Daemons
  <2> HIDE DEF m
  <2>2. m.kind # "find" => m.from \in Instances
    BY <2>1, RequestsFrom
  <2>3. RequestSound(c, m)
    BY <1>6, <1>12, <2>1, <2>2 DEF RequestSound
  <2> QED
    BY <2>3 DEF m
<1>14. \A j \in Instances : Known(s, j) => Known(c, j)
  BY <1>6 DEF Known
<1>15. AnswersSound(c)
  BY <1>6, <1>14 DEF Sane, AnswersSound
<1>16. OwnersSound(c)
  BY <1>8, <1>12, <1>14 DEF Sane, OwnersSound
<1>17. Trusted(c)
  <2> SUFFICES ASSUME c.t.faults = 0, NEW j \in Instances, c.i[j].at = "up", Promised(c.i[j])
               PROVE  c.d.docs[c.i[j].uri].owner = j
    BY DEF Trusted
  <2>1. s.d.docs[s.i[j].uri].owner = j /\ s.i[j].uri \in Uris /\ j # i
    BY <1>6 DEF Sane, Trusted, ProcessSound
  <2>2. s.i[j].uri # uri
    BY <2>1
  <2> QED
    BY <1>4, <1>5, <1>6, <2>1, <2>2
<1>18. Held(c)
  <2> DEFINE R == Registered(s.d)
  <2>1. uri \in R /\ IsFiniteSet(R) /\ s.d.holds = Cardinality(R)
    BY <1>7 DEF Sane, Held, Registered
  <2>2. Registered(c.d) = R \ {uri}
    BY <1>4, <1>5, <1>6 DEF Registered
  <2> HIDE DEF R
  <2>3. IsFiniteSet(R \ {uri}) /\ Cardinality(R \ {uri}) = Cardinality(R) - 1
    BY <2>1, FS_RemoveElement
  <2>4. c.d.holds = s.d.holds - 1
    BY <1>5, <1>6
  <2> QED
    BY <2>1, <2>2, <2>3, <2>4 DEF Held
<1>19. Sane(c)
  BY <1>6, <1>13, <1>15, <1>16, <1>17, <1>18 DEF Sane
<1>20. \A j \in Instances : Told(s, j) => Told(c, j)
  BY <1>11 DEF Told
<1> QED
  BY <1>6, <1>10, <1>19, <1>20 DEF c

\* A process that does not need its document is forgotten.
LEMMA HandleUnregisterGood ==
  ASSUME Good(Session), HandleUnregister
  PROVE  Good(Session')
<1> DEFINE m == [kind |-> "unregistered"]
           a == ToInstance(Handled, Call.from, m)
           c == Forgets(a, Call.uri)
<1>1. /\ DaemonHears("unregister")
      /\ SessionIs(IF daemon.docs[Call.uri].owner # Call.from THEN a ELSE c)
  BY DEF HandleUnregister
<1>2. /\ Call.from \in Instances /\ Call.uri \in Uris /\ Call.kind = "unregister"
      /\ RequestSound(Session, Call) /\ Handled.i = Session.i /\ Handled.d.docs = Session.d.docs
      /\ Good(Handled)
  BY <1>1, CallSound, HandledGood
<1>3. Session.i[Call.from].at # "up"
  BY <1>2 DEF RequestSound
<1>4. m \in Answers /\ m.kind = "unregistered" /\ ~Promise(m)
  BY DEF Answers, Promise
<1> HIDE DEF m
<1>5. /\ Good(a) /\ a.d = Handled.d /\ \A j \in Instances : a.i[j].at = Handled.i[j].at
  BY <1>2, <1>4, SaysGood
<1> HIDE DEF a
<1>6. daemon.docs = Session.d.docs
  BY DEF Session
<1>7. CASE daemon.docs[Call.uri].owner # Call.from
  BY <1>1, <1>5, <1>7, SessionParts DEF Good, Sane
<1>8. CASE daemon.docs[Call.uri].owner = Call.from
  <2>1. a.d.docs[Call.uri].owner = Call.from /\ a.i[Call.from].at # "up"
    BY <1>2, <1>3, <1>5, <1>6, <1>8
  <2>2. /\ Sane(c) /\ c.i = a.i
        /\ \A j \in Instances : Told(a, j) => Told(c, j)
        /\ \A other \in Uris, j \in Instances :
             c.d.docs[other].owner = j => a.d.docs[other].owner = j
    BY <1>2, <1>5, <2>1, ForgottenSane DEF Good
  <2>3. SessionIs(c)
    BY <1>1, <1>8
  <2> HIDE DEF c
  <2>4. Alive(c)
    BY <1>5, <2>2 DEF Good, Alive
  <2> QED
    BY <2>2, <2>3, <2>4, SessionParts DEF Good, Sane
<1> QED
  BY <1>7, <1>8

\* A process that has gone is forgotten.
LEMMA NameVanishedGood ==
  ASSUME Good(Session), NameVanished
  PROVE  Good(Session')
<1> DEFINE of == {uri \in Uris : daemon.docs[uri].owner = Call.from}
           u == CHOOSE uri \in of : TRUE
           c == Forgets(Handled, u)
<1>1. /\ DaemonHears("vanished") /\ SessionIs(IF of = {} THEN Handled ELSE c)
  BY DEF NameVanished
<1>2. /\ Call.from \in Instances /\ Call.kind = "vanished"
      /\ RequestSound(Session, Call) /\ Handled.i = Session.i /\ Handled.d.docs = Session.d.docs
      /\ Sane(Handled)
      /\ \A j \in Instances : Told(Session, j) => Told(Handled, j) \/ j = Call.from
  BY <1>1, CallSound
<1>3. Session.i[Call.from].at = "gone"
  BY <1>2 DEF RequestSound
<1>4. of = {uri \in Uris : Handled.d.docs[uri].owner = Call.from}
  BY <1>2 DEF Session
<1>5. CASE of = {}
  <2>1. Alive(Handled)
    BY <1>2, <1>4, <1>5 DEF Good, Alive
  <2> QED
    BY <1>1, <1>2, <1>5, <2>1, SessionParts DEF Good, Sane
<1>6. CASE of # {}
  <2>1. u \in of
    BY <1>6
  <2>2. u \in Uris /\ Handled.d.docs[u].owner = Call.from /\ Handled.i[Call.from].at # "up"
    BY <1>2, <1>3, <1>4, <2>1
  <2>3. SessionIs(c)
    BY <1>1, <1>6
  <2> HIDE DEF of, u
  <2>4. /\ Sane(c) /\ c.i = Handled.i
        /\ \A j \in Instances : Told(Handled, j) => Told(c, j)
        /\ \A other \in Uris, j \in Instances :
             c.d.docs[other].owner = j => Handled.d.docs[other].owner = j /\ j # Call.from
    BY <1>2, <2>2, ForgottenSane
  <2> HIDE DEF c
  <2>5. Alive(c)
    BY <1>2, <2>4 DEF Good, Alive
  <2> QED
    BY <2>3, <2>4, <2>5, SessionParts DEF Good, Sane
<1> QED
  BY <1>5, <1>6

\* A document gets an owner.
LEMMA RegistersTable ==
  ASSUME NEW s, Sane(s), NEW uri \in Uris, NEW i \in Instances, s.d.docs[uri].owner = NoInstance
  PROVE  LET c == Registers(s, uri, i)
         IN  /\ c \in Sessions /\ c.i = s.i /\ c.t = s.t /\ c.d.inbox = s.d.inbox /\ Held(c)
             /\ c.d.docs[uri].owner = i
             /\ \A other \in Uris : other # uri => c.d.docs[other] = s.d.docs[other]
<1> DEFINE h == s.d.holds + 1
           doc == [owner |-> i, subscribed |-> TRUE]
           docs == [s.d.docs EXCEPT ![uri] = doc]
           d == [s.d EXCEPT !.docs = docs, !.holds = h]
           c == Registers(s, uri, i)
           R == Registered(s.d)
<1>1. s \in Sessions /\ s.d \in Daemons
  BY Fields DEF Sane
<1>2. c = [s EXCEPT !.d = d]
  BY <1>1 DEF Registers, Sessions
<1>3. doc \in [owner : Instances \cup {NoInstance}, subscribed : BOOLEAN] /\ doc.owner = i
  OBVIOUS
<1> HIDE DEF doc
<1>4. h \in Int /\ docs \in [Uris -> [owner : Instances \cup {NoInstance}, subscribed : BOOLEAN]]
  BY <1>1, <1>3 DEF Daemons
<1>5. /\ docs[uri].owner = i
      /\ \A other \in Uris : other # uri => docs[other] = s.d.docs[other]
  BY <1>1, <1>3 DEF Daemons
<1> HIDE DEF docs, c
<1>6. d \in Daemons /\ d.docs = docs /\ d.holds = h /\ d.inbox = s.d.inbox
  BY <1>1, <1>4 DEF Daemons
<1> HIDE DEF d
<1>7. c \in Sessions /\ c.d = d /\ c.i = s.i /\ c.t = s.t
  BY <1>1, <1>2, <1>6, PutsDaemon
<1>8. i # NoInstance
  BY DaemonAssumption
<1>9. uri \notin R /\ IsFiniteSet(R) /\ s.d.holds = Cardinality(R)
  BY DEF Sane, Held, Registered
<1>10. Registered(c.d) = R \cup {uri}
  BY <1>5, <1>6, <1>7, <1>8 DEF Registered
<1> HIDE DEF R
<1>11. IsFiniteSet(R \cup {uri}) /\ Cardinality(R \cup {uri}) = Cardinality(R) + 1
  BY <1>9, FS_AddElement
<1>12. c.d.holds = s.d.holds + 1
  BY <1>6, <1>7
<1>13. Held(c)
  BY <1>9, <1>10, <1>11, <1>12 DEF Held
<1> QED
  BY <1>5, <1>6, <1>7, <1>13 DEF c

\* The owner is told so, or has gone.
LEMMA OwnedSane ==
  ASSUME NEW s, Sane(s), NEW uri \in Uris, NEW i \in Instances, s.d.docs[uri].owner = NoInstance,
         OwnsOnly(s, i, uri), NEW c \in Sessions, c.t = s.t, c.d.inbox = s.d.inbox, Held(c),
         c.d.docs[uri].owner = i,
         \A other \in Uris : other # uri => c.d.docs[other] = s.d.docs[other],
         \A j \in Instances : j # i => c.i[j] = s.i[j],
         c.i[i].at = s.i[i].at, c.i[i].uri = s.i[i].uri, ProcessSound(c.i[i]), Known(c, i),
         AnswersKnown(s, c)
  PROVE  Sane(c)
<1>1. \A j \in Instances : Known(s, j) => Known(c, j)
  BY DEF Known
<1>2. NoInstance \notin Instances
  BY DaemonAssumption
<1>3. \A j \in Instances : c.i[j].at = s.i[j].at /\ c.i[j].uri = s.i[j].uri
  OBVIOUS
<1>4. \A other \in Uris, j \in Instances :
        c.d.docs[other].owner = j => \/ other = uri /\ j = i
                                     \/ other # uri /\ s.d.docs[other].owner = j
  OBVIOUS
<1>5. ASSUME NEW j \in Instances, NEW u, OwnsOnly(s, j, u), j = i => u = uri
      PROVE  OwnsOnly(c, j, u)
  BY <1>3, <1>4, <1>5 DEF OwnsOnly
<1>6. RequestsSound(c)
  <2> SUFFICES ASSUME NEW k \in DOMAIN s.d.inbox PROVE RequestSound(c, s.d.inbox[k])
    BY DEF RequestsSound
  <2> DEFINE m == s.d.inbox[k]
  <2>1. m \in Requests /\ RequestSound(s, m)
    BY DEF Sane, RequestsSound, Sessions, Daemons
  <2>2. m.kind = "register" /\ m.from = i => m.uri = uri
    BY DEF OwnsOnly
  <2> HIDE DEF m
  <2>3. m.kind # "find" => m.from \in Instances
    BY <2>1, RequestsFrom
  <2>4. RequestSound(c, m)
    BY <1>3, <1>5, <2>1, <2>2, <2>3 DEF RequestSound
  <2> QED
    BY <2>4 DEF m
<1>7. AnswersSound(c)
  BY <1>1 DEF AnswersKnown, AnswersSound
<1>8. OwnersSound(c)
  <2> SUFFICES ASSUME NEW other \in Uris, NEW j \in Instances, c.d.docs[other].owner = j
               PROVE  Known(c, j) /\ OwnsOnly(c, j, other)
    BY DEF OwnersSound
  <2>1. CASE other = uri /\ j = i
    BY <1>5, <2>1
  <2>2. CASE other # uri /\ s.d.docs[other].owner = j
    <3>1. Known(s, j) /\ OwnsOnly(s, j, other)
      BY <2>2 DEF Sane, OwnersSound
    <3>2. j # i
      BY <2>2 DEF OwnsOnly
    <3> QED
      BY <1>1, <1>5, <3>1, <3>2
  <2> QED
    BY <1>4, <2>1, <2>2
<1>9. Trusted(c)
  <2> SUFFICES ASSUME c.t.faults = 0, NEW j \in Instances, c.i[j].at = "up", Promised(c.i[j])
               PROVE  c.d.docs[c.i[j].uri].owner = j
    BY DEF Trusted
  <2>1. CASE j = i
    BY <2>1 DEF OwnsOnly
  <2>2. CASE j # i
    <3>1. s.d.docs[s.i[j].uri].owner = j /\ s.i[j].uri \in Uris /\ c.i[j].uri = s.i[j].uri
      BY <2>2 DEF Sane, Trusted, ProcessSound
    <3>2. s.i[j].uri # uri
      BY <1>2, <3>1
    <3> QED
      BY <3>1, <3>2
  <2> QED
    BY <2>1, <2>2
<1>10. \A j \in Instances : ProcessSound(c.i[j])
  BY DEF Sane
<1> QED
  BY <1>6, <1>7, <1>8, <1>9, <1>10 DEF Sane

\* A document gets its first owner, or the owner it has is told of.
LEMMA HandleRegisterGood ==
  ASSUME Good(Session), HandleRegister
  PROVE  Good(Session')
<1> DEFINE i == Call.from
           uri == Call.uri
           s == Handled
           owner == daemon.docs[uri].owner
           r == Registers(s, uri, i)
           m == [kind |-> "registered", owner |-> NoInstance]
           c == ToInstance(Watch(r, i), i, m)
<1>1. /\ DaemonHears("register")
      /\ SessionIs(IF owner # NoInstance THEN Reply(s, i, owner) ELSE c)
  BY DEF HandleRegister, Reply
<1>2. /\ i \in Instances /\ uri \in Uris /\ Call.kind = "register" /\ RequestSound(Session, Call)
      /\ s.i = Session.i /\ s.d.docs = Session.d.docs /\ Good(s) /\ OwnsOnly(s, i, uri)
  BY <1>1, CallSound, HandledGood
<1>3. s.i[i].at \in Started
  BY <1>2 DEF RequestSound
<1>4. owner = s.d.docs[uri].owner /\ owner \in Instances \cup {NoInstance}
  BY <1>2 DEF Session, Good, Sane, Sessions, Daemons
<1>5. NoInstance \notin Instances
  BY DaemonAssumption
<1> HIDE DEF i, uri, s, owner
<1>6. CASE owner # NoInstance
  <2> DEFINE a == [kind |-> "registered", owner |-> owner]
             w == ToInstance(s, i, a)
  <2>1. a \in Answers /\ a.kind = "registered" /\ a.owner = owner /\ ~Promise(a)
    BY <1>4, <1>6 DEF Answers, Promise
  <2>2. Known(s, owner)
    BY <1>2, <1>4, <1>6 DEF Good, Sane, OwnersSound
  <2>3. SessionIs(w)
    BY <1>1, <1>6 DEF Reply
  <2> HIDE DEF a
  <2>4. Good(w)
    BY <1>2, <2>1, <2>2, SaysGood
  <2> HIDE DEF w
  <2> QED
    BY <2>3, <2>4, SessionParts DEF Good, Sane
<1>7. CASE owner = NoInstance
  <2>1. /\ r \in Sessions /\ r.i = s.i /\ r.t = s.t /\ r.d.inbox = s.d.inbox /\ Held(r)
        /\ r.d.docs[uri].owner = i
        /\ \A other \in Uris : other # uri => r.d.docs[other] = s.d.docs[other]
    <3>1. Sane(s) /\ s.d.docs[uri].owner = NoInstance
      BY <1>2, <1>4, <1>7 DEF Good
    <3> QED
      BY <1>2, <3>1, RegistersTable
  <2>2. SessionIs(c)
    BY <1>1, <1>7
  <2>3. m \in Answers /\ m.kind = "registered" /\ Promise(m)
    BY DEF Answers, Promise
  <2> HIDE DEF r, m
  <2>4. s.i[i] \in Processes /\ ProcessSound(s.i[i]) /\ Sane(s) /\ Alive(s)
    BY <1>2, Fields DEF Good, Sane
  <2>5. CASE s.i[i].at = "gone"
    <3> DEFINE v == [kind |-> "vanished", from |-> i, uri |-> "none"]
               w == ToDaemon(r, v)
    <3>1. v \in Requests /\ v.kind = "vanished" /\ v.from = i
      BY <1>2 DEF Requests
    <3>2. Watch(r, i) = w
      BY <2>1, <2>5 DEF Watch
    <3> HIDE DEF v
    <3>3. AnswersKnown(s, r)
      BY <2>1, <2>4 DEF Sane, AnswersSound, AnswersKnown
    <3>4. Known(r, i)
      BY <2>1, <2>5 DEF Known
    <3>5. Sane(r)
      <4>1. s.d.docs[uri].owner = NoInstance /\ ProcessSound(r.i[i])
        BY <1>4, <1>7, <2>1, <2>4
      <4> QED
        BY <1>2, <2>1, <2>4, <3>3, <3>4, <4>1, OwnedSane
    <3>6. RequestSound(r, v)
      BY <2>1, <2>5, <3>1 DEF RequestSound, Started
    <3>7. /\ Sane(w) /\ w.i = r.i /\ w.d.docs = r.d.docs /\ Told(w, i)
          /\ \A j \in Instances : Told(r, j) => Told(w, j)
      BY <3>1, <3>5, <3>6, AsksSane
    <3>8. c = w
      BY <2>1, <2>5, <3>2, <3>7 DEF ToInstance
    <3> HIDE DEF w, c
    <3>9. \A j \in Instances : Told(s, j) => Told(r, j)
      BY <2>1 DEF Told
    <3>10. Alive(w)
      <4> SUFFICES ASSUME NEW other \in Uris, NEW j \in Instances,
                          r.d.docs[other].owner = j, r.i[j].at = "gone", j # i
                   PROVE  Told(w, j)
        BY <3>7 DEF Alive
      <4>1. other # uri
        BY <2>1
      <4>2. Told(s, j)
        BY <2>1, <2>4, <4>1 DEF Alive
      <4> QED
        BY <3>7, <3>9, <4>2
    <3> QED
      BY <2>2, <3>7, <3>8, <3>10, SessionParts DEF Good, Sane
  <2>6. CASE s.i[i].at # "gone"
    <3> DEFINE p == r.i[i]
               q == [p EXCEPT !.inbox = Append(p.inbox, m)]
    <3>1. p.at \in {"up", "quitting"} /\ p \in Processes /\ ProcessSound(p) /\ p = s.i[i]
      BY <1>3, <2>1, <2>4, <2>6 DEF Started
    <3>2. Watch(r, i) = r
      BY <2>1, <2>6 DEF Watch
    <3>3. c = [r EXCEPT !.i[i] = q]
      BY <3>1, <3>2 DEF ToInstance
    <3> HIDE DEF p, c
    <3>4. /\ q \in Processes /\ q.at = p.at /\ q.uri = p.uri
          /\ q.doc_registered = p.doc_registered /\ ProcessSound(q)
          /\ Promised(q) <=> (Promised(p) \/ Promise(m))
          /\ \A k \in DOMAIN q.inbox :
               q.inbox[k] = m \/ (k \in DOMAIN p.inbox /\ q.inbox[k] = p.inbox[k])
      <4>1. m \in Answers /\ (m.kind = "reload" => Promised(p))
        BY <2>3
      <4> QED
        BY <3>1, <4>1, AppendsTo
    <3> HIDE DEF q
    <3>5. /\ c \in Sessions /\ c.d = r.d /\ c.t = r.t /\ c.i[i] = q
          /\ \A j \in Instances : j # i => c.i[j] = r.i[j]
      BY <1>2, <2>1, <3>3, <3>4, Puts
    <3>6. Known(c, i)
      BY <2>3, <3>1, <3>4, <3>5 DEF Known
    <3>7. AnswersKnown(s, c)
      <4> SUFFICES ASSUME NEW j \in Instances, NEW o \in Instances, NEW k \in DOMAIN c.i[j].inbox,
                          c.i[j].inbox[k].kind = "registered", c.i[j].inbox[k].owner = o
                   PROVE  Known(s, o)
        BY DEF AnswersKnown
      <4>1. CASE j # i
        BY <2>1, <2>4, <3>5, <4>1 DEF Sane, AnswersSound
      <4>2. CASE j = i
        <5>1. q.inbox[k] # m
          BY <1>5, <2>3, <3>5, <4>2 DEF Promise
        <5>2. k \in DOMAIN s.i[i].inbox /\ s.i[i].inbox[k] = c.i[j].inbox[k]
          BY <3>1, <3>4, <3>5, <4>2, <5>1
        <5> QED
          BY <1>2, <2>4, <5>2 DEF Sane, AnswersSound
      <4> QED
        BY <4>1, <4>2
    <3>8. Held(c)
      BY <2>1, <3>5 DEF Held
    <3>9. /\ c.t = s.t /\ c.d.inbox = s.d.inbox /\ c.d.docs[uri].owner = i
          /\ \A other \in Uris : other # uri => c.d.docs[other] = s.d.docs[other]
          /\ \A j \in Instances : j # i => c.i[j] = s.i[j]
          /\ c.i[i].at = s.i[i].at /\ c.i[i].uri = s.i[i].uri /\ ProcessSound(c.i[i])
      BY <2>1, <3>1, <3>4, <3>5
    <3>10. Sane(c)
      <4>1. s.d.docs[uri].owner = NoInstance /\ c \in Sessions
        BY <1>4, <1>7, <3>5
      <4> QED
        BY <1>2, <2>4, <3>6, <3>7, <3>8, <3>9, <4>1, OwnedSane
    <3>11. Alive(c)
      <4> SUFFICES ASSUME NEW other \in Uris, NEW j \in Instances,
                          c.d.docs[other].owner = j, c.i[j].at = "gone"
                   PROVE  Told(c, j)
        BY DEF Alive
      <4>1. j # i /\ other # uri
        BY <2>6, <3>9
      <4>2. Told(s, j)
        BY <2>4, <3>9, <4>1 DEF Alive
      <4> QED
        BY <3>9, <4>2 DEF Told
    <3> QED
      BY <2>2, <3>10, <3>11, SessionParts DEF Good, Sane
  <2> QED
    BY <2>5, <2>6
<1> QED
  BY <1>6, <1>7

\* Clients are answered.
LEMMA ProcessPendingAside ==
  ASSUME NEW s \in Sessions, NEW uri \in Uris
  PROVE  LET c == ProcessPending(s, uri)
         IN  /\ c \in Sessions /\ c.i = s.i /\ c.t = s.t
             /\ c.d.docs = s.d.docs /\ c.d.holds = s.d.holds /\ c.d.inbox = s.d.inbox
<1> DEFINE pending == [s.d.pending EXCEPT ![uri] = {}]
           d == [s.d EXCEPT !.pending = pending]
           f == [c \in Callers |-> IF c \in s.d.pending[uri]
                                     THEN [s.c[c] EXCEPT !.answered = TRUE] ELSE s.c[c]]
           c == ProcessPending(s, uri)
<1>1. s.d \in Daemons /\ s.c \in [Callers -> Askers]
  BY Fields
<1>2. c = [s EXCEPT !.d = d, !.c = f]
  BY <1>1 DEF ProcessPending, Sessions
<1>3. pending \in [Uris -> SUBSET Callers]
  BY <1>1 DEF Daemons
<1>4. f \in [Callers -> Askers]
  <2> SUFFICES ASSUME NEW j \in Callers
               PROVE  (IF j \in s.d.pending[uri] THEN [s.c[j] EXCEPT !.answered = TRUE]
                       ELSE s.c[j]) \in Askers
    OBVIOUS
  <2>1. s.c[j] \in Askers
    BY <1>1
  <2>2. [s.c[j] EXCEPT !.answered = TRUE] \in Askers
    BY <2>1 DEF Askers
  <2> QED
    BY <2>1, <2>2
<1> HIDE DEF pending, f, c
<1>5. d \in Daemons /\ d.docs = s.d.docs /\ d.holds = s.d.holds /\ d.inbox = s.d.inbox
  BY <1>1, <1>3 DEF Daemons
<1> HIDE DEF d
<1>6. c \in Sessions /\ c.d = d /\ c.i = s.i /\ c.t = s.t
  BY <1>2, <1>4, <1>5 DEF Sessions
<1> QED
  BY <1>5, <1>6 DEF c

\* The clients who wait for a document are answered.
LEMMA DocumentLoadedGood ==
  ASSUME Good(Session), DocumentLoaded
  PROVE  Good(Session')
<1> DEFINE uri == Call.uri
           s == ProcessPending(Handled, uri)
           c == [s EXCEPT !.d.docs[uri].subscribed = FALSE]
<1>1. /\ DaemonHears("loaded")
      /\ SessionIs(IF daemon.docs[uri].owner = NoInstance THEN Handled ELSE c)
  BY DEF DocumentLoaded
<1>2. Good(Handled) /\ Handled \in Sessions /\ uri \in Uris
  BY <1>1, CallSound, HandledGood DEF Sane
<1> HIDE DEF uri
<1>3. /\ s \in Sessions /\ s.i = Handled.i /\ s.t = Handled.t /\ s.d.docs = Handled.d.docs
      /\ s.d.holds = Handled.d.holds /\ s.d.inbox = Handled.d.inbox
  BY <1>2, ProcessPendingAside
<1> HIDE DEF s
<1> DEFINE doc == [s.d.docs[uri] EXCEPT !.subscribed = FALSE]
           docs == [s.d.docs EXCEPT ![uri] = doc]
           d == [s.d EXCEPT !.docs = docs]
<1>4. s.d \in Daemons
  BY <1>3, Fields
<1>5. c = [s EXCEPT !.d = d]
  BY <1>2, <1>3, <1>4 DEF Sessions, Daemons
<1>6. /\ doc \in [owner : Instances \cup {NoInstance}, subscribed : BOOLEAN]
      /\ doc.owner = s.d.docs[uri].owner
  BY <1>2, <1>4 DEF Daemons
<1> HIDE DEF doc, c
<1>7. /\ docs \in [Uris -> [owner : Instances \cup {NoInstance}, subscribed : BOOLEAN]]
      /\ \A other \in Uris : docs[other].owner = s.d.docs[other].owner
  BY <1>2, <1>4, <1>6 DEF Daemons
<1> HIDE DEF docs
<1>8. d \in Daemons /\ d.docs = docs /\ d.holds = s.d.holds /\ d.inbox = s.d.inbox
  BY <1>4, <1>7 DEF Daemons
<1> HIDE DEF d
<1>9. c \in Sessions /\ c.d = d /\ c.i = s.i /\ c.t = s.t
  BY <1>3, <1>5, <1>8, PutsDaemon
<1>10. SameTable(Handled, c) /\ c.i = Handled.i /\ c.d.inbox = Handled.d.inbox
  BY <1>3, <1>7, <1>8, <1>9 DEF SameTable
<1>11. Good(c)
  BY <1>2, <1>9, <1>10, AsideGood
<1>12. CASE daemon.docs[uri].owner = NoInstance
  BY <1>1, <1>2, <1>12, SessionParts
<1>13. CASE daemon.docs[uri].owner # NoInstance
  BY <1>1, <1>9, <1>11, <1>13, SessionParts
<1> QED
  BY <1>12, <1>13

\* A client is answered, waits, or has a process started for it.
LEMMA HandleFindGood ==
  ASSUME Good(Session), HandleFind
  PROVE  Good(Session')
<1> DEFINE uri == Call.uri
           from == Call.from
           s == Handled
           told == [s EXCEPT !.c[from].answered = TRUE]
           waits == [s EXCEPT !.d.pending[uri] = @ \cup {from}]
<1>1. DaemonHears("find")
  BY DEF HandleFind
<1>2. \/ SessionIs(told) \/ SessionIs(waits)
      \/ \E i \in Instances : instances[i].at = "absent" /\ SessionIs(Spawned(waits, i, uri, 1))
  BY DEF HandleFind
<1>3. Good(s) /\ s \in Sessions /\ uri \in Uris /\ from \in Callers /\ s.i = Session.i
  BY <1>1, CallSound, HandledGood DEF Sane
<1> HIDE DEF uri, from, s
<1>4. s.d \in Daemons /\ s.c \in [Callers -> Askers]
  BY <1>3, Fields
<1>5. Good(told)
  <2> DEFINE a == [s.c[from] EXCEPT !.answered = TRUE]
  <2>1. told = [s EXCEPT !.c[from] = a]
    BY <1>3 DEF Sessions
  <2>2. s.c[from] \in Askers
    BY <1>3, <1>4
  <2>3. a \in Askers
    BY <2>2 DEF Askers
  <2> HIDE DEF a, told
  <2>4. told \in Sessions /\ told.i = s.i /\ told.d = s.d /\ told.t = s.t
    BY <1>3, <2>1, <2>3 DEF Sessions
  <2>5. SameTable(s, told)
    BY <2>4 DEF SameTable
  <2> QED
    BY <1>3, <2>4, <2>5, AsideGood
<1>6. Good(waits) /\ waits.i = s.i
  <2> DEFINE set == s.d.pending[uri] \cup {from}
             pending == [s.d.pending EXCEPT ![uri] = set]
             d == [s.d EXCEPT !.pending = pending]
  <2>1. waits = [s EXCEPT !.d = d]
    BY <1>3, <1>4 DEF Sessions, Daemons
  <2>2. set \in SUBSET Callers
    BY <1>3, <1>4 DEF Daemons
  <2> HIDE DEF set, waits
  <2>3. pending \in [Uris -> SUBSET Callers]
    BY <1>4, <2>2 DEF Daemons
  <2> HIDE DEF pending
  <2>4. d \in Daemons /\ d.docs = s.d.docs /\ d.holds = s.d.holds /\ d.inbox = s.d.inbox
    BY <1>4, <2>3 DEF Daemons
  <2> HIDE DEF d
  <2>5. waits \in Sessions /\ waits.d = d /\ waits.i = s.i /\ waits.t = s.t
    BY <1>3, <2>1, <2>4, PutsDaemon
  <2>6. SameTable(s, waits) /\ waits.d.inbox = s.d.inbox
    BY <2>4, <2>5 DEF SameTable
  <2> QED
    BY <1>3, <2>5, <2>6, AsideGood
<1> HIDE DEF told, waits
<1>7. ASSUME NEW i \in Instances, instances[i].at = "absent", SessionIs(Spawned(waits, i, uri, 1))
      PROVE  Good(Session')
  <2>1. waits.i[i].at = "absent"
    BY <1>3, <1>6, <1>7 DEF Session
  <2>2. 1 \in Nat
    OBVIOUS
  <2> DEFINE c == Spawned(waits, i, uri, 1)
  <2>3. Good(c)
    BY <1>3, <1>6, <2>1, <2>2, SpawnedGood
  <2> HIDE DEF c
  <2> QED
    BY <1>7, <2>3, SessionParts DEF c, Good, Sane
<1>8. CASE SessionIs(told)
  BY <1>5, <1>8, SessionParts DEF Good, Sane
<1>9. CASE SessionIs(waits)
  BY <1>6, <1>9, SessionParts DEF Good, Sane
<1> QED
  BY <1>2, <1>7, <1>8, <1>9

\* The daemon ends: every document is forgotten, and whoever waits has an error.
LEMMA EndsParts ==
  ASSUME NEW s, Good(s)
  PROVE  LET c == DaemonEnds(s)
         IN  /\ c \in Sessions /\ c.t = s.t /\ c.d.holds = 0 /\ c.d.inbox = << >>
             /\ \A uri \in Uris : c.d.docs[uri].owner = NoInstance
             /\ \A i \in Instances : Grows(s.i[i], c.i[i]) /\ c.i[i].at = s.i[i].at
             /\ AnswersKnown(s, c)
<1> DEFINE dead == s.d.inbox
           asked == {j \in Callers : \E k \in DOMAIN dead : dead[k].kind = "find" /\ dead[k].from = j}
           waiting == asked \cup UNION {s.d.pending[uri] : uri \in Uris}
           error == [kind |-> "registered", owner |-> "error"]
           done == [kind |-> "unregistered"]
           E1(i) == AnswerEach(Sent(dead, "register", i), error)
           E2(i) == AnswerEach(Sent(dead, "unregister", i), done)
           Errors(i) == E1(i) \o E2(i)
           d == [docs |-> [uri \in Uris |-> NoDoc], pending |-> [uri \in Uris |-> {}],
                 holds |-> 0, inbox |-> << >>]
           After(i) == Receives(s.i[i], Errors(i))
           f == [i \in Instances |-> After(i)]
           g == [j \in Callers |-> IF j \in waiting THEN [s.c[j] EXCEPT !.answered = TRUE]
                                   ELSE s.c[j]]
           c == DaemonEnds(s)
<1>1. s \in Sessions /\ s.c \in [Callers -> Askers] /\ dead \in Seq(Requests)
  BY Fields DEF Good, Sane
<1>2. c = [s EXCEPT !.d = d, !.i = f, !.c = g]
  BY <1>1 DEF DaemonEnds, Sessions
<1> HIDE DEF c
<1>3. /\ d \in Daemons /\ d.holds = 0 /\ d.inbox = << >>
      /\ \A uri \in Uris : d.docs[uri].owner = NoInstance
  <2>1. [uri \in Uris |-> NoDoc] \in [Uris -> [owner : Instances \cup {NoInstance}, subscribed : BOOLEAN]]
    BY DEF NoDoc
  <2>2. [uri \in Uris |-> {}] \in [Uris -> SUBSET Callers]
    OBVIOUS
  <2>3. << >> \in Seq(Requests)
    OBVIOUS
  <2>4. \A uri \in Uris : d.docs[uri].owner = NoInstance
    BY DEF NoDoc
  <2> QED
    BY <2>1, <2>2, <2>3, <2>4 DEF Daemons
<1> HIDE DEF d
<1>4. error \in Answers /\ done \in Answers
  BY DEF Answers
<1>5. ASSUME NEW i \in Instances
      PROVE  /\ Errors(i) \in Seq(Answers)
             /\ \A k \in DOMAIN Errors(i) : Errors(i)[k] \in {error, done}
  <2> DEFINE a == E1(i)
             b == E2(i)
  <2> HIDE DEF error, done
  <2>1. a \in Seq(Answers) /\ \A k \in DOMAIN a : a[k] = error
    BY <1>1, <1>4, FewSent, AnswersEach
  <2>2. b \in Seq(Answers) /\ \A k \in DOMAIN b : b[k] = done
    BY <1>1, <1>4, FewSent, AnswersEach
  <2> HIDE DEF a, b
  <2>3. a \o b \in Seq(Answers) /\ Len(a) \in Nat /\ Len(b) \in Nat
    BY <2>1, <2>2
  <2>4. \A k \in DOMAIN (a \o b) : (a \o b)[k] \in {error, done}
    <3> SUFFICES ASSUME NEW k \in DOMAIN (a \o b) PROVE (a \o b)[k] \in {error, done}
      OBVIOUS
    <3>1. k \in 1 .. (Len(a) + Len(b)) /\ DOMAIN a = 1 .. Len(a) /\ DOMAIN b = 1 .. Len(b)
      BY <2>1, <2>2
    <3>2. CASE k <= Len(a)
      <4>1. (a \o b)[k] = a[k] /\ k \in DOMAIN a
        BY <2>1, <2>2, <2>3, <3>1, <3>2
      <4> QED
        BY <2>1, <4>1
    <3>3. CASE k > Len(a)
      <4>1. (a \o b)[k] = b[k - Len(a)] /\ k - Len(a) \in DOMAIN b
        BY <2>1, <2>2, <2>3, <3>1, <3>3
      <4> QED
        BY <2>2, <4>1
    <3> QED
      BY <2>3, <3>1, <3>2, <3>3
  <2> QED
    BY <2>3, <2>4 DEF a, b
<1>6. ASSUME NEW i \in Instances
      PROVE  /\ After(i) \in Processes /\ After(i).at = s.i[i].at /\ Grows(s.i[i], After(i))
             /\ \A k \in DOMAIN After(i).inbox, owner \in Instances :
                  After(i).inbox[k].kind = "registered" /\ After(i).inbox[k].owner = owner =>
                    k \in DOMAIN s.i[i].inbox /\ After(i).inbox[k] = s.i[i].inbox[k]
  <2> DEFINE p == s.i[i]
             t == Errors(i)
             q == Receives(p, t)
  <2>1. p \in Processes /\ ProcessSound(p)
    BY <1>1, Fields DEF Good, Sane
  <2>2. t \in Seq(Answers) /\ \A k \in DOMAIN t : t[k] \in {error, done}
    BY <1>5
  <2>3. After(i) = q /\ s.i[i] = p
    OBVIOUS
  <2> HIDE DEF t, p, After
  <2>4. \A k \in DOMAIN t : /\ t[k].kind # "reload"
                            /\ t[k].kind = "registered" => t[k].owner = "error"
    BY <2>2
  <2>5. /\ q \in Processes /\ q.at = p.at /\ Grows(p, q)
        /\ \A k \in DOMAIN q.inbox, owner \in Instances :
             q.inbox[k].kind = "registered" /\ q.inbox[k].owner = owner =>
               k \in DOMAIN p.inbox /\ q.inbox[k] = p.inbox[k]
    BY <2>1, <2>2, <2>4, AppendsMany
  <2> HIDE DEF q
  <2> QED
    BY <2>3, <2>5
<1> HIDE DEF After, error, done
<1>7. f \in [Instances -> Processes] /\ \A i \in Instances : f[i] = After(i)
  BY <1>6
<1>8. g \in [Callers -> Askers]
  <2> SUFFICES ASSUME NEW j \in Callers
               PROVE  (IF j \in waiting THEN [s.c[j] EXCEPT !.answered = TRUE] ELSE s.c[j]) \in Askers
    OBVIOUS
  <2>1. s.c[j] \in Askers
    BY <1>1
  <2>2. [s.c[j] EXCEPT !.answered = TRUE] \in Askers
    BY <2>1 DEF Askers
  <2> QED
    BY <2>1, <2>2
<1> HIDE DEF f, g
<1>9. c \in Sessions /\ c.d = d /\ c.i = f /\ c.t = s.t
  BY <1>1, <1>2, <1>3, <1>7, <1>8 DEF Sessions
<1>10. \A i \in Instances : Grows(s.i[i], c.i[i]) /\ c.i[i].at = s.i[i].at
  BY <1>6, <1>7, <1>9
<1>11. AnswersKnown(s, c)
  <2> SUFFICES ASSUME NEW i \in Instances, NEW owner \in Instances, NEW k \in DOMAIN c.i[i].inbox,
                      c.i[i].inbox[k].kind = "registered", c.i[i].inbox[k].owner = owner
               PROVE  Known(s, owner)
    BY DEF AnswersKnown
  <2>1. k \in DOMAIN s.i[i].inbox /\ c.i[i].inbox[k] = s.i[i].inbox[k]
    BY <1>6, <1>7, <1>9
  <2> QED
    BY <2>1 DEF Good, Sane, AnswersSound
<1> QED
  BY <1>3, <1>9, <1>10, <1>11 DEF c

\* A daemon that was killed, or had no document.
LEMMA EndsGood ==
  ASSUME NEW s, Good(s), NEW c \in Sessions, c.d.holds = 0, c.d.inbox = << >>,
         \A uri \in Uris : c.d.docs[uri].owner = NoInstance,
         \A i \in Instances : Grows(s.i[i], c.i[i]), AnswersKnown(s, c),
         c.t.faults # 0 \/ (Registered(s.d) = {} /\ c.t.faults = s.t.faults)
  PROVE  Good(c)
<1>1. NoInstance \notin Instances
  BY DaemonAssumption
<1>2. \A i \in Instances : Known(s, i) => Known(c, i)
  BY GrowsKnown
<1>3. RequestsSound(c)
  BY DEF RequestsSound
<1>4. AnswersSound(c)
  BY <1>2 DEF AnswersKnown, AnswersSound
<1>5. OwnersSound(c) /\ Alive(c)
  BY <1>1 DEF OwnersSound, Alive
<1>6. Trusted(c)
  <2> SUFFICES ASSUME c.t.faults = 0, NEW i \in Instances, c.i[i].at = "up", Promised(c.i[i])
               PROVE  FALSE
    BY DEF Trusted
  <2>1. Grows(s.i[i], c.i[i]) /\ ProcessSound(s.i[i])
    BY DEF Good, Sane
  <2>2. s.i[i].at = "up" /\ Promised(s.i[i]) /\ s.i[i].uri \in Uris
    BY <2>1 DEF Grows, ProcessSound
  <2>3. s.d.docs[s.i[i].uri].owner = i
    BY <2>2 DEF Good, Sane, Trusted
  <2> QED
    BY <1>1, <2>2, <2>3 DEF Registered
<1>7. Held(c)
  <2>1. Registered(c.d) = {}
    BY DEF Registered
  <2> QED
    BY <2>1, FS_EmptySet DEF Held
<1>8. \A i \in Instances : ProcessSound(c.i[i])
  BY DEF Grows
<1> QED
  BY <1>3, <1>4, <1>5, <1>6, <1>7, <1>8 DEF Good, Sane

\* The daemon ends after its time of inactivity: it has no document then.
LEMMA DaemonTimeoutGood ==
  ASSUME Good(Session), DaemonTimeout
  PROVE  Good(Session')
<1> DEFINE c == DaemonEnds(Session)
<1>1. Session.d.holds = 0 /\ SessionIs(c)
  BY DEF DaemonTimeout, Session
<1>2. /\ c \in Sessions /\ c.t = Session.t /\ c.d.holds = 0 /\ c.d.inbox = << >>
      /\ \A uri \in Uris : c.d.docs[uri].owner = NoInstance
      /\ \A i \in Instances : Grows(Session.i[i], c.i[i]) /\ c.i[i].at = Session.i[i].at
      /\ AnswersKnown(Session, c)
  BY EndsParts
<1>3. Registered(Session.d) = {}
  BY <1>1, FS_EmptySet DEF Good, Sane, Held
<1> HIDE DEF c
<1>4. Good(c)
  BY <1>2, <1>3, EndsGood
<1> QED
  BY <1>1, <1>2, <1>4, SessionParts

\* The daemon is killed: from now on nothing is said of who is registered.
LEMMA DaemonKilledGood ==
  ASSUME Good(Session), DaemonKilled
  PROVE  Good(Session')
<1> DEFINE e == DaemonEnds(Opened)
           c == [e EXCEPT !.t.faults = @ + 1]
<1>1. SessionIs(c)
  BY DEF DaemonKilled
<1>2. Good(Opened)
  BY OpenedGood
<1>3. /\ e \in Sessions /\ e.d.holds = 0 /\ e.d.inbox = << >>
      /\ \A uri \in Uris : e.d.docs[uri].owner = NoInstance
      /\ \A i \in Instances : Grows(Opened.i[i], e.i[i])
      /\ AnswersKnown(Opened, e)
  BY <1>2, EndsParts
<1> HIDE DEF e
<1>4. c \in Sessions /\ c.d = e.d /\ c.i = e.i /\ c.t.faults = e.t.faults + 1 /\ e.t.faults \in Nat
  BY <1>3 DEF Sessions
<1> HIDE DEF c
<1>5. AnswersKnown(Opened, c) /\ c.t.faults # 0
  BY <1>3, <1>4 DEF AnswersKnown
<1>6. Good(c)
  BY <1>2, <1>3, <1>4, <1>5, EndsGood
<1> QED
  BY <1>1, <1>4, <1>6, SessionParts

-----------------------------------------------------------------------------
(* The daemon and the processes together.                                  *)

\* The invariant holds when nobody has started.
LEMMA DaemonInitGood ==
  ASSUME DaemonInit
  PROVE  Good(Session)
<1> DEFINE s == Session
<1>1. /\ s.d = [docs |-> [uri \in Uris |-> NoDoc], pending |-> [uri \in Uris |-> {}],
                holds |-> 0, inbox |-> << >>]
      /\ s.i = [i \in Instances |-> NoProcess]
      /\ s.c = [c \in Callers |-> [uri |-> "none", spawn |-> FALSE, answered |-> FALSE]]
      /\ s.t = [calls |-> 0, faults |-> 0]
      /\ s = [d |-> s.d, i |-> s.i, c |-> s.c, t |-> s.t]
  BY DEF DaemonInit, Session
<1> HIDE DEF s
<1>2. s.d \in Daemons
  <2>1. [uri \in Uris |-> NoDoc] \in [Uris -> [owner : Instances \cup {NoInstance}, subscribed : BOOLEAN]]
    BY DEF NoDoc
  <2>2. [uri \in Uris |-> {}] \in [Uris -> SUBSET Callers] /\ << >> \in Seq(Requests)
    OBVIOUS
  <2> QED
    BY <1>1, <2>1, <2>2 DEF Daemons
<1>3. NoProcess \in Processes /\ NoProcess.at = "absent" /\ NoProcess.inbox = << >>
      /\ ~NoProcess.doc_registered /\ ~NoProcess.served
  BY DEF NoProcess, Process, Processes
<1>4. s.c \in [Callers -> Askers]
  BY <1>1 DEF Askers
<1>5. s.t \in [calls : Nat, faults : Nat] /\ s.i \in [Instances -> Processes]
  BY <1>1, <1>3
<1>6. s \in Sessions
  BY <1>1, <1>2, <1>4, <1>5 DEF Sessions
<1>7. \A i \in Instances : /\ s.i[i].at = "absent" /\ s.i[i].inbox = << >>
                           /\ ~s.i[i].doc_registered /\ ~s.i[i].served
  BY <1>1, <1>3
<1>8. s.d.inbox = << >> /\ s.d.holds = 0 /\ \A uri \in Uris : s.d.docs[uri].owner = NoInstance
  BY <1>1 DEF NoDoc
<1>9. NoInstance \notin Instances
  BY DaemonAssumption
<1>10. \A i \in Instances : ProcessSound(s.i[i])
  BY <1>7 DEF ProcessSound
<1>11. RequestsSound(s)
  BY <1>8 DEF RequestsSound
<1>12. AnswersSound(s)
  BY <1>7 DEF AnswersSound
<1>13. OwnersSound(s) /\ Alive(s)
  BY <1>8, <1>9 DEF OwnersSound, Alive
<1>14. Trusted(s)
  BY <1>7 DEF Trusted
<1>15. Held(s)
  <2>1. Registered(s.d) = {}
    BY <1>8 DEF Registered
  <2> QED
    BY <1>8, <2>1, FS_EmptySet DEF Held
<1>16. Good(s)
  BY <1>6, <1>10, <1>11, <1>12, <1>13, <1>14, <1>15 DEF Good, Sane
<1> QED
  BY <1>16 DEF s

\* Every step keeps the invariant.
LEMMA DaemonNextGood ==
  ASSUME Good(Session), [DaemonNext]_daemonVars
  PROVE  Good(Session')
<1>1. CASE UserOpens
  BY <1>1, StartEvinceGood, OpenAgainGood, CloseWindowGood, CrashGood, FindDocumentGood
  DEF UserOpens
<1>2. CASE ProcessWork
  BY <1>2, StartupGood, OnRegisterUriGood, HandleReloadGood, OnReloadGood, UnregisteredGood,
     DocumentLoadsGood DEF ProcessWork
<1>3. CASE DaemonWork
  BY <1>3, HandleRegisterGood, HandleUnregisterGood, NameVanishedGood, DocumentLoadedGood,
     HandleFindGood DEF DaemonWork
<1>4. CASE DaemonTimeout
  BY <1>4, DaemonTimeoutGood
<1>5. CASE DaemonKilled
  BY <1>5, DaemonKilledGood
<1>6. CASE UNCHANGED daemonVars
  <2>1. Session' = Session
    BY <1>6 DEF Session, daemonVars
  <2> QED
    BY <2>1
<1> QED
  BY <1>1, <1>2, <1>3, <1>4, <1>5, <1>6 DEF DaemonNext

\* The invariant implies the property.
LEMMA GoodOwners ==
  ASSUME Good(Session)
  PROVE  DocumentsHaveOneOwner
<1> DEFINE s == Session
<1>1. daemon = s.d /\ instances = s.i /\ desktop = s.t
  BY DEF Session
<1> HIDE DEF s
<1>2. Good(s) /\ s \in Sessions /\ s.d \in Daemons
  BY Fields DEF s, Good, Sane
<1>3. OwnerIsKnown
  BY <1>1, <1>2 DEF OwnerIsKnown, Good, Sane, Trusted, Promised
<1>4. OwnerIsAlive
  <2> SUFFICES ASSUME NEW uri \in Uris, daemon.docs[uri].owner # NoInstance,
                      instances[daemon.docs[uri].owner].at = "gone"
               PROVE  Told(s, daemon.docs[uri].owner)
    BY <1>1 DEF OwnerIsAlive, Told
  <2>1. s.d.docs[uri].owner \in Instances
    BY <1>1, <1>2 DEF Daemons
  <2> QED
    BY <1>1, <1>2, <2>1 DEF Good, Alive
<1>5. HeldForDocuments
  BY <1>1, <1>2 DEF HeldForDocuments, Good, Sane, Held
<1>6. HandedToOwner
  BY <1>1, <1>2 DEF HandedToOwner, Good, Sane, ProcessSound
<1> QED
  BY <1>3, <1>4, <1>5, <1>6 DEF DocumentsHaveOneOwner

\* Whatever the processes, the clients and the daemon do, and in whatever order D-Bus
\* brings their messages: while no daemon was killed a process that believes its document
\* registered is the one the daemon knows, so that no two have one document; the daemon
\* is told of an owner that has gone; it is held once for every document it knows; and
\* a document is handed over to nobody who has not registered it.
THEOREM OneOwnerOfDocuments == DaemonSpec => []DocumentsHaveOneOwner
<1>1. DaemonInit => Good(Session)
  BY DaemonInitGood
<1>2. Good(Session) /\ [DaemonNext]_daemonVars => Good(Session)'
  BY DaemonNextGood
<1>3. Good(Session) => DocumentsHaveOneOwner
  BY GoodOwners
<1> QED
  BY <1>1, <1>2, <1>3, PTL DEF DaemonSpec

=============================================================================
