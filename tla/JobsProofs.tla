------------------------------- MODULE JobsProofs -------------------------------
(***************************************************************************)
(* Theorems about a job, its locks and its files, and about the three of   *)
(* them together (MCJobs), for every value of the constants.               *)
(*                                                                         *)
(* EvJob, for any number of runs and any ends of a run: its types, how     *)
(* often each signal is emitted, that a settled cancel stays silent, and   *)
(* that who is told "finished" reads the flags of that run although the    *)
(* two threads overwrite each other's stores.                              *)
(*                                                                         *)
(* DocumentLocks, for any number of thread jobs and any number of pages or *)
(* batches: its types, who holds each mutex at each place of the two       *)
(* threads, that the main loop is never entered with a mutex, and that an  *)
(* entry of the scheduler has the source that ends it.                     *)
(*                                                                         *)
(* DocumentFiles, for any files that may be opened and any programs that   *)
(* may be installed: its types, that the factory keeps its word, and that  *)
(* a temporary file has an owner as long as it exists, unless a call that  *)
(* leaves files behind was made.                                           *)
(***************************************************************************)
EXTENDS MCJobs, DocumentLocks, EvJobSchedulerProofs, FiniteSetTheorems, TLAPS

(***************************************************************************)
(* A job.                                                                  *)
(***************************************************************************)
-----------------------------------------------------------------------------
(* Counting signals.                                                       *)

Count(s, signal) == Cardinality({i \in DOMAIN s : s[i] = signal})

\* An emission adds one to the number of its signal and to no other.
LEMMA CountAppend ==
  ASSUME NEW S, NEW s \in Seq(S), NEW e \in S, NEW signal
  PROVE  /\ Count(s, signal) \in Nat
         /\ Count(Append(s, e), signal) =
              IF e = signal THEN Count(s, signal) + 1 ELSE Count(s, signal)
<1> DEFINE old == {i \in 1 .. Len(s) : s[i] = signal}
           new == {i \in 1 .. (Len(s) + 1) : Append(s, e)[i] = signal}
<1>1. Count(s, signal) = Cardinality(old) /\ Count(Append(s, e), signal) = Cardinality(new)
  <2>1. DOMAIN s = 1 .. Len(s)
    OBVIOUS
  <2>2. Append(s, e) \in Seq(S) /\ Len(Append(s, e)) = Len(s) + 1
    OBVIOUS
  <2>3. DOMAIN Append(s, e) = 1 .. (Len(s) + 1)
    BY <2>2
  <2> QED
    BY <2>1, <2>3 DEF Count
<1>2. IsFiniteSet(old) /\ Cardinality(old) \in Nat
  <2>1. IsFiniteSet(1 .. Len(s))
    BY FS_Interval
  <2> QED
    BY <2>1, FS_Subset, FS_CardinalityType
<1>3. Len(s) + 1 \notin old
  OBVIOUS
<1>4. CASE e = signal
  <2>1. new = old \union {Len(s) + 1}
    BY <1>4
  <2> HIDE DEF old, new
  <2>2. Cardinality(new) = Cardinality(old) + 1
    BY <1>2, <1>3, <2>1, FS_AddElement
  <2> QED
    BY <1>1, <1>2, <1>4, <2>2
<1>5. CASE e # signal
  <2>1. new = old
    BY <1>5
  <2> QED
    BY <1>1, <1>2, <1>5, <2>1
<1> QED
  BY <1>4, <1>5, <1>1, <1>2

\* The three bits of the word are bits.
LEMMA BitsAreBits == /\ "cancelled" \in Bits /\ "finished" \in Bits /\ "failed" \in Bits
BY DEF Bits

\* What a store writes, for each of the three places of the worker.
LEMMA ChangeOf ==
  ASSUME NEW word
  PROVE  /\ Change(word, "clear") = word \ {"finished", "failed"}
         /\ Change(word, "mark") = IF outcome = "error" THEN word \union {"failed"}
                                                        ELSE word \ {"failed"}
         /\ Change(word, "finish") = word \union {"finished"}
         /\ Following("clear") = "run" /\ Following("mark") = "test"
         /\ Following("finish") = "add"
BY DEF Change, Following

-----------------------------------------------------------------------------
(* Types.                                                                  *)

\* A job that was just made has its types.
LEMMA JobTypeInit == JobInit => JobTypeOK
<1> SUFFICES ASSUME JobInit PROVE JobTypeOK
  OBVIOUS
<1> USE JobAssumption DEF JobInit
<1>1. told \in Seq({"finished", "cancelled"}) /\ bits \subseteq Bits /\ idle \subseteq 1 .. MaxRuns
  OBVIOUS
<1>2. cancellable \in BOOLEAN /\ queued \in BOOLEAN
  OBVIOUS
<1>3. idle_finished_id \in 0 .. MaxRuns /\ runs \in 0 .. MaxRuns /\ wrun \in 0 .. MaxRuns
  OBVIOUS
<1>4. /\ tpc \in {"off", "clear", "run", "mark", "test", "finish", "add", "assign"}
      /\ outcome \in {"ok", "error", "silent"}
      /\ cpc \in {"loop", "set", "trigger", "finished", "id", "emit"}
  OBVIOUS
<1>5. wword \in (SUBSET Bits) \union {NoWord} /\ mword \in (SUBSET Bits) \union {NoWord}
  OBVIOUS
<1> QED
  BY <1>1, <1>2, <1>3, <1>4, <1>5 DEF JobTypeOK

\* mword is the word that was read while ev_job_cancel is about to write it
\* back, no store of the worker is under way elsewhere, and a run is one of
\* the pushes.
WordsInHand ==
  /\ cpc = "set" => mword \in SUBSET Bits
  /\ queued => runs > 0
  /\ tpc # "off" => wrun > 0
  /\ tpc \notin {"clear", "mark", "finish"} => wword = NoWord

\* The types of a job, and that the words its threads hold are words.
JobShape == JobTypeOK /\ WordsInHand

\* Every step keeps the types.
LEMMA JobShapeStep == JobShape /\ [JobNext]_jobVars => JobShape'
<1> SUFFICES ASSUME JobShape, [JobNext]_jobVars PROVE JobShape'
  OBVIOUS
<1> USE JobAssumption DEF JobShape, JobTypeOK, WordsInHand
<1>1. CASE PushJob
  BY <1>1 DEF PushJob, threadVars, cancelVars
<1>2. ASSUME NEW id \in 1 .. MaxRuns, EmitFinished(id)
      PROVE  JobShape'
  BY <1>2 DEF EmitFinished, threadVars, cancelVars
<1>3. CASE CancelRead
  BY <1>3 DEF CancelRead, threadVars
<1>4. CASE CancelWrite
  <2>1. bits' \in SUBSET Bits
    BY <1>4, BitsAreBits DEF CancelWrite
  <2> QED
    BY <1>4, <2>1 DEF CancelWrite, threadVars
<1>5. CASE CancelTrigger \/ CancelFinished \/ CancelId
  <2>1. CASE CancelTrigger
    BY <2>1 DEF CancelTrigger, threadVars
  <2>2. CASE CancelFinished
    BY <2>2 DEF CancelFinished, threadVars
  <2>3. CASE CancelId
    BY <2>3 DEF CancelId, threadVars
  <2> QED
    BY <1>5, <2>1, <2>2, <2>3
<1>6. CASE CancelEmit
  <2>1. told' \in Seq({"finished", "cancelled"})
    BY <1>6 DEF CancelEmit
  <2> QED
    BY <1>6, <2>1 DEF CancelEmit, threadVars
<1>7. CASE ReadWord
  BY <1>7 DEF ReadWord, cancelVars
<1>8. CASE WriteWord
  <2>1. wword \in SUBSET Bits /\ tpc \in {"clear", "mark", "finish"}
    BY <1>8 DEF WriteWord
  <2>2. Change(wword, tpc) \in SUBSET Bits
    <3>1. CASE tpc = "clear"
      BY <2>1, <3>1, ChangeOf
    <3>2. CASE tpc = "mark"
      BY <2>1, <3>2, ChangeOf, BitsAreBits
    <3>3. CASE tpc = "finish"
      BY <2>1, <3>3, ChangeOf, BitsAreBits
    <3> QED
      BY <2>1, <3>1, <3>2, <3>3
  <2>3. Following(tpc) \in {"run", "test", "add"}
    BY <2>1, ChangeOf
  <2> QED
    BY <1>8, <2>2, <2>3 DEF WriteWord, cancelVars
<1>9. CASE Start \/ Test \/ AddIdle \/ Assign
  <2>1. CASE Start
    BY <2>1 DEF Start, cancelVars
  <2>2. CASE Test
    BY <2>2 DEF Test, cancelVars
  <2>3. CASE AddIdle
    <3>1. idle' \subseteq 1 .. MaxRuns
      BY <2>3 DEF AddIdle
    <3> QED
      BY <2>3, <3>1 DEF AddIdle, cancelVars
  <2>4. CASE Assign
    BY <2>4 DEF Assign, cancelVars
  <2> QED
    BY <1>9, <2>1, <2>2, <2>3, <2>4
<1>10. ASSUME NEW o \in {"ok", "error", "silent"}, Run(o)
       PROVE  JobShape'
  BY <1>10 DEF Run, cancelVars
<1>11. CASE UNCHANGED jobVars
  BY <1>11 DEF jobVars, threadVars, cancelVars
<1> QED
  BY <1>1, <1>2, <1>3, <1>4, <1>5, <1>6, <1>7, <1>8, <1>9, <1>10, <1>11
  DEF JobNext, CancelReturns, MainLoop, JobThread

\* The types hold in every state.
LEMMA JobShapeAlways == JobSpec => []JobShape
<1>1. JobInit => JobShape
  BY JobTypeInit DEF JobShape, WordsInHand, JobInit
<1> QED
  BY <1>1, JobShapeStep, PTL DEF JobSpec

\* The flags, the source and its id, and the places of both threads keep their
\* types for any number of runs.
THEOREM JobTypeCorrect == JobSpec => []JobTypeOK
<1>1. JobShape => JobTypeOK
  BY DEF JobShape
<1> QED
  BY <1>1, JobShapeAlways, PTL

-----------------------------------------------------------------------------
(* How often a signal is emitted.                                          *)

\* What a step does to the counts.
LEMMA TimesOfStep ==
  ASSUME JobTypeOK
  PROVE  /\ Times("finished") \in Nat /\ Times("cancelled") \in Nat
         /\ told' = told =>
              Times("finished")' = Times("finished") /\ Times("cancelled")' = Times("cancelled")
         /\ told' = Append(told, "finished") =>
              Times("finished")' = Times("finished") + 1 /\ Times("cancelled")' = Times("cancelled")
         /\ told' = Append(told, "cancelled") =>
              Times("finished")' = Times("finished") /\ Times("cancelled")' = Times("cancelled") + 1
<1>1. told \in Seq({"finished", "cancelled"})
  BY DEF JobTypeOK
<1>2. /\ Times("finished") = Count(told, "finished")
      /\ Times("cancelled") = Count(told, "cancelled")
      /\ Times("finished")' = Count(told', "finished")
      /\ Times("cancelled")' = Count(told', "cancelled")
  BY DEF Times, Count
<1>3. ASSUME NEW e \in {"finished", "cancelled"}, NEW signal
      PROVE  /\ Count(told, signal) \in Nat
             /\ Count(Append(told, e), signal) =
                  IF e = signal THEN Count(told, signal) + 1 ELSE Count(told, signal)
  BY <1>1, <1>3, CountAppend
<1> QED
  BY <1>2, <1>3

\* The run pushed last has not been told of.
Pending == Times("finished") + 1 = runs

\* The places of the worker from taking the job to adding the idle source.
OnItsWay == {"clear", "run", "mark", "test", "finish", "add"}

\* A job is pushed again only when it was told of, so that a run, the notice of
\* a run and an entry in the queue exclude each other.
RunsInTurn ==
  /\ runs = Times("finished") \/ Pending
  /\ queued \/ tpc \in OnItsWay \/ idle # {} => Pending
  /\ queued => tpc \notin OnItsWay /\ idle = {}
  /\ tpc \in OnItsWay => idle = {} /\ wrun = runs
  /\ idle \subseteq {runs}

\* ev_job_cancel is under way.
Begun == IF cpc # "loop" THEN 1 ELSE 0

\* The bit is not there for the next call to find, and none is about to set it.
BitMissing == IF "cancelled" \notin bits /\ cpc # "set" THEN 1 ELSE 0

\* How many stores the worker still makes once the cancellable is set: the test of
\* ev_job_emit_finished stops it between the second and the third.
StoresLeft ==
  IF tpc = "clear" THEN 2 ELSE IF tpc \in {"run", "mark", "finish"} THEN 1 ELSE 0

\* ev_job_cancel gets past its first test again only when a store of the worker has
\* undone the bit, and the worker of a cancelled job has few stores left.
FewCancels ==
  /\ cancellable =>
       ~queued /\ Times("cancelled") + Begun + BitMissing + StoresLeft <= 3
  /\ ~cancellable => Times("cancelled") = 0 /\ cpc \in {"loop", "set", "trigger"}
  /\ ~cancellable /\ cpc = "trigger" /\ "cancelled" \notin bits => tpc # "clear" /\ ~queued

\* A job runs in turn and is cancelled a few times at most.
JobTurns == JobShape /\ RunsInTurn /\ FewCancels

\* Every step keeps the turns.
LEMMA RunsInTurnStep == JobShape /\ RunsInTurn /\ JobShape' /\ [JobNext]_jobVars => RunsInTurn'
<1> SUFFICES ASSUME JobShape, RunsInTurn, JobShape', [JobNext]_jobVars
             PROVE  RunsInTurn'
  OBVIOUS
<1> DEFINE fin == Times("finished")
           Goal == /\ runs' = fin' \/ fin' + 1 = runs'
                   /\ queued' \/ tpc' \in OnItsWay \/ idle' # {} => fin' + 1 = runs'
                   /\ queued' => tpc' \notin OnItsWay /\ idle' = {}
                   /\ tpc' \in OnItsWay => idle' = {} /\ wrun' = runs'
                   /\ idle' \subseteq {runs'}
<1>1. /\ fin \in Nat
      /\ told' = told => fin' = fin
      /\ told' = Append(told, "finished") => fin' = fin + 1
      /\ told' = Append(told, "cancelled") => fin' = fin
  BY TimesOfStep DEF JobShape
<1>2. runs \in Nat
  BY JobAssumption DEF JobShape, JobTypeOK
<1>3. /\ runs = fin \/ fin + 1 = runs
      /\ queued \/ tpc \in OnItsWay \/ idle # {} => fin + 1 = runs
      /\ queued => tpc \notin OnItsWay /\ idle = {}
      /\ tpc \in OnItsWay => idle = {} /\ wrun = runs
      /\ idle \subseteq {runs}
  BY DEF RunsInTurn, Pending
<1> SUFFICES Goal
  BY DEF RunsInTurn, Pending
<1> HIDE DEF fin
<1> USE DEF OnItsWay
<1>5. CASE PushJob
  BY <1>1, <1>2, <1>3, <1>5 DEF PushJob, threadVars, cancelVars, fin
<1>6. ASSUME NEW id \in 1 .. MaxRuns, EmitFinished(id)
      PROVE  Goal
  <2>1. /\ idle = {id} /\ idle' = {} /\ fin + 1 = runs /\ id = runs
        /\ ~queued /\ tpc \notin OnItsWay
        /\ UNCHANGED <<runs, queued, tpc, wrun>>
    BY <1>3, <1>6 DEF EmitFinished, threadVars, cancelVars
  <2>2. told' = told \/ told' = Append(told, "finished")
    BY <1>6 DEF EmitFinished
  <2> QED
    BY <1>1, <1>2, <2>1, <2>2
<1>7. CASE CancelRead \/ CancelReturns
  <2>1. /\ UNCHANGED <<idle, runs, tpc, wrun>> /\ (queued' => queued)
        /\ told' = told \/ told' = Append(told, "cancelled")
    <3>1. CASE CancelTrigger
      BY <3>1 DEF CancelTrigger, threadVars
    <3>2. CASE CancelRead \/ CancelWrite
      BY <3>2 DEF CancelRead, CancelWrite, threadVars
    <3>3. CASE CancelFinished \/ CancelId \/ CancelEmit
      BY <3>3 DEF CancelFinished, CancelId, CancelEmit, threadVars
    <3> QED
      BY <1>7, <3>1, <3>2, <3>3 DEF CancelReturns
  <2> QED
    BY <1>1, <1>2, <1>3, <2>1
<1>10. CASE ReadWord
  BY <1>1, <1>2, <1>3, <1>10 DEF ReadWord, cancelVars
<1>11. CASE WriteWord
  <2>1. tpc \in OnItsWay
    BY <1>11 DEF WriteWord
  <2>2. tpc' \in OnItsWay /\ UNCHANGED <<idle, runs, queued, wrun, told>>
    BY <1>11, ChangeOf DEF WriteWord, cancelVars
  <2> QED
    BY <1>1, <1>2, <1>3, <2>1, <2>2
<1>12. CASE Start
  BY <1>1, <1>2, <1>3, <1>12 DEF Start, cancelVars
<1>13. ASSUME NEW o, Run(o)
       PROVE  /\ tpc = "run" /\ tpc' \in {"off", "mark"}
              /\ UNCHANGED <<idle, runs, queued, wrun, told>>
  BY <1>13 DEF Run, cancelVars
<1>14. CASE Test
  BY <1>1, <1>2, <1>3, <1>14 DEF Test, cancelVars
<1>15. CASE AddIdle
  BY <1>1, <1>2, <1>3, <1>15 DEF AddIdle, cancelVars
<1>16. CASE Assign
  BY <1>1, <1>2, <1>3, <1>16 DEF Assign, cancelVars
<1>17. CASE UNCHANGED jobVars
  BY <1>1, <1>2, <1>3, <1>17 DEF jobVars, threadVars, cancelVars
<1>18. CASE \E o \in {"ok", "error", "silent"} : Run(o)
  BY <1>1, <1>2, <1>3, <1>13, <1>18
<1> QED
  BY <1>5, <1>6, <1>7, <1>10, <1>11, <1>12, <1>14, <1>15, <1>16, <1>17, <1>18
  DEF JobNext, MainLoop, JobThread

\* Every step uses up a store of the worker for a cancel that it makes possible.
LEMMA FewCancelsStep == JobTurns /\ [JobNext]_jobVars => FewCancels'
<1> SUFFICES ASSUME JobShape, RunsInTurn, FewCancels, [JobNext]_jobVars
             PROVE  FewCancels'
  BY DEF JobTurns
<1> DEFINE can == Times("cancelled")
           set == "cancelled" \in bits
           Goal == /\ cancellable' => ~queued' /\ can' + Begun' + BitMissing' + StoresLeft' <= 3
                   /\ ~cancellable' => can' = 0 /\ cpc' \in {"loop", "set", "trigger"}
                   /\ ~cancellable' /\ cpc' = "trigger" /\ ~set' => tpc' # "clear" /\ ~queued'
<1>1. /\ can \in Nat
      /\ told' = told => can' = can
      /\ told' = Append(told, "finished") => can' = can
      /\ told' = Append(told, "cancelled") => can' = can + 1
  BY TimesOfStep DEF JobShape
<1>2. /\ cancellable => ~queued /\ can + Begun + BitMissing + StoresLeft <= 3
      /\ ~cancellable => can = 0 /\ cpc \in {"loop", "set", "trigger"}
      /\ ~cancellable /\ cpc = "trigger" /\ ~set => tpc # "clear" /\ ~queued
      /\ cancellable \in BOOLEAN /\ queued \in BOOLEAN
  BY DEF FewCancels, JobShape, JobTypeOK
<1>3. queued => tpc \notin OnItsWay
  BY DEF RunsInTurn
<1>4. FewCancels' <=> Goal
  BY DEF FewCancels
<1> SUFFICES Goal
  BY <1>4
<1> HIDE DEF can
<1> USE DEF Begun, BitMissing, StoresLeft
<1>5. CASE PushJob
  <2>1. /\ ~cancellable' /\ can' = 0 /\ cpc' = "loop"
    BY <1>1, <1>2, <1>5 DEF PushJob, cancelVars
  <2> QED
    BY <2>1
<1>6. ASSUME NEW id, EmitFinished(id)
      PROVE  Goal
  <2>1. /\ UNCHANGED <<cancellable, queued, tpc, cpc, bits>>
        /\ told' = told \/ told' = Append(told, "finished")
    BY <1>6 DEF EmitFinished, threadVars, cancelVars
  <2> QED
    BY <1>1, <1>2, <2>1
<1>7. CASE CancelRead
  <2>1. /\ UNCHANGED <<cancellable, queued, tpc, bits, told>> /\ ~set
        /\ cpc = "loop" /\ cpc' = "set"
    BY <1>7 DEF CancelRead, threadVars
  <2> QED
    BY <1>1, <1>2, <2>1
<1>8. CASE CancelWrite
  <2>1. /\ UNCHANGED <<cancellable, queued, tpc, told>> /\ set'
        /\ cpc = "set" /\ cpc' = "trigger"
    BY <1>8 DEF CancelWrite, threadVars
  <2> QED
    BY <1>1, <1>2, <2>1
<1>9. CASE CancelTrigger
  <2>1. /\ UNCHANGED <<tpc, bits, told>> /\ cancellable' = TRUE
        /\ queued' = (queued /\ cancellable)
        /\ cpc = "trigger" /\ cpc' = "finished"
    BY <1>9 DEF CancelTrigger, threadVars
  <2> QED
    BY <1>1, <1>2, <2>1
<1>10. CASE CancelFinished \/ CancelId
  <2>1. /\ UNCHANGED <<tpc, bits, told, cancellable, queued>>
        /\ cpc \in {"finished", "id"} /\ cpc' \in {"id", "emit", "loop"}
    BY <1>10 DEF CancelFinished, CancelId, threadVars
  <2>2. cancellable
    BY <1>2, <2>1
  <2> QED
    BY <1>1, <1>2, <2>1, <2>2
<1>11. CASE CancelEmit
  <2>1. /\ UNCHANGED <<tpc, bits, cancellable, queued>> /\ told' = Append(told, "cancelled")
        /\ cpc = "emit" /\ cpc' = "loop"
    BY <1>11 DEF CancelEmit, threadVars
  <2>2. cancellable
    BY <1>2, <2>1
  <2> QED
    BY <1>1, <1>2, <2>1, <2>2
<1>12. CASE ReadWord
  BY <1>1, <1>2, <1>12 DEF ReadWord, cancelVars
<1>13. CASE WriteWord
  <2>1. /\ UNCHANGED <<cancellable, queued, cpc, told>>
        /\ \/ tpc = "clear" /\ tpc' = "run"
           \/ tpc = "mark" /\ tpc' = "test"
           \/ tpc = "finish" /\ tpc' = "add"
    BY <1>13, ChangeOf DEF WriteWord, cancelVars
  <2>2. ~queued
    BY <1>3, <2>1 DEF OnItsWay
  <2> QED
    BY <1>1, <1>2, <2>1, <2>2
<1>14. CASE Start
  <2>1. /\ queued /\ ~queued' /\ UNCHANGED <<cancellable, cpc, bits, told>>
    BY <1>14 DEF Start, cancelVars
  <2>2. ~cancellable /\ (cpc = "trigger" => set)
    BY <1>2, <2>1
  <2> QED
    BY <1>1, <1>2, <2>1, <2>2
<1>15. ASSUME NEW o, Run(o)
       PROVE  Goal
  <2>1. /\ tpc = "run" /\ tpc' \in {"off", "mark"}
        /\ UNCHANGED <<cancellable, queued, cpc, bits, told>>
    BY <1>15 DEF Run, cancelVars
  <2> QED
    BY <1>1, <1>2, <2>1
<1>16. CASE Test
  <2>1. /\ tpc = "test" /\ tpc' \in {"off", "finish"} /\ (cancellable => tpc' = "off")
        /\ UNCHANGED <<cancellable, queued, cpc, bits, told>>
    BY <1>16 DEF Test, cancelVars
  <2> QED
    BY <1>1, <1>2, <2>1
<1>17. CASE AddIdle \/ Assign
  <2>1. /\ tpc \in {"add", "assign"} /\ tpc' \in {"assign", "off"}
        /\ UNCHANGED <<cancellable, queued, cpc, bits, told>>
    BY <1>17 DEF AddIdle, Assign, cancelVars
  <2> QED
    BY <1>1, <1>2, <2>1
<1>18. CASE UNCHANGED jobVars
  <2>1. UNCHANGED <<cancellable, queued, cpc, bits, told, tpc>>
    BY <1>18 DEF jobVars, threadVars, cancelVars
  <2> QED
    BY <1>1, <1>2, <2>1
<1> QED
  BY <1>5, <1>6, <1>7, <1>8, <1>9, <1>10, <1>11, <1>12, <1>13, <1>14, <1>15, <1>16, <1>17, <1>18
  DEF JobNext, CancelReturns, MainLoop, JobThread

\* The turns hold in every state.
LEMMA JobTurnsAlways == JobSpec => []JobTurns
<1>1. JobInit => RunsInTurn /\ FewCancels
  <2> SUFFICES ASSUME JobInit PROVE RunsInTurn /\ FewCancels
    OBVIOUS
  <2>1. {i \in DOMAIN told : told[i] = "finished"} = {} /\ {i \in DOMAIN told : told[i] = "cancelled"} = {}
    BY DEF JobInit
  <2>2. Times("finished") = 0 /\ Times("cancelled") = 0
    BY <2>1, FS_EmptySet DEF Times
  <2> QED
    BY <2>2 DEF JobInit, RunsInTurn, FewCancels, Pending, OnItsWay
<1>2. JobShape /\ JobShape' /\ RunsInTurn /\ [JobNext]_jobVars => RunsInTurn'
  BY RunsInTurnStep
<1>3. JobShape /\ RunsInTurn /\ FewCancels /\ [JobNext]_jobVars => FewCancels'
  BY FewCancelsStep DEF JobTurns
<1>4. JobTurns <=> JobShape /\ RunsInTurn /\ FewCancels
  BY DEF JobTurns
<1> QED
  BY <1>1, <1>2, <1>3, <1>4, JobShapeAlways, PTL DEF JobSpec

\* emit_finished emits once for each push; ev_job_cancel, whose only guard is the bit,
\* three times at most.
THEOREM SignalsFewAlways == JobSpec => []SignalsAreFew
<1>1. JobTurns => SignalsAreFew
  <2> SUFFICES ASSUME JobTurns PROVE SignalsAreFew
    OBVIOUS
  <2>1. Times("finished") \in Nat /\ Times("cancelled") \in Nat /\ runs \in Nat
    BY TimesOfStep, JobAssumption DEF JobTurns, JobShape, JobTypeOK
  <2>2. Times("finished") <= runs
    BY <2>1 DEF JobTurns, RunsInTurn, Pending
  <2>3. CASE cancellable
    <3>1. Times("cancelled") + Begun + BitMissing + StoresLeft <= 3
      BY <2>3 DEF JobTurns, FewCancels
    <3>2. Begun \in Nat /\ BitMissing \in Nat /\ StoresLeft \in Nat
      BY DEF Begun, BitMissing, StoresLeft
    <3> QED
      BY <2>1, <2>2, <3>1, <3>2 DEF SignalsAreFew
  <2>4. CASE ~cancellable
    BY <2>2, <2>4 DEF JobTurns, FewCancels, SignalsAreFew
  <2> QED
    BY <2>3, <2>4
<1> QED
  BY <1>1, JobTurnsAlways, PTL

-----------------------------------------------------------------------------
(* The flags.                                                              *)

\* The word says how the run ended, or it has the bit of the cancel.
Right(word) == "cancelled" \in word \/ ("failed" \in word <=> outcome = "error")

\* A store of ev_job_cancel may overwrite a store of the worker, but then it
\* leaves the cancelled bit; a store of the worker that overwrites that bit
\* writes back the word that the worker alone has made.
FlagsOfTheRun ==
  /\ tpc \in {"test", "finish", "add"} \/ idle # {} => Right(bits)
  /\ tpc = "finish" /\ wword # NoWord => Right(wword)
  /\ tpc = "add" \/ idle # {} => "cancelled" \in bits \/ "finished" \in bits

\* Every step keeps the flags those of the run.
LEMMA FlagsStep == JobTurns /\ FlagsOfTheRun /\ [JobNext]_jobVars => FlagsOfTheRun'
<1> SUFFICES ASSUME JobShape, RunsInTurn, FlagsOfTheRun, [JobNext]_jobVars
             PROVE  FlagsOfTheRun'
  BY DEF JobTurns
<1> USE DEF FlagsOfTheRun, Right
<1>1. CASE PushJob
  BY <1>1 DEF PushJob, threadVars
<1>2. ASSUME NEW id \in 1 .. MaxRuns, EmitFinished(id)
      PROVE  FlagsOfTheRun'
  BY <1>2 DEF EmitFinished, threadVars
<1>3. CASE CancelRead \/ CancelTrigger \/ CancelFinished \/ CancelId \/ CancelEmit
  BY <1>3 DEF CancelRead, CancelTrigger, CancelFinished, CancelId, CancelEmit, threadVars
<1>4. CASE CancelWrite
  BY <1>4 DEF CancelWrite, threadVars
<1>5. CASE ReadWord
  BY <1>5 DEF ReadWord
<1>6. CASE WriteWord
  <2>1. /\ tpc \in {"clear", "mark", "finish"} /\ wword # NoWord /\ idle = {}
        /\ wword' = NoWord /\ UNCHANGED <<outcome, idle>>
    BY <1>6 DEF WriteWord, RunsInTurn, OnItsWay
  <2>2. CASE tpc = "clear"
    <3>1. tpc' = "run"
      BY <1>6, <2>2, ChangeOf DEF WriteWord
    <3> QED
      BY <2>1, <3>1
  <2>3. CASE tpc = "mark"
    <3>1. /\ tpc' = "test"
          /\ bits' = IF outcome = "error" THEN wword \union {"failed"} ELSE wword \ {"failed"}
      BY <1>6, <2>3, ChangeOf DEF WriteWord
    <3> QED
      BY <2>1, <3>1
  <2>4. CASE tpc = "finish"
    <3>1. tpc' = "add" /\ bits' = wword \union {"finished"}
      BY <1>6, <2>4, ChangeOf DEF WriteWord
    <3> QED
      BY <2>1, <2>4, <3>1
  <2> QED
    BY <2>1, <2>2, <2>3, <2>4
<1>7. CASE Start
  BY <1>7 DEF Start, RunsInTurn
<1>8. ASSUME NEW o, Run(o)
      PROVE  FlagsOfTheRun'
  BY <1>8 DEF Run, RunsInTurn, OnItsWay
<1>9. CASE Test
  BY <1>9 DEF Test, JobShape, WordsInHand
<1>10. CASE AddIdle
  BY <1>10 DEF AddIdle
<1>11. CASE Assign
  BY <1>11 DEF Assign
<1>12. CASE UNCHANGED jobVars
  BY <1>12 DEF jobVars, threadVars
<1> QED
  BY <1>1, <1>2, <1>3, <1>4, <1>5, <1>6, <1>7, <1>8, <1>9, <1>10, <1>11, <1>12
  DEF JobNext, CancelReturns, MainLoop, JobThread

\* What an emission leaves behind, and when there is one at all.
LEMMA Emission ==
  ASSUME JobTurns, [JobNext]_jobVars
  PROVE  /\ Times("finished")' = Times("finished")
              \/ \E id \in idle : EmitFinished(id) /\ "cancelled" \notin bits
         /\ Times("finished") \in Nat
<1> USE DEF JobTurns, JobShape
<1>1. CASE told' = told
  BY <1>1, TimesOfStep
<1>2. CASE \E id \in 1 .. MaxRuns : EmitFinished(id)
  BY <1>2, TimesOfStep DEF EmitFinished
<1>3. CASE CancelEmit
  BY <1>3, TimesOfStep DEF CancelEmit
<1>4. \/ told' = told \/ CancelEmit \/ \E id \in 1 .. MaxRuns : EmitFinished(id)
  BY DEF JobNext, PushJob, CancelRead, CancelReturns, CancelWrite, CancelTrigger,
         CancelFinished, CancelId, MainLoop, JobThread, Start, ReadWord, WriteWord, Test,
         AddIdle, Assign, Run, jobVars
<1> QED
  BY <1>1, <1>2, <1>3, <1>4

\* A cancel that the worker can still see is the end of the signals of this job.
LEMMA SettledStep ==
  ASSUME JobTurns, [JobNext]_jobVars, SettledCancel
  PROVE  SettledCancel' /\ Times("finished")' = Times("finished")
<1> USE DEF SettledCancel, JobTurns, JobShape
<1>1. Times("finished")' = Times("finished")
  BY Emission
<1>2. cancellable'
  BY DEF JobNext, PushJob, EmitFinished, CancelRead, CancelReturns, CancelWrite,
         CancelTrigger, CancelFinished, CancelId, CancelEmit, MainLoop, JobThread, Start,
         ReadWord, WriteWord, Test, AddIdle, Assign, Run, jobVars
<1>3. idle' = {} /\ tpc' \notin {"finish", "add"}
  <2>1. CASE WriteWord
    <3>1. tpc \in {"clear", "mark"} /\ tpc' = Following(tpc) /\ idle' = idle
      BY <2>1 DEF WriteWord
    <3>2. tpc' \in {"run", "test"}
      BY <3>1, ChangeOf
    <3> QED
      BY <3>1, <3>2
  <2>2. ASSUME NEW o, Run(o)
        PROVE  idle' = {} /\ tpc' \notin {"finish", "add"}
    BY <2>2 DEF Run
  <2>3. CASE PushJob \/ CancelRead \/ CancelReturns
    BY <2>3 DEF PushJob, CancelRead, CancelReturns, CancelWrite, CancelTrigger,
                CancelFinished, CancelId, CancelEmit, threadVars
  <2>4. CASE Start \/ ReadWord \/ Test \/ AddIdle \/ Assign
    BY <2>4 DEF Start, ReadWord, Test, AddIdle, Assign
  <2>5. ASSUME NEW id, EmitFinished(id)
        PROVE  FALSE
    BY <2>5 DEF EmitFinished
  <2>6. CASE UNCHANGED jobVars
    BY <2>6 DEF jobVars, threadVars
  <2> QED
    BY <2>1, <2>2, <2>3, <2>4, <2>5, <2>6 DEF JobNext, MainLoop, JobThread
<1> QED
  BY <1>1, <1>2, <1>3

\* Both sides of a signal: no "finished" after a cancel that the worker can
\* still see, and who is told "finished" reads finished, and failed exactly if
\* that run failed, for any number of runs, although each store to the word of
\* flags may be lost to the other thread.
THEOREM TruthfulSignals == JobSpec => SignalsTellTheTruth
<1>1. JobInit => FlagsOfTheRun
  BY DEF JobInit, FlagsOfTheRun
<1>2. JobTurns /\ FlagsOfTheRun /\ [JobNext]_jobVars => FlagsOfTheRun'
  BY FlagsStep
<1>3. JobTurns /\ [JobNext]_jobVars =>
        [SettledCancel => SettledCancel' /\ Times("finished")' = Times("finished")]_jobVars
  BY SettledStep
<1>4. JobTurns /\ FlagsOfTheRun /\ [JobNext]_jobVars =>
        [Times("finished")' > Times("finished") =>
           "finished" \in bits /\ ("failed" \in bits <=> outcome = "error")]_jobVars
  <2> SUFFICES ASSUME JobTurns, FlagsOfTheRun, JobNext, Times("finished")' > Times("finished")
               PROVE  "finished" \in bits /\ ("failed" \in bits <=> outcome = "error")
    OBVIOUS
  <2>1. Times("finished")' # Times("finished")
    BY Emission
  <2>2. idle # {} /\ "cancelled" \notin bits
    BY <2>1, Emission
  <2> QED
    BY <2>2 DEF FlagsOfTheRun, Right
<1> QED
  BY <1>1, <1>2, <1>3, <1>4, JobTurnsAlways, PTL
  DEF JobSpec, SignalsTellTheTruth, CancelledStaysSilent, FinishedTellsTheRun

(***************************************************************************)
(* The locks.                                                              *)
(***************************************************************************)
-----------------------------------------------------------------------------
(* What the worker holds.                                                  *)

Kind == {"render", "thumbnail", "page", "load"}

\* The places of the main thread in a run of the find and of the fonts job.
AtRun(j) == IF j = "find" THEN {"find"} ELSE {"fonts", "scan"}

\* The worker holds the first wheld locks of its job, and has at least one
\* more to take, or one to give back, when it is about to.
WorkerHolds ==
  /\ workerAt = "idle" => wheld = 0
  /\ workerAt = "lock" => wheld < Len(Locks(wkind))
  /\ workerAt = "unlock" => wheld \in 1 .. Len(Locks(wkind))
  /\ doc = "worker" <=> wheld > 0 /\ wkind # "load"
  /\ fc = "worker" <=> \/ wheld > 0 /\ wkind = "load"
                       \/ wheld = 2 /\ wkind \in {"render", "thumbnail"}

\* The main thread holds the mutexes of the handler or of the run it is in.
MainHolds ==
  /\ fc = "main" <=> mainAt \in {"in_fc", "scan"}
  /\ mainAt \in {"in_doc", "find", "fonts", "scan"} => doc = "main"

\* A main loop job that is run is active, with its source attached, and one
\* that may still run has steps left.
RunsActiveJob ==
  \A j \in MainJob :
    /\ mainAt \in AtRun(j) => state[j] = "active"
    /\ state[j] = "active" => source[j]
    /\ source[j] => state[j] \in {"active", "cancelled"}
    /\ state[j] \in {"new", "active"} => left[j] > 0

\* LockTypeOK with what its induction needs.
LockShape == LockTypeOK /\ WorkerHolds /\ RunsActiveJob

\* A job takes the document lock first if it takes it at all.
LEMMA LocksOfKind ==
  ASSUME NEW kind \in Kind
  PROVE  /\ Len(Locks(kind)) = IF kind \in {"render", "thumbnail"} THEN 2 ELSE 1
         /\ Locks(kind)[1] = IF kind = "load" THEN "fc" ELSE "doc"
         /\ kind \in {"render", "thumbnail"} => Locks(kind)[2] = "fc"
<1>1. CASE kind = "render"
  BY <1>1 DEF Locks
<1>2. CASE kind = "thumbnail"
  BY <1>2 DEF Locks
<1>3. CASE kind = "page"
  BY <1>3 DEF Locks
<1>4. CASE kind = "load"
  BY <1>4 DEF Locks
<1> QED
  BY <1>1, <1>2, <1>3, <1>4 DEF Kind

\* The three kinds of locks a job takes, as WorkerHolds speaks of them.
LEMMA LockOfStep ==
  ASSUME NEW kind \in Kind, NEW held \in 0 .. 2
  PROVE  /\ Len(Locks(kind)) \in 1 .. 2
         /\ held < Len(Locks(kind)) =>
              Locks(kind)[held + 1] = IF kind = "load" \/ held = 1 THEN "fc" ELSE "doc"
         /\ held \in 1 .. Len(Locks(kind)) =>
              Locks(kind)[held] = IF kind = "load" \/ held = 2 THEN "fc" ELSE "doc"
         /\ Len(Locks(kind)) = 2 <=> kind \in {"render", "thumbnail"}
<1> DEFINE n == Len(Locks(kind))
           first == Locks(kind)[1]
           second == Locks(kind)[2]
<1>1. /\ n = IF kind \in {"render", "thumbnail"} THEN 2 ELSE 1
      /\ first = IF kind = "load" THEN "fc" ELSE "doc"
      /\ kind \in {"render", "thumbnail"} => second = "fc"
  BY LocksOfKind
<1>2. kind = "load" => n = 1
  BY <1>1
<1> HIDE DEF n, first, second
<1>3. CASE held = 0
  BY <1>1, <1>2, <1>3 DEF n, first
<1>4. CASE held = 1
  BY <1>1, <1>2, <1>4 DEF n, first, second
<1>5. CASE held = 2
  BY <1>1, <1>2, <1>5 DEF n, first, second
<1> QED
  BY <1>3, <1>4, <1>5

\* The locks are there when a behaviour begins.
LEMMA LockShapeInit == LockInit => LockShape
<1> SUFFICES ASSUME LockInit PROVE LockShape
  OBVIOUS
<1> USE LocksAssumption DEF LockInit
<1>1. LockTypeOK
  BY DEF LockTypeOK, MainJob
<1>2. WorkerHolds
  BY DEF WorkerHolds
<1>3. RunsActiveJob
  BY DEF RunsActiveJob, AtRun, MainJob
<1> QED
  BY <1>1, <1>2, <1>3 DEF LockShape

\* The worker's steps.
LEMMA LockShapeWorker ==
  ASSUME LockShape,
         (\E kind \in Kind : StartJob(kind)) \/ WorkerLocks \/ WorkerUnlocks
  PROVE  LockShape'
<1> USE LocksAssumption DEF LockShape
<1>1. wkind \in Kind /\ wheld \in 0 .. 2
  BY DEF LockTypeOK, Kind
<1> DEFINE n == Len(Locks(wkind))
           next == Locks(wkind)[wheld + 1]
           last == Locks(wkind)[wheld]
<1>2. /\ n \in 1 .. 2
      /\ wheld < n => next = IF wkind = "load" \/ wheld = 1 THEN "fc" ELSE "doc"
      /\ wheld \in 1 .. n => last = IF wkind = "load" \/ wheld = 2 THEN "fc" ELSE "doc"
      /\ n = 2 <=> wkind \in {"render", "thumbnail"}
  BY <1>1, LockOfStep
<1>3. ASSUME NEW kind \in Kind, StartJob(kind)
      PROVE  LockShape'
  <2>1. Len(Locks(kind)) \in 1 .. 2
    BY LockOfStep
  <2>2. LockTypeOK'
    BY <1>3 DEF LockTypeOK, StartJob, mutexes, mainJobs, Kind
  <2>3. WorkerHolds'
    <3>1. /\ wheld = 0 /\ doc # "worker" /\ fc # "worker"
          /\ doc' = doc /\ fc' = fc
          /\ wkind' = kind /\ wheld' = 0 /\ workerAt' = "lock"
      BY <1>3 DEF WorkerHolds, StartJob, mutexes
    <3>2. wheld' < Len(Locks(wkind'))
      BY <2>1, <3>1
    <3> QED
      BY <3>1, <3>2 DEF WorkerHolds
  <2>4. RunsActiveJob'
    BY <1>3 DEF RunsActiveJob, AtRun, StartJob, mainJobs
  <2> QED
    BY <2>2, <2>3, <2>4
<1>4. ASSUME WorkerLocks
      PROVE  LockShape'
  <2>1. /\ workerAt = "lock" /\ IsFree(next) /\ SetLock(next, "worker")
        /\ wheld' = wheld + 1
        /\ workerAt' = IF wheld + 1 = n THEN "unlock" ELSE "lock"
        /\ UNCHANGED <<dialog, wkind, jobs, mainAt, state, source, entry, left>>
    BY <1>4 DEF WorkerLocks, mainJobs
  <2>2. wheld < n
    BY <2>1 DEF WorkerHolds
  <2> HIDE DEF n, next
  <2>3. LockTypeOK'
    BY <1>2, <2>1, <2>2 DEF LockTypeOK, SetLock
  <2>4. WorkerHolds'
    <3>1. /\ workerAt' = "idle" => wheld' = 0
          /\ workerAt' = "lock" => wheld' < n
          /\ workerAt' = "unlock" => wheld' \in 1 .. n
      BY <1>1, <1>2, <2>1, <2>2
    <3>2. /\ doc' = "worker" <=> wheld' > 0 /\ wkind' # "load"
          /\ fc' = "worker" <=> \/ wheld' > 0 /\ wkind' = "load"
                                \/ wheld' = 2 /\ wkind' \in {"render", "thumbnail"}
      BY <1>1, <1>2, <2>1, <2>2 DEF WorkerHolds, SetLock, IsFree
    <3> QED
      BY <2>1, <3>1, <3>2 DEF WorkerHolds, n
  <2>5. RunsActiveJob'
    BY <2>1 DEF RunsActiveJob, AtRun
  <2> QED
    BY <2>3, <2>4, <2>5
<1>5. ASSUME WorkerUnlocks
      PROVE  LockShape'
  <2>1. /\ workerAt = "unlock" /\ SetLock(last, "free")
        /\ wheld' = wheld - 1
        /\ workerAt' = IF wheld = 1 THEN "idle" ELSE "unlock"
        /\ UNCHANGED <<dialog, wkind, jobs, mainAt, state, source, entry, left>>
    BY <1>5 DEF WorkerUnlocks, mainJobs
  <2>2. wheld \in 1 .. n
    BY <2>1 DEF WorkerHolds
  <2> HIDE DEF n, last
  <2>3. LockTypeOK'
    BY <1>2, <2>1, <2>2 DEF LockTypeOK, SetLock
  <2>4. WorkerHolds'
    <3>1. /\ workerAt' = "idle" => wheld' = 0
          /\ workerAt' = "lock" => wheld' < n
          /\ workerAt' = "unlock" => wheld' \in 1 .. n
      BY <1>1, <1>2, <2>1, <2>2
    <3>2. /\ doc' = "worker" <=> wheld' > 0 /\ wkind' # "load"
          /\ fc' = "worker" <=> \/ wheld' > 0 /\ wkind' = "load"
                                \/ wheld' = 2 /\ wkind' \in {"render", "thumbnail"}
      BY <1>1, <1>2, <2>1, <2>2 DEF WorkerHolds, SetLock
    <3> QED
      BY <2>1, <3>1, <3>2 DEF WorkerHolds, n
  <2>5. RunsActiveJob'
    BY <2>1 DEF RunsActiveJob, AtRun
  <2> QED
    BY <2>3, <2>4, <2>5
<1> QED
  BY <1>3, <1>4, <1>5

\* The steps of the main thread: they leave the worker alone, and a mutex
\* that they take was free.
LEMMA LockShapeMain ==
  ASSUME LockShape,
         \/ \E lock \in {"doc", "fc"} : Handler(lock)
         \/ HandlerReturns \/ StepReturns
         \/ \E j \in MainJob : PushMain(j) \/ CancelMain(j) \/ Idle(j),
         MainHolds
  PROVE  LockShape'
<1> USE LocksAssumption DEF LockShape
<1> DEFINE SameJobs == UNCHANGED <<mainJobs, dialog, worker>>
           OwnSteps == /\ doc' # doc => doc # "worker" /\ doc' \in {"free", "main"}
                       /\ fc' # fc => fc # "worker" /\ fc' \in {"free", "main"}
<1>1. ASSUME OwnSteps, UNCHANGED worker
      PROVE  WorkerHolds'
  BY <1>1 DEF WorkerHolds, worker
<1>2. ASSUME OwnSteps, SameJobs, 
             mainAt' \in {"loop", "wants_doc", "in_doc", "wants_fc", "in_fc"}
      PROVE  LockShape'
  <2>1. LockTypeOK'
    BY <1>2 DEF LockTypeOK, worker, mainJobs
  <2>2. RunsActiveJob'
    BY <1>2 DEF RunsActiveJob, AtRun, mainJobs
  <2> QED
    BY <1>1, <1>2, <2>1, <2>2
<1>3. ASSUME NEW lock \in {"doc", "fc"}, Handler(lock)
      PROVE  LockShape'
  BY <1>2, <1>3 DEF Handler, mutexes
<1>4. ASSUME HandlerLocks
      PROVE  LockShape'
  BY <1>2, <1>4 DEF HandlerLocks, SetLock, IsFree
<1>5. ASSUME HandlerUnlocks
      PROVE  LockShape'
  BY <1>2, <1>5 DEF HandlerUnlocks, SetLock, MainHolds
<1>6. ASSUME FontsTriesFc
      PROVE  LockShape'
  <2>1. OwnSteps /\ SameJobs /\ mainAt = "fonts" /\ mainAt' \in {"loop", "scan"}
    BY <1>6 DEF FontsTriesFc, IsFree
  <2>2. LockTypeOK'
    BY <2>1 DEF LockTypeOK, worker, mainJobs
  <2>3. RunsActiveJob'
    BY <2>1 DEF RunsActiveJob, AtRun, mainJobs
  <2> QED
    BY <1>1, <2>1, <2>2, <2>3
<1>7. ASSUME NEW j \in MainJob, Step(j)
      PROVE  LockShape'
  <2>1. /\ mainAt \in AtRun(j) /\ state[j] = "active" /\ left[j] > 0
        /\ j = "fonts" => fc = "main"
    BY <1>7 DEF Step, AtRun, MainJob, RunsActiveJob, MainHolds
  <2>2. OwnSteps /\ UNCHANGED worker
    BY <1>7, <2>1 DEF Step, MainHolds, MainJob
  <2>3. LockTypeOK'
    <3>1. /\ {doc', fc'} \subseteq {"free", "worker", "main"} /\ mainAt' = "loop"
          /\ UNCHANGED <<dialog, wkind, wheld, workerAt, jobs>>
      BY <1>7, <2>2 DEF LockTypeOK, Step, worker
    <3>2. left' \in [MainJob -> 0 .. Steps]
      BY <1>7, <2>1 DEF LockTypeOK, Step
    <3>3. state' \in [MainJob -> {"new", "active", "cancelled", "finished"}]
      BY <1>7 DEF LockTypeOK, Step
    <3>4. source' \in [MainJob -> BOOLEAN] /\ entry' \in [MainJob -> BOOLEAN]
      BY <1>7 DEF LockTypeOK, Step
    <3> QED
      BY <3>1, <3>2, <3>3, <3>4 DEF LockTypeOK
  <2>4. RunsActiveJob'
    <3> SUFFICES ASSUME NEW k \in MainJob
                 PROVE  /\ mainAt' \in AtRun(k) => state'[k] = "active"
                        /\ state'[k] = "active" => source'[k]
                        /\ source'[k] => state'[k] \in {"active", "cancelled"}
                        /\ state'[k] \in {"new", "active"} => left'[k] > 0
      BY DEF RunsActiveJob
    <3>1. mainAt' \notin AtRun(k)
      BY <1>7 DEF Step, AtRun
    <3>2. CASE k # j
      BY <1>7, <2>1, <3>1, <3>2 DEF Step, RunsActiveJob, LockTypeOK
    <3>3. CASE k = j /\ left[j] = 1
      BY <1>7, <2>1, <3>1, <3>3 DEF Step, RunsActiveJob, LockTypeOK
    <3>4. CASE k = j /\ left[j] # 1
      BY <1>7, <2>1, <3>1, <3>4 DEF Step, RunsActiveJob, LockTypeOK
    <3> QED
      BY <3>2, <3>3, <3>4
  <2> QED
    BY <1>1, <2>2, <2>3, <2>4
<1>8. ASSUME NEW j \in MainJob, PushMain(j) \/ CancelMain(j) \/ IdleCancelled(j)
      PROVE  LockShape'
  <2>1. /\ mainAt = "loop" /\ UNCHANGED <<doc, fc, dialog, wkind, wheld, workerAt, jobs, mainAt, left>>
    BY <1>8 DEF PushMain, CancelMain, IdleCancelled, mutexes, worker
  <2>2. LockTypeOK'
    BY <1>8, <2>1 DEF LockTypeOK, PushMain, CancelMain, IdleCancelled
  <2>3. WorkerHolds'
    BY <2>1 DEF WorkerHolds
  <2>4. RunsActiveJob'
    BY <1>8, <2>1 DEF RunsActiveJob, AtRun, LockTypeOK, PushMain, CancelMain, IdleCancelled
  <2> QED
    BY <2>2, <2>3, <2>4
<1>9. ASSUME NEW j \in MainJob, IdleTriesDoc(j)
      PROVE  LockShape'
  <2>1. /\ OwnSteps /\ SameJobs /\ state[j] = "active"
        /\ mainAt = "loop" /\ mainAt' \in {"loop", j}
    BY <1>9 DEF IdleTriesDoc, IsFree
  <2>2. LockTypeOK'
    BY <2>1 DEF LockTypeOK, worker, mainJobs, MainJob
  <2>3. RunsActiveJob'
    BY <2>1 DEF RunsActiveJob, AtRun, mainJobs, MainJob
  <2> QED
    BY <1>1, <2>1, <2>2, <2>3
<1> QED
  BY <1>3, <1>4, <1>5, <1>6, <1>7, <1>8, <1>9 DEF HandlerReturns, StepReturns, Idle

-----------------------------------------------------------------------------
(* The mutexes and their owners.                                           *)

\* What a step does to a mutex m that thread's owner says: it is taken when
\* it is free, and given back by the thread that has it.
Passes(m, next, byWorker, byMain) ==
  \/ next = m
  \/ m = "free" /\ next = "worker" /\ byWorker
  \/ m = "worker" /\ next = "free" /\ byWorker
  \/ m = "free" /\ next = "main" /\ byMain
  \/ m = "main" /\ next = "free" /\ byMain

\* The worker's lock of a step: it is free, or the worker has it.
LEMMA WorkerPasses ==
  ASSUME LockShape, WorkerLocks \/ WorkerUnlocks
  PROVE  /\ wheld' # wheld /\ UNCHANGED mainAt
         /\ Passes(doc, doc', TRUE, FALSE) /\ Passes(fc, fc', TRUE, FALSE)
<1> USE LocksAssumption DEF LockShape
<1>1. wkind \in Kind /\ wheld \in 0 .. 2
  BY DEF LockTypeOK, Kind
<1> DEFINE n == Len(Locks(wkind))
           next == Locks(wkind)[wheld + 1]
           last == Locks(wkind)[wheld]
<1>2. /\ n \in 1 .. 2
      /\ wheld < n => next = IF wkind = "load" \/ wheld = 1 THEN "fc" ELSE "doc"
      /\ wheld \in 1 .. n => last = IF wkind = "load" \/ wheld = 2 THEN "fc" ELSE "doc"
      /\ n = 2 <=> wkind \in {"render", "thumbnail"}
  BY <1>1, LockOfStep
<1>3. CASE WorkerLocks
  <2>1. /\ IsFree(next) /\ SetLock(next, "worker") /\ wheld' = wheld + 1
        /\ wheld < n /\ UNCHANGED mainAt
    BY <1>3 DEF WorkerLocks, WorkerHolds
  <2> HIDE DEF n, next, last
  <2> QED
    BY <1>1, <1>2, <2>1 DEF IsFree, SetLock, Passes
<1>4. CASE WorkerUnlocks
  <2>1. /\ SetLock(last, "free") /\ wheld' = wheld - 1
        /\ wheld \in 1 .. n /\ UNCHANGED mainAt
    BY <1>4 DEF WorkerUnlocks, WorkerHolds
  <2> HIDE DEF n, next, last
  <2> QED
    BY <1>1, <1>2, <2>1 DEF WorkerHolds, SetLock, Passes
<1> QED
  BY <1>3, <1>4

\* The main thread's.
LEMMA MainPasses ==
  ASSUME LockShape, MainHolds,
         \/ \E lock \in {"doc", "fc"} : Handler(lock)
         \/ HandlerReturns \/ StepReturns
         \/ \E j \in MainJob : PushMain(j) \/ CancelMain(j) \/ Idle(j)
  PROVE  /\ UNCHANGED wheld
         /\ Passes(doc, doc', FALSE, mainAt' # mainAt)
         /\ Passes(fc, fc', FALSE, mainAt' # mainAt)
         /\ MainHolds'
<1> USE DEF MainHolds, Passes
<1>1. ASSUME NEW lock \in {"doc", "fc"}, Handler(lock)
      PROVE  UNCHANGED <<doc, fc, wheld>> /\ mainAt = "loop" /\ mainAt' \in {"wants_doc", "wants_fc"}
  BY <1>1 DEF Handler, mutexes, worker
<1>2. ASSUME NEW j \in MainJob, PushMain(j) \/ CancelMain(j) \/ IdleCancelled(j)
      PROVE  UNCHANGED <<doc, fc, wheld, mainAt>>
  BY <1>2 DEF PushMain, CancelMain, IdleCancelled, mutexes, worker
<1>3. ASSUME NEW j \in MainJob, Step(j)
      PROVE  /\ UNCHANGED wheld /\ mainAt \in {"find", "scan"} /\ mainAt' = "loop"
             /\ doc = "main" /\ doc' = "free"
             /\ \/ mainAt = "scan" /\ fc = "main" /\ fc' = "free"
                \/ mainAt = "find" /\ fc # "main" /\ fc' = fc
  BY <1>3 DEF Step, MainJob, worker
<1>4. ASSUME NEW j \in MainJob, IdleTriesDoc(j)
      PROVE  /\ UNCHANGED <<fc, wheld>> /\ mainAt = "loop"
             /\ \/ UNCHANGED <<doc, mainAt>>
                \/ doc = "free" /\ doc' = "main" /\ mainAt' \in {"find", "fonts"}
  BY <1>4 DEF IdleTriesDoc, IsFree, MainJob, worker
<1>5. ASSUME HandlerReturns
      PROVE  /\ UNCHANGED wheld /\ Passes(doc, doc', FALSE, mainAt' # mainAt)
             /\ Passes(fc, fc', FALSE, mainAt' # mainAt) /\ MainHolds'
  BY <1>5 DEF HandlerReturns, HandlerLocks, HandlerUnlocks, SetLock, IsFree, worker
<1>6. ASSUME FontsTriesFc
      PROVE  /\ UNCHANGED <<doc, wheld>> /\ mainAt = "fonts" /\ fc # "main"
             /\ \/ fc = "free" /\ fc' = "main" /\ mainAt' = "scan"
                \/ fc' = fc /\ mainAt' = "loop"
  BY <1>6 DEF FontsTriesFc, IsFree, worker
<1> QED
  BY <1>1, <1>2, <1>3, <1>4, <1>5, <1>6 DEF StepReturns, Idle

\* What always holds of the locks and of the place of the two threads.
LockInvariant == LockShape /\ MainHolds

\* The invariant holds in every state.
LEMMA LockInvariantAlways == LockSpec => []LockInvariant
<1>1. LockInit => LockInvariant
  BY LockShapeInit DEF LockInvariant, LockInit, MainHolds
<1>2. LockInvariant /\ [LockNext]_lockVars => LockInvariant'
  <2> SUFFICES ASSUME LockInvariant, [LockNext]_lockVars PROVE LockInvariant'
    OBVIOUS
  <2> USE DEF LockInvariant
  <2>1. CASE \E kind \in Kind : StartJob(kind)
    <3>1. MainHolds'
      BY <2>1 DEF MainHolds, StartJob, mutexes
    <3> QED
      BY <2>1, <3>1, LockShapeWorker
  <2>2. CASE WorkerLocks \/ WorkerUnlocks
    <3>1. MainHolds'
      BY <2>2, WorkerPasses DEF MainHolds, Passes
    <3> QED
      BY <2>2, <3>1, LockShapeWorker
  <2>3. CASE \/ \E lock \in {"doc", "fc"} : Handler(lock)
             \/ HandlerReturns \/ StepReturns
             \/ \E j \in MainJob : PushMain(j) \/ CancelMain(j) \/ Idle(j)
    BY <2>3, LockShapeMain, MainPasses
  <2>4. CASE UNCHANGED lockVars
    BY <2>4 DEF lockVars, mutexes, worker, mainJobs, LockShape, LockTypeOK,
                WorkerHolds, RunsActiveJob, MainHolds
  <2> QED
    BY <2>1, <2>2, <2>3, <2>4 DEF LockNext, Kind
<1> QED
  BY <1>1, <1>2, PTL DEF LockSpec

\* Every variable of the two threads and of the main loop jobs keeps its type:
\* no job takes more locks than it has, and none takes more steps than it has.
THEOREM LocksTypeCorrect == LockSpec => []LockTypeOK
<1>1. LockInvariant => LockTypeOK
  BY DEF LockInvariant, LockShape
<1> QED
  BY <1>1, LockInvariantAlways, PTL

\* A mutex is taken only when it is free, and released only by the thread that
\* holds it: each unlock in ev-jobs.c and in the handlers meets its own lock,
\* as GMutex demands.
OwnersUnlock ==
  [][/\ Passes(doc, doc', wheld' # wheld, mainAt' # mainAt)
     /\ Passes(fc, fc', wheld' # wheld, mainAt' # mainAt)]_lockVars

\* That holds whatever jobs run, a reload under the dialog included.
THEOREM OwnersUnlockAlways == LockSpec => OwnersUnlock
<1> DEFINE Own == /\ Passes(doc, doc', wheld' # wheld, mainAt' # mainAt)
                  /\ Passes(fc, fc', wheld' # wheld, mainAt' # mainAt)
<1>1. LockInvariant /\ [LockNext]_lockVars => [Own]_lockVars
  <2> SUFFICES ASSUME LockInvariant, LockNext PROVE Own
    OBVIOUS
  <2> USE DEF LockInvariant
  <2>1. CASE \E kind \in Kind : StartJob(kind)
    BY <2>1 DEF StartJob, mutexes, Passes
  <2>2. CASE WorkerLocks \/ WorkerUnlocks
    BY <2>2, WorkerPasses DEF Passes
  <2>3. CASE \/ \E lock \in {"doc", "fc"} : Handler(lock)
             \/ HandlerReturns \/ StepReturns
             \/ \E j \in MainJob : PushMain(j) \/ CancelMain(j) \/ Idle(j)
    BY <2>3, MainPasses DEF Passes
  <2> QED
    BY <2>1, <2>2, <2>3 DEF LockNext, Kind
<1> QED
  BY <1>1, LockInvariantAlways, PTL DEF LockSpec, OwnersUnlock

-----------------------------------------------------------------------------
(* The main loop and the locks.                                            *)

\* The font lock is taken alone by loads only, and while fonts are scanned
\* there is none; so the worker has the document lock too when a scan finds
\* the font lock taken.
ScanAlone ==
  /\ dialog => wkind # "load"
  /\ state["fonts"] # "new" => dialog

\* Back in the main loop the main thread has no document lock.
KeepsNothing == doc = "main" => mainAt \in {"in_doc", "find", "fonts", "scan"}

\* MainLoopNotBlocked with what its induction needs.
NotBlockedInvariant == LockInvariant /\ ScanAlone /\ KeepsNothing

\* Nothing makes the main loop wait for a lock that a dialog holds.
LEMMA NotBlockedStep ==
  ASSUME ~ReloadUnderDialog, NotBlockedInvariant, LockInvariant', [LockNext]_lockVars
  PROVE  NotBlockedInvariant'
<1> USE DEF NotBlockedInvariant, ScanAlone, KeepsNothing
<1>1. ASSUME NEW kind \in Kind, StartJob(kind)
      PROVE  (ScanAlone /\ KeepsNothing)'
  BY <1>1 DEF StartJob, mutexes, mainJobs
<1>2. CASE WorkerLocks \/ WorkerUnlocks
  <2>1. /\ UNCHANGED <<mainAt, dialog, wkind, state>>
        /\ Passes(doc, doc', TRUE, FALSE)
    BY <1>2, WorkerPasses DEF LockInvariant, WorkerLocks, WorkerUnlocks, mainJobs
  <2> QED
    BY <2>1 DEF Passes
<1>3. CASE (\E lock \in {"doc", "fc"} : Handler(lock)) \/ HandlerReturns
  BY <1>3 DEF Handler, HandlerReturns, HandlerLocks, HandlerUnlocks, SetLock,
              mutexes, worker, mainJobs
<1>4. CASE FontsTriesFc
  <2>1. mainAt = "fonts" /\ doc = "main" /\ fc # "main" /\ dialog
    BY <1>4 DEF FontsTriesFc, LockInvariant, LockShape, MainHolds, RunsActiveJob,
                AtRun, MainJob
  <2>2. fc # "worker"
    BY <2>1 DEF LockInvariant, LockShape, LockTypeOK, WorkerHolds
  <2>3. fc = "free"
    BY <2>1, <2>2 DEF LockInvariant, LockShape, LockTypeOK
  <2> QED
    BY <1>4, <2>3 DEF FontsTriesFc, IsFree, worker, mainJobs
<1>5. ASSUME NEW j \in MainJob, Step(j)
      PROVE  (ScanAlone /\ KeepsNothing)'
  <2>1. j = "fonts" => state["fonts"] # "new"
    BY <1>5 DEF Step, LockInvariant, LockShape, RunsActiveJob, AtRun, MainJob
  <2>2. doc' = "free" /\ UNCHANGED <<dialog, wkind>>
    BY <1>5 DEF Step, worker
  <2>3. state'["fonts"] # "new" => state["fonts"] # "new"
    BY <1>5, <2>1 DEF Step, LockInvariant, LockShape, LockTypeOK, MainJob
  <2> QED
    BY <2>2, <2>3
<1>6. ASSUME NEW j \in MainJob, PushMain(j) \/ CancelMain(j) \/ IdleCancelled(j)
      PROVE  (ScanAlone /\ KeepsNothing)'
  <2>1. UNCHANGED <<doc, mainAt, dialog, wkind>>
    BY <1>6 DEF PushMain, CancelMain, IdleCancelled, mutexes, worker
  <2>2. state'["fonts"] # "new" => dialog
    BY <1>6 DEF PushMain, CancelMain, IdleCancelled, LockInvariant, LockShape,
                LockTypeOK, MainJob
  <2> QED
    BY <2>1, <2>2
<1>7. ASSUME NEW j \in MainJob, IdleTriesDoc(j)
      PROVE  (ScanAlone /\ KeepsNothing)'
  BY <1>7 DEF IdleTriesDoc, IsFree, MainJob, worker, mainJobs
<1>8. CASE UNCHANGED lockVars
  BY <1>8 DEF lockVars, mutexes, worker, mainJobs
<1> QED
  BY <1>1, <1>2, <1>3, <1>4, <1>5, <1>6, <1>7, <1>8 DEF LockNext, StepReturns, Idle, Kind

\* "Do not block the main loop" (ev_job_fonts_run, ev_job_find_run): unless a
\* document is loaded while its fonts are scanned, which is the finding of the
\* run locks_reload, the main thread never enters its loop, and never waits for
\* a lock, with a document lock in its hands.
THEOREM MainLoopNeverBlocked ==
  ASSUME ~ReloadUnderDialog
  PROVE  LockSpec => []MainLoopNotBlocked
<1>1. LockInit => ScanAlone /\ KeepsNothing
  BY DEF LockInit, ScanAlone, KeepsNothing, MainJob
<1>2. LockInvariant /\ LockInvariant' /\ ScanAlone /\ KeepsNothing /\ [LockNext]_lockVars
        => (ScanAlone /\ KeepsNothing)'
  BY NotBlockedStep DEF NotBlockedInvariant
<1>3. LockInvariant /\ ScanAlone /\ KeepsNothing => MainLoopNotBlocked
  BY DEF LockInvariant, MainHolds, KeepsNothing, MainLoopNotBlocked
<1> QED
  BY <1>1, <1>2, <1>3, LockInvariantAlways, PTL DEF LockSpec

\* An entry of a main loop job is in job_list exactly as long as the job is
\* active with its source attached, whichever of finished, cancelled and the
\* return of its run came last.
THEOREM EntriesHaveSources == LockSpec => []EntryHasSource
<1>1. LockInit => EntryHasSource
  BY DEF LockInit, EntryHasSource
<1>2. LockInvariant /\ EntryHasSource /\ [LockNext]_lockVars => EntryHasSource'
  <2> SUFFICES ASSUME LockInvariant, EntryHasSource, [LockNext]_lockVars,
                      NEW k \in MainJob
               PROVE  entry'[k] <=> state'[k] = "active" /\ source'[k]
    BY DEF EntryHasSource
  <2>1. entry[k] <=> state[k] = "active" /\ source[k]
    BY DEF EntryHasSource
  <2>2. /\ state \in [MainJob -> {"new", "active", "cancelled", "finished"}]
        /\ source \in [MainJob -> BOOLEAN] /\ entry \in [MainJob -> BOOLEAN]
    BY DEF LockInvariant, LockShape, LockTypeOK
  <2>3. CASE UNCHANGED mainJobs
    BY <2>1, <2>3 DEF mainJobs
  <2>4. ASSUME NEW j \in MainJob, PushMain(j) \/ CancelMain(j) \/ IdleCancelled(j) \/ Step(j)
        PROVE  entry'[k] <=> state'[k] = "active" /\ source'[k]
    <3>1. CASE k # j
      BY <2>1, <2>2, <2>4, <3>1 DEF PushMain, CancelMain, IdleCancelled, Step
    <3>2. CASE k = j /\ PushMain(j)
      BY <2>2, <3>2 DEF PushMain
    <3>3. CASE k = j /\ CancelMain(j)
      BY <2>2, <3>3 DEF CancelMain
    <3>4. CASE k = j /\ IdleCancelled(j)
      BY <2>1, <2>2, <3>4 DEF IdleCancelled
    <3>5. CASE k = j /\ Step(j)
      BY <2>1, <2>2, <3>5 DEF Step
    <3> QED
      BY <2>4, <3>1, <3>2, <3>3, <3>4, <3>5
  <2>5. UNCHANGED mainJobs \/ \E j \in MainJob :
          PushMain(j) \/ CancelMain(j) \/ IdleCancelled(j) \/ Step(j)
    BY DEF LockNext, StartJob, WorkerLocks, WorkerUnlocks, Handler, HandlerReturns,
           HandlerLocks, HandlerUnlocks, StepReturns, FontsTriesFc, Idle, IdleTriesDoc, lockVars
  <2> QED
    BY <2>3, <2>4, <2>5
<1> QED
  BY <1>1, <1>2, LockInvariantAlways, PTL DEF LockSpec

(***************************************************************************)
(* The files.                                                              *)
(***************************************************************************)
-----------------------------------------------------------------------------
(* The invariants.                                                         *)

\* A file of one of these kinds, or none.
FileOf(kinds) == (kinds \X Nat) \union {NoFile}

Document ==
  [n : Nat \ {0}, type : Types, unc : FileOf({"comp"}), dir : FileOf({"comics"}),
   ready : BOOLEAN, backend : {"comics", "plain"}]
MaybeDocument == Document \union {NoDoc}

\* What each of the holders may have.
Loading ==
  [at : {AtRest, "type", "open", "end", "password", "again", "repeated"}, slow : BOOLEAN,
   doc : MaybeDocument, error : {"none", "io", "invalid", "encrypted"},
   copy : FileOf({"document"})]
Saving ==
  [at : {AtRest, "temp", "compress", "transfer"}, doc : MaybeDocument,
   local : FileOf({"comp", "saveacopy"}), told : {"nothing", "finished", "failed"}]
Extras == [attachment : FileOf({"attachment"}), image : FileOf({"image"})]

FilesShape ==
  /\ FilesTypeOK /\ made \in Nat
  /\ load \in Loading /\ shown \in MaybeDocument /\ extras \in Extras /\ save \in Saving
  /\ uploads \subseteq {"upload"} \X Nat

\* What the load job has at each of its places: a document from the one that the
\* factory opens on, with the error of a decompression at the most before it is
\* opened.
LoadTurns ==
  /\ load.at \in {AtRest, "type"} => load.doc = NoDoc
  /\ load.at = "type" => load.error = "none"
  /\ load.at \in {"open", "again", "password"} => load.doc \in Document
  /\ load.at = "open" => /\ ~load.doc.ready /\ load.doc.dir = NoFile
                         /\ load.error \in {"none", "io"}
  /\ FactoryKeepsItsWord

\* The save job has nothing before it is begun and when it has ended; the thumbnailer
\* has no window, and evince copies no file before it loads it.
SaveTurns ==
  /\ save.at = AtRest => save.doc = NoDoc
  /\ save.at \in {AtRest, "temp"} => save.local = NoFile
ProgramTurns ==
  /\ program = "evince" => load.copy = NoFile
  /\ program = "thumbnailer" =>
       /\ shown = NoDoc /\ extras = NoExtras /\ save.at = AtRest /\ uploads = {}
       /\ load.at = AtRest /\ ~over => load.error = "none" /\ load.copy = NoFile

\* No file belongs to two documents, and the copy that is being saved to none.
DocumentsApart ==
  /\ OwnedBy(load.doc) \intersect (OwnedBy(shown) \union OwnedBy(save.doc)) = {}
  /\ save.doc = shown \/ OwnedBy(save.doc) \intersect OwnedBy(shown) = {}
  /\ save.local \notin OwnedBy(load.doc) \union OwnedBy(shown) \union OwnedBy(save.doc)

\* The invariant: the types, the turns of the workers and of the program, and that no two
\* documents share a temporary file and each such file has an owner.
FilesInvariant ==
  /\ FilesShape /\ LoadTurns /\ SaveTurns /\ ProgramTurns /\ DocumentsApart
  /\ TemporaryFilesHaveOwners

-----------------------------------------------------------------------------
(* Documents and their files.                                              *)

\* A document is none that there is not, and has its files of two kinds.
LEMMA DocumentsOwn ==
  /\ NoDoc \notin Document
  /\ OwnedBy(NoDoc) = {}
  /\ \A d \in MaybeDocument : OwnedBy(d) \subseteq {"comp", "comics"} \X Nat
<1>1. NoDoc.n = 0
  BY DEF NoDoc
<1>2. \A d \in Document : d.n # 0
  BY DEF Document
<1>3. NoDoc \notin Document
  BY <1>1, <1>2
<1>4. OwnedBy(NoDoc) = {}
  BY DEF OwnedBy
<1>5. ASSUME NEW d \in Document
      PROVE  OwnedBy(d) \subseteq {"comp", "comics"} \X Nat
  BY <1>5 DEF OwnedBy, Document, FileOf
<1> QED
  BY <1>3, <1>4, <1>5 DEF MaybeDocument

\* The files of a document are the one it was uncompressed to and its directory,
\* whatever else is known of it.
LEMMA FilesOfDocument ==
  ASSUME NEW d \in Document
  PROVE  /\ OwnedBy(d) = {d.unc, d.dir} \ {NoFile}
         /\ OwnedBy([d EXCEPT !.ready = TRUE]) = OwnedBy(d)
         /\ OwnedBy([d EXCEPT !.ready = FALSE]) = OwnedBy(d)
<1>1. d # NoDoc
  BY DocumentsOwn
<1>2. \A b \in BOOLEAN : [d EXCEPT !.ready = b] \in Document
  BY DEF Document
<1>3. \A b \in BOOLEAN : [d EXCEPT !.ready = b] # NoDoc
  BY <1>2, DocumentsOwn
<1>4. \A b \in BOOLEAN : /\ [d EXCEPT !.ready = b].unc = d.unc
                         /\ [d EXCEPT !.ready = b].dir = d.dir
  BY DEF Document
<1> QED
  BY <1>1, <1>3, <1>4 DEF OwnedBy

-----------------------------------------------------------------------------
(* Types, and the word of the factory.                                     *)

\* The document the factory begins with, for the type that was found.
LEMMA NewDocument ==
  ASSUME NEW n \in Nat \ {0}, NEW type \in Types, NEW unc \in FileOf({"comp"}),
         NEW backend \in {"comics", "plain"}
  PROVE  [n |-> n, type |-> type, unc |-> unc, dir |-> NoFile, ready |-> FALSE,
          backend |-> backend] \in Document
  BY DEF Document, FileOf

\* The kinds of all temporary files, as the type invariant has them.
FileKinds == {"comp", "comics", "attachment", "image", "dragged", "upload", "saveacopy",
              "document"}

\* With more files made, those that are there and the new ones are of the types.
LEMMA FilesGrow ==
  ASSUME NEW old \in Nat, NEW new \in Nat, old <= new
  PROVE  /\ FileKinds \X (1 .. old) \subseteq FileKinds \X (1 .. new)
         /\ \A kind \in FileKinds, n \in 1 .. new : <<kind, n>> \in FileKinds \X (1 .. new)
<1>1. 1 .. old \subseteq 1 .. new
  OBVIOUS
<1> QED
  BY <1>1

\* How the load of an opened file may end, as the error says it.
LEMMA ErrorOfLoad ==
  ASSUME NEW before \in {"none", "io", "invalid", "encrypted"},
         NEW end \in {"ok", "encrypted", "invalid", "silent"}
  PROVE  /\ LoadError(before, end) \in {"none", "io", "invalid", "encrypted"}
         /\ LoadError(before, end) = "none" <=> before = "none" /\ end = "ok"
         /\ before \in {"none", "io"} /\ LoadError(before, end) = "encrypted" =>
              end = "encrypted"
<1>1. CASE before # "none"
  BY <1>1 DEF LoadError
<1>2. CASE before = "none" /\ end = "ok"
  BY <1>2 DEF LoadError
<1>3. CASE before = "none" /\ end = "encrypted"
  BY <1>3 DEF LoadError
<1>4. CASE before = "none" /\ end \notin {"ok", "encrypted"}
  BY <1>4 DEF LoadError
<1> QED
  BY <1>1, <1>2, <1>3, <1>4

\* Every load of a back end ends in one of four ways.
LEMMA LoadsEnd ==
  ASSUME NEW d, NEW l \in Loads(d)
  PROVE  l.end \in {"ok", "encrypted", "invalid", "silent"}
<1>1. CASE l \in PlainLoads
  BY <1>1 DEF PlainLoads
<1>2. CASE l \in ComicsLoads
  <2>1. \/ l = [dir |-> FALSE, end |-> "silent"]
        \/ l = [dir |-> FALSE, end |-> "invalid"]
        \/ l = [dir |-> TRUE, end |-> "invalid"]
        \/ l = [dir |-> TRUE, end |-> "ok"]
        \/ l = [dir |-> FALSE, end |-> "ok"]
    BY <1>2, Zenon DEF ComicsLoads
  <2> QED
    BY <2>1
<1> QED
  BY <1>1, <1>2 DEF Loads

\* The first states have the types.
LEMMA FilesShapeInit == FilesInit => FilesShape /\ LoadTurns
<1> SUFFICES ASSUME FilesInit
             PROVE  FilesShape /\ LoadTurns
  OBVIOUS
<1> USE DEF FilesInit
<1>1. original \in Source
  BY FilesAssumption
<1>2. NoDoc \in MaybeDocument
  BY DEF MaybeDocument
<1>3. \A kinds : NoFile \in FileOf(kinds)
  BY DEF FileOf
<1>4. FilesTypeOK
  BY <1>1 DEF FilesTypeOK, AtRest
<1>5. load \in Loading
  BY <1>2, <1>3 DEF Loading
<1>6. extras \in Extras
  BY <1>3 DEF NoExtras, Extras
<1>7. save \in Saving
  BY <1>2, <1>3 DEF Saving
<1>8. LoadTurns
  BY DEF LoadTurns, FactoryKeepsItsWord, AtRest
<1> QED
  BY <1>2, <1>4, <1>5, <1>6, <1>7, <1>8 DEF FilesShape

\* A call of the factory that ends with one of the three things it may say.
LEMMA EndsWell ==
  ASSUME load \in Loading, NEW document \in MaybeDocument,
         NEW error \in {"none", "io", "invalid", "encrypted"}, Ends(document, error),
         \/ document = NoDoc /\ error \notin {"none", "encrypted"}
         \/ document \in Document /\ document.ready /\ error = "none"
         \/ document \in Document /\ ~document.ready /\ error = "encrypted"
  PROVE  load' \in Loading /\ LoadTurns'
<1>1. load' = [load EXCEPT !.at = "end", !.doc = document, !.error = error]
  BY DEF Ends
<1>2. load' \in Loading
  BY <1>1 DEF Loading
<1>3. load'.at = "end" /\ load'.doc = document /\ load'.error = error
  BY <1>1 DEF Loading
<1>4. document \in Document => document # NoDoc
  BY DocumentsOwn
<1> QED
  BY <1>2, <1>3, <1>4 DEF LoadTurns, FactoryKeepsItsWord, AtRest

\* The second attempt begins without a document and without an error.
LEMMA BeginsAgain ==
  ASSUME load \in Loading, TriesAgain
  PROVE  load' \in Loading /\ LoadTurns' /\ load'.doc = NoDoc
<1>1. load' = [load EXCEPT !.at = "type", !.slow = TRUE, !.doc = NoDoc, !.error = "none"]
  BY DEF TriesAgain
<1>2. load' \in Loading
  BY <1>1 DEF Loading, MaybeDocument
<1>3. load'.at = "type" /\ load'.doc = NoDoc /\ load'.error = "none"
  BY <1>1 DEF Loading
<1> QED
  BY <1>2, <1>3 DEF LoadTurns, FactoryKeepsItsWord, AtRest

\* What a document that the factory begins with is.
NewDoc(type) ==
  [n |-> made + 1, type |-> type, unc |-> NoFile, dir |-> NoFile, ready |-> FALSE,
   backend |-> IF type \in Comics THEN "comics" ELSE "plain"]

\* The step from the type that was found, as far as the load job goes.
LEMMA TypeFoundLoads ==
  ASSUME FilesShape, LoadTurns, TypeFound
  PROVE  load' \in Loading /\ LoadTurns'
<1> DEFINE type == IF load.slow THEN original.slow ELSE original.fast
<1>1. type \in Types
  BY DEF FilesShape, FilesTypeOK, Source
<1>2. made + 1 \in Nat \ {0} /\ load \in Loading
  BY DEF FilesShape
<1>3. NoDoc \in MaybeDocument
  BY DEF MaybeDocument
<1>4. /\ NewDoc(type) \in Document /\ ~NewDoc(type).ready
      /\ [NewDoc(type) EXCEPT !.unc = NewFile("comp")] \in Document
      /\ [NewDoc(type) EXCEPT !.unc = NewFile("comp")].dir = NoFile
      /\ ~[NewDoc(type) EXCEPT !.unc = NewFile("comp")].ready
      /\ NewDoc(type).dir = NoFile
  BY <1>1, <1>2 DEF NewDoc, Document, FileOf, NewFile
<1>5. load.error = "none"
  BY DEF TypeFound, LoadTurns
<1> HIDE DEF type
<1>6. \/ Ends(NoDoc, "invalid") \/ Ends(NoDoc, "io") \/ TriesAgain
      \/ load' = [load EXCEPT !.at = "open", !.doc = NewDoc(type)]
      \/ \E run \in CompressionRuns :
           load' = [load EXCEPT
                      !.at = "open", !.doc = [NewDoc(type) EXCEPT !.unc = NewFile("comp")],
                      !.error = IF run.error THEN "io" ELSE "none"]
  BY DEF TypeFound, NewDoc, type
<1>7. CASE Ends(NoDoc, "invalid") \/ Ends(NoDoc, "io")
  BY <1>7, <1>2, <1>3, EndsWell
<1>8. CASE TriesAgain
  BY <1>8, <1>2, BeginsAgain
<1>9. ASSUME NEW document \in Document, NEW error \in {"none", "io"}, ~document.ready, document.dir = NoFile,
             load' = [load EXCEPT !.at = "open", !.doc = document, !.error = error]
      PROVE  load' \in Loading /\ LoadTurns'
  <2>1. load' \in Loading
    BY <1>9, <1>2 DEF Loading, MaybeDocument
  <2>2. load'.at = "open" /\ load'.doc = document /\ load'.error = error
    BY <1>9, <1>2 DEF Loading
  <2> QED
    BY <1>9, <2>1, <2>2 DEF LoadTurns, FactoryKeepsItsWord, AtRest
<1>10. CASE load' = [load EXCEPT !.at = "open", !.doc = NewDoc(type)]
  <2>1. load' = [load EXCEPT !.at = "open", !.doc = NewDoc(type), !.error = "none"]
    BY <1>10, <1>2, <1>5 DEF Loading
  <2> QED
    BY <1>4, <1>9, <2>1
<1>11. ASSUME NEW run \in CompressionRuns,
              load' = [load EXCEPT
                      !.at = "open", !.doc = [NewDoc(type) EXCEPT !.unc = NewFile("comp")],
                      !.error = IF run.error THEN "io" ELSE "none"]
       PROVE  load' \in Loading /\ LoadTurns'
  <2> DEFINE error == IF run.error THEN "io" ELSE "none"
             document == [NewDoc(type) EXCEPT !.unc = NewFile("comp")]
  <2>1. error \in {"none", "io"} /\ document \in Document /\ ~document.ready /\ document.dir = NoFile
    BY <1>4
  <2>2. load' = [load EXCEPT !.at = "open", !.doc = document, !.error = error]
    BY <1>11
  <2> HIDE DEF document, error
  <2> QED
    BY <1>9, <2>1, <2>2
<1> QED
  BY <1>6, <1>7, <1>8, <1>10, <1>11

\* The document with its directory when the back end has loaded it, or not.
LEMMA OpenedDocument ==
  ASSUME FilesShape, NEW d \in Document, ~d.ready, NEW dir \in {NoFile, NewFile("comics")}
  PROVE  /\ [d EXCEPT !.dir = dir] \in Document
         /\ ~[d EXCEPT !.dir = dir].ready
         /\ [[d EXCEPT !.dir = dir] EXCEPT !.ready = TRUE] \in Document
         /\ [[d EXCEPT !.dir = dir] EXCEPT !.ready = TRUE].ready
         /\ OwnedBy([d EXCEPT !.dir = dir]) = {d.unc, dir} \ {NoFile}
         /\ OwnedBy([[d EXCEPT !.dir = dir] EXCEPT !.ready = TRUE]) = {d.unc, dir} \ {NoFile}
<1> DEFINE e == [d EXCEPT !.dir = dir]
<1>1. dir \in FileOf({"comics"})
  BY DEF FilesShape, NewFile, FileOf
<1>2. e \in Document /\ ~e.ready /\ e.unc = d.unc /\ e.dir = dir
  BY <1>1 DEF Document
<1> HIDE DEF e
<1>3. [e EXCEPT !.ready = TRUE] \in Document /\ [e EXCEPT !.ready = TRUE].ready
  BY <1>2 DEF Document
<1>4. /\ OwnedBy(e) = {d.unc, dir} \ {NoFile}
      /\ OwnedBy([e EXCEPT !.ready = TRUE]) = OwnedBy(e)
  BY <1>2, FilesOfDocument
<1> QED
  BY <1>2, <1>3, <1>4 DEF e

\* The step of the back end that opens the file.
LEMMA OpenFileLoads ==
  ASSUME FilesShape, LoadTurns, OpenFile
  PROVE  load' \in Loading /\ LoadTurns'
<1>1. PICK l \in Loads(load.doc) :
        /\ Opened([load.doc EXCEPT !.dir = IF l.dir THEN NewFile("comics") ELSE NoFile],
                  l.end, LoadError(load.error, l.end))
        /\ IF l.dir THEN Made("comics") ELSE NothingMade
  BY DEF OpenFile
<1> DEFINE dir == IF l.dir THEN NewFile("comics") ELSE NoFile
           document == [load.doc EXCEPT !.dir = dir]
           error == LoadError(load.error, l.end)
<1>2. /\ load \in Loading /\ load.doc \in Document /\ ~load.doc.ready
      /\ load.error \in {"none", "io"}
  BY DEF OpenFile, LoadTurns, FilesShape
<1>3. dir \in {NoFile, NewFile("comics")}
  OBVIOUS
<1>4. /\ document \in Document /\ ~document.ready
      /\ [document EXCEPT !.ready = TRUE] \in Document /\ [document EXCEPT !.ready = TRUE].ready
  <2> HIDE DEF dir
  <2> QED
    BY <1>2, <1>3, OpenedDocument DEF document
<1>5. l.end \in {"ok", "encrypted", "invalid", "silent"}
  BY LoadsEnd
<1>6. error \in {"none", "io", "invalid", "encrypted"}
  BY <1>2, <1>5, ErrorOfLoad
<1>7. Opened(document, l.end, error)
  BY <1>1
<1> HIDE DEF document, error, dir
<1>8. \/ Ends([document EXCEPT !.ready = TRUE], "none")
      \/ error = "encrypted" /\ Ends(document, error)
      \/ Ends(NoDoc, IF error = "none" THEN "invalid" ELSE error) /\ error # "encrypted"
      \/ TriesAgain
  BY <1>7 DEF Opened
<1>9. document \in MaybeDocument /\ [document EXCEPT !.ready = TRUE] \in MaybeDocument
      /\ NoDoc \in MaybeDocument
  BY <1>4 DEF MaybeDocument
<1>10. CASE Ends([document EXCEPT !.ready = TRUE], "none")
  <2> DEFINE ready == [document EXCEPT !.ready = TRUE]
  <2>1. ready \in Document /\ ready.ready /\ ready \in MaybeDocument /\ Ends(ready, "none")
    BY <1>4, <1>9, <1>10
  <2> HIDE DEF ready
  <2> QED
    BY <1>2, <2>1, EndsWell
<1>11. CASE error = "encrypted" /\ Ends(document, error)
  BY <1>2, <1>4, <1>6, <1>9, <1>11, EndsWell
<1>12. CASE Ends(NoDoc, IF error = "none" THEN "invalid" ELSE error) /\ error # "encrypted"
  <2> DEFINE answer == IF error = "none" THEN "invalid" ELSE error
  <2>1. answer \in {"none", "io", "invalid", "encrypted"} \ {"none", "encrypted"}
    BY <1>6, <1>12
  <2>2. Ends(NoDoc, answer)
    BY <1>12
  <2> HIDE DEF answer
  <2> QED
    BY <1>2, <1>9, <2>1, <2>2, EndsWell
<1>13. CASE TriesAgain
  BY <1>2, <1>13, BeginsAgain
<1> QED
  BY <1>8, <1>10, <1>11, <1>12, <1>13

\* The second load, with a password.
LEMMA OpenAgainLoads ==
  ASSUME FilesShape, LoadTurns, OpenAgain
  PROVE  load' \in Loading /\ LoadTurns' /\ OwnedBy(load'.doc) = OwnedBy(load.doc)
<1>1. PICK l \in PlainLoads :
        load' = [load EXCEPT !.at = "repeated", !.error = LoadError("none", l.end),
                             !.doc.ready = (l.end = "ok")]
  BY DEF OpenAgain
<1> DEFINE error == LoadError("none", l.end)
           ready == l.end = "ok"
           document == [load.doc EXCEPT !.ready = ready]
<1>2. load \in Loading /\ load.doc \in Document
  BY DEF OpenAgain, LoadTurns, FilesShape
<1>3. l.end \in {"ok", "encrypted", "invalid", "silent"} /\ ready \in BOOLEAN
  BY DEF PlainLoads
<1>4. error \in {"none", "io", "invalid", "encrypted"} /\ (error = "none" <=> ready)
  BY <1>3, ErrorOfLoad
<1>5. load' = [load EXCEPT !.at = "repeated", !.error = error, !.doc = document]
  BY <1>1, <1>2 DEF Loading
<1>6. document \in Document /\ document.ready = ready
  BY <1>2, <1>3 DEF Document
<1>7. OwnedBy(document) = OwnedBy(load.doc)
  <2>1. CASE ready = TRUE
    BY <1>2, <2>1, FilesOfDocument
  <2>2. CASE ready = FALSE
    BY <1>2, <2>2, FilesOfDocument
  <2> HIDE DEF ready
  <2> QED
    BY <1>3, <2>1, <2>2
<1> HIDE DEF document, error, ready
<1>8. document \in MaybeDocument /\ document # NoDoc
  BY <1>6, DocumentsOwn DEF MaybeDocument
<1>9. load' \in Loading
  BY <1>2, <1>4, <1>5, <1>8 DEF Loading
<1>10. load'.at = "repeated" /\ load'.doc = document /\ load'.error = error
  BY <1>2, <1>5 DEF Loading
<1>11. LoadTurns'
  BY <1>4, <1>6, <1>8, <1>10 DEF LoadTurns, FactoryKeepsItsWord, AtRest
<1> QED
  BY <1>7, <1>9, <1>10, <1>11

\* A step that leaves the load job without a document, and in no other place than at
\* rest or before the type is found.
LEMMA LoadWithoutDocument ==
  ASSUME load' \in Loading, load'.at \in {AtRest, "type"}, load'.doc = NoDoc,
         load'.at = "type" => load'.error = "none"
  PROVE  LoadTurns'
  BY DEF LoadTurns, FactoryKeepsItsWord, AtRest

\* The steps of the window and of the thumbnailer that change the load job.
LEMMA OthersLoad ==
  ASSUME FilesShape, LoadTurns, ProgramTurns,
         Load \/ LoadFinished \/ Quit \/ Fetch \/ Thumbnail
  PROVE  load' \in Loading /\ LoadTurns'
<1>0. load \in Loading
  BY DEF FilesShape
<1>1. NoDoc \in MaybeDocument
  BY DEF MaybeDocument
<1>2. ASSUME load' = [load EXCEPT !.at = AtRest, !.doc = NoDoc]
      PROVE  load' \in Loading /\ LoadTurns'
  <2>1. load' \in Loading
    BY <1>0, <1>1, <1>2 DEF Loading
  <2>2. load'.at = AtRest /\ load'.doc = NoDoc
    BY <1>0, <1>2 DEF Loading
  <2> QED
    BY <2>1, <2>2, LoadWithoutDocument DEF AtRest
<1>3. CASE Load
  <2>1. CASE load.at = AtRest
              /\ load' = [load EXCEPT !.at = "type", !.slow = FALSE, !.error = "none"]
    <3>1. load' \in Loading /\ load'.at = "type" /\ load'.error = "none"
          /\ load'.doc = load.doc
      BY <1>0, <2>1 DEF Loading
    <3>2. load.doc = NoDoc
      BY <2>1 DEF LoadTurns
    <3> QED
      BY <3>1, <3>2, LoadWithoutDocument
  <2>2. CASE load.at = "password" /\ load' = [load EXCEPT !.at = "again"]
    <3>1. load' \in Loading /\ load'.at = "again" /\ load'.doc = load.doc
      BY <1>0, <2>2 DEF Loading
    <3>2. load.doc \in Document
      BY <2>2 DEF LoadTurns
    <3> QED
      BY <3>1, <3>2 DEF LoadTurns, FactoryKeepsItsWord, AtRest
  <2> QED
    BY <1>3, <2>1, <2>2 DEF Load
<1>4. CASE LoadFinished
  <2>1. CASE load.error = "encrypted" /\ load' = [load EXCEPT !.at = "password"]
    <3>1. load' \in Loading /\ load'.at = "password" /\ load'.doc = load.doc
      BY <1>0, <2>1 DEF Loading
    <3>2. load.doc \in Document
      BY <1>0, <1>4, <2>1 DEF LoadFinished, LoadTurns, FactoryKeepsItsWord, Loading,
                              MaybeDocument
    <3> QED
      BY <3>1, <3>2 DEF LoadTurns, FactoryKeepsItsWord, AtRest
  <2> QED
    BY <1>2, <1>4, <2>1 DEF LoadFinished
<1>5. CASE Quit
  <2>1. CASE load' = load
    BY <1>0, <2>1 DEF LoadTurns, FactoryKeepsItsWord
  <2> QED
    BY <1>2, <1>5, <2>1 DEF Quit
<1>6. CASE Fetch
  <2>1. load.at = AtRest /\ load.doc = NoDoc /\ load.error = "none"
    BY <1>6 DEF Fetch, LoadTurns, ProgramTurns
  <2>2. NewFile("document") \in FileOf({"document"})
    BY DEF NewFile, FileOf, FilesShape
  <2>3. \/ load' = [load EXCEPT !.at = "type"]
        \/ load' = [load EXCEPT !.at = "type", !.copy = NewFile("document")]
        \/ load' = load
    BY <1>6 DEF Fetch
  <2>4. load' \in Loading /\ load'.at \in {AtRest, "type"} /\ load'.doc = NoDoc
        /\ load'.error = "none"
    BY <1>0, <2>1, <2>2, <2>3 DEF Loading
  <2> QED
    BY <2>4, LoadWithoutDocument
<1>7. CASE Thumbnail
  <2>1. load' = [load EXCEPT !.at = AtRest, !.doc = NoDoc, !.copy = NoFile]
    BY <1>7 DEF Thumbnail
  <2>2. NoFile \in FileOf({"document"})
    BY DEF FileOf
  <2>3. load' \in Loading /\ load'.at = AtRest /\ load'.doc = NoDoc
    BY <1>0, <1>1, <2>1, <2>2 DEF Loading
  <2> QED
    BY <2>3, LoadWithoutDocument DEF AtRest
<1> QED
  BY <1>3, <1>4, <1>5, <1>6, <1>7

\* The files of a step: some of those there were, and new ones.
NewKind(kind) == files' \subseteq files \union {NewFile(kind)} /\ made' = made + 1
NoneNew == files' \subseteq files /\ made' = made
TwoUploads ==
  files' \subseteq files \union {<<"upload", made + 1>>, <<"upload", made + 2>>}
    /\ made' = made + 2

\* The files a step leaves have the types.
LEMMA FilesTyped ==
  ASSUME FilesShape,
         \/ NoneNew \/ (files' \subseteq files /\ made' = made + 1) \/ TwoUploads
         \/ \E kind \in FileKinds : NewKind(kind)
  PROVE  made' \in Nat /\ files' \subseteq FileKinds \X (1 .. made')
<1>1. made \in Nat /\ files \subseteq FileKinds \X (1 .. made)
  BY DEF FilesShape, FilesTypeOK, FileKinds
<1>2. made' \in Nat /\ made <= made'
  BY <1>1 DEF NoneNew, NewKind, TwoUploads
<1>3. FileKinds \X (1 .. made) \subseteq FileKinds \X (1 .. made')
  BY <1>1, <1>2, FilesGrow
<1>4. CASE files' \subseteq files
  BY <1>1, <1>2, <1>3, <1>4
<1>5. ASSUME NEW kind \in FileKinds, NewKind(kind)
      PROVE  files' \subseteq FileKinds \X (1 .. made')
  <2>1. made + 1 \in 1 .. made'
    BY <1>1, <1>5 DEF NewKind
  <2>2. NewFile(kind) \in FileKinds \X (1 .. made')
    BY <2>1 DEF NewFile
  <2> QED
    BY <1>1, <1>3, <1>5, <2>2 DEF NewKind
<1>6. CASE TwoUploads
  <2>1. made + 1 \in 1 .. made' /\ made + 2 \in 1 .. made'
    BY <1>1, <1>6 DEF TwoUploads
  <2>2. {<<"upload", made + 1>>, <<"upload", made + 2>>} \subseteq FileKinds \X (1 .. made')
    BY <2>1 DEF FileKinds
  <2> QED
    BY <1>1, <1>3, <1>6, <2>2 DEF TwoUploads
<1> QED
  BY <1>2, <1>4, <1>5, <1>6 DEF NoneNew

\* What the opening of a file does, with the document after it; "unc" is there since
\* the factory began with it.
LEMMA OpenFileSteps ==
  ASSUME FilesShape, LoadTurns, Owned \subseteq files, OpenFile
  PROVE  \E dir \in {NoFile, NewFile("comics")} :
           /\ IF dir = NoFile THEN NothingMade ELSE Made("comics")
           /\ \/ /\ files' = files \union ({load.doc.unc, dir} \ {NoFile})
                 /\ OwnedBy(load'.doc) = {load.doc.unc, dir} \ {NoFile}
              \/ /\ files' = files \ ({load.doc.unc, dir} \ {NoFile})
                 /\ load'.doc = NoDoc
           /\ load'.copy = load.copy
<1>1. PICK l \in Loads(load.doc) :
        /\ Opened([load.doc EXCEPT !.dir = IF l.dir THEN NewFile("comics") ELSE NoFile],
                  l.end, LoadError(load.error, l.end))
        /\ IF l.dir THEN Made("comics") ELSE NothingMade
  BY DEF OpenFile
<1> DEFINE dir == IF l.dir THEN NewFile("comics") ELSE NoFile
           document == [load.doc EXCEPT !.dir = dir]
           error == LoadError(load.error, l.end)
<1>2. load \in Loading /\ load.doc \in Document /\ ~load.doc.ready
  BY DEF OpenFile, LoadTurns, FilesShape
<1>3. dir \in {NoFile, NewFile("comics")} /\ NewFile("comics") # NoFile
  BY DEF NoFile, NewFile
<1>4. IF dir = NoFile THEN NothingMade ELSE Made("comics")
  BY <1>1, <1>3
<1>5. /\ OwnedBy(document) = {load.doc.unc, dir} \ {NoFile}
      /\ OwnedBy([document EXCEPT !.ready = TRUE]) = {load.doc.unc, dir} \ {NoFile}
  <2> HIDE DEF dir
  <2> QED
    BY <1>2, <1>3, OpenedDocument DEF document
<1>6. Opened(document, l.end, error)
  BY <1>1
<1> HIDE DEF document, error, dir
<1>7. ASSUME NEW d, NEW e, Ends(d, e)
      PROVE  load'.doc = d /\ load'.copy = load.copy
  BY <1>2, <1>7 DEF Ends, Loading
<1>8. CASE Ends([document EXCEPT !.ready = TRUE], "none") /\ files' = files \union OwnedBy(document)
  BY <1>3, <1>4, <1>5, <1>7, <1>8
<1>9. CASE Ends(document, error) /\ files' = files \union OwnedBy(document)
  BY <1>3, <1>4, <1>5, <1>7, <1>9
<1>10. CASE Ends(NoDoc, IF error = "none" THEN "invalid" ELSE error)
              /\ files' = files \ OwnedBy(document)
  BY <1>3, <1>4, <1>5, <1>7, <1>10
<1>11. CASE TriesAgain /\ files' = files \ OwnedBy(document)
  <2>1. load'.doc = NoDoc /\ load'.copy = load.copy
    BY <1>2, <1>11 DEF TriesAgain, Loading
  <2> QED
    BY <1>3, <1>4, <1>5, <1>11, <2>1
<1> QED
  BY <1>6, <1>8, <1>9, <1>10, <1>11 DEF Opened

\* Every step makes one file, two, or none.
LEMMA FilesOfStep ==
  ASSUME FilesShape, LoadTurns, Owned \subseteq files, [FilesNext]_fileVars
  PROVE  \/ NoneNew \/ (files' \subseteq files /\ made' = made + 1) \/ TwoUploads
         \/ \E kind \in FileKinds : NewKind(kind)
<1> USE DEF NoneNew, NewKind, TwoUploads
<1>0. {"comp", "comics", "attachment", "image", "dragged", "upload", "saveacopy",
       "document"} \subseteq FileKinds
  BY DEF FileKinds
<1>1. CASE TypeFound
  <2>1. CASE files' = files /\ made' = made
    BY <2>1
  <2>2. CASE made' = made + 1 /\ files' = files
    BY <2>2
  <2>3. CASE made' = made + 1 /\ files' = files \union {NewFile("comp")}
    BY <1>0, <2>3
  <2> QED
    BY <1>1, <2>1, <2>2, <2>3 DEF TypeFound
<1>2. CASE OpenFile
  <2>1. PICK dir \in {NoFile, NewFile("comics")} :
           /\ IF dir = NoFile THEN NothingMade ELSE Made("comics")
           /\ \/ files' = files \union ({load.doc.unc, dir} \ {NoFile})
              \/ files' = files \ ({load.doc.unc, dir} \ {NoFile})
    BY <1>2, OpenFileSteps
  <2>2. {load.doc.unc} \ {NoFile} \subseteq files
    <3>1. load.doc \in Document
      BY <1>2 DEF OpenFile, LoadTurns
    <3>2. {load.doc.unc} \ {NoFile} \subseteq OwnedBy(load.doc)
      BY <3>1, FilesOfDocument
    <3> QED
      BY <3>2 DEF Owned
  <2>3. CASE dir = NoFile
    BY <2>1, <2>2, <2>3 DEF NothingMade
  <2>4. CASE dir = NewFile("comics")
    BY <1>0, <2>1, <2>2, <2>4 DEF Made, NothingMade
  <2> QED
    BY <2>3, <2>4
<1>3. CASE OpenAgain
  BY <1>3 DEF OpenAgain
<1>4. CASE SaveTemp
  <2>1. CASE SaveEnds("failed", {}) /\ NothingMade
    BY <2>1 DEF SaveEnds, NothingMade
  <2>2. CASE made' = made + 1 /\ files' \subseteq files \union {NewFile("saveacopy")}
    BY <1>0, <2>2
  <2> QED
    BY <1>4, <2>1, <2>2 DEF SaveTemp, Made
<1>5. CASE SaveCompress
  <2>1. CASE \E remaining : SaveEnds("nothing", remaining) /\ NothingMade
    BY <2>1 DEF SaveEnds, NothingMade
  <2>2. ASSUME NEW run \in CompressionRuns,
               IF run.file THEN Made(NewFile("comp")) ELSE NothingMade,
               \/ run.error /\ files' \subseteq
                     files \union (IF run.file THEN {NewFile("comp")} ELSE {})
               \/ ~run.error /\ files' \subseteq files \union {NewFile("comp")}
        PROVE  NoneNew \/ NewKind("comp")
    <3>1. run.file \/ run.error
      BY DEF CompressionRuns
    <3> QED
      BY <2>2, <3>1 DEF Made, NothingMade
  <2> QED
    BY <1>0, <1>5, <2>1, <2>2 DEF SaveCompress
<1>6. CASE SaveTransfer
  BY <1>6 DEF SaveTransfer, SaveEnds
<1>7. CASE LoadFinished
  BY <1>7 DEF LoadFinished, Replaced
<1>8. CASE Fetch
  <2>1. CASE files' = files /\ made' = made
    BY <2>1
  <2>2. CASE made' = made + 1 /\ files' = files \union {NewFile("document")}
    BY <1>0, <2>2
  <2> QED
    BY <1>8, <2>1, <2>2 DEF Fetch, Made
<1>9. CASE Thumbnail
  BY <1>9 DEF Thumbnail
<1>10. CASE \E file \in uploads : Uploaded(file)
  BY <1>10 DEF Uploaded
<1>11. CASE Load \/ SaveCopy
  BY <1>11 DEF Load, SaveCopy
<1>12. CASE SaveImage
  <2>1. made' = made + 1 /\ files' = files \union {NewFile("upload")}
    BY <1>12 DEF SaveImage, Made
  <2> QED
    BY <1>0, <2>1
<1>13. CASE SaveAttachments
  BY <1>13 DEF SaveAttachments
<1>14. CASE DragAttachment
  <2>1. made' = made + 1 /\ files' = files \union {NewFile("dragged")}
    BY <1>14 DEF DragAttachment, Made
  <2> QED
    BY <1>0, <2>1
<1>15. CASE Quit
  BY <1>15 DEF Quit, Replaced
<1>16. ASSUME NEW which \in {"attachment", "image"}, OpenExtra(which)
       PROVE  NoneNew \/ NewKind(which)
  BY <1>16 DEF OpenExtra, Made
<1>17. CASE UNCHANGED fileVars
  BY <1>17 DEF fileVars
<1> QED
  BY <1>0, <1>1, <1>2, <1>3, <1>4, <1>5, <1>6, <1>7, <1>8, <1>9, <1>10, <1>11, <1>12,
     <1>13, <1>14, <1>15, <1>16, <1>17 DEF FilesNext, FileWork

\* The steps of the save job keep its types, and begin and end without a document.
LEMMA SaveOfStep ==
  ASSUME FilesShape, SaveTurns, [FilesNext]_fileVars
  PROVE  save' \in Saving /\ SaveTurns'
<1>0. save \in Saving /\ shown \in MaybeDocument /\ made \in Nat
  BY DEF FilesShape
<1>1. ASSUME NEW answer \in {"nothing", "finished", "failed"},
             save' = [at |-> AtRest, doc |-> NoDoc, local |-> NoFile, told |-> answer]
      PROVE  save' \in Saving /\ SaveTurns'
  <2>1. NoDoc \in MaybeDocument /\ NoFile \in FileOf({"comp", "saveacopy"})
    BY DEF MaybeDocument, FileOf
  <2> QED
    BY <1>1, <2>1 DEF Saving, SaveTurns, AtRest
<1>2. ASSUME NEW at \in {"compress", "transfer"}, NEW kind \in {"comp", "saveacopy"},
             save' = [save EXCEPT !.at = at, !.local = NewFile(kind)]
      PROVE  save' \in Saving /\ SaveTurns'
  <2>1. NewFile(kind) \in FileOf({"comp", "saveacopy"})
    BY <1>0 DEF NewFile, FileOf
  <2> QED
    BY <1>0, <1>2, <2>1 DEF Saving, SaveTurns, AtRest
<1>3. CASE UNCHANGED save
  BY <1>0, <1>3 DEF SaveTurns
<1>4. CASE SaveCopy
  <2>1. save.at = AtRest /\ save.local = NoFile
        /\ save' = [save EXCEPT !.at = "temp", !.doc = shown, !.told = "nothing"]
    BY <1>4 DEF SaveCopy, SaveTurns
  <2> QED
    BY <1>0, <2>1 DEF Saving, SaveTurns, AtRest
<1>5. CASE SaveTemp
  <2>1. CASE SaveEnds("failed", {})
    BY <1>1, <2>1 DEF SaveEnds
  <2>2. ASSUME save' = [save EXCEPT !.local = NewFile("saveacopy"),
                          !.at = IF save.doc.unc = NoFile THEN "transfer" ELSE "compress"]
        PROVE  save' \in Saving /\ SaveTurns'
    <3> DEFINE at == IF save.doc.unc = NoFile THEN "transfer" ELSE "compress"
    <3>1. at \in {"compress", "transfer"}
      OBVIOUS
    <3>2. save' = [save EXCEPT !.at = at, !.local = NewFile("saveacopy")]
      BY <1>0, <2>2 DEF Saving
    <3> HIDE DEF at
    <3> QED
      BY <1>2, <3>1, <3>2
  <2>3. CASE save' = [at |-> AtRest, doc |-> NoDoc, local |-> NoFile, told |-> "failed"]
    BY <1>1, <2>3
  <2> QED
    BY <1>5, <2>1, <2>2, <2>3 DEF SaveTemp
<1>6. CASE SaveCompress
  <2>1. ASSUME NEW remaining, SaveEnds("nothing", remaining)
        PROVE  save' \in Saving /\ SaveTurns'
    BY <1>1, <2>1 DEF SaveEnds
  <2>2. CASE save' = [at |-> AtRest, doc |-> NoDoc, local |-> NoFile, told |-> "failed"]
    BY <1>1, <2>2
  <2>3. CASE save' = [save EXCEPT !.at = "transfer", !.local = NewFile("comp")]
    BY <1>2, <2>3
  <2> QED
    BY <1>6, <2>1, <2>2, <2>3 DEF SaveCompress
<1>7. CASE SaveTransfer
  BY <1>1, <1>7 DEF SaveTransfer, SaveEnds
<1> QED
  <2>1. FileWork => UNCHANGED save \/ SaveTemp \/ SaveCompress \/ SaveTransfer
    BY DEF FileWork, TypeFound, OpenFile, OpenAgain, LoadFinished, Fetch, Thumbnail, Uploaded
  <2>2. FilesNext => FileWork \/ SaveCopy \/ UNCHANGED save
    BY DEF FilesNext, Load, SaveImage, SaveAttachments, DragAttachment, Quit, OpenExtra,
           heldVars
  <2>3. UNCHANGED fileVars => UNCHANGED save
    BY DEF fileVars, heldVars
  <2> QED
    BY <1>3, <1>4, <1>5, <1>6, <1>7, <2>1, <2>2, <2>3

\* What the window has, with the uploads, keeps to its types; its documents are those
\* that the load job gave it.
LEMMA WindowOfStep ==
  ASSUME FilesShape, [FilesNext]_fileVars
  PROVE  shown' \in MaybeDocument /\ extras' \in Extras /\ uploads' \subseteq {"upload"} \X Nat
<1>0. /\ load \in Loading /\ shown \in MaybeDocument /\ extras \in Extras /\ made \in Nat
      /\ uploads \subseteq {"upload"} \X Nat
  BY DEF FilesShape
<1>1. NoDoc \in MaybeDocument /\ load.doc \in MaybeDocument /\ NoExtras \in Extras
  BY <1>0 DEF MaybeDocument, Extras, NoExtras, FileOf, Loading
<1>2. CASE UNCHANGED <<shown, extras, uploads>>
  BY <1>0, <1>2
<1>3. CASE LoadFinished
  BY <1>0, <1>1, <1>3 DEF LoadFinished
<1>4. CASE Quit
  BY <1>0, <1>1, <1>4 DEF Quit
<1>5. ASSUME NEW file, Uploaded(file)
      PROVE  UNCHANGED <<shown, extras>> /\ uploads' \subseteq {"upload"} \X Nat
  BY <1>0, <1>5 DEF Uploaded
<1>6. CASE SaveImage
  <2>1. NewFile("upload") \in {"upload"} \X Nat
    BY <1>0 DEF NewFile
  <2> QED
    BY <1>0, <1>6, <2>1 DEF SaveImage
<1>7. CASE SaveAttachments
  <2>1. {<<"upload", made + 1>>, <<"upload", made + 2>>} \subseteq {"upload"} \X Nat
    BY <1>0
  <2> QED
    BY <1>0, <1>7, <2>1 DEF SaveAttachments
<1>8. ASSUME NEW which \in {"attachment", "image"}, OpenExtra(which)
      PROVE  UNCHANGED <<shown, uploads>> /\ extras' \in Extras
  <2>1. NewFile(which) \in FileOf({which})
    BY <1>0 DEF NewFile, FileOf
  <2>2. extras' = extras \/ extras' = [extras EXCEPT ![which] = NewFile(which)]
    BY <1>8 DEF OpenExtra
  <2>3. UNCHANGED <<shown, uploads>>
    BY <1>8 DEF OpenExtra
  <2>4. CASE which = "attachment"
    BY <1>0, <2>1, <2>2, <2>3, <2>4 DEF Extras
  <2>5. CASE which = "image"
    BY <1>0, <2>1, <2>2, <2>3, <2>5 DEF Extras
  <2> QED
    BY <2>4, <2>5
<1> QED
  <2>1. FileWork => \/ UNCHANGED <<shown, extras, uploads>> \/ LoadFinished
                    \/ \E file : Uploaded(file)
    BY DEF FileWork, TypeFound, OpenFile, OpenAgain, SaveTemp, SaveCompress, SaveTransfer,
           Fetch, Thumbnail
  <2>2. FilesNext => \/ FileWork \/ Quit \/ SaveImage \/ SaveAttachments
                     \/ \E which \in {"attachment", "image"} : OpenExtra(which)
                     \/ UNCHANGED <<shown, extras, uploads>>
    BY DEF FilesNext, Load, SaveCopy, DragAttachment, heldVars
  <2>3. UNCHANGED fileVars => UNCHANGED <<shown, extras, uploads>>
    BY DEF fileVars, heldVars
  <2> QED
    BY <1>0, <1>2, <1>3, <1>4, <1>5, <1>6, <1>7, <1>8, <2>1, <2>2, <2>3

\* The load job, whichever step it is that changes it; the copy of the thumbnailer is
\* made and forgotten by the thumbnailer only.
LEMMA LoadOfStep ==
  ASSUME FilesShape, LoadTurns, ProgramTurns, [FilesNext]_fileVars
  PROVE  /\ load' \in Loading /\ LoadTurns'
         /\ load'.copy = load.copy \/ Fetch \/ Thumbnail
<1>0. load \in Loading
  BY DEF FilesShape
<1>1. CASE UNCHANGED load
  BY <1>0, <1>1 DEF LoadTurns, FactoryKeepsItsWord
<1>2. CASE TypeFound
  <2>1. load'.copy = load.copy
    BY <1>0, <1>2 DEF TypeFound, Ends, TriesAgain, Loading
  <2> QED
    BY <1>2, <2>1, TypeFoundLoads
<1>3. CASE OpenFile
  <2>1. load'.copy = load.copy
    BY <1>0, <1>3 DEF OpenFile, Opened, Ends, TriesAgain, Loading
  <2> QED
    BY <1>3, <2>1, OpenFileLoads
<1>4. CASE OpenAgain
  <2>1. load'.copy = load.copy
    BY <1>0, <1>4 DEF OpenAgain, Loading
  <2> QED
    BY <1>4, <2>1, OpenAgainLoads
<1>5. CASE Load \/ LoadFinished \/ Quit \/ Fetch \/ Thumbnail
  <2>1. load'.copy = load.copy \/ Fetch \/ Thumbnail
    BY <1>0, <1>5 DEF Load, LoadFinished, Quit, Loading
  <2> QED
    BY <1>5, <2>1, OthersLoad
<1> QED
  <2>1. FileWork => \/ TypeFound \/ OpenFile \/ OpenAgain \/ UNCHANGED load
                    \/ LoadFinished \/ Fetch \/ Thumbnail
    BY DEF FileWork, SaveTemp, SaveCompress, SaveTransfer, Uploaded
  <2>2. FilesNext => FileWork \/ Load \/ Quit \/ UNCHANGED load
    BY DEF FilesNext, SaveCopy, SaveImage, SaveAttachments, DragAttachment, OpenExtra,
           heldVars
  <2>3. UNCHANGED fileVars => UNCHANGED load
    BY DEF fileVars, heldVars
  <2> QED
    BY <1>1, <1>2, <1>3, <1>4, <1>5, <2>1, <2>2, <2>3

\* The program and its file stay; the flags are flags; and a process that has ended
\* does nothing any more.
LEMMA FlagsOfStep ==
  ASSUME FilesShape, [FilesNext]_fileVars
  PROVE  /\ UNCHANGED fixedVars /\ tmpdir' \in BOOLEAN
         /\ over' \in BOOLEAN /\ (over => over') /\ mishap' \in BOOLEAN /\ (mishap => mishap')
         /\ over => UNCHANGED fileVars
<1>0. tmpdir \in BOOLEAN /\ over \in BOOLEAN /\ mishap \in BOOLEAN
  BY DEF FilesShape, FilesTypeOK
<1>1. CASE UNCHANGED fileVars
  BY <1>0, <1>1 DEF fileVars, fixedVars
<1>2. CASE FilesNext
  <2>1. UNCHANGED fixedVars /\ ~over
    <3>1. FileWork => UNCHANGED fixedVars /\ ~over
      BY DEF FileWork, TypeFound, OpenFile, OpenAgain, SaveTemp, SaveCompress, SaveTransfer,
             LoadFinished, Fetch, Thumbnail, Uploaded
    <3>2. FilesNext => FileWork \/ (UNCHANGED fixedVars /\ ~over)
      BY DEF FilesNext, Load, SaveCopy, SaveImage, SaveAttachments, DragAttachment, Quit,
             OpenExtra, User
    <3> QED
      BY <1>2, <3>1, <3>2
  <2>2. tmpdir' \in BOOLEAN
    <3>1. FileWork => tmpdir' \in BOOLEAN
      <4>1. TypeFound => tmpdir' \in BOOLEAN
        BY <1>0, Zenon DEF TypeFound
      <4>2. OpenFile => tmpdir' \in BOOLEAN
        BY <1>0, Zenon DEF OpenFile, Made, NothingMade
      <4>3. SaveTemp \/ SaveCompress => tmpdir' \in BOOLEAN
        BY <1>0, Zenon DEF SaveTemp, SaveCompress, Made, NothingMade
      <4>4. Fetch \/ Thumbnail => tmpdir' \in BOOLEAN
        BY <1>0, Zenon DEF Fetch, Thumbnail, Made
      <4>5. OpenAgain \/ SaveTransfer \/ LoadFinished \/ (\E file \in uploads : Uploaded(file))
              => UNCHANGED tmpdir
        BY DEF OpenAgain, SaveTransfer, LoadFinished, Uploaded
      <4> QED
        BY <1>0, <4>1, <4>2, <4>3, <4>4, <4>5 DEF FileWork
    <3>2. Quit => tmpdir' \in BOOLEAN
      BY <1>0, Zenon DEF Quit
    <3>3. SaveImage \/ SaveAttachments \/ DragAttachment => tmpdir' \in BOOLEAN
      BY <1>0, Zenon DEF SaveImage, SaveAttachments, DragAttachment, Made
    <3>4. (\E which \in {"attachment", "image"} : OpenExtra(which)) => tmpdir' \in BOOLEAN
      BY <1>0, Zenon DEF OpenExtra, Made
    <3>5. Load \/ SaveCopy => UNCHANGED tmpdir
      BY DEF Load, SaveCopy
    <3> QED
      BY <1>0, <1>2, <3>1, <3>2, <3>3, <3>4, <3>5 DEF FilesNext
  <2>3. mishap' \in BOOLEAN
    <3>1. TypeFound => mishap' \in BOOLEAN
      BY <1>0, Zenon DEF TypeFound
    <3>2. SaveTemp \/ SaveCompress => mishap' \in BOOLEAN
      BY <1>0, Zenon DEF SaveTemp, SaveCompress
    <3>3. Fetch \/ Thumbnail \/ Quit => mishap' \in BOOLEAN
      BY <1>0, Zenon DEF Fetch, Thumbnail, Quit
    <3>4. SaveImage \/ SaveAttachments \/ DragAttachment => mishap' \in BOOLEAN
      BY <1>0, Zenon DEF SaveImage, SaveAttachments, DragAttachment
    <3>5. (\E which \in {"attachment", "image"} : OpenExtra(which)) => mishap' \in BOOLEAN
      BY <1>0, Zenon DEF OpenExtra
    <3>6. OpenFile \/ OpenAgain \/ SaveTransfer \/ LoadFinished \/ Load \/ SaveCopy
            => UNCHANGED mishap
      BY DEF OpenFile, OpenAgain, SaveTransfer, LoadFinished, Load, SaveCopy
    <3>7. (\E file \in uploads : Uploaded(file)) => UNCHANGED mishap
      BY DEF Uploaded
    <3> QED
      BY <1>0, <1>2, <3>1, <3>2, <3>3, <3>4, <3>5, <3>6, <3>7 DEF FilesNext, FileWork
  <2>4. (mishap => mishap')
    <3>1. TypeFound => (mishap => mishap')
      BY <1>0 DEF TypeFound
    <3>2. SaveTemp \/ SaveCompress => (mishap => mishap')
      BY <1>0 DEF SaveTemp, SaveCompress
    <3>3. Fetch \/ Thumbnail \/ Quit => (mishap => mishap')
      BY <1>0 DEF Fetch, Thumbnail, Quit
    <3>4. SaveImage \/ SaveAttachments \/ DragAttachment => (mishap => mishap')
      BY <1>0 DEF SaveImage, SaveAttachments, DragAttachment
    <3>5. (\E which \in {"attachment", "image"} : OpenExtra(which)) => (mishap => mishap')
      BY <1>0 DEF OpenExtra
    <3>6. OpenFile \/ OpenAgain \/ SaveTransfer \/ LoadFinished \/ Load \/ SaveCopy
            => UNCHANGED mishap
      BY DEF OpenFile, OpenAgain, SaveTransfer, LoadFinished, Load, SaveCopy
    <3>7. (\E file \in uploads : Uploaded(file)) => UNCHANGED mishap
      BY DEF Uploaded
    <3> QED
      BY <1>0, <1>2, <3>1, <3>2, <3>3, <3>4, <3>5, <3>6, <3>7 DEF FilesNext, FileWork
  <2>5. over' \in BOOLEAN
    <3>1. FileWork => over' = over \/ over' = TRUE
      BY DEF FileWork, TypeFound, OpenFile, OpenAgain, SaveTemp, SaveCompress, SaveTransfer,
             LoadFinished, Fetch, Thumbnail, Uploaded
    <3>2. FilesNext => FileWork \/ over' = over \/ over' = TRUE
      BY DEF FilesNext, Load, SaveCopy, SaveImage, SaveAttachments, DragAttachment, Quit,
             OpenExtra, heldVars
    <3> QED
      BY <1>0, <1>2, <3>1, <3>2
  <2> QED
    BY <2>1, <2>2, <2>3, <2>4, <2>5
<1> QED
  BY <1>1, <1>2

\* Only the thumbnailer has a copy to load, and only evince has anything else.
LEMMA ProgramOfStep ==
  ASSUME FilesShape, LoadTurns, SaveTurns, ProgramTurns, [FilesNext]_fileVars
  PROVE  ProgramTurns'
<1>1. program \in {"evince", "thumbnailer"} /\ program' = program
  BY FlagsOfStep DEF FilesShape, FilesTypeOK, fixedVars
<1>2. CASE program = "evince"
  <2>1. ~Fetch /\ ~Thumbnail
    BY <1>2 DEF Fetch, Thumbnail
  <2> QED
    BY <1>1, <1>2, <2>1, LoadOfStep DEF ProgramTurns
<1>3. CASE program = "thumbnailer"
  <2>0. load \in Loading /\ save.at = AtRest /\ uploads = {}
    BY <1>3 DEF FilesShape, ProgramTurns
  <2>1. FilesNext => TypeFound \/ OpenFile \/ OpenAgain \/ Fetch \/ Thumbnail
    BY <1>3, <2>0 DEF FilesNext, FileWork, Load, SaveCopy, SaveImage, SaveAttachments,
         DragAttachment, Quit, OpenExtra, User, LoadFinished, SaveTemp, SaveCompress,
         SaveTransfer, AtRest
  <2>2. UNCHANGED <<shown, extras, save, uploads>>
    BY <2>1 DEF TypeFound, OpenFile, OpenAgain, Fetch, Thumbnail, fileVars, heldVars
  <2>3. \/ UNCHANGED <<load, over>> \/ load'.at # AtRest \/ over'
    <3>1. CASE TypeFound
      BY <2>0, <3>1 DEF TypeFound, Ends, TriesAgain, Loading, AtRest
    <3>2. CASE OpenFile
      BY <2>0, <3>2 DEF OpenFile, Opened, Ends, TriesAgain, Loading, AtRest
    <3>3. CASE OpenAgain
      BY <2>0, <3>3 DEF OpenAgain, Loading, AtRest
    <3>4. CASE Fetch
      <4>1. load'.at = "type" \/ over'
        BY <2>0, <3>4 DEF Fetch, Loading
      <4> QED
        BY <4>1 DEF AtRest
    <3>5. CASE Thumbnail
      BY <3>5 DEF Thumbnail
    <3>6. CASE UNCHANGED fileVars
      BY <3>6 DEF fileVars, heldVars
    <3> QED
      BY <2>1, <3>1, <3>2, <3>3, <3>4, <3>5, <3>6
  <2> QED
    BY <1>1, <1>3, <2>2, <2>3 DEF ProgramTurns
<1> QED
  BY <1>1, <1>2, <1>3

\* All of these together keep the types of the module.
LEMMA FilesShapeStep ==
  ASSUME FilesShape, LoadTurns, SaveTurns, ProgramTurns, Owned \subseteq files,
         [FilesNext]_fileVars
  PROVE  FilesShape' /\ LoadTurns' /\ SaveTurns' /\ ProgramTurns'
<1>1. load' \in Loading /\ LoadTurns'
  BY LoadOfStep
<1>2. save' \in Saving /\ SaveTurns'
  BY SaveOfStep
<1>3. shown' \in MaybeDocument /\ extras' \in Extras /\ uploads' \subseteq {"upload"} \X Nat
  BY WindowOfStep
<1>4. made' \in Nat /\ files' \subseteq FileKinds \X (1 .. made')
  BY FilesOfStep, FilesTyped
<1>5. program' \in {"evince", "thumbnailer"} /\ original' \in Source
  BY FlagsOfStep DEF fixedVars, FilesShape, FilesTypeOK
<1>6. tmpdir' \in BOOLEAN /\ over' \in BOOLEAN /\ mishap' \in BOOLEAN
  BY FlagsOfStep
<1>7. /\ load'.at \in {AtRest, "type", "open", "end", "password", "again", "repeated"}
      /\ load'.error \in {"none", "io", "invalid", "encrypted"}
  BY <1>1 DEF Loading
<1>8. /\ save'.at \in {AtRest, "temp", "compress", "transfer"}
      /\ save'.told \in {"nothing", "finished", "failed"}
  BY <1>2 DEF Saving
<1>9. FilesTypeOK'
  BY <1>4, <1>5, <1>6, <1>7, <1>8 DEF FilesTypeOK, FileKinds
<1> QED
  BY <1>1, <1>2, <1>3, <1>4, <1>9, ProgramOfStep DEF FilesShape

-----------------------------------------------------------------------------
(* The owners of the temporary files.                                      *)

\* Holders of different kinds have different files, and a new file is nobody's.
LEMMA KindsApart ==
  ASSUME FilesShape, Owned \subseteq files
  PROVE  /\ NoFile \notin OwnedBy(load.doc) \union OwnedBy(shown) \union OwnedBy(save.doc)
         /\ NoFile \notin uploads
         /\ \A file \in OwnedBy(load.doc) \union OwnedBy(shown) \union OwnedBy(save.doc) :
              file \notin {load.copy, extras.attachment, extras.image} \union uploads
         /\ \A file \in uploads : file \notin {load.copy, save.local, extras.attachment,
                                               extras.image}
         /\ save.local # NoFile => save.local \notin {load.copy, extras.attachment, extras.image}
         /\ load.copy # NoFile => load.copy \notin {extras.attachment, extras.image}
         /\ extras.attachment # NoFile => extras.attachment # extras.image
         /\ \A kind : \A n \in {made + 1, made + 2} :
              <<kind, n>> \notin files \union {NoFile} \union Owned
<1>1. /\ load.doc \in MaybeDocument /\ shown \in MaybeDocument /\ save.doc \in MaybeDocument
      /\ load.copy \in FileOf({"document"}) /\ save.local \in FileOf({"comp", "saveacopy"})
      /\ extras.attachment \in FileOf({"attachment"}) /\ extras.image \in FileOf({"image"})
      /\ uploads \subseteq {"upload"} \X Nat /\ made \in Nat
      /\ files \subseteq FileKinds \X (1 .. made)
  BY DEF FilesShape, FilesTypeOK, FileKinds, Loading, Saving, Extras
<1>2. OwnedBy(load.doc) \union OwnedBy(shown) \union OwnedBy(save.doc)
        \subseteq {"comp", "comics"} \X Nat
  BY <1>1, DocumentsOwn
<1>3. NoFile[1] = "nofile" /\ NoFile[2] = 0
  BY DEF NoFile
<1>4. ASSUME NEW kinds, NEW file \in kinds \X Nat
      PROVE  file[1] \in kinds
  OBVIOUS
<1>5. ASSUME NEW kinds, NEW file \in FileOf(kinds)
      PROVE  file = NoFile \/ file[1] \in kinds
  BY DEF FileOf
<1>6. \A file \in OwnedBy(load.doc) \union OwnedBy(shown) \union OwnedBy(save.doc) :
        file[1] \in {"comp", "comics"}
  BY <1>2, <1>4
<1>7. \A file \in uploads : file[1] = "upload"
  BY <1>1, <1>4
<1>8. /\ load.copy = NoFile \/ load.copy[1] = "document"
      /\ save.local = NoFile \/ save.local[1] \in {"comp", "saveacopy"}
      /\ extras.attachment = NoFile \/ extras.attachment[1] = "attachment"
      /\ extras.image = NoFile \/ extras.image[1] = "image"
  BY <1>1, <1>5
<1>9. ASSUME NEW kind, NEW n \in {made + 1, made + 2}
      PROVE  <<kind, n>> \notin files \union {NoFile} \union Owned
  <2>1. \A file \in files : file[2] \in 1 .. made
    BY <1>1
  <2>2. <<kind, n>>[2] = n /\ n \notin 1 .. made /\ n # 0
    BY <1>1
  <2> QED
    BY <1>3, <2>1, <2>2
<1> QED
  BY <1>3, <1>6, <1>7, <1>8, <1>9

\* A step that changes the document of the load job only: the files that the document
\* has no more may go, and the new ones it has are there.
LEMMA LoadKeepsOwners ==
  ASSUME FilesInvariant, UNCHANGED <<shown, extras, save, uploads, over>>, ~over,
         load'.copy = load.copy, mishap => mishap',
         NEW new, new \intersect files = {},
         OwnedBy(load'.doc) \subseteq OwnedBy(load.doc) \union new,
         OwnedBy(load'.doc) \subseteq files', files \ OwnedBy(load.doc) \subseteq files',
         ~mishap' => files' \subseteq (files \ OwnedBy(load.doc)) \union OwnedBy(load'.doc)
  PROVE  DocumentsApart' /\ TemporaryFilesHaveOwners'
<1> DEFINE L == OwnedBy(load.doc)
           M == OwnedBy(load'.doc)
           H == OwnedBy(shown)
           V == OwnedBy(save.doc)
           X == {load.copy, save.local, extras.attachment, extras.image} \ {NoFile}
<1>1. Owned = L \union H \union V \union X \union uploads
  BY DEF Owned
<1>2. Owned' = M \union H \union V \union X \union uploads
  BY DEF Owned
<1>3. Owned \subseteq files /\ (~mishap => files \subseteq Owned)
  BY DEF FilesInvariant, TemporaryFilesHaveOwners, Stray
<1>4. L \intersect (H \union V \union X \union uploads) = {}
  BY <1>3, KindsApart DEF FilesInvariant, DocumentsApart
<1>5. save.local = NoFile \/ save.local \in files
  BY <1>1, <1>3
<1>6. NoFile \notin M
  <2>1. M \subseteq files \union new /\ NoFile \notin L
    BY <1>3, KindsApart DEF FilesInvariant, Owned
  <2>2. M \subseteq files'
    OBVIOUS
  <2> QED
    BY DEF OwnedBy
<1>7. DocumentsApart'
  <2>1. M \intersect (H \union V) = {}
    BY <1>1, <1>3 DEF FilesInvariant, DocumentsApart
  <2>2. save.local \notin M
    BY <1>3, <1>5, <1>6 DEF FilesInvariant, DocumentsApart
  <2> HIDE DEF L, M, H, V, X
  <2>3. save.doc = shown \/ V \intersect H = {}
    BY DEF FilesInvariant, DocumentsApart, V, H
  <2>4. save.local \notin H \union V
    BY DEF FilesInvariant, DocumentsApart, V, H
  <2> QED
    BY <2>1, <2>2, <2>3, <2>4 DEF DocumentsApart, M, H, V
<1> HIDE DEF L, M, H, V, X
<1>8. Owned' \subseteq files'
  BY <1>1, <1>2, <1>3, <1>4 DEF L, M
<1>9. ~mishap' => files' \subseteq Owned'
  BY <1>1, <1>2, <1>3, <1>4 DEF L, M
<1> QED
  BY <1>7, <1>8, <1>9 DEF TemporaryFilesHaveOwners, Stray

\* The step from the type that was found: the uncompressed file belongs to the document,
\* or a mishap left it behind.
LEMMA TypeFoundOwners ==
  ASSUME FilesInvariant, ~over, TypeFound
  PROVE  DocumentsApart' /\ TemporaryFilesHaveOwners'
<1> DEFINE type == IF load.slow THEN original.slow ELSE original.fast
           new == {NewFile("comp")}
<1>0. FilesShape /\ LoadTurns
  BY DEF FilesInvariant
<1>1. /\ load \in Loading /\ load.doc = NoDoc /\ made + 1 \in Nat \ {0}
      /\ type \in Types /\ mishap \in BOOLEAN
  <2>1. load.doc = NoDoc
    BY <1>0 DEF TypeFound, LoadTurns
  <2>2. load \in Loading /\ made + 1 \in Nat \ {0}
    BY <1>0 DEF FilesShape
  <2>3. original \in Source /\ mishap \in BOOLEAN
    BY <1>0 DEF FilesShape, FilesTypeOK
  <2>4. type \in Types
    BY <2>3 DEF Source
  <2> QED
    BY <2>1, <2>2, <2>3, <2>4
<1>2. new \intersect files = {} /\ NewFile("comp") # NoFile
  BY KindsApart DEF FilesInvariant, TemporaryFilesHaveOwners, NewFile
<1>3. UNCHANGED <<shown, extras, save, uploads, over>>
  BY DEF TypeFound
<1>4. OwnedBy(load.doc) = {}
  BY <1>1, DocumentsOwn
<1>5. OwnedBy(NewDoc(type)) = {}
      /\ OwnedBy([NewDoc(type) EXCEPT !.unc = NewFile("comp")]) = new
  <2>1. NewDoc(type) \in Document
        /\ [NewDoc(type) EXCEPT !.unc = NewFile("comp")] \in Document
    BY <1>1 DEF NewDoc, Document, FileOf, NewFile
  <2>2. /\ NewDoc(type).unc = NoFile /\ NewDoc(type).dir = NoFile
        /\ [NewDoc(type) EXCEPT !.unc = NewFile("comp")].unc = NewFile("comp")
        /\ [NewDoc(type) EXCEPT !.unc = NewFile("comp")].dir = NoFile
    BY DEF NewDoc
  <2> QED
    BY <1>2, <2>1, <2>2, FilesOfDocument, ZenonT(60)
<1>6. ASSUME NEW d, \/ \E error : Ends(d, error)
                    \/ TriesAgain /\ d = NoDoc
                    \/ load' = [load EXCEPT !.at = "open", !.doc = d]
                    \/ \E error : load' = [load EXCEPT !.at = "open", !.doc = d,
                                                       !.error = error]
      PROVE  load'.doc = d /\ load'.copy = load.copy
  BY <1>1, <1>6 DEF Ends, TriesAgain, Loading
<1> HIDE DEF type
<1>7. \/ /\ UNCHANGED <<files, mishap>>
         /\ \/ load'.doc = NoDoc \/ load'.doc = NewDoc(type)
      \/ /\ files' = files \union new /\ mishap' /\ load'.doc = NoDoc
      \/ /\ files' = files \union new /\ (mishap => mishap')
         /\ load'.doc = [NewDoc(type) EXCEPT !.unc = NewFile("comp")]
  <2>1. CASE UNCHANGED <<files, made, tmpdir, mishap>>
             /\ (Ends(NoDoc, "invalid") \/ TriesAgain)
    BY <1>6, <2>1
  <2>2. CASE load' = [load EXCEPT !.at = "open", !.doc = NewDoc(type)]
             /\ UNCHANGED <<files, tmpdir, mishap>>
    BY <1>6, <2>2
  <2>3. ASSUME NEW run \in CompressionRuns,
               files' = IF run.file THEN files \union {NewFile("comp")} ELSE files,
               mishap' = (mishap \/ (run.file /\ ~run.uri)),
               IF run.uri
                 THEN load' = [load EXCEPT
                        !.at = "open", !.doc = [NewDoc(type) EXCEPT !.unc = NewFile("comp")],
                        !.error = IF run.error THEN "io" ELSE "none"]
                 ELSE Ends(NoDoc, "io")
        PROVE  \/ files' = files /\ mishap' = mishap /\ load'.doc = NoDoc
               \/ files' = files \union new /\ mishap' /\ load'.doc = NoDoc
               \/ /\ files' = files \union new /\ (mishap => mishap')
                  /\ load'.doc = [NewDoc(type) EXCEPT !.unc = NewFile("comp")]
    <3>1. CASE run.uri = TRUE /\ run.file = TRUE
      BY <1>6, <2>3, <3>1
    <3>2. CASE run.uri = FALSE /\ run.file = TRUE
      BY <1>6, <2>3, <3>2
    <3>3. CASE run.uri = FALSE /\ run.file = FALSE
      <4>1. mishap' = mishap
        BY <1>1, <2>3, <3>3
      <4> QED
        BY <1>6, <2>3, <3>3, <4>1
    <3>4. \/ run.uri = TRUE /\ run.file = TRUE
          \/ run.uri = FALSE /\ run.file = TRUE
          \/ run.uri = FALSE /\ run.file = FALSE
      BY DEF CompressionRuns
    <3> QED
      BY <3>1, <3>2, <3>3, <3>4
  <2> QED
    BY <2>1, <2>2, <2>3 DEF TypeFound, NewDoc, type
<1>8. load'.copy = load.copy
  BY <1>6 DEF TypeFound, NewDoc
<1>9. OwnedBy(NoDoc) = {}
  BY DocumentsOwn
<1> HIDE DEF new
<1>10. CASE UNCHANGED <<files, mishap>> /\ OwnedBy(load'.doc) = {}
  BY <1>2, <1>3, <1>4, <1>8, <1>10, LoadKeepsOwners
<1>11. CASE files' = files \union new /\ mishap' /\ OwnedBy(load'.doc) = {}
  BY <1>2, <1>3, <1>4, <1>8, <1>11, LoadKeepsOwners
<1>12. CASE files' = files \union new /\ (mishap => mishap') /\ OwnedBy(load'.doc) = new
  BY <1>2, <1>3, <1>4, <1>8, <1>12, LoadKeepsOwners
<1> QED
  BY <1>5, <1>7, <1>9, <1>10, <1>11, <1>12

\* Opening the file, with or without a password: what the document had goes with it.
LEMMA OpenOwners ==
  ASSUME FilesInvariant, ~over, OpenFile \/ OpenAgain
  PROVE  DocumentsApart' /\ TemporaryFilesHaveOwners'
<1>1. FilesShape /\ LoadTurns /\ Owned \subseteq files
  BY DEF FilesInvariant, TemporaryFilesHaveOwners
<1>2. UNCHANGED <<shown, extras, save, uploads, over, mishap>>
  BY DEF OpenFile, OpenAgain
<1>3. CASE OpenFile
  <2>1. PICK dir \in {NoFile, NewFile("comics")} :
           /\ IF dir = NoFile THEN NothingMade ELSE Made("comics")
           /\ \/ /\ files' = files \union ({load.doc.unc, dir} \ {NoFile})
                 /\ OwnedBy(load'.doc) = {load.doc.unc, dir} \ {NoFile}
              \/ /\ files' = files \ ({load.doc.unc, dir} \ {NoFile})
                 /\ load'.doc = NoDoc
           /\ load'.copy = load.copy
    BY <1>1, <1>3, OpenFileSteps
  <2> DEFINE new == {dir} \ {NoFile}
  <2>2. OwnedBy(load.doc) = {load.doc.unc} \ {NoFile}
    <3>1. load.doc \in Document /\ load.doc.dir = NoFile
      BY <1>1, <1>3 DEF OpenFile, LoadTurns
    <3> QED
      BY <3>1, FilesOfDocument
  <2>3. new \intersect files = {}
    BY <1>1, KindsApart DEF NewFile
  <2>4. OwnedBy(load.doc) \subseteq files
    BY <1>1 DEF Owned
  <2>5. /\ {load.doc.unc, dir} \ {NoFile} = OwnedBy(load.doc) \union new
    BY <2>2
  <2> HIDE DEF new
  <2>6. CASE files' = files \union OwnedBy(load.doc) \union new
             /\ OwnedBy(load'.doc) = OwnedBy(load.doc) \union new
    BY <1>2, <2>1, <2>3, <2>4, <2>6, LoadKeepsOwners
  <2>7. CASE files' = files \ (OwnedBy(load.doc) \union new) /\ OwnedBy(load'.doc) = {}
    BY <1>2, <2>1, <2>3, <2>4, <2>7, LoadKeepsOwners
  <2> QED
    BY <2>1, <2>5, <2>6, <2>7, DocumentsOwn
<1>4. CASE OpenAgain
  <2>1. OwnedBy(load'.doc) = OwnedBy(load.doc) /\ files' = files
    BY <1>1, <1>4, OpenAgainLoads DEF OpenAgain
  <2>2. load'.copy = load.copy
    BY <1>1, <1>4 DEF OpenAgain, FilesShape, Loading
  <2>3. OwnedBy(load.doc) \subseteq files
    BY <1>1 DEF Owned
  <2>4. {} \intersect files = {}
    OBVIOUS
  <2> QED
    BY <1>2, <2>1, <2>2, <2>3, <2>4, LoadKeepsOwners
<1> QED
  BY <1>3, <1>4

\* A load that is begun and one that ends without being shown.
LEMMA LoadOwners ==
  ASSUME FilesInvariant, Load \/ (LoadFinished /\ load.error # "none")
  PROVE  DocumentsApart' /\ TemporaryFilesHaveOwners'
<1>1. load \in Loading /\ Owned \subseteq files
  BY DEF FilesInvariant, FilesShape, TemporaryFilesHaveOwners
<1>2. UNCHANGED <<shown, extras, save, uploads, over, mishap>> /\ ~over
  BY DEF Load, LoadFinished, User
<1>3. OwnedBy(load.doc) \subseteq files /\ {} \intersect files = {}
  BY <1>1 DEF Owned
<1>4. CASE load'.doc = load.doc /\ load'.copy = load.copy /\ files' = files
  BY <1>2, <1>3, <1>4, LoadKeepsOwners
<1>5. CASE load'.doc = NoDoc /\ load'.copy = load.copy /\ files' = files \ OwnedBy(load.doc)
  BY <1>2, <1>3, <1>5, LoadKeepsOwners, DocumentsOwn
<1>6. Load => load'.doc = load.doc /\ load'.copy = load.copy /\ files' = files
  BY <1>1 DEF Load, Loading
<1>7. LoadFinished /\ load.error = "encrypted" =>
        load'.doc = load.doc /\ load'.copy = load.copy /\ files' = files
  BY <1>1 DEF LoadFinished, Loading
<1>8. LoadFinished /\ load.error \notin {"none", "encrypted"} =>
        load'.doc = NoDoc /\ load'.copy = load.copy /\ files' = files \ OwnedBy(load.doc)
  BY <1>1 DEF LoadFinished, Loading
<1> QED
  BY <1>4, <1>5, <1>6, <1>7, <1>8

\* A step of the save job: it takes the document of the window, it goes on with a new
\* file in the place of the one it had, or it ends.
LEMMA SaveKeepsOwners ==
  ASSUME FilesInvariant, UNCHANGED <<load, shown, extras, uploads, over>>, ~over,
         mishap => mishap',
         NEW new, new \notin files \union {NoFile} \union Owned,
         \/ /\ save'.doc = shown /\ save'.local = save.local /\ save.doc = NoDoc
            /\ files' = files
         \/ /\ save'.doc = save.doc /\ save'.local = new
            /\ files' = (files \union {new}) \ {save.local}
         \/ /\ save'.doc = NoDoc /\ save'.local = NoFile
            /\ files \ ({save.local} \union Freed(save.doc, {shown, load.doc})) \subseteq files'
            /\ ~mishap' =>
                 files' \subseteq files \ ({save.local} \union Freed(save.doc, {shown, load.doc}))
  PROVE  DocumentsApart' /\ TemporaryFilesHaveOwners'
<1> DEFINE L == OwnedBy(load.doc)
           H == OwnedBy(shown)
           V == OwnedBy(save.doc)
           W == OwnedBy(save'.doc)
           X == {load.copy, extras.attachment, extras.image} \ {NoFile}
           free == Freed(save.doc, {shown, load.doc})
<1>0. FilesShape /\ DocumentsApart
  BY DEF FilesInvariant
<1>1. Owned = L \union H \union V \union X \union ({save.local} \ {NoFile}) \union uploads
  BY DEF Owned
<1>2. Owned' = L \union H \union W \union X \union ({save'.local} \ {NoFile}) \union uploads
  BY DEF Owned
<1>3. Owned \subseteq files /\ (~mishap => files \subseteq Owned)
  BY DEF FilesInvariant, TemporaryFilesHaveOwners, Stray
<1>4. /\ (L \union H \union V) \intersect (X \union uploads) = {}
      /\ NoFile \notin L \union H \union V \union uploads
      /\ save.local # NoFile => save.local \notin X \union uploads
  BY <1>0, <1>3, KindsApart
<1>5. /\ L \intersect (H \union V) = {} /\ save.local \notin L \union H \union V
      /\ save.doc = shown \/ V \intersect H = {}
  BY <1>0 DEF DocumentsApart
<1>6. /\ free = {} \/ free = V
      /\ free = {} => V \subseteq L \union H
      /\ free = V => save.doc # shown \/ V = {}
  BY DEF Freed
<1>7. free \intersect (L \union H) = {}
  BY <1>5, <1>6
<1>8. \A file \in files : file # NoFile
  BY <1>0 DEF FilesShape, FilesTypeOK, NoFile
<1>9. OwnedBy(NoDoc) = {}
  BY DocumentsOwn
<1> HIDE DEF free
<1>10. CASE /\ save'.doc = shown /\ save'.local = save.local /\ save.doc = NoDoc
            /\ files' = files
  <2>1. W = H /\ V = {}
    BY <1>9, <1>10
  <2>2. DocumentsApart'
    BY <1>5, <1>10, <2>1 DEF DocumentsApart
  <2> HIDE DEF L, H, V, W, X
  <2>3. Owned' = Owned
    BY <1>1, <1>2, <1>10, <2>1
  <2> QED
    BY <1>3, <1>10, <2>2, <2>3 DEF TemporaryFilesHaveOwners, Stray
<1>11. CASE /\ save'.doc = save.doc /\ save'.local = new
            /\ files' = (files \union {new}) \ {save.local}
  <2>1. W = V
    BY <1>11
  <2>2. new \notin L \union H \union V
    BY <1>1
  <2>3. DocumentsApart'
    BY <1>5, <1>11, <2>2 DEF DocumentsApart
  <2> HIDE DEF L, H, V, W, X
  <2>4. Owned' \subseteq files'
    BY <1>1, <1>2, <1>3, <1>4, <1>5, <1>8, <1>11, <2>1 DEF X
  <2>5. ~mishap' => files' \subseteq Owned'
    BY <1>1, <1>2, <1>3, <1>8, <1>11, <2>1
  <2> QED
    BY <2>3, <2>4, <2>5 DEF TemporaryFilesHaveOwners, Stray
<1>12. CASE /\ save'.doc = NoDoc /\ save'.local = NoFile
            /\ files \ ({save.local} \union free) \subseteq files'
            /\ ~mishap' => files' \subseteq files \ ({save.local} \union free)
  <2>1. W = {}
    BY <1>9, <1>12
  <2>2. DocumentsApart'
    BY <1>4, <1>5, <1>12, <2>1 DEF DocumentsApart
  <2> HIDE DEF L, H, V, W, X
  <2>3. Owned' = L \union H \union X \union uploads
    BY <1>2, <1>12, <2>1
  <2>4. free \intersect (X \union uploads) = {} /\ save.local \notin L \union H
    BY <1>4, <1>5, <1>6
  <2>5. save.local \notin X \union uploads
    BY <1>4 DEF X
  <2>6. Owned' \subseteq files'
    BY <1>1, <1>3, <1>7, <1>12, <2>3, <2>4, <2>5
  <2>7. ~mishap' => files' \subseteq Owned'
    BY <1>1, <1>3, <1>6, <1>12, <2>3
  <2> QED
    BY <2>2, <2>6, <2>7 DEF TemporaryFilesHaveOwners, Stray
<1> QED
  BY <1>10, <1>11, <1>12 DEF free

\* The steps of the save job are of these three kinds.
LEMMA SaveOwners ==
  ASSUME FilesInvariant, SaveCopy \/ SaveTemp \/ SaveCompress \/ SaveTransfer
  PROVE  DocumentsApart' /\ TemporaryFilesHaveOwners'
<1>0. /\ FilesShape /\ SaveTurns /\ Owned \subseteq files /\ save \in Saving
  BY DEF FilesInvariant, FilesShape, TemporaryFilesHaveOwners
<1>1. UNCHANGED <<load, shown, extras, uploads, over>> /\ ~over
  BY DEF SaveCopy, SaveTemp, SaveCompress, SaveTransfer, User
<1>2. mishap => mishap'
  BY DEF SaveCopy, SaveTemp, SaveCompress, SaveTransfer
<1>3. \A kind : NewFile(kind) \notin files \union {NoFile} \union Owned
  BY <1>0, KindsApart DEF NewFile
<1> DEFINE free == Freed(save.doc, {shown, load.doc})
<1> HIDE DEF free
<1>4. CASE SaveCopy
  <2>1. save'.doc = shown /\ save'.local = save.local /\ save.doc = NoDoc /\ files' = files
    BY <1>0, <1>4 DEF SaveCopy, SaveTurns, Saving
  <2> QED
    BY <1>1, <1>2, <1>3, <2>1, SaveKeepsOwners
<1>5. ASSUME save' = [at |-> AtRest, doc |-> NoDoc, local |-> NoFile, told |-> save'.told],
             files \ ({save.local} \union free) \subseteq files',
             ~mishap' => files' \subseteq files \ ({save.local} \union free)
      PROVE  DocumentsApart' /\ TemporaryFilesHaveOwners'
  <2>1. save'.doc = NoDoc /\ save'.local = NoFile
    BY <1>5
  <2> QED
    BY <1>1, <1>2, <1>3, <1>5, <2>1, SaveKeepsOwners DEF free
<1>6. ASSUME NEW kind, NEW at, save' = [save EXCEPT !.at = at, !.local = NewFile(kind)],
             files' = (files \union {NewFile(kind)}) \ {save.local}
      PROVE  DocumentsApart' /\ TemporaryFilesHaveOwners'
  <2>1. save'.doc = save.doc /\ save'.local = NewFile(kind)
    BY <1>0, <1>6 DEF Saving
  <2> QED
    BY <1>1, <1>2, <1>3, <1>6, <2>1, SaveKeepsOwners
<1>7. \A file \in files : file # NoFile
  BY <1>0 DEF FilesShape, FilesTypeOK, NoFile
<1>8. CASE SaveTemp
  <2>0. save.local = NoFile
    BY <1>0, <1>8 DEF SaveTemp, SaveTurns
  <2>1. CASE SaveEnds("failed", {})
    BY <1>5, <1>7, <2>0, <2>1 DEF SaveEnds, free
  <2>2. CASE /\ files' = files \union {NewFile("saveacopy")}
             /\ save' = [save EXCEPT !.local = NewFile("saveacopy"),
                    !.at = IF save.doc.unc = NoFile THEN "transfer" ELSE "compress"]
    <3> DEFINE at == IF save.doc.unc = NoFile THEN "transfer" ELSE "compress"
    <3>1. save' = [save EXCEPT !.at = at, !.local = NewFile("saveacopy")]
      BY <1>0, <2>2 DEF Saving
    <3>2. files' = (files \union {NewFile("saveacopy")}) \ {save.local}
      BY <1>3, <1>7, <2>0, <2>2
    <3> HIDE DEF at
    <3> QED
      BY <1>6, <3>1, <3>2
  <2>3. CASE /\ save' = [at |-> AtRest, doc |-> NoDoc, local |-> NoFile, told |-> "failed"]
             /\ files' = (files \union {NewFile("saveacopy")}) \ free
             /\ mishap' = TRUE
    <3>1. NewFile("saveacopy") \notin free
      BY <1>3 DEF free, Freed, Owned
    <3> QED
      BY <1>5, <2>3, <3>1
  <2> QED
    BY <1>8, <2>1, <2>2, <2>3 DEF SaveTemp, free
<1>9. CASE SaveCompress
  <2>1. CASE SaveEnds("nothing", {save.local})
    BY <1>5, <2>1 DEF SaveEnds, free
  <2>2. ASSUME NEW run \in CompressionRuns, run.error = TRUE,
               save' = [at |-> AtRest, doc |-> NoDoc, local |-> NoFile, told |-> "failed"],
               files' = ((files \union (IF run.file THEN {NewFile("comp")} ELSE {}))
                           \ {save.local}) \ free,
               mishap' = (mishap \/ run.file)
        PROVE  DocumentsApart' /\ TemporaryFilesHaveOwners'
    <3>1. CASE run.file = TRUE
      BY <1>5, <2>2, <3>1
    <3>2. CASE run.file = FALSE
      BY <1>5, <2>2, <3>2
    <3>3. run.file = TRUE \/ run.file = FALSE
      BY DEF CompressionRuns
    <3> QED
      BY <3>1, <3>2, <3>3
  <2>3. CASE /\ save' = [save EXCEPT !.at = "transfer", !.local = NewFile("comp")]
             /\ files' = (files \union {NewFile("comp")}) \ {save.local}
    BY <1>6, <2>3
  <2>4. \A run \in CompressionRuns : run.error = TRUE \/ run.error = FALSE
    BY DEF CompressionRuns
  <2> QED
    BY <1>9, <2>1, <2>2, <2>3, <2>4 DEF SaveCompress, free
<1>10. CASE SaveTransfer
  <2>1. PICK answer \in {"finished", "failed"} : SaveEnds(answer, {save.local})
    BY <1>10 DEF SaveTransfer
  <2> QED
    BY <1>5, <2>1 DEF SaveEnds, free
<1> QED
  BY <1>4, <1>8, <1>9, <1>10

\* The document that was loaded takes the place of the one that is shown.
LEMMA ShownOwners ==
  ASSUME FilesInvariant, LoadFinished, load.error = "none"
  PROVE  DocumentsApart' /\ TemporaryFilesHaveOwners'
<1> DEFINE L == OwnedBy(load.doc)
           H == OwnedBy(shown)
           V == OwnedBy(save.doc)
           E == {extras.attachment, extras.image} \ {NoFile}
           C == {load.copy, save.local} \ {NoFile}
           free == Freed(shown, {load.doc, save.doc})
<1>0. FilesShape /\ DocumentsApart /\ load \in Loading
  BY DEF FilesInvariant, FilesShape
<1>1. Owned = L \union H \union V \union E \union C \union uploads
  BY DEF Owned
<1>2. /\ load'.doc = NoDoc /\ load'.copy = load.copy /\ shown' = load.doc /\ save' = save
      /\ UNCHANGED <<uploads, over, mishap>> /\ ~over /\ extras' = NoExtras
      /\ files' = (files \ {extras.attachment, extras.image}) \ free
  BY <1>0 DEF LoadFinished, Replaced, Loading
<1>3. OwnedBy(NoDoc) = {} /\ {NoExtras.attachment, NoExtras.image} = {NoFile}
  BY DocumentsOwn DEF NoExtras
<1>4. Owned' = L \union V \union C \union uploads
  BY <1>2, <1>3 DEF Owned
<1>5. Owned \subseteq files /\ (~mishap => files \subseteq Owned)
  BY DEF FilesInvariant, TemporaryFilesHaveOwners, Stray
<1>6. /\ (L \union H \union V) \intersect ((C \ {save.local}) \union E \union uploads) = {}
      /\ NoFile \notin L \union H \union V \union uploads
      /\ E \intersect (C \union uploads) = {} /\ C \intersect uploads = {}
  BY <1>0, <1>5, KindsApart
<1>7. /\ L \intersect (H \union V) = {} /\ save.local \notin L \union H \union V
      /\ save.doc = shown \/ V \intersect H = {}
  BY <1>0 DEF DocumentsApart
<1>8. /\ free = {} \/ free = H
      /\ free = {} => H \subseteq L \union V
      /\ free = H => save.doc # shown \/ H = {}
  BY DEF Freed
<1>9. \A file \in files : file # NoFile
  BY <1>0 DEF FilesShape, FilesTypeOK, NoFile
<1>10. DocumentsApart'
  <2>1. OwnedBy(load'.doc) = {} /\ OwnedBy(shown') = L /\ OwnedBy(save'.doc) = V
    BY <1>2, <1>3
  <2> QED
    BY <1>2, <1>7, <2>1 DEF DocumentsApart
<1>11. {extras.attachment, extras.image} \intersect files = E \intersect files
  BY <1>9
<1>12. files' = (files \ E) \ free
  BY <1>2, <1>11
<1> HIDE DEF L, H, V, E, free
<1>13. free \intersect (L \union V \union C \union uploads) = {}
  BY <1>6, <1>7, <1>8 DEF H, V
<1>14. E \intersect (L \union V \union C \union uploads) = {}
  BY <1>6
<1> HIDE DEF C
<1>15. Owned' \subseteq files'
  BY <1>1, <1>4, <1>5, <1>12, <1>13, <1>14
<1>16. ~mishap' => files' \subseteq Owned'
  BY <1>1, <1>2, <1>4, <1>5, <1>8, <1>12
<1> QED
  BY <1>2, <1>10, <1>15, <1>16 DEF TemporaryFilesHaveOwners, Stray

\* The process ends: what is not being worked on is gone.
LEMMA QuitOwners ==
  ASSUME FilesInvariant, Quit
  PROVE  DocumentsApart' /\ TemporaryFilesHaveOwners'
<1> DEFINE busy == load.at \in {"type", "open", "again"}
           L == OwnedBy(load.doc)
           M == OwnedBy(load'.doc)
           H == OwnedBy(shown)
           V == OwnedBy(save.doc)
           E == {extras.attachment, extras.image} \ {NoFile}
           C == {load.copy, save.local} \ {NoFile}
           remaining == IF busy THEN {} ELSE L
           free == Freed(shown, {NoDoc, save.doc})
<1>0. FilesShape /\ DocumentsApart /\ load \in Loading /\ SaveTurns /\ ProgramTurns
  BY DEF FilesInvariant, FilesShape
<1>1. Owned = L \union H \union V \union E \union C \union uploads
  BY DEF Owned
<1>2. /\ load' = (IF busy THEN load ELSE [load EXCEPT !.at = AtRest, !.doc = NoDoc])
      /\ shown' = NoDoc /\ save' = save /\ uploads' = uploads /\ extras' = NoExtras
      /\ files' = (files \ {extras.attachment, extras.image}) \ (remaining \union free)
      /\ mishap' = (mishap \/ (busy \/ save.at # AtRest) \/ uploads # {})
      /\ tmpdir' = (tmpdir /\ files' # {})
  BY DEF Quit, Replaced
<1>3. OwnedBy(NoDoc) = {} /\ {NoExtras.attachment, NoExtras.image} = {NoFile}
  BY DocumentsOwn DEF NoExtras
<1>4. /\ load'.copy = load.copy
      /\ busy => M = L /\ remaining = {}
      /\ ~busy => M = {} /\ remaining = L
  <2>1. CASE busy
    BY <1>2, <2>1
  <2>2. CASE ~busy
    BY <1>0, <1>2, <1>3, <2>2 DEF Loading
  <2> QED
    BY <2>1, <2>2
<1>5. Owned' = M \union V \union C \union uploads
  BY <1>2, <1>3, <1>4 DEF Owned
<1>6. Owned \subseteq files /\ (~mishap => files \subseteq Owned)
  BY DEF FilesInvariant, TemporaryFilesHaveOwners, Stray
<1>7. /\ (L \union H \union V) \intersect ((C \ {save.local}) \union E \union uploads) = {}
      /\ NoFile \notin L \union H \union V \union uploads
      /\ E \intersect (C \union uploads) = {} /\ C \intersect uploads = {}
  BY <1>0, <1>6, KindsApart
<1>8. /\ L \intersect (H \union V) = {} /\ save.local \notin L \union H \union V
      /\ save.doc = shown \/ V \intersect H = {}
  BY <1>0 DEF DocumentsApart
<1>9. /\ free = {} \/ free = H
      /\ free = {} => H \subseteq V
      /\ free = H => save.doc # shown \/ H = {}
  BY <1>3 DEF Freed
<1>10. \A file \in files : file # NoFile
  BY <1>0 DEF FilesShape, FilesTypeOK, NoFile
<1>11. {extras.attachment, extras.image} \intersect files = E \intersect files
  BY <1>10
<1>12. files' = (files \ E) \ (remaining \union free)
  BY <1>2, <1>11
<1>13. DocumentsApart'
  <2>1. OwnedBy(shown') = {} /\ OwnedBy(save'.doc) = V /\ M \subseteq L
    BY <1>2, <1>3, <1>4
  <2> HIDE DEF M, L, V, H
  <2>2. M \intersect ({} \union V) = {} /\ save.local \notin M \union {} \union V
    BY <1>8, <2>1
  <2> QED
    BY <1>2, <2>1, <2>2 DEF DocumentsApart, M
<1>14. ~mishap' => C = {} /\ V = {} /\ uploads = {} /\ ~busy /\ ~mishap
  <2>1. load.copy = NoFile
    BY <1>0 DEF Quit, ProgramTurns
  <2>2. ~mishap' => ~mishap /\ ~busy /\ save.at = AtRest /\ uploads = {}
    BY <1>2
  <2>3. ~mishap' => save.doc = NoDoc /\ save.local = NoFile
    BY <1>0, <2>2 DEF SaveTurns
  <2> QED
    BY <1>3, <2>1, <2>2, <2>3
<1> HIDE DEF L, M, H, V, E, free, remaining, busy
<1>15. free \intersect (L \union V \union C \union uploads) = {}
  BY <1>7, <1>8, <1>9 DEF H, V
<1>16. remaining \intersect (M \union V \union C \union uploads) = {}
  BY <1>4, <1>7, <1>8
<1> HIDE DEF C
<1>17. Owned' \subseteq files'
  BY <1>1, <1>4, <1>5, <1>6, <1>7, <1>12, <1>15, <1>16
<1>18. ~mishap' => files' = {}
  BY <1>1, <1>4, <1>6, <1>9, <1>12, <1>14
<1>19. ~mishap' => ~tmpdir'
  BY <1>2, <1>18
<1> QED
  BY <1>13, <1>17, <1>18, <1>19 DEF TemporaryFilesHaveOwners, Stray

\* A step that makes new files and gives them owners, or leaves them behind.
LEMMA NewOwners ==
  ASSUME FilesInvariant, UNCHANGED <<shown, save>>, ~over, load'.doc = load.doc,
         mishap => mishap', over' = over \/ mishap',
         NEW new, NEW owned, owned \subseteq new, new \intersect files = {},
         Owned' = Owned \union owned, files' = files \union new, ~mishap' => owned = new
  PROVE  DocumentsApart' /\ TemporaryFilesHaveOwners'
<1>1. Owned \subseteq files /\ (~mishap => files \subseteq Owned)
  BY DEF FilesInvariant, TemporaryFilesHaveOwners, Stray
<1>2. DocumentsApart'
  BY DEF FilesInvariant, DocumentsApart
<1>3. Owned' \subseteq files' /\ (~mishap' => files' \subseteq Owned')
  BY <1>1
<1>4. ~mishap' => ~over'
  OBVIOUS
<1> QED
  BY <1>2, <1>3, <1>4 DEF TemporaryFilesHaveOwners, Stray

\* The commands of the window that make files, and the copy of the thumbnailer.
LEMMA MakingOwners ==
  ASSUME FilesInvariant,
         \/ SaveImage \/ SaveAttachments \/ DragAttachment \/ Fetch
         \/ \E which \in {"attachment", "image"} : OpenExtra(which)
  PROVE  DocumentsApart' /\ TemporaryFilesHaveOwners'
<1>0. FilesShape /\ Owned \subseteq files /\ load \in Loading /\ extras \in Extras
  BY DEF FilesInvariant, FilesShape, TemporaryFilesHaveOwners
<1>1. \A kind : /\ NewFile(kind) \notin files /\ NewFile(kind) # NoFile
                /\ <<kind, made + 1>> \notin files /\ <<kind, made + 2>> \notin files
  BY <1>0, KindsApart DEF NewFile
<1>2. CASE SaveImage
  <2> DEFINE new == {NewFile("upload")}
  <2>1. /\ ~over /\ files' = files \union new /\ UNCHANGED <<load, shown, extras, save, over>>
        /\ \/ uploads' = uploads \union new /\ mishap' = mishap
           \/ uploads' = uploads /\ mishap' = TRUE
    BY <1>2 DEF SaveImage, User
  <2>2. new \intersect files = {}
    BY <1>1
  <2> HIDE DEF new
  <2>3. CASE uploads' = uploads \union new /\ mishap' = mishap
    <3>1. Owned' = Owned \union new
      BY <2>1, <2>3 DEF Owned
    <3> QED
      BY <2>1, <2>2, <2>3, <3>1, NewOwners
  <2>4. CASE uploads' = uploads /\ mishap' = TRUE
    <3>1. Owned' = Owned \union {}
      BY <2>1, <2>4 DEF Owned
    <3> QED
      BY <2>1, <2>2, <2>4, <3>1, NewOwners
  <2> QED
    BY <2>1, <2>3, <2>4
<1>3. CASE SaveAttachments
  <2> DEFINE new == {<<"upload", made + 1>>, <<"upload", made + 2>>}
  <2>1. PICK written \in SUBSET new :
          uploads' = uploads \union written /\ mishap' = (mishap \/ written # new)
    BY <1>3 DEF SaveAttachments
  <2>2. ~over /\ files' = files \union new /\ UNCHANGED <<load, shown, extras, save, over>>
    BY <1>3 DEF SaveAttachments, User
  <2>3. new \intersect files = {}
    BY <1>1
  <2> HIDE DEF new
  <2>4. Owned' = Owned \union written
    BY <2>1, <2>2 DEF Owned
  <2> QED
    BY <2>1, <2>2, <2>3, <2>4, NewOwners
<1>4. CASE DragAttachment
  <2> DEFINE new == {NewFile("dragged")}
  <2>1. /\ ~over /\ files' = files \union new /\ mishap' = TRUE
        /\ UNCHANGED <<load, shown, extras, save, uploads, over>>
    BY <1>4 DEF DragAttachment, User, heldVars
  <2>2. new \intersect files = {}
    BY <1>1
  <2> HIDE DEF new
  <2>3. Owned' = Owned \union {}
    BY <2>1 DEF Owned
  <2> QED
    BY <2>1, <2>2, <2>3, NewOwners
<1>5. CASE Fetch
  <2> DEFINE new == {NewFile("document")}
  <2>1. ~over /\ load.copy = NoFile /\ UNCHANGED <<shown, extras, save, uploads>>
    BY <1>5 DEF Fetch, FilesInvariant, ProgramTurns
  <2>2. \/ load' = [load EXCEPT !.at = "type"] /\ UNCHANGED <<files, over, mishap>>
        \/ /\ load' = [load EXCEPT !.at = "type", !.copy = NewFile("document")]
           /\ files' = files \union new /\ UNCHANGED <<over, mishap>>
        \/ load' = load /\ files' = files \union new /\ mishap' = TRUE
    BY <1>5 DEF Fetch
  <2>3. new \intersect files = {} /\ NewFile("document") # NoFile
    BY <1>1
  <2>4. CASE load' = [load EXCEPT !.at = "type"] /\ UNCHANGED <<files, over, mishap>>
    <3>1. load'.doc = load.doc /\ load'.copy = load.copy
      BY <1>0, <2>4 DEF Loading
    <3>2. Owned' = Owned \union {} /\ files' = files \union {} /\ {} \intersect files = {}
      BY <2>1, <2>4, <3>1 DEF Owned
    <3> QED
      BY <2>1, <2>4, <3>1, <3>2, NewOwners
  <2>5. CASE /\ load' = [load EXCEPT !.at = "type", !.copy = NewFile("document")]
             /\ files' = files \union new /\ UNCHANGED <<over, mishap>>
    <3>1. load'.doc = load.doc /\ load'.copy = NewFile("document")
      BY <1>0, <2>5 DEF Loading
    <3>2. Owned' = Owned \union new
      BY <2>1, <2>3, <3>1 DEF Owned
    <3> HIDE DEF new
    <3> QED
      BY <2>1, <2>3, <2>5, <3>1, <3>2, NewOwners
  <2>6. CASE load' = load /\ files' = files \union new /\ mishap' = TRUE
    <3>1. Owned' = Owned \union {}
      BY <2>1, <2>6 DEF Owned
    <3> HIDE DEF new
    <3> QED
      BY <2>1, <2>3, <2>6, <3>1, NewOwners
  <2> QED
    BY <2>2, <2>4, <2>5, <2>6
<1>6. ASSUME NEW which \in {"attachment", "image"}, OpenExtra(which)
      PROVE  DocumentsApart' /\ TemporaryFilesHaveOwners'
  <2> DEFINE new == {NewFile(which)}
  <2>1. ~over /\ UNCHANGED <<load, shown, save, uploads, over>>
    BY <1>6 DEF OpenExtra, User
  <2>2. \/ UNCHANGED <<files, extras, mishap>>
        \/ /\ extras[which] = NoFile /\ files' = files \union new
           /\ extras' = [extras EXCEPT ![which] = NewFile(which)] /\ UNCHANGED mishap
        \/ files' = files \union new /\ mishap' = TRUE /\ UNCHANGED extras
    BY <1>6 DEF OpenExtra
  <2>3. new \intersect files = {} /\ NewFile(which) # NoFile
    BY <1>1
  <2>4. CASE UNCHANGED <<files, extras, mishap>>
    <3>1. Owned' = Owned \union {} /\ files' = files \union {} /\ {} \intersect files = {}
      BY <2>1, <2>4 DEF Owned
    <3> QED
      BY <2>1, <2>4, <3>1, NewOwners
  <2>5. CASE /\ extras[which] = NoFile /\ files' = files \union new
             /\ extras' = [extras EXCEPT ![which] = NewFile(which)] /\ UNCHANGED mishap
    <3>1. {extras'.attachment, extras'.image} \ {NoFile}
            = ({extras.attachment, extras.image} \ {NoFile}) \union new
      <4>1. CASE which = "attachment"
        BY <1>0, <2>3, <2>5, <4>1 DEF Extras
      <4>2. CASE which = "image"
        BY <1>0, <2>3, <2>5, <4>2 DEF Extras
      <4> QED
        BY <4>1, <4>2
    <3> HIDE DEF new
    <3>2. Owned' = Owned \union new
      BY <2>1, <3>1 DEF Owned
    <3> QED
      BY <2>1, <2>3, <2>5, <3>2, NewOwners
  <2>6. CASE files' = files \union new /\ mishap' = TRUE /\ UNCHANGED extras
    <3>1. Owned' = Owned \union {}
      BY <2>1, <2>6 DEF Owned
    <3> HIDE DEF new
    <3> QED
      BY <2>1, <2>3, <2>6, <3>1, NewOwners
  <2> QED
    BY <2>2, <2>4, <2>5, <2>6
<1> QED
  BY <1>2, <1>3, <1>4, <1>5, <1>6

\* An upload that ends, and the thumbnailer that does: what they have goes with them.
LEMMA EndingOwners ==
  ASSUME FilesInvariant, Thumbnail \/ \E file \in uploads : Uploaded(file)
  PROVE  DocumentsApart' /\ TemporaryFilesHaveOwners'
<1>0. FilesShape /\ ProgramTurns /\ SaveTurns /\ DocumentsApart /\ load \in Loading
  BY DEF FilesInvariant, FilesShape
<1>1. Owned \subseteq files /\ (~mishap => files \subseteq Owned)
  BY DEF FilesInvariant, TemporaryFilesHaveOwners, Stray
<1>2. OwnedBy(NoDoc) = {} /\ {NoExtras.attachment, NoExtras.image} = {NoFile}
  BY DocumentsOwn DEF NoExtras
<1>3. ASSUME NEW file \in uploads, Uploaded(file)
      PROVE  DocumentsApart' /\ TemporaryFilesHaveOwners'
  <2>1. /\ uploads' = uploads \ {file} /\ files' = files \ {file} /\ ~over
        /\ UNCHANGED <<load, shown, extras, save, over, mishap>>
    BY <1>3 DEF Uploaded
  <2>2. DocumentsApart'
    BY <1>0, <2>1 DEF DocumentsApart
  <2>3. Owned' = Owned \ {file}
    <3>1. /\ file \notin OwnedBy(load.doc) \union OwnedBy(shown) \union OwnedBy(save.doc)
          /\ file \notin {load.copy, save.local, extras.attachment, extras.image}
      BY <1>0, <1>1, KindsApart
    <3> QED
      BY <2>1, <3>1 DEF Owned
  <2> QED
    BY <1>1, <2>1, <2>2, <2>3 DEF TemporaryFilesHaveOwners, Stray
<1>4. CASE Thumbnail
  <2>1. /\ shown = NoDoc /\ extras = NoExtras /\ save.doc = NoDoc /\ save.local = NoFile
        /\ uploads = {}
    BY <1>0, <1>4 DEF Thumbnail, ProgramTurns, SaveTurns
  <2>2. Owned = OwnedBy(load.doc) \union ({load.copy} \ {NoFile})
    BY <1>2, <2>1 DEF Owned
  <2>3. load'.doc = NoDoc /\ load'.copy = NoFile /\ UNCHANGED <<shown, extras, save, uploads>>
    BY <1>0, <1>4 DEF Thumbnail, Loading
  <2>4. Owned' = {}
    BY <1>2, <2>1, <2>3 DEF Owned
  <2>5. DocumentsApart'
    BY <1>2, <2>1, <2>3 DEF DocumentsApart
  <2>6. \/ mishap' = TRUE
        \/ /\ files' = files \ (OwnedBy(load.doc) \union {load.copy}) /\ mishap' = mishap
           /\ tmpdir' = (tmpdir /\ files' # {})
    BY <1>4 DEF Thumbnail
  <2>7. ~mishap' => files' = {} /\ ~tmpdir'
    BY <1>1, <2>2, <2>6
  <2> QED
    BY <2>4, <2>5, <2>7 DEF TemporaryFilesHaveOwners, Stray
<1> QED
  BY <1>3, <1>4

-----------------------------------------------------------------------------
(* The theorems.                                                           *)

\* The invariant holds at first and every step keeps it.
LEMMA FilesInvariantAlways == FilesSpec => []FilesInvariant
<1>1. FilesInit => FilesInvariant
  <2> SUFFICES ASSUME FilesInit
               PROVE  FilesInvariant
    OBVIOUS
  <2>1. FilesShape /\ LoadTurns
    BY FilesShapeInit
  <2>2. SaveTurns /\ ProgramTurns
    BY DEF FilesInit, SaveTurns, ProgramTurns
  <2>3. /\ OwnedBy(load.doc) = {} /\ OwnedBy(shown) = {} /\ OwnedBy(save.doc) = {}
    BY DocumentsOwn DEF FilesInit
  <2>4. DocumentsApart
    BY <2>3 DEF DocumentsApart
  <2>5. Owned = {}
    BY <2>3 DEF FilesInit, Owned, NoExtras
  <2>6. TemporaryFilesHaveOwners
    BY <2>5 DEF FilesInit, TemporaryFilesHaveOwners, Stray
  <2> QED
    BY <2>1, <2>2, <2>4, <2>6 DEF FilesInvariant
<1>2. FilesInvariant /\ [FilesNext]_fileVars => FilesInvariant'
  <2> SUFFICES ASSUME FilesInvariant, [FilesNext]_fileVars
               PROVE  FilesInvariant'
    OBVIOUS
  <2>1. FilesShape' /\ LoadTurns' /\ SaveTurns' /\ ProgramTurns'
    BY FilesShapeStep DEF FilesInvariant, TemporaryFilesHaveOwners
  <2>2. DocumentsApart' /\ TemporaryFilesHaveOwners'
    <3>1. CASE UNCHANGED fileVars
      BY <3>1 DEF FilesInvariant, DocumentsApart, TemporaryFilesHaveOwners, Stray, Owned,
                  fileVars, heldVars, fixedVars
    <3>2. CASE FileWork
      <4>1. CASE LoadFinished
        <5>1. CASE load.error = "none"
          BY <4>1, <5>1, ShownOwners
        <5>2. CASE load.error # "none"
          BY <4>1, <5>2, LoadOwners
        <5> QED
          BY <5>1, <5>2
      <4> QED
        BY <3>2, <4>1, TypeFoundOwners, OpenOwners, SaveOwners, MakingOwners, EndingOwners
           DEF FileWork
    <3> QED
      BY <3>1, <3>2, LoadOwners, SaveOwners, MakingOwners, QuitOwners DEF FilesNext
  <2> QED
    BY <2>1, <2>2 DEF FilesInvariant
<1> QED
  BY <1>1, <1>2, PTL DEF FilesSpec

\* The variables keep to their types: every file is one that was made.
THEOREM FilesTypeCorrect == FilesSpec => []FilesTypeOK
<1>1. FilesInvariant => FilesTypeOK
  BY DEF FilesInvariant, FilesShape
<1> QED
  BY <1>1, FilesInvariantAlways, PTL

\* ev_document_factory_get_document gives a document that was loaded and no error, no
\* document and an error, or an encrypted document and an error, whatever files there
\* are, whatever their names hide, and whatever goes wrong with them.
THEOREM FactoryTrue == FilesSpec => []FactoryKeepsItsWord
<1>1. FilesInvariant => FactoryKeepsItsWord
  BY DEF FilesInvariant, LoadTurns
<1> QED
  BY <1>1, FilesInvariantAlways, PTL

\* No temporary file is removed while a document, a job or an upload has it, and none is
\* left, with its directory, when nobody does, unless a call that leaves files behind
\* was made.
THEOREM FilesOwned == FilesSpec => []TemporaryFilesHaveOwners
<1>1. FilesInvariant => TemporaryFilesHaveOwners
  BY DEF FilesInvariant
<1> QED
  BY <1>1, FilesInvariantAlways, PTL

-----------------------------------------------------------------------------
(* The queues, a job and the files together.                               *)

\* A behaviour of the three is a behaviour of each of them.
LEMMA Parts == JobsSpec => Spec /\ JobSpec /\ FilesSpec
<1>1. JobsInit => Init /\ JobInit /\ FilesInit
  BY DEF JobsInit
<1>2. [JobsNext]_jobsVars => [Next]_vars /\ [JobNext]_jobVars /\ [FilesNext]_fileVars
  BY DEF JobsNext, jobsVars
<1> QED
  BY <1>1, <1>2, PTL DEF JobsSpec, Spec, JobSpec, FilesSpec

\* The variables of the scheduler, of a job and of the files keep to their types when the
\* three are in one behaviour.
THEOREM JobsTypeCorrect == JobsSpec => []JobsTypeOK
<1>1. TypeOK /\ JobTypeOK /\ FilesTypeOK => JobsTypeOK
  BY DEF JobsTypeOK
<1> QED
  BY <1>1, Parts, TypeCorrect, JobTypeCorrect, FilesTypeCorrect, PTL
=============================================================================
