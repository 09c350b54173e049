-------------------------------- MODULE MCJobs --------------------------------
(***************************************************************************)
(* Model checking the jobs, for TLC: the queues and the worker thread that *)
(* run them (EvJobScheduler), the flags of one job (EvJob), and the        *)
(* documents and temporary files that jobs make (DocumentFiles).  What the *)
(* jobs of the main loop do is in MCMainLoop.                              *)
(*                                                                         *)
(* The three have no state in common: a behaviour takes one of them, and   *)
(* the others rest in their first state.                                   *)
(***************************************************************************)
EXTENDS EvJobScheduler, EvJob, DocumentFiles

VARIABLE part   \* the one that runs
jobsVars == <<part, vars, jobVars, fileVars>>

\* A name that tells the truth, one that hides another type, a compressed document
\* with a name that says so and without, and comic books.
MCSources ==
  {[fast |-> f, slow |-> f, name |-> "other", remote |-> r] :
     f \in {"pdf", "x-xzpdf", "x-cb7"}, r \in BOOLEAN} \union
  {[fast |-> "x-cbr", slow |-> "pdf", name |-> "other", remote |-> FALSE],
   [fast |-> "text", slow |-> "x-gzpdf", name |-> "other", remote |-> FALSE],
   [fast |-> "x-gzpdf", slow |-> "x-gzpdf", name |-> "gz", remote |-> FALSE],
   [fast |-> "x-cbz", slow |-> "x-cbz", name |-> "other", remote |-> FALSE],
   [fast |-> "x-cbt", slow |-> "none", name |-> "other", remote |-> FALSE]}
MCInstalled == {{"7z", "tar"}, {"unzip", "zipnote", "unrar"}}

JobsInit ==
  /\ part \in {"queues", "flags", "files"}
  /\ Init /\ JobInit /\ FilesInit
  /\ {original.fast, original.slow} \intersect Comics = {} => installed = {"7z", "tar"}
  /\ part # "files" =>
       program = "evince" /\ installed = {"7z", "tar"} /\ original.fast = "pdf" /\ ~original.remote

JobsNext ==
  /\ UNCHANGED part
  /\ \/ part = "queues" /\ Next /\ UNCHANGED <<jobVars, fileVars>>
     \/ part = "flags" /\ JobNext /\ UNCHANGED <<vars, fileVars>>
     \/ part = "files" /\ FilesNext /\ UNCHANGED <<vars, jobVars>>

JobsSpec == JobsInit /\ [][JobsNext]_jobsVars /\ Fairness /\ JobFairness

\* The variables of the three keep to their types.
JobsTypeOK == TypeOK /\ JobTypeOK /\ FilesTypeOK

\* Every entry of the queues is released, and every run of a job is told to its client
\* or cancelled.
JobsProgress ==
  /\ part = "queues" => EveryEntryReleased
  /\ part = "flags" => EveryRunTold
=============================================================================
