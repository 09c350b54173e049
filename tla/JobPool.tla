------------------------------- MODULE JobPool -------------------------------
(***************************************************************************)
(* What clients of the job scheduler rely on, without its threads, lists   *)
(* and locks: an entry waits in a priority class, at most one runs at a    *)
(* time, the one that starts is from the most urgent class that has any,   *)
(* and an entry that was withdrawn or has run never runs again.            *)
(***************************************************************************)
EXTENDS Integers

CONSTANTS NPriorities, MaxPushes

Priority == 0 .. (NPriorities - 1)
Entry    == 1 .. MaxPushes

VARIABLES
  phase,   \* "new", "waiting", "running" or "retired"
  class    \* the class an entry waits in, NPriorities when it does not wait

poolVars == <<phase, class>>

Init ==
  /\ phase = [e \in Entry |-> "new"]
  /\ class = [e \in Entry |-> NPriorities]

Move(e, from, to) == phase[e] = from /\ phase' = [phase EXCEPT ![e] = to]

Submit(e, p) ==
  /\ Move(e, "new", "waiting")
  /\ class' = [class EXCEPT ![e] = p]

Reclass(e, p) ==
  /\ phase[e] = "waiting"
  /\ class' = [class EXCEPT ![e] = p]
  /\ UNCHANGED phase

Withdraw(e) ==
  /\ Move(e, "waiting", "retired")
  /\ class' = [class EXCEPT ![e] = NPriorities]

Start(e) ==
  /\ Move(e, "waiting", "running")
  /\ \A f \in Entry : phase[f] # "running" /\ class[e] <= class[f]
  /\ class' = [class EXCEPT ![e] = NPriorities]

Retire(e) ==
  /\ Move(e, "running", "retired")
  /\ UNCHANGED class

Next ==
  \E e \in Entry :
    \/ \E p \in Priority : Submit(e, p) \/ Reclass(e, p)
    \/ Withdraw(e) \/ Start(e) \/ Retire(e)

Spec == Init /\ [][Next]_poolVars
=============================================================================
