------------------------------ MODULE WorkPool ------------------------------
(***************************************************************************)
(* What the sorting steps expect of the job queue, whatever threads and    *)
(* queue stand behind it: every job submitted before the loop returns is   *)
(* run, once; running jobs may submit further jobs; and loop() returns     *)
(* only when nothing is pending and nothing is running.  No order among    *)
(* pending jobs is promised.                                               *)
(***************************************************************************)
EXTENDS FiniteSets

CONSTANT Jobs

VARIABLES
  state,      \* state[j]: "unborn", "pending", "running" or "finished"
  returned    \* has loop() returned to its caller?

poolVars == <<state, returned>>

JobState == {"unborn", "pending", "running", "finished"}

InState(s) == {j \in Jobs : state[j] = s}

Quiescent == \A j \in Jobs : state[j] \in {"unborn", "finished"}

PoolTypeOK ==
  /\ state \in [Jobs -> JobState]
  /\ returned \in BOOLEAN

(* The first job is submitted before loop() is called. *)
PoolInit ==
  /\ \E first \in Jobs :
       state = [j \in Jobs |-> IF j = first THEN "pending" ELSE "unborn"]
  /\ returned = FALSE

(* A running job submits a new one. *)
Submit(j) ==
  /\ ~returned
  /\ state[j] = "unborn"
  /\ InState("running") # {}
  /\ state' = [state EXCEPT ![j] = "pending"]
  /\ UNCHANGED returned

(* Some thread takes a pending job and runs it. *)
Take(j) ==
  /\ ~returned
  /\ state[j] = "pending"
  /\ state' = [state EXCEPT ![j] = "running"]
  /\ UNCHANGED returned

(* The run() of a job returns. *)
Complete(j) ==
  /\ ~returned
  /\ state[j] = "running"
  /\ state' = [state EXCEPT ![j] = "finished"]
  /\ UNCHANGED returned

(* loop() returns: all the work is done. *)
Return ==
  /\ ~returned
  /\ Quiescent
  /\ returned' = TRUE
  /\ UNCHANGED state

PoolNext ==
  \/ \E j \in Jobs : Submit(j) \/ Take(j) \/ Complete(j)
  \/ Return

PoolSpec == PoolInit /\ [][PoolNext]_poolVars
=============================================================================
