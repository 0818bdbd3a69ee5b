------------------------------ MODULE JobQueue ------------------------------
(***************************************************************************)
(* JobQueueT of src/tools/jobqueue.hpp with the DefaultJobQueueGroup: a    *)
(* lock-free FIFO of jobs, and the threads of one OpenMP team that all     *)
(* execute executeThreadWork() until each of them finds the queue empty    *)
(* and every thread of the team idle.                                      *)
(*                                                                         *)
(* An action is one access to shared memory: one try_pop or push of the    *)
(* (linearizable) concurrent queue, one increment, decrement or load of    *)
(* m_idle_count.  Between two of them any other thread may move.           *)
(***************************************************************************)
EXTENDS Integers, Sequences, FiniteSets

CONSTANTS
  Threads,   \* the threads of the team, omp_get_num_threads() of them
  Jobs,      \* the job objects that may be created during the run
  NoJob      \* the pointer of a thread that holds no job

ASSUME ThreadsAssumption == IsFiniteSet(Threads) /\ Threads # {}

ASSUME NoJobAssumption == NoJob \notin Jobs

VARIABLES
  numthrs,   \* m_numthrs
  idle,      \* m_idle_count
  queue,     \* m_queue, pointers to jobs in the order of their tickets
  pc,        \* where each thread is in executeThreadWork()
  job,       \* the local variable job of each thread that has popped one
  status     \* the life of each job object

vars == <<numthrs, idle, queue, pc, job, status>>

NumThreads == Cardinality(Threads)

(***************************************************************************)
(* "start"  before the region's body: m_numthrs not yet set by this thread *)
(* "pop"    at the try_pop of the inner while                              *)
(* "run"    inside job->run()                                              *)
(* "idle"   about to increment m_idle_count                                *)
(* "spin"   at the try_pop of the idle loop                                *)
(* "check"  that try_pop failed, about to compare m_idle_count             *)
(* "wake"   that try_pop gave a job, about to decrement m_idle_count       *)
(* "left"   returned, waiting at the end of the parallel region            *)
(***************************************************************************)
Location == {"start", "pop", "run", "idle", "spin", "check", "wake", "left"}

(* An object that run() returned true for is deleted by the queue; one     *)
(* that returned false has the duty to delete itself, now or later.        *)
Life == {"unborn", "queued", "taken", "deleted", "released"}

TypeOK ==
  /\ numthrs \in {0, NumThreads}
  /\ idle \in 0 .. NumThreads
  /\ queue \in Seq(Jobs)
  /\ pc \in [Threads -> Location]
  /\ job \in [Threads -> Jobs \union {NoJob}]
  /\ status \in [Jobs -> Life]

(* What SmallsortJob asks before it gives work away. *)
HasIdle == idle # 0

(* The sorting function enqueues the first job and calls loop(). *)
Init ==
  /\ numthrs = 0
  /\ idle = 0
  /\ \E first \in Jobs :
       /\ queue = <<first>>
       /\ status = [j \in Jobs |-> IF j = first THEN "queued" ELSE "unborn"]
  /\ pc = [t \in Threads |-> "start"]
  /\ job = [t \in Threads |-> NoJob]

-----------------------------------------------------------------------------
GoTo(t, from, to) ==
  /\ pc[t] = from
  /\ pc' = [pc EXCEPT ![t] = to]

(* A try_pop that succeeds. *)
Pop(t) ==
  /\ queue # <<>>
  /\ job' = [job EXCEPT ![t] = Head(queue)]
  /\ queue' = Tail(queue)
  /\ status' = [status EXCEPT ![Head(queue)] = "taken"]

(* A try_pop that fails. *)
PopFails ==
  /\ queue = <<>>
  /\ UNCHANGED <<job, queue, status>>

Push(j) ==
  /\ queue' = Append(queue, j)
  /\ status' = [status EXCEPT ![j] = "queued"]

(* m_numthrs = omp_get_num_threads(): every thread writes the same value.  *)
Start(t) ==
  /\ GoTo(t, "start", "pop")
  /\ numthrs' = NumThreads
  /\ UNCHANGED <<idle, queue, job, status>>

PopBusy(t) ==
  /\ GoTo(t, "pop", "run")
  /\ Pop(t)
  /\ UNCHANGED <<numthrs, idle>>

MissBusy(t) ==
  /\ GoTo(t, "pop", "idle")
  /\ PopFails
  /\ UNCHANGED <<numthrs, idle>>

GoIdle(t) ==
  /\ GoTo(t, "idle", "spin")
  /\ idle' = idle + 1
  /\ UNCHANGED <<numthrs, queue, job, status>>

PopIdle(t) ==
  /\ GoTo(t, "spin", "wake")
  /\ Pop(t)
  /\ UNCHANGED <<numthrs, idle>>

MissIdle(t) ==
  /\ GoTo(t, "spin", "check")
  /\ PopFails
  /\ UNCHANGED <<numthrs, idle>>

(* Mistake: the thread does not count on a colleague to be idle as well. *)
LeaveEarly(t) ==
  /\ GoTo(t, "check", "left")
  /\ idle + 1 >= numthrs
  /\ UNCHANGED <<numthrs, idle, queue, job, status>>

(* The whole team counted idle: assist() of the default group returns      *)
(* false, the thread leaves.  It stays counted as idle.                    *)
Leave(t) ==
  /\ GoTo(t, "check", "left")
  /\ idle = numthrs
  /\ UNCHANGED <<numthrs, idle, queue, job, status>>

(* Mistake: the increment stands inside the idle loop. *)
SpinAgainCounts(t) ==
  /\ GoTo(t, "check", "idle")
  /\ idle # numthrs
  /\ UNCHANGED <<numthrs, idle, queue, job, status>>

SpinAgain(t) ==
  /\ GoTo(t, "check", "spin")
  /\ idle # numthrs
  /\ UNCHANGED <<numthrs, idle, queue, job, status>>

(* Mistakes: the decrement is missing, the run() after the idle loop is. *)
WakeUncounted(t) ==
  /\ GoTo(t, "wake", "run")
  /\ UNCHANGED <<numthrs, idle, queue, job, status>>

WakeForgets(t) ==
  /\ GoTo(t, "wake", "pop")
  /\ idle' = idle - 1
  /\ UNCHANGED <<numthrs, queue, job, status>>

Wake(t) ==
  /\ GoTo(t, "wake", "run")
  /\ idle' = idle - 1
  /\ UNCHANGED <<numthrs, queue, job, status>>

(* The running job creates another one and enqueues it. *)
Enqueue(t) ==
  /\ pc[t] = "run"
  /\ \E j \in Jobs : status[j] = "unborn" /\ Push(j)
  /\ UNCHANGED <<numthrs, idle, pc, job>>

(* Mistake: the inner loop is an if, one job at a time. *)
FinishGoesIdle(t) ==
  /\ GoTo(t, "run", "idle")
  /\ \E s \in {"deleted", "released"} : status' = [status EXCEPT ![job[t]] = s]
  /\ job' = [job EXCEPT ![t] = NoJob]
  /\ UNCHANGED <<numthrs, idle, queue>>

(* run() returns; delete job if it returned true. *)
Finish(t) ==
  /\ GoTo(t, "run", "pop")
  /\ \E s \in {"deleted", "released"} : status' = [status EXCEPT ![job[t]] = s]
  /\ job' = [job EXCEPT ![t] = NoJob]
  /\ UNCHANGED <<numthrs, idle, queue>>

Step(t) ==
  \/ Start(t)
  \/ PopBusy(t) \/ MissBusy(t)
  \/ GoIdle(t)
  \/ PopIdle(t) \/ MissIdle(t)
  \/ Leave(t) \/ SpinAgain(t)
  \/ Wake(t)
  \/ Enqueue(t) \/ Finish(t)

AllLeft == \A t \in Threads : pc[t] = "left"

(* The implicit barrier of the region: loop() has returned. *)
Done == AllLeft /\ UNCHANGED vars

Next == (\E t \in Threads : Step(t)) \/ Done

Spec == Init /\ [][Next]_vars

(* The operating system runs every thread of the team again and again, and *)
(* a job enqueues finitely many others.                                    *)
FairSpec == Spec /\ \A t \in Threads : WF_vars(Step(t))

-----------------------------------------------------------------------------
Counted == {"spin", "check", "wake", "left"}

(* m_idle_count is the number of threads between their increment and their *)
(* decrement, those that left included: it never wraps below zero and      *)
(* never exceeds the size of the team.                                     *)
IdleCountExact == idle = Cardinality({t \in Threads : pc[t] \in Counted})

(* Work is never left to nobody: while a job is queued, some thread not    *)
(* counted as idle is still bound to look into the queue.                  *)
QueuedWorkHasWorker ==
  queue # <<>> => \E t \in Threads : pc[t] \in {"start", "pop", "run"}

(* The assertion after the region, and what the callers of loop() rely on: *)
(* when all threads have left, the queue is empty and every job that was   *)
(* ever enqueued has been run to its end.                                  *)
EmptyAtEnd ==
  AllLeft =>
    /\ queue = <<>>
    /\ \A j \in Jobs : status[j] \notin {"queued", "taken"}

Holds(t) == pc[t] \in {"run", "wake"}

HeldOnce ==
  /\ \A t \in Threads : Holds(t) => /\ job[t] \in Jobs
                                    /\ status[job[t]] = "taken"
  /\ \A t, u \in Threads : Holds(t) /\ Holds(u) /\ t # u => job[t] # job[u]
  /\ \A j \in Jobs : status[j] = "taken" =>
       \E t \in Threads : Holds(t) /\ job[t] = j

QueuedOnce ==
  /\ \A i \in 1 .. Len(queue) : status[queue[i]] = "queued"
  /\ \A i, k \in 1 .. Len(queue) : i # k => queue[i] # queue[k]
  /\ \A j \in Jobs : status[j] = "queued" =>
       \E i \in 1 .. Len(queue) : queue[i] = j

(* A job is in the hands of exactly one thread from its pop to the end of  *)
(* its run, and a queued job stands exactly once in the queue: no run()    *)
(* is ever called twice for one object, or for a deleted one.              *)
OneHolder == HeldOnce /\ QueuedOnce

(* A thread compares m_idle_count with the size of the team, not with the  *)
(* zero that the constructor left in m_numthrs.                            *)
NumthrsSet == \A t \in Threads : pc[t] # "start" => numthrs = NumThreads

(* A thread may leave while another holds a job it popped when still       *)
(* counted as idle, but never while a job is running or queued: at that    *)
(* moment no further job can appear before that popper has run its own.    *)
LeaveWhenNobodyRuns ==
  [][\A t \in Threads : pc[t] # "left" /\ pc'[t] = "left" =>
       queue = <<>> /\ \A u \in Threads : pc[u] # "run"]_vars

(* loop() returns, and every job enqueued is run to its end.               *)
Termination == <>AllLeft

EveryJobRuns ==
  \A j \in Jobs : status[j] = "queued" ~> status[j] \in {"deleted", "released"}

-----------------------------------------------------------------------------
(* The work pool this queue implements: a popped job counts as running     *)
(* from its pop, and loop() returns with the last thread to leave.         *)
PoolState(s) ==
  CASE s = "unborn" -> "unborn"
    [] s = "queued" -> "pending"
    [] s = "taken" -> "running"
    [] OTHER -> "finished"

Pool == INSTANCE WorkPool WITH
  state <- [j \in Jobs |-> PoolState(status[j])],
  returned <- AllLeft

ImplementsPool == Pool!PoolSpec
=============================================================================
