------------------------- MODULE NumaJobQueueGroup -------------------------
(***************************************************************************)
(* A group of job queues (NumaJobQueueGroup in tools/jobqueue.hpp), one    *)
(* per input of parallel_sample_sort_numa2(), while numaLaunch() runs: a   *)
(* parallel loop whose threads take the queues one at a time, in order,    *)
(* and run each with a team of its own until the queue is worked off.      *)
(* Of a queue this module takes what WorkPool promises and JobQueue keeps: *)
(* jobs are run once, may enqueue more, and a thread leaves its team only  *)
(* when none of the queue's jobs is pending or running.                    *)
(*                                                                         *)
(* The teams are as large as asked for: nesting is enabled, and no limit   *)
(* of the OpenMP runtime is reached.                                       *)
(***************************************************************************)
EXTENDS Integers, FiniteSets, FiniteSetsExt, Functions

CONSTANTS
  ThreadCounts,   \* what omp_get_max_threads() may be
  QueueCounts,    \* how many queues the group may have
  MaxJobs         \* bound: jobs ever created in a queue

ASSUME GroupAssumption ==
  /\ ThreadCounts \subseteq Nat \ {0} /\ QueueCounts \subseteq Nat \ {0}
  /\ MaxJobs \in Nat \ {0}

VARIABLES
  threads,    \* omp_get_max_threads()
  queues,     \* m_queues.size()
  next,       \* the next iteration that the dynamic schedule hands out
  at,         \* the queue that each thread of the loop runs, or where it is
  team,       \* threads in executeThreadWork() of each queue
  pending,    \* jobs in m_queue of each queue
  busy,       \* threads of each team inside a job's run()
  unborn      \* jobs that each queue's jobs may still create

groupVars == <<threads, queues, next, at, team, pending, busy, unborn>>
sizes == <<threads, queues>>

Queue == 0 .. queues - 1

(* numaLaunch(): no more threads for the loop than there are iterations. *)
RunThreads == Min({threads, queues})

LoopThread == 1 .. RunThreads

Free == -1    \* a thread of the loop between two iterations
Over == -2    \* one at the loop's end

(* The threads of the machine divided by the queues; the first queues get  *)
(* those that are left over.                                               *)
CalcThreadNum(k) ==
  threads \div queues + (IF k < threads % queues THEN 1 ELSE 0)

(* Mistake: one queue too many gets a thread more. *)
NodeThreadsOneMore(k) ==
  LET n == threads \div queues + (IF k <= threads % queues THEN 1 ELSE 0)
  IN  Max({n, 1})

(* The size of the team that runs queue k, and what its context was told.  *)
NodeThreads(k) == Max({CalcThreadNum(k), 1})

GroupTypeOK ==
  /\ threads \in ThreadCounts /\ queues \in QueueCounts
  /\ next \in 0 .. queues
  /\ at \in [LoopThread -> Queue \union {Free, Over}]
  /\ team \in [Queue -> Nat] /\ pending \in [Queue -> Nat]
  /\ busy \in [Queue -> Nat] /\ unborn \in [Queue -> Nat]

(* Every queue was constructed with one job, that of its input.  *)
GroupInit ==
  /\ threads \in ThreadCounts /\ queues \in QueueCounts
  /\ next = 0
  /\ at = [l \in LoopThread |-> Free]
  /\ team = [k \in Queue |-> 0]
  /\ pending = [k \in Queue |-> 1]
  /\ busy = [k \in Queue |-> 0]
  /\ unborn = [k \in Queue |-> MaxJobs - 1]

-----------------------------------------------------------------------------
(* The next iteration of the loop: m_queues[k]->numaLoop(). *)
TakeQueue(l) ==
  /\ at[l] = Free /\ next < queues
  /\ at' = [at EXCEPT ![l] = next]
  /\ team' = [team EXCEPT ![next] = NodeThreads(next)]
  /\ next' = next + 1
  /\ UNCHANGED <<sizes, pending, busy, unborn>>

(* One thread of the team takes a job. *)
PopJob(k) ==
  /\ busy[k] < team[k] /\ pending[k] > 0
  /\ pending' = [pending EXCEPT ![k] = @ - 1]
  /\ busy' = [busy EXCEPT ![k] = @ + 1]
  /\ UNCHANGED <<sizes, next, at, team, unborn>>

(* A running job creates another one, in its own queue. *)
CreateJob(k) ==
  /\ busy[k] > 0 /\ unborn[k] > 0
  /\ unborn' = [unborn EXCEPT ![k] = @ - 1]
  /\ pending' = [pending EXCEPT ![k] = @ + 1]
  /\ UNCHANGED <<sizes, next, at, team, busy>>

EndJob(k) ==
  /\ busy[k] > 0
  /\ busy' = [busy EXCEPT ![k] = @ - 1]
  /\ UNCHANGED <<sizes, next, at, team, pending, unborn>>

HasWork(k) == pending[k] > 0 \/ busy[k] > 0

(* Mistake: assist() says that there is something to assist, until every   *)
(* queue is worked off, and the thread asks again.                         *)
LeaveTeamLast(k) ==
  /\ team[k] > 0 /\ ~HasWork(k)
  /\ team' = IF \E j \in Queue : HasWork(j) THEN team ELSE [team EXCEPT ![k] = @ - 1]
  /\ UNCHANGED <<sizes, next, at, pending, busy, unborn>>

(* A thread finds the whole team idle.  assist() goes through the other    *)
(* queues, touches none of them and returns false; the thread leaves.      *)
LeaveTeam(k) ==
  /\ team[k] > 0 /\ ~HasWork(k)
  /\ team' = [team EXCEPT ![k] = @ - 1]
  /\ UNCHANGED <<sizes, next, at, pending, busy, unborn>>

(* The end of the team's parallel region: numaLoop() returns. *)
EndQueue(l) ==
  /\ at[l] \in Queue /\ team[at[l]] = 0
  /\ at' = [at EXCEPT ![l] = Free]
  /\ UNCHANGED <<sizes, next, team, pending, busy, unborn>>

EndLoop(l) ==
  /\ at[l] = Free /\ next = queues
  /\ at' = [at EXCEPT ![l] = Over]
  /\ UNCHANGED <<sizes, next, team, pending, busy, unborn>>

(* All threads are at the end of the loop: numaLaunch() returns. *)
Returned == \A l \in LoopThread : at[l] = Over

LaunchStep ==
  \/ \E l \in LoopThread : TakeQueue(l) \/ EndQueue(l) \/ EndLoop(l)
  \/ \E k \in Queue : PopJob(k) \/ CreateJob(k) \/ EndJob(k) \/ LeaveTeam(k)

GroupNext == LaunchStep \/ (Returned /\ UNCHANGED groupVars)

GroupSpec == GroupInit /\ [][GroupNext]_groupVars

(* Some thread of the group that can go on does; none waits for another    *)
(* but at the end of its region.                                           *)
FairGroupSpec == GroupSpec /\ WF_groupVars(LaunchStep)

-----------------------------------------------------------------------------
(* Whichever queues are run at a moment, and that depends on how long the  *)
(* others take, their teams together have no more threads than the machine. *)
TeamsFit == SumFunctionOnSet(team, Queue) <= threads

(* When numaLaunch() returns, no queue was left out, and none was left     *)
(* with a job, though there may be fewer threads than queues: the          *)
(* assertion at the end of numaLoop(), of every queue.                     *)
NothingLeftBehind == Returned => \A k \in Queue : ~HasWork(k)

(* numaLaunch() returns, and with all queues worked off: no thread holds   *)
(* on to a queue that is done while other queues wait for a thread, and    *)
(* none leaves a queue with work for the others, which would not come.     *)
LaunchEnds == <>(Returned /\ NothingLeftBehind)
=============================================================================
