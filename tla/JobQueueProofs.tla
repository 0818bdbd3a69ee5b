--------------------------- MODULE JobQueueProofs ---------------------------
(***************************************************************************)
(* Proofs about JobQueue, for every team of threads and every set of jobs, *)
(* and about NumaJobQueueGroup, for every number of threads and of queues. *)
(***************************************************************************)
EXTENDS JobQueue, NumaJobQueueGroup, Sums, SequenceTheorems

CountedThreads == {t \in Threads : pc[t] \in Counted}

(* The inductive invariant.                                                *)
IInv ==
  /\ TypeOK
  /\ NumthrsSet
  /\ IdleCountExact
  /\ QueuedWorkHasWorker
  /\ HeldOnce
  /\ QueuedOnce

-----------------------------------------------------------------------------
(* How the number of counted threads follows one thread's move.            *)
LEMMA CountBounds ==
  /\ NumThreads \in Nat
  /\ \A S \in SUBSET Threads :
       /\ IsFiniteSet(S)
       /\ Cardinality(S) \in 0 .. NumThreads
       /\ Cardinality(S) = NumThreads => S = Threads
  BY ThreadsAssumption, FS_Subset, FS_CardinalityType DEF NumThreads

LEMMA CountMove ==
  ASSUME pc \in [Threads -> Location],
         NEW t \in Threads, NEW to \in Location,
         pc' = [pc EXCEPT ![t] = to]
  PROVE  /\ (pc[t] \in Counted <=> to \in Counted)
              => Cardinality(CountedThreads') = Cardinality(CountedThreads)
         /\ pc[t] \notin Counted /\ to \in Counted
              => Cardinality(CountedThreads') = Cardinality(CountedThreads) + 1
         /\ pc[t] \in Counted /\ to \notin Counted
              => Cardinality(CountedThreads') = Cardinality(CountedThreads) - 1
<1>1. IsFiniteSet(CountedThreads)
  BY CountBounds DEF CountedThreads
<1>2. ASSUME pc[t] \in Counted <=> to \in Counted
      PROVE  CountedThreads' = CountedThreads
  BY <1>2 DEF CountedThreads
<1>3. ASSUME pc[t] \notin Counted, to \in Counted
      PROVE  CountedThreads' = CountedThreads \union {t} /\ t \notin CountedThreads
  BY <1>3 DEF CountedThreads
<1>4. ASSUME pc[t] \in Counted, to \notin Counted
      PROVE  CountedThreads' = CountedThreads \ {t} /\ t \in CountedThreads
  BY <1>4 DEF CountedThreads
<1>5. QED
  BY <1>1, <1>2, <1>3, <1>4, FS_AddElement, FS_RemoveElement

-----------------------------------------------------------------------------
LEMMA InitIInv == Init => IInv
<1> SUFFICES ASSUME Init PROVE IInv
  OBVIOUS
<1>1. PICK first \in Jobs :
        /\ queue = <<first>>
        /\ status = [j \in Jobs |-> IF j = first THEN "queued" ELSE "unborn"]
  BY DEF Init
<1>2. NumThreads \in Nat
  BY CountBounds
<1>3. TypeOK
  BY <1>1, <1>2 DEF Init, TypeOK, Location, Life
<1>4. IdleCountExact
  <2>1. {t \in Threads : pc[t] \in Counted} = {}
    BY DEF Init, Counted
  <2>2. QED
    BY <2>1, FS_EmptySet DEF Init, IdleCountExact
<1>5. QueuedWorkHasWorker
  BY ThreadsAssumption DEF Init, QueuedWorkHasWorker
<1>6. HeldOnce
  BY <1>1 DEF Init, HeldOnce, Holds
<1>7. QueuedOnce
  BY <1>1 DEF QueuedOnce
<1>8. QED
  BY <1>3, <1>4, <1>5, <1>6, <1>7 DEF IInv, NumthrsSet, Init

-----------------------------------------------------------------------------
(* A successful try_pop moves the job from the queue to the popper's hand. *)
LEMMA PopKeepsPlace ==
  ASSUME TypeOK, HeldOnce, QueuedOnce,
         NEW t \in Threads, ~Holds(t), Pop(t),
         NEW to \in {"run", "wake"}, pc' = [pc EXCEPT ![t] = to]
  PROVE  /\ queue' \in Seq(Jobs)
         /\ job' \in [Threads -> Jobs \union {NoJob}]
         /\ status' \in [Jobs -> Life]
         /\ HeldOnce'
         /\ QueuedOnce'
<1> DEFINE h == Head(queue)
<1>1. /\ h \in Jobs /\ h = queue[1]
      /\ Len(queue) \in Nat /\ Len(queue) >= 1
      /\ queue' \in Seq(Jobs) /\ Len(queue') = Len(queue) - 1
      /\ \A i \in 1 .. Len(queue') : queue'[i] = queue[i + 1]
  BY DEF Pop, TypeOK
<1>2. /\ status' = [status EXCEPT ![h] = "taken"]
      /\ job' = [job EXCEPT ![t] = h]
  BY DEF Pop
<1>3. status[h] = "queued"
  BY <1>1 DEF QueuedOnce
<1>4. \A i \in 1 .. Len(queue') : /\ i + 1 \in 1 .. Len(queue)
                                  /\ queue'[i] \in Jobs
                                  /\ queue'[i] # h
  <2>1. \A i \in 1 .. Len(queue') : i + 1 \in 1 .. Len(queue) /\ i + 1 # 1
    BY <1>1
  <2>2. \A i \in 1 .. Len(queue) : queue[i] \in Jobs
    BY DEF TypeOK
  <2>3. QED
    BY <1>1, <2>1, <2>2 DEF QueuedOnce
<1>5. HeldOnce'
  <2>1. \A u \in Threads : Holds(u)' <=> Holds(u) \/ u = t
    BY DEF Holds, TypeOK
  <2>2. \A u \in Threads : Holds(u) => job[u] # h /\ job'[u] = job[u]
    BY <1>2, <1>3 DEF HeldOnce, TypeOK
  <2>3. job'[t] = h /\ status'[h] = "taken"
    BY <1>1, <1>2 DEF TypeOK
  <2>4. \A j \in Jobs : j # h => status'[j] = status[j]
    BY <1>2 DEF TypeOK
  <2>5. QED
    BY <1>1, <2>1, <2>2, <2>3, <2>4 DEF HeldOnce
<1>6. QueuedOnce'
  <2>1. \A i \in 1 .. Len(queue') : status'[queue'[i]] = "queued"
    <3>1. \A j \in Jobs : j # h => status'[j] = status[j]
      BY <1>2 DEF TypeOK
    <3>2. QED
      BY <1>1, <1>4, <3>1 DEF QueuedOnce
  <2>2. \A i, k \in 1 .. Len(queue') : i # k => queue'[i] # queue'[k]
    <3>1. \A i, k \in 1 .. Len(queue') : i # k => i + 1 # k + 1
      BY <1>1
    <3>2. QED
      BY <1>1, <1>4, <3>1 DEF QueuedOnce
  <2>3. ASSUME NEW j \in Jobs, status'[j] = "queued"
        PROVE  \E i \in 1 .. Len(queue') : queue'[i] = j
    <3>1. j # h /\ status[j] = "queued"
      BY <1>1, <1>2, <2>3 DEF TypeOK
    <3>2. PICK i \in 1 .. Len(queue) : queue[i] = j
      BY <3>1 DEF QueuedOnce
    <3>3. i - 1 \in 1 .. Len(queue') /\ queue'[i - 1] = j
      BY <1>1, <3>1, <3>2
    <3>4. QED
      BY <3>3
  <2>4. QED
    BY <2>1, <2>2, <2>3 DEF QueuedOnce
<1>7. QED
  BY <1>1, <1>2, <1>5, <1>6 DEF TypeOK, Life

(* A push appends a fresh job.                                             *)
LEMMA PushKeepsPlace ==
  ASSUME TypeOK, HeldOnce, QueuedOnce,
         NEW j \in Jobs, status[j] = "unborn", Push(j),
         UNCHANGED <<pc, job>>
  PROVE  /\ queue' \in Seq(Jobs)
         /\ status' \in [Jobs -> Life]
         /\ HeldOnce'
         /\ QueuedOnce'
<1>1. /\ Len(queue) \in Nat
      /\ queue' \in Seq(Jobs) /\ Len(queue') = Len(queue) + 1
      /\ \A i \in 1 .. Len(queue) : queue'[i] = queue[i]
      /\ queue'[Len(queue')] = j
  BY DEF Push, TypeOK
<1>2. status' = [status EXCEPT ![j] = "queued"]
  BY DEF Push
<1>3. \A i \in 1 .. Len(queue) : queue[i] # j /\ queue[i] \in Jobs
  BY DEF QueuedOnce, TypeOK
<1>4. HeldOnce'
  BY <1>2 DEF HeldOnce, Holds, TypeOK
<1>5. QueuedOnce'
  <2>1. \A i \in 1 .. Len(queue') : status'[queue'[i]] = "queued"
    <3>1. status'[j] = "queued" /\ \A k \in Jobs : k # j => status'[k] = status[k]
      BY <1>2 DEF TypeOK
    <3>2. \A i \in 1 .. Len(queue') : i = Len(queue') \/ i \in 1 .. Len(queue)
      BY <1>1
    <3>3. QED
      BY <1>1, <1>3, <3>1, <3>2 DEF QueuedOnce
  <2>2. \A i, k \in 1 .. Len(queue') : i # k => queue'[i] # queue'[k]
    BY <1>1, <1>3 DEF QueuedOnce
  <2>3. \A k \in Jobs : status'[k] = "queued" =>
          \E i \in 1 .. Len(queue') : queue'[i] = k
    <3>1. Len(queue') \in 1 .. Len(queue')
      BY <1>1
    <3>2. \A i \in 1 .. Len(queue) : i \in 1 .. Len(queue')
      BY <1>1
    <3>3. \A k \in Jobs : k # j => status'[k] = status[k]
      BY <1>2 DEF TypeOK
    <3>4. QED
      BY <1>1, <3>1, <3>2, <3>3 DEF QueuedOnce
  <2>4. QED
    BY <2>1, <2>2, <2>3 DEF QueuedOnce
<1>6. QED
  BY <1>1, <1>2, <1>4, <1>5 DEF TypeOK, Life

(* A return from run() empties the hand of its thread.                     *)
LEMMA FinishKeepsPlace ==
  ASSUME TypeOK, HeldOnce, QueuedOnce, NEW t \in Threads, Finish(t)
  PROVE  /\ job' \in [Threads -> Jobs \union {NoJob}]
         /\ status' \in [Jobs -> Life]
         /\ HeldOnce'
         /\ QueuedOnce'
<1>1. PICK s \in {"deleted", "released"} : status' = [status EXCEPT ![job[t]] = s]
  BY DEF Finish
<1>2. /\ Holds(t) /\ pc' = [pc EXCEPT ![t] = "pop"]
      /\ job' = [job EXCEPT ![t] = NoJob] /\ queue' = queue
  BY DEF Finish, GoTo, Holds
<1>3. job[t] \in Jobs /\ status[job[t]] = "taken"
  BY <1>2 DEF HeldOnce
<1>4. HeldOnce'
  <2>1. \A u \in Threads : Holds(u)' <=> Holds(u) /\ u # t
    BY <1>2 DEF Holds, TypeOK
  <2>2. \A u \in Threads : u # t => job'[u] = job[u]
    BY <1>2 DEF TypeOK
  <2>3. \A j \in Jobs : j # job[t] => status'[j] = status[j]
    BY <1>1 DEF TypeOK
  <2>4. status'[job[t]] # "taken"
    BY <1>1, <1>3 DEF TypeOK
  <2>5. QED
    BY <1>2, <1>3, <2>1, <2>2, <2>3, <2>4 DEF HeldOnce
<1>5. QueuedOnce'
  <2>1. \A i \in 1 .. Len(queue) : queue[i] # job[t] /\ queue[i] \in Jobs
    BY <1>3 DEF QueuedOnce, TypeOK
  <2>2. QED
    BY <1>1, <1>2, <1>3, <2>1 DEF QueuedOnce, TypeOK
<1>6. QED
  BY <1>1, <1>2, <1>3, <1>4, <1>5 DEF TypeOK, Life

-----------------------------------------------------------------------------
(* The invariant is inductive: one step per action of a thread.            *)
LEMMA NextIInv == IInv /\ [Next]_vars => IInv'
<1> SUFFICES ASSUME IInv, [Next]_vars PROVE IInv'
  OBVIOUS
<1> USE DEF IInv
<1>0. NumThreads \in Nat
  BY CountBounds
<1>1. ASSUME NEW t \in Threads, Start(t) PROVE IInv'
  <2>1. pc[t] = "start" /\ pc' = [pc EXCEPT ![t] = "pop"]
    BY <1>1 DEF Start, GoTo
  <2>2. IdleCountExact'
    BY <1>1, <2>1, CountMove
       DEF Start, IdleCountExact, CountedThreads, TypeOK, Location, Counted
  <2>3. TypeOK' /\ NumthrsSet'
    BY <1>1, <2>1 DEF Start, TypeOK, NumthrsSet, Location
  <2>4. QueuedWorkHasWorker'
    BY <1>1, <2>1 DEF Start, QueuedWorkHasWorker, TypeOK
  <2>5. HeldOnce' /\ QueuedOnce'
    BY <1>1, <2>1 DEF Start, HeldOnce, QueuedOnce, Holds, TypeOK
  <2>6. QED
    BY <2>2, <2>3, <2>4, <2>5
<1>2. ASSUME NEW t \in Threads, PopBusy(t) PROVE IInv'
  <2>1. /\ pc[t] = "pop" /\ pc' = [pc EXCEPT ![t] = "run"]
        /\ Pop(t) /\ UNCHANGED <<numthrs, idle>>
    BY <1>2 DEF PopBusy, GoTo
  <2>2. IdleCountExact'
    BY <2>1, CountMove DEF IdleCountExact, CountedThreads, TypeOK, Location, Counted
  <2>3. ~Holds(t)
    BY <2>1 DEF Holds
  <2>4. HeldOnce' /\ QueuedOnce' /\ TypeOK'
    BY <2>1, <2>3, PopKeepsPlace DEF TypeOK, Location
  <2>5. QueuedWorkHasWorker' /\ NumthrsSet'
    BY <2>1 DEF QueuedWorkHasWorker, NumthrsSet, TypeOK
  <2>6. QED
    BY <2>2, <2>4, <2>5
<1>3. ASSUME NEW t \in Threads, MissBusy(t) PROVE IInv'
  <2>1. /\ pc[t] = "pop" /\ pc' = [pc EXCEPT ![t] = "idle"]
        /\ queue = <<>> /\ UNCHANGED <<numthrs, idle, job, queue, status>>
    BY <1>3 DEF MissBusy, GoTo, PopFails
  <2>2. IdleCountExact'
    BY <2>1, CountMove DEF IdleCountExact, CountedThreads, TypeOK, Location, Counted
  <2>3. TypeOK' /\ NumthrsSet' /\ QueuedWorkHasWorker'
    BY <2>1 DEF TypeOK, NumthrsSet, QueuedWorkHasWorker, Location
  <2>4. HeldOnce' /\ QueuedOnce'
    BY <2>1 DEF HeldOnce, QueuedOnce, Holds, TypeOK
  <2>5. QED
    BY <2>2, <2>3, <2>4
<1>4. ASSUME NEW t \in Threads, GoIdle(t) PROVE IInv'
  <2>1. /\ pc[t] = "idle" /\ pc' = [pc EXCEPT ![t] = "spin"]
        /\ idle' = idle + 1 /\ UNCHANGED <<numthrs, queue, job, status>>
    BY <1>4 DEF GoIdle, GoTo
  <2>2. IdleCountExact'
    BY <2>1, CountMove DEF IdleCountExact, CountedThreads, TypeOK, Location, Counted
  <2>3. idle' \in 0 .. NumThreads
    BY <2>2, CountBounds DEF IdleCountExact
  <2>4. TypeOK' /\ NumthrsSet'
    BY <2>1, <2>3 DEF TypeOK, NumthrsSet, Location
  <2>5. QueuedWorkHasWorker'
    BY <2>1 DEF QueuedWorkHasWorker, TypeOK
  <2>6. HeldOnce' /\ QueuedOnce'
    BY <2>1 DEF HeldOnce, QueuedOnce, Holds, TypeOK
  <2>7. QED
    BY <2>2, <2>4, <2>5, <2>6
<1>5. ASSUME NEW t \in Threads, PopIdle(t) PROVE IInv'
  <2>1. /\ pc[t] = "spin" /\ pc' = [pc EXCEPT ![t] = "wake"]
        /\ Pop(t) /\ UNCHANGED <<numthrs, idle>>
    BY <1>5 DEF PopIdle, GoTo
  <2>2. IdleCountExact'
    BY <2>1, CountMove DEF IdleCountExact, CountedThreads, TypeOK, Location, Counted
  <2>3. ~Holds(t)
    BY <2>1 DEF Holds
  <2>4. HeldOnce' /\ QueuedOnce' /\ TypeOK'
    BY <2>1, <2>3, PopKeepsPlace DEF TypeOK, Location
  <2>5. QueuedWorkHasWorker' /\ NumthrsSet'
    BY <2>1 DEF QueuedWorkHasWorker, NumthrsSet, TypeOK, Pop
  <2>6. QED
    BY <2>2, <2>4, <2>5
<1>6. ASSUME NEW t \in Threads, MissIdle(t) PROVE IInv'
  <2>1. /\ pc[t] = "spin" /\ pc' = [pc EXCEPT ![t] = "check"]
        /\ queue = <<>> /\ UNCHANGED <<numthrs, idle, job, queue, status>>
    BY <1>6 DEF MissIdle, GoTo, PopFails
  <2>2. IdleCountExact'
    BY <2>1, CountMove DEF IdleCountExact, CountedThreads, TypeOK, Location, Counted
  <2>3. TypeOK' /\ NumthrsSet' /\ QueuedWorkHasWorker'
    BY <2>1 DEF TypeOK, NumthrsSet, QueuedWorkHasWorker, Location
  <2>4. HeldOnce' /\ QueuedOnce'
    BY <2>1 DEF HeldOnce, QueuedOnce, Holds, TypeOK
  <2>5. QED
    BY <2>2, <2>3, <2>4
<1>7. ASSUME NEW t \in Threads, NEW to \in {"left", "spin"},
             pc[t] = "check", pc' = [pc EXCEPT ![t] = to],
             UNCHANGED <<numthrs, idle, queue, job, status>>
      PROVE  IInv'
  <2>1. IdleCountExact'
    BY <1>7, CountMove DEF IdleCountExact, CountedThreads, TypeOK, Location, Counted
  <2>2. TypeOK' /\ NumthrsSet' /\ QueuedWorkHasWorker'
    BY <1>7 DEF TypeOK, NumthrsSet, QueuedWorkHasWorker, Location
  <2>3. HeldOnce' /\ QueuedOnce'
    BY <1>7 DEF HeldOnce, QueuedOnce, Holds, TypeOK
  <2>4. QED
    BY <2>1, <2>2, <2>3
<1>8. ASSUME NEW t \in Threads, Wake(t) PROVE IInv'
  <2>1. /\ pc[t] = "wake" /\ pc' = [pc EXCEPT ![t] = "run"]
        /\ idle' = idle - 1 /\ UNCHANGED <<numthrs, queue, job, status>>
    BY <1>8 DEF Wake, GoTo
  <2>2. IdleCountExact'
    BY <2>1, CountMove DEF IdleCountExact, CountedThreads, TypeOK, Location, Counted
  <2>3. idle' \in 0 .. NumThreads
    BY <2>2, CountBounds DEF IdleCountExact
  <2>4. TypeOK' /\ NumthrsSet'
    BY <2>1, <2>3 DEF TypeOK, NumthrsSet, Location
  <2>5. QueuedWorkHasWorker'
    BY <2>1 DEF QueuedWorkHasWorker, TypeOK
  <2>6. HeldOnce' /\ QueuedOnce'
    BY <2>1 DEF HeldOnce, QueuedOnce, Holds, TypeOK
  <2>7. QED
    BY <2>2, <2>4, <2>5, <2>6
<1>9. ASSUME NEW t \in Threads, Enqueue(t) PROVE IInv'
  <2>1. pc[t] = "run" /\ UNCHANGED <<numthrs, idle, pc, job>>
    BY <1>9 DEF Enqueue
  <2>2. PICK j \in Jobs : status[j] = "unborn" /\ Push(j)
    BY <1>9 DEF Enqueue
  <2>3. HeldOnce' /\ QueuedOnce' /\ TypeOK'
    BY <2>1, <2>2, PushKeepsPlace DEF TypeOK
  <2>4. IdleCountExact' /\ NumthrsSet' /\ QueuedWorkHasWorker'
    BY <2>1 DEF IdleCountExact, NumthrsSet, QueuedWorkHasWorker
  <2>5. QED
    BY <2>3, <2>4
<1>10. ASSUME NEW t \in Threads, Finish(t) PROVE IInv'
  <2>1. /\ pc[t] = "run" /\ pc' = [pc EXCEPT ![t] = "pop"]
        /\ UNCHANGED <<numthrs, idle, queue>>
    BY <1>10 DEF Finish, GoTo
  <2>2. IdleCountExact'
    BY <2>1, CountMove DEF IdleCountExact, CountedThreads, TypeOK, Location, Counted
  <2>3. HeldOnce' /\ QueuedOnce' /\ TypeOK'
    BY <1>10, <2>1, FinishKeepsPlace DEF TypeOK, Location
  <2>4. QueuedWorkHasWorker' /\ NumthrsSet'
    BY <2>1 DEF QueuedWorkHasWorker, NumthrsSet, TypeOK
  <2>5. QED
    BY <2>2, <2>3, <2>4
<1>11. ASSUME UNCHANGED vars PROVE IInv'
  BY <1>11 DEF vars, TypeOK, NumthrsSet, IdleCountExact, QueuedWorkHasWorker,
               HeldOnce, QueuedOnce, Holds
<1>12. QED
  BY <1>1, <1>2, <1>3, <1>4, <1>5, <1>6, <1>7, <1>8, <1>9, <1>10, <1>11
     DEF Next, Step, Done, Leave, SpinAgain, GoTo

(* IInv holds in every reachable state.                                    *)
THEOREM Invariance == Spec => []IInv
  BY InitIInv, NextIInv, PTL DEF Spec

(* Every variable keeps its type; in particular m_idle_count, an unsigned  *)
(* int, stays between zero and the size of the team.                       *)
THEOREM TypeCorrect == Spec => []TypeOK
<1>1. IInv => TypeOK
  BY DEF IInv
<1>2. QED
  BY <1>1, Invariance, PTL

(* m_idle_count is exact whatever the interleaving.                        *)
THEOREM CountCorrect == Spec => []IdleCountExact
<1>1. IInv => IdleCountExact
  BY DEF IInv
<1>2. QED
  BY <1>1, Invariance, PTL

(* No job is run twice, by any number of threads.                          *)
THEOREM HolderCorrect == Spec => []OneHolder
<1>1. IInv => OneHolder
  BY DEF IInv, OneHolder
<1>2. QED
  BY <1>1, Invariance, PTL

(* A queued job always has a worker bound to look for it.                  *)
THEOREM WorkerCorrect == Spec => []QueuedWorkHasWorker
<1>1. IInv => QueuedWorkHasWorker
  BY DEF IInv
<1>2. QED
  BY <1>1, Invariance, PTL

(* loop()'s assertion: the queue is empty, and all the jobs are done, when *)
(* the last thread has left.                                               *)
LEMMA IInvEmptyAtEnd == IInv => EmptyAtEnd
<1> SUFFICES ASSUME IInv, AllLeft
             PROVE  /\ queue = <<>>
                    /\ \A j \in Jobs : status[j] \notin {"queued", "taken"}
  BY DEF EmptyAtEnd
<1>1. queue = <<>>
  BY DEF IInv, AllLeft, QueuedWorkHasWorker
<1>2. \A j \in Jobs : status[j] # "queued"
  BY <1>1 DEF IInv, QueuedOnce
<1>3. \A j \in Jobs : status[j] # "taken"
  BY DEF IInv, HeldOnce, Holds, AllLeft
<1>4. QED
  BY <1>1, <1>2, <1>3

(* When all threads have left, every job that was enqueued has run to its  *)
(* end, and nothing is queued.                                             *)
THEOREM EndCorrect == Spec => []EmptyAtEnd
  BY IInvEmptyAtEnd, Invariance, PTL

(* A thread leaves only at a moment when all the others are counted as     *)
(* idle: nothing is queued then, and nobody runs a job.                    *)
THEOREM LeaveCorrect == Spec => LeaveWhenNobodyRuns
<1>1. ASSUME IInv, [Next]_vars, NEW t \in Threads, pc[t] # "left", pc'[t] = "left"
      PROVE  queue = <<>> /\ \A u \in Threads : pc[u] # "run"
  <2>1. Leave(t)
    BY <1>1 DEF IInv, TypeOK, Next, Step, Done, vars, GoTo, Start, PopBusy, MissBusy,
                GoIdle, PopIdle, MissIdle, SpinAgain, Wake, Enqueue, Finish, Leave
  <2>2. idle = NumThreads
    BY <1>1, <2>1 DEF Leave, GoTo, IInv, NumthrsSet
  <2>3. \A u \in Threads : pc[u] \in Counted
    BY <1>1, <2>2, CountBounds DEF IInv, IdleCountExact
  <2>4. QED
    BY <1>1, <2>3 DEF IInv, QueuedWorkHasWorker, Counted
<1>2. IInv /\ [Next]_vars =>
        [\A t \in Threads : pc[t] # "left" /\ pc'[t] = "left" =>
           queue = <<>> /\ \A u \in Threads : pc[u] # "run"]_vars
  BY <1>1
<1>3. QED
  BY <1>2, Invariance, PTL DEF Spec, LeaveWhenNobodyRuns

-----------------------------------------------------------------------------
(* The queue implements the work pool.                                     *)
LEMMA PoolInitial == Init => Pool!PoolInit
<1> SUFFICES ASSUME Init PROVE Pool!PoolInit
  OBVIOUS
<1>1. PICK first \in Jobs :
        status = [j \in Jobs |-> IF j = first THEN "queued" ELSE "unborn"]
  BY DEF Init
<1>2. [j \in Jobs |-> PoolState(status[j])]
        = [j \in Jobs |-> IF j = first THEN "pending" ELSE "unborn"]
  BY <1>1 DEF PoolState
<1>3. AllLeft = FALSE
  BY ThreadsAssumption DEF Init, AllLeft
<1>4. QED
  BY <1>2, <1>3 DEF Pool!PoolInit

(* What one change of one job's status is in the pool.                     *)
LEMMA PoolChange ==
  ASSUME TypeOK, NEW j \in Jobs, NEW s \in Life, status' = [status EXCEPT ![j] = s]
  PROVE  [k \in Jobs |-> PoolState(status[k])]'
           = [[k \in Jobs |-> PoolState(status[k])] EXCEPT ![j] = PoolState(s)]
  BY DEF TypeOK

LEMMA PoolStep == IInv /\ IInv' /\ [Next]_vars => [Pool!PoolNext]_(Pool!poolVars)
<1> SUFFICES ASSUME IInv, IInv', [Next]_vars PROVE [Pool!PoolNext]_(Pool!poolVars)
  OBVIOUS
<1> DEFINE state == [j \in Jobs |-> PoolState(status[j])]
<1>0. TypeOK
  BY DEF IInv
<1>1. ASSUME NEW t \in Threads, PopBusy(t) \/ PopIdle(t)
      PROVE  \E j \in Jobs : Pool!Take(j)
  <2>1. PICK j \in Jobs : status[j] = "queued" /\ status' = [status EXCEPT ![j] = "taken"]
    BY <1>1 DEF PopBusy, PopIdle, Pop, IInv, TypeOK, QueuedOnce
  <2>2. AllLeft = FALSE /\ AllLeft' = FALSE
    BY <1>0, <1>1 DEF PopBusy, PopIdle, GoTo, AllLeft, TypeOK
  <2>3. state' = [state EXCEPT ![j] = "running"]
    BY <1>0, <2>1, PoolChange DEF PoolState, Life
  <2>4. state[j] = "pending"
    BY <2>1 DEF PoolState
  <2>5. QED
    BY <2>2, <2>3, <2>4 DEF Pool!Take
<1>2. ASSUME NEW t \in Threads, Enqueue(t)
      PROVE  \E j \in Jobs : Pool!Submit(j)
  <2>1. PICK j \in Jobs : status[j] = "unborn" /\ status' = [status EXCEPT ![j] = "queued"]
    BY <1>2 DEF Enqueue, Push
  <2>2. AllLeft = FALSE /\ AllLeft' = FALSE
    BY <1>2 DEF Enqueue, AllLeft
  <2>3. state' = [state EXCEPT ![j] = "pending"]
    BY <1>0, <2>1, PoolChange DEF PoolState, Life
  <2>4. state[j] = "unborn"
    BY <2>1 DEF PoolState
  <2>5. state[job[t]] = "running" /\ job[t] \in Jobs
    BY <1>2 DEF Enqueue, IInv, HeldOnce, Holds, PoolState
  <2>6. Pool!InState("running") # {}
    BY <2>5 DEF Pool!InState
  <2>7. QED
    BY <2>2, <2>3, <2>4, <2>6 DEF Pool!Submit
<1>3. ASSUME NEW t \in Threads, Finish(t)
      PROVE  \E j \in Jobs : Pool!Complete(j)
  <2>1. PICK s \in {"deleted", "released"} : status' = [status EXCEPT ![job[t]] = s]
    BY <1>3 DEF Finish
  <2>2. AllLeft = FALSE /\ AllLeft' = FALSE
    BY <1>0, <1>3 DEF Finish, GoTo, AllLeft, TypeOK
  <2>3. status[job[t]] = "taken" /\ job[t] \in Jobs
    BY <1>3 DEF Finish, GoTo, IInv, HeldOnce, Holds
  <2>4. state' = [state EXCEPT ![job[t]] = "finished"]
    BY <1>0, <2>1, <2>3, PoolChange DEF PoolState, Life
  <2>5. state[job[t]] = "running"
    BY <2>3 DEF PoolState
  <2>6. QED
    BY <2>2, <2>3, <2>4, <2>5 DEF Pool!Complete
<1>4. ASSUME NEW t \in Threads, Leave(t)
      PROVE  [Pool!PoolNext]_(Pool!poolVars)
  <2>1. state' = state /\ AllLeft = FALSE /\ AllLeft' \in BOOLEAN
    BY <1>4 DEF Leave, GoTo, AllLeft
  <2>2. CASE AllLeft'
    <3>1. \A j \in Jobs : status[j] \notin {"queued", "taken"}
      <4>1. EmptyAtEnd'
        BY IInvEmptyAtEnd, PTL
      <4>2. QED
        BY <1>4, <2>2, <4>1 DEF EmptyAtEnd, Leave
    <3>2. Pool!Quiescent
      BY <1>0, <3>1 DEF Pool!Quiescent, PoolState, TypeOK, Life
    <3>3. Pool!Return
      BY <2>1, <2>2, <3>2 DEF Pool!Return
    <3>4. QED
      BY <3>3 DEF Pool!PoolNext
  <2>3. CASE ~AllLeft'
    BY <2>1, <2>3 DEF Pool!poolVars
  <2>4. QED
    BY <2>2, <2>3
<1>5. ASSUME NEW t \in Threads,
             \/ Start(t) \/ MissBusy(t) \/ GoIdle(t)
             \/ MissIdle(t) \/ SpinAgain(t) \/ Wake(t)
      PROVE  UNCHANGED Pool!poolVars
  <2>1. status' = status /\ pc[t] # "left" /\ pc'[t] # "left"
    BY <1>0, <1>5 DEF Start, MissBusy, PopFails, GoIdle, MissIdle, SpinAgain, Wake, GoTo, TypeOK
  <2>2. QED
    BY <2>1 DEF Pool!poolVars, AllLeft
<1>6. ASSUME UNCHANGED vars PROVE UNCHANGED Pool!poolVars
  BY <1>6 DEF vars, Pool!poolVars, AllLeft
<1>7. QED
  BY <1>1, <1>2, <1>3, <1>4, <1>5, <1>6 DEF Next, Step, Done, Pool!PoolNext

(* Whatever interleaving the threads take, the jobs' lives and the return  *)
(* of loop() are those of the work pool.                                   *)
THEOREM QueueImplementsPool == Spec => ImplementsPool
<1>1. Init => Pool!PoolInit
  BY PoolInitial
<1>2. []IInv /\ [][Next]_vars => [][Pool!PoolNext]_(Pool!poolVars)
  BY PoolStep, PTL
<1>3. QED
  BY <1>1, <1>2, Invariance, PTL DEF Spec, ImplementsPool, Pool!PoolSpec
-----------------------------------------------------------------------------
(* The division of the machine's threads, whatever their number and that   *)
(* of the queues.                                                          *)
LEMMA Division ==
  ASSUME NEW t \in Nat, NEW q \in Nat \ {0}
  PROVE  t \div q \in Nat /\ t % q \in 0 .. q - 1 /\ t = q * (t \div q) + (t % q)
  OBVIOUS

LEMMA LargerOfTwo ==
  ASSUME NEW n \in Nat PROVE Max({n, 1}) = IF n = 0 THEN 1 ELSE n
<1> DEFINE m == IF n = 0 THEN 1 ELSE n
<1>1. m \in {n, 1} /\ \A y \in {n, 1} : m >= y
  OBVIOUS
<1>2. \A x \in {n, 1} : (\A y \in {n, 1} : x >= y) => x = m
  OBVIOUS
<1> HIDE DEF m
<1>3. Max({n, 1}) = m
  BY <1>1, <1>2 DEF Max
<1> QED BY <1>3 DEF m

LEMMA SmallerOfTwo ==
  ASSUME NEW n \in Nat, NEW o \in Nat PROVE Min({n, o}) = IF n <= o THEN n ELSE o
<1> DEFINE m == IF n <= o THEN n ELSE o
<1>1. m \in {n, o} /\ \A y \in {n, o} : m <= y
  OBVIOUS
<1>2. \A x \in {n, o} : (\A y \in {n, o} : x <= y) => x = m
  OBVIOUS
<1> HIDE DEF m
<1>3. Min({n, o}) = m
  BY <1>1, <1>2 DEF Min
<1> QED BY <1>3 DEF m

LEMMA LoopSize ==
  ASSUME threads \in Nat \ {0}, queues \in Nat \ {0}
  PROVE  /\ RunThreads \in Nat \ {0} /\ RunThreads <= threads
         /\ IsFiniteSet(LoopThread) /\ Cardinality(LoopThread) = RunThreads
         /\ IsFiniteSet(Queue)
<1>1. RunThreads \in Nat \ {0} /\ RunThreads <= threads
  BY SmallerOfTwo DEF RunThreads
<1>2. 1 \in Int /\ RunThreads \in Int /\ 0 \in Int /\ queues - 1 \in Int
  BY <1>1
<1> QED BY <1>1, <1>2, FS_Interval DEF LoopThread, Queue

LEMMA TeamSize ==
  ASSUME threads \in Nat \ {0}, queues \in Nat \ {0}, NEW k \in Queue
  PROVE  /\ NodeThreads(k) \in Nat \ {0}
         /\ threads >= queues =>
              NodeThreads(k) = (threads \div queues) + (IF k < threads % queues THEN 1 ELSE 0)
         /\ threads < queues => NodeThreads(k) = 1
<1> DEFINE m == threads \div queues
           r == threads % queues
<1>1. m \in Nat /\ r \in 0 .. queues - 1 /\ threads = queues * m + r
  BY Division
<1>2. threads >= queues => m > 0
  BY <1>1
<1>3. threads < queues => m = 0
  <2>1. ASSUME m > 0, threads < queues PROVE FALSE
    <3>1. queues * m >= queues
      BY <1>1, <2>1
    <3> QED BY <1>1, <2>1, <3>1
  <2> QED BY <1>1, <2>1
<1> HIDE DEF m, r
<1>4. CalcThreadNum(k) = m + (IF k < r THEN 1 ELSE 0)
  BY DEF CalcThreadNum, m, r
<1>5. CalcThreadNum(k) \in Nat
  BY <1>1, <1>4 DEF Queue
<1>6. NodeThreads(k) = IF CalcThreadNum(k) = 0 THEN 1 ELSE CalcThreadNum(k)
  BY <1>5, LargerOfTwo DEF NodeThreads
<1> QED BY <1>1, <1>2, <1>3, <1>4, <1>5, <1>6 DEF Queue, m, r

(* The first n queues have n teams, and the first of them one thread more. *)
LEMMA TeamSums ==
  ASSUME threads \in Nat \ {0}, queues \in Nat \ {0}, threads >= queues
  PROVE  SumFunctionOnSet([k \in Queue |-> NodeThreads(k)], Queue) = threads
<1> DEFINE f == [k \in Queue |-> NodeThreads(k)]
           m == threads \div queues
           r == threads % queues
           extra(n) == IF n < r THEN n ELSE r
           P == {n \in Nat : n <= queues => SumFunctionOnSet(f, 0 .. n - 1) = n * m + extra(n)}
<1>1. m \in Nat /\ r \in 0 .. queues - 1 /\ threads = queues * m + r
  BY Division
<1>2. \A k \in 0 .. queues - 1 : f[k] = m + (IF k < r THEN 1 ELSE 0)
  BY TeamSize DEF Queue
<1> HIDE DEF f, m, r
<1>3. 0 \in P
  <2>1. 0 .. 0 - 1 = {}
    OBVIOUS
  <2> QED BY <1>1, <2>1, SumEmpty
<1>4. \A n \in P : n + 1 \in P
  <2> SUFFICES ASSUME NEW n \in Nat, n + 1 <= queues,
                      SumFunctionOnSet(f, 0 .. n - 1) = n * m + extra(n)
               PROVE  SumFunctionOnSet(f, 0 .. n) = (n + 1) * m + extra(n + 1)
    <3>1. \A n \in Nat : (n + 1) - 1 = n /\ (n + 1 <= queues => n <= queues)
      OBVIOUS
    <3> QED BY <3>1
  <2>1. n \in 0 .. n /\ (0 .. n) \ {n} = 0 .. n - 1 /\ n \in 0 .. queues - 1
    OBVIOUS
  <2>2. IsFiniteSet(0 .. n) /\ \A x \in 0 .. n : f[x] \in Int
    <3>1. \A x \in 0 .. n : x \in 0 .. queues - 1
      OBVIOUS
    <3>2. IsFiniteSet(0 .. n)
      BY FS_Interval
    <3> QED BY <1>1, <1>2, <3>1, <3>2
  <2>3. SumFunctionOnSet(f, 0 .. n) = f[n] + (n * m + extra(n))
    BY <2>1, <2>2, SumStep
  <2>4. f[n] = m + (IF n < r THEN 1 ELSE 0)
    BY <1>2, <2>1
  <2>5. (n + 1) * m = n * m + m /\ n * m \in Nat
    BY <1>1
  <2> QED BY <1>1, <2>3, <2>4, <2>5
<1>5. P = Nat
  BY <1>3, <1>4, NatInd
<1>6. SumFunctionOnSet(f, 0 .. queues - 1) = queues * m + extra(queues)
  BY <1>5
<1> QED BY <1>1, <1>6 DEF f, Queue

(* As many teams of one thread as there are queues in a set. *)
LEMMA OnesSum ==
  ASSUME NEW S, IsFiniteSet(S), NEW f, \A x \in S : f[x] = 1
  PROVE  SumFunctionOnSet(f, S) = Cardinality(S)
<1> DEFINE P == {T \in SUBSET S : SumFunctionOnSet(f, T) = Cardinality(T)}
<1>1. \A T \in SUBSET S : (\A x \in T : T \ {x} \in P) => T \in P
  <2> SUFFICES ASSUME NEW T \in SUBSET S, \A x \in T : T \ {x} \in P
               PROVE  SumFunctionOnSet(f, T) = Cardinality(T)
    OBVIOUS
  <2>1. IsFiniteSet(T)
    BY FS_Subset
  <2>2. CASE T = {}
    BY <2>2, SumEmpty, FS_EmptySet
  <2>3. CASE T # {}
    <3>1. PICK x \in T : TRUE
      BY <2>3
    <3>2. SumFunctionOnSet(f, T) = f[x] + SumFunctionOnSet(f, T \ {x})
      BY <2>1, SumStep
    <3>3. SumFunctionOnSet(f, T \ {x}) = Cardinality(T \ {x})
      OBVIOUS
    <3>4. Cardinality(T \ {x}) = Cardinality(T) - 1 /\ Cardinality(T) \in Nat
      BY <2>1, FS_RemoveElement, FS_CardinalityType
    <3> QED BY <3>2, <3>3, <3>4
  <2> QED BY <2>2, <2>3
<1> HIDE DEF P
<1>2. S \in P
  BY <1>1, SetInd
<1> QED BY <1>2 DEF P

-----------------------------------------------------------------------------
(* The queues that the threads of the loop run. *)
Attended == {at[l] : l \in LoopThread}

(* What makes the teams fit, and the queues empty at the end: a queue has  *)
(* a team of its size while a thread of the loop runs it, none before; the *)
(* team's threads hold on to it until it is worked off.                    *)
GroupInv ==
  /\ GroupTypeOK
  /\ \A l \in LoopThread : /\ at[l] \in Queue => at[l] < next
                           /\ at[l] = Over => next = queues
  /\ \A k \in Queue :
       /\ team[k] > 0 => k \in Attended
       /\ team[k] <= NodeThreads(k)
       /\ busy[k] <= team[k]
       /\ k >= next => team[k] = 0
       /\ k < next /\ team[k] = 0 => ~HasWork(k)

LEMMA Sizes ==
  ASSUME GroupTypeOK PROVE threads \in Nat \ {0} /\ queues \in Nat \ {0}
  BY GroupAssumption DEF GroupTypeOK

LEMMA GroupInitial == GroupInit => GroupInv
<1> SUFFICES ASSUME GroupInit PROVE GroupInv
  OBVIOUS
<1>1. threads \in Nat \ {0} /\ queues \in Nat \ {0}
  BY GroupAssumption DEF GroupInit
<1>2. GroupTypeOK
  BY <1>1, GroupAssumption DEF GroupInit, GroupTypeOK
<1>3. \A k \in Queue : NodeThreads(k) \in Nat \ {0}
  BY <1>1, TeamSize
<1> QED BY <1>1, <1>2, <1>3 DEF GroupInit, GroupInv, Free, Over, Queue

LEMMA GroupKept == GroupInv /\ [GroupNext]_groupVars => GroupInv'
<1> SUFFICES ASSUME GroupInv, [GroupNext]_groupVars PROVE GroupInv'
  OBVIOUS
<1>0. threads \in Nat \ {0} /\ queues \in Nat \ {0}
  BY Sizes DEF GroupInv
<1>1. /\ next \in 0 .. queues
      /\ at \in [LoopThread -> Queue \union {Free, Over}]
      /\ team \in [Queue -> Nat] /\ pending \in [Queue -> Nat]
      /\ busy \in [Queue -> Nat] /\ unborn \in [Queue -> Nat]
  BY DEF GroupInv, GroupTypeOK
<1>2. \A k \in Queue : NodeThreads(k) \in Nat \ {0}
  BY <1>0, TeamSize
<1>3. ASSUME UNCHANGED sizes
      PROVE  /\ Queue' = Queue /\ LoopThread' = LoopThread
             /\ \A k : NodeThreads(k)' = NodeThreads(k)
             /\ threads' \in ThreadCounts /\ queues' \in QueueCounts
  BY <1>3 DEF sizes, Queue, LoopThread, RunThreads, NodeThreads, CalcThreadNum, GroupInv, GroupTypeOK
<1>4. ASSUME NEW l \in LoopThread, TakeQueue(l) PROVE GroupInv'
  <2>1. /\ at[l] = Free /\ next \in Queue /\ next < queues
        /\ at' = [at EXCEPT ![l] = next]
        /\ team' = [team EXCEPT ![next] = NodeThreads(next)] /\ next' = next + 1
        /\ UNCHANGED sizes /\ UNCHANGED <<pending, busy, unborn>>
    BY <1>0, <1>1, <1>4 DEF TakeQueue, Queue
  <2>2. /\ Queue' = Queue /\ LoopThread' = LoopThread /\ queues' = queues
        /\ \A k : NodeThreads(k)' = NodeThreads(k)
    BY <1>3, <2>1 DEF sizes
  <2>3. GroupTypeOK'
    BY <1>0, <1>1, <1>2, <1>3, <2>1, <2>2 DEF GroupTypeOK
  <2>4. ASSUME NEW j \in LoopThread
        PROVE  /\ at'[j] \in Queue => at'[j] < next'
               /\ at'[j] = Over => next' = queues
    <3>1. CASE j = l
      BY <1>0, <1>1, <2>1, <3>1 DEF Over, Queue
    <3>2. CASE j # l
      <4>1. at'[j] = at[j] /\ at[j] # Over
        BY <1>1, <2>1, <3>2 DEF GroupInv
      <4>2. at[j] \in Queue => at[j] < next
        BY DEF GroupInv
      <4> QED BY <1>0, <1>1, <2>1, <4>1, <4>2 DEF Queue
    <3> QED BY <3>1, <3>2
  <2>5. \A j \in LoopThread : at[j] = at'[j] \/ at[j] = Free
    BY <1>1, <2>1
  <2>6. \A k \in Queue : k \in Attended => k \in Attended'
    BY <2>2, <2>5 DEF Attended, Free, Queue
  <2>7. next \in Attended'
    BY <1>1, <2>1, <2>2 DEF Attended
  <2>8. ASSUME NEW k \in Queue
        PROVE  /\ team'[k] > 0 => k \in Attended'
               /\ team'[k] <= NodeThreads(k) /\ busy'[k] <= team'[k]
               /\ k >= next' => team'[k] = 0
               /\ k < next' /\ team'[k] = 0 => ~HasWork(k)'
    <3>1. CASE k = next
      <4>1. team[k] = 0 /\ busy[k] = 0 /\ team'[k] = NodeThreads(k) /\ busy'[k] = 0
        <5>1. team[k] = 0 /\ busy[k] <= team[k]
          BY <1>1, <3>1 DEF GroupInv
        <5> QED BY <1>1, <2>1, <3>1, <5>1
      <4> QED BY <1>1, <1>2, <2>1, <2>7, <3>1, <4>1
    <3>2. CASE k # next
      <4>1. team'[k] = team[k] /\ k \in Int /\ (k < next' <=> k < next) /\ (k >= next' => k >= next)
        BY <1>0, <1>1, <2>1, <3>2 DEF Queue
      <4>2. HasWork(k)' <=> HasWork(k)
        BY <2>1 DEF HasWork
      <4> QED BY <2>1, <2>6, <4>1, <4>2 DEF GroupInv
    <3> QED BY <3>1, <3>2
  <2> HIDE DEF Attended, HasWork
  <2> QED BY <2>2, <2>3, <2>4, <2>8 DEF GroupInv
<1>5. ASSUME NEW k \in Queue, PopJob(k) \/ CreateJob(k) \/ EndJob(k) PROVE GroupInv'
  <2>1. UNCHANGED sizes /\ UNCHANGED <<next, at, team>>
    BY <1>5 DEF PopJob, CreateJob, EndJob
  <2>2. /\ Queue' = Queue /\ LoopThread' = LoopThread /\ queues' = queues
        /\ \A j : NodeThreads(j)' = NodeThreads(j)
    BY <1>3, <2>1 DEF sizes
  <2>3. /\ pending' \in [Queue -> Nat] /\ busy' \in [Queue -> Nat] /\ unborn' \in [Queue -> Nat]
    BY <1>1, <1>5 DEF PopJob, CreateJob, EndJob
  <2>4. GroupTypeOK'
    BY <1>1, <1>3, <2>1, <2>2, <2>3 DEF GroupTypeOK
  <2>5. Attended' = Attended
    BY <2>1, <2>2 DEF Attended
  <2>6. team[k] > 0 /\ busy'[k] <= team[k]
    <3>1. busy[k] <= team[k]
      BY DEF GroupInv
    <3> QED BY <1>1, <1>5, <3>1 DEF PopJob, CreateJob, EndJob
  <2>7. \A j \in Queue \ {k} : pending'[j] = pending[j] /\ busy'[j] = busy[j]
    BY <1>1, <1>5 DEF PopJob, CreateJob, EndJob
  <2>8. ASSUME NEW j \in Queue
        PROVE  /\ busy'[j] <= team[j]
               /\ j < next /\ team[j] = 0 => ~HasWork(j)'
    <3>1. CASE j = k
      BY <1>1, <2>6, <3>1
    <3>2. CASE j # k
      BY <2>7, <3>2 DEF GroupInv, HasWork
    <3> QED BY <3>1, <3>2
  <2> HIDE DEF HasWork
  <2> QED BY <2>1, <2>2, <2>4, <2>5, <2>8 DEF GroupInv
<1>6. ASSUME NEW k \in Queue, LeaveTeam(k) PROVE GroupInv'
  <2>1. /\ team[k] > 0 /\ ~HasWork(k) /\ team' = [team EXCEPT ![k] = @ - 1]
        /\ UNCHANGED sizes /\ UNCHANGED <<next, at, pending, busy, unborn>>
    BY <1>6 DEF LeaveTeam
  <2>2. /\ Queue' = Queue /\ LoopThread' = LoopThread /\ queues' = queues
        /\ \A j : NodeThreads(j)' = NodeThreads(j)
    BY <1>3, <2>1 DEF sizes
  <2>3. GroupTypeOK'
    <3>1. team' \in [Queue -> Nat]
      BY <1>1, <2>1
    <3> QED BY <1>1, <1>3, <2>1, <2>2, <3>1 DEF GroupTypeOK
  <2>4. Attended' = Attended
    BY <2>1, <2>2 DEF Attended
  <2>5. \A j \in Queue : HasWork(j)' <=> HasWork(j)
    BY <2>1 DEF HasWork
  <2>6. ASSUME NEW j \in Queue
        PROVE  /\ team'[j] > 0 => j \in Attended
               /\ team'[j] <= NodeThreads(j) /\ busy[j] <= team'[j]
               /\ j >= next => team'[j] = 0
               /\ j < next /\ team'[j] = 0 => ~HasWork(j)
    <3>0. /\ team[j] > 0 => j \in Attended
          /\ team[j] <= NodeThreads(j) /\ busy[j] <= team[j]
          /\ j >= next => team[j] = 0
          /\ j < next /\ team[j] = 0 => ~HasWork(j)
      BY DEF GroupInv
    <3>1. CASE j = k
      <4>1. busy[j] = 0
        BY <1>1, <2>1, <3>1 DEF HasWork
      <4> HIDE DEF HasWork
      <4> QED BY <1>1, <1>2, <2>1, <3>0, <3>1, <4>1
    <3>2. CASE j # k
      <4>1. team'[j] = team[j]
        BY <1>1, <2>1, <3>2
      <4> HIDE DEF HasWork
      <4> QED BY <3>0, <4>1
    <3> QED BY <3>1, <3>2
  <2> HIDE DEF HasWork
  <2> QED BY <2>1, <2>2, <2>3, <2>4, <2>5, <2>6 DEF GroupInv
<1>7. ASSUME NEW l \in LoopThread, EndQueue(l) \/ EndLoop(l) PROVE GroupInv'
  <2>1. /\ at' = [at EXCEPT ![l] = IF at[l] = Free THEN Over ELSE Free]
        /\ at[l] = Free => next = queues
        /\ at[l] # Free => at[l] \in Queue /\ team[at[l]] = 0
        /\ UNCHANGED sizes /\ UNCHANGED <<next, team, pending, busy, unborn>>
    BY <1>0, <1>7 DEF EndQueue, EndLoop, Queue, Free
  <2>2. /\ Queue' = Queue /\ LoopThread' = LoopThread /\ queues' = queues
        /\ \A j : NodeThreads(j)' = NodeThreads(j)
    BY <1>3, <2>1 DEF sizes
  <2>3. GroupTypeOK'
    <3>1. at' \in [LoopThread -> Queue \union {Free, Over}]
      BY <1>1, <2>1
    <3> QED BY <1>1, <1>3, <2>1, <2>2, <3>1 DEF GroupTypeOK
  <2>4. ASSUME NEW j \in LoopThread
        PROVE  /\ at'[j] \in Queue => at'[j] < next
               /\ at'[j] = Over => next = queues
    <3>1. CASE j = l
      BY <1>0, <1>1, <2>1, <3>1 DEF Over, Free, Queue
    <3>2. CASE j # l
      <4>1. at'[j] = at[j]
        BY <1>1, <2>1, <3>2
      <4> QED BY <4>1 DEF GroupInv
    <3> QED BY <3>1, <3>2
  <2>5. ASSUME NEW k \in Queue, team[k] > 0 PROVE k \in Attended'
    <3>1. PICK j \in LoopThread : at[j] = k
      BY <2>5 DEF GroupInv, Attended
    <3>2. j # l
      BY <1>0, <1>1, <2>1, <2>5, <3>1 DEF Queue, Free
    <3>3. at'[j] = k
      BY <1>1, <2>1, <3>1, <3>2
    <3> QED BY <2>2, <3>3 DEF Attended
  <2>6. \A k \in Queue : HasWork(k)' <=> HasWork(k)
    BY <2>1 DEF HasWork
  <2> HIDE DEF HasWork, Attended
  <2> QED BY <2>1, <2>2, <2>3, <2>4, <2>5, <2>6 DEF GroupInv
<1>8. ASSUME UNCHANGED groupVars PROVE GroupInv'
  <2>1. UNCHANGED sizes /\ UNCHANGED <<next, at, team, pending, busy, unborn>>
    BY <1>8 DEF groupVars, sizes
  <2>2. /\ Queue' = Queue /\ LoopThread' = LoopThread /\ queues' = queues
        /\ \A j : NodeThreads(j)' = NodeThreads(j)
    BY <1>3, <2>1 DEF sizes
  <2>3. GroupTypeOK' /\ Attended' = Attended /\ \A k \in Queue : HasWork(k)' <=> HasWork(k)
    BY <1>1, <1>3, <2>1, <2>2 DEF GroupTypeOK, Attended, HasWork
  <2> HIDE DEF HasWork, Attended
  <2> QED BY <2>1, <2>2, <2>3 DEF GroupInv
<1> QED BY <1>4, <1>5, <1>6, <1>7, <1>8 DEF GroupNext, LaunchStep

LEMMA GroupInvariance == GroupSpec => []GroupInv
  BY GroupInitial, GroupKept, PTL DEF GroupSpec

LEMMA AttendedFew ==
  ASSUME GroupTypeOK
  PROVE  IsFiniteSet(Attended) /\ Cardinality(Attended) <= threads
<1>1. Cardinality(Attended) <= Cardinality(LoopThread) /\ IsFiniteSet(Attended)
  <2>1. IsFiniteSet(LoopThread)
    BY Sizes, LoopSize
  <2>2. at \in Surjection(LoopThread, Attended)
    BY DEF GroupTypeOK, Attended, Surjection
  <2> HIDE DEF Attended
  <2> QED BY <2>1, <2>2, FS_Surjection
<1>2. Cardinality(Attended) \in Nat
  BY <1>1, FS_CardinalityType
<1> QED BY <1>1, <1>2, Sizes, LoopSize

(* With as many threads as queues all teams together have the machine's    *)
(* threads; with fewer, every team is one thread, of a queue that a thread *)
(* of the loop runs.                                                       *)
LEMMA TeamsFitThen ==
  ASSUME GroupInv PROVE TeamsFit
<1> DEFINE f == [k \in Queue |-> NodeThreads(k)]
<1>0. threads \in Nat \ {0} /\ queues \in Nat \ {0} /\ GroupTypeOK
  BY Sizes DEF GroupInv
<1>1. /\ IsFiniteSet(Queue)
      /\ \A k \in Queue : team[k] \in Nat /\ f[k] \in Nat /\ team[k] <= f[k]
  BY <1>0, LoopSize, TeamSize DEF GroupInv, GroupTypeOK
<1>2. CASE threads >= queues
  <2>1. SumFunctionOnSet(f, Queue) = threads
    BY <1>0, <1>2, TeamSums
  <2> HIDE DEF f
  <2>2. SumFunctionOnSet(team, Queue) <= SumFunctionOnSet(f, Queue)
    BY <1>1, SumMonotone
  <2> QED BY <2>1, <2>2 DEF TeamsFit
<1>3. CASE threads < queues
  <2> DEFINE R == {k \in Queue : team[k] > 0}
  <2>1. R \in SUBSET Queue /\ IsFiniteSet(R) /\ IsFiniteSet(Queue \ R)
    BY <1>1, FS_Subset
  <2>2. \A k \in R : team[k] = 1
    BY <1>0, <1>1, <1>3, TeamSize
  <2>3. SumFunctionOnSet(team, R) = Cardinality(R)
    <3> HIDE DEF R
    <3> QED BY <2>1, <2>2, OnesSum
  <2>4. SumFunctionOnSet(team, Queue \ R) = 0
    <3>1. \A k \in Queue \ R : team[k] = 0
      BY <1>1
    <3> HIDE DEF R
    <3> QED BY <2>1, <3>1, SumZero
  <2>5. SumFunctionOnSet(team, Queue)
          = SumFunctionOnSet(team, R) + SumFunctionOnSet(team, Queue \ R)
    <3>1. R \union (Queue \ R) = Queue /\ R \cap (Queue \ R) = {}
      OBVIOUS
    <3>2. \A k \in Queue : team[k] \in Int
      BY <1>1
    <3> HIDE DEF R
    <3> QED BY <2>1, <3>1, <3>2, <1>1, SumUnion
  <2>6. R \subseteq Attended
    BY DEF GroupInv
  <2>7. Cardinality(R) <= Cardinality(Attended) /\ Cardinality(R) \in Nat /\ Cardinality(Attended) \in Nat
    <3>1. IsFiniteSet(Attended)
      BY <1>0, AttendedFew
    <3> HIDE DEF R
    <3> QED BY <2>1, <2>6, <3>1, FS_Subset, FS_CardinalityType
  <2>8. Cardinality(Attended) <= threads
    BY <1>0, AttendedFew
  <2> HIDE DEF R
  <2> QED BY <1>0, <2>3, <2>4, <2>5, <2>7, <2>8 DEF TeamsFit
<1> QED BY <1>0, <1>2, <1>3

(* At the loop's end every queue has been taken, and none is attended.     *)
LEMMA NothingLeftThen ==
  ASSUME GroupInv PROVE NothingLeftBehind
<1> SUFFICES ASSUME Returned, NEW k \in Queue PROVE ~HasWork(k)
  BY DEF NothingLeftBehind
<1>0. threads \in Nat \ {0} /\ queues \in Nat \ {0} /\ GroupTypeOK
  BY Sizes DEF GroupInv
<1>1. 1 \in LoopThread
  BY <1>0, LoopSize DEF LoopThread
<1>2. next = queues
  BY <1>1 DEF Returned, GroupInv
<1>3. k \in Int /\ k >= 0 /\ k < next
  BY <1>0, <1>2 DEF Queue
<1>4. k \notin Attended
  BY <1>3 DEF Attended, Returned, Over
<1>5. team[k] \in Nat /\ (team[k] > 0 => k \in Attended)
  BY DEF GroupInv, GroupTypeOK
<1>6. team[k] = 0
  BY <1>4, <1>5
<1> QED BY <1>3, <1>6 DEF GroupInv
(* At every moment the teams that are in executeThreadWork() have together *)
(* no more threads than the machine, for every number of threads and of    *)
(* queues: with as many threads as queues, because all teams together have *)
(* them; with fewer, because every team is one thread and no more queues   *)
(* are run than numaLaunch()'s loop has threads.                           *)
THEOREM TeamsFitCorrect == GroupSpec => []TeamsFit
  BY GroupInvariance, TeamsFitThen, PTL

(* When numaLaunch() returns, every queue of the group has been worked     *)
(* off, also where there are fewer threads than queues: a queue is handed  *)
(* out once, gets at least one thread, and that one stays until the        *)
(* queue's last job has ended.                                             *)
THEOREM NothingLeftBehindCorrect == GroupSpec => []NothingLeftBehind
  BY GroupInvariance, NothingLeftThen, PTL
=============================================================================
