-------------------------------- MODULE Fifo --------------------------------
(***************************************************************************)
(* What the job queue takes tbb::concurrent_queue for: one sequence, to    *)
(* which push() appends and from which try_pop() takes the first item, all *)
(* at one moment of the call; a try_pop() that fails does so at a moment   *)
(* at which nothing is in the sequence.                                    *)
(***************************************************************************)
EXTENDS Sequences

CONSTANTS
  Threads,
  Items,
  Pending,   \* the result of a try_pop() that has not been decided yet
  Nothing    \* the result of a thread whose last try_pop() failed

VARIABLES
  queue,     \* the items pushed and not popped, oldest first
  result     \* what the last try_pop() of each thread gave

fifoVars == <<queue, result>>

FifoInit ==
  /\ queue = <<>>
  /\ result = [t \in Threads |-> Nothing]

Put(v) ==
  /\ queue' = Append(queue, v)
  /\ UNCHANGED result

BeginPop(t) ==
  /\ result' = [result EXCEPT ![t] = Pending]
  /\ UNCHANGED queue

Get(t) ==
  /\ result[t] = Pending
  /\ queue # <<>>
  /\ result' = [result EXCEPT ![t] = Head(queue)]
  /\ queue' = Tail(queue)

FindEmpty(t) ==
  /\ result[t] = Pending
  /\ queue = <<>>
  /\ result' = [result EXCEPT ![t] = Nothing]
  /\ UNCHANGED queue

FifoNext ==
  \/ \E v \in Items : Put(v)
  \/ \E t \in Threads : BeginPop(t) \/ Get(t) \/ FindEmpty(t)

FifoSpec == FifoInit /\ [][FifoNext]_fifoVars
=============================================================================
