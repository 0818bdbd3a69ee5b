---------------------------- MODULE LazyCounter ----------------------------
(***************************************************************************)
(* lockfree::lazy_counter of src/tools/lockfree.hpp, as the sorter uses it *)
(* when PS5_ENABLE_RESTSIZE is set: the number of strings still unsorted.  *)
(* A worker that has finished n strings adds -n to its own slot            *)
(* (Context::donesize); a worker about to choose between parallel and      *)
(* sequential sorting collects the slots (Context::sequential_threshold);  *)
(* when all is sorted the main thread collects once more and asserts that  *)
(* nothing rests.                                                          *)
(*                                                                         *)
(* Every load, store and fetch_add of an atomic is a step of its own.      *)
(***************************************************************************)
EXTENDS Integers, FiniteSets, Functions

CONSTANTS
  NumThreads,    \* workers, numbered from 0; worker t adds to slot t
  Slots,         \* m_nthr, how many slots update() collects
  Total,         \* the initial value, all the strings
  MaxUpdates     \* bound: calls of update() per worker

ASSUME LazyAssumption ==
  /\ NumThreads \in Nat \ {0} /\ Slots \in Nat
  /\ Total \in Nat /\ MaxUpdates \in Nat

Thread == 0 .. NumThreads - 1

VARIABLES
  delta,      \* m_thr[t].delta
  counter,    \* m_counter
  changed,    \* m_changed
  pc, slot,   \* location of each worker, and t of its loop in update()
  seen, agg,  \* delta and agg_delta, the locals of update()
  updates,    \* calls of update() made by each worker
  rest        \* strings not yet reported as done: the true value

vars == <<delta, counter, changed, pc, slot, seen, agg, updates, rest>>

Main == NumThreads
Agent == Thread \union {Main}

InUpdate == {"test", "scan", "take", "put", "clear"}

(* A worker calls update() to decide how to sort a section that it has not *)
(* enqueued yet: at least one string that no one reports until it is back. *)
Held == Cardinality({t \in Thread : pc[t] \in InUpdate})

(* Counters are integers, also negative ones, and every agent is somewhere. *)
TypeOK ==
  /\ delta \in [Thread -> Int] /\ counter \in Int /\ changed \in BOOLEAN
  /\ pc \in [Agent -> {"ready", "flag", "test", "scan", "take", "put", "clear", "out"}]
  /\ slot \in [Agent -> 0 .. Slots] /\ seen \in [Agent -> Int] /\ agg \in [Agent -> Int]
  /\ updates \in [Thread -> 0 .. MaxUpdates]
  /\ rest \in 0 .. Total

(* restsize = strptr.size(): direct assignment resets everything. *)
Init ==
  /\ delta = [t \in Thread |-> 0] /\ counter = Total /\ changed = FALSE
  /\ pc = [a \in Agent |-> "ready"]
  /\ slot = [a \in Agent |-> 0]
  /\ seen = [a \in Agent |-> 0] /\ agg = [a \in Agent |-> 0]
  /\ updates = [t \in Thread |-> 0]
  /\ rest = Total

GoTo(a, from, to) == pc[a] = from /\ pc' = [pc EXCEPT ![a] = to]

-----------------------------------------------------------------------------
(* add(-n, t): the delta, then the flag. *)
AddDelta(t) ==
  /\ GoTo(t, "ready", "flag")
  /\ \E n \in 1 .. rest - Held :
       /\ delta' = [delta EXCEPT ![t] = @ - n]
       /\ rest' = rest - n
  /\ UNCHANGED <<counter, changed, slot, seen, agg, updates>>

AddFlag(t) ==
  /\ GoTo(t, "flag", "ready")
  /\ changed' = TRUE
  /\ UNCHANGED <<delta, counter, slot, seen, agg, updates, rest>>

(* Mistake: the threshold is asked for when the section is reported. *)
CallUpdateReported(t) ==
  /\ GoTo(t, "ready", "test")
  /\ updates[t] < MaxUpdates
  /\ updates' = [updates EXCEPT ![t] = @ + 1]
  /\ UNCHANGED <<delta, counter, changed, slot, seen, agg, rest>>

(* Enqueue() and the constructor of a step: sequential_threshold() for a   *)
(* section that is still to be sorted; a bounded number of times.  (Before *)
(* the workers start, with the flag down, the main thread does so too.)    *)
CallUpdate(t) ==
  /\ GoTo(t, "ready", "test")
  /\ rest > Held
  /\ updates[t] < MaxUpdates
  /\ updates' = [updates EXCEPT ![t] = @ + 1]
  /\ UNCHANGED <<delta, counter, changed, slot, seen, agg, rest>>

(* The job queue is empty and every worker has left its last job: the      *)
(* parallel region is over.                                                *)
Leave(t) ==
  /\ GoTo(t, "ready", "out")
  /\ rest = 0
  /\ UNCHANGED <<delta, counter, changed, slot, seen, agg, updates, rest>>

CallFinalUpdate ==
  /\ GoTo(Main, "ready", "test")
  /\ \A t \in Thread : pc[t] = "out"
  /\ UNCHANGED <<delta, counter, changed, slot, seen, agg, updates, rest>>

-----------------------------------------------------------------------------
(* Where update() returns to: workers go on, the main thread is done. *)
Return(a) == pc' = [pc EXCEPT ![a] = IF a = Main THEN "out" ELSE "ready"]

TestFlag(a) ==
  /\ pc[a] = "test"
  /\ \/ /\ changed
        /\ pc' = [pc EXCEPT ![a] = "scan"]
        /\ slot' = [slot EXCEPT ![a] = 0] /\ agg' = [agg EXCEPT ![a] = 0]
     \/ ~changed /\ Return(a) /\ UNCHANGED <<slot, agg>>
  /\ UNCHANGED <<delta, counter, changed, seen, updates, rest>>

(* Load a slot; continue with the next one if it is zero. *)
Scan(a) ==
  /\ pc[a] = "scan" /\ slot[a] < Slots
  /\ LET d == IF slot[a] \in Thread THEN delta[slot[a]] ELSE 0
     IN  /\ seen' = [seen EXCEPT ![a] = d]
         /\ IF d = 0
            THEN slot' = [slot EXCEPT ![a] = @ + 1] /\ UNCHANGED pc
            ELSE pc' = [pc EXCEPT ![a] = "take"] /\ UNCHANGED slot
  /\ UNCHANGED <<delta, counter, changed, agg, updates, rest>>

(* Mistakes: the slot is set to zero, or not touched, instead. *)
TakeDeltaStores(a) ==
  /\ GoTo(a, "take", "scan")
  /\ delta' = [delta EXCEPT ![slot[a]] = 0]
  /\ agg' = [agg EXCEPT ![a] = @ + seen[a]]
  /\ slot' = [slot EXCEPT ![a] = @ + 1]
  /\ UNCHANGED <<counter, changed, seen, updates, rest>>

TakeDeltaLeaves(a) ==
  /\ GoTo(a, "take", "scan")
  /\ agg' = [agg EXCEPT ![a] = @ + seen[a]]
  /\ slot' = [slot EXCEPT ![a] = @ + 1]
  /\ UNCHANGED <<delta, counter, changed, seen, updates, rest>>

(* fetch_sub of what was loaded, whatever the slot holds by now. *)
TakeDelta(a) ==
  /\ GoTo(a, "take", "scan")
  /\ delta' = [delta EXCEPT ![slot[a]] = @ - seen[a]]
  /\ agg' = [agg EXCEPT ![a] = @ + seen[a]]
  /\ slot' = [slot EXCEPT ![a] = @ + 1]
  /\ UNCHANGED <<counter, changed, seen, updates, rest>>

ScanEnds(a) ==
  /\ GoTo(a, "scan", "put") /\ slot[a] = Slots
  /\ UNCHANGED <<delta, counter, changed, slot, seen, agg, updates, rest>>

PutAggregate(a) ==
  /\ GoTo(a, "put", "clear")
  /\ counter' = counter + agg[a]
  /\ agg' = [agg EXCEPT ![a] = 0]
  /\ UNCHANGED <<delta, changed, slot, seen, updates, rest>>

ClearFlag(a) ==
  /\ pc[a] = "clear"
  /\ changed' = FALSE
  /\ Return(a)
  /\ UNCHANGED <<delta, counter, slot, seen, agg, updates, rest>>

Update(a) ==
  \/ TestFlag(a) \/ Scan(a) \/ TakeDelta(a)
  \/ ScanEnds(a) \/ PutAggregate(a) \/ ClearFlag(a)

Finished == pc[Main] = "out" /\ UNCHANGED vars

Next ==
  \/ \E t \in Thread : AddDelta(t) \/ AddFlag(t) \/ CallUpdate(t) \/ Leave(t)
  \/ CallFinalUpdate
  \/ \E a \in Agent : Update(a)
  \/ Finished

Spec == Init /\ [][Next]_vars

-----------------------------------------------------------------------------
(* No interleaving of adds and updates loses or invents a string: what the *)
(* counter, the slots and the updates in flight hold together is always    *)
(* the number of strings not reported, even when two updates subtract the  *)
(* same slot and leave it with the wrong sign.                             *)
Conservation ==
  counter + SumFunctionOnSet(delta, Thread) + SumFunctionOnSet(agg, Agent) = rest

(* A lone updater never takes more from a slot than was added to it, and   *)
(* what it reads afterwards is never below the true number of strings.     *)
LoneUpdaterNeverBelow ==
  (\A t, u \in Thread : updates[t] > 0 /\ updates[u] > 0 => t = u) =>
    /\ counter >= rest
    /\ \A t \in Thread : delta[t] <= 0

(* The assertion at the end of parallel_sample_sort: one more update()     *)
(* after the parallel region finds that nothing rests.  An update() clears *)
(* the flag of adds to slots it had already passed; but who called it has  *)
(* a section to report, by an add that comes later and sets the flag for   *)
(* all of them.                                                            *)
NothingRests == pc[Main] = "out" => counter = 0
=============================================================================
