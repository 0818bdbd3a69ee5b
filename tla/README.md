# Verification of pS^5, parallel super scalar string sample sort

TLA+ modules, TLC runs and TLAPS proofs beside the sources of Timo Bingmann's
parallel string sorter. Paths are relative to the repository; `PSS` stands for
`src/parallel/bingmann-parallel_sample_sort.hpp`, `JQ` for
`src/tools/jobqueue.hpp`. `PROJECT.json` holds the table of definitions and the
lines they model, the runs, the mutants, the hazards and the theorems.

## The system

`parallel_sample_sort` (PSS 1474) makes a job out of a set of strings and lets
an OpenMP team run the job queue until nothing is left.

| Component | State | Operations | Talks to |
|---|---|---|---|
| Job queue (`JQ`) | a concurrent queue of jobs, `m_numthrs`, `m_idle_count` | `enqueue`, `loop`, `numaLoop`, `executeThreadWork`, `has_idle`, `try_run` | calls `run()` of the jobs, which enqueue more |
| Group of job queues (`JQ` 238) | one queue per input | `calcThreadNum`, `numaLaunch`, `assist` | starts the teams of its queues |
| Concurrent queue (`src/minitbb`) | two ticket counters; per lane two counters, a list of pages and a mutex | `push`, `try_pop`, destructor | called by the job queue |
| Parallel step `SampleSortStep` (PSS 1148) | splitters, `bkt[p]`, `bktcache[p]`, `pwork`, `m_substep_working` | `sample`, `count`, `count_finished`, `distribute`, `distribute_finished`, `substep_all_done` | its jobs run from the queue; substeps notify it; it notifies its parent step |
| Small sort job `SmallsortJob` (PSS 381) | two explicit stacks with pop fronts, key cache, `m_substep_working` | `run`, `sort_sample_sort`, `sort_mkqs_cache`, `*_free_work`, `substep_all_done` | asks `has_idle`; gives sections away as jobs; notifies its parent |
| Lazy counter (`src/tools/lockfree.hpp`) | a delta per thread, a flag, the sum | `add`, `update`, `get` | workers add; workers and the main thread collect (with `PS5_ENABLE_RESTSIZE`) |
| Splitter trees and classifiers (`src/sequential/bingmann-sample_sort{BTC,BTCT,BTCE,BSC}.hpp`, `..._tree_builder.hpp`, `src/tools/stringtools.hpp`) | tree, splitters, `splitter_lcp` | builders, `find_bkt`, `classify`, `get_splitter`, index conversions | used by every sample sort |
| String pointers (`src/tools/stringptr.hpp`) | original, shadow and output array, flipped, LCP array, characters | `flip`, `sub`, `copy_back`, `fill_lcp`, `set_lcp`, `set_cache`; `binarySearch`, `verify_lcp_cache` of the caller's pointers | used by every sorter and by its callers |
| String sets (`src/tools/stringset.hpp`) | strings, of five kinds | `get_uint64`, comparisons, `check_order` | used by every sorter |
| Sequential sample sorts (`src/sequential/bingmann-sample_sort*.cpp`) | recursion, buckets, permutation | with and without a bucket cache, with nested trees | call the radix sort for few strings |
| Radix sort (`bingmann-radix_sort.hpp`) | recursion, buckets, permutation | `msd_CI2` | calls insertion sort for few strings |
| Insertion sorts (`inssort.hpp`, `bingmann-lcp_inssort.hpp`, PSS 698) | a section of the arrays | by characters, by LCPs, by cached keys | base case of all sorters |

What is hard in it:

- **Termination of the queue.** A thread leaves when its `try_pop` fails and all
  threads of the team are counted idle. A thread that finds a job in the idle
  loop is still counted when it has it already; jobs create jobs.
- **Phases by last-one-out.** The jobs of a step share `pwork`; whoever brings it
  to zero starts the next phase and sets it again. The step deletes itself when
  its substeps have ended, while jobs that created them may still be on its code.
- **Unsynchronized arrays.** Distributors write to one shadow array, and substeps
  to one string and one LCP array; a prefix sum and bucket boundaries alone keep
  them apart. Flipping decides which array holds which section.
- **Giving work away.** A small sort job hands out the rest of the frames at the
  bottom of its stacks while the top is in use. Which part of a frame is done,
  begun or given away is encoded in `idx` and the pop front.
- **LCPs across boundaries**, written last, by whoever finishes last, from strings
  that others have sorted; empty buckets in between; the first entry is not theirs.
- **Depths and terminators.** Keys are eight characters of a string, zeros from
  the terminator on; a depth too large reads beyond it, a missed terminator never
  ends.
- **A queue inside the queue** whose pushes and pops meet in lanes, with pages
  appended and freed while others read them, and whose failing pop decides when a
  team disbands.
- **Permutations in place** along cycles, which follow cached buckets and skip
  what is finished, and must stop at the last bucket without visiting it.
- **A counter without locks** whose flag and slots are not updated together.

What makes each component correct is stated in the properties below.

## Modules

| Module | Models | Runs and theorems |
|---|---|---|
| `WorkPool` | what the job queue promises: jobs are submitted by running jobs, taken once, completed, and nobody returns while one is pending or running | refined by `JobQueue` |
| `JobQueue` | `JobQueueT`, alone or in a group, one action per shared access | `job_queue` |
| `NumaJobQueueGroup` | `numaLaunch()`: the loop that hands out the queues of a group, and the teams that run them | `numa_group` |
| `JobQueueProofs` | theorems about `JobQueue` and `NumaJobQueueGroup` | proved |
| `Sums` | induction over numbers and finite sets, quotients, ranks, folds and sums over finite sets, for the proofs | lemmas |
| `Fifo` | what `JobQueue` takes the concurrent queue for | refined by `ConcurrentQueue` |
| `ConcurrentQueue` | `tbb::concurrent_queue`, one action per shared access | `concurrent_queue` |
| `ConcurrentQueueProofs` | theorems about `ConcurrentQueue` | proved |
| `StringKeys` | keys as packed characters; what the classifiers and `splitter_lcp` are to compute | extended by most of the following |
| `StringProofs` | keys, their characters, what they share, and their buckets; strings, their order and their keys; the insertion sorts | lemmas |
| `StringPtr` | the five classes of string pointers as views of one pair of arrays | extended by the sorters |
| `StringSet` | the five string sets: ends, characters, comparisons, keys, `check_order` | extended by the sorters |
| `LcpStrings` | sorted strings with LCPs and characters as callers hold them: search and verification | `smallsort_job` |
| `InsertionSorts` | the three insertion sorts | `smallsort_job`, `sequential_sorts` |
| `MultikeyQuicksort` | the partition loop of `MKQSStep` | `smallsort_job` |
| `SampleSortStep` | one parallel step and all its jobs, and its caller | `step`, `step_deleted_early` |
| `SampleSortStepProofs` | theorems about `SampleSortStep`: its control and its arrays; the distribution; the result | proved |
| `SmallsortJob` | one small sort job and the jobs it gives away | `smallsort_job` |
| `SmallsortJobProofs` | theorems about `SmallsortJob` and the sorters it calls | proved |
| `TreeShape` | perfect trees: ranges of a sample, index arithmetic, descent | `splitter_tree`, `sequential_sorts` |
| `SplitterTree` | builders and classifiers as functions of a sample | `splitter_tree`, `equal_variant_splitter` |
| `SplitterTreeProofs` | theorems about `SplitterTree` and `TreeShape` | proved |
| `SequentialSort` | sequential sample sorts and radix sort | `sequential_sorts`, `binary_search_done`, `check_order` |
| `LazyCounter` | `lazy_counter` as the context of the sorter uses it, one action per atomic access | `lazy_counter` |
| `LazyCounterProofs` | theorems about `LazyCounter` | proved |

`MC...` modules hold the values of constants for TLC. Definitions whose comment
begins with "Mistake" are mutated forms of the definition that follows; no run
uses them, they show that a property notices the mistake.

How the modules meet: `ConcurrentQueue` implements `Fifo`, the sequence that
`JobQueue` uses. `JobQueue` implements `WorkPool`, which is what `SampleSortStep`
and `SmallsortJob` assume of the queue: any job submitted is taken once, at any
time, by any thread, so their jobs are taken in any order. A step sees its
substeps, and a small sort job the jobs it gave away, as an action that sorts a
section and notifies; that this is what a `SmallsortJob` and a `SampleSortStep`
do when they notify their parent is `SortedWhenTold` of each: proved for the step
(`SortedCorrect`) and, for the strings, for the job (`JobSorts`). Both classify by
`BucketIn` and `SplitterLcpIn` of `StringKeys`, and so does `SequentialSort`;
`ClassifyRight`, `InterleavedRight`, `EqualVariantRight` and `DepthSound` of
`SplitterTree` show that the trees of the source compute it.

### JobQueue and NumaJobQueueGroup

`pc` is the place of each thread in `executeThreadWork`, `job` its local pointer.
`Start` is the assignment of `m_numthrs` by each thread at the beginning of its
region; `PopBusy` and `MissBusy` are the inner `while`, `GoIdle` the increment,
`PopIdle`, `MissIdle`, `Leave`, `SpinAgain` the idle loop, `Wake` the decrement.
A running job may `Enqueue` any number of jobs and then `Finish`, with either
result. `status` is the life of a job object. Push and `try_pop` are atomic,
which `ImplementsFifo` of `ConcurrentQueue` allows.

`NumaJobQueueGroup` has the state of `numaLaunch()`: `next` is the iteration that
the dynamic schedule hands out next, `at` where each of the loop's threads is, and
of each queue the size of its `team`, the jobs `pending` and the threads `busy` with
one. `TakeQueue` is an iteration up to the parallel region of `numaLoop()`,
`EndQueue` the end of the region, `EndLoop` that of the loop. The queues themselves
are seen as `WorkPool` promises (`PopJob`, `CreateJob`, `EndJob`), and a thread
leaves (`LeaveTeam`) when nothing of its queue is pending or running, which is
`LeaveWhenNobodyRuns` of `JobQueue`. `assist()` looks at no queue and changes
nothing. `NodeThreads` is the size of a team, and also what
`parallel_sample_sort_numa2` tells the queue's context. Teams have the size asked
for; the OpenMP runtime may give less.

### ConcurrentQueue and Fifo

`head`, `tail` are the global tickets, `laneHead`, `laneTail`, `headPage`,
`tailPage`, `lock` the fields of a `micro_queue`, `next`, `mask`, `slots` those
of a page; a page is named by the ticket it was allocated for, so that reuse of
a freed page is visible. A push is `PushTicket`, `PushTurn`, then either
`LinkLock`, `LinkPage`, `LinkLast` with a new page or `ReadTailPage`, then
`Store` and `Advance`. A pop is `CallPop`, `CheckEmpty` or `CheckSome`,
`CasDraws` or `CasFails`, `PopTurn`, `PopFilled`, `TakeItem` and, from the last
slot of a page, `UnlinkLock`, `UnlinkPage`, `UnlinkLast`; `PassTurn`, `FreePage`.
`Destroy` is the destructor, at a moment at which nobody is in a call and the
queue is empty. The refinement maps tickets to the sequence of
items between them.

### StringPtr, StringSet, LcpStrings

A pointer is a section (first position, size, flipped) of two arrays indexed by
position, and a class: whether there is an output array (then the shadow, as the
callers pass it), an LCP array and an array of characters. `CopyBack` moves a
section to where its class wants the result, `SetLcp` and `SetCache` write only
for classes that have the array.

A string is a tuple of characters without zero. The sets differ in where a
string ends, which decides whether comparisons are the inherited ones, that ask
`is_end()`, or those of characters, where the terminator is a character.
`KeyAt` packs a key by `get_char` up to the end, `BswapKey` loads a word and
masks it, with something behind the terminator.

`LcpStrings` has the arrays as sequences. `NextProbe` is one round of
`LcpCacheStringPtr::binarySearch`.

### SampleSortStep

The strings are `1 .. NumStrings`, with a `key` each; `arr` has the two arrays,
`input` the class of pointer, whether it is flipped, the keys and the size of the
whole sort. `pc` is the place of every job of the step. A job is split where
another one may notice: the decrement of `pwork`, every enqueue, every move of a
string, the handle on the substeps. `Sample` draws any non-descending splitters
out of the strings' keys, which is all a random sample allows to say.
`SpawnReadsDeleted` is the read of `parts` from a step that is gone, with both
outcomes. The number of parts comes from `sequential_threshold()`. `Return` is
what the caller does when the queue's loop has ended: it moves the result from
the output array, or completes the first entries of LCPs and characters.

### SmallsortJob, MultikeyQuicksort, InsertionSorts

`ss` and `ms` are the two stacks with the fields of the frames, `ssFront` and
`msFront` the pop fronts, `cache` the cached keys by position, `room` the size
of the cache, `subs` the jobs given away. An action is one iteration of the loop
of `sort_sample_sort` or `sort_mkqs_cache`, or an answer of `has_idle()`, which
is free, with the work it causes. Strings are tuples of characters and depths are
real, so that a wrong depth sorts wrongly. The splitters are any of the section's
keys; the pivot is the median of nine, and the partition loop runs over indices
as in the source, including the keys next to the pivot it notes on the way. The
insertion sorts are folds over the positions of a section; `MoveDown` is the
inner loop, `PlaceOf` where it breaks. Jobs given away are their results. The job
is started from depth zero.

### TreeShape, SplitterTree and StringKeys

The state is a sample and the tree built from it; the builders and classifiers
are recursive functions over them. `NodeRanges` are the ranges `recurse` passes
down; the position arithmetic of `TreeCalculations` is done on numbers as wide as
the tree. `Descent`, `DescentUnrolled` and `DescentAssembler` are the three forms
of the loop of `find_bkt`, `TreeStep` and `SplitterTreeEnd` what the macros of the
unrolled equality variants repeat, `ClassifyTreeInterleave` and
`ClassifyCalcInterleave` the loops over batches of `Rollout` strings, `Halve` and
`BinarySearchAssembler` the binary searches.

### SequentialSort

`call` is the call that begins, `stack` the calls whose buckets are being sorted,
`index`, `cache` and `perm` the locals of a permutation, `i` its loop. `input`
chooses the variant: with a cache of buckets and a tree (`sample_sort_generic` with
the tree classifiers, and `BSC_original`, which tests the splitter itself), with a
cache and a binary search (`BSC`: `sample_sort_generic` with a builder that marks no
splitter as done, `MarkedDone`), without a cache (`BS`, `BT`) or with nested trees
(`RBTCE`); strings fewer than `SmallSort` go to `msd_CI2`. `TakeString`, `SwapString`, `PutString` are the
cycle; a swap is an action. For nested trees, `BuildTree`, `ClassifyString`,
`CountTrees`, `PermuteTree` are the passes over all trees. Splitters are free
except in nested trees, whose builder chooses them from a sample whose strings
are drawn freely.

### LazyCounter

`delta[t]`, `counter`, `changed` are the atomics, the rest are locals of
`update()`. A worker adds to its slot what it has sorted; `rest` is what no one has
reported. Workers call `update()` only in `Context::sequential_threshold()`, to
decide how to sort a section that is not enqueued yet: while they are in it, that
section is theirs, and no other worker can report it (`Held`). The main thread calls `update()` once more when all workers are out.

## Runs

Sizes are the smallest at which the interesting cases occur.

| Run | Instance | Shows |
|---|---|---|
| `job_queue` | 3 threads, 3 jobs, fair | type, a queued job always has a worker, nobody leaves while a job is queued or running, refinement of `WorkPool`, termination, every job runs. Three threads allow one that wakes, one that leaves and one that spins at once. |
| `numa_group` | 1 to 5 threads, 1 to 3 queues of up to 2 jobs, fair | the teams at work never have more threads than the machine; `numaLaunch()` returns, with no queue left with work. Fewer threads than queues, as many, and more, with and without a rest. |
| `concurrent_queue` | 5 pushes by 2 threads, pops by 2, one doing both, 2 lanes, 2 slots a page, fair | pages are allocated while used, none is lost, refinement of `Fifo`, every call ends. Five tickets fill a page of one lane and go on to its second page while the first is being freed. |
| `step` | 3 strings in 2 parts by every pointer class, flipped or not; 2 strings in 4 parts; 4 strings in 2 parts; 2 splitters; fair | order, strings, LCPs and characters, disjoint moves, `pwork`, handles, arrays live while used and freed at the end, depths of substeps, the step ends. Buckets are shared between parts, empty between others, or equal; parts begin at the end and past it. With four strings, two of them may be between two splitters that share a character: a less-than substep from depth one. |
| `step_deleted_early` | 3 strings, 2 parts | finding 1 |
| `smallsort_job` | 11 inputs of up to 7 strings by every pointer class and string set, 3 splitters, keys of 2 characters, fair | each position has one owner, LCPs are written once and right, characters too, frames tell the truth of their strings, handles, end; the result can be searched. Thresholds 7 and 4, so that a sample sort frame lies below quicksort frames; one frame is given away at a time, so that frames are left on either side of the pop front. |
| `splitter_tree` | 7 splitters, all 38760 samples of 14 keys | builders, index conversions and all classifiers agree; ranges stay inside the sample when keys repeat; batches of 4 with every rest |
| `equal_variant_splitter` | 3 splitters, samples of 6 | finding 2 |
| `sequential_sorts` | 3 inputs of up to 7 strings by 3 variants, and one without equal strings by `BSC`, 3 splitters, fair | sorted, depths shared by all strings of a call, permutations on the way, caches of nested trees aligned with their strings, end. The inputs have keys that repeat, end within a key, or go on behind one. |
| `binary_search_done` | 2 inputs with equal strings, by `BSC` | finding 3 |
| `check_order` | as `sequential_sorts` | finding 4 |
| `lazy_counter` | 2 workers, 3 strings, 2 updates each | conservation; a lone updater is never below; the last update leaves nothing |

Bounds: `MaxUpdates` of `LazyCounter` bounds the calls of `update()`, `Jobs` of
`JobQueue` the jobs ever created, `MaxPushes` of `ConcurrentQueue` the calls of
`push()`, `MaxJobs` of `NumaJobQueueGroup` the jobs ever created in a queue; nothing
else is unbounded. `TypeOK` of `ConcurrentQueue`, `SampleSortStep`, `SmallsortJob` and
`LazyCounter` documents the variables; it holds in the same instances and is not
among the properties of a run. For the step and the counter it is proved. Nor are
`IdleCountExact`, `OneHolder` and `NothingLeftBehind`, which hold there too and are
proved.

Fairness. `JobQueue` has weak fairness for each thread: the operating system
runs every thread of the team. `NumaJobQueueGroup` asks only that some thread of the
group goes on while one can. `ConcurrentQueue` has it for each thread inside a
call; nobody has to call. `SampleSortStep` asks only that some job goes on while
one can, less than what `EveryJobRuns` of the queue says. `SmallsortJob` has it
for the job's own thread, for the jobs given away together, and for the last
action; the first and the last are written out as "infinitely often a step or not
running", which for actions that are always possible is the same and cheaper to
evaluate. `SequentialSort` has one thread that goes on. No strong fairness is
used; which answer `has_idle` gives and which job is next is never assumed.

Deadlock is checked in all runs: modules stutter explicitly only when no thread
has anything left to do.

## Findings

1. **The step is deleted under a loop that still reads it** (PSS 1326, 1280). `sample` and
   `count_finished` enqueue a job per part in a loop over `p < parts`, a field.
   After the last enqueue the other threads can finish the whole step and `delete this`
   before the loop reads `parts` again.
2. **`get_splitter` of the equality classifiers is off by one**
   (`bingmann-sample_sortBTCE.hpp` 93), and looks up position zero. The LCP
   variants use it.
3. **The builder of the binary search classifier omits the done marker**
   (`bingmann-sample_sort_tree_builder.hpp` 53): `BSC` sorts strings that are equal to
   their end on from behind it. What it reads there is not its own; the strings are
   equal, so their order does not suffer, but where the recursion ends is decided by
   what happens to be in memory. `sequential_sorts` therefore gives `BSC` an input
   without equal strings.
4. **`check_order` never finds anything out of order** in zero-terminated
   strings (`stringset.hpp` 283): both iterators it passes to `is_leq` are into
   the second string. The tests rely on it.
Without a run:

- Idle queues do not assist each other (`JQ` 308-320): the comments at 162, 232
  and 284 say they do, but the loop of `assist()` is empty, and a thread whose team is
  idle leaves while other queues have jobs that nobody has taken. With fewer threads
  than queues the queues without threads wait for an iteration of the loop in
  `numaLaunch()`, which comes (`LaunchEnds`); with as many or more, the threads of a
  queue that is worked off do nothing.
- The comment at `JQ` 129 says that `try_run()` returns false when the queue is
  finished. It returns `m_idle_count != m_numthrs` after a failed pop, which is
  false too while a team thread holds a job it popped in the idle loop. Nothing
  calls `try_run()`.
- `StringSetBase::is_less` is true of two strings that both end, as the comment
  "less or equal" says and its name does not; the insertion sorts do not notice.
- `check_order` of the sets that inherit their comparisons compares iterators of
  different strings too; what it answers there depends on where the strings are
  in memory (`CheckOrder` is a set of answers).
- `get_char_uint64_simple` and its relatives shift `*i`, which is a signed
  `char` in the sets over `std::string`: a character above 127 sets all higher
  bits of the key, a limit that the comment on them names ("only works correctly
  for 8-bit characters") and characters of the model stay below.
- An empty set wraps the counter of `inssort_generic` around (`inssort.hpp` 71),
  `check_order()` of an empty set starts behind its end, `binarySearch` of size
  zero reads a string, and `count_high_zero_bits` of a 128-bit word without upper
  half asks a builtin for the leading zeros of zero, which is undefined. The
  sample sorts never call them so.
- `update()` of the lazy counter clears `m_changed` after it collected the slots
  (`lockfree.hpp` 105), and so loses the flag of an `add` in between. `NothingRests`
  holds only because whoever called `update()` has still a section to report, whose
  `add` sets the flag again; the counter is not safe for other uses.
- With `PS5_ENABLE_RESTSIZE` the threshold may shrink between `Enqueue` and the
  constructor of the step, which may then have more parts than `Enqueue` saw.

## Proofs

| Module | Theorems | State the properties |
|---|---|---|
| `JobQueueProofs` | `TypeCorrect`, `CountCorrect`, `HolderCorrect`, `WorkerCorrect`, `EndCorrect`, `LeaveCorrect`, `QueueImplementsPool`, `TeamsFitCorrect`, `NothingLeftBehindCorrect` | every safety property of `JobQueue` and its refinement of `WorkPool`; the safety properties of `NumaJobQueueGroup` |
| `ConcurrentQueueProofs` | `Invariance`, `PagesLiveCorrect`, `PagesKeptCorrect`, `FifoCorrect` | every safety property of `ConcurrentQueue` and its refinement of `Fifo` |
| `SampleSortStepProofs` | `PworkCorrect`, `HandlesCorrect`, `ArraysLiveCorrect`, `NoOverwriteCorrect`, `SortedCorrect`, `SubstepDepthCorrect`, `TypeCorrect` | every safety property of `SampleSortStep` |
| `SmallsortJobProofs` | `JobInvCorrect`, `HandlesExactCorrect`, `FramesSoundCorrect`, `OwnedOnceCorrect`, `JobSorts` | `HandlesExact`, `FramesSound`, `OwnedOnce`, and the strings of `SortedWhenTold` |
| `SplitterTreeProofs` | `SplittersCorrect`, `TreeCalcCorrect`, `ClassifyCorrect`, `EqualVariantCorrect`, `InterleavedCorrect`, `DepthCorrect` | every property of `SplitterTree` that holds |
| `LazyCounterProofs` | `TypeCorrect`, `ConservationCorrect`, `LoneUpdaterCorrect`, `NothingRestsCorrect` | every safety property of `LazyCounter` |

`EndCorrect`, `Invariance`, `JobInvCorrect` and the `TypeCorrect` of the step and of
the lazy counter state formulas that no run lists. `JobSorts` is a part of
`SortedWhenTold`.

The assumptions are those the modules make on their constants, which TLC
evaluates in every run, and in `NothingRestsCorrect` that there is a slot for every
worker: teams that are not empty (`ThreadsAssumption`; finite, for
the job queue), numbers of threads and queues that are positive (`GroupAssumption`),
sizes that are positive numbers, null pointers that are no job and
no array (`NoJobAssumption`, `NullAssumption`), the mark of a moved string that is
no string (`MovedAssumption`, and the last line of `SmallsortAssumption`), inputs
that `Enqueue` makes a step of (`EnqueueAssumption`), inputs of a small sort job that
are not empty and thresholds of it in their order (`SmallsortAssumption`; the source
has 2^20 and 32), a multiplier of tickets without divisors in common
with the number of lanes (`PhiAssumption`; the source has 3 and 8), and what `^`
means (`PowerAssumption`, `DoublingAssumption`: the provers have no notion of it).

### JobQueue

The inductive invariant `IInv` joins the type, `NumthrsSet` (a thread past its
start has set `m_numthrs`), the exact count, `QueuedWorkHasWorker`, and what each
pointer says: `HeldOnce` (a thread that runs or wakes holds a job that is taken,
and no two hold the same) and `QueuedOnce` (the queue has every queued job once).
The count alone is not enough: that nobody leaves while another has a job needs
that a thread with a job is either not counted (running) or about to uncount
itself, and then the queue may be empty and the count full, so what leads on is
that a waking thread counts as a worker of the jobs to come. `CountMove` says how
a thread's move changes the cardinality; `PopKeepsPlace`, `PushKeepsPlace` and
`FinishKeepsPlace` are the steps that move a pointer; `NextIInv` combines them,
an action at a time. The refinement maps the queue and the threads' pointers to
the state of each job (`PoolState`) and every action to a pool action or a stutter.

`GroupInv` of `NumaJobQueueGroup` says that a queue has a team only while a thread of
the loop is at it (`Attended`), no larger than `NodeThreads`, that queues not yet
handed out have none, and that one which was, and has none any more, has no work. The
teams fit because, with as many threads as queues, all teams together are the machine
(`TeamSums`, over the quotient and the rest), and with fewer, a team is one thread
(`TeamSize`) and there are no more of them than threads of the loop (`AttendedFew`).
At the end of the loop all queues have been handed out and none is attended.

### ConcurrentQueue

`IInv` is `Turns /\ Lists /\ Contents`, where each is inductive together with those
before it.

- `Turns` is about tickets and lanes alone. A ticket has been pushed when the
  tail counter of its lane is past it, popped when its head counter is; every
  ticket drawn that is not yet pushed, or popped, is the ticket of exactly one
  thread in the middle of a call, and a pop's ticket is below the tail. What a
  thread waits for, its turn, therefore comes to it alone, and a lane's counter
  moves in tickets of its own lane only (`PhiAssumption`).
- `Lists` says which pages are in the list of a lane, by what has become of
  their first and last ticket. A page is `Linked` when it has been appended,
  `Ended` when `tail_page` has followed, `Unlinked` when `head_page` has left
  it, `Cleared` when `tail_page` was cleared if need be, `Freed` when it was
  deallocated, in this order; each of these is a statement on two counters and
  the place of at most one thread. `head_page` is the first page linked and not
  unlinked, `tail_page` the last ended and not cleared, `next` leads from a page
  to the one with the next tickets of the lane. Between `Linked` and `Ended`,
  and between `Unlinked` and `Cleared`, the thread of the ticket is inside the
  mutex of the lane, alone (`Locked`), and `PushLocals` and `PopLocals` say what
  its local pointers are. Without the mutex both ends of a list of one page
  could be changed at once.
- `Contents`: the pages allocated are those drawn for and not freed, and the slot of
  a ticket stored and not taken has its item.

The actions are first shown to be of a few kinds, by what they do to the ticket of
the thread (`Draws`, `ReachesTurn`, `Works`, `Advances` and the like); each kind has
its lemmas, and leaves what is said of the tickets of others as it was.

`PagesLive` follows from `IInv`. For `ImplementsFifo`, an item is its ticket, so
that the abstract queue is the segment of tickets from `head` to `tail - 1`: a
push appends when it draws its ticket, a pop removes when its compare-and-swap
succeeds, and a failing pop took its decision when it read a `tail` equal to the
`head` it had read before. `PagesKept` needs the chain of `next` pointers
unfolded. `Chain` is a recursive function; that it has a value, and that it is
what its definition says, is proved by induction over numbers
(`ChainExists`, `ChainIs`), after which each page found in it is one linked and
not unlinked and each such page is reached. `Emptied` is the invariant of the
queue that is gone.

### SampleSortStep

`Control` is inductive by itself. It lists the places of the jobs (`Places`,
`Spawning`), which are possible in which phase (`Phases`), what `pwork` counts in
each (`PworkCounts`: those that have not decremented it, whether or not they have been
enqueued yet), that the job that took it to zero is alone (`LastAlone`), that
until the buckets are visited nothing has a handle (`EarlyQuiet`), that the loop
which creates substeps has created none of those ahead of it (`BucketsAhead`), and
what holds the step alive (`HandlesCount`, `AliveWhileHeld`).

`Arrays` adds to it when each part's arrays are there, `ArrayTypes` what they are.
`bkt[0]` outlives the others and is freed by the last distributor or, when LCPs are
to be written, behind `substep_all_done`; `ArraysGone` is the condition.

`Distribution` is the argument for the moves, which take no lock. A string has a
place, its rank by bucket, then by part, and within a part from the last to the
first (`Precedes`). The counter of a bucket and part is, before the prefix sum,
the number of its strings (`CountedRight`), and after it the number of strings
that precede the end of the part's share of the bucket, less those already
moved. It therefore ends at the place of the string that is moved next
(`SummedRight`), places of different strings differ, and `NoOverwrite` follows.
That the places are all of `0 .. n - 1` is `RanksFill`.

`Sorting` takes over when substeps are created: `Shapes`, what the arrays are;
`Starts`, the boundaries of the buckets; `Buckets` and `Sections`, that each section
holds the strings of its bucket, unsorted where the substep will find them
or sorted where the parent expects them; `Ending`, who is told what, and when. That
concatenated sections are sorted is `BucketMonotonic`; that the LCP at a
boundary is that of the last and the first key of its neighbours, and the
depth of a substep no larger than what its strings share, are `KeyLcpBetween` and
`KeyDepthTerminates` of `StringProofs`.

### SmallsortJob

`JobInv` says what the arrays hold, not how they came to hold it. What is left to
do is a set of items (`Items`): the buckets from `idx` on of each sample sort
frame above the pop front, the parts behind `idx` of each quicksort frame, each job
given away, and before the start the whole input. An item is a section with what
whoever takes it will rely on: whether its strings are equal or the depth they
share, the depths of which its keys are cached, and the size of the cache it counts
on. The invariant (`Kept`) is that there is some arrangement `V` of the input's
strings such that

- each item tells the truth (`ItemTrue`): the strings of `V` at its positions are
  in its array, share its depth, and have the keys that the cache says;
- items have no position in common;
- at a position of no item the string of `V` is in the output;
- strings at different positions are in order in `V` unless an item covers both.

Without items this is a sorted output (`HomeForGood`). No step needs a
string's history: a step takes an item and leaves `V` as it was outside it, with
smaller items or none at its positions (`Worked`, `Refined`). What
remains to be shown of an action is which items it
removes and which it puts on a stack (`SamplePushed`, `QuickPushed`,
`TopAdvanced`, `TopAdded`, `TopGone`, `SamplePassed`, `QuickPassed`, `Gives`).
`Stacks` is about the places of the frames: no
quicksort frame is passed over while a sample sort frame is left, and the quicksort
has returned when the sample sort goes on, so that at the end nothing is left on
either stack. `Handles` counts the jobs, `Alive` says that the parent has not been
told of anything yet.

What each sorter makes of its item is proved of the definitions of the loops,
without reference to the job: the insertion sorts by characters, by LCPs and by
keys (`Inserted`, `SectionSorted`, `SortsCached`; folds whose invariant is that what has
been inserted is sorted, and for the second that its LCPs are right, because the
place is found by them), the partition loop of the quicksort (`PartRight`; it never
leaves the section, keeps keys and strings together, and ends with the keys less,
equal and greater in their ranges, `Parted`), the depth its parts share
(`QuickDealt`, from the keys next to the pivot), and the distribution of the sample
sort (`DealtRight`; by ranks, as in the parallel step).

`OwnedOnce` then follows from items being disjoint, `FramesSound` from their truth.
`HandlesExact` is inductive with `Stacks`.

### SplitterTree and TreeShape

The tree is `TreeBits` levels of nodes in level order. `Left(i)` is the first place, in
key order, of the subtree of node `i`, `Wide(i)` the number of places, one more than
its splitters; children halve it. `PreToLevelorder` and `LevelToPreorder` are
inverse because the lowest bit set of a place says its level, and the rest of the bits
its node (`TreeCalcExact`). The invariant `TreeInv` says of the state only that the
sample is sorted and that, once built, tree and splitters are those that the
definitions make of it; the work is in what the definitions are.

- Builder: `Divided` says how a range is split in one less the copies of the
  splitter and another; ranges of the nodes of a level lie behind each
  other, so the splitters are in order of their places.
- Descents: for each of the loops, as a function of the number of rounds
  (`Rounds`), the node reached after `l` of them is the one of level `l` whose places
  are those where the key may be (`Reached`, `Towards`, `SearchedTo`). At the
  leaves one place is left, the bucket. The equality variants may leave the loop
  early or carry a flag (`Unrolled`); both are shown to find the splitter if
  there is one (`SearchNodes`). The binary searches narrow a range of places
  (`Halved`, `Narrowed`).
- Batches: the interleaved loops write the buckets of `Rollout` strings at a time,
  those behind the last full batch one by one (`Batches`, `Rests`), and what is written
  joins to what the one-by-one loop would write (`Joins`).

### LazyCounter

`IInv` joins the type and `Conservation` to `TakesFromWorker` (a slot that is being
taken from exists) and `AggregatesInFlight` (an agent has an aggregate only while it
collects, so that to begin anew loses nothing). `LoneInv` is what a lone updater
needs: nothing anywhere is positive (`NothingPositive`), and a slot from
which something is being taken has at most what was loaded from it, because
only its owner, which only subtracts, touches it meanwhile. `RestInv` is for
`NothingRests`: workers inside `update()` hold strings that nobody has reported
(`UpdatersHold`), so that while nothing is left to report nobody is there to clear the
flag; with nothing left, what is in a slot has its flag set or about to be
(`FlagKept`), and the main thread's pass has then nothing behind it (`MainCollects`).

### Induction

The library's induction theorems take an operator as a parameter. `NatInd` and
`SetInd` of `Sums` state induction over numbers and finite sets for a set of
numbers, or of subsets, instead, and are proved from what the library has on
well-founded relations and cardinalities. The models have no recursive operators, only
recursive functions and folds, which are recursive functions inside. That such a
function has a value at all, and the one its equation says, is proved for each kind:
`SumExists`, `FoldExists`, `FoldLeftExists` and `DescendingExists` in `Sums`,
`ChainExists` of the queue. `SumUnfold` and the lemmas behind it say how a
sum changes when a term does; `FoldLeftRuns` turns a fold into its states after each
element, for which an invariant is shown by `NatInd`. The depth of the recursion is
always a number of a state or of the constants, so that this is induction over
numbers, and not over data.

### Only model-checked

- All liveness: `Termination`, `EveryJobRuns`, `LaunchEnds`, `CallsEnd`, and `Finishes` and `Ends`
  of the sorters: fairness and `ENABLED` are beyond the provers.
- `SmallsortJob`: the LCPs and characters of `SortedWhenTold` with `LcpOnce`, and
  `OutputSearchable`. `JobInv` speaks of strings only. It would take items that say
  which entries of the LCP array are theirs, and what the frames passed over have
  still to write.
- `SequentialSort`: `SortedAtEnd`, `DepthShared`, `PlacedRight`, `SubtreesAligned`.
- The step takes what a substep does as a given action, and so does the job with what
  it gives away; that a sorter started at a sound depth keeps this promise is proved
  of each separately, not of the recursion as a whole.

## Not modelled

- `try_run()`, which nothing calls; statistics, timers and options; allocation of
  memory on NUMA nodes.
- Of the concurrent queue: allocations that fail (the exception would leave
  `run()` inside the team and end the program), iterators, copies, `size`, `empty`,
  the bounded queue, tickets that wrap around 64 bits; the allocators and the
  platform layer below it.
- Of the sequential sorters: the limit of 255 nested trees, `g_toplevel_only`, the
  step counters.
- Of the string sets, how each stores its strings; embedded zeros; of the string
  pointers, plain access and copies of `LcpStringPtr` and `LcpCacheStringPtr`.
- Binary searches over numbers of splitters that are not one less than a power of
  two: `SplitterTree` has `2^TreeBits - 1` of them, `BS` and `BSC_original` use 10922.
- Memory orders weaker than interleaving: the queues' counters are sequentially
  consistent or used with acquire and release; the relaxed flag of the lazy counter
  is read as if it were.
- The tests, which run the sorters on random strings.

## Plan

All components of the sorter have a module. What is left:

1. Two levels: a `SampleSortStep` whose substeps are `SmallsortJob`s abstracted
   to their promise, over `WorkPool`, with the notification of parents.
2. Proofs: the LCPs of `SmallsortJob`, by an invariant beside `JobInv` that gives
   every boundary to a frame, an item or nobody; the permutation cycles of
   `SequentialSort`; the type of `ConcurrentQueue`.
