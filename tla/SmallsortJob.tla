---------------------------- MODULE SmallsortJob ----------------------------
(***************************************************************************)
(* The SmallsortJob of pS^5 (bingmann-parallel_sample_sort.hpp): one       *)
(* thread sorts a set of strings by sequential sample sort while a bucket  *)
(* is large, by multikey quicksort with cached keys while it is not small, *)
(* and by insertion sort otherwise.  Both recursions keep their frames on  *)
(* explicit stacks, so that the job can give away the bottom of its stack  *)
(* when another thread is idle: what is left of a frame becomes jobs, the  *)
(* frame is passed over by the pop front, and its LCPs are written by      *)
(* whoever finishes last.                                                  *)
(*                                                                         *)
(* Depths count from the depth the job was started with.  An action is an  *)
(* iteration of one of the two loops, an answer of has_idle() with the     *)
(* work it causes, or one of the jobs created.                             *)
(***************************************************************************)
EXTENDS InsertionSorts, MultikeyQuicksort, LcpStrings

CONSTANTS
  Inputs,          \* what the job may be started with: a class of string
                   \* pointer, whether it is flipped, the kind of set
                   \* and the strings
  NumSplitters,
  SmallThreshold,  \* g_smallsort_threshold
  InsThreshold,    \* g_inssort_threshold
  FreeBatch,       \* quicksort frames given away at once
  Searched         \* strings to look for in the result

ASSUME SmallsortAssumption ==
  /\ NumSplitters \in Nat \ {0} /\ FreeBatch \in Nat \ {0}
  /\ SmallThreshold \in Nat /\ InsThreshold \in Nat
  /\ SmallThreshold >= InsThreshold /\ InsThreshold > 2
  /\ \A x \in Inputs :
       /\ x.class \in PointerClasses /\ x.flip \in BOOLEAN /\ x.set \in StringSets
       /\ Len(x.strings) > 0 /\ x.strings \in Seq(Seq(1 .. NumChars - 1))
  /\ Moved \notin Seq(1 .. NumChars - 1)   \* so that its use would show

BktNum == 2 * NumSplitters + 1
KeyCells == 4      \* sizeof(key_type) / sizeof(uint16_t)
Untouched == -1    \* what the caller has in its arrays

VARIABLES
  input,     \* what the job was started with
  arr,       \* original array (FALSE) and shadow array (TRUE)
  lcp,       \* LCP array
  chars,     \* array of the characters behind the LCPs
  cache,     \* the cached keys, by position in the job's arrays
  room,      \* bktcache_size in units of uint16_t
  ss,        \* ss_stack, bottom first
  ssFront,   \* ss_pop_front
  ms,        \* ms_stack
  msFront,   \* ms_pop_front
  subs,      \* jobs created and not yet finished
  substeps,  \* m_substep_working
  pc,        \* where the job is
  told       \* notifications of the parent step

vars == <<input, arr, lcp, chars, cache, room, ss, ssFront, ms, msFront, subs,
          substeps, pc, told>>
content == <<arr, lcp, chars>>
written == <<lcp, chars>>
caches == <<cache, room>>
sample == <<ss, ssFront>>
quick == <<ms, msFront>>
jobs == <<subs, substeps>>

class == input.class
Index == 0 .. Len(input.strings) - 1

-----------------------------------------------------------------------------
(* A section that was copied back, as the insertion sorts see it. *)
Home(sec) ==
  LET home == CopyBack(class, arr, sec)
  IN  [arr |-> home, st |-> [str |-> Output(class, home), lcp |-> lcp,
                             chars |-> chars, keys |-> cache]]

(* What they leave. *)
Becomes(home, st) ==
  /\ arr' = [home.arr EXCEPT ![class.out] = st.str]
  /\ lcp' = st.lcp /\ chars' = st.chars /\ cache' = st.keys

(* insertion_sort(strptr.copy_back(), depth) *)
SortSection(sec, depth) ==
  LET home == Home(sec) IN Becomes(home, InsertionSort(input.set, class, home.st, sec, depth))

(* insertion_sort_cache<false>, which copies back itself. *)
SortCachedSection(sec, depth) ==
  LET home == Home(sec) IN Becomes(home, InsertionSortCache(input.set, class, home.st, sec, depth))

(* Strings in the order from some depth on. *)
SortedFrom(depth, seq) ==
  LET place == [k \in DOMAIN seq |-> Cardinality({j \in DOMAIN seq :
                  IF j <= k THEN ~LessFrom(depth, seq[k], seq[j])
                            ELSE LessFrom(depth, seq[j], seq[k])})]
  IN  [q \in DOMAIN seq |-> seq[CHOOSE k \in DOMAIN seq : place[k] = q]]

(* What any other sorter makes of a section. *)
SortElsewhere(sec, depth) ==
  LET home == CopyBack(class, arr, sec)
      sorted == SortedFrom(depth, Content(arr, sec))
      rest == Positions(sec) \ {sec.lo}
      lcpAt(i) == LcpFrom(depth, sorted[i - sec.lo], sorted[i - sec.lo + 1])
  IN  /\ arr' = [home EXCEPT ![class.out] = Put(@, sec.lo, sorted)]
      /\ lcp' = SetLcp(class, lcp, [i \in rest |-> lcpAt(i)])
      /\ chars' = SetCache(class, chars,
                           [i \in rest |-> GetChar(sorted[i - sec.lo + 1], lcpAt(i))])

(* Equal strings: copied back, and their LCP is their length. *)
EqualDone(sec, v) ==
  /\ arr' = CopyBack(class, arr, sec)
  /\ lcp' = FillLcp(class, lcp, sec, v)
  /\ chars' = FillCache(class, chars, sec)

-----------------------------------------------------------------------------
(* A SeqSampleSortStep: the strings of section lo, n of array flip were    *)
(* moved to the other array, bucket by bucket; idx is the next bucket.     *)
Bucket(f, b) == Flip(f, f.bkt[b], f.bkt[b + 1] - f.bkt[b])

(* The depth in which a bucket's strings are sorted on. *)
BucketDepth(f, b) ==
  f.depth + (IF b % 2 = 0 THEN SplitterLcpIn(f.splitter, b \div 2) ELSE KeyWidth)

EqualAndDone(f, b) == b % 2 = 1 /\ Terminated(f.splitter[b \div 2])

(* classify(): the bucket of every key. *)
Classified(splitter, keys) == [k \in DOMAIN keys |-> BucketIn(splitter, keys[k])]

(* Where the buckets begin, from their sizes. *)
BucketStarts(id) == [b \in 0 .. BktNum |-> Cardinality({k \in DOMAIN id : id[k] < b})]

(* The buckets are filled from their ends, the first string first. *)
Distributed(strings, id, bkt) ==
  LET place == [k \in DOMAIN id |->
                  bkt[id[k] + 1] - Cardinality({j \in 1 .. k - 1 : id[j] = id[k]})]
  IN  [q \in DOMAIN id |-> strings[CHOOSE k \in DOMAIN id : place[k] = q]]

(* Its constructor: any sorted choice of the keys may be the splitters.    *)
PushSample(stack, sec, depth) ==
  LET strings == Content(arr, sec)
      keys == [k \in 1 .. sec.n |-> KeyAt(strings[k], depth)]
  IN  \E splitter \in [0 .. NumSplitters - 1 -> Range(keys)] :
        LET id == Classified(splitter, keys)
            bkt == BucketStarts(id)
        IN  /\ \A i, j \in DOMAIN splitter : i < j => splitter[i] <= splitter[j]
            /\ arr' = [arr EXCEPT
                 ![sec.flip] = Put(@, sec.lo, [k \in 1 .. sec.n |-> Moved]),
                 ![~sec.flip] = Put(@, sec.lo, Distributed(strings, id, bkt))]
            /\ ss' = Append(stack, [lo |-> sec.lo, n |-> sec.n, flip |-> sec.flip,
                                    depth |-> depth, splitter |-> splitter,
                                    bkt |-> bkt, idx |-> 0])

(* sample_sort_lcp: at the start of a bucket, from the keys on both sides; *)
(* an equal bucket has its splitter for a key.  The sorter arrays w are    *)
(* the LCPs and the characters.                                            *)
SampleLcp(f, w) ==
  LET bucketAt(i) == CHOOSE b \in 0 .. BktNum - 1 : i \in Positions(Bucket(f, b))
      keyAt(i) == IF bucketAt(i) % 2 = 1 THEN f.splitter[bucketAt(i) \div 2]
                  ELSE KeyAt(Output(class, arr)[i], f.depth)
      starts == {i \in Positions(f) \ {f.lo} : bucketAt(i) # bucketAt(i - 1)}
      rlcp(i) == KeyLcp(keyAt(i - 1), keyAt(i))
  IN  [lcp |-> SetLcp(class, w.lcp, [i \in starts |-> f.depth + rlcp(i)]),
       chars |-> SetCache(class, w.chars, [i \in starts |-> CharAt(keyAt(i), rlcp(i))])]

-----------------------------------------------------------------------------
(* An MKQSStep: a section partitioned by its pivot; idx is the number of   *)
(* parts that have been begun, 4 when the frame is about to go.            *)
PartSection(f, p) ==
  CASE p = 1 -> Sub(f, 0, f.lt)
    [] p = 2 -> Sub(f, f.lt, f.eq)
    [] p = 3 -> Sub(f, f.lt + f.eq, f.gt)

PartDepth(f, p) == IF p = 2 THEN f.depth + KeyWidth ELSE f.depth

(* ~eq_recurse: the pivot holds a terminator. *)
PivotDone(f, p) == p = 2 /\ Terminated(f.pivot)

(* Its constructor: keys that are not cached are read first. *)
PushQuick(stack, sec, depth, dirty) ==
  LET string(k) == Active(arr, sec)[sec.lo + k]
      items == [k \in 0 .. sec.n - 1 |->
                  [string |-> string(k),
                   key |-> IF dirty THEN KeyAt(string(k), depth) ELSE cache[sec.lo + k]]]
  IN  \E p \in Partitions(items, sec.n) :
        /\ arr' = [arr EXCEPT ![sec.flip] =
                     Put(@, sec.lo, [k \in 1 .. sec.n |-> p.items[k - 1].string])]
        /\ cache' = Put(cache, sec.lo, [k \in 1 .. sec.n |-> p.items[k - 1].key])
        /\ ms' = Append(stack,
             [lo |-> sec.lo, n |-> sec.n, flip |-> sec.flip, depth |-> depth,
              lt |-> p.lt, eq |-> p.eq, gt |-> p.gt, pivot |-> p.pivot, lcpLt |-> p.lcpLt,
              lcpGt |-> p.lcpGt, charGt |-> p.charGt, idx |-> 0])

(* calculate_lcp of the quicksort frame, by what the partition found out.  *)
QuickLcp(f, w) ==
  LET starts == {k \in {2, 3} : IF k = 2 THEN f.lt > 0 ELSE f.gt > 0}
      lcpAt == [i \in {PartSection(f, k).lo : k \in starts} |->
                  IF i = f.lo + f.lt THEN f.lcpLt ELSE f.lcpGt]
  IN  [lcp |-> SetLcp(class, w.lcp, [i \in DOMAIN lcpAt |-> f.depth + lcpAt[i]]),
       chars |-> SetCache(class, w.chars,
                          [i \in DOMAIN lcpAt |->
                             IF i = f.lo + f.lt THEN CharAt(f.pivot, f.lcpLt) ELSE f.charGt])]

(* The LCPs of frames that are done, in their order. *)
Write(frameLcp(_, _), w, frames) == FoldLeft(LAMBDA x, f : frameLcp(f, x), w, frames)
LcpsBecome(w) == lcp' = w.lcp /\ chars' = w.chars
Lcps == [lcp |-> lcp, chars |-> chars]

-----------------------------------------------------------------------------
Init ==
  /\ input \in Inputs
  /\ arr = [side \in BOOLEAN |->
              [i \in Index |-> IF side = input.flip THEN input.strings[i + 1] ELSE Moved]]
  /\ lcp = [i \in Index |-> Untouched]
  /\ chars = [i \in Index |-> Untouched]
  /\ cache = [i \in Index |-> 0] /\ room = 0
  /\ ss = <<>> /\ ssFront = 0 /\ ms = <<>> /\ msFront = 0
  /\ subs = {} /\ substeps = 0 /\ pc = "start" /\ told = 0

-----------------------------------------------------------------------------
(* sort_mkqs_cache: a small section is sorted at once, for a larger one    *)
(* the cache is grown if need be and the loop "ms" is entered.             *)
SortMkqs(sec, depth, return) ==
  \/ /\ sec.n < InsThreshold
     /\ SortSection(sec, depth)
     /\ pc' = return
     /\ UNCHANGED <<room, ms>>
  \/ /\ sec.n >= InsThreshold
     /\ room' = Max({room, KeyCells * sec.n})
     /\ PushQuick(ms, sec, depth, TRUE)
     /\ pc' = "ms"
     /\ UNCHANGED written

(* run(): the handle of the job itself is taken first.                     *)
Start ==
  LET whole == Section(0, Len(input.strings), input.flip)
  IN  /\ pc = "start"
      /\ substeps' = substeps + 1
      /\ \/ /\ whole.n >= SmallThreshold
            /\ room' = whole.n
            /\ PushSample(ss, whole, 0)
            /\ pc' = "ss"
            /\ UNCHANGED <<written, cache, ms>>
         \/ /\ whole.n < SmallThreshold
            /\ SortMkqs(whole, 0, "finish")
            /\ UNCHANGED ss
      /\ UNCHANGED <<input, ssFront, msFront, subs, told>>

-----------------------------------------------------------------------------
(* The loop of sort_sample_sort: the next bucket of the topmost frame.     *)
AtBucket == pc = "ss" /\ Len(ss) > ssFront /\ Last(ss).idx < BktNum
NextSection == Bucket(Last(ss), Last(ss).idx)
NextDepth == BucketDepth(Last(ss), Last(ss).idx)
NextDone == EqualAndDone(Last(ss), Last(ss).idx)
Advanced(stack) == [stack EXCEPT ![Len(stack)].idx = @ + 1]

SkipBucket ==
  /\ AtBucket /\ NextSection.n = 0
  /\ ss' = Advanced(ss) /\ pc' = "ssAsk"
  /\ UNCHANGED <<input, content, caches, ssFront, quick, jobs, told>>

EqualBucket ==
  /\ AtBucket /\ NextSection.n > 0 /\ NextDone
  /\ EqualDone(NextSection,
               Last(ss).depth + KeyDepth(Last(ss).splitter[Last(ss).idx \div 2]))
  /\ ss' = Advanced(ss) /\ pc' = "ssAsk"
  /\ UNCHANGED <<input, caches, ssFront, quick, jobs, told>>

SmallBucket ==
  /\ AtBucket /\ NextSection.n \in 1 .. SmallThreshold - 1 /\ ~NextDone
  /\ SortMkqs(NextSection, NextDepth, "ssAsk")
  /\ ss' = Advanced(ss)
  /\ UNCHANGED <<input, ssFront, msFront, jobs, told>>

LargeBucket ==
  /\ AtBucket /\ NextSection.n >= SmallThreshold /\ ~NextDone
  /\ PushSample(Advanced(ss), NextSection, NextDepth)
  /\ pc' = "ssAsk"
  /\ UNCHANGED <<input, written, caches, ssFront, quick, jobs, told>>

(* All buckets are sorted: the LCPs between them, then the frame goes. *)
PopSample ==
  /\ pc = "ss" /\ Len(ss) > ssFront /\ Last(ss).idx = BktNum
  /\ LcpsBecome(SampleLcp(Last(ss), Lcps))
  /\ ss' = Front(ss) /\ pc' = "ssAsk"
  /\ UNCHANGED <<input, arr, caches, ssFront, quick, jobs, told>>

SampleEnds ==
  /\ pc = "ss" /\ Len(ss) = ssFront
  /\ pc' = "finish"
  /\ UNCHANGED <<input, content, caches, sample, quick, jobs, told>>

-----------------------------------------------------------------------------
(* The loop of sort_mkqs_cache: the next part of the topmost frame.        *)
AtPart == pc = "ms" /\ Len(ms) > msFront /\ Last(ms).idx < 3
Part == Last(ms).idx + 1
ThisSection == PartSection(Last(ms), Part)
ThisDepth == PartDepth(Last(ms), Part)
ThisDone == PivotDone(Last(ms), Part)

SkipPart ==
  /\ AtPart /\ ThisSection.n = 0
  /\ ms' = Advanced(ms) /\ pc' = "msAsk"
  /\ UNCHANGED <<input, content, caches, sample, msFront, jobs, told>>

EqualPart ==
  /\ AtPart /\ ThisDone
  /\ EqualDone(ThisSection, Last(ms).depth + KeyDepth(Last(ms).pivot))
  /\ ms' = Advanced(ms) /\ pc' = "msAsk"
  /\ UNCHANGED <<input, caches, sample, msFront, jobs, told>>

(* insertion_sort_cache, by the strings in the equal part, by the cached   *)
(* keys in the others.                                                     *)
SmallPart ==
  /\ AtPart /\ ThisSection.n \in 1 .. InsThreshold - 1 /\ ~ThisDone
  /\ \/ Part = 2 /\ SortSection(ThisSection, ThisDepth)
     \/ Part # 2 /\ SortCachedSection(ThisSection, ThisDepth)
  /\ ms' = Advanced(ms) /\ pc' = "msAsk"
  /\ UNCHANGED <<input, room, sample, msFront, jobs, told>>

(* Mistake: the keys are taken to be cached below the equal part too. *)
LargePartClean ==
  /\ AtPart /\ ThisSection.n >= InsThreshold /\ ~ThisDone
  /\ PushQuick(Advanced(ms), ThisSection, ThisDepth, FALSE)
  /\ pc' = "msAsk"
  /\ UNCHANGED <<input, written, room, sample, msFront, jobs, told>>

(* A new frame; the cache is dirty below the equal part only, where the    *)
(* keys are the next ones.                                                 *)
LargePart ==
  /\ AtPart /\ ThisSection.n >= InsThreshold /\ ~ThisDone
  /\ PushQuick(Advanced(ms), ThisSection, ThisDepth, Part = 2)
  /\ pc' = "msAsk"
  /\ UNCHANGED <<input, written, room, sample, msFront, jobs, told>>

PopQuick ==
  /\ pc = "ms" /\ Len(ms) > msFront /\ Last(ms).idx = 3
  /\ LcpsBecome(QuickLcp(Last(ms), Lcps))
  /\ ms' = Front(ms) /\ pc' = "msAsk"
  /\ UNCHANGED <<input, arr, caches, sample, msFront, jobs, told>>

(* sort_mkqs_cache returns to the other loop, or to run(). *)
QuickEnds ==
  /\ pc = "ms" /\ Len(ms) = msFront
  /\ pc' = IF Len(input.strings) >= SmallThreshold THEN "ssAsk" ELSE "finish"
  /\ UNCHANGED <<input, content, caches, sample, quick, jobs, told>>

-----------------------------------------------------------------------------
(* jobqueue.has_idle() is asked after every iteration.                     *)
GoOn == pc' = IF pc = "ssAsk" THEN "ss" ELSE "ms"

NobodyIdle ==
  /\ pc \in {"ssAsk", "msAsk"} /\ GoOn
  /\ UNCHANGED <<input, content, caches, sample, quick, jobs, told>>

(* Mistake: one substep_add() for a whole frame. *)
GiveCountsOne(given) ==
  /\ subs' = subs \union given
  /\ substeps' = substeps + 1

(* Sections that are given away, each with a substep_add() and an          *)
(* Enqueue(), and those of equal strings, which are done on the spot.      *)
Give(given) ==
  /\ subs' = subs \union given
  /\ substeps' = substeps + Cardinality(given)

FinishEqual(done) ==
  LET becomes(w, d) ==
        [arr |-> CopyBack(class, w.arr, d.sec), lcp |-> FillLcp(class, w.lcp, d.sec, d.lcp),
         chars |-> FillCache(class, w.chars, d.sec)]
      w == FoldSet(LAMBDA d, x : becomes(x, d), [arr |-> arr, lcp |-> lcp, chars |-> chars], done)
  IN  arr' = w.arr /\ LcpsBecome(w)

(* sample_sort_free_work: the rest of the bottom frame of the sample sort. *)
FreeSample ==
  LET f == ss[ssFront + 1]
      rest == {b \in f.idx .. BktNum - 1 : Bucket(f, b).n > 0}
  IN  /\ pc \in {"ssAsk", "msAsk"} /\ GoOn
      /\ Len(ss) > ssFront
      /\ Give({[sec |-> Bucket(f, b), depth |-> BucketDepth(f, b)] :
                 b \in {c \in rest : ~EqualAndDone(f, c)}})
      /\ FinishEqual({[sec |-> Bucket(f, b),
                       lcp |-> f.depth + KeyDepth(f.splitter[b \div 2])] :
                        b \in {c \in rest : EqualAndDone(f, c)}})
      /\ ss' = [ss EXCEPT ![ssFront + 1].idx = BktNum]
      /\ ssFront' = ssFront + 1
      /\ UNCHANGED <<input, caches, quick, told>>

(* Mistake: the part in progress is given away as well. *)
FreeQuickRepeats ==
  LET batch == msFront + 1 .. Min({msFront + FreeBatch, Len(ms)})
      rest == {x \in batch \X (1 .. 3) :
                 x[2] >= ms[x[1]].idx /\ PartSection(ms[x[1]], x[2]).n > 0}
      isDone(x) == PivotDone(ms[x[1]], x[2])
  IN  /\ pc \in {"ssAsk", "msAsk"} /\ GoOn
      /\ Len(ss) = ssFront
      /\ Give({[sec |-> PartSection(ms[x[1]], x[2]), depth |-> PartDepth(ms[x[1]], x[2])] :
                 x \in {y \in rest : ~isDone(y)}})
      /\ FinishEqual({[sec |-> PartSection(ms[x[1]], x[2]),
                       lcp |-> ms[x[1]].depth + KeyDepth(ms[x[1]].pivot)] :
                        x \in {y \in rest : isDone(y)}})
      /\ msFront' = msFront + Cardinality(batch)
      /\ UNCHANGED <<input, caches, sample, ms, told>>

(* mkqs_free_work: when no frame of the sample sort is left, a batch of    *)
(* frames of the quicksort, what is left of each.                          *)
FreeQuick ==
  LET batch == msFront + 1 .. Min({msFront + FreeBatch, Len(ms)})
      rest == {x \in batch \X (1 .. 3) :
                 x[2] > ms[x[1]].idx /\ PartSection(ms[x[1]], x[2]).n > 0}
      isDone(x) == PivotDone(ms[x[1]], x[2])
  IN  /\ pc \in {"ssAsk", "msAsk"} /\ GoOn
      /\ Len(ss) = ssFront
      /\ Give({[sec |-> PartSection(ms[x[1]], x[2]), depth |-> PartDepth(ms[x[1]], x[2])] :
                 x \in {y \in rest : ~isDone(y)}})
      /\ FinishEqual({[sec |-> PartSection(ms[x[1]], x[2]),
                       lcp |-> ms[x[1]].depth + KeyDepth(ms[x[1]].pivot)] :
                        x \in {y \in rest : isDone(y)}})
      /\ msFront' = msFront + Cardinality(batch)
      /\ UNCHANGED <<input, caches, sample, ms, told>>

-----------------------------------------------------------------------------
(* Mistake: the handle is not given back. *)
FinishKeepsHandle ==
  /\ pc = "finish"
  /\ room' = 0 /\ pc' = "returned"
  /\ UNCHANGED <<input, content, cache, sample, quick, jobs, told>>

(* The end of run(): the cache is deleted and the handle given back.       *)
Finish ==
  /\ pc = "finish"
  /\ room' = 0
  /\ substeps' = substeps - 1
  /\ pc' = IF substeps = 1 THEN "alldone" ELSE "returned"
  /\ UNCHANGED <<input, content, cache, sample, quick, subs, told>>

(* A job that was given away sorts its section into the original array,    *)
(* from the depth it was given, writes the LCPs inside and notifies.       *)
SubstepDone(c) ==
  /\ c \in subs
  /\ SortElsewhere(c.sec, c.depth)
  /\ subs' = subs \ {c}
  /\ substeps' = substeps - 1
  /\ pc' = IF substeps = 1 THEN "alldone" ELSE pc
  /\ UNCHANGED <<input, caches, sample, quick, told>>

(* Mistake: only the quicksort frames are remembered. *)
AllDoneForgetsSample ==
  LET passed(stack, front) == Reverse(SubSeq(stack, 1, front))
  IN  /\ pc = "alldone"
      /\ LcpsBecome(Write(QuickLcp, Lcps, passed(ms, msFront)))
      /\ ss' = <<>> /\ ssFront' = 0 /\ ms' = <<>> /\ msFront' = 0
      /\ told' = told + 1
      /\ pc' = "deleted"
      /\ UNCHANGED <<input, arr, caches, jobs>>

(* substep_all_done(): the LCPs of all frames passed over, the topmost     *)
(* first, then the parent's notification and delete this, stacks and all.  *)
AllDone ==
  LET passed(stack, front) == Reverse(SubSeq(stack, 1, front))
  IN  /\ pc = "alldone"
      /\ LcpsBecome(Write(SampleLcp, Write(QuickLcp, Lcps, passed(ms, msFront)),
                          passed(ss, ssFront)))
      /\ ss' = <<>> /\ ssFront' = 0 /\ ms' = <<>> /\ msFront' = 0
      /\ told' = told + 1
      /\ pc' = "deleted"
      /\ UNCHANGED <<input, arr, caches, jobs>>

-----------------------------------------------------------------------------
Run == \/ Start \/ Finish
       \/ SkipBucket \/ EqualBucket \/ SmallBucket \/ LargeBucket \/ PopSample \/ SampleEnds
       \/ SkipPart \/ EqualPart \/ SmallPart \/ LargePart \/ PopQuick \/ QuickEnds
       \/ NobodyIdle \/ FreeSample \/ FreeQuick

(* No thread is in this job or in one it created. *)
AllIdle == pc \in {"returned", "deleted"} /\ subs = {}

Next == Run \/ (\E c \in subs : SubstepDone(c)) \/ AllDone
          \/ (AllIdle /\ UNCHANGED vars)

Spec == Init /\ [][Next]_vars

(* The thread of the job goes on, and the queue runs every job: weak       *)
(* fairness of Run, of SubstepDone and of AllDone, each with its ENABLED   *)
(* written out, which TLC could evaluate only very slowly: by its place    *)
(* alone the job has an action, whatever that does to the strings, and so  *)
(* has a job it created.                                                   *)
Running == pc \in {"start", "ss", "ssAsk", "ms", "msAsk", "finish"}

FairSpec == /\ Spec
            /\ []<><<Run>>_vars \/ []<>~Running
            /\ []<><<\E c \in subs : SubstepDone(c)>>_vars \/ []<>(subs = {})
            /\ []<><<AllDone>>_vars \/ []<>(pc # "alldone")

-----------------------------------------------------------------------------
Frame == [lo : Nat, n : Nat, flip : BOOLEAN, depth : Nat]

(* The arrays, frames and locals hold what they may. *)
TypeOK ==
  LET String == Range(input.strings)
      Base(f) == [lo |-> f.lo, n |-> f.n, flip |-> f.flip, depth |-> f.depth]
  IN  /\ input \in Inputs
      /\ arr \in [BOOLEAN -> [Index -> String \union {Moved}]]
      /\ lcp \in [Index -> Nat \union {Untouched}]
      /\ chars \in [Index -> 0 .. NumChars - 1 \union {Untouched}]
      /\ cache \in [Index -> Keys] /\ room \in Nat
      /\ \A k \in DOMAIN ss :
           /\ Base(ss[k]) \in Frame /\ ss[k].idx \in 0 .. BktNum
           /\ ss[k].splitter \in [0 .. NumSplitters - 1 -> Keys]
           /\ ss[k].bkt \in [0 .. BktNum -> 0 .. ss[k].n]
      /\ \A k \in DOMAIN ms :
           /\ Base(ms[k]) \in Frame /\ ms[k].idx \in 0 .. 3
           /\ ms[k].pivot \in Keys /\ ms[k].eq > 0
           /\ ms[k].lt + ms[k].eq + ms[k].gt = ms[k].n
      /\ ssFront \in 0 .. Len(ss) /\ msFront \in 0 .. Len(ms)
      /\ \A c \in subs : c.sec.flip \in BOOLEAN /\ Positions(c.sec) \subseteq Index
      /\ substeps \in Nat /\ told \in Nat
      /\ pc \in {"start", "ss", "ssAsk", "ms", "msAsk", "finish", "returned",
                 "alldone", "deleted"}

Sorted == SortedFrom(0, input.strings)

(* When the parent is notified the output array is sorted, every LCP but   *)
(* the first is that of its string and the one before, and the character   *)
(* behind it is the one that tells them apart; the entries of the first    *)
(* string, and arrays that were not asked for, are as the caller left them.*)
SortedWhenTold ==
  LET out == Output(class, arr)
      sorted == Sorted
      wrote(i, f, v) == f[i] = IF i > 0 THEN v ELSE Untouched
  IN  told > 0 =>
        \A i \in Index :
          /\ out[i] = sorted[i + 1]
          /\ IF class.lcp THEN wrote(i, lcp, LcpFrom(0, out[i - 1], out[i]))
                          ELSE lcp[i] = Untouched
          /\ IF class.cache THEN wrote(i, chars, GetChar(out[i], lcp[i]))
                            ELSE chars[i] = Untouched

(* What a caller gets who asked for everything, and puts the first entries *)
(* in place as parallel_sample_sort_numa() does: the LCPs and characters   *)
(* verify and the characters are those that calculateCache() would read;   *)
(* and whatever has been taken off the front, the rest verifies by its own *)
(* first LCP, and a binary search by LCPs finds the place of any string in *)
(* it and in its first half.                                               *)
OutputSearchable ==
  LET seq(f) == [k \in 1 .. Len(input.strings) |-> f[k - 1]]
      output == LcpCacheStringPtr(seq(Output(class, arr)), seq(lcp), seq(chars))
      whole == SetFirst(output, output.strings[1], 0)
      size == Len(input.strings)
      rest[taken \in 0 .. size - 1] == IF taken = 0 THEN whole ELSE Increment(rest[taken - 1])
      Places(ptr) == \A s \in Searched :
        BinarySearch(ptr, s)
          = Cardinality({k \in DOMAIN ptr.strings : LessFrom(0, ptr.strings[k], s)})
  IN  told > 0 /\ class.cache =>
        /\ VerifyLcpCache(whole, 0)
        /\ CalculateCache(whole) = whole
        /\ \A taken \in 0 .. size - 1 :
             /\ VerifyLcp(SubNoCache(whole, taken, size - taken), rest[taken].lcps[1])
             /\ Places(rest[taken])
             /\ Places(SubArray(rest[taken], 0, (size - taken + 1) \div 2))

(* No entry of the LCP array is written twice, by whatever frame, job or   *)
(* last action, the first never; and as set_lcp asserts, an entry is right *)
(* when it is written: the strings on both sides are in place already.     *)
LcpOnce ==
  [][\A i \in Index : lcp'[i] # lcp[i] =>
       /\ lcp[i] = Untouched /\ i > 0
       /\ lcp'[i] = LcpFrom(0, arr'[class.out][i - 1], arr'[class.out][i])]_vars

(* What the job has still to do: the sections of its live frames that no   *)
(* frame above them has begun, those of the jobs it created, and before it *)
(* starts everything.                                                      *)
SampleRest ==
  {x \in (ssFront + 1 .. Len(ss)) \X (0 .. BktNum - 1) : x[2] >= ss[x[1]].idx}
QuickRest ==
  {x \in (msFront + 1 .. Len(ms)) \X (1 .. 3) : x[2] > ms[x[1]].idx}
Pending ==
  {<<"ss", x, Bucket(ss[x[1]], x[2])>> : x \in SampleRest}
    \union {<<"ms", x, PartSection(ms[x[1]], x[2])>> : x \in QuickRest}
    \union {<<"job", c, c.sec>> : c \in subs}

(* Every position belongs to one of them, and its string is in that one's  *)
(* array, or to none and then it holds its final string: nothing given     *)
(* away is sorted again by the job, and nothing is forgotten.              *)
OwnedOnce ==
  pc # "start" =>
    LET sorted == Sorted
        pending == Pending
    IN  \A i \in Index :
      LET owners == {x \in pending : i \in Positions(x[3])}
      IN  \/ owners = {} /\ Output(class, arr)[i] = sorted[i + 1]
          \/ \E x \in owners : owners = {x} /\ Active(arr, x[3])[i] # Moved

(* m_substep_working counts the jobs created and the job itself until it   *)
(* returns, so that it is deleted after all of them, and once.             *)
HandlesExact ==
  LET running == {"ss", "ssAsk", "ms", "msAsk", "finish"}
  IN  /\ substeps = Cardinality(subs) + (IF pc \in running THEN 1 ELSE 0)
      /\ pc \in {"alldone", "deleted"} <=> substeps = 0 /\ pc # "start"

(* What the frames hold of the strings they have not begun is true: their  *)
(* depth is a prefix that all of them share and none ends within, the      *)
(* cached keys are theirs, and the caches are large enough.  Quicksort     *)
(* frames are passed over only when the sample sort has none left to do,   *)
(* so that assert(ms_pop_front == 0) and assert(ms_stack.size() == 0) hold *)
(* where its next bucket is sorted.                                        *)
FramesSound ==
  LET Shared(sec, depth) ==
        LET first == arr[sec.flip][sec.lo]
        IN  \A i \in Positions(sec) :
              /\ LcpFrom(0, first, arr[sec.flip][i]) >= depth
              /\ Len(arr[sec.flip][i]) >= depth
  IN  /\ \A x \in SampleRest :
           /\ ~EqualAndDone(ss[x[1]], x[2])
                => Shared(Bucket(ss[x[1]], x[2]), BucketDepth(ss[x[1]], x[2]))
           /\ pc # "start" => Bucket(ss[x[1]], x[2]).n <= room
      /\ \A x \in QuickRest :
           LET f == ms[x[1]]
               sec == PartSection(f, x[2])
           IN  /\ ~PivotDone(f, x[2]) => Shared(sec, PartDepth(f, x[2]))
               /\ \A i \in Positions(sec) : cache[i] = KeyAt(arr[f.flip][i], f.depth)
               /\ KeyCells * sec.n <= room
      /\ \A c \in subs : Shared(c.sec, c.depth)
      /\ pc = "ss" /\ Len(ss) > ssFront => ms = <<>> /\ msFront = 0

(* The parent is notified once and the job deleted.                        *)
Finishes == <>[](told = 1 /\ pc = "deleted" /\ subs = {})
=============================================================================
