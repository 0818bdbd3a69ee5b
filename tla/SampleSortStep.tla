--------------------------- MODULE SampleSortStep ---------------------------
(***************************************************************************)
(* One parallel SampleSortStep of pS^5 (bingmann-parallel_sample_sort.hpp) *)
(* and the jobs that execute it: a SampleJob draws the splitters, one      *)
(* CountJob per part counts bucket sizes, the last of them turns the       *)
(* counters into positions, one DistributeJob per part moves strings to    *)
(* the shadow array, the last of them creates a substep per bucket, and    *)
(* the last substep to finish writes the LCPs at the bucket boundaries,    *)
(* notifies the parent step and deletes this one.                          *)
(*                                                                         *)
(* Queued jobs are taken in any order by any number of threads, which is   *)
(* what JobQueue provides by way of WorkPool.  An action is the work of a  *)
(* job between two points where another job could notice.                  *)
(***************************************************************************)
EXTENDS StringKeys, StringPtr, FiniteSetsExt, Functions

CONSTANTS
  Inputs,         \* what the step may be called with, see InputAssumption
  MaxProcs,       \* MAXPROCS, the bound on the number of parts
  NumSplitters,
  SmallThreshold, \* g_smallsort_threshold
  Null            \* the pointer of an array that is not allocated

(* The class of the string pointer and whether it is flipped, the keys of  *)
(* its strings at the step's depth, the number of strings that the whole   *)
(* sort has, and the number of its threads.                                *)
ASSUME InputAssumption ==
  /\ Inputs \subseteq [class : PointerClasses, flip : BOOLEAN, keys : Seq(Keys),
                       total : Nat, threads : Nat \ {0}]
  /\ \A i \in Inputs : i.total >= Len(i.keys)

ASSUME SizeAssumption ==
  /\ MaxProcs \in Nat \ {0} /\ NumSplitters \in Nat \ {0} /\ SmallThreshold \in Nat \ {0}

(* Context::sequential_threshold(): a step is enqueued for more strings.   *)
SequentialThreshold(i) == Max({SmallThreshold, i.total \div i.threads})

ASSUME EnqueueAssumption ==
  \A i \in Inputs : Len(i.keys) > SequentialThreshold(i)

BktNum == 2 * NumSplitters + 1

(* The null pointer is no array, and what is left of a moved string none.  *)
ASSUME NullAssumption ==
  /\ Null \notin BOOLEAN
  /\ \A b \in {BktNum - 1, BktNum} : Null \notin [0 .. b -> Int]
  /\ \A i \in Inputs : \A lo, hi \in 0 .. Len(i.keys) : Null \notin [lo .. hi - 1 -> Int]

ASSUME MovedAssumption == Moved \notin Nat \ {0}

VARIABLES
  input,       \* what the step is called with
  arr,         \* the original and the shadow string array
  lcp, chars,  \* the LCP array, the array of characters behind the LCPs
  splitter,    \* the classifier's splitters in order
  bkt, cache,  \* bkt[p] and bktcache[p]; Null when not allocated
  section,     \* the positions handed to each substep
  pwork, substeps,
  alive,       \* FALSE after delete this
  told,        \* how often pstep was notified
  result,      \* the array the caller of the whole sort finds its strings in
  pc, cur      \* location and loop variable of every job

vars == <<input, arr, lcp, chars, splitter, bkt, cache, section, pwork,
          substeps, alive, told, result, pc, cur>>
lcps == <<lcp, chars>>
data == <<arr, lcps>>
heap == <<bkt, cache, section>>
life == <<alive, told, result>>

class == input.class
NumStrings == Len(input.keys)

(* The constructor: number of parts, and size of all of them but the last. *)
Parts == Min({MaxProcs, Max({1, (NumStrings \div SequentialThreshold(input)) * 2})})
PartSize == (NumStrings + Parts - 1) \div Parts

Part == 0 .. Parts - 1
Index == 0 .. NumStrings - 1
Bkt == 0 .. BktNum - 1
Str == 1 .. NumStrings

(* Positions strB to strE of part p, none if the part begins past the end. *)
PartIndex(p) == p * PartSize .. Min({(p + 1) * PartSize, NumStrings}) - 1

Untouched == -1     \* what the caller has in its LCP array and the characters
Beyond == NumChars  \* some character further on than this step's keys go

SampleJob == <<"sample", 0>>
CountJob(p) == <<"count", p>>
DistributeJob(p) == <<"distribute", p>>
Substep(b) == <<"substep", b>>

Job == {SampleJob} \union {CountJob(p) : p \in Part}
         \union {DistributeJob(p) : p \in Part} \union {Substep(b) : b \in Bkt}

(* "wild" is a thread that has read a field of the deleted step and goes   *)
(* on with whatever it found there.                                        *)
Location == {"none", "queued", "spawn", "dec", "prefix", "move", "ddec",
             "recurse", "bucket", "enqueue", "notify", "alldone", "freebkt",
             "done", "wild"}

CalcLcp == class.lcp

active == input.flip       \* the array with the strings
shadow == ~input.flip      \* the array they are distributed to
output == class.out        \* the array they shall be sorted in

(* strptr.flip(bkt[b], bktsize) *)
BktPtr(b) == Flip(Section(0, NumStrings, active), bkt[0][b], bkt[0][b + 1] - bkt[0][b])

-----------------------------------------------------------------------------
KeyOf(s) == IF s = Moved THEN 0 ELSE input.keys[s]

Bucket(k) == BucketIn(splitter, k)
SplitterLcp(i) == SplitterLcpIn(splitter, i)

(* Mistake: a bucket between two splitters that share something starts a   *)
(* character too far.                                                      *)
SubstepDepthBehind(b) ==
  IF b % 2 = 0
  THEN IF SplitterLcp(b \div 2) > 0 THEN SplitterLcp(b \div 2) + 1 ELSE 0
  ELSE KeyWidth

(* The depth each bucket's substep starts from, relative to this step's.   *)
SubstepDepth(b) == IF b % 2 = 0 THEN SplitterLcp(b \div 2) ELSE KeyWidth

(* The equal bucket of a terminated key holds equal strings: sorted. *)
EqualAndDone(b) == b % 2 = 1 /\ Terminated(splitter[b \div 2])

(* The common prefix of two strings, relative to this step's depth; strings *)
(* of one unterminated key share KeyWidth characters at least, and what     *)
(* they share beyond that is computed inside the substep of their bucket.   *)
TrueLcp(s, t) ==
  IF KeyOf(s) # KeyOf(t) THEN KeyLcp(KeyOf(s), KeyOf(t))
  ELSE IF Terminated(KeyOf(s)) THEN KeyDepth(KeyOf(s)) ELSE KeyWidth

(* The character of t behind what it shares with s, the one set_cache gets. *)
Distinguishing(s, t) ==
  IF TrueLcp(s, t) = KeyWidth THEN Beyond ELSE CharAt(KeyOf(t), TrueLcp(s, t))

(* The order of the strings: beyond their keys, strings are numbered in    *)
(* their order.                                                            *)
Before(s, t) == KeyOf(s) < KeyOf(t) \/ (KeyOf(s) = KeyOf(t) /\ s < t)

BktRange(b) == bkt[0][b] .. bkt[0][b + 1] - 1
BktSize(b) == bkt[0][b + 1] - bkt[0][b]

Set(j, to) == pc' = [pc EXCEPT ![j] = to]
At(j, from) == pc[j] = from

-----------------------------------------------------------------------------
(* Every string, counter, array and place is of its kind. *)
TypeOK ==
  /\ input \in Inputs
  /\ arr \in [BOOLEAN -> [Index -> Str \union {Moved}]]
  /\ lcp \in [Index -> {Untouched} \union 0 .. KeyWidth]
  /\ chars \in [Index -> {Untouched} \union 0 .. NumChars]
  /\ splitter = Null \/ splitter \in [0 .. NumSplitters - 1 -> Keys]
  /\ \A p \in Part : bkt[p] = Null \/
       bkt[p] \in [0 .. (IF p = 0 THEN BktNum ELSE BktNum - 1) -> 0 .. NumStrings]
  /\ \A p \in Part : cache[p] = Null \/ cache[p] \in [PartIndex(p) -> Bkt]
  /\ section \in [Bkt -> SUBSET Index]
  /\ pwork \in 0 .. Parts /\ substeps \in 0 .. BktNum + 1
  /\ alive \in BOOLEAN /\ told \in Nat /\ result \in BOOLEAN \union {Null}
  /\ pc \in [Job -> Location] /\ cur \in [Job -> Nat]

(* The constructor has enqueued the SampleJob.  The strings are numbered   *)
(* by their place in the active array, so that the choice of their keys is *)
(* also the choice of the order they come in.                              *)
Init ==
  /\ input \in Inputs
  /\ arr = [side \in BOOLEAN |->
              [i \in Index |-> IF side = active THEN i + 1 ELSE Moved]]
  /\ lcp = [i \in Index |-> Untouched] /\ chars = [i \in Index |-> Untouched]
  /\ splitter = Null
  /\ bkt = [p \in Part |-> Null] /\ cache = [p \in Part |-> Null]
  /\ section = [b \in Bkt |-> {}]
  /\ pwork = 0 /\ substeps = 0 /\ alive = TRUE /\ told = 0 /\ result = Null
  /\ pc = [j \in Job |-> IF j = SampleJob THEN "queued" ELSE "none"]
  /\ cur = [j \in Job |-> 0]

-----------------------------------------------------------------------------
(* sample(): any non-descending choice among the strings' keys may come    *)
(* out of the random sample.                                               *)
Sample ==
  /\ At(SampleJob, "queued") /\ Set(SampleJob, "spawn")
  /\ \E s \in [0 .. NumSplitters - 1 -> {KeyOf(t) : t \in Str}] :
       /\ \A i, k \in DOMAIN s : i < k => s[i] <= s[k]
       /\ splitter' = s
  /\ pwork' = Parts
  /\ UNCHANGED <<input, data, heap, substeps, life, cur>>

(* The loop "for p < parts: enqueue" at the end of sample() and of         *)
(* count_finished().  It reads this->parts before every round.             *)
Spawned(j, p) == IF j = SampleJob THEN CountJob(p) ELSE DistributeJob(p)

SpawnPart(j) ==
  /\ At(j, "spawn") /\ alive /\ cur[j] < Parts
  /\ pc' = [pc EXCEPT ![Spawned(j, cur[j])] = "queued"]
  /\ cur' = [cur EXCEPT ![j] = @ + 1]
  /\ UNCHANGED <<input, data, splitter, heap, pwork, substeps, life>>

SpawnEnds(j) ==
  /\ At(j, "spawn") /\ alive /\ cur[j] = Parts
  /\ Set(j, "done")
  /\ UNCHANGED <<input, data, splitter, heap, pwork, substeps, life, cur>>

(* The step was deleted meanwhile: the memory still holds the old value,   *)
(* or it does not.                                                         *)
SpawnReadsDeleted(j) ==
  /\ At(j, "spawn") /\ ~alive
  /\ \E l \in {"done", "wild"} : Set(j, l)
  /\ UNCHANGED <<input, data, splitter, heap, pwork, substeps, life, cur>>

(* count(): classify and count this part. *)
Count(p) ==
  /\ At(CountJob(p), "queued") /\ Set(CountJob(p), "dec")
  /\ LET ids == [i \in PartIndex(p) |-> Bucket(KeyOf(arr[active][i]))]
     IN  /\ cache' = [cache EXCEPT ![p] = ids]
         /\ bkt' = [bkt EXCEPT ![p] =
              [b \in 0 .. (IF p = 0 THEN BktNum ELSE BktNum - 1) |->
                 Cardinality({i \in PartIndex(p) : ids[i] = b})]]
  /\ UNCHANGED <<input, data, splitter, section, pwork, substeps, life, cur>>

(* if (--pwork == 0) count_finished() *)
CountDone(p) ==
  /\ At(CountJob(p), "dec")
  /\ pwork' = pwork - 1
  /\ Set(CountJob(p), IF pwork = 1 THEN "prefix" ELSE "done")
  /\ UNCHANGED <<input, data, splitter, heap, substeps, life, cur>>

(* Mistake: one end for all parts. *)
PrefixSumShared(b, p) ==
  SumFunctionOnSet([x \in Bkt \X Part |-> bkt[x[2]][x[1]]], (0 .. b) \X Part)

(* count_finished(): inclusive prefix sum, bucket by bucket and within a   *)
(* bucket part by part.                                                    *)
PrefixSum(b, p) ==
  SumFunctionOnSet([x \in Bkt \X Part |-> bkt[x[2]][x[1]]],
                   {x \in (0 .. b) \X Part : x[1] < b \/ x[2] <= p})

(* Mistake: pwork is not set again. *)
CountFinishedKeepsPwork(p) ==
  /\ At(CountJob(p), "prefix") /\ Set(CountJob(p), "spawn")
  /\ bkt' = [q \in Part |->
              [b \in DOMAIN bkt[q] |-> IF b \in Bkt THEN PrefixSum(b, q) ELSE bkt[q][b]]]
  /\ UNCHANGED <<input, data, splitter, cache, section, pwork, substeps, life, cur>>

CountFinished(p) ==
  /\ At(CountJob(p), "prefix") /\ Set(CountJob(p), "spawn")
  /\ bkt' = [q \in Part |->
              [b \in DOMAIN bkt[q] |-> IF b \in Bkt THEN PrefixSum(b, q) ELSE bkt[q][b]]]
  /\ pwork' = Parts
  /\ UNCHANGED <<input, data, splitter, cache, section, substeps, life, cur>>

-----------------------------------------------------------------------------
(* distribute(): move the strings of this part, one after the other, to    *)
(* the places the counters give them.                                      *)
Distribute(p) ==
  /\ At(DistributeJob(p), "queued") /\ Set(DistributeJob(p), "move")
  /\ cur' = [cur EXCEPT ![DistributeJob(p)] = p * PartSize]
  /\ UNCHANGED <<input, data, splitter, heap, pwork, substeps, life>>

MoveString(p) ==
  LET j == DistributeJob(p)
      i == cur[j]
      b == cache[p][i]
      to == bkt[p][b] - 1
  IN  /\ At(j, "move") /\ i \in PartIndex(p)
      /\ bkt' = [bkt EXCEPT ![p][b] = to]
      /\ arr' = [arr EXCEPT ![shadow][to] = arr[active][i], ![active][i] = Moved]
      /\ cur' = [cur EXCEPT ![j] = i + 1]
      /\ UNCHANGED <<input, lcps, splitter, cache, section, pwork, substeps, life, pc>>

(* Free bktcache[p], and bkt[p] unless it is needed for the recursion. *)
FreePart(p) ==
  /\ At(DistributeJob(p), "move") /\ cur[DistributeJob(p)] \notin PartIndex(p)
  /\ Set(DistributeJob(p), "ddec")
  /\ bkt' = IF p # 0 THEN [bkt EXCEPT ![p] = Null] ELSE bkt
  /\ cache' = [cache EXCEPT ![p] = Null]
  /\ UNCHANGED <<input, data, splitter, section, pwork, substeps, life, cur>>

(* if (--pwork == 0) distribute_finished() *)
DistributeDone(p) ==
  /\ At(DistributeJob(p), "ddec")
  /\ pwork' = pwork - 1
  /\ Set(DistributeJob(p), IF pwork = 1 THEN "recurse" ELSE "done")
  /\ UNCHANGED <<input, data, splitter, heap, substeps, life, cur>>

-----------------------------------------------------------------------------
(* Mistake: no handle is taken while substeps are created. *)
DistributeFinishedNoHandle(p) ==
  /\ At(DistributeJob(p), "recurse") /\ Set(DistributeJob(p), "bucket")
  /\ bkt' = [bkt EXCEPT ![0][BktNum] = NumStrings]
  /\ cur' = [cur EXCEPT ![DistributeJob(p)] = 0]
  /\ UNCHANGED <<input, data, splitter, cache, section, pwork, substeps, life>>

(* distribute_finished(): write the sentinel and take the anonymous handle. *)
DistributeFinished(p) ==
  /\ At(DistributeJob(p), "recurse") /\ Set(DistributeJob(p), "bucket")
  /\ bkt' = [bkt EXCEPT ![0][BktNum] = NumStrings]
  /\ substeps' = substeps + 1
  /\ cur' = [cur EXCEPT ![DistributeJob(p)] = 0]
  /\ UNCHANGED <<input, data, splitter, cache, section, pwork, life>>

AtBucket(j) == At(j, "bucket") /\ cur[j] \in Bkt
NextBucket(j) == cur' = [cur EXCEPT ![j] = @ + 1]

SkipBucket(j) ==
  /\ AtBucket(j) /\ BktSize(cur[j]) = 0
  /\ NextBucket(j)
  /\ UNCHANGED <<input, data, splitter, heap, pwork, substeps, life, pc>>

(* One string, or strings equal by a terminated key: flip(..).copy_back(), *)
(* and in the latter case fill_lcp().                                      *)
CopyBackBucket(j) ==
  LET b == cur[j]
      equal == BktSize(b) > 1
  IN  /\ AtBucket(j) /\ BktSize(b) > 0
      /\ BktSize(b) = 1 \/ EqualAndDone(b)
      /\ arr' = CopyBack(class, arr, BktPtr(b))
      /\ lcp' = IF equal THEN FillLcp(class, lcp, BktPtr(b), KeyDepth(splitter[b \div 2]))
                ELSE lcp
      /\ chars' = IF equal THEN FillCache(class, chars, BktPtr(b)) ELSE chars
      /\ NextBucket(j)
      /\ UNCHANGED <<input, splitter, heap, pwork, substeps, life, pc>>

(* substep_add(), then Enqueue(): the new job may run at once. *)
AddSubstep(j) ==
  LET b == cur[j]
  IN  /\ AtBucket(j) /\ BktSize(b) > 1 /\ ~EqualAndDone(b)
      /\ Set(j, "enqueue")
      /\ substeps' = substeps + 1
      /\ UNCHANGED <<input, data, splitter, heap, pwork, life, cur>>

EnqueueSubstep(j) ==
  /\ At(j, "enqueue")
  /\ pc' = [pc EXCEPT ![j] = "bucket", ![Substep(cur[j])] = "queued"]
  /\ section' = [section EXCEPT ![cur[j]] = BktRange(cur[j])]
  /\ NextBucket(j)
  /\ UNCHANGED <<input, data, splitter, bkt, cache, pwork, substeps, life>>

(* Mistake: the handle is not released. *)
EndBucketsKeepsHandle(j) ==
  /\ At(j, "bucket") /\ cur[j] = BktNum
  /\ Set(j, "done")
  /\ UNCHANGED <<input, data, splitter, heap, pwork, substeps, life, cur>>

EndBuckets(j) ==
  /\ At(j, "bucket") /\ cur[j] = BktNum
  /\ Set(j, "notify")
  /\ UNCHANGED <<input, data, splitter, heap, pwork, substeps, life, cur>>

-----------------------------------------------------------------------------
(* A substep, itself a SampleSortStep or a SmallsortJob, seen from here:   *)
(* it leaves its bucket's strings sorted in the output array, wrote the    *)
(* LCPs inside, and has used its section of the other array as it pleased. *)
SubstepSorts(b) ==
  LET S == {arr[shadow][i] : i \in section[b]}
      first == Min(section[b])
      Rank(s) == Cardinality({t \in S : Before(t, s)})
      Sorted == [i \in section[b] |->
                   LET at == {s \in S : Rank(s) = i - first}
                   IN  IF at = {} THEN Moved ELSE CHOOSE s \in at : TRUE]
  IN  /\ At(Substep(b), "queued") /\ Set(Substep(b), "notify")
      /\ arr' = [arr EXCEPT ![output] = Override(@, Sorted),
                            ![~output] = Override(@, [i \in section[b] |-> Moved])]
      /\ lcp' = SetLcp(class, lcp, [i \in section[b] \ {first} |->
                                      TrueLcp(Sorted[i - 1], Sorted[i])])
      /\ chars' = SetCache(class, chars, [i \in section[b] \ {first} |->
                                            Distinguishing(Sorted[i - 1], Sorted[i])])
      /\ UNCHANGED <<input, splitter, heap, pwork, substeps, life, cur>>

(* Mistake: bkt[0] is left to the last substep in either case. *)
AfterNotifyLeaks(j) == "done"

(* Where a job goes after substep_notify_done(): the distributor still has *)
(* bkt[0] to free when no LCPs are wanted.                                 *)
AfterNotify(j) == IF j[1] = "distribute" /\ ~CalcLcp THEN "freebkt" ELSE "done"

(* substep_notify_done(), of a substep or of the anonymous handle. *)
Notify(j) ==
  /\ At(j, "notify")
  /\ substeps' = substeps - 1
  /\ Set(j, IF substeps = 1 THEN "alldone" ELSE AfterNotify(j))
  /\ UNCHANGED <<input, data, splitter, heap, pwork, life, cur>>

(* sample_sort_lcp(): the LCP at the start of every bucket but the first   *)
(* non-empty one, from the bucket's first key and the last key before it;  *)
(* equal buckets have the splitter for their key.                          *)
FirstKey(b) == IF b % 2 = 1 THEN splitter[b \div 2] ELSE KeyOf(arr[output][bkt[0][b]])

LastKey(b) == IF b % 2 = 1 THEN splitter[b \div 2] ELSE KeyOf(arr[output][bkt[0][b + 1] - 1])

Boundary ==
  LET full == {b \in Bkt : BktSize(b) > 0}
      starts == {b \in full : \E c \in full : c < b}
  IN  [i \in {bkt[0][b] : b \in starts} |->
         LET b == CHOOSE b \in starts : bkt[0][b] = i
         IN  [last |-> LastKey(Max({c \in full : c < b})), first |-> FirstKey(b)]]

BoundaryLcp == [i \in DOMAIN Boundary |-> KeyLcp(Boundary[i].last, Boundary[i].first)]

BoundaryChar == [i \in DOMAIN Boundary |-> CharAt(Boundary[i].first, BoundaryLcp[i])]

(* substep_all_done(): LCPs, the parent's notification, delete this. *)
AllDone(j) ==
  /\ At(j, "alldone") /\ Set(j, AfterNotify(j))
  /\ lcp' = IF CalcLcp THEN SetLcp(class, lcp, BoundaryLcp) ELSE lcp
  /\ chars' = IF CalcLcp THEN SetCache(class, chars, BoundaryChar) ELSE chars
  /\ bkt' = IF CalcLcp THEN [bkt EXCEPT ![0] = Null] ELSE bkt
  /\ told' = told + 1
  /\ alive' = FALSE
  /\ UNCHANGED <<input, arr, splitter, cache, section, pwork, substeps, result, cur>>

(* The distributor's delete[] bkt, by the local copy of the pointer. *)
FreeBkt(j) ==
  /\ At(j, "freebkt") /\ Set(j, "done")
  /\ bkt' = [bkt EXCEPT ![0] = Null]
  /\ UNCHANGED <<input, data, splitter, cache, section, pwork, substeps, life, cur>>

-----------------------------------------------------------------------------
AllIdle == \A j \in Job : pc[j] \in {"none", "done", "wild"}

(* "Fixup first entry of LCP and charcache." *)
CompleteFirst ==
  /\ lcp' = [lcp EXCEPT ![0] = 0]
  /\ chars' = [chars EXCEPT ![0] = CharAt(KeyOf(arr[output][0]), 0)]

(* The caller of the whole sort, if this was its first step, behind        *)
(* jobqueue.loop(): the variants with an output array hand that out, or    *)
(* move the strings back; the one with cached characters completes both    *)
(* arrays.                                                                 *)
Return ==
  /\ told > 0 /\ result = Null /\ ~active
  /\ \A j \in Job : pc[j] \in {"none", "done"}
  /\ \/ /\ class # StringShadowLcpOutPtr
        /\ result' = output
        /\ arr' = arr
     \/ /\ class \in {StringShadowOutPtr, StringShadowLcpOutPtr}
        /\ result' = FALSE
        /\ arr' = [side \in BOOLEAN |->
                     IF side THEN [i \in Index |-> Moved] ELSE arr[TRUE]]
  /\ \/ class.cache /\ CompleteFirst
     \/ ~class.cache /\ UNCHANGED lcps
  /\ UNCHANGED <<input, splitter, heap, pwork, substeps, alive, told, pc, cur>>

-----------------------------------------------------------------------------
StepOf(j) ==
  \/ j = SampleJob /\ Sample
  \/ SpawnPart(j) \/ SpawnEnds(j) \/ SpawnReadsDeleted(j)
  \/ \E p \in Part : /\ j = CountJob(p)
                     /\ Count(p) \/ CountDone(p) \/ CountFinished(p)
  \/ \E p \in Part : /\ j = DistributeJob(p)
                     /\ \/ Distribute(p) \/ MoveString(p) \/ FreePart(p)
                        \/ DistributeDone(p) \/ DistributeFinished(p)
  \/ SkipBucket(j) \/ CopyBackBucket(j)
  \/ AddSubstep(j) \/ EnqueueSubstep(j) \/ EndBuckets(j)
  \/ \E b \in Bkt : j = Substep(b) /\ SubstepSorts(b)
  \/ Notify(j) \/ AllDone(j) \/ FreeBkt(j)

Next == (\E j \in Job : StepOf(j)) \/ Return \/ (AllIdle /\ UNCHANGED vars)

Spec == Init /\ [][Next]_vars

(* While there is a job, some job goes on (EveryJobRuns of JobQueue says   *)
(* more, but nothing of the step waits for anything).                      *)
FairSpec == Spec /\ WF_vars(\E j \in Job : StepOf(j))

-----------------------------------------------------------------------------
(* What the parent may rely on when it is notified, and the caller when    *)
(* the sort returns: the output array holds every string once and in       *)
(* order, every LCP but the first was written with the value that the two  *)
(* neighbours really have, and next to it the first character they do not  *)
(* share.  The first entries are the caller's, and verify_lcp_cache() of   *)
(* its arrays would succeed.                                               *)
SortedWhenTold ==
  LET sorted == arr[IF result = Null THEN output ELSE result]
      complete == result # Null /\ class.cache
  IN  told > 0 =>
        /\ {sorted[i] : i \in Index} = Str
        /\ \A i \in Index \ {0} :
             LET s == sorted[i - 1]
                 t == sorted[i]
             IN  /\ KeyOf(s) < KeyOf(t) \/
                      (KeyOf(s) = KeyOf(t) /\ (s < t \/ Terminated(KeyOf(s))))
                 /\ class.lcp => lcp[i] = TrueLcp(s, t)
                 /\ class.cache => chars[i] = Distinguishing(s, t)
        /\ lcp[0] = IF complete THEN 0 ELSE Untouched
        /\ chars[0] = IF complete THEN CharAt(KeyOf(sorted[0]), 0) ELSE Untouched

(* No two moves of concurrent distributors, nor two of one, go to the same *)
(* place of the shadow array.                                              *)
NoOverwrite ==
  [][\A p \in Part, i \in Index :
       At(DistributeJob(p), "move") /\ cur[DistributeJob(p)]' # cur[DistributeJob(p)]
         /\ arr'[shadow][i] # arr[shadow][i]
       => arr[shadow][i] = Moved]_vars

(* pwork is the number of the phase's jobs that have not yet signed off,   *)
(* those not even enqueued included: so no phase starts early or twice.    *)
PworkExact ==
  LET counting == {p \in Part : pc[CountJob(p)] \in {"none", "queued", "dec"}}
      moving == {p \in Part : pc[DistributeJob(p)] \in {"none", "queued", "move", "ddec"}}
      summed == \E p \in Part : \/ At(CountJob(p), "spawn")
                                \/ ~At(DistributeJob(p), "none")
  IN  pc[SampleJob] # "queued" =>
        pwork = Cardinality(IF summed THEN moving ELSE counting)

(* m_substep_working counts the handle of the distributor and the substeps *)
(* announced and not yet finished; while there are any the step lives, and *)
(* a substep is never created below, or alive without, a living step.      *)
HandlesExact ==
  LET handle == {p \in Part : pc[DistributeJob(p)] \in {"bucket", "enqueue", "notify"}}
      announced == {p \in Part : At(DistributeJob(p), "enqueue")}
      running == {b \in Bkt : pc[Substep(b)] \in {"queued", "notify"}}
  IN  /\ substeps = Cardinality(handle) + Cardinality(announced) + Cardinality(running)
      /\ substeps > 0 => alive
      /\ (\E j \in Job : At(j, "alldone")) => alive /\ substeps = 0

(* No array is used after it was freed, and none is left when all is over. *)
ArraysLive ==
  /\ \A p \in Part : pc[DistributeJob(p)] \in {"queued", "move"} =>
       bkt[p] # Null /\ cache[p] # Null
  /\ \A p \in Part : pc[DistributeJob(p)] \in {"recurse", "bucket", "enqueue", "freebkt"} =>
       bkt[0] # Null
  /\ CalcLcp => \A j \in Job : At(j, "alldone") => bkt[0] # Null
  /\ ~alive /\ AllIdle => \A p \in Part : bkt[p] = Null /\ cache[p] = Null

(* The depth handed to a substep is a prefix that all its strings share,   *)
(* none of which ends within it.                                           *)
SubstepDepthSound ==
  \A b \in Bkt : At(Substep(b), "queued") =>
    \A i, k \in section[b] :
      LET s == KeyOf(arr[shadow][i])
          t == KeyOf(arr[shadow][k])
      IN  KeyLcp(s, t) >= SubstepDepth(b)
          /\ (SubstepDepth(b) = KeyWidth => ~Terminated(s))

(* The step ends: the parent is notified, once, every job has returned and *)
(* no memory is left.                                                      *)
Finishes ==
  <>[](/\ told = 1 /\ ~alive /\ AllIdle
       /\ \A p \in Part : bkt[p] = Null /\ cache[p] = Null)

(* "Number of threads still working" is what pwork is documented to be: a  *)
(* thread still in sample() or count_finished() should keep the step from  *)
(* finishing and being deleted.  It does not.                              *)
DeletedWhenNobodyWorks ==
  ~alive => \A j \in Job : ~At(j, "spawn")
=============================================================================
