------------------------ MODULE SampleSortStepProofs ------------------------
(***************************************************************************)
(* Proofs about SampleSortStep, for every input, number of parts, of       *)
(* splitters and of buckets: who is where in which phase, what the arrays  *)
(* are, that no move overwrites another, and that distribution, copying    *)
(* back, substeps and LCPs at the boundaries together leave the strings    *)
(* sorted, with the right LCPs.                                            *)
(***************************************************************************)
EXTENDS SampleSortStep, StringProofs

Counting == {p \in Part : pc[CountJob(p)] \in {"none", "queued", "dec"}}
Moving == {p \in Part : pc[DistributeJob(p)] \in {"none", "queued", "move", "ddec"}}

(* The distributor that called distribute_finished(), while it is there.   *)
LastPlaces == {"recurse", "bucket", "enqueue", "notify", "alldone", "freebkt"}
Recursing == {p \in Part : pc[DistributeJob(p)] \in LastPlaces}

Handle == {p \in Part : pc[DistributeJob(p)] \in {"bucket", "enqueue", "notify"}}
Announced == {p \in Part : pc[DistributeJob(p)] = "enqueue"}
Running == {b \in Bkt : pc[Substep(b)] \in {"queued", "notify"}}

(* count_finished() is over but for the enqueueing. *)
Summed == \E p \in Part : \/ pc[CountJob(p)] = "spawn"
                          \/ pc[DistributeJob(p)] # "none"

(* The substeps are still to come. *)
Early == Moving # {} \/ \E p \in Part : pc[DistributeJob(p)] = "recurse"

(* The places of each kind of job. *)
Places ==
  /\ input \in Inputs
  /\ pc \in [Job -> Location] /\ cur \in [Job -> Nat]
  /\ pwork \in Int /\ substeps \in Int
  /\ pc[SampleJob] \in {"queued", "spawn", "done", "wild"}
  /\ \A p \in Part :
       /\ pc[CountJob(p)] \in {"none", "queued", "dec", "prefix", "spawn", "done", "wild"}
       /\ pc[DistributeJob(p)] \in {"none", "queued", "move", "ddec", "done"} \union LastPlaces
  /\ \A b \in Bkt : pc[Substep(b)] \in {"none", "queued", "notify", "alldone", "done"}

(* Jobs are created in their order by the loops that enqueue them.         *)
CountsSpawned ==
  /\ pc[SampleJob] = "queued" =>
       cur[SampleJob] = 0 /\ \A p \in Part : pc[CountJob(p)] = "none"
  /\ pc[SampleJob] = "spawn" =>
       /\ cur[SampleJob] \in 0 .. Parts
       /\ \A p \in Part : pc[CountJob(p)] = "none" <=> p >= cur[SampleJob]
  /\ pc[SampleJob] \in {"done", "wild"} => \A p \in Part : pc[CountJob(p)] # "none"

DistributesSpawned ==
  \A q \in Part :
    /\ pc[CountJob(q)] \in {"none", "queued", "dec", "prefix"} => cur[CountJob(q)] = 0
    /\ pc[CountJob(q)] = "spawn" =>
         /\ cur[CountJob(q)] \in 0 .. Parts
         /\ \A p \in Part : pc[DistributeJob(p)] = "none" <=> p >= cur[CountJob(q)]

Spawning == CountsSpawned /\ DistributesSpawned

(* One job ends the counting, and creates all that distribute. *)
Phases ==
  /\ \A p \in Part : pc[CountJob(p)] = "prefix" => Counting = {} /\ ~Summed
  /\ \A p, q \in Part :
       pc[CountJob(p)] \in {"prefix", "spawn"} /\ pc[CountJob(q)] \in {"prefix", "spawn"}
         => p = q
  /\ Summed => Counting = {}
  /\ Summed /\ (\A p \in Part : pc[CountJob(p)] # "spawn") =>
       \A p \in Part : pc[DistributeJob(p)] # "none"
  /\ pc[SampleJob] = "queued" => ~Summed
  /\ ~Summed => \A p \in Part : pc[CountJob(p)] # "wild"

PworkCounts ==
  pc[SampleJob] # "queued" => pwork = Cardinality(IF Summed THEN Moving ELSE Counting)

(* One job ends the distribution. *)
LastAlone ==
  \A p \in Recursing : Moving = {} /\ \A q \in Part : q # p => pc[DistributeJob(q)] = "done"

(* Before the buckets nothing has a handle on the step. *)
EarlyQuiet ==
  Early => alive /\ substeps = 0 /\ \A b \in Bkt : pc[Substep(b)] = "none"

(* Buckets are visited in their order. *)
BucketsAhead ==
  \A p \in Part :
    /\ pc[DistributeJob(p)] \in {"bucket", "enqueue"} =>
         /\ cur[DistributeJob(p)] \in 0 .. BktNum
         /\ \A b \in Bkt : b >= cur[DistributeJob(p)] => pc[Substep(b)] = "none"
    /\ pc[DistributeJob(p)] = "enqueue" => cur[DistributeJob(p)] \in Bkt

HandlesCount ==
  substeps = Cardinality(Handle) + Cardinality(Announced) + Cardinality(Running)

(* One job, the last to hold a handle, deletes the step.                   *)
AliveWhileHeld ==
  /\ substeps > 0 => alive
  /\ \A j \in Job : pc[j] = "alldone" => alive /\ substeps = 0
  /\ \A i, j \in Job : pc[i] = "alldone" /\ pc[j] = "alldone" => i = j

(* The inductive invariant of the control. *)
Control ==
  /\ Places /\ Spawning /\ Phases /\ PworkCounts
  /\ LastAlone /\ EarlyQuiet /\ BucketsAhead /\ HandlesCount /\ AliveWhileHeld

(* The distribution is over, and the last who needs bkt[0] is gone. *)
ArraysGone == Moving = {} /\ IF CalcLcp THEN ~alive ELSE Recursing = {}

(* When the arrays of a part are there. *)
Arrays ==
  /\ \A p \in Part :
       /\ cache[p] = Null <=> \/ pc[CountJob(p)] \in {"none", "queued"}
                              \/ pc[DistributeJob(p)] \notin {"none", "queued", "move"}
       /\ p # 0 => (bkt[p] = Null <=> cache[p] = Null)
       /\ pc[DistributeJob(p)] = "freebkt" => ~CalcLcp
  /\ bkt[0] = Null <=> pc[CountJob(0)] \in {"none", "queued"} \/ ArraysGone

(* What the arrays of a part are. *)
BktDomain(p) == 0 .. (IF p = 0 THEN BktNum ELSE BktNum - 1)

ArrayTypes ==
  /\ pc[SampleJob] # "queued" => DOMAIN splitter = 0 .. NumSplitters - 1
  /\ DOMAIN bkt = Part /\ DOMAIN cache = Part
  /\ \A p \in Part : /\ bkt[p] = Null \/ bkt[p] \in [BktDomain(p) -> Int]
                     /\ cache[p] = Null \/ cache[p] \in [PartIndex(p) -> Bkt]

-----------------------------------------------------------------------------
(* Minimum and maximum of two numbers. *)
LEMMA MinOfTwo ==
  ASSUME NEW a \in Int, NEW b \in Int
  PROVE  Min({a, b}) \in {a, b} /\ Min({a, b}) <= a /\ Min({a, b}) <= b
<1>1. \E x \in {a, b} : \A y \in {a, b} : x <= y
  OBVIOUS
<1> QED BY <1>1 DEF Min

LEMMA MaxOfTwo ==
  ASSUME NEW a \in Int, NEW b \in Int
  PROVE  Max({a, b}) \in {a, b} /\ Max({a, b}) >= a /\ Max({a, b}) >= b
<1>1. \E x \in {a, b} : \A y \in {a, b} : x >= y
  OBVIOUS
<1> QED BY <1>1 DEF Max

(* The sizes of a step: it has strings, parts and buckets. *)
LEMMA Sizes ==
  ASSUME input \in Inputs
  PROVE  /\ NumStrings \in Nat \ {0} /\ Parts \in Nat \ {0} /\ BktNum \in Nat \ {0}
         /\ PartSize \in Nat \ {0} /\ Parts * PartSize >= NumStrings
<1>1. /\ input.keys \in Seq(Keys) /\ input.total \in Nat /\ input.threads \in Nat \ {0}
      /\ NumStrings \in Nat
  BY InputAssumption DEF NumStrings
<1>2. SequentialThreshold(input) \in Nat \ {0}
  <2> DEFINE q == input.total \div input.threads
  <2>1. q \in Nat
    BY <1>1, Quotient
  <2>2. SequentialThreshold(input) = Max({SmallThreshold, q})
    BY DEF SequentialThreshold
  <2> HIDE DEF q
  <2>3. /\ Max({SmallThreshold, q}) \in {SmallThreshold, q}
        /\ Max({SmallThreshold, q}) >= SmallThreshold
    BY <2>1, SizeAssumption, MaxOfTwo
  <2> QED BY <2>1, <2>2, <2>3, SizeAssumption
<1>3. NumStrings > 0
  BY <1>1, <1>2, EnqueueAssumption DEF NumStrings
<1>4. Parts \in Nat \ {0}
  <2> DEFINE n == (NumStrings \div SequentialThreshold(input)) * 2
  <2>1. n \in Nat
    BY <1>1, <1>2, Quotient
  <2> HIDE DEF n
  <2> DEFINE m == Max({1, n})
  <2>2. m \in Nat \ {0}
    BY <2>1, MaxOfTwo
  <2>3. Parts = Min({MaxProcs, m})
    BY DEF Parts, n
  <2> HIDE DEF m
  <2>4. MaxProcs \in Int /\ m \in Int
    BY <2>2, SizeAssumption
  <2>5. Min({MaxProcs, m}) \in {MaxProcs, m}
    BY <2>4, MinOfTwo
  <2> QED BY <2>2, <2>3, <2>5, SizeAssumption
<1>5. PartSize \in Nat /\ Parts * PartSize >= NumStrings
  <2>1. NumStrings + Parts - 1 \in Nat
    BY <1>3, <1>4, <1>1
  <2> DEFINE q == (NumStrings + Parts - 1) \div Parts
  <2>2. q \in Nat /\ NumStrings + Parts - 1 < q * Parts + Parts
    BY <1>4, <2>1, Quotient
  <2> HIDE DEF q
  <2>3. NumStrings <= q * Parts /\ q * Parts = Parts * q
    BY <1>1, <1>4, <2>2
  <2> QED BY <2>2, <2>3 DEF PartSize, q
<1>6. PartSize # 0
  BY <1>1, <1>3, <1>4, <1>5
<1>7. BktNum \in Nat \ {0}
  BY SizeAssumption DEF BktNum
<1> QED BY <1>1, <1>3, <1>4, <1>5, <1>6, <1>7

LEMMA Ranges ==
  ASSUME input \in Inputs
  PROVE  /\ IsFiniteSet(Part) /\ Cardinality(Part) = Parts /\ 0 \in Part /\ Part \subseteq Nat
         /\ IsFiniteSet(Bkt) /\ Bkt \subseteq Nat
         /\ \A k \in Nat : (k \in Part <=> k < Parts) /\ (k \in Bkt <=> k < BktNum)
<1>1. Parts \in Nat \ {0} /\ BktNum \in Nat \ {0}
  BY Sizes
<1>2. IsFiniteSet(0 .. Parts - 1) /\ Cardinality(0 .. Parts - 1) = Parts
  BY <1>1, FS_Interval
<1>3. IsFiniteSet(0 .. BktNum - 1)
  BY <1>1, FS_Interval
<1> QED BY <1>1, <1>2, <1>3 DEF Part, Bkt

(* A job is of one kind, and the job of one part or bucket. *)
LEMMA Jobs ==
  /\ SampleJob \in Job
  /\ \A p \in Part : CountJob(p) \in Job /\ DistributeJob(p) \in Job
  /\ \A b \in Bkt : Substep(b) \in Job
  /\ \A j \in Job : \/ j = SampleJob
                    \/ \E p \in Part : j = CountJob(p)
                    \/ \E p \in Part : j = DistributeJob(p)
                    \/ \E b \in Bkt : j = Substep(b)
  BY DEF Job

LEMMA JobsDiffer ==
  /\ \A p : SampleJob # CountJob(p) /\ SampleJob # DistributeJob(p) /\ SampleJob # Substep(p)
  /\ \A p, q : /\ CountJob(p) # DistributeJob(q) /\ CountJob(p) # Substep(q)
               /\ DistributeJob(p) # Substep(q)
  /\ \A p, q : /\ CountJob(p) = CountJob(q) => p = q
               /\ DistributeJob(p) = DistributeJob(q) => p = q
               /\ Substep(p) = Substep(q) => p = q
  BY DEF SampleJob, CountJob, DistributeJob, Substep

(* What no job of the step changes, or only the first.                     *)
LEMMA StepKeeps ==
  ASSUME NEW j \in Job, StepOf(j)
  PROVE  input' = input /\ result' = result /\ (Sample \/ splitter' = splitter)
<1> DEFINE Keeps == input' = input /\ result' = result /\ (Sample \/ splitter' = splitter)
<1>1. Sample \/ SpawnPart(j) \/ SpawnEnds(j) \/ SpawnReadsDeleted(j) => Keeps
  BY DEF Sample, SpawnPart, SpawnEnds, SpawnReadsDeleted, life
<1>2. ASSUME NEW p \in Part, Count(p) \/ CountDone(p) \/ CountFinished(p) PROVE Keeps
  BY <1>2 DEF Count, CountDone, CountFinished, life
<1>3. ASSUME NEW p \in Part,
             Distribute(p) \/ MoveString(p) \/ FreePart(p) \/ DistributeDone(p)
               \/ DistributeFinished(p)
      PROVE  Keeps
  BY <1>3 DEF Distribute, MoveString, FreePart, DistributeDone, DistributeFinished, life
<1>4. SkipBucket(j) \/ CopyBackBucket(j) \/ AddSubstep(j) \/ EnqueueSubstep(j) => Keeps
  BY DEF SkipBucket, CopyBackBucket, AddSubstep, EnqueueSubstep, life
<1>5. ASSUME NEW b \in Bkt, SubstepSorts(b) PROVE Keeps
  BY <1>5 DEF SubstepSorts, life
<1>6. EndBuckets(j) \/ Notify(j) \/ AllDone(j) \/ FreeBkt(j) => Keeps
  BY DEF EndBuckets, Notify, AllDone, FreeBkt, life
<1> HIDE DEF Keeps
<1>7. Keeps
  BY <1>1, <1>2, <1>3, <1>4, <1>5, <1>6 DEF StepOf
<1> QED BY <1>7 DEF Keeps

(* What the step is called with never changes, nor does what depends on    *)
(* nothing else.                                                           *)
LEMMA Constant ==
  ASSUME [Next]_vars
  PROVE  /\ input' = input /\ Part' = Part /\ Parts' = Parts /\ PartSize' = PartSize
         /\ NumStrings' = NumStrings /\ Index' = Index /\ Job' = Job /\ class' = class
         /\ CalcLcp' = CalcLcp /\ active' = active /\ shadow' = shadow /\ output' = output
         /\ \A p : PartIndex(p)' = PartIndex(p)
<1>1. input' = input
  BY StepKeeps DEF Next, vars, Return
<1> QED
  BY <1>1 DEF Part, Parts, PartSize, NumStrings, Index, Job, class, CalcLcp, active, shadow,
              output, PartIndex

-----------------------------------------------------------------------------
(* What the actions do to the control, the strings and arrays left aside.  *)
Goes(j, from, to) == pc[j] = from /\ pc' = [pc EXCEPT ![j] = to]

Sampled ==
  /\ Goes(SampleJob, "queued", "spawn") /\ pwork' = Parts
  /\ DOMAIN splitter' = 0 .. NumSplitters - 1 /\ UNCHANGED <<cur, substeps, alive>>

Spawns(j) ==
  /\ pc[j] = "spawn" /\ alive /\ cur[j] < Parts
  /\ pc' = [pc EXCEPT ![Spawned(j, cur[j])] = "queued"]
  /\ cur' = [cur EXCEPT ![j] = @ + 1]
  /\ UNCHANGED <<pwork, substeps, alive>>

SpawnOver(j) ==
  /\ alive => cur[j] = Parts
  /\ \E l \in {"done", "wild"} : (alive => l = "done") /\ Goes(j, "spawn", l)
  /\ UNCHANGED <<cur, pwork, substeps, alive>>

Counted(p) ==
  Goes(CountJob(p), "queued", "dec") /\ UNCHANGED <<cur, pwork, substeps, alive>>

SignsOff(j, from, last) ==
  /\ pwork' = pwork - 1 /\ Goes(j, from, IF pwork = 1 THEN last ELSE "done")
  /\ UNCHANGED <<cur, substeps, alive>>

Summing(p) ==
  Goes(CountJob(p), "prefix", "spawn") /\ pwork' = Parts /\ UNCHANGED <<cur, substeps, alive>>

Distributing(p) ==
  /\ \/ Goes(DistributeJob(p), "queued", "move")
     \/ Goes(DistributeJob(p), "move", "move")
     \/ Goes(DistributeJob(p), "move", "ddec")
  /\ \E n \in Nat : cur' = [cur EXCEPT ![DistributeJob(p)] = n]
  /\ UNCHANGED <<pwork, substeps, alive>>

Recurses(p) ==
  /\ Goes(DistributeJob(p), "recurse", "bucket")
  /\ cur' = [cur EXCEPT ![DistributeJob(p)] = 0]
  /\ substeps' = substeps + 1 /\ UNCHANGED <<pwork, alive>>

PassesBucket(p) ==
  /\ pc[DistributeJob(p)] = "bucket" /\ cur[DistributeJob(p)] \in Bkt
  /\ cur' = [cur EXCEPT ![DistributeJob(p)] = @ + 1]
  /\ UNCHANGED <<pc, pwork, substeps, alive>>

Announces(p) ==
  /\ Goes(DistributeJob(p), "bucket", "enqueue") /\ cur[DistributeJob(p)] \in Bkt
  /\ substeps' = substeps + 1 /\ UNCHANGED <<cur, pwork, alive>>

Enqueues(p) ==
  /\ pc[DistributeJob(p)] = "enqueue"
  /\ pc' = [pc EXCEPT ![DistributeJob(p)] = "bucket",
                      ![Substep(cur[DistributeJob(p)])] = "queued"]
  /\ cur' = [cur EXCEPT ![DistributeJob(p)] = @ + 1]
  /\ UNCHANGED <<pwork, substeps, alive>>

BucketsOver(p) ==
  Goes(DistributeJob(p), "bucket", "notify") /\ UNCHANGED <<cur, pwork, substeps, alive>>

Sorts(b) ==
  Goes(Substep(b), "queued", "notify") /\ UNCHANGED <<cur, pwork, substeps, alive>>

Notifies(j) ==
  /\ Goes(j, "notify", IF substeps = 1 THEN "alldone" ELSE AfterNotify(j))
  /\ substeps' = substeps - 1 /\ UNCHANGED <<cur, pwork, alive>>

Deletes(j) ==
  /\ Goes(j, "alldone", AfterNotify(j)) /\ alive' = FALSE
  /\ UNCHANGED <<cur, pwork, substeps>>

Frees(p) ==
  Goes(DistributeJob(p), "freebkt", "done") /\ UNCHANGED <<cur, pwork, substeps, alive>>

CountStep(p) ==
  \/ Spawns(CountJob(p)) \/ SpawnOver(CountJob(p)) \/ Counted(p)
  \/ SignsOff(CountJob(p), "dec", "prefix") \/ Summing(p)

DistributeStep(p) ==
  \/ Distributing(p) \/ SignsOff(DistributeJob(p), "ddec", "recurse") \/ Recurses(p)
  \/ PassesBucket(p) \/ Announces(p) \/ Enqueues(p) \/ BucketsOver(p)
  \/ Notifies(DistributeJob(p)) \/ Deletes(DistributeJob(p)) \/ Frees(p)

SubstepStep(b) == Sorts(b) \/ Notifies(Substep(b)) \/ Deletes(Substep(b))

ControlStep ==
  \/ Sampled \/ Spawns(SampleJob) \/ SpawnOver(SampleJob)
  \/ \E p \in Part : CountStep(p) \/ DistributeStep(p)
  \/ \E b \in Bkt : SubstepStep(b)
  \/ UNCHANGED <<pc, cur, pwork, substeps, alive>>

(* Which jobs are at a place that only some jobs have. *)
LEMMA PlacesOf ==
  ASSUME Places, NEW j \in Job
  PROVE  /\ pc[j] = "spawn" => j = SampleJob \/ \E p \in Part : j = CountJob(p)
         /\ pc[j] \in {"bucket", "enqueue", "freebkt"} => \E p \in Part : j = DistributeJob(p)
         /\ pc[j] \in {"notify", "alldone"} => \/ \E p \in Part : j = DistributeJob(p)
                                               \/ \E b \in Bkt : j = Substep(b)
<1>1. CASE j = SampleJob
  BY <1>1 DEF Places
<1>2. ASSUME NEW p \in Part, j = CountJob(p)
      PROVE  pc[j] \notin {"bucket", "enqueue", "freebkt", "notify", "alldone"}
  BY <1>2 DEF Places
<1>3. ASSUME NEW p \in Part, j = DistributeJob(p) PROVE pc[j] # "spawn"
  BY <1>3 DEF Places, LastPlaces
<1>4. ASSUME NEW b \in Bkt, j = Substep(b)
      PROVE  pc[j] \notin {"spawn", "bucket", "enqueue", "freebkt"}
  BY <1>4 DEF Places
<1> QED BY <1>1, <1>2, <1>3, <1>4, Jobs DEF Places

LEMMA ActionControl ==
  /\ Sample => Sampled
  /\ \A j : /\ SpawnPart(j) => Spawns(j)
            /\ SpawnEnds(j) \/ SpawnReadsDeleted(j) => SpawnOver(j)
            /\ Notify(j) => Notifies(j)
            /\ AllDone(j) => Deletes(j)
  /\ \A p : /\ Count(p) => Counted(p)
            /\ CountDone(p) => SignsOff(CountJob(p), "dec", "prefix")
            /\ CountFinished(p) => Summing(p)
            /\ DistributeDone(p) => SignsOff(DistributeJob(p), "ddec", "recurse")
            /\ DistributeFinished(p) => Recurses(p)
            /\ SkipBucket(DistributeJob(p)) \/ CopyBackBucket(DistributeJob(p))
                 => PassesBucket(p)
            /\ AddSubstep(DistributeJob(p)) => Announces(p)
            /\ EnqueueSubstep(DistributeJob(p)) => Enqueues(p)
            /\ EndBuckets(DistributeJob(p)) => BucketsOver(p)
            /\ FreeBkt(DistributeJob(p)) => Frees(p)
  /\ \A b : SubstepSorts(b) => Sorts(b)
  /\ Return => UNCHANGED <<pc, cur, pwork, substeps, alive>>
<1>1. Sample => Sampled
  BY DEF Sample, Sampled, At, Set, Goes, life
<1>2. \A j : /\ SpawnPart(j) => Spawns(j)
             /\ SpawnEnds(j) => SpawnOver(j)
             /\ SpawnReadsDeleted(j) => SpawnOver(j)
  BY DEF SpawnPart, SpawnEnds, SpawnReadsDeleted, Spawns, SpawnOver, At, Set, Goes, life
<1>3. \A j : Notify(j) => Notifies(j)
  BY DEF Notify, Notifies, At, Set, Goes, life
<1>4. \A j : AllDone(j) => Deletes(j)
  BY DEF AllDone, Deletes, At, Set, Goes
<1>5. \A p : Count(p) => Counted(p)
  BY DEF Count, Counted, At, Set, Goes, life
<1>6. \A p : /\ CountDone(p) => SignsOff(CountJob(p), "dec", "prefix")
             /\ DistributeDone(p) => SignsOff(DistributeJob(p), "ddec", "recurse")
  BY DEF CountDone, DistributeDone, SignsOff, At, Set, Goes, life
<1>7. \A p : CountFinished(p) => Summing(p)
  BY DEF CountFinished, Summing, At, Set, Goes, life
<1>8. \A p : DistributeFinished(p) => Recurses(p)
  BY DEF DistributeFinished, Recurses, At, Set, Goes, life
<1>9. \A p : /\ SkipBucket(DistributeJob(p)) => PassesBucket(p)
             /\ CopyBackBucket(DistributeJob(p)) => PassesBucket(p)
  BY DEF SkipBucket, CopyBackBucket, PassesBucket, AtBucket, NextBucket, At, life
<1>10. \A p : /\ AddSubstep(DistributeJob(p)) => Announces(p)
              /\ EnqueueSubstep(DistributeJob(p)) => Enqueues(p)
  BY DEF AddSubstep, EnqueueSubstep, Announces, Enqueues, AtBucket, NextBucket, At, Set,
         Goes, life
<1>11. \A p : /\ EndBuckets(DistributeJob(p)) => BucketsOver(p)
              /\ FreeBkt(DistributeJob(p)) => Frees(p)
  BY DEF EndBuckets, FreeBkt, BucketsOver, Frees, At, Set, Goes, life
<1>12. \A b : SubstepSorts(b) => Sorts(b)
  BY DEF SubstepSorts, Sorts, At, Set, Goes, life
<1>13. Return => UNCHANGED <<pc, cur, pwork, substeps, alive>>
  BY DEF Return
<1> QED BY <1>1, <1>2, <1>3, <1>4, <1>5, <1>6, <1>7, <1>8, <1>9, <1>10, <1>11, <1>12, <1>13

LEMMA MovesAreDistributing ==
  ASSUME Places, NEW p \in Part, Distribute(p) \/ MoveString(p) \/ FreePart(p)
  PROVE  Distributing(p)
<1>1. pc \in [Job -> Location] /\ cur \in [Job -> Nat] /\ DistributeJob(p) \in Job
  BY Jobs DEF Places
<1>2. p \in Nat /\ PartSize \in Nat
  BY Sizes, Ranges DEF Places
<1>3. CASE Distribute(p)
  <2>1. p * PartSize \in Nat
    BY <1>2
  <2> QED BY <1>3, <2>1 DEF Distribute, Distributing, At, Set, Goes, life
<1>4. CASE MoveString(p)
  <2>1. pc' = [pc EXCEPT ![DistributeJob(p)] = "move"]
    BY <1>1, <1>4 DEF MoveString, At
  <2>2. cur[DistributeJob(p)] + 1 \in Nat
    BY <1>1
  <2> QED BY <1>4, <2>1, <2>2 DEF MoveString, Distributing, At, Goes, life
<1>5. CASE FreePart(p)
  <2>1. cur' = [cur EXCEPT ![DistributeJob(p)] = cur[DistributeJob(p)]]
    BY <1>1, <1>5 DEF FreePart
  <2> QED BY <1>1, <1>5, <2>1 DEF FreePart, Distributing, At, Set, Goes, life
<1> QED BY <1>3, <1>4, <1>5

LEMMA NextControl == Places /\ [Next]_vars => ControlStep
<1> SUFFICES ASSUME Places, [Next]_vars PROVE ControlStep
  OBVIOUS
<1> USE ActionControl
<1>1. ASSUME NEW j \in Job, StepOf(j) PROVE ControlStep
  <2>1. CASE Sample
    BY <2>1 DEF ControlStep
  <2>2. CASE SpawnPart(j) \/ SpawnEnds(j) \/ SpawnReadsDeleted(j)
    <3>1. pc[j] = "spawn"
      BY <2>2 DEF SpawnPart, SpawnEnds, SpawnReadsDeleted, At
    <3> QED BY <2>2, <3>1, PlacesOf DEF ControlStep, CountStep
  <2>3. CASE \E p \in Part : Count(p) \/ CountDone(p) \/ CountFinished(p)
    BY <2>3 DEF ControlStep, CountStep
  <2>4. CASE \E p \in Part : Distribute(p) \/ MoveString(p) \/ FreePart(p)
    BY <2>4, MovesAreDistributing DEF ControlStep, DistributeStep
  <2>5. CASE \E p \in Part : DistributeDone(p) \/ DistributeFinished(p)
    BY <2>5 DEF ControlStep, DistributeStep
  <2>6. CASE \/ SkipBucket(j) \/ CopyBackBucket(j) \/ AddSubstep(j) \/ EnqueueSubstep(j)
             \/ EndBuckets(j) \/ FreeBkt(j)
    <3>1. pc[j] \in {"bucket", "enqueue", "freebkt"}
      BY <2>6 DEF SkipBucket, CopyBackBucket, AddSubstep, EnqueueSubstep, EndBuckets, FreeBkt,
                  AtBucket, At
    <3> QED BY <2>6, <3>1, PlacesOf DEF ControlStep, DistributeStep
  <2>7. CASE \E b \in Bkt : SubstepSorts(b)
    BY <2>7 DEF ControlStep, SubstepStep
  <2>8. CASE Notify(j) \/ AllDone(j)
    <3>1. pc[j] \in {"notify", "alldone"}
      BY <2>8 DEF Notify, AllDone, At
    <3> QED BY <2>8, <3>1, PlacesOf DEF ControlStep, DistributeStep, SubstepStep
  <2> QED
    BY <1>1, <2>1, <2>2, <2>3, <2>4, <2>5, <2>6, <2>7, <2>8 DEF StepOf
<1>2. CASE Return \/ UNCHANGED vars
  BY <1>2 DEF ControlStep, vars, life
<1> QED BY <1>1, <1>2 DEF Next

-----------------------------------------------------------------------------
LEMMA AfterNotifyPlaces ==
  /\ \A p : AfterNotify(DistributeJob(p)) = IF CalcLcp THEN "done" ELSE "freebkt"
  /\ \A b : AfterNotify(Substep(b)) = "done"
  BY DEF AfterNotify, DistributeJob, Substep

LEMMA SpawnedJobs ==
  \A p \in Part : /\ Spawned(SampleJob, p) = CountJob(p)
                  /\ \A q \in Part : Spawned(CountJob(q), p) = DistributeJob(p)
  BY JobsDiffer DEF Spawned

(* What a loop that enqueues creates next. *)
LEMMA SpawnsNext ==
  ASSUME Places, NEW j \in Job, Spawns(j)
  PROVE  cur[j] \in Part /\ cur[j] + 1 \in 0 .. Parts
<1>1. cur[j] \in Nat /\ Parts \in Nat
  BY Sizes DEF Places
<1> QED BY <1>1, Ranges DEF Spawns, Places

LEMMA PlacesStep == Places /\ BucketsAhead /\ [Next]_vars => Places'
<1> SUFFICES ASSUME Places, BucketsAhead, ControlStep, [Next]_vars PROVE Places'
  BY NextControl
<1> USE Constant, Jobs, JobsDiffer, AfterNotifyPlaces
<1>0. Bkt' = Bkt
  BY DEF Bkt
<1> USE <1>0
<1>1. ASSUME Sampled PROVE Places'
  BY <1>1, Sizes DEF Sampled, Goes, Places, Location
<1>2. ASSUME NEW j \in Job, Spawns(j), pc[j] = "spawn" PROVE Places'
  <2>1. cur[j] \in Part /\ cur[j] \in Nat
    BY <1>2, SpawnsNext DEF Places
  <2>2. CASE j = SampleJob
    BY <1>2, <2>1, <2>2, SpawnedJobs DEF Spawns, Places, Location
  <2>3. ASSUME NEW q \in Part, j = CountJob(q) PROVE Places'
    BY <1>2, <2>1, <2>3, SpawnedJobs DEF Spawns, Places, Location
  <2> QED BY <1>2, <2>2, <2>3, PlacesOf
<1>3. ASSUME SpawnOver(SampleJob) PROVE Places'
  BY <1>3 DEF SpawnOver, Goes, Places, Location
<1>4. ASSUME NEW p \in Part, SpawnOver(CountJob(p)) \/ Counted(p) PROVE Places'
  BY <1>4 DEF SpawnOver, Counted, Goes, Places, Location
<1>5. ASSUME NEW p \in Part, SignsOff(CountJob(p), "dec", "prefix") \/ Summing(p) PROVE Places'
  BY <1>5, Sizes DEF SignsOff, Summing, Goes, Places, Location
<1>6. ASSUME NEW p \in Part, Distributing(p) PROVE Places'
  BY <1>6 DEF Distributing, Goes, Places, Location, LastPlaces
<1>7. ASSUME NEW p \in Part, SignsOff(DistributeJob(p), "ddec", "recurse") PROVE Places'
  BY <1>7 DEF SignsOff, Goes, Places, Location, LastPlaces
<1>8. ASSUME NEW p \in Part, Recurses(p) \/ Announces(p) \/ BucketsOver(p) \/ Frees(p)
      PROVE  Places'
  BY <1>8 DEF Recurses, Announces, BucketsOver, Frees, Goes, Places, Location, LastPlaces
<1>9. ASSUME NEW p \in Part, PassesBucket(p) PROVE Places'
  BY <1>9 DEF PassesBucket, Goes, Places, Location, LastPlaces
<1>10. ASSUME NEW p \in Part, Enqueues(p) PROVE Places'
  BY <1>10 DEF Enqueues, Goes, Places, Location, LastPlaces, BucketsAhead
<1>11. ASSUME NEW p \in Part, Notifies(DistributeJob(p)) \/ Deletes(DistributeJob(p))
       PROVE  Places'
  BY <1>11 DEF Notifies, Deletes, Goes, Places, Location, LastPlaces
<1>12. ASSUME NEW b \in Bkt, SubstepStep(b) PROVE Places'
  BY <1>12 DEF SubstepStep, Sorts, Notifies, Deletes, Goes, Places, Location
<1>13. ASSUME UNCHANGED <<pc, cur, pwork, substeps, alive>> PROVE Places'
  BY <1>13 DEF Places
<1> QED
  BY <1>1, <1>2, <1>3, <1>4, <1>5, <1>6, <1>7, <1>8, <1>9, <1>10, <1>11, <1>12, <1>13
     DEF ControlStep, CountStep, DistributeStep, Spawns

-----------------------------------------------------------------------------
(* What the steps of one kind of job leave alone. *)
LEMMA SampleFrame ==
  ASSUME Places, Sampled \/ Spawns(SampleJob) \/ SpawnOver(SampleJob)
  PROVE  /\ \A q \in Part : /\ pc'[DistributeJob(q)] = pc[DistributeJob(q)]
                            /\ cur'[DistributeJob(q)] = cur[DistributeJob(q)]
                            /\ cur'[CountJob(q)] = cur[CountJob(q)]
         /\ \A b \in Bkt : pc'[Substep(b)] = pc[Substep(b)]
         /\ substeps' = substeps /\ alive' = alive
<1> USE Jobs, JobsDiffer
<1>1. CASE Sampled
  BY <1>1 DEF Sampled, Goes, Places
<1>2. CASE Spawns(SampleJob)
  <2>1. cur[SampleJob] \in Part
    BY <1>2, SpawnsNext
  <2>2. Spawned(SampleJob, cur[SampleJob]) = CountJob(cur[SampleJob])
    BY <2>1, SpawnedJobs
  <2> QED BY <1>2, <2>1, <2>2 DEF Spawns, Places
<1>3. CASE SpawnOver(SampleJob)
  BY <1>3 DEF SpawnOver, Goes, Places
<1> QED BY <1>1, <1>2, <1>3

LEMMA CountFrame ==
  ASSUME Places, NEW p \in Part, CountStep(p)
  PROVE  /\ pc'[SampleJob] = pc[SampleJob] /\ cur'[SampleJob] = cur[SampleJob]
         /\ \A q \in Part : /\ q # p => /\ pc'[CountJob(q)] = pc[CountJob(q)]
                                        /\ cur'[CountJob(q)] = cur[CountJob(q)]
                            /\ ~Spawns(CountJob(p)) =>
                                 /\ pc'[DistributeJob(q)] = pc[DistributeJob(q)]
                                 /\ cur'[CountJob(q)] = cur[CountJob(q)]
                            /\ cur'[DistributeJob(q)] = cur[DistributeJob(q)]
         /\ \A b \in Bkt : pc'[Substep(b)] = pc[Substep(b)]
         /\ substeps' = substeps /\ alive' = alive
<1> USE Jobs, JobsDiffer
<1>1. CASE Spawns(CountJob(p))
  <2>1. cur[CountJob(p)] \in Part
    BY <1>1, SpawnsNext
  <2>2. Spawned(CountJob(p), cur[CountJob(p)]) = DistributeJob(cur[CountJob(p)])
    BY <2>1, SpawnedJobs
  <2> QED BY <1>1, <2>1, <2>2 DEF Spawns, Places
<1>2. CASE SpawnOver(CountJob(p)) \/ Counted(p)
  BY <1>2 DEF SpawnOver, Counted, Goes, Places
<1>3. CASE SignsOff(CountJob(p), "dec", "prefix") \/ Summing(p)
  BY <1>3 DEF SignsOff, Summing, Goes, Places
<1> QED BY <1>1, <1>2, <1>3 DEF CountStep

LEMMA DistributeFrame ==
  ASSUME Places, BucketsAhead, NEW p \in Part, DistributeStep(p)
  PROVE  /\ pc'[SampleJob] = pc[SampleJob] /\ cur'[SampleJob] = cur[SampleJob]
         /\ \A q \in Part : /\ pc'[CountJob(q)] = pc[CountJob(q)]
                            /\ cur'[CountJob(q)] = cur[CountJob(q)]
                            /\ q # p => /\ pc'[DistributeJob(q)] = pc[DistributeJob(q)]
                                        /\ cur'[DistributeJob(q)] = cur[DistributeJob(q)]
         /\ pc[DistributeJob(p)] # "none" /\ pc'[DistributeJob(p)] # "none"
<1> USE Jobs, JobsDiffer, AfterNotifyPlaces
<1>1. CASE Distributing(p)
  BY <1>1 DEF Distributing, Goes, Places
<1>2. CASE SignsOff(DistributeJob(p), "ddec", "recurse") \/ Recurses(p)
  BY <1>2 DEF SignsOff, Recurses, Goes, Places
<1>3. CASE PassesBucket(p) \/ Announces(p)
  BY <1>3 DEF PassesBucket, Announces, Goes, Places
<1>4. CASE Enqueues(p)
  <2>1. Substep(cur[DistributeJob(p)]) \in Job
    BY <1>4 DEF Enqueues, BucketsAhead
  <2> QED BY <1>4, <2>1 DEF Enqueues, Places
<1>5. CASE BucketsOver(p) \/ Frees(p)
  BY <1>5 DEF BucketsOver, Frees, Goes, Places
<1>6. CASE Notifies(DistributeJob(p)) \/ Deletes(DistributeJob(p))
  BY <1>6 DEF Notifies, Deletes, Goes, Places
<1> QED BY <1>1, <1>2, <1>3, <1>4, <1>5, <1>6 DEF DistributeStep

LEMMA SubstepFrame ==
  ASSUME Places, NEW b \in Bkt, SubstepStep(b)
  PROVE  /\ pc'[SampleJob] = pc[SampleJob] /\ cur' = cur /\ pwork' = pwork
         /\ \A q \in Part : /\ pc'[CountJob(q)] = pc[CountJob(q)]
                            /\ pc'[DistributeJob(q)] = pc[DistributeJob(q)]
         /\ \A c \in Bkt : c # b => pc'[Substep(c)] = pc[Substep(c)]
         /\ pc[Substep(b)] # "none" /\ pc'[Substep(b)] # "none"
<1> USE Jobs, JobsDiffer, AfterNotifyPlaces
<1> QED BY DEF SubstepStep, Sorts, Notifies, Deletes, Goes, Places

(* A step that is gone has been distributed. *)
LEMMA Gone ==
  ASSUME Places, Phases, EarlyQuiet, ~alive
  PROVE  Summed /\ Counting = {} /\ Moving = {} /\ pc[SampleJob] # "queued"
<1>1. Moving = {}
  BY DEF EarlyQuiet, Early
<1>2. pc[DistributeJob(0)] # "none" /\ 0 \in Part
  BY <1>1, Ranges DEF Moving, Places
<1> QED BY <1>1, <1>2 DEF Phases, Summed

LEMMA SpawningStep ==
  Places /\ Spawning /\ Phases /\ EarlyQuiet /\ BucketsAhead /\ [Next]_vars => Spawning'
<1> SUFFICES ASSUME Places, Spawning, Phases, EarlyQuiet, BucketsAhead,
                    ControlStep, [Next]_vars
             PROVE  Spawning'
  BY NextControl
<1>0. Part' = Part /\ Parts' = Parts
  BY Constant
<1> USE <1>0
<1>1. ASSUME Sampled PROVE Spawning'
  <2>1. Parts \in Nat /\ Part \subseteq Nat
    BY Sizes, Ranges DEF Places
  <2>2. /\ cur'[SampleJob] = 0 /\ pc'[SampleJob] = "spawn"
        /\ \A p \in Part : pc'[CountJob(p)] = "none" /\ pc[CountJob(p)] = "none"
    BY <1>1, Jobs, JobsDiffer DEF Sampled, Goes, Places, Spawning, CountsSpawned
  <2>3. CountsSpawned'
    <3>1. pc'[SampleJob] = "spawn" /\ cur'[SampleJob] \in 0 .. Parts'
      BY <2>1, <2>2
    <3>2. \A p \in Part' : pc'[CountJob(p)] = "none" <=> p >= cur'[SampleJob]
      BY <2>1, <2>2
    <3> QED BY <3>1, <3>2 DEF CountsSpawned
  <2>4. DistributesSpawned'
    BY <1>1, <2>2, SampleFrame DEF Spawning, DistributesSpawned
  <2> QED BY <2>3, <2>4 DEF Spawning
<1>2. ASSUME Spawns(SampleJob) PROVE Spawning'
  <2> DEFINE n == cur[SampleJob]
  <2>1. n \in Part /\ n + 1 \in 0 .. Parts /\ n \in Nat /\ Part \subseteq Nat
    BY <1>2, Jobs, SpawnsNext, Ranges DEF Places
  <2>2. /\ pc' = [pc EXCEPT ![CountJob(n)] = "queued"] /\ cur' = [cur EXCEPT ![SampleJob] = n + 1]
        /\ pc[SampleJob] = "spawn"
    BY <1>2, <2>1, SpawnedJobs DEF Spawns
  <2>3. pc[CountJob(n)] = "none"
    BY <2>1, <2>2 DEF Spawning, CountsSpawned, DistributesSpawned
  <2> HIDE DEF n
  <2>4. cur'[SampleJob] = n + 1 /\ pc'[SampleJob] = "spawn" /\ cur[SampleJob] = n
    BY <2>1, <2>2, Jobs, JobsDiffer DEF Places, n
  <2>5. \A p \in Part : pc'[CountJob(p)] = "none" <=> p >= n + 1
    BY <2>1, <2>2, <2>4, Jobs, JobsDiffer DEF Places, Spawning, CountsSpawned, DistributesSpawned
  <2>6. CountsSpawned'
    BY <2>1, <2>4, <2>5 DEF CountsSpawned
  <2>7. DistributesSpawned'
    <3>1. \A q \in Part : /\ pc'[CountJob(q)] = IF q = n THEN "queued" ELSE pc[CountJob(q)]
                          /\ cur'[CountJob(q)] = cur[CountJob(q)]
                          /\ pc'[DistributeJob(q)] = pc[DistributeJob(q)]
      BY <2>1, <2>2, Jobs, JobsDiffer DEF Places
    <3> QED BY <2>3, <3>1 DEF Spawning, DistributesSpawned
  <2> QED BY <2>6, <2>7 DEF Spawning
<1>3. ASSUME SpawnOver(SampleJob) PROVE Spawning'
  <2>1. \A p \in Part : pc[CountJob(p)] # "none"
    <3>1. CASE alive
      <4>1. Parts \in Nat /\ \A p \in Part : p \in Nat /\ p < Parts
        BY Sizes, Ranges DEF Places
      <4> QED BY <1>3, <3>1, <4>1 DEF SpawnOver, Goes, Spawning, CountsSpawned
    <3>2. CASE ~alive
      BY <3>2, Gone DEF Counting
    <3> QED BY <3>1, <3>2
  <2> QED BY <1>3, <2>1, Jobs, JobsDiffer DEF SpawnOver, Goes, Places, Spawning, CountsSpawned, DistributesSpawned
<1>4. ASSUME NEW q \in Part, Spawns(CountJob(q)) PROVE Spawning'
  <2> DEFINE n == cur[CountJob(q)]
  <2>1. n \in Part /\ n + 1 \in 0 .. Parts /\ n \in Nat /\ Part \subseteq Nat
    BY <1>4, Jobs, SpawnsNext, Ranges DEF Places
  <2>2. /\ pc' = [pc EXCEPT ![DistributeJob(n)] = "queued"]
        /\ cur' = [cur EXCEPT ![CountJob(q)] = n + 1]
        /\ pc[CountJob(q)] = "spawn"
    BY <1>4, <2>1, SpawnedJobs DEF Spawns
  <2> HIDE DEF n
  <2>3. cur[CountJob(q)] = n
    BY DEF n
  <2>4. \A p \in Part : pc'[DistributeJob(p)] = "none" <=> p >= n + 1
    BY <2>1, <2>2, <2>3, Jobs, JobsDiffer DEF Places, Spawning, CountsSpawned, DistributesSpawned
  <2>5. \A p \in Part : pc[CountJob(p)] = "spawn" => p = q
    BY <2>2 DEF Phases
  <2>6. /\ pc'[SampleJob] = pc[SampleJob] /\ cur'[SampleJob] = cur[SampleJob]
        /\ \A p \in Part :
             /\ pc'[CountJob(p)] = pc[CountJob(p)]
             /\ cur'[CountJob(p)] = IF p = q THEN n + 1 ELSE cur[CountJob(p)]
    BY <2>2, Jobs, JobsDiffer DEF Places
  <2>7. CountsSpawned'
    BY <2>6 DEF Spawning, CountsSpawned
  <2>8. DistributesSpawned'
    BY <2>1, <2>2, <2>4, <2>5, <2>6 DEF Spawning, DistributesSpawned
  <2> QED BY <2>7, <2>8 DEF Spawning
<1>5. ASSUME NEW q \in Part, SpawnOver(CountJob(q)) \/ Counted(q) PROVE Spawning'
  BY <1>5, Jobs, JobsDiffer DEF SpawnOver, Counted, Goes, Places, Spawning, CountsSpawned, DistributesSpawned
<1>6. ASSUME NEW q \in Part, SignsOff(CountJob(q), "dec", "prefix") PROVE Spawning'
  BY <1>6, Jobs, JobsDiffer DEF SignsOff, Goes, Places, Spawning, CountsSpawned, DistributesSpawned
<1>7. ASSUME NEW q \in Part, Summing(q) PROVE Spawning'
  <2>1. \A p \in Part : pc[DistributeJob(p)] = "none" /\ pc[CountJob(p)] # "spawn"
    BY <1>7 DEF Summing, Goes, Phases, Summed
  <2>2. Parts \in Nat /\ Part \subseteq Nat
    BY Sizes, Ranges DEF Places
  <2>3. /\ cur' = cur /\ pc'[SampleJob] = pc[SampleJob] /\ cur[CountJob(q)] = 0
        /\ \A p \in Part : /\ pc'[CountJob(p)] = IF p = q THEN "spawn" ELSE pc[CountJob(p)]
                           /\ pc'[DistributeJob(p)] = pc[DistributeJob(p)]
        /\ pc[CountJob(q)] = "prefix"
    BY <1>7, Jobs, JobsDiffer DEF Summing, Goes, Places, Spawning, DistributesSpawned
  <2>4. CountsSpawned'
    BY <2>3 DEF Spawning, CountsSpawned
  <2>5. DistributesSpawned'
    BY <2>1, <2>2, <2>3 DEF Spawning, DistributesSpawned
  <2> QED BY <2>4, <2>5 DEF Spawning
<1>8. ASSUME NEW q \in Part, DistributeStep(q) PROVE Spawning'
  BY <1>8, DistributeFrame DEF Spawning, CountsSpawned, DistributesSpawned
<1>9. ASSUME NEW b \in Bkt, SubstepStep(b) PROVE Spawning'
  BY <1>9, SubstepFrame DEF Spawning, CountsSpawned, DistributesSpawned
<1>10. ASSUME UNCHANGED <<pc, cur, pwork, substeps, alive>> PROVE Spawning'
  BY <1>10 DEF Spawning, CountsSpawned, DistributesSpawned
<1> QED
  BY <1>1, <1>2, <1>3, <1>4, <1>5, <1>6, <1>7, <1>8, <1>9, <1>10 DEF ControlStep, CountStep

LEMMA PhasesStep ==
  Places /\ Spawning /\ Phases /\ PworkCounts /\ EarlyQuiet /\ BucketsAhead /\ [Next]_vars
    => Phases'
<1> SUFFICES ASSUME Places, Spawning, Phases, PworkCounts, EarlyQuiet, BucketsAhead,
                    ControlStep, [Next]_vars
             PROVE  Phases'
  BY NextControl
<1>0. Part' = Part /\ Parts' = Parts
  BY Constant
<1> USE <1>0
<1>1. ASSUME Sampled PROVE Phases'
  BY <1>1, Jobs, JobsDiffer DEF Sampled, Goes, Places, Phases, Summed, Counting
<1>2. ASSUME Spawns(SampleJob) PROVE Phases'
  <2> DEFINE n == cur[SampleJob]
  <2>1. n \in Part
    BY <1>2, Jobs, SpawnsNext
  <2>2. pc' = [pc EXCEPT ![CountJob(n)] = "queued"] /\ pc[SampleJob] = "spawn"
    BY <1>2, <2>1, SpawnedJobs DEF Spawns
  <2>3. pc[CountJob(n)] = "none"
    <3>1. n \in Nat
      BY Ranges, <2>1 DEF Places
    <3> QED BY <2>1, <2>2, <3>1 DEF Spawning, CountsSpawned, DistributesSpawned
  <2>4. n \in Counting /\ ~Summed
    BY <2>1, <2>3 DEF Counting, Phases
  <2> HIDE DEF n
  <2>5. ~Summed' /\ \A p \in Part : pc'[CountJob(p)] \notin {"prefix", "spawn", "wild"}
    BY <2>1, <2>2, <2>4, Jobs, JobsDiffer DEF Places, Phases, Summed
  <2> QED BY <2>5 DEF Phases
<1>3. ASSUME SpawnOver(SampleJob) PROVE Phases'
  BY <1>3, Jobs, JobsDiffer DEF SpawnOver, Goes, Places, Phases, Summed, Counting
<1>4. ASSUME NEW q \in Part, Spawns(CountJob(q)) PROVE Phases'
  <2> DEFINE n == cur[CountJob(q)]
  <2>1. n \in Part
    BY <1>4, Jobs, SpawnsNext
  <2>2. pc' = [pc EXCEPT ![DistributeJob(n)] = "queued"] /\ pc[CountJob(q)] = "spawn"
    BY <1>4, <2>1, SpawnedJobs DEF Spawns
  <2> HIDE DEF n
  <2>3. Summed /\ Summed' /\ Counting' = Counting
    BY <2>1, <2>2, Jobs, JobsDiffer DEF Places, Summed, Counting
  <2> QED BY <2>1, <2>2, <2>3, Jobs, JobsDiffer DEF Places, Phases
<1>5. ASSUME NEW q \in Part, SpawnOver(CountJob(q)) PROVE Phases'
  <2>1. \A p \in Part : pc[DistributeJob(p)] # "none"
    <3>1. CASE alive
      <4>1. Parts \in Nat /\ \A p \in Part : p \in Nat /\ p < Parts
        BY Sizes, Ranges DEF Places
      <4> QED BY <1>5, <3>1, <4>1 DEF SpawnOver, Goes, Spawning, DistributesSpawned
    <3>2. CASE ~alive
      BY <3>2, Gone DEF Moving
    <3> QED BY <3>1, <3>2
  <2>2. PICK l \in {"done", "wild"} : pc[CountJob(q)] = "spawn" /\ pc' = [pc EXCEPT ![CountJob(q)] = l]
    BY <1>5 DEF SpawnOver, Goes
  <2>3. \A p \in Part : pc'[DistributeJob(p)] # "none"
    BY <2>1, <2>2, Jobs, JobsDiffer DEF Places
  <2>4. Summed /\ Summed' /\ Counting' = Counting
    BY <2>1, <2>2, <2>3, Jobs, JobsDiffer DEF Places, Summed, Counting
  <2> QED BY <2>2, <2>3, <2>4, Jobs, JobsDiffer DEF Places, Phases
<1>6. ASSUME NEW q \in Part, Counted(q) PROVE Phases'
  BY <1>6, Jobs, JobsDiffer DEF Counted, Goes, Places, Phases, Summed, Counting
<1>7. ASSUME NEW q \in Part, SignsOff(CountJob(q), "dec", "prefix") PROVE Phases'
  <2>1. q \in Counting /\ ~Summed /\ pc[SampleJob] # "queued"
    BY <1>7 DEF SignsOff, Goes, Counting, Phases, Spawning, CountsSpawned
  <2>2. pwork = Cardinality(Counting) /\ IsFiniteSet(Counting)
    BY <2>1, Ranges, FS_Subset DEF PworkCounts, Counting, Places
  <2>3. \A p \in Part : pc[CountJob(p)] # "prefix"
    BY <2>1 DEF Phases
  <2>4. ~Summed'
    BY <1>7, <2>1, Jobs, JobsDiffer DEF SignsOff, Goes, Places, Summed
  <2>5. Counting' = Counting \ {q}
    BY <1>7, Jobs, JobsDiffer DEF SignsOff, Goes, Places, Counting
  <2>6. CASE pwork = 1
    <3> DEFINE C == Counting
    <3> HIDE DEF C
    <3>3. Cardinality(C \ {q}) = Cardinality(C) - 1 /\ IsFiniteSet(C \ {q})
      BY <2>1, <2>2, FS_RemoveElement DEF C
    <3>1. Cardinality(Counting \ {q}) = 0 /\ IsFiniteSet(Counting \ {q})
      BY <2>2, <2>6, <3>3 DEF C
    <3>2. Counting' = {}
      BY <2>5, <3>1, FS_EmptySet
    <3> QED BY <1>7, <2>1, <2>3, <2>4, <3>2, Jobs, JobsDiffer DEF SignsOff, Goes, Places, Phases, Summed
  <2>7. CASE pwork # 1
    BY <1>7, <2>1, <2>3, <2>4, <2>7, Jobs, JobsDiffer DEF SignsOff, Goes, Places, Phases, Summed
  <2> QED BY <2>6, <2>7
<1>8. ASSUME NEW q \in Part, Summing(q) PROVE Phases'
  <2>1. Counting = {} /\ ~Summed /\ pc[SampleJob] # "queued"
    BY <1>8 DEF Summing, Goes, Phases, Spawning, CountsSpawned
  <2>2. \A p \in Part : p # q => pc[CountJob(p)] \notin {"prefix", "spawn"}
    BY <1>8 DEF Summing, Goes, Phases
  <2>3. Summed' /\ Counting' = {}
    BY <1>8, <2>1, Jobs, JobsDiffer DEF Summing, Goes, Places, Summed, Counting
  <2> QED BY <1>8, <2>1, <2>2, <2>3, Jobs, JobsDiffer DEF Summing, Goes, Places, Phases
<1>9. ASSUME NEW q \in Part, DistributeStep(q) PROVE Phases'
  <2>1. Counting' = Counting /\ Summed /\ Summed'
    BY <1>9, DistributeFrame DEF Counting, Summed
  <2> QED BY <1>9, <2>1, DistributeFrame DEF Phases
<1>10. ASSUME NEW b \in Bkt, SubstepStep(b) PROVE Phases'
  BY <1>10, SubstepFrame DEF Phases, Counting, Summed
<1>11. ASSUME UNCHANGED <<pc, cur, pwork, substeps, alive>> PROVE Phases'
  BY <1>11 DEF Phases, Counting, Summed
<1> QED
  BY <1>1, <1>2, <1>3, <1>4, <1>5, <1>6, <1>7, <1>8, <1>9, <1>10, <1>11
     DEF ControlStep, CountStep

-----------------------------------------------------------------------------
(* A loop that enqueues the distributors ends behind the last of them.     *)
LEMMA AllDistributesSpawned ==
  ASSUME Places, Spawning, Phases, EarlyQuiet, NEW q \in Part, SpawnOver(CountJob(q))
  PROVE  \A p \in Part : pc[DistributeJob(p)] # "none"
<1>1. CASE alive
  <2>1. Parts \in Nat /\ \A p \in Part : p \in Nat /\ p < Parts
    BY Sizes, Ranges DEF Places
  <2> QED BY <1>1, <2>1 DEF SpawnOver, Goes, Spawning, DistributesSpawned
<1>2. CASE ~alive
  BY <1>2, Gone DEF Moving
<1> QED BY <1>1, <1>2

LEMMA FiniteParts ==
  ASSUME Places
  PROVE  /\ IsFiniteSet(Counting) /\ IsFiniteSet(Moving) /\ IsFiniteSet(Handle)
         /\ IsFiniteSet(Announced) /\ IsFiniteSet(Running)
<1>1. IsFiniteSet(Part) /\ IsFiniteSet(Bkt)
  BY Ranges DEF Places
<1>2. /\ Counting \subseteq Part /\ Moving \subseteq Part /\ Handle \subseteq Part
      /\ Announced \subseteq Part /\ Running \subseteq Bkt
  BY DEF Counting, Moving, Handle, Announced, Running
<1> HIDE DEF Counting, Moving, Handle, Announced, Running
<1> QED BY <1>1, <1>2, FS_Subset

(* What each kind of step does to the sets of jobs that pwork counts. *)
LEMMA DistributeSets ==
  ASSUME Places, BucketsAhead, [Next]_vars, NEW p \in Part, DistributeStep(p)
  PROVE  /\ Summed /\ Summed'
         /\ Moving' = IF SignsOff(DistributeJob(p), "ddec", "recurse")
                      THEN Moving \ {p} ELSE Moving
         /\ SignsOff(DistributeJob(p), "ddec", "recurse") => p \in Moving
<1>0. Part' = Part
  BY Constant
<1>1. Summed /\ Summed'
  BY <1>0, DistributeFrame DEF Summed
<1>2. CASE SignsOff(DistributeJob(p), "ddec", "recurse")
  <2>1. Moving' = Moving \ {p} /\ p \in Moving
    BY <1>0, <1>2, Jobs, JobsDiffer DEF SignsOff, Goes, Places, Moving
  <2> QED BY <1>1, <1>2, <2>1
<1>3. CASE ~SignsOff(DistributeJob(p), "ddec", "recurse")
  <2>1. pc'[DistributeJob(p)] \in {"none", "queued", "move", "ddec"}
          <=> pc[DistributeJob(p)] \in {"none", "queued", "move", "ddec"}
    <3> USE Jobs, JobsDiffer, AfterNotifyPlaces
    <3>1. CASE Distributing(p)
      BY <3>1 DEF Distributing, Goes, Places
    <3>2. CASE Recurses(p) \/ PassesBucket(p) \/ Announces(p) \/ BucketsOver(p) \/ Frees(p)
      BY <3>2 DEF Recurses, PassesBucket, Announces, BucketsOver, Frees, Goes, Places
    <3>3. CASE Enqueues(p)
      BY <3>3 DEF Enqueues, Places, BucketsAhead
    <3>4. CASE Notifies(DistributeJob(p)) \/ Deletes(DistributeJob(p))
      BY <3>4 DEF Notifies, Deletes, Goes, Places
    <3> QED BY <1>3, <3>1, <3>2, <3>3, <3>4 DEF DistributeStep
  <2>2. Moving' = Moving
    BY <1>0, <2>1, DistributeFrame DEF Moving
  <2> QED BY <1>1, <1>3, <2>2
<1> QED BY <1>2, <1>3

LEMMA CountSets ==
  ASSUME Places, Spawning, [Next]_vars, NEW p \in Part, CountStep(p)
  PROVE  Moving' = Moving
<1>0. Part' = Part
  BY Constant
<1>1. CASE Spawns(CountJob(p))
  <2> DEFINE n == cur[CountJob(p)]
  <2>1. n \in Part /\ n \in Nat
    BY <1>1, Jobs, SpawnsNext, Ranges DEF Places
  <2>3. pc' = [pc EXCEPT ![DistributeJob(n)] = "queued"] /\ pc[CountJob(p)] = "spawn"
    BY <1>1, <2>1, SpawnedJobs DEF Spawns
  <2>4. cur[CountJob(p)] = n
    OBVIOUS
  <2> HIDE DEF n
  <2>2. pc' = [pc EXCEPT ![DistributeJob(n)] = "queued"] /\ pc[DistributeJob(n)] = "none"
    BY <2>1, <2>3, <2>4 DEF Spawning, DistributesSpawned
  <2> QED BY <1>0, <2>1, <2>2, Jobs, JobsDiffer DEF Places, Moving
<1>2. CASE ~Spawns(CountJob(p))
  <2>1. \A q \in Part : pc'[DistributeJob(q)] = pc[DistributeJob(q)]
    BY <1>2, CountFrame
  <2> QED BY <1>0, <2>1 DEF Moving
<1> QED BY <1>1, <1>2

LEMMA PworkStep ==
  Places /\ Spawning /\ Phases /\ PworkCounts /\ EarlyQuiet /\ BucketsAhead /\ [Next]_vars
    => PworkCounts'
<1> SUFFICES ASSUME Places, Spawning, Phases, PworkCounts, EarlyQuiet, BucketsAhead,
                    ControlStep, [Next]_vars
             PROVE  PworkCounts'
  BY NextControl
<1>0. Part' = Part /\ Parts' = Parts
  BY Constant
<1>1. ASSUME Sampled PROVE PworkCounts'
  <2>1. \A p \in Part : pc'[CountJob(p)] = "none"
    BY <1>1, Jobs, JobsDiffer DEF Sampled, Goes, Places, Spawning, CountsSpawned
  <2>2. ~Summed'
    BY <1>0, <1>1, <2>1, SampleFrame DEF Sampled, Goes, Phases, Summed
  <2>3. Counting' = Part
    BY <1>0, <2>1 DEF Counting
  <2> QED BY <1>1, <2>2, <2>3, Ranges DEF Sampled, PworkCounts, Places
<1>2. ASSUME Spawns(SampleJob) PROVE PworkCounts'
  <2> DEFINE n == cur[SampleJob]
  <2>1. n \in Part /\ n \in Nat
    BY <1>2, Jobs, SpawnsNext, Ranges DEF Places
  <2>2. /\ pc' = [pc EXCEPT ![CountJob(n)] = "queued"] /\ pc[SampleJob] = "spawn"
        /\ pwork' = pwork
    BY <1>2, <2>1, SpawnedJobs DEF Spawns
  <2>3. pc[CountJob(n)] = "none"
    BY <2>1, <2>2 DEF Spawning, CountsSpawned
  <2> HIDE DEF n
  <2>4. /\ pc'[CountJob(n)] = "queued"
        /\ \A p \in Part : /\ p # n => pc'[CountJob(p)] = pc[CountJob(p)]
                           /\ pc'[DistributeJob(p)] = pc[DistributeJob(p)]
    BY <2>1, <2>2, Jobs, JobsDiffer DEF Places
  <2>5. Counting' = Counting
    BY <1>0, <2>1, <2>3, <2>4 DEF Counting
  <2>6. Moving' = Moving
    BY <1>0, <2>4 DEF Moving
  <2>7. Summed' <=> Summed
    BY <1>0, <2>1, <2>3, <2>4 DEF Summed
  <2> QED BY <2>2, <2>5, <2>6, <2>7 DEF PworkCounts
<1>3. ASSUME SpawnOver(SampleJob) PROVE PworkCounts'
  <2>1. Summed' = Summed /\ Counting' = Counting /\ Moving' = Moving
    BY <1>0, <1>3, Jobs, JobsDiffer DEF SpawnOver, Goes, Places, Summed, Counting, Moving
  <2> QED BY <1>3, <2>1 DEF SpawnOver, Goes, PworkCounts
<1>4. ASSUME NEW q \in Part, CountStep(q) PROVE PworkCounts'
  <2>0. Moving' = Moving /\ pc'[SampleJob] = pc[SampleJob]
    BY <1>4, CountSets, CountFrame
  <2>1. CASE Spawns(CountJob(q))
    <3>1. cur[CountJob(q)] \in Part
      BY <2>1, Jobs, SpawnsNext
    <3>2. pc' = [pc EXCEPT ![DistributeJob(cur[CountJob(q)])] = "queued"]
      BY <2>1, <3>1, SpawnedJobs DEF Spawns
    <3>3. pc'[CountJob(q)] = "spawn" /\ pc[CountJob(q)] = "spawn"
      BY <2>1, <3>1, <3>2, Jobs, JobsDiffer DEF Spawns, Places
    <3>4. Summed /\ Summed' /\ pwork' = pwork
      BY <1>0, <2>1, <3>3 DEF Spawns, Summed
    <3> QED BY <2>0, <3>4 DEF PworkCounts
  <2>2. CASE SpawnOver(CountJob(q))
    <3>1. \A p \in Part : pc[DistributeJob(p)] # "none"
      BY <2>2, AllDistributesSpawned
    <3>2. \A p \in Part : pc'[DistributeJob(p)] # "none"
      BY <2>2, <3>1, Jobs, JobsDiffer DEF SpawnOver, Goes, Places
    <3>3. Summed /\ Summed' /\ pwork' = pwork
      BY <1>0, <2>2, <3>1, <3>2, Ranges DEF SpawnOver, Summed, Places
    <3> QED BY <2>0, <3>3 DEF PworkCounts
  <2>3. CASE Counted(q)
    <3>1. Summed' = Summed /\ Counting' = Counting /\ pwork' = pwork
      BY <1>0, <2>3, Jobs, JobsDiffer DEF Counted, Goes, Places, Summed, Counting
    <3> QED BY <2>0, <3>1 DEF PworkCounts
  <2>4. CASE SignsOff(CountJob(q), "dec", "prefix")
    <3>1. q \in Counting /\ ~Summed /\ pc[SampleJob] # "queued"
      BY <2>4 DEF SignsOff, Goes, Counting, Phases, Spawning, CountsSpawned
    <3>2. Counting' = Counting \ {q} /\ ~Summed'
      BY <1>0, <2>4, <3>1, Jobs, JobsDiffer DEF SignsOff, Goes, Places, Summed, Counting
    <3>3. Cardinality(Counting \ {q}) = Cardinality(Counting) - 1
      BY <3>1, FiniteParts, FS_RemoveElement
    <3>4. pwork = Cardinality(Counting) /\ pwork' = pwork - 1
      BY <2>4, <3>1 DEF PworkCounts, SignsOff
    <3> QED BY <3>2, <3>3, <3>4 DEF PworkCounts
  <2>5. CASE Summing(q)
    <3>1. \A p \in Part : pc[DistributeJob(p)] = "none"
      BY <2>5 DEF Summing, Goes, Phases, Summed
    <3>2. Moving = Part
      BY <3>1 DEF Moving
    <3>3. Summed' /\ pwork' = Parts
      BY <1>0, <2>5, Jobs DEF Summing, Goes, Places, Summed
    <3> QED BY <2>0, <3>2, <3>3, Ranges DEF PworkCounts, Places
  <2> QED BY <1>4, <2>1, <2>2, <2>3, <2>4, <2>5 DEF CountStep
<1>5. ASSUME NEW q \in Part, DistributeStep(q) PROVE PworkCounts'
  <2>1. /\ Summed /\ Summed' /\ pc'[SampleJob] = pc[SampleJob]
        /\ pc[SampleJob] # "queued"
    BY <1>5, DistributeSets, DistributeFrame DEF Phases
  <2>2. CASE SignsOff(DistributeJob(q), "ddec", "recurse")
    <3>1. Moving' = Moving \ {q} /\ q \in Moving
      BY <1>5, <2>2, DistributeSets
    <3>2. Cardinality(Moving \ {q}) = Cardinality(Moving) - 1
      BY <3>1, FiniteParts, FS_RemoveElement
    <3>3. pwork = Cardinality(Moving) /\ pwork' = pwork - 1
      BY <2>1, <2>2 DEF PworkCounts, SignsOff
    <3> QED BY <2>1, <3>1, <3>2, <3>3 DEF PworkCounts
  <2>3. CASE ~SignsOff(DistributeJob(q), "ddec", "recurse")
    <3>1. Moving' = Moving
      BY <1>5, <2>3, DistributeSets
    <3>2. pwork' = pwork
      BY <1>5, <2>3 DEF DistributeStep, Distributing, Recurses, PassesBucket, Announces, Enqueues,
                        BucketsOver, Notifies, Deletes, Frees
    <3> QED BY <2>1, <3>1, <3>2 DEF PworkCounts
  <2> QED BY <2>2, <2>3
<1>6. ASSUME NEW b \in Bkt, SubstepStep(b) PROVE PworkCounts'
  BY <1>0, <1>6, SubstepFrame DEF PworkCounts, Summed, Moving, Counting
<1>7. ASSUME UNCHANGED <<pc, cur, pwork, substeps, alive>> PROVE PworkCounts'
  BY <1>0, <1>7 DEF PworkCounts, Summed, Moving, Counting
<1> QED
  BY <1>1, <1>2, <1>3, <1>4, <1>5, <1>6, <1>7 DEF ControlStep

-----------------------------------------------------------------------------
(* The step of a distributor is one before the last of them signs off, the *)
(* signing off, or one of the last.                                        *)
LEMMA DistributeKinds ==
  ASSUME Places, NEW p \in Part, DistributeStep(p)
  PROVE  \/ Distributing(p) /\ p \in Moving
         \/ SignsOff(DistributeJob(p), "ddec", "recurse") /\ p \in Moving
         \/ /\ p \in Recursing
            /\ \/ Recurses(p) \/ PassesBucket(p) \/ Announces(p) \/ Enqueues(p)
               \/ BucketsOver(p) \/ Notifies(DistributeJob(p)) \/ Deletes(DistributeJob(p))
               \/ Frees(p)
<1>1. CASE Distributing(p)
  BY <1>1 DEF Distributing, Goes, Moving
<1>2. CASE SignsOff(DistributeJob(p), "ddec", "recurse")
  BY <1>2 DEF SignsOff, Goes, Moving
<1>3. CASE Recurses(p) \/ PassesBucket(p) \/ Announces(p) \/ Enqueues(p) \/ BucketsOver(p)
  BY <1>3 DEF Recurses, PassesBucket, Announces, Enqueues, BucketsOver, Goes, Recursing, LastPlaces
<1>4. CASE Notifies(DistributeJob(p)) \/ Deletes(DistributeJob(p)) \/ Frees(p)
  BY <1>4 DEF Notifies, Deletes, Frees, Goes, Recursing, LastPlaces
<1> QED BY <1>1, <1>2, <1>3, <1>4 DEF DistributeStep

(* Where the step of a distributor leads it. *)
LEMMA DistributeLeads ==
  ASSUME Places, BucketsAhead, NEW p \in Part, DistributeStep(p)
  PROVE  LET j == DistributeJob(p)
         IN  /\ Distributing(p) => pc'[j] \in {"move", "ddec"}
             /\ SignsOff(j, "ddec", "recurse") => pc'[j] = IF pwork = 1 THEN "recurse" ELSE "done"
             /\ Recurses(p) => pc'[j] = "bucket" /\ cur'[j] = 0
             /\ PassesBucket(p) => pc'[j] = "bucket" /\ cur'[j] = cur[j] + 1
             /\ Announces(p) => pc'[j] = "enqueue" /\ cur'[j] = cur[j]
             /\ Enqueues(p) => pc'[j] = "bucket" /\ cur'[j] = cur[j] + 1
             /\ BucketsOver(p) => pc'[j] = "notify"
             /\ Notifies(j) => pc'[j] = IF substeps = 1 THEN "alldone" ELSE AfterNotify(j)
             /\ Deletes(j) => pc'[j] = AfterNotify(j)
             /\ Frees(p) => pc'[j] = "done"
             /\ \A b \in Bkt :
                  pc'[Substep(b)] = IF Enqueues(p) /\ b = cur[j] THEN "queued" ELSE pc[Substep(b)]
<1> USE Jobs, JobsDiffer
<1>1. /\ pc \in [Job -> Location] /\ cur \in [Job -> Nat] /\ DistributeJob(p) \in Job
      /\ \A b \in Bkt : Substep(b) \in Job
  BY DEF Places
<1>2. CASE Distributing(p)
  BY <1>1, <1>2 DEF Distributing, Goes, SignsOff, Recurses, PassesBucket, Announces, Enqueues, BucketsOver, Notifies, Deletes, Frees
<1>3. CASE SignsOff(DistributeJob(p), "ddec", "recurse")
  BY <1>1, <1>3 DEF Distributing, Goes, SignsOff, Recurses, PassesBucket, Announces, Enqueues, BucketsOver, Notifies, Deletes, Frees
<1>4. CASE Recurses(p) \/ PassesBucket(p) \/ Announces(p) \/ BucketsOver(p)
  BY <1>1, <1>4 DEF Distributing, Goes, SignsOff, Recurses, PassesBucket, Announces, Enqueues, BucketsOver, Notifies, Deletes, Frees
<1>5. CASE Enqueues(p)
  <2>1. cur[DistributeJob(p)] \in Bkt
    BY <1>5 DEF Enqueues, BucketsAhead
  <2> QED BY <1>1, <1>5, <2>1 DEF Distributing, Goes, SignsOff, Recurses, PassesBucket, Announces, Enqueues, BucketsOver, Notifies, Deletes, Frees
<1>6. CASE Notifies(DistributeJob(p)) \/ Deletes(DistributeJob(p)) \/ Frees(p)
  BY <1>1, <1>6 DEF Distributing, Goes, SignsOff, Recurses, PassesBucket, Announces, Enqueues, BucketsOver, Notifies, Deletes, Frees
<1> QED BY <1>2, <1>3, <1>4, <1>5, <1>6 DEF DistributeStep

LEMMA LastAloneStep ==
  Places /\ Spawning /\ Phases /\ PworkCounts /\ LastAlone /\ EarlyQuiet /\ BucketsAhead
    /\ [Next]_vars => LastAlone'
<1> SUFFICES ASSUME Places, Spawning, Phases, PworkCounts, LastAlone, EarlyQuiet, BucketsAhead,
                    ControlStep, [Next]_vars
             PROVE  LastAlone'
  BY NextControl
<1>0. Part' = Part
  BY Constant
<1>1. ASSUME Sampled \/ Spawns(SampleJob) \/ SpawnOver(SampleJob) PROVE LastAlone'
  BY <1>0, <1>1, SampleFrame DEF LastAlone, Recursing, Moving
<1>2. ASSUME NEW q \in Part, CountStep(q) PROVE LastAlone'
  <2>1. CASE Spawns(CountJob(q))
    <3> DEFINE n == cur[CountJob(q)]
    <3>1. n \in Part /\ n \in Nat
      BY <2>1, Jobs, SpawnsNext, Ranges DEF Places
    <3>2. pc' = [pc EXCEPT ![DistributeJob(n)] = "queued"] /\ pc[CountJob(q)] = "spawn"
      BY <2>1, <3>1, SpawnedJobs DEF Spawns
    <3>3. cur[CountJob(q)] = n
      OBVIOUS
    <3> HIDE DEF n
    <3>4. n \in Moving
      BY <3>1, <3>2, <3>3 DEF Spawning, DistributesSpawned, Moving
    <3>5. Recursing = {}
      BY <3>4 DEF LastAlone
    <3>6. Recursing' = {}
      BY <1>0, <3>1, <3>2, <3>5, Jobs, JobsDiffer DEF Places, Recursing, LastPlaces
    <3> QED BY <3>6 DEF LastAlone
  <2>2. CASE ~Spawns(CountJob(q))
    BY <1>0, <1>2, <2>2, CountFrame DEF LastAlone, Recursing, Moving
  <2> QED BY <2>1, <2>2
<1>3. ASSUME NEW q \in Part, DistributeStep(q) PROVE LastAlone'
  <2>0. \A p \in Part : p # q => pc'[DistributeJob(p)] = pc[DistributeJob(p)]
    BY <1>3, DistributeFrame
  <2>1. CASE SignsOff(DistributeJob(q), "ddec", "recurse")
    <3>1. Moving' = Moving \ {q} /\ q \in Moving /\ Summed
      BY <1>3, <2>1, DistributeSets
    <3>2. Recursing = {}
      BY <3>1 DEF LastAlone
    <3>3. CASE pwork = 1
      <4>1. Cardinality(Moving \ {q}) = Cardinality(Moving) - 1 /\ IsFiniteSet(Moving \ {q})
        BY <3>1, FiniteParts, FS_RemoveElement
      <4>2. pwork = Cardinality(Moving)
        BY <3>1 DEF PworkCounts, Phases
      <4>3. Moving' = {} /\ \A p \in Part : p # q => p \notin Moving
        BY <3>1, <3>3, <4>1, <4>2, FS_EmptySet
      <4>4. \A p \in Part : p # q => pc[DistributeJob(p)] = "done"
        BY <3>2, <4>3 DEF Moving, Recursing, Places
      <4> QED BY <1>0, <2>0, <4>3, <4>4 DEF LastAlone, Recursing, LastPlaces
    <3>4. CASE pwork # 1
      <4>1. pc'[DistributeJob(q)] = "done"
        BY <1>3, <2>1, <3>4, DistributeLeads
      <4>2. Recursing' = {}
        BY <1>0, <2>0, <3>2, <4>1 DEF Recursing, LastPlaces
      <4> QED BY <4>2 DEF LastAlone
    <3> QED BY <3>3, <3>4
  <2>2. CASE Distributing(q)
    <3>1. q \in Moving
      BY <2>2 DEF Distributing, Goes, Moving
    <3>2. Recursing = {} /\ pc'[DistributeJob(q)] \notin LastPlaces
      BY <1>3, <2>2, <3>1, DistributeLeads DEF LastAlone, LastPlaces
    <3>3. Recursing' = {}
      BY <1>0, <2>0, <3>2 DEF Recursing
    <3> QED BY <3>3 DEF LastAlone
  <2>3. CASE q \in Recursing
    <3>1. Moving = {} /\ \A p \in Part : p # q => pc[DistributeJob(p)] = "done"
      BY <2>3 DEF LastAlone
    <3>2. Moving' = {}
      BY <1>3, <3>1, DistributeSets
    <3> QED BY <1>0, <2>0, <3>1, <3>2 DEF LastAlone, Recursing, LastPlaces
  <2> QED BY <1>3, <2>1, <2>2, <2>3, DistributeKinds
<1>4. ASSUME NEW b \in Bkt, SubstepStep(b) PROVE LastAlone'
  BY <1>0, <1>4, SubstepFrame DEF LastAlone, Recursing, Moving
<1>5. ASSUME UNCHANGED <<pc, cur, pwork, substeps, alive>> PROVE LastAlone'
  BY <1>0, <1>5 DEF LastAlone, Recursing, Moving
<1> QED
  BY <1>1, <1>2, <1>3, <1>4, <1>5 DEF ControlStep

(* The steps of the counting jobs create distributors, and do no more to   *)
(* them.                                                                   *)
LEMMA CountLeads ==
  ASSUME Places, Spawning, NEW q \in Part, CountStep(q)
  PROVE  /\ \A p \in Part : \/ pc'[DistributeJob(p)] = pc[DistributeJob(p)]
                            \/ /\ pc[DistributeJob(p)] = "none"
                               /\ pc'[DistributeJob(p)] = "queued"
         /\ Counted(q) \/ (pc'[CountJob(q)] \in {"none", "queued"}
                             <=> pc[CountJob(q)] \in {"none", "queued"})
<1>1. CASE Spawns(CountJob(q))
  <2> DEFINE n == cur[CountJob(q)]
  <2>1. n \in Part /\ n \in Nat
    BY <1>1, Jobs, SpawnsNext, Ranges DEF Places
  <2>2. pc' = [pc EXCEPT ![DistributeJob(n)] = "queued"] /\ pc[CountJob(q)] = "spawn"
    BY <1>1, <2>1, SpawnedJobs DEF Spawns
  <2>3. cur[CountJob(q)] = n
    OBVIOUS
  <2> HIDE DEF n
  <2>4. pc[DistributeJob(n)] = "none"
    BY <1>1, <2>1, <2>2, <2>3 DEF Spawning, DistributesSpawned
  <2> QED BY <2>1, <2>2, <2>4, Jobs, JobsDiffer DEF Places
<1>2. CASE ~Spawns(CountJob(q))
  <2>1. \A p \in Part : pc'[DistributeJob(p)] = pc[DistributeJob(p)]
    BY <1>2, CountFrame
  <2>2. CountJob(q) \in Job
    BY Jobs
  <2>3. Counted(q) \/ (pc'[CountJob(q)] \in {"none", "queued"}
                         <=> pc[CountJob(q)] \in {"none", "queued"})
    BY <1>2, <2>2 DEF CountStep, SpawnOver, SignsOff, Summing, Goes, Places
  <2> QED BY <2>1, <2>3
<1> QED BY <1>1, <1>2

(* What a step before the substeps leaves alone: the places of substeps,   *)
(* the handles, and where a distributor is that distributes no longer.     *)
LEMMA EarlySteps ==
  ASSUME Places, Spawning, BucketsAhead, [Next]_vars,
         \/ Sampled \/ Spawns(SampleJob) \/ SpawnOver(SampleJob)
         \/ \E q \in Part : CountStep(q)
         \/ \E q \in Part : DistributeStep(q) /\ Distributing(q)
  PROVE  /\ Moving' = Moving /\ substeps' = substeps /\ alive' = alive
         /\ \A b \in Bkt : pc'[Substep(b)] = pc[Substep(b)]
         /\ \A p \in Part : \/ /\ pc'[DistributeJob(p)] = pc[DistributeJob(p)]
                               /\ cur'[DistributeJob(p)] = cur[DistributeJob(p)]
                            \/ /\ pc[DistributeJob(p)] \in {"none", "queued", "move", "ddec"}
                               /\ pc'[DistributeJob(p)] \in {"none", "queued", "move", "ddec"}
<1>0. Part' = Part
  BY Constant
<1>1. CASE Sampled \/ Spawns(SampleJob) \/ SpawnOver(SampleJob)
  BY <1>0, <1>1, SampleFrame DEF Moving
<1>3. CASE \E q \in Part : CountStep(q)
  <2>1. PICK q \in Part : CountStep(q)
    BY <1>3
  <2>2. /\ Moving' = Moving /\ substeps' = substeps /\ alive' = alive
        /\ \A b \in Bkt : pc'[Substep(b)] = pc[Substep(b)]
        /\ \A p \in Part : cur'[DistributeJob(p)] = cur[DistributeJob(p)]
    BY <2>1, CountSets, CountFrame
  <2> QED BY <2>1, <2>2, CountLeads
<1>4. CASE \E q \in Part : DistributeStep(q) /\ Distributing(q)
  <2>1. PICK q \in Part : DistributeStep(q) /\ Distributing(q)
    BY <1>4
  <2>2. substeps' = substeps /\ alive' = alive /\ ~SignsOff(DistributeJob(q), "ddec", "recurse")
    BY <2>1 DEF Distributing, SignsOff, Goes
  <2>3. Moving' = Moving
    BY <2>1, <2>2, DistributeSets
  <2>4. ~Enqueues(q) /\ pc[DistributeJob(q)] \in {"none", "queued", "move", "ddec"}
    BY <2>1 DEF Distributing, Enqueues, Goes
  <2> QED BY <2>1, <2>2, <2>3, <2>4, DistributeFrame, DistributeLeads
<1> QED BY <1>1, <1>3, <1>4

(* The others when one of the last takes a step. *)
LEMMA RecursingSteps ==
  ASSUME Places, LastAlone, BucketsAhead, [Next]_vars,
         NEW q \in Part, DistributeStep(q), q \in Recursing
  PROVE  /\ Moving = {} /\ Moving' = {}
         /\ \A p \in Part : p # q => /\ pc[DistributeJob(p)] = "done"
                                     /\ pc'[DistributeJob(p)] = "done"
<1>1. Moving = {} /\ \A p \in Part : p # q => pc[DistributeJob(p)] = "done"
  BY DEF LastAlone
<1> QED BY <1>1, DistributeSets, DistributeFrame

LEMMA EarlyQuietStep ==
  Places /\ Spawning /\ LastAlone /\ EarlyQuiet /\ BucketsAhead /\ [Next]_vars
    => EarlyQuiet'
<1> SUFFICES ASSUME Places, Spawning, LastAlone, EarlyQuiet, BucketsAhead, ControlStep,
                    [Next]_vars
             PROVE  EarlyQuiet'
  BY NextControl
<1>0. Part' = Part /\ Bkt' = Bkt
  BY Constant DEF Bkt
<1>1. ASSUME \/ Sampled \/ Spawns(SampleJob) \/ SpawnOver(SampleJob)
             \/ \E q \in Part : CountStep(q)
             \/ \E q \in Part : DistributeStep(q) /\ Distributing(q)
      PROVE  EarlyQuiet'
  <2>1. Early' => Early
    BY <1>0, <1>1, EarlySteps DEF Early
  <2> QED BY <1>0, <1>1, <2>1, EarlySteps DEF EarlyQuiet
<1>2. ASSUME NEW q \in Part, DistributeStep(q), SignsOff(DistributeJob(q), "ddec", "recurse"),
             q \in Moving
      PROVE  EarlyQuiet'
  <2>1. /\ substeps' = substeps /\ alive' = alive /\ ~Enqueues(q)
    BY <1>2 DEF SignsOff, Goes, Enqueues
  <2>2. \A b \in Bkt : pc'[Substep(b)] = pc[Substep(b)]
    BY <1>2, <2>1, DistributeLeads
  <2>3. Early
    BY <1>2 DEF Early
  <2> QED BY <1>0, <2>1, <2>2, <2>3 DEF EarlyQuiet
<1>3. ASSUME NEW q \in Part, DistributeStep(q), q \in Recursing, pc'[DistributeJob(q)] # "recurse"
      PROVE  EarlyQuiet'
  <2>1. ~Early'
    BY <1>0, <1>3, RecursingSteps DEF Early
  <2> QED BY <2>1 DEF EarlyQuiet
<1>4. ASSUME NEW q \in Part, DistributeStep(q) PROVE EarlyQuiet'
  <2>1. CASE \/ Recurses(q) \/ PassesBucket(q) \/ Announces(q) \/ Enqueues(q)
             \/ BucketsOver(q) \/ Notifies(DistributeJob(q)) \/ Deletes(DistributeJob(q))
             \/ Frees(q)
    <3>1. pc'[DistributeJob(q)] # "recurse"
      BY <1>4, <2>1, DistributeLeads, AfterNotifyPlaces
    <3>2. CASE q \in Recursing
      BY <1>3, <1>4, <3>1, <3>2
    <3>3. CASE q \notin Recursing
      BY <1>1, <1>2, <1>4, <3>3, DistributeKinds
    <3> QED BY <3>2, <3>3
  <2> QED BY <1>1, <1>2, <1>4, <2>1, DistributeKinds
<1>5. ASSUME NEW b \in Bkt, SubstepStep(b) PROVE EarlyQuiet'
  <2>1. ~Early
    BY <1>5, SubstepFrame DEF EarlyQuiet
  <2>2. ~Early'
    BY <1>0, <1>5, <2>1, SubstepFrame DEF Early, Moving
  <2> QED BY <2>2 DEF EarlyQuiet
<1>6. ASSUME UNCHANGED <<pc, cur, pwork, substeps, alive>> PROVE EarlyQuiet'
  BY <1>0, <1>6 DEF EarlyQuiet, Early, Moving
<1> QED
  BY <1>1, <1>4, <1>5, <1>6 DEF ControlStep

LEMMA BucketsAheadStep ==
  Places /\ Spawning /\ LastAlone /\ EarlyQuiet /\ BucketsAhead /\ [Next]_vars
    => BucketsAhead'
<1> SUFFICES ASSUME Places, Spawning, LastAlone, EarlyQuiet, BucketsAhead, ControlStep,
                    [Next]_vars
             PROVE  BucketsAhead'
  BY NextControl
<1>0. Part' = Part /\ Bkt' = Bkt /\ BktNum' = BktNum /\ BktNum \in Nat /\ Bkt \subseteq Nat
  BY Constant, Sizes, Ranges DEF Bkt, BktNum, Places
<1>1. ASSUME \/ Sampled \/ Spawns(SampleJob) \/ SpawnOver(SampleJob)
             \/ \E q \in Part : CountStep(q)
             \/ \E q \in Part : DistributeStep(q) /\ Distributing(q)
      PROVE  BucketsAhead'
  BY <1>0, <1>1, EarlySteps DEF BucketsAhead
<1>2. ASSUME NEW q \in Part, DistributeStep(q), SignsOff(DistributeJob(q), "ddec", "recurse"),
             q \in Moving
      PROVE  BucketsAhead'
  <2>1. Recursing = {} /\ pc'[DistributeJob(q)] \in {"recurse", "done"}
    BY <1>2, DistributeLeads DEF LastAlone
  <2>2. \A p \in Part : pc'[DistributeJob(p)] \notin {"bucket", "enqueue"}
    BY <1>2, <2>1, DistributeFrame DEF Recursing, LastPlaces
  <2> QED BY <1>0, <2>2 DEF BucketsAhead
<1>3. ASSUME NEW q \in Part, DistributeStep(q), q \in Recursing,
             \/ Recurses(q) \/ PassesBucket(q) \/ Announces(q) \/ Enqueues(q)
             \/ BucketsOver(q) \/ Notifies(DistributeJob(q)) \/ Deletes(DistributeJob(q))
             \/ Frees(q)
      PROVE  BucketsAhead'
  <2>1. \A p \in Part : p # q => pc'[DistributeJob(p)] = "done"
    BY <1>3, RecursingSteps
  <2> SUFFICES /\ pc'[DistributeJob(q)] \in {"bucket", "enqueue"} =>
                    /\ cur'[DistributeJob(q)] \in 0 .. BktNum
                    /\ \A b \in Bkt : b >= cur'[DistributeJob(q)] => pc'[Substep(b)] = "none"
               /\ pc'[DistributeJob(q)] = "enqueue" => cur'[DistributeJob(q)] \in Bkt
    BY <1>0, <2>1 DEF BucketsAhead
  <2>2. CASE Recurses(q)
    <3>1. pc[DistributeJob(q)] = "recurse" /\ ~Enqueues(q)
      BY <2>2 DEF Recurses, Goes, Enqueues
    <3>2. \A b \in Bkt : pc[Substep(b)] = "none"
      BY <3>1 DEF EarlyQuiet, Early
    <3> QED BY <1>0, <1>3, <2>2, <3>1, <3>2, DistributeLeads
  <2>3. CASE PassesBucket(q) \/ Announces(q)
    <3>1. /\ pc[DistributeJob(q)] = "bucket" /\ cur[DistributeJob(q)] \in Bkt
          /\ ~Enqueues(q)
      BY <2>3 DEF PassesBucket, Announces, Goes, Enqueues
    <3>2. \A b \in Bkt : b >= cur[DistributeJob(q)] => pc[Substep(b)] = "none"
      BY <3>1 DEF BucketsAhead
    <3> QED BY <1>0, <1>3, <2>3, <3>1, <3>2, DistributeLeads DEF Bkt
  <2>4. CASE Enqueues(q)
    <3>1. pc[DistributeJob(q)] = "enqueue"
      BY <2>4 DEF Enqueues
    <3>2. /\ \A b \in Bkt : b >= cur[DistributeJob(q)] => pc[Substep(b)] = "none"
          /\ cur[DistributeJob(q)] \in Bkt
      BY <3>1 DEF BucketsAhead
    <3> QED BY <1>0, <1>3, <2>4, <3>1, <3>2, DistributeLeads DEF Bkt
  <2>5. CASE BucketsOver(q) \/ Notifies(DistributeJob(q)) \/ Deletes(DistributeJob(q)) \/ Frees(q)
    <3>1. pc'[DistributeJob(q)] \notin {"bucket", "enqueue"}
      BY <1>3, <2>5, DistributeLeads, AfterNotifyPlaces
    <3> QED BY <3>1
  <2> QED BY <1>3, <2>2, <2>3, <2>4, <2>5
<1>4. ASSUME NEW b \in Bkt, SubstepStep(b) PROVE BucketsAhead'
  BY <1>0, <1>4, SubstepFrame DEF BucketsAhead
<1>5. ASSUME UNCHANGED <<pc, cur, pwork, substeps, alive>> PROVE BucketsAhead'
  BY <1>0, <1>5 DEF BucketsAhead
<1> QED
  BY <1>1, <1>2, <1>3, <1>4, <1>5, DistributeKinds DEF ControlStep

-----------------------------------------------------------------------------
(* A set of jobs after one more or one less. *)
LEMMA OneMore ==
  ASSUME NEW S, IsFiniteSet(S), NEW x
  PROVE  /\ Cardinality(S) \in Nat
         /\ x \notin S => Cardinality(S \union {x}) = Cardinality(S) + 1
         /\ x \in S => Cardinality(S \ {x}) = Cardinality(S) - 1 /\ Cardinality(S) > 0
<1>1. Cardinality(S) \in Nat /\ (Cardinality(S) = 0 <=> S = {})
  BY FS_CardinalityType, FS_EmptySet
<1>2. ASSUME x \notin S PROVE Cardinality(S \union {x}) = Cardinality(S) + 1
  BY <1>2, FS_AddElement
<1>3. ASSUME x \in S PROVE Cardinality(S \ {x}) = Cardinality(S) - 1 /\ Cardinality(S) > 0
  <2>1. S # {}
    BY <1>3
  <2>2. Cardinality(S \ {x}) = Cardinality(S) - 1
    BY <1>3, FS_RemoveElement
  <2> QED BY <1>1, <2>1, <2>2
<1> QED BY <1>1, <1>2, <1>3

LEMMA HandlesStep ==
  Places /\ Spawning /\ LastAlone /\ EarlyQuiet /\ BucketsAhead /\ HandlesCount /\ [Next]_vars
    => HandlesCount'
<1> SUFFICES ASSUME Places, Spawning, LastAlone, EarlyQuiet, BucketsAhead, HandlesCount,
                    ControlStep, [Next]_vars
             PROVE  HandlesCount'
  BY NextControl
<1>0. Part' = Part /\ Bkt' = Bkt
  BY Constant DEF Bkt
<1>1. /\ IsFiniteSet(Handle) /\ IsFiniteSet(Announced) /\ IsFiniteSet(Running)
      /\ Cardinality(Handle) \in Nat /\ Cardinality(Announced) \in Nat
      /\ Cardinality(Running) \in Nat /\ substeps \in Int
  BY FiniteParts, OneMore DEF Places
<1>2. ASSUME \/ Sampled \/ Spawns(SampleJob) \/ SpawnOver(SampleJob)
             \/ \E q \in Part : CountStep(q)
             \/ \E q \in Part : DistributeStep(q) /\ Distributing(q)
      PROVE  HandlesCount'
  <2>1. Handle' = Handle /\ Announced' = Announced /\ Running' = Running
    BY <1>0, <1>2, EarlySteps DEF Handle, Announced, Running
  <2> QED BY <1>2, <2>1, EarlySteps DEF HandlesCount
<1>3. ASSUME NEW q \in Part, DistributeStep(q) PROVE HandlesCount'
  <2> DEFINE j == DistributeJob(q)
  <2>1. \A p \in Part : p # q => pc'[DistributeJob(p)] = pc[DistributeJob(p)]
    BY <1>3, DistributeFrame
  <2>2. CASE SignsOff(j, "ddec", "recurse")
    <3>1. pc[j] = "ddec" /\ pc'[j] \in {"recurse", "done"} /\ ~Enqueues(q) /\ substeps' = substeps
      BY <1>3, <2>2, DistributeLeads DEF SignsOff, Goes, Enqueues
    <3>2. Running' = Running
      BY <1>0, <1>3, <3>1, DistributeLeads DEF Running
    <3>3. Handle' = Handle /\ Announced' = Announced
      BY <1>0, <2>1, <3>1 DEF Handle, Announced
    <3> QED BY <3>1, <3>2, <3>3 DEF HandlesCount
  <2>3. CASE Recurses(q)
    <3>1. pc[j] = "recurse" /\ pc'[j] = "bucket" /\ ~Enqueues(q) /\ substeps' = substeps + 1
      BY <1>3, <2>3, DistributeLeads DEF Recurses, Goes, Enqueues
    <3>2. Running' = Running
      BY <1>0, <1>3, <3>1, DistributeLeads DEF Running
    <3>3. Handle' = Handle \union {q} /\ q \notin Handle /\ Announced' = Announced
      BY <1>0, <2>1, <3>1 DEF Handle, Announced
    <3>4. Cardinality(Handle') = Cardinality(Handle) + 1
      BY <1>1, <3>3, OneMore
    <3> QED BY <1>1, <3>1, <3>2, <3>3, <3>4 DEF HandlesCount
  <2>4. CASE PassesBucket(q) \/ BucketsOver(q)
    <3>1. /\ pc[j] = "bucket" /\ pc'[j] \in {"bucket", "notify"} /\ ~Enqueues(q)
          /\ substeps' = substeps
      BY <1>3, <2>4, DistributeLeads DEF PassesBucket, BucketsOver, Goes, Enqueues
    <3>2. Running' = Running
      BY <1>0, <1>3, <3>1, DistributeLeads DEF Running
    <3>3. Handle' = Handle /\ Announced' = Announced
      BY <1>0, <2>1, <3>1 DEF Handle, Announced
    <3> QED BY <3>1, <3>2, <3>3 DEF HandlesCount
  <2>5. CASE Announces(q)
    <3>1. pc[j] = "bucket" /\ pc'[j] = "enqueue" /\ ~Enqueues(q) /\ substeps' = substeps + 1
      BY <1>3, <2>5, DistributeLeads DEF Announces, Goes, Enqueues
    <3>2. Running' = Running
      BY <1>0, <1>3, <3>1, DistributeLeads DEF Running
    <3>3. Handle' = Handle /\ Announced' = Announced \union {q} /\ q \notin Announced
      BY <1>0, <2>1, <3>1 DEF Handle, Announced
    <3>4. Cardinality(Announced') = Cardinality(Announced) + 1
      BY <1>1, <3>3, OneMore
    <3> QED BY <1>1, <3>1, <3>2, <3>3, <3>4 DEF HandlesCount
  <2>6. CASE Enqueues(q)
    <3>1. pc[j] = "enqueue" /\ pc'[j] = "bucket" /\ substeps' = substeps
      BY <1>3, <2>6, DistributeLeads DEF Enqueues
    <3>2. cur[j] \in Bkt /\ pc[Substep(cur[j])] = "none"
      <4>1. cur[j] \in Bkt /\ \A b \in Bkt : b >= cur[j] => pc[Substep(b)] = "none"
        BY <3>1 DEF BucketsAhead
      <4>2. cur[j] \in Nat
        BY <4>1, Ranges DEF Places
      <4> QED BY <4>1, <4>2
    <3>3. Running' = Running \union {cur[j]} /\ cur[j] \notin Running
      <4>1. \A b \in Bkt : pc'[Substep(b)] = IF b = cur[j] THEN "queued" ELSE pc[Substep(b)]
        BY <1>3, <2>6, DistributeLeads
      <4> QED BY <1>0, <3>2, <4>1 DEF Running
    <3>4. Handle' = Handle /\ Announced' = Announced \ {q} /\ q \in Announced
      BY <1>0, <2>1, <3>1 DEF Handle, Announced
    <3>5. /\ Cardinality(Announced') = Cardinality(Announced) - 1
          /\ Cardinality(Running') = Cardinality(Running) + 1
      BY <1>1, <3>3, <3>4, OneMore
    <3> QED BY <1>1, <3>1, <3>4, <3>5 DEF HandlesCount
  <2>7. CASE Notifies(j)
    <3>1. /\ pc[j] = "notify" /\ pc'[j] \in {"alldone", "done", "freebkt"} /\ ~Enqueues(q)
          /\ substeps' = substeps - 1
      BY <1>3, <2>7, DistributeLeads, AfterNotifyPlaces DEF Notifies, Goes, Enqueues
    <3>2. Running' = Running
      BY <1>0, <1>3, <3>1, DistributeLeads DEF Running
    <3>3. Handle' = Handle \ {q} /\ q \in Handle /\ Announced' = Announced
      BY <1>0, <2>1, <3>1 DEF Handle, Announced
    <3>4. Cardinality(Handle') = Cardinality(Handle) - 1
      BY <1>1, <3>3, OneMore
    <3> QED BY <1>1, <3>1, <3>2, <3>3, <3>4 DEF HandlesCount
  <2>8. CASE Deletes(j) \/ Frees(q)
    <3>1. /\ pc[j] \in {"alldone", "freebkt"} /\ pc'[j] \in {"done", "freebkt"} /\ ~Enqueues(q)
          /\ substeps' = substeps
      BY <1>3, <2>8, DistributeLeads, AfterNotifyPlaces DEF Deletes, Frees, Goes, Enqueues
    <3>2. Running' = Running
      BY <1>0, <1>3, <3>1, DistributeLeads DEF Running
    <3>3. Handle' = Handle /\ Announced' = Announced
      BY <1>0, <2>1, <3>1 DEF Handle, Announced
    <3> QED BY <3>1, <3>2, <3>3 DEF HandlesCount
  <2> QED BY <1>2, <1>3, <2>2, <2>3, <2>4, <2>5, <2>6, <2>7, <2>8 DEF DistributeStep
<1>4. ASSUME NEW b \in Bkt, SubstepStep(b) PROVE HandlesCount'
  <2>1. Handle' = Handle /\ Announced' = Announced
    BY <1>0, <1>4, SubstepFrame DEF Handle, Announced
  <2>2. \A c \in Bkt : c # b => pc'[Substep(c)] = pc[Substep(c)]
    BY <1>4, SubstepFrame
  <2>3. Substep(b) \in Job /\ pc \in [Job -> Location]
    BY Jobs DEF Places
  <2>4. CASE Sorts(b)
    <3>1. pc[Substep(b)] = "queued" /\ pc'[Substep(b)] = "notify" /\ substeps' = substeps
      BY <2>3, <2>4 DEF Sorts, Goes
    <3>2. Running' = Running
      BY <1>0, <2>2, <3>1 DEF Running
    <3> QED BY <2>1, <3>1, <3>2 DEF HandlesCount
  <2>5. CASE Notifies(Substep(b))
    <3>1. /\ pc[Substep(b)] = "notify" /\ pc'[Substep(b)] \in {"alldone", "done"}
          /\ substeps' = substeps - 1
      BY <2>3, <2>5, AfterNotifyPlaces DEF Notifies, Goes
    <3>2. Running' = Running \ {b} /\ b \in Running
      BY <1>0, <2>2, <3>1 DEF Running
    <3>3. Cardinality(Running') = Cardinality(Running) - 1
      BY <1>1, <3>2, OneMore
    <3> QED BY <1>1, <2>1, <3>1, <3>3 DEF HandlesCount
  <2>6. CASE Deletes(Substep(b))
    <3>1. pc[Substep(b)] = "alldone" /\ pc'[Substep(b)] = "done" /\ substeps' = substeps
      BY <2>3, <2>6, AfterNotifyPlaces DEF Deletes, Goes
    <3>2. Running' = Running
      BY <1>0, <2>2, <3>1 DEF Running
    <3> QED BY <2>1, <3>1, <3>2 DEF HandlesCount
  <2> QED BY <1>4, <2>4, <2>5, <2>6 DEF SubstepStep
<1>5. ASSUME UNCHANGED <<pc, cur, pwork, substeps, alive>> PROVE HandlesCount'
  BY <1>0, <1>5 DEF HandlesCount, Handle, Announced, Running
<1> QED
  BY <1>2, <1>3, <1>4, <1>5 DEF ControlStep

(* Who holds a handle keeps the step. *)
LEMMA HeldByOne ==
  ASSUME Places, HandlesCount, AliveWhileHeld, Handle # {} \/ Running # {}
  PROVE  substeps > 0 /\ alive /\ \A j \in Job : pc[j] # "alldone"
<1>1. /\ Cardinality(Handle) \in Nat /\ Cardinality(Announced) \in Nat
      /\ Cardinality(Running) \in Nat
      /\ Cardinality(Handle) > 0 \/ Cardinality(Running) > 0
  BY FiniteParts, OneMore
<1>2. substeps > 0
  BY <1>1 DEF HandlesCount
<1> QED BY <1>2 DEF AliveWhileHeld

(* Who gives up the last handle deletes the step, and nobody else. *)
LEMMA NotifyHeld ==
  ASSUME Places, HandlesCount, AliveWhileHeld, NEW j \in Job, Notifies(j),
         Handle # {} \/ Running # {}, AfterNotify(j) # "alldone", Job' = Job
  PROVE  AliveWhileHeld'
<1>1. substeps > 0 /\ alive /\ \A i \in Job : pc[i] # "alldone"
  BY HeldByOne
<1>2. pc \in [Job -> Location] /\ substeps \in Int
  BY DEF Places
<1>3. /\ alive' = alive /\ substeps' = substeps - 1
      /\ \A i \in Job : pc'[i] = "alldone" => i = j /\ substeps = 1
  BY <1>1, <1>2 DEF Notifies, Goes
<1> QED BY <1>1, <1>2, <1>3 DEF AliveWhileHeld

LEMMA DeleteHeld ==
  ASSUME Places, AliveWhileHeld, NEW j \in Job, Deletes(j), AfterNotify(j) # "alldone",
         Job' = Job
  PROVE  AliveWhileHeld'
<1>1. pc \in [Job -> Location] /\ pc[j] = "alldone" /\ pc' = [pc EXCEPT ![j] = AfterNotify(j)]
  BY DEF Places, Deletes, Goes
<1>2. substeps = 0 /\ \A i \in Job : pc[i] = "alldone" => i = j
  BY <1>1 DEF AliveWhileHeld
<1>3. substeps' = 0 /\ \A i \in Job : pc'[i] # "alldone"
  BY <1>1, <1>2 DEF Deletes
<1> QED BY <1>3 DEF AliveWhileHeld

LEMMA AliveStep ==
  Places /\ Spawning /\ LastAlone /\ EarlyQuiet /\ BucketsAhead /\ HandlesCount
    /\ AliveWhileHeld /\ [Next]_vars => AliveWhileHeld'
<1> SUFFICES ASSUME Places, Spawning, LastAlone, EarlyQuiet, BucketsAhead, HandlesCount,
                    AliveWhileHeld, ControlStep, [Next]_vars
             PROVE  AliveWhileHeld'
  BY NextControl
<1>0. Part' = Part /\ Bkt' = Bkt /\ Job' = Job
  BY Constant DEF Bkt
<1>a. Places'
  BY PlacesStep
<1>b. \A j \in Job : pc'[j] = "alldone" => \/ \E p \in Part : j = DistributeJob(p)
                                           \/ \E b \in Bkt : j = Substep(b)
  <2>1. \A j \in Job' : pc'[j] = "alldone" => \/ \E p \in Part' : j = DistributeJob(p)
                                              \/ \E b \in Bkt' : j = Substep(b)
    BY <1>0, <1>a, Jobs DEF Places
  <2> QED BY <1>0, <2>1
<1>1. ASSUME substeps' = substeps, alive' = alive,
             \A j \in Job : pc'[j] = "alldone" => pc[j] = "alldone"
      PROVE  AliveWhileHeld'
  BY <1>0, <1>1 DEF AliveWhileHeld
<1>2. ASSUME substeps' = substeps, alive' = alive,
             \A p \in Part : pc'[DistributeJob(p)] = "alldone" => pc[DistributeJob(p)] = "alldone",
             \A b \in Bkt : pc'[Substep(b)] = "alldone" => pc[Substep(b)] = "alldone"
      PROVE  AliveWhileHeld'
  BY <1>b, <1>1, <1>2
<1>3. ASSUME \/ Sampled \/ Spawns(SampleJob) \/ SpawnOver(SampleJob)
             \/ \E q \in Part : CountStep(q)
             \/ \E q \in Part : DistributeStep(q) /\ Distributing(q)
      PROVE  AliveWhileHeld'
  BY <1>0, <1>2, <1>3, EarlySteps
<1>4. ASSUME NEW q \in Part, DistributeStep(q) PROVE AliveWhileHeld'
  <2> DEFINE j == DistributeJob(q)
  <2>0. /\ \A p \in Part : p # q => pc'[DistributeJob(p)] = pc[DistributeJob(p)]
        /\ j \in Job /\ AfterNotify(j) # "alldone"
    BY <1>4, DistributeFrame, Jobs, AfterNotifyPlaces
  <2>1. \A b \in Bkt : pc'[Substep(b)] = "alldone" => pc[Substep(b)] = "alldone"
    BY <1>4, DistributeLeads
  <2>2. CASE SignsOff(j, "ddec", "recurse")
    <3>1. substeps' = substeps /\ alive' = alive /\ pc'[j] # "alldone"
      BY <1>4, <2>2, DistributeLeads DEF SignsOff
    <3> QED BY <1>2, <2>0, <2>1, <3>1
  <2>3. CASE PassesBucket(q) \/ BucketsOver(q) \/ Frees(q) \/ Enqueues(q)
    <3>1. substeps' = substeps /\ alive' = alive
      BY <2>3 DEF PassesBucket, BucketsOver, Frees, Enqueues
    <3>2. pc'[j] # "alldone"
      BY <1>4, <2>3, DistributeLeads
    <3> QED BY <1>2, <2>0, <2>1, <3>1, <3>2
  <2>4. CASE Recurses(q)
    <3>1. pc[j] = "recurse" /\ pc'[j] = "bucket" /\ ~Enqueues(q)
      BY <1>4, <2>4, DistributeLeads DEF Recurses, Goes, Enqueues
    <3>2. alive /\ substeps = 0 /\ \A b \in Bkt : pc[Substep(b)] = "none"
      BY <3>1 DEF EarlyQuiet, Early
    <3>3. q \in Recursing
      BY <3>1 DEF Recursing, LastPlaces
    <3>4. \A p \in Part : pc'[DistributeJob(p)] # "alldone"
      BY <1>4, <3>1, <3>3, RecursingSteps
    <3>5. \A b \in Bkt : pc'[Substep(b)] # "alldone"
      BY <2>1, <3>2
    <3>6. alive' = alive
      BY <2>4 DEF Recurses
    <3>7. \A i \in Job : pc'[i] # "alldone"
      BY <1>b, <3>4, <3>5
    <3> QED BY <1>0, <3>2, <3>6, <3>7 DEF AliveWhileHeld
  <2>5. CASE Announces(q)
    <3>1. q \in Handle /\ alive' = alive
      BY <2>5 DEF Announces, Goes, Handle
    <3>2. alive /\ \A i \in Job : pc[i] # "alldone"
      BY <3>1, HeldByOne
    <3>3. \A i \in Job : pc'[i] # "alldone"
      <4>1. pc' = [pc EXCEPT ![j] = "enqueue"]
        BY <2>5 DEF Announces, Goes
      <4> QED BY <3>2, <4>1 DEF Places
    <3> QED BY <1>0, <3>1, <3>2, <3>3 DEF AliveWhileHeld
  <2>6. CASE Notifies(j)
    <3>1. q \in Handle
      BY <2>6 DEF Notifies, Goes, Handle
    <3> QED BY <1>0, <2>0, <2>6, <3>1, NotifyHeld
  <2>7. CASE Deletes(j)
    BY <1>0, <2>0, <2>7, DeleteHeld
  <2> QED BY <1>3, <1>4, <2>2, <2>3, <2>4, <2>5, <2>6, <2>7 DEF DistributeStep
<1>5. ASSUME NEW b \in Bkt, SubstepStep(b) PROVE AliveWhileHeld'
  <2>0. Substep(b) \in Job /\ AfterNotify(Substep(b)) # "alldone" /\ pc \in [Job -> Location]
    BY Jobs, AfterNotifyPlaces DEF Places
  <2>1. CASE Sorts(b)
    <3>1. \A i \in Job : pc'[i] = "alldone" => pc[i] = "alldone"
      BY <2>0, <2>1 DEF Sorts, Goes
    <3> QED BY <1>1, <2>1, <3>1 DEF Sorts
  <2>2. CASE Notifies(Substep(b))
    <3>1. b \in Running
      BY <2>2 DEF Notifies, Goes, Running
    <3> QED BY <1>0, <2>0, <2>2, <3>1, NotifyHeld
  <2>3. CASE Deletes(Substep(b))
    BY <1>0, <2>0, <2>3, DeleteHeld
  <2> QED BY <1>5, <2>1, <2>2, <2>3 DEF SubstepStep
<1>6. ASSUME UNCHANGED <<pc, cur, pwork, substeps, alive>> PROVE AliveWhileHeld'
  BY <1>1, <1>6
<1> QED
  BY <1>3, <1>4, <1>5, <1>6 DEF ControlStep

-----------------------------------------------------------------------------
LEMMA InitControl == Init => Control
<1> SUFFICES ASSUME Init PROVE Control
  OBVIOUS
<1>1. input \in Inputs /\ 0 \in Nat
  BY DEF Init
<1>2. /\ pc = [j \in Job |-> IF j = SampleJob THEN "queued" ELSE "none"]
      /\ cur = [j \in Job |-> 0] /\ pwork = 0 /\ substeps = 0 /\ alive = TRUE
  BY DEF Init
<1>3. /\ pc[SampleJob] = "queued" /\ cur[SampleJob] = 0
      /\ \A p \in Part : /\ pc[CountJob(p)] = "none" /\ cur[CountJob(p)] = 0
                         /\ pc[DistributeJob(p)] = "none" /\ cur[DistributeJob(p)] = 0
      /\ \A b \in Bkt : pc[Substep(b)] = "none"
      /\ \A j \in Job : pc[j] \in {"queued", "none"}
  BY <1>2, Jobs, JobsDiffer
<1>4. Places
  BY <1>1, <1>2, <1>3 DEF Places, Location
<1>5. Spawning
  BY <1>3 DEF Spawning, CountsSpawned, DistributesSpawned
<1>6. Phases /\ PworkCounts
  BY <1>3 DEF Phases, Summed, PworkCounts
<1>7. LastAlone /\ BucketsAhead
  BY <1>3 DEF LastAlone, Recursing, LastPlaces, BucketsAhead
<1>8. EarlyQuiet /\ AliveWhileHeld
  BY <1>2, <1>3 DEF EarlyQuiet, AliveWhileHeld
<1>9. Handle = {} /\ Announced = {} /\ Running = {}
  BY <1>3 DEF Handle, Announced, Running
<1>10. HandlesCount
  BY <1>2, <1>9, FS_EmptySet DEF HandlesCount
<1> QED BY <1>4, <1>5, <1>6, <1>7, <1>8, <1>10 DEF Control

LEMMA StepControl == Control /\ [Next]_vars => Control'
  BY PlacesStep, SpawningStep, PhasesStep, PworkStep, LastAloneStep, EarlyQuietStep,
     BucketsAheadStep, HandlesStep, AliveStep DEF Control

LEMMA ControlInvariant == Spec => []Control
  BY InitControl, StepControl, PTL DEF Spec

(* pwork is, in every step of every size, the number of jobs of the phase  *)
(* that have yet to decrement it, whatever the order they are taken in and *)
(* however late the loop is that creates them.                             *)
THEOREM PworkCorrect == Spec => []PworkExact
<1>1. Control => PworkExact
  BY DEF Control, PworkCounts, Summed, Moving, Counting, PworkExact, At
<1> QED BY <1>1, ControlInvariant, PTL

(* m_substep_working is the number of handles and of unfinished substeps,  *)
(* the step lives while there are any, and only the one that gave up the   *)
(* last of them is in substep_all_done().                                  *)
THEOREM HandlesCorrect == Spec => []HandlesExact
<1>1. Control => HandlesExact
  <2> SUFFICES ASSUME Control PROVE HandlesExact
    OBVIOUS
  <2>1. substeps = Cardinality(Handle) + Cardinality(Announced) + Cardinality(Running)
    BY DEF Control, HandlesCount
  <2>2. /\ substeps > 0 => alive
        /\ (\E j \in Job : pc[j] = "alldone") => alive /\ substeps = 0
    BY DEF Control, AliveWhileHeld
  <2> QED BY <2>1, <2>2 DEF HandlesExact, Handle, Announced, Running, At
<1> QED BY <1>1, ControlInvariant, PTL

-----------------------------------------------------------------------------
(* The arrays.  These are the actions that say more of them than nothing.  *)
ArrayStep ==
  \/ \E p \in Part : \/ Count(p) \/ CountFinished(p) \/ MoveString(p) \/ FreePart(p)
                     \/ DistributeFinished(p) \/ FreeBkt(DistributeJob(p))
  \/ \E j \in Job : AllDone(j)

(* What those who leave the arrays alone do to the control. *)
QuietStep ==
  \/ Sampled \/ Spawns(SampleJob) \/ SpawnOver(SampleJob)
  \/ \E p \in Part : \/ Spawns(CountJob(p)) \/ SpawnOver(CountJob(p))
                     \/ SignsOff(CountJob(p), "dec", "prefix")
                     \/ Distribute(p) \/ SignsOff(DistributeJob(p), "ddec", "recurse")
                     \/ PassesBucket(p) \/ Announces(p) \/ Enqueues(p) \/ BucketsOver(p)
                     \/ Notifies(DistributeJob(p))
  \/ \E b \in Bkt : Sorts(b) \/ Notifies(Substep(b))
  \/ UNCHANGED <<pc, cur, pwork, substeps, alive>>

LEMMA ArrayActions ==
  ASSUME Places, [Next]_vars
  PROVE  ArrayStep \/ (QuietStep /\ UNCHANGED <<bkt, cache>>)
<1> USE ActionControl
<1>1. ASSUME NEW j \in Job, StepOf(j) PROVE ArrayStep \/ (QuietStep /\ UNCHANGED <<bkt, cache>>)
  <2>1. CASE Sample
    <3>1. UNCHANGED <<bkt, cache>>
      BY <2>1 DEF Sample, heap
    <3> QED BY <2>1, <3>1 DEF QuietStep
  <2>2. CASE SpawnPart(j) \/ SpawnEnds(j) \/ SpawnReadsDeleted(j)
    <3>1. pc[j] = "spawn" /\ UNCHANGED <<bkt, cache>>
      BY <2>2 DEF SpawnPart, SpawnEnds, SpawnReadsDeleted, At, heap
    <3> QED BY <2>2, <3>1, PlacesOf DEF QuietStep
  <2>3. CASE \E p \in Part : Count(p) \/ CountDone(p) \/ CountFinished(p)
    <3>1. ASSUME NEW p \in Part, CountDone(p) PROVE UNCHANGED <<bkt, cache>>
      BY <3>1 DEF CountDone, heap
    <3> QED BY <2>3, <3>1 DEF QuietStep, ArrayStep
  <2>4. CASE \E p \in Part : Distribute(p) \/ MoveString(p) \/ FreePart(p)
    <3>1. ASSUME NEW p \in Part, Distribute(p) PROVE UNCHANGED <<bkt, cache>>
      BY <3>1 DEF Distribute, heap
    <3> QED BY <2>4, <3>1 DEF QuietStep, ArrayStep
  <2>5. CASE \E p \in Part : DistributeDone(p) \/ DistributeFinished(p)
    <3>1. ASSUME NEW p \in Part, DistributeDone(p) PROVE UNCHANGED <<bkt, cache>>
      BY <3>1 DEF DistributeDone, heap
    <3> QED BY <2>5, <3>1 DEF QuietStep, ArrayStep
  <2>6. CASE \/ SkipBucket(j) \/ CopyBackBucket(j) \/ AddSubstep(j) \/ EnqueueSubstep(j)
             \/ EndBuckets(j) \/ FreeBkt(j)
    <3>1. pc[j] \in {"bucket", "enqueue", "freebkt"}
      BY <2>6 DEF SkipBucket, CopyBackBucket, AddSubstep, EnqueueSubstep, EndBuckets, FreeBkt,
                  AtBucket, At
    <3>2. FreeBkt(j) \/ UNCHANGED <<bkt, cache>>
      BY <2>6 DEF SkipBucket, CopyBackBucket, AddSubstep, EnqueueSubstep, EndBuckets, heap
    <3> QED BY <2>6, <3>1, <3>2, PlacesOf DEF QuietStep, ArrayStep
  <2>7. CASE \E b \in Bkt : SubstepSorts(b)
    <3>1. ASSUME NEW b \in Bkt, SubstepSorts(b) PROVE UNCHANGED <<bkt, cache>>
      BY <3>1 DEF SubstepSorts, heap
    <3> QED BY <2>7, <3>1 DEF QuietStep
  <2>8. CASE Notify(j)
    <3>1. pc[j] = "notify" /\ UNCHANGED <<bkt, cache>>
      BY <2>8 DEF Notify, At, heap
    <3> QED BY <2>8, <3>1, PlacesOf DEF QuietStep
  <2>9. CASE AllDone(j)
    BY <2>9 DEF ArrayStep
  <2> QED
    BY <1>1, <2>1, <2>2, <2>3, <2>4, <2>5, <2>6, <2>7, <2>8, <2>9 DEF StepOf
<1>2. CASE Return \/ UNCHANGED vars
  <2>1. UNCHANGED <<bkt, cache>>
    BY <1>2 DEF Return, vars, heap
  <2> QED BY <1>2, <2>1 DEF QuietStep, vars, life
<1> QED BY <1>1, <1>2 DEF Next

(* Where they lead it, as far as the arrays depend on it. *)
LEMMA QuietLeads ==
  ASSUME Control, QuietStep, [Next]_vars
  PROVE  /\ \A p \in Part :
              /\ pc'[CountJob(p)] \in {"none", "queued"} <=> pc[CountJob(p)] \in {"none", "queued"}
              /\ pc'[DistributeJob(p)] \in {"none", "queued", "move"}
                   <=> pc[DistributeJob(p)] \in {"none", "queued", "move"}
              /\ pc'[DistributeJob(p)] = "freebkt" => pc[DistributeJob(p)] = "freebkt" \/ ~CalcLcp
         /\ ArraysGone' <=> ArraysGone
<1>0. Part' = Part /\ Bkt' = Bkt /\ CalcLcp' = CalcLcp
  BY Constant DEF Bkt
<1> DEFINE C(p) == pc[CountJob(p)] \in {"none", "queued"}
           D(p) == pc[DistributeJob(p)] \in {"none", "queued", "move"}
           F(p) == pc[DistributeJob(p)] = "freebkt"
<1> USE DEF Control
<1>1. ASSUME \A p \in Part : pc'[DistributeJob(p)] = pc[DistributeJob(p)], alive' = alive
      PROVE  ArraysGone' <=> ArraysGone
  <2>1. Moving' = Moving /\ Recursing' = Recursing
    BY <1>0, <1>1 DEF Moving, Recursing
  <2> QED BY <1>0, <1>1, <2>1 DEF ArraysGone
<1>2. CASE Sampled \/ Spawns(SampleJob) \/ SpawnOver(SampleJob)
  <2>1. \A p \in Part : pc'[CountJob(p)] \in {"none", "queued"} <=> C(p)
    <3>1. CASE Sampled \/ SpawnOver(SampleJob)
      BY <3>1, Jobs, JobsDiffer DEF Sampled, SpawnOver, Goes, Places
    <3>2. CASE Spawns(SampleJob)
      <4> DEFINE n == cur[SampleJob]
      <4>1. n \in Part /\ n \in Nat
        BY <3>2, Jobs, SpawnsNext, Ranges DEF Places
      <4>2. pc' = [pc EXCEPT ![CountJob(n)] = "queued"] /\ pc[SampleJob] = "spawn"
        BY <3>2, <4>1, SpawnedJobs DEF Spawns
      <4>3. pc[CountJob(n)] = "none"
        BY <4>1, <4>2 DEF Spawning, CountsSpawned
      <4> HIDE DEF n
      <4> QED BY <4>1, <4>2, <4>3, Jobs, JobsDiffer DEF Places
    <3> QED BY <1>2, <3>1, <3>2
  <2> QED BY <1>1, <1>2, <2>1, SampleFrame
<1>3. ASSUME NEW q \in Part, CountStep(q), ~Counted(q)
      PROVE  /\ \A p \in Part : /\ pc'[CountJob(p)] \in {"none", "queued"} <=> C(p)
                                /\ pc'[DistributeJob(p)] \in {"none", "queued", "move"} <=> D(p)
                                /\ pc'[DistributeJob(p)] = "freebkt" => F(p)
             /\ ArraysGone' <=> ArraysGone
  <2>1. \A p \in Part : \/ pc'[DistributeJob(p)] = pc[DistributeJob(p)]
                        \/ /\ pc[DistributeJob(p)] = "none"
                           /\ pc'[DistributeJob(p)] = "queued"
    BY <1>3, CountLeads
  <2>2. \A p \in Part : pc'[CountJob(p)] \in {"none", "queued"} <=> C(p)
    BY <1>3, CountLeads, CountFrame
  <2>3. Moving' = Moving /\ alive' = alive
    BY <1>3, CountSets, CountFrame
  <2>4. Recursing' = Recursing
    BY <1>0, <2>1 DEF Recursing, LastPlaces
  <2> QED BY <1>0, <2>1, <2>2, <2>3, <2>4 DEF ArraysGone
<1>4. ASSUME NEW q \in Part,
             \/ Spawns(CountJob(q)) \/ SpawnOver(CountJob(q))
             \/ SignsOff(CountJob(q), "dec", "prefix")
      PROVE  CountStep(q) /\ ~Counted(q)
  <2>1. CountStep(q)
    BY <1>4 DEF CountStep
  <2>2. pc[CountJob(q)] \in {"spawn", "dec"}
    BY <1>4 DEF Spawns, SpawnOver, SignsOff, Goes
  <2> QED BY <2>1, <2>2 DEF Counted, Goes
<1>5. ASSUME NEW q \in Part, DistributeStep(q)
      PROVE  /\ \A p \in Part : /\ pc'[CountJob(p)] = pc[CountJob(p)]
                                /\ p # q => pc'[DistributeJob(p)] = pc[DistributeJob(p)]
  BY <1>5, DistributeFrame
<1>6. ASSUME NEW q \in Part, Distribute(q)
      PROVE  /\ \A p \in Part : /\ pc'[CountJob(p)] \in {"none", "queued"} <=> C(p)
                                /\ pc'[DistributeJob(p)] \in {"none", "queued", "move"} <=> D(p)
                                /\ pc'[DistributeJob(p)] = "freebkt" => F(p)
             /\ ArraysGone' <=> ArraysGone
  <2>1. DistributeStep(q)
    BY <1>6, MovesAreDistributing DEF DistributeStep
  <2>2. pc[DistributeJob(q)] = "queued" /\ pc'[DistributeJob(q)] = "move" /\ alive' = alive
    BY <1>6, Jobs DEF Distribute, At, Set, life, Places
  <2>3. Moving' = Moving /\ Recursing' = Recursing
    BY <1>0, <1>5, <2>1, <2>2 DEF Moving, Recursing, LastPlaces
  <2> QED BY <1>0, <1>5, <2>1, <2>2, <2>3 DEF ArraysGone
<1>7. ASSUME NEW q \in Part, SignsOff(DistributeJob(q), "ddec", "recurse")
      PROVE  /\ \A p \in Part : /\ pc'[CountJob(p)] \in {"none", "queued"} <=> C(p)
                                /\ pc'[DistributeJob(p)] \in {"none", "queued", "move"} <=> D(p)
                                /\ pc'[DistributeJob(p)] = "freebkt" => F(p)
             /\ ArraysGone' <=> ArraysGone
  <2>1. DistributeStep(q)
    BY <1>7 DEF DistributeStep
  <2>2. /\ pc[DistributeJob(q)] = "ddec" /\ alive' = alive /\ pwork' = pwork - 1
        /\ pc'[DistributeJob(q)] = IF pwork = 1 THEN "recurse" ELSE "done"
    BY <1>7, <2>1, DistributeLeads DEF SignsOff, Goes
  <2>3. q \in Moving /\ Moving' = Moving \ {q} /\ Summed
    BY <1>7, <2>1, DistributeSets
  <2>4. pwork = Cardinality(Moving) /\ Cardinality(Moving \ {q}) = Cardinality(Moving) - 1
    BY <2>3, FiniteParts, OneMore DEF PworkCounts, Phases
  <2>5. ~ArraysGone
    BY <2>3 DEF ArraysGone
  <2>6. ~ArraysGone'
    <3>1. CASE pwork = 1
      <4>1. q \in Recursing'
        BY <1>0, <2>2, <3>1 DEF Recursing, LastPlaces
      <4>2. alive
        BY <2>3 DEF EarlyQuiet, Early
      <4> QED BY <2>2, <4>1, <4>2 DEF ArraysGone
    <3>2. CASE pwork # 1
      <4>1. Cardinality(Moving') # 0
        BY <2>3, <2>4, <3>2, FiniteParts, OneMore
      <4>2. Moving' # {}
        BY <4>1, FS_EmptySet
      <4> QED BY <4>2 DEF ArraysGone
    <3> QED BY <3>1, <3>2
  <2> QED BY <1>0, <1>5, <2>1, <2>2, <2>5, <2>6
<1>8. ASSUME NEW q \in Part,
             \/ PassesBucket(q) \/ Announces(q) \/ Enqueues(q) \/ BucketsOver(q)
             \/ Notifies(DistributeJob(q))
      PROVE  /\ \A p \in Part : /\ pc'[CountJob(p)] \in {"none", "queued"} <=> C(p)
                                /\ pc'[DistributeJob(p)] \in {"none", "queued", "move"} <=> D(p)
                                /\ pc'[DistributeJob(p)] = "freebkt" => F(p) \/ ~CalcLcp
             /\ ArraysGone' <=> ArraysGone
  <2>1. DistributeStep(q)
    BY <1>8 DEF DistributeStep
  <2>2. pc[DistributeJob(q)] \in {"bucket", "enqueue", "notify"} /\ alive' = alive
    BY <1>8 DEF PassesBucket, Announces, Enqueues, BucketsOver, Notifies, Goes
  <2>3. \/ pc'[DistributeJob(q)] \in {"bucket", "enqueue", "notify", "alldone"}
        \/ pc'[DistributeJob(q)] = IF CalcLcp THEN "done" ELSE "freebkt"
    BY <1>8, <2>1, DistributeLeads, AfterNotifyPlaces
  <2>4. q \in Recursing
    BY <2>2 DEF Recursing, LastPlaces
  <2>5. Moving = {} /\ Moving' = {}
    BY <2>1, <2>4, RecursingSteps
  <2>6. ArraysGone' <=> ArraysGone
    <3>1. CASE CalcLcp
      BY <1>0, <2>2, <2>5, <3>1 DEF ArraysGone
    <3>2. CASE ~CalcLcp
      <4>1. q \in Recursing'
        BY <1>0, <2>3, <3>2 DEF Recursing, LastPlaces
      <4> QED BY <1>0, <2>4, <2>5, <3>2, <4>1 DEF ArraysGone
    <3> QED BY <3>1, <3>2
  <2> QED BY <1>0, <1>5, <2>1, <2>2, <2>3, <2>6
<1>9. ASSUME NEW b \in Bkt, Sorts(b) \/ Notifies(Substep(b))
      PROVE  /\ \A p \in Part : /\ pc'[CountJob(p)] = pc[CountJob(p)]
                                /\ pc'[DistributeJob(p)] = pc[DistributeJob(p)]
             /\ alive' = alive
  BY <1>9, SubstepFrame DEF SubstepStep, Sorts, Notifies
<1>10. CASE UNCHANGED <<pc, cur, pwork, substeps, alive>>
  BY <1>1, <1>10
<1>11. CASE \E b \in Bkt : Sorts(b) \/ Notifies(Substep(b))
  BY <1>1, <1>9, <1>11
<1>12. CASE \E p \in Part : \/ Spawns(CountJob(p)) \/ SpawnOver(CountJob(p))
                            \/ SignsOff(CountJob(p), "dec", "prefix")
  BY <1>3, <1>4, <1>12
<1>13. CASE \E p \in Part : Distribute(p) \/ SignsOff(DistributeJob(p), "ddec", "recurse")
  BY <1>6, <1>7, <1>13
<1>14. CASE \E p \in Part : \/ PassesBucket(p) \/ Announces(p) \/ Enqueues(p) \/ BucketsOver(p)
                            \/ Notifies(DistributeJob(p))
  BY <1>8, <1>14
<1> QED
  BY <1>2, <1>10, <1>11, <1>12, <1>13, <1>14 DEF QuietStep

(* Null is none of the arrays. *)
LEMMA ArraysNotNull ==
  ASSUME input \in Inputs, NEW p \in Part
  PROVE  /\ \A f \in [BktDomain(p) -> Int] : f # Null
         /\ \A f \in [PartIndex(p) -> Bkt] : f # Null
         /\ PartIndex(p) \subseteq Index /\ Index \subseteq Nat
<1>1. /\ NumStrings \in Nat \ {0} /\ PartSize \in Nat \ {0} /\ p \in Nat /\ BktNum \in Nat \ {0}
      /\ Bkt \subseteq Int
  BY Sizes, Ranges DEF Bkt
<1>2. \A f \in [BktDomain(p) -> Int] : f # Null
  BY <1>1, NullAssumption DEF BktDomain
<1> DEFINE lo == p * PartSize
           hi == Min({(p + 1) * PartSize, NumStrings})
<1>3. lo \in Nat /\ (p + 1) * PartSize \in Nat
  BY <1>1
<1>4. hi \in Nat /\ hi <= NumStrings
  <2> DEFINE a == (p + 1) * PartSize
  <2>1. a \in Int /\ NumStrings \in Int /\ a \in Nat
    BY <1>1, <1>3
  <2> HIDE DEF a
  <2>2. Min({a, NumStrings}) \in {a, NumStrings} /\ Min({a, NumStrings}) <= NumStrings
    BY <2>1, MinOfTwo
  <2> QED BY <1>1, <2>1, <2>2 DEF a
<1>5. PartIndex(p) = lo .. hi - 1
  BY DEF PartIndex
<1> HIDE DEF lo, hi
<1>6. PartIndex(p) \subseteq Index /\ Index \subseteq Nat
  BY <1>1, <1>3, <1>4, <1>5 DEF Index
<1>7. Null \notin [PartIndex(p) -> Int]
  <2>1. CASE lo <= NumStrings
    BY <1>1, <1>3, <1>4, <1>5, <2>1, NullAssumption DEF NumStrings
  <2>2. CASE ~(lo <= NumStrings)
    <3>1. lo .. hi - 1 = 0 .. 0 - 1
      BY <1>1, <1>3, <1>4, <2>2
    <3>2. 0 \in 0 .. Len(input.keys)
      BY <1>1 DEF NumStrings
    <3> QED BY <1>5, <3>1, <3>2, NullAssumption
  <2> QED BY <2>1, <2>2
<1>8. \A f \in [PartIndex(p) -> Bkt] : f # Null
  BY <1>1, <1>7
<1> QED BY <1>2, <1>6, <1>8

(* Every key has a bucket. *)
LEMMA BucketInRange ==
  ASSUME DOMAIN splitter = 0 .. NumSplitters - 1, NEW k
  PROVE  Bucket(k) \in Bkt
<1> DEFINE L == {i \in DOMAIN splitter : splitter[i] < k}
           less == Cardinality(L)
<1>1. NumSplitters \in Nat \ {0} /\ L \subseteq 0 .. NumSplitters - 1
  BY SizeAssumption
<1>2. IsFiniteSet(0 .. NumSplitters - 1) /\ Cardinality(0 .. NumSplitters - 1) = NumSplitters
  BY <1>1, FS_Interval
<1>3. less \in Nat /\ less <= NumSplitters
  <2> HIDE DEF L
  <2>1. IsFiniteSet(L) /\ Cardinality(L) <= Cardinality(0 .. NumSplitters - 1)
    BY <1>1, <1>2, FS_Subset
  <2> QED BY <1>2, <2>1, FS_CardinalityType
<1>4. Bucket(k) = IF less \in DOMAIN splitter /\ splitter[less] = k THEN 2 * less + 1 ELSE 2 * less
  BY DEF Bucket, BucketIn
<1> HIDE DEF less
<1> QED BY <1>1, <1>3, <1>4 DEF Bkt, BktNum

LEMMA PartFinite ==
  ASSUME input \in Inputs, NEW p \in Part
  PROVE  IsFiniteSet(Index) /\ IsFiniteSet(PartIndex(p))
<1>1. IsFiniteSet(Index)
  BY Sizes, FS_Interval DEF Index
<1> QED BY <1>1, ArraysNotNull, FS_Subset

(* What each of the actions does to the arrays, and where it leads its job. *)
LEMMA CountArrays ==
  ASSUME Control, ArrayTypes, NEW p \in Part, Count(p)
  PROVE  LET ids == [i \in PartIndex(p) |-> Bucket(KeyOf(arr[active][i]))]
             num == [b \in BktDomain(p) |-> Cardinality({i \in PartIndex(p) : ids[i] = b})]
         IN  /\ ids \in [PartIndex(p) -> Bkt] /\ num \in [BktDomain(p) -> Int]
             /\ cache' = [cache EXCEPT ![p] = ids] /\ bkt' = [bkt EXCEPT ![p] = num]
             /\ CountStep(p) /\ Counted(p) /\ p \in Counting /\ splitter' = splitter
             /\ pc[SampleJob] # "queued"
<1> DEFINE ids == [i \in PartIndex(p) |-> Bucket(KeyOf(arr[active][i]))]
           num == [b \in BktDomain(p) |-> Cardinality({i \in PartIndex(p) : ids[i] = b})]
<1>1. pc[CountJob(p)] = "queued"
  BY DEF Count, At
<1>2. pc[SampleJob] # "queued" /\ p \in Counting
  BY <1>1 DEF Control, Spawning, CountsSpawned, Counting
<1>3. ids \in [PartIndex(p) -> Bkt]
  BY <1>2, BucketInRange DEF ArrayTypes
<1>4. IsFiniteSet(PartIndex(p))
  BY PartFinite DEF Control, Places
<1>5. ASSUME NEW b PROVE Cardinality({i \in PartIndex(p) : ids[i] = b}) \in Int
  <2> DEFINE S == {i \in PartIndex(p) : ids[i] = b}
  <2>1. S \subseteq PartIndex(p)
    OBVIOUS
  <2> HIDE DEF S
  <2>2. Cardinality(S) \in Int
    BY <1>4, <2>1, FS_Subset, FS_CardinalityType
  <2> QED BY <2>2 DEF S
<1>6. num \in [BktDomain(p) -> Int]
  BY <1>5
<1>7. cache' = [cache EXCEPT ![p] = ids] /\ bkt' = [bkt EXCEPT ![p] = num]
  BY DEF Count, BktDomain
<1>8. CountStep(p) /\ Counted(p) /\ splitter' = splitter
  BY ActionControl DEF CountStep, Count
<1> QED BY <1>2, <1>3, <1>6, <1>7, <1>8

LEMMA CountFinishedArrays ==
  ASSUME Control, Arrays, ArrayTypes, NEW p \in Part, CountFinished(p)
  PROVE  /\ \A q \in Part : /\ bkt[q] \in [BktDomain(q) -> Int] /\ cache[q] # Null
                            /\ bkt'[q] \in [BktDomain(q) -> Int]
                            /\ \A b \in Bkt : PrefixSum(b, q) \in Int
                                              /\ bkt'[q][b] = PrefixSum(b, q)
                                              /\ b \in BktDomain(q)
         /\ DOMAIN bkt' = Part /\ cache' = cache /\ splitter' = splitter
         /\ CountStep(p) /\ ~Counted(p) /\ Counting = {} /\ Moving = Part
<1>1. pc[CountJob(p)] = "prefix"
  BY DEF CountFinished, At
<1>2. Counting = {} /\ ~Summed
  BY <1>1 DEF Control, Phases
<1>3. \A q \in Part : /\ pc[CountJob(q)] \notin {"none", "queued"}
                      /\ pc[DistributeJob(q)] = "none"
  BY <1>2 DEF Counting, Summed
<1>4. Moving = Part /\ 0 \in Part /\ input \in Inputs
  BY <1>3, Ranges DEF Moving, Control, Places
<1>5. \A q \in Part : bkt[q] # Null /\ cache[q] # Null
  <2>1. \A q \in Part : cache[q] # Null
    BY <1>3 DEF Arrays
  <2>2. ~ArraysGone
    BY <1>4 DEF ArraysGone
  <2>3. bkt[0] # Null
    BY <1>3, <1>4, <2>2 DEF Arrays
  <2> QED BY <2>1, <2>3 DEF Arrays
<1>6. \A q \in Part : bkt[q] \in [BktDomain(q) -> Int]
  BY <1>5 DEF ArrayTypes
<1>7. /\ IsFiniteSet(Part) /\ IsFiniteSet(Bkt) /\ Bkt \subseteq Nat /\ BktNum \in Nat
      /\ Part \subseteq Nat
  BY <1>4, Ranges, Sizes
<1>8. \A q \in Part : Bkt \subseteq BktDomain(q)
  BY <1>7 DEF Bkt, BktDomain
<1>9. ASSUME NEW q \in Part, NEW b \in Bkt PROVE PrefixSum(b, q) \in Int
  <2> DEFINE S == {x \in (0 .. b) \X Part : x[1] < b \/ x[2] <= q}
             f == [x \in Bkt \X Part |-> bkt[x[2]][x[1]]]
  <2>1. b \in Nat /\ 0 .. b \subseteq Bkt
    BY <1>7 DEF Bkt
  <2>2. IsFiniteSet(Bkt \X Part)
    BY <1>7, FS_Product
  <2>3. S \subseteq Bkt \X Part
    BY <2>1
  <2>4. \A x \in Bkt \X Part : f[x] \in Int
    BY <1>6, <1>8
  <2>5. PrefixSum(b, q) = SumFunctionOnSet(f, S)
    BY DEF PrefixSum
  <2> HIDE DEF S, f
  <2>6. IsFiniteSet(S) /\ \A x \in S : f[x] \in Int
    BY <2>2, <2>3, <2>4, FS_Subset
  <2> QED BY <2>5, <2>6, SumInt
<1>10. bkt' = [q \in Part |-> [b \in DOMAIN bkt[q] |-> IF b \in Bkt THEN PrefixSum(b, q)
                                                       ELSE bkt[q][b]]]
  BY DEF CountFinished
<1>11. \A q \in Part : bkt'[q] = [b \in BktDomain(q) |-> IF b \in Bkt THEN PrefixSum(b, q)
                                                         ELSE bkt[q][b]]
  BY <1>6, <1>10
<1>12. \A q \in Part : /\ bkt'[q] \in [BktDomain(q) -> Int]
                       /\ \A b \in Bkt : b \in BktDomain(q) /\ bkt'[q][b] = PrefixSum(b, q)
  <2> SUFFICES ASSUME NEW q \in Part
               PROVE  /\ bkt'[q] \in [BktDomain(q) -> Int]
                      /\ \A b \in Bkt : b \in BktDomain(q) /\ bkt'[q][b] = PrefixSum(b, q)
    OBVIOUS
  <2> DEFINE F == [b \in BktDomain(q) |-> IF b \in Bkt THEN PrefixSum(b, q) ELSE bkt[q][b]]
  <2>1. bkt'[q] = F
    BY <1>11
  <2>2. \A b \in BktDomain(q) : F[b] \in Int /\ (b \in Bkt => F[b] = PrefixSum(b, q))
    BY <1>6, <1>9
  <2>3. F \in [BktDomain(q) -> Int]
    BY <2>2
  <2> HIDE DEF F
  <2> QED BY <1>8, <2>1, <2>2, <2>3
<1>13. CountStep(p) /\ ~Counted(p) /\ cache' = cache /\ splitter' = splitter
  BY <1>1, ActionControl DEF CountStep, Counted, Goes, CountFinished
<1> QED BY <1>2, <1>4, <1>5, <1>6, <1>9, <1>10, <1>12, <1>13

(* A distributor that still moves strings has its counters. *)
LEMMA MovingArrays ==
  ASSUME Control, Arrays, ArrayTypes, NEW p \in Part,
         pc[DistributeJob(p)] \in {"queued", "move"}
  PROVE  /\ bkt[p] # Null /\ bkt[p] \in [BktDomain(p) -> Int]
         /\ cache[p] # Null /\ cache[p] \in [PartIndex(p) -> Bkt]
         /\ p \in Moving /\ Summed /\ Bkt \subseteq BktDomain(p)
<1>1. p \in Moving /\ Summed
  BY DEF Moving, Summed
<1>2. pc[CountJob(p)] \notin {"none", "queued"}
  BY <1>1 DEF Control, Phases, Counting
<1>3. cache[p] # Null
  BY <1>2 DEF Arrays
<1>4. bkt[p] # Null
  BY <1>1, <1>2, <1>3 DEF Arrays, ArraysGone
<1>5. Bkt \subseteq BktDomain(p)
  BY Sizes DEF Bkt, BktDomain, Control, Places
<1> QED BY <1>1, <1>3, <1>4, <1>5 DEF ArrayTypes

LEMMA MoveArrays ==
  ASSUME Control, Arrays, ArrayTypes, NEW p \in Part, MoveString(p)
  PROVE  LET i == cur[DistributeJob(p)]
             b == cache[p][i]
         IN  /\ pc[DistributeJob(p)] = "move" /\ pc' = pc /\ i \in PartIndex(p) /\ b \in Bkt
             /\ bkt[p] \in [BktDomain(p) -> Int] /\ cache[p] \in [PartIndex(p) -> Bkt]
             /\ bkt' = [bkt EXCEPT ![p] = [bkt[p] EXCEPT ![b] = bkt[p][b] - 1]]
             /\ [bkt[p] EXCEPT ![b] = bkt[p][b] - 1] \in [BktDomain(p) -> Int]
             /\ cache' = cache /\ splitter' = splitter /\ alive' = alive
<1> DEFINE i == cur[DistributeJob(p)]
           b == cache[p][i]
<1>1. /\ pc[DistributeJob(p)] = "move" /\ pc' = pc /\ i \in PartIndex(p)
      /\ cache' = cache /\ splitter' = splitter /\ alive' = alive
  BY DEF MoveString, At, life
<1>2. /\ bkt[p] \in [BktDomain(p) -> Int] /\ cache[p] \in [PartIndex(p) -> Bkt]
      /\ Bkt \subseteq BktDomain(p)
  BY <1>1, MovingArrays
<1>3. b \in Bkt
  BY <1>1, <1>2
<1>4. bkt' = [bkt EXCEPT ![p][b] = bkt[p][b] - 1]
  BY DEF MoveString
<1>5. bkt' = [bkt EXCEPT ![p] = [bkt[p] EXCEPT ![b] = bkt[p][b] - 1]]
  BY <1>4 DEF ArrayTypes
<1>6. bkt[p][b] - 1 \in Int
  BY <1>2, <1>3
<1>7. [bkt[p] EXCEPT ![b] = bkt[p][b] - 1] \in [BktDomain(p) -> Int]
  BY <1>2, <1>3, <1>6
<1> QED BY <1>1, <1>2, <1>3, <1>5, <1>7

LEMMA FreeArrays ==
  ASSUME Control, NEW p \in Part, FreePart(p)
  PROVE  /\ pc[DistributeJob(p)] = "move" /\ pc'[DistributeJob(p)] = "ddec" /\ p \in Moving
         /\ bkt' = IF p # 0 THEN [bkt EXCEPT ![p] = Null] ELSE bkt
         /\ cache' = [cache EXCEPT ![p] = Null] /\ splitter' = splitter /\ alive' = alive
         /\ DistributeStep(p) /\ Distributing(p)
<1>1. DistributeStep(p) /\ Distributing(p)
  BY MovesAreDistributing DEF Control, DistributeStep
<1>2. pc[DistributeJob(p)] = "move" /\ pc'[DistributeJob(p)] = "ddec"
  BY Jobs DEF FreePart, At, Set, Control, Places
<1> QED BY <1>1, <1>2 DEF FreePart, Moving, life

LEMMA RecursingArrays ==
  ASSUME Control, Arrays, ArrayTypes, NEW p \in Part,
         pc[DistributeJob(p)] \in {"recurse", "bucket", "enqueue"}
  PROVE  bkt[0] # Null /\ bkt[0] \in [BktDomain(0) -> Int] /\ alive /\ p \in Recursing
<1>1. p \in Recursing /\ Summed
  BY DEF Recursing, LastPlaces, Summed
<1>2. alive
  <2>1. CASE pc[DistributeJob(p)] = "recurse"
    BY <2>1 DEF Control, EarlyQuiet, Early
  <2>2. CASE pc[DistributeJob(p)] # "recurse"
    <3>1. p \in Handle
      BY <2>2 DEF Handle
    <3> QED BY <3>1, HeldByOne DEF Control
  <2> QED BY <2>1, <2>2
<1>3. pc[CountJob(0)] \notin {"none", "queued"} /\ 0 \in Part
  BY <1>1, Ranges DEF Control, Phases, Counting, Places
<1>4. ~ArraysGone
  BY <1>1, <1>2 DEF ArraysGone
<1>5. bkt[0] # Null
  BY <1>3, <1>4 DEF Arrays
<1> QED BY <1>1, <1>2, <1>3, <1>5 DEF ArrayTypes

LEMMA FinishedArrays ==
  ASSUME Control, Arrays, ArrayTypes, NEW p \in Part, DistributeFinished(p)
  PROVE  /\ pc[DistributeJob(p)] = "recurse" /\ pc'[DistributeJob(p)] = "bucket"
         /\ p \in Recursing /\ bkt[0] # Null
         /\ bkt' = [bkt EXCEPT ![0] = [bkt[0] EXCEPT ![BktNum] = NumStrings]]
         /\ [bkt[0] EXCEPT ![BktNum] = NumStrings] \in [BktDomain(0) -> Int]
         /\ cache' = cache /\ splitter' = splitter /\ alive' = alive
         /\ DistributeStep(p)
<1>1. /\ pc[DistributeJob(p)] = "recurse" /\ pc'[DistributeJob(p)] = "bucket"
      /\ cache' = cache /\ splitter' = splitter /\ alive' = alive
  BY Jobs DEF DistributeFinished, At, Set, life, Control, Places
<1>2. bkt[0] # Null /\ bkt[0] \in [BktDomain(0) -> Int] /\ p \in Recursing
  BY <1>1, RecursingArrays
<1>3. NumStrings \in Int /\ 0 \in Part
  BY Sizes, Ranges DEF Control, Places
<1>4. bkt' = [bkt EXCEPT ![0] = [bkt[0] EXCEPT ![BktNum] = NumStrings]]
  BY <1>3 DEF DistributeFinished, ArrayTypes
<1>5. DistributeStep(p)
  BY ActionControl DEF DistributeStep
<1> QED BY <1>1, <1>2, <1>3, <1>4, <1>5

LEMMA AllDoneArrays ==
  ASSUME Control, NEW j \in Job, AllDone(j), [Next]_vars
  PROVE  /\ pc[j] = "alldone" /\ pc' = [pc EXCEPT ![j] = AfterNotify(j)]
         /\ Moving = {} /\ Moving' = {} /\ ~alive' /\ alive
         /\ \A p \in Part : /\ pc'[CountJob(p)] = pc[CountJob(p)]
                            /\ pc'[DistributeJob(p)] = "freebkt" =>
                                 pc[DistributeJob(p)] = "freebkt" \/ ~CalcLcp
         /\ ~CalcLcp => Recursing' = Recursing
         /\ bkt' = IF CalcLcp THEN [bkt EXCEPT ![0] = Null] ELSE bkt
         /\ cache' = cache /\ splitter' = splitter
<1> USE DEF Control
<1>0. Part' = Part
  BY Constant
<1>1. /\ pc[j] = "alldone" /\ pc' = [pc EXCEPT ![j] = AfterNotify(j)]
      /\ bkt' = IF CalcLcp THEN [bkt EXCEPT ![0] = Null] ELSE bkt
      /\ cache' = cache /\ splitter' = splitter
  BY DEF AllDone, At, Set
<1>2. alive' = FALSE
  BY DEF AllDone
<1>3. ~alive'
  BY <1>2, Zenon
<1>4. alive
  BY <1>1 DEF AliveWhileHeld
<1>5. CASE \E p \in Part : j = DistributeJob(p)
  <2>1. PICK p \in Part : j = DistributeJob(p)
    BY <1>5
  <2>2. p \in Recursing
    BY <1>1, <2>1 DEF Recursing, LastPlaces
  <2>3. DistributeStep(p)
    BY <2>1, ActionControl DEF DistributeStep
  <2>4. Moving = {} /\ Moving' = {}
    BY <2>2, <2>3, RecursingSteps
  <2>5. /\ \A q \in Part : /\ pc'[CountJob(q)] = pc[CountJob(q)]
                           /\ q # p => pc'[DistributeJob(q)] = pc[DistributeJob(q)]
        /\ pc'[DistributeJob(p)] = IF CalcLcp THEN "done" ELSE "freebkt"
    BY <1>1, <2>1, <2>3, DistributeFrame, AfterNotifyPlaces, Jobs DEF Places
  <2>6. ~CalcLcp => Recursing' = Recursing
    BY <1>0, <2>2, <2>5 DEF Recursing, LastPlaces
  <2> QED BY <1>1, <1>3, <1>4, <2>4, <2>5, <2>6
<1>6. CASE \E b \in Bkt : j = Substep(b)
  <2>1. PICK b \in Bkt : j = Substep(b)
    BY <1>6
  <2>2. SubstepStep(b)
    BY <2>1, ActionControl DEF SubstepStep
  <2>3. \A q \in Part : /\ pc'[CountJob(q)] = pc[CountJob(q)]
                        /\ pc'[DistributeJob(q)] = pc[DistributeJob(q)]
    BY <2>2, SubstepFrame
  <2>4. Moving = {}
    BY <1>1, <2>1 DEF EarlyQuiet, Early
  <2>5. Moving' = Moving /\ Recursing' = Recursing
    BY <1>0, <2>3 DEF Moving, Recursing
  <2> QED BY <1>1, <1>3, <1>4, <2>3, <2>4, <2>5
<1> QED BY <1>1, <1>5, <1>6, PlacesOf

LEMMA FreeBktArrays ==
  ASSUME Control, Arrays, NEW p \in Part, FreeBkt(DistributeJob(p)), [Next]_vars
  PROVE  /\ pc[DistributeJob(p)] = "freebkt" /\ pc'[DistributeJob(p)] = "done"
         /\ Moving = {} /\ Moving' = {} /\ Recursing' = {} /\ ~CalcLcp
         /\ bkt' = [bkt EXCEPT ![0] = Null] /\ cache' = cache /\ splitter' = splitter
         /\ DistributeStep(p)
<1> USE DEF Control
<1>1. /\ pc[DistributeJob(p)] = "freebkt" /\ pc'[DistributeJob(p)] = "done"
      /\ bkt' = [bkt EXCEPT ![0] = Null] /\ cache' = cache /\ splitter' = splitter
  BY Jobs DEF FreeBkt, At, Set, Places
<1>2. DistributeStep(p) /\ p \in Recursing
  BY <1>1, ActionControl DEF DistributeStep, Recursing, LastPlaces
<1>3. /\ Moving = {} /\ Moving' = {}
      /\ \A q \in Part : q # p => pc'[DistributeJob(q)] = "done"
  BY <1>2, RecursingSteps
<1>4. Part' = Part
  BY Constant
<1>5. Recursing' = {}
  BY <1>1, <1>3, <1>4 DEF Recursing, LastPlaces
<1> QED BY <1>1, <1>2, <1>3, <1>5 DEF Arrays

LEMMA ArrayTypesStep == Control /\ Arrays /\ ArrayTypes /\ [Next]_vars => ArrayTypes'
<1> SUFFICES ASSUME Control, Arrays, ArrayTypes, [Next]_vars PROVE ArrayTypes'
  OBVIOUS
<1> USE DEF Control
<1>0. /\ Part' = Part /\ \A p \in Part : BktDomain(p)' = BktDomain(p)
      /\ \A p \in Part : PartIndex(p)' = PartIndex(p)
      /\ Bkt' = Bkt /\ 0 \in Part
  BY Constant, Ranges DEF BktDomain, Bkt, BktNum, Places
<1>1. (pc[SampleJob] # "queued" => DOMAIN splitter = 0 .. NumSplitters - 1)'
  <2>1. CASE pc[SampleJob] = "queued"
    <3>1. Sampled \/ pc'[SampleJob] = "queued"
      BY <2>1, NextControl, SampleFrame, CountFrame, DistributeFrame, SubstepFrame
         DEF ControlStep, Spawns, SpawnOver, Goes
    <3> QED BY <3>1 DEF Sampled
  <2>2. CASE pc[SampleJob] # "queued"
    <3>1. ~Sample
      BY <2>2 DEF Sample, At
    <3>2. splitter' = splitter
      BY <3>1, StepKeeps DEF Next, vars, Return
    <3> QED BY <2>2, <3>2 DEF ArrayTypes
  <2> QED BY <2>1, <2>2
<1>2. ASSUME NEW p \in Part, Count(p) PROVE ArrayTypes'
  <2>1. PICK ids \in [PartIndex(p) -> Bkt], num \in [BktDomain(p) -> Int] :
          cache' = [cache EXCEPT ![p] = ids] /\ bkt' = [bkt EXCEPT ![p] = num]
    BY <1>2, CountArrays
  <2>2. DOMAIN bkt' = Part /\ DOMAIN cache' = Part
    BY <2>1 DEF ArrayTypes
  <2>3. ASSUME NEW q \in Part
        PROVE  /\ bkt'[q] = Null \/ bkt'[q] \in [BktDomain(q) -> Int]
               /\ cache'[q] = Null \/ cache'[q] \in [PartIndex(q) -> Bkt]
    <3>1. CASE q = p
      BY <2>1, <3>1 DEF ArrayTypes
    <3>2. CASE q # p
      BY <2>1, <3>2 DEF ArrayTypes
    <3> QED BY <3>1, <3>2
  <2> QED BY <1>0, <1>1, <2>2, <2>3 DEF ArrayTypes
<1>3. ASSUME NEW p \in Part, CountFinished(p) PROVE ArrayTypes'
  BY <1>0, <1>1, <1>3, CountFinishedArrays DEF ArrayTypes
<1>4. ASSUME NEW p \in Part, MoveString(p) PROVE ArrayTypes'
  BY <1>0, <1>1, <1>4, MoveArrays DEF ArrayTypes
<1>5. ASSUME NEW p \in Part, FreePart(p) PROVE ArrayTypes'
  BY <1>0, <1>1, <1>5, FreeArrays DEF ArrayTypes
<1>6. ASSUME NEW p \in Part, DistributeFinished(p) PROVE ArrayTypes'
  BY <1>0, <1>1, <1>6, FinishedArrays DEF ArrayTypes
<1>7. ASSUME NEW p \in Part, FreeBkt(DistributeJob(p)) PROVE ArrayTypes'
  BY <1>0, <1>1, <1>7, FreeBktArrays DEF ArrayTypes
<1>8. ASSUME NEW j \in Job, AllDone(j) PROVE ArrayTypes'
  BY <1>0, <1>1, <1>8, AllDoneArrays DEF ArrayTypes
<1>9. CASE UNCHANGED <<bkt, cache>>
  BY <1>0, <1>1, <1>9 DEF ArrayTypes
<1> QED
  BY <1>2, <1>3, <1>4, <1>5, <1>6, <1>7, <1>8, <1>9, ArrayActions DEF ArrayStep

LEMMA ArraysStep == Control /\ Arrays /\ ArrayTypes /\ [Next]_vars => Arrays'
<1> SUFFICES ASSUME Control, Arrays, ArrayTypes, [Next]_vars PROVE Arrays'
  OBVIOUS
<1> DEFINE C(p) == pc[CountJob(p)] \in {"none", "queued"}
           D(p) == pc[DistributeJob(p)] \in {"none", "queued", "move"}
           F(p) == pc[DistributeJob(p)] = "freebkt"
<1>0. /\ Part' = Part /\ CalcLcp' = CalcLcp /\ 0 \in Part /\ input \in Inputs
      /\ DOMAIN bkt = Part /\ DOMAIN cache = Part
  BY Constant, Ranges DEF Control, Places, ArrayTypes
<1>1. CASE QuietStep /\ UNCHANGED <<bkt, cache>>
  BY <1>0, <1>1, QuietLeads DEF Arrays
<1>2. ASSUME NEW p \in Part, Count(p) PROVE Arrays'
  <2> DEFINE ids == [i \in PartIndex(p) |-> Bucket(KeyOf(arr[active][i]))]
             num == [b \in BktDomain(p) |-> Cardinality({i \in PartIndex(p) : ids[i] = b})]
  <2>1. ids # Null /\ num # Null
    BY <1>0, <1>2, CountArrays, ArraysNotNull
  <2>2. /\ cache' = [cache EXCEPT ![p] = ids] /\ bkt' = [bkt EXCEPT ![p] = num]
        /\ CountStep(p) /\ Counted(p) /\ p \in Counting
    BY <1>2, CountArrays
  <2> HIDE DEF ids, num
  <2>3. /\ \A q \in Part : q # p => pc'[CountJob(q)] = pc[CountJob(q)]
        /\ \A q \in Part : pc'[DistributeJob(q)] = pc[DistributeJob(q)]
        /\ pc'[CountJob(p)] = "dec"
    <3>1. ~Spawns(CountJob(p)) /\ pc'[CountJob(p)] = "dec"
      BY <2>2, Jobs DEF Counted, Goes, Spawns, Control, Places
    <3> QED BY <2>2, <3>1, CountFrame DEF Control
  <2>4. ~Summed
    BY <2>2 DEF Control, Phases
  <2>5. ~ArraysGone'
    BY <1>0, <2>3, <2>4 DEF ArraysGone, Moving, Summed
  <2>6. \A q \in Part : /\ cache'[q] = Null <=> ~ D(q)' \/ C(q)'
                        /\ q # 0 => (bkt'[q] = Null <=> cache'[q] = Null)
                        /\ F(q)' => ~CalcLcp
    <3> SUFFICES ASSUME NEW q \in Part
                 PROVE  /\ cache'[q] = Null <=> ~ D(q)' \/ C(q)'
                        /\ q # 0 => (bkt'[q] = Null <=> cache'[q] = Null)
                        /\ F(q)' => ~CalcLcp
      OBVIOUS
    <3>1. CASE q = p
      <4>1. cache'[q] = ids /\ bkt'[q] = num
        BY <1>0, <2>2, <3>1
      <4>2. D(q)' /\ ~C(q)' /\ ~F(q)'
        BY <2>3, <2>4, <3>1 DEF Summed
      <4> QED BY <2>1, <4>1, <4>2
    <3>2. CASE q # p
      <4>1. cache'[q] = cache[q] /\ bkt'[q] = bkt[q]
        BY <1>0, <2>2, <3>2
      <4> QED BY <2>3, <3>2, <4>1 DEF Arrays
    <3> QED BY <3>1, <3>2
  <2>7. bkt'[0] = Null <=> C(0)'
    <3>1. CASE p = 0
      BY <1>0, <2>1, <2>2, <2>3, <3>1
    <3>2. CASE p # 0
      <4>1. bkt'[0] = bkt[0] /\ pc'[CountJob(0)] = pc[CountJob(0)]
        BY <1>0, <2>2, <2>3, <3>2
      <4>2. ~ArraysGone
        BY <1>0, <2>4 DEF ArraysGone, Moving, Summed
      <4> QED BY <4>1, <4>2 DEF Arrays
    <3> QED BY <3>1, <3>2
  <2> QED BY <1>0, <2>5, <2>6, <2>7 DEF Arrays
<1>3. ASSUME NEW p \in Part, CountFinished(p) PROVE Arrays'
  <2>1. \A q \in Part : cache'[q] # Null /\ bkt'[q] # Null
    BY <1>0, <1>3, CountFinishedArrays, ArraysNotNull
  <2>2. CountStep(p) /\ ~Counted(p) /\ Counting = {} /\ Moving = Part
    BY <1>3, CountFinishedArrays
  <2>3. \A q \in Part : ~C(q)'
    BY <2>2, CountLeads, CountFrame DEF Control, Counting
  <2>4. \A q \in Part : D(q)' /\ ~F(q)'
    <3>1. ~Spawns(CountJob(p))
      BY <1>3 DEF CountFinished, Spawns, At
    <3>2. ~Summed
      BY <1>3 DEF CountFinished, At, Control, Phases
    <3> QED BY <2>2, <3>1, <3>2, CountFrame DEF Control, Summed
  <2>5. ~ArraysGone'
    BY <1>0, <2>2, CountSets DEF ArraysGone, Control
  <2> QED BY <1>0, <2>1, <2>3, <2>4, <2>5 DEF Arrays
<1>4. ASSUME NEW p \in Part, MoveString(p) PROVE Arrays'
  <2>1. /\ pc' = pc /\ cache' = cache /\ alive' = alive
        /\ pc[DistributeJob(p)] \in {"queued", "move"}
    BY <1>4, MoveArrays
  <2>2. bkt[p] # Null
    BY <2>1, MovingArrays
  <2>3. bkt'[p] # Null /\ \A q \in Part : q # p => bkt'[q] = bkt[q]
    BY <1>0, <1>4, MoveArrays, ArraysNotNull
  <2>4. \A q \in Part : bkt'[q] = Null <=> bkt[q] = Null
    BY <2>2, <2>3
  <2>5. ArraysGone' <=> ArraysGone
    BY <1>0, <2>1 DEF ArraysGone, Moving, Recursing
  <2> QED BY <1>0, <2>1, <2>4, <2>5 DEF Arrays
<1>5. ASSUME NEW p \in Part, FreePart(p) PROVE Arrays'
  <2>1. /\ pc[DistributeJob(p)] = "move" /\ pc'[DistributeJob(p)] = "ddec" /\ p \in Moving
        /\ DistributeStep(p) /\ Distributing(p)
        /\ bkt' = IF p # 0 THEN [bkt EXCEPT ![p] = Null] ELSE bkt
        /\ cache' = [cache EXCEPT ![p] = Null]
    BY <1>5, FreeArrays
  <2>2. \A q \in Part : /\ pc'[CountJob(q)] = pc[CountJob(q)]
                        /\ q # p => pc'[DistributeJob(q)] = pc[DistributeJob(q)]
    BY <2>1, DistributeFrame DEF Control
  <2>3. ~ArraysGone /\ ~ArraysGone'
    BY <1>0, <2>1, <2>2 DEF ArraysGone, Moving
  <2>4. \A q \in Part : /\ q # p => cache'[q] = cache[q] /\ bkt'[q] = bkt[q]
                        /\ q = p => cache'[q] = Null /\ (q # 0 => bkt'[q] = Null)
    BY <1>0, <2>1
  <2>5. bkt'[0] = bkt[0]
    BY <1>0, <2>1
  <2> QED BY <1>0, <2>1, <2>2, <2>3, <2>4, <2>5 DEF Arrays
<1>6. ASSUME NEW p \in Part, DistributeFinished(p) PROVE Arrays'
  <2>1. /\ pc[DistributeJob(p)] = "recurse" /\ pc'[DistributeJob(p)] = "bucket"
        /\ p \in Recursing /\ DistributeStep(p) /\ bkt[0] # Null
        /\ cache' = cache /\ alive' = alive
    BY <1>6, FinishedArrays
  <2>2. \A q \in Part : /\ pc'[CountJob(q)] = pc[CountJob(q)]
                        /\ q # p => pc'[DistributeJob(q)] = pc[DistributeJob(q)]
    BY <2>1, DistributeFrame DEF Control
  <2>3. bkt'[0] # Null /\ \A q \in Part : q # 0 => bkt'[q] = bkt[q]
    BY <1>0, <1>6, FinishedArrays, ArraysNotNull
  <2>4. \A q \in Part : bkt'[q] = Null <=> bkt[q] = Null
    BY <2>1, <2>3
  <2>5. Moving = {} /\ Moving' = {}
    BY <2>1, RecursingSteps DEF Control
  <2>6. p \in Recursing'
    BY <1>0, <2>1 DEF Recursing, LastPlaces
  <2>7. ArraysGone' <=> ArraysGone
    <3>1. CASE CalcLcp
      BY <1>0, <2>1, <2>5, <3>1 DEF ArraysGone
    <3>2. CASE ~CalcLcp
      BY <1>0, <2>1, <2>5, <2>6, <3>2 DEF ArraysGone
    <3> QED BY <3>1, <3>2
  <2> QED BY <1>0, <2>1, <2>2, <2>4, <2>7 DEF Arrays
<1>7. ASSUME NEW p \in Part, FreeBkt(DistributeJob(p)) PROVE Arrays'
  <2>1. /\ pc[DistributeJob(p)] = "freebkt" /\ pc'[DistributeJob(p)] = "done"
        /\ Moving' = {} /\ Recursing' = {} /\ ~CalcLcp /\ DistributeStep(p)
        /\ bkt' = [bkt EXCEPT ![0] = Null] /\ cache' = cache
    BY <1>7, FreeBktArrays
  <2>2. \A q \in Part : /\ pc'[CountJob(q)] = pc[CountJob(q)]
                        /\ q # p => pc'[DistributeJob(q)] = pc[DistributeJob(q)]
    BY <2>1, DistributeFrame DEF Control
  <2>3. ArraysGone'
    BY <1>0, <2>1 DEF ArraysGone
  <2>4. bkt'[0] = Null /\ \A q \in Part : q # 0 => bkt'[q] = bkt[q]
    BY <1>0, <2>1
  <2> QED BY <1>0, <2>1, <2>2, <2>3, <2>4 DEF Arrays
<1>8. ASSUME NEW j \in Job, AllDone(j) PROVE Arrays'
  <2>1. /\ Moving = {} /\ Moving' = {} /\ ~alive' /\ alive
        /\ \A p \in Part : /\ pc'[CountJob(p)] = pc[CountJob(p)]
                           /\ F(p)' => F(p) \/ ~CalcLcp
        /\ ~CalcLcp => Recursing' = Recursing
        /\ bkt' = IF CalcLcp THEN [bkt EXCEPT ![0] = Null] ELSE bkt
        /\ cache' = cache
    BY <1>8, AllDoneArrays
  <2>2. \A p \in Part : ~D(p) /\ ~D(p)'
    BY <1>0, <2>1 DEF Moving
  <2>3. \A p \in Part : p # 0 => bkt'[p] = bkt[p]
    BY <1>0, <2>1
  <2>4. CASE CalcLcp
    BY <1>0, <2>1, <2>2, <2>3, <2>4 DEF Arrays, ArraysGone
  <2>5. CASE ~CalcLcp
    BY <1>0, <2>1, <2>2, <2>3, <2>5 DEF Arrays, ArraysGone
  <2> QED BY <2>4, <2>5
<1> QED
  BY <1>1, <1>2, <1>3, <1>4, <1>5, <1>6, <1>7, <1>8, ArrayActions DEF ArrayStep, Control

LEMMA ArraysInvariant == Spec => [](Control /\ Arrays /\ ArrayTypes)
<1>1. Init => Control /\ Arrays /\ ArrayTypes
  <2> SUFFICES ASSUME Init PROVE Arrays /\ ArrayTypes
    BY InitControl
  <2>1. /\ \A p \in Part : bkt[p] = Null /\ cache[p] = Null
        /\ DOMAIN bkt = Part /\ DOMAIN cache = Part
    BY DEF Init
  <2>2. /\ pc[SampleJob] = "queued" /\ 0 \in Part
        /\ \A p \in Part : pc[CountJob(p)] = "none" /\ pc[DistributeJob(p)] = "none"
    BY Jobs, JobsDiffer, Ranges DEF Init
  <2> QED BY <2>1, <2>2 DEF Arrays, ArrayTypes
<1> QED BY <1>1, StepControl, ArraysStep, ArrayTypesStep, PTL DEF Spec

(* No job uses counters or cached bucket numbers before they are allocated *)
(* or after they were freed, whichever of the jobs frees bkt[0], and when  *)
(* the step is gone and every job has returned nothing is left of them.    *)
THEOREM ArraysLiveCorrect == Spec => []ArraysLive
<1>1. Control /\ Arrays /\ ArrayTypes => ArraysLive
  <2> SUFFICES ASSUME Control, Arrays, ArrayTypes PROVE ArraysLive
    OBVIOUS
  <2>0. input \in Inputs /\ 0 \in Part
    BY Ranges DEF Control, Places
  <2>1. ASSUME NEW p \in Part, pc[DistributeJob(p)] \in {"queued", "move"}
        PROVE  bkt[p] # Null /\ cache[p] # Null
    BY <2>1, MovingArrays
  <2>2. ASSUME NEW p \in Part, pc[DistributeJob(p)] \in {"recurse", "bucket", "enqueue", "freebkt"}
        PROVE  bkt[0] # Null
    <3>1. CASE pc[DistributeJob(p)] = "freebkt"
      <4>1. p \in Recursing /\ Summed /\ ~CalcLcp
        BY <3>1 DEF Recursing, LastPlaces, Summed, Arrays
      <4>2. pc[CountJob(0)] \notin {"none", "queued"}
        BY <2>0, <4>1 DEF Control, Phases, Counting
      <4> QED BY <4>1, <4>2 DEF Arrays, ArraysGone
    <3>2. CASE pc[DistributeJob(p)] # "freebkt"
      BY <2>2, <3>2, RecursingArrays
    <3> QED BY <3>1, <3>2
  <2>3. ASSUME CalcLcp, NEW j \in Job, pc[j] = "alldone" PROVE bkt[0] # Null
    <3>1. alive
      BY <2>3 DEF Control, AliveWhileHeld
    <3>2. ~Early
      <4>1. CASE \E p \in Part : j = DistributeJob(p)
        <5>1. PICK p \in Part : j = DistributeJob(p)
          BY <4>1
        <5>2. p \in Recursing
          BY <2>3, <5>1 DEF Recursing, LastPlaces
        <5> QED BY <2>3, <5>1, <5>2 DEF Control, LastAlone, Early
      <4>2. CASE \E b \in Bkt : j = Substep(b)
        BY <2>3, <4>2 DEF Control, EarlyQuiet
      <4> QED BY <2>3, <4>1, <4>2, PlacesOf DEF Control
    <3>3. Summed
      BY <2>0, <3>2 DEF Early, Moving, Summed
    <3>4. pc[CountJob(0)] \notin {"none", "queued"} /\ ~ArraysGone
      BY <2>0, <2>3, <3>1, <3>3 DEF Control, Phases, Counting, ArraysGone
    <3> QED BY <3>4 DEF Arrays
  <2>4. ASSUME ~alive, AllIdle, NEW p \in Part PROVE bkt[p] = Null /\ cache[p] = Null
    <3>1. Moving = {} /\ \A q \in Part : pc[DistributeJob(q)] \in {"none", "done", "wild"}
      BY <2>4, Gone, Jobs DEF Control, AllIdle
    <3>2. Recursing = {} /\ ArraysGone
      BY <2>4, <3>1 DEF Recursing, LastPlaces, ArraysGone
    <3>3. cache[p] = Null /\ bkt[0] = Null
      BY <3>1, <3>2 DEF Arrays, Moving
    <3> QED BY <3>3 DEF Arrays
  <2> QED BY <2>1, <2>2, <2>3, <2>4 DEF ArraysLive, At
<1> QED BY <1>1, ArraysInvariant, PTL

-----------------------------------------------------------------------------
(***************************************************************************)
(* Proofs about the distribution of SampleSortStep: that the counters of   *)
(* the parts lead every string to a place of its own.  The place is known  *)
(* beforehand: it is the string's rank in a strict order of the strings,   *)
(* by bucket, then by part, and backwards within a part.  Every counter is *)
(* at any time the number of strings below the one it will place next.     *)
(***************************************************************************)

(* Bucket and part of the string that is at position i to begin with. *)
Id(i) == Bucket(input.keys[i + 1])
PartOf(i) == i \div PartSize

Precedes(k, i) ==
  \/ Id(k) < Id(i)
  \/ Id(k) = Id(i) /\ (PartOf(k) < PartOf(i) \/ (PartOf(k) = PartOf(i) /\ k > i))

(* The place of the string from position i. *)
Slot(i) == Cardinality({k \in Index : Precedes(k, i)})

(* The strings whose places are below the end of bucket b in part p when   *)
(* those of the part before position m are moved.                          *)
Below(b, p, m) ==
  {k \in Index : \/ Id(k) < b
                 \/ Id(k) = b /\ (PartOf(k) < p \/ (PartOf(k) = p /\ k >= m))}

From(p) == IF pc[DistributeJob(p)] = "move" THEN cur[DistributeJob(p)] ELSE p * PartSize

HasMoved(i) ==
  LET j == DistributeJob(PartOf(i))
  IN  pc[j] \notin {"none", "queued"} /\ (pc[j] = "move" => i < cur[j])

(* What the counters and the cached bucket numbers are. *)
Cached == \A p \in Part : cache[p] # Null => \A i \in PartIndex(p) : cache[p][i] = Id(i)

CountedRight ==
  ~Summed => \A p \in Part : pc[CountJob(p)] \notin {"none", "queued"} =>
    \A b \in Bkt : bkt[p][b] = Cardinality({i \in PartIndex(p) : Id(i) = b})

SummedRight ==
  Summed => \A p \in Part : pc[DistributeJob(p)] \in {"none", "queued", "move"} =>
    \A b \in Bkt : bkt[p][b] = Cardinality(Below(b, p, From(p)))

(* Where the strings are. *)
Strings ==
  /\ arr \in [BOOLEAN -> [Index -> Int \union {Moved}]]
  /\ \A p \in Part : pc[DistributeJob(p)] = "move" => cur[DistributeJob(p)] >= p * PartSize
  /\ \A i \in Index : IF HasMoved(i) THEN arr[shadow][Slot(i)] = i + 1
                                     ELSE arr[active][i] = i + 1
  /\ \A x \in Index : arr[shadow][x] # Moved => \E i \in Index : HasMoved(i) /\ Slot(i) = x

(* The invariant of the distribution, until substeps are created. *)
Distribution ==
  Early => told = 0 /\ Cached /\ CountedRight /\ SummedRight /\ Strings

-----------------------------------------------------------------------------
(* The parts divide the positions. *)
LEMMA PartIndices ==
  ASSUME input \in Inputs
  PROVE  /\ \A i \in Index : PartOf(i) \in Part /\ PartOf(i) * PartSize <= i
         /\ \A p \in Part : PartIndex(p) = {i \in Index : PartOf(i) = p}
<1>1. /\ NumStrings \in Nat \ {0} /\ PartSize \in Nat \ {0} /\ Parts \in Nat \ {0}
      /\ Parts * PartSize >= NumStrings /\ Index \subseteq Nat /\ Part \subseteq Nat
  BY Sizes, Ranges DEF Index
<1>2. \A i \in Index : /\ PartOf(i) \in Nat /\ i \in Nat /\ i < NumStrings
                       /\ PartOf(i) * PartSize <= i /\ i < PartOf(i) * PartSize + PartSize
  BY <1>1, Quotient DEF PartOf, Index
<1>3. ASSUME NEW i \in Index PROVE PartOf(i) \in Part
  <2>1. ASSUME Parts <= PartOf(i) PROVE FALSE
    <3>1. Parts * PartSize <= PartOf(i) * PartSize
      <4>1. CASE Parts = PartOf(i)
        BY <1>1, <1>2, <4>1
      <4>2. CASE Parts < PartOf(i)
        <5>1. (Parts + 1) * PartSize <= PartOf(i) * PartSize
          BY <1>1, <1>2, <4>2, Multiples
        <5>2. (Parts + 1) * PartSize = Parts * PartSize + PartSize
          BY <1>1
        <5>3. Parts * PartSize \in Nat /\ PartOf(i) * PartSize \in Nat
          BY <1>1, <1>2
        <5> QED BY <1>1, <5>1, <5>2, <5>3
      <4> QED BY <1>1, <1>2, <2>1, <4>1, <4>2
    <3>2. Parts * PartSize \in Nat /\ PartOf(i) * PartSize \in Nat
      BY <1>1, <1>2
    <3> QED BY <1>1, <1>2, <3>1, <3>2
  <2> QED BY <1>1, <1>2, <2>1, Ranges
<1>4. ASSUME NEW p \in Part PROVE PartIndex(p) = {i \in Index : PartOf(i) = p}
  <2> DEFINE lo == p * PartSize
             up == (p + 1) * PartSize
             hi == Min({up, NumStrings})
  <2>1. p \in Nat /\ lo \in Nat /\ up \in Nat /\ up = lo + PartSize
    BY <1>1
  <2>2. hi \in {up, NumStrings} /\ hi <= up /\ hi <= NumStrings
    <3>1. up \in Int /\ NumStrings \in Int
      BY <1>1, <2>1
    <3> HIDE DEF up
    <3> QED BY <3>1, MinOfTwo
  <2>3. PartIndex(p) = lo .. hi - 1
    BY DEF PartIndex
  <2>4. ASSUME NEW i \in Index, PartOf(i) = p PROVE i \in lo .. hi - 1
    <3>1. i \in Nat /\ lo <= i /\ i < lo + PartSize /\ i < NumStrings
      BY <1>2, <2>4
    <3> HIDE DEF lo, up, hi
    <3> QED BY <1>1, <2>1, <2>2, <3>1
  <2>5. ASSUME NEW i \in lo .. hi - 1 PROVE i \in Index /\ PartOf(i) = p
    <3>1. i \in Nat /\ lo <= i /\ i < up /\ i < NumStrings
      <4> HIDE DEF lo, up, hi
      <4> QED BY <1>1, <2>1, <2>2, <2>5
    <3>2. i \in Index
      BY <1>1, <3>1 DEF Index
    <3>3. PartOf(i) \in Nat /\ PartOf(i) * PartSize <= i /\ i < PartOf(i) * PartSize + PartSize
      BY <1>2, <3>2
    <3> DEFINE r == PartOf(i)
               at == r * PartSize
    <3>4. r \in Nat /\ at \in Nat /\ (r + 1) * PartSize = at + PartSize
      BY <1>1, <3>3
    <3>5. p < r => up <= at
      BY <1>1, <2>1, <3>4, Multiples
    <3>6. r < p => at + PartSize <= lo
      BY <1>1, <2>1, <3>4, Multiples
    <3> HIDE DEF r, at, lo, up
    <3>7. r = p
      <4>1. at <= i /\ i < at + PartSize
        BY <3>3 DEF r, at
      <4> QED BY <1>1, <2>1, <3>1, <3>4, <3>5, <3>6, <4>1
    <3> QED BY <3>2, <3>7 DEF r
  <2> QED BY <2>3, <2>4, <2>5
<1> QED BY <1>2, <1>3, <1>4

(* The order of the places is one. *)
LEMMA PrecedesIsOrder ==
  ASSUME input \in Inputs, DOMAIN splitter = 0 .. NumSplitters - 1
  PROVE  /\ \A i \in Index : Id(i) \in Bkt /\ Id(i) \in Nat
         /\ \A i \in Index : ~Precedes(i, i)
         /\ \A i, k \in Index : i = k \/ Precedes(i, k) \/ Precedes(k, i)
         /\ \A h, i, k \in Index : Precedes(h, i) /\ Precedes(i, k) => Precedes(h, k)
<1>1. \A i \in Index : /\ Id(i) \in Bkt /\ Id(i) \in Nat /\ PartOf(i) \in Nat /\ i \in Nat
  BY BucketInRange, PartIndices, Ranges, ArraysNotNull DEF Id
<1>2. \A i \in Index : ~Precedes(i, i)
  BY <1>1 DEF Precedes
<1>3. \A i, k \in Index : i = k \/ Precedes(i, k) \/ Precedes(k, i)
  BY <1>1 DEF Precedes
<1>4. \A h, i, k \in Index : Precedes(h, i) /\ Precedes(i, k) => Precedes(h, k)
  BY <1>1 DEF Precedes
<1> QED BY <1>1, <1>2, <1>3, <1>4

(* Different strings have different places, all in the array. *)
LEMMA SlotsDiffer ==
  ASSUME input \in Inputs, DOMAIN splitter = 0 .. NumSplitters - 1
  PROVE  /\ \A i \in Index : Slot(i) \in Index
         /\ \A i, k \in Index : Slot(i) = Slot(k) => i = k
<1> DEFINE P(i) == {k \in Index : Precedes(k, i)}
<1>1. IsFiniteSet(Index) /\ Cardinality(Index) = NumStrings /\ NumStrings \in Nat \ {0}
  <2>1. NumStrings \in Nat \ {0}
    BY Sizes
  <2>2. IsFiniteSet(0 .. NumStrings - 1) /\ Cardinality(0 .. NumStrings - 1) = NumStrings
    BY <2>1, FS_Interval
  <2> QED BY <2>1, <2>2 DEF Index
<1>2. \A i : P(i) \in SUBSET Index /\ Slot(i) = Cardinality(P(i))
  BY DEF Slot
<1>3. \A i \in Index : i \notin P(i)
  BY PrecedesIsOrder
<1>4. \A i, k \in Index : k \in P(i) => P(k) \in SUBSET P(i)
  BY PrecedesIsOrder
<1>5. \A i, k \in Index : i = k \/ k \in P(i) \/ i \in P(k)
  BY PrecedesIsOrder
<1> HIDE DEF P
<1>6. ASSUME NEW S \in SUBSET Index, NEW T \in SUBSET S, NEW x \in S, x \notin T
      PROVE  Cardinality(T) \in Nat /\ Cardinality(T) < Cardinality(S)
  <2>1. IsFiniteSet(S) /\ IsFiniteSet(T)
    BY <1>1, FS_Subset
  <2>2. T \in SUBSET (S \ {x}) /\ IsFiniteSet(S \ {x})
    BY <1>6, <2>1, FS_Subset
  <2>3. Cardinality(S \ {x}) = Cardinality(S) - 1
    BY <2>1, OneMore
  <2>4. Cardinality(T) <= Cardinality(S \ {x})
    BY <2>2, FS_Subset
  <2>5. Cardinality(S) \in Nat /\ Cardinality(T) \in Nat
    BY <2>1, FS_CardinalityType
  <2> QED BY <2>3, <2>4, <2>5
<1>7. ASSUME NEW i \in Index PROVE Slot(i) \in Index
  <2>1. Cardinality(P(i)) \in Nat /\ Cardinality(P(i)) < NumStrings
    BY <1>1, <1>2, <1>3, <1>6
  <2> QED BY <1>1, <1>2, <2>1 DEF Index
<1>8. \A i, k \in Index : k \in P(i) => Slot(k) # Slot(i)
  <2> SUFFICES ASSUME NEW i \in Index, NEW k \in Index, k \in P(i) PROVE Slot(k) # Slot(i)
    OBVIOUS
  <2>1. Cardinality(P(k)) \in Nat /\ Cardinality(P(k)) < Cardinality(P(i))
    BY <1>2, <1>3, <1>4, <1>6
  <2>2. Cardinality(P(i)) \in Nat
    BY <1>1, <1>2, FS_Subset, OneMore
  <2> QED BY <1>2, <2>1, <2>2
<1> QED BY <1>5, <1>7, <1>8

(* What moving the string from position i does to the sets below. *)
LEMMA BelowStep ==
  ASSUME input \in Inputs, DOMAIN splitter = 0 .. NumSplitters - 1,
         NEW p \in Part, NEW i \in PartIndex(p)
  PROVE  /\ \A b \in Bkt : Below(b, p, i + 1) = IF b = Id(i) THEN Below(b, p, i) \ {i}
                                                             ELSE Below(b, p, i)
         /\ i \in Below(Id(i), p, i)
         /\ Slot(i) = Cardinality(Below(Id(i), p, i)) - 1
         /\ \A b, m : IsFiniteSet(Below(b, p, m))
<1>1. i \in Index /\ PartOf(i) = p /\ Index \subseteq Nat /\ IsFiniteSet(Index)
  BY PartIndices, ArraysNotNull, PartFinite
<1>2. \A k \in Index : Id(k) \in Nat /\ PartOf(k) \in Nat
  BY <1>1, PrecedesIsOrder, PartIndices, Ranges
<1> DEFINE In(k, b, m) == Id(k) < b \/ (Id(k) = b /\ (PartOf(k) < p \/ (PartOf(k) = p /\ k >= m)))
<1>a. \A b, m : Below(b, p, m) = {k \in Index : In(k, b, m)}
  BY DEF Below
<1>b. ASSUME NEW k \in Index
      PROVE  /\ k >= i + 1 <=> k >= i /\ k # i
             /\ k > i <=> k >= i /\ k # i
             /\ Id(k) = Id(i) => ~(Id(k) < Id(i))
             /\ PartOf(k) = p => ~(PartOf(k) < p)
             /\ i >= i
  BY <1>1, <1>2
<1>3. \A b \in Bkt : Below(b, p, i + 1) = IF b = Id(i) THEN Below(b, p, i) \ {i} ELSE Below(b, p, i)
  <2> SUFFICES ASSUME NEW b \in Bkt
               PROVE Below(b, p, i + 1) = IF b = Id(i) THEN Below(b, p, i) \ {i}
                                                       ELSE Below(b, p, i)
    OBVIOUS
  <2>1. b = Id(i) => ~In(i, b, i + 1)
    BY <1>1, <1>b
  <2>2. b # Id(i) => (In(i, b, i + 1) <=> In(i, b, i))
    OBVIOUS
  <2>3. ASSUME NEW k \in Index, k # i PROVE In(k, b, i + 1) <=> In(k, b, i)
    BY <1>b, <2>3
  <2> HIDE DEF In
  <2>4. CASE b = Id(i)
    <3>1. {k \in Index : In(k, b, i + 1)} = {k \in Index : In(k, b, i)} \ {i}
      BY <2>1, <2>3, <2>4
    <3> QED BY <1>a, <2>4, <3>1
  <2>5. CASE b # Id(i)
    <3>1. {k \in Index : In(k, b, i + 1)} = {k \in Index : In(k, b, i)}
      BY <2>2, <2>3, <2>5
    <3> QED BY <1>a, <2>5, <3>1
  <2> QED BY <2>4, <2>5
<1>4. In(i, Id(i), i) /\ i \in Below(Id(i), p, i)
  BY <1>1, <1>a, <1>b
<1>5. {k \in Index : Precedes(k, i)} = Below(Id(i), p, i) \ {i}
  <2>1. ASSUME NEW k \in Index, k # i PROVE Precedes(k, i) <=> In(k, Id(i), i)
    BY <1>1, <1>b, <2>1 DEF Precedes
  <2>2. ~Precedes(i, i)
    BY <1>1, PrecedesIsOrder
  <2> HIDE DEF In
  <2>3. Below(Id(i), p, i) = {k \in Index : In(k, Id(i), i)}
    BY <1>a
  <2>4. {k \in Index : Precedes(k, i)} = {k \in Index : In(k, Id(i), i)} \ {i}
    BY ONLY <2>1, <2>2
  <2> QED BY <2>3, <2>4
<1>6. \A b, m : IsFiniteSet(Below(b, p, m))
  <2> SUFFICES ASSUME NEW b, NEW m PROVE IsFiniteSet(Below(b, p, m))
    OBVIOUS
  <2>1. Below(b, p, m) \subseteq Index
    BY DEF Below
  <2> QED BY <1>1, <2>1, FS_Subset
<1>7. Slot(i) = Cardinality(Below(Id(i), p, i)) - 1
  <2>1. Cardinality(Below(Id(i), p, i) \ {i}) = Cardinality(Below(Id(i), p, i)) - 1
    BY <1>4, <1>6, OneMore
  <2> QED BY <1>5, <2>1 DEF Slot
<1> QED BY <1>3, <1>4, <1>6, <1>7

(* count_finished() counts the strings below: those of lesser buckets, and *)
(* those of this bucket in the parts up to this one.                       *)
LEMMA PrefixSumCounts ==
  ASSUME input \in Inputs, DOMAIN splitter = 0 .. NumSplitters - 1,
         \A p \in Part : \A b \in Bkt :
           bkt[p][b] = Cardinality({i \in PartIndex(p) : Id(i) = b}),
         NEW q \in Part, NEW b \in Bkt
  PROVE  PrefixSum(b, q) = Cardinality(Below(b, q, q * PartSize))
<1> DEFINE S == {x \in (0 .. b) \X Part : x[1] < b \/ x[2] <= q}
           f == [x \in Bkt \X Part |-> bkt[x[2]][x[1]]]
           F == [x \in Bkt \X Part |-> {i \in PartIndex(x[2]) : Id(i) = x[1]}]
<1>1. /\ IsFiniteSet(Part) /\ IsFiniteSet(Bkt) /\ Bkt \subseteq Nat /\ Part \subseteq Nat
      /\ b \in Nat /\ BktNum \in Nat /\ 0 .. b \subseteq Bkt
  BY Ranges, Sizes DEF Bkt
<1>2. S \subseteq Bkt \X Part /\ IsFiniteSet(S)
  <2>1. S \subseteq Bkt \X Part
    BY <1>1
  <2> HIDE DEF S
  <2> QED BY <1>1, <2>1, FS_Product, FS_Subset
<1>3. \A x \in S : IsFiniteSet(F[x]) /\ f[x] = Cardinality(F[x])
  <2> SUFFICES ASSUME NEW x \in Bkt \X Part PROVE IsFiniteSet(F[x]) /\ f[x] = Cardinality(F[x])
    BY <1>2
  <2>1. x[2] \in Part /\ x[1] \in Bkt
    OBVIOUS
  <2>2. F[x] \subseteq PartIndex(x[2]) /\ IsFiniteSet(PartIndex(x[2]))
    BY <2>1, PartFinite
  <2>3. IsFiniteSet(F[x])
    BY <2>2, FS_Subset
  <2> QED BY <2>1, <2>3
<1>4. \A x, y \in S : x # y => F[x] \cap F[y] = {}
  <2> SUFFICES ASSUME NEW x \in Bkt \X Part, NEW y \in Bkt \X Part, x # y,
                      NEW i \in F[x] \cap F[y]
               PROVE  FALSE
    BY <1>2
  <2>1. x[2] \in Part /\ y[2] \in Part /\ x = <<x[1], x[2]>> /\ y = <<y[1], y[2]>>
    OBVIOUS
  <2>2. i \in PartIndex(x[2]) /\ i \in PartIndex(y[2]) /\ Id(i) = x[1] /\ Id(i) = y[1]
    OBVIOUS
  <2>3. PartOf(i) = x[2] /\ PartOf(i) = y[2]
    BY <2>1, <2>2, PartIndices
  <2> QED BY <2>1, <2>2, <2>3
<1>5. \A k : k \in Below(b, q, q * PartSize) <=> \E x \in S : k \in F[x]
  <2> DEFINE B == Below(b, q, q * PartSize)
  <2>0. /\ \A k \in Index : /\ Id(k) \in Nat /\ Id(k) \in Bkt /\ PartOf(k) \in Part
                            /\ PartOf(k) \in Nat /\ PartOf(k) * PartSize <= k
        /\ q \in Nat
    BY <1>1, PrecedesIsOrder, PartIndices
  <2>1. ASSUME NEW k, \E x \in S : k \in F[x] PROVE k \in B
    <3>1. PICK x \in S : k \in F[x]
      BY <2>1
    <3>2. /\ x \in Bkt \X Part /\ x[2] \in Part /\ k \in PartIndex(x[2]) /\ Id(k) = x[1]
          /\ x[1] \in 0 .. b /\ (x[1] < b \/ x[2] <= q)
      BY <1>2, <3>1
    <3>3. k \in Index /\ PartOf(k) = x[2]
      BY <3>2, PartIndices
    <3> QED BY <1>1, <2>0, <3>2, <3>3 DEF Below
  <2>2. ASSUME NEW k \in B PROVE \E x \in S : k \in F[x]
    <3>1. k \in Index /\ (Id(k) < b \/ (Id(k) = b /\ PartOf(k) <= q))
      BY <2>0 DEF Below
    <3>2. <<Id(k), PartOf(k)>> \in S
      BY <1>1, <2>0, <3>1
    <3>3. k \in PartIndex(PartOf(k))
      BY <2>0, <3>1, PartIndices
    <3>4. <<Id(k), PartOf(k)>> \in Bkt \X Part
      BY <2>0, <3>1
    <3>5. F[<<Id(k), PartOf(k)>>] = {i \in PartIndex(PartOf(k)) : Id(i) = Id(k)}
      BY <3>4
    <3>6. k \in F[<<Id(k), PartOf(k)>>]
      BY <3>3, <3>5
    <3> QED BY <3>2, <3>6
  <2> QED BY <2>1, <2>2
<1>6. PrefixSum(b, q) = SumFunctionOnSet(f, S)
  BY DEF PrefixSum
<1> DEFINE U == Below(b, q, q * PartSize)
<1>7. \A k : k \in U <=> \E x \in S : k \in F[x]
  BY <1>5
<1>a. S \subseteq DOMAIN F
  BY <1>2
<1> HIDE DEF S, f, F, U
<1>8. (\A x \in S : IsFiniteSet(F[x])) /\ (\A x \in S : f[x] = Cardinality(F[x]))
  BY <1>3
<1>9. SumFunctionOnSet(f, S) = Cardinality(U)
  BY <1>2, <1>4, <1>7, <1>8, <1>a, SumPartition
<1> QED BY <1>6, <1>9 DEF U

-----------------------------------------------------------------------------
(* The two arrays of strings. *)
LEMMA Sides ==
  ASSUME input \in Inputs
  PROVE  active \in BOOLEAN /\ shadow \in BOOLEAN /\ active # shadow
<1>1. input.flip \in BOOLEAN
  BY InputAssumption
<1>2. active \in BOOLEAN
  BY <1>1 DEF active
<1>3. shadow \in BOOLEAN
  BY <1>1 DEF shadow
<1>4. active # shadow
  BY <1>1, Zenon DEF active, shadow
<1> QED BY <1>2, <1>3, <1>4

(* What the places depend on is settled once the splitters are drawn. *)
LEMMA PlacesSettled ==
  ASSUME [Next]_vars
  PROVE  /\ \A i : PartOf(i)' = PartOf(i)
         /\ splitter' = splitter => /\ \A i : Id(i)' = Id(i) /\ Slot(i)' = Slot(i)
                                    /\ \A b, p, m : Below(b, p, m)' = Below(b, p, m)
<1>1. input' = input /\ PartSize' = PartSize /\ Index' = Index
  BY Constant
<1>2. \A i : PartOf(i)' = PartOf(i)
  BY <1>1 DEF PartOf
<1>3. ASSUME splitter' = splitter
      PROVE  /\ \A i : Id(i)' = Id(i)
             /\ \A i : Slot(i)' = Slot(i)
             /\ \A b, p, m : Below(b, p, m)' = Below(b, p, m)
  <2>1. \A i : Id(i)' = Id(i)
    BY <1>1, <1>3 DEF Id, Bucket, BucketIn
  <2>2. \A i, k : Precedes(k, i)' <=> Precedes(k, i)
    BY <1>2, <2>1 DEF Precedes
  <2>3. \A i : Slot(i)' = Slot(i)
    BY <1>1, <2>2 DEF Slot
  <2>4. \A b, p, m : Below(b, p, m)' = Below(b, p, m)
    BY <1>1, <1>2, <2>1 DEF Below
  <2> QED BY <2>1, <2>3, <2>4
<1> QED BY <1>2, <1>3

(* While nothing is summed nothing has moved. *)
LEMMA NothingMoved ==
  ASSUME Control, ~Summed
  PROVE  /\ \A p \in Part : pc[DistributeJob(p)] = "none" /\ From(p) = p * PartSize
         /\ \A i \in Index : ~HasMoved(i)
<1>1. \A p \in Part : pc[DistributeJob(p)] = "none"
  BY DEF Summed
<1>2. \A i \in Index : PartOf(i) \in Part
  BY PartIndices DEF Control, Places
<1> QED BY <1>1, <1>2 DEF From, HasMoved

(* The steps until substeps are created. *)
QuietMove ==
  /\ UNCHANGED <<arr, bkt, cache, splitter, told>>
  /\ \/ Spawns(SampleJob) \/ SpawnOver(SampleJob)
     \/ \E p \in Part : \/ Spawns(CountJob(p)) \/ SpawnOver(CountJob(p))
                        \/ SignsOff(CountJob(p), "dec", "prefix")
                        \/ SignsOff(DistributeJob(p), "ddec", "recurse")
     \/ UNCHANGED <<pc, cur>>

EarlyStep ==
  \/ Sample
  \/ \E p \in Part : Count(p) \/ CountFinished(p) \/ Distribute(p) \/ MoveString(p) \/ FreePart(p)
  \/ QuietMove

LEMMA EarlyNext ==
  ASSUME Control, [Next]_vars, Early'
  PROVE  Early /\ (told = 0 => EarlyStep)
<1> USE DEF Control
<1>0. Part' = Part /\ Job' = Job
  BY Constant
<1>1. \A q \in Part : DistributeStep(q) => q \notin Recursing
  <2> SUFFICES ASSUME NEW q \in Part, DistributeStep(q), q \in Recursing PROVE FALSE
    OBVIOUS
  <2>1. /\ Moving' = {}
        /\ \A p \in Part : p # q => pc'[DistributeJob(p)] = "done"
    BY RecursingSteps
  <2>2. pc'[DistributeJob(q)] # "recurse"
    BY DistributeKinds, DistributeLeads, AfterNotifyPlaces DEF Recursing, Moving, LastPlaces
  <2> QED BY <1>0, <2>1, <2>2 DEF Early
<1>2. ASSUME \/ Sampled \/ Spawns(SampleJob) \/ SpawnOver(SampleJob)
             \/ \E q \in Part : CountStep(q)
             \/ \E q \in Part : DistributeStep(q) /\ Distributing(q)
      PROVE  Early
  BY <1>0, <1>2, EarlySteps DEF Early
<1>3. ASSUME \E q \in Part : DistributeStep(q) /\ ~Distributing(q) PROVE Early
  <2>1. PICK q \in Part : DistributeStep(q) /\ ~Distributing(q)
    BY <1>3
  <2>2. q \in Moving
    BY <1>1, <2>1, DistributeKinds
  <2> QED BY <2>2 DEF Early
<1>4. ASSUME \E b \in Bkt : SubstepStep(b) PROVE Early
  BY <1>0, <1>4, SubstepFrame DEF Early, Moving
<1>5. ASSUME UNCHANGED <<pc, cur, pwork, substeps, alive>> PROVE Early
  BY <1>0, <1>5 DEF Early, Moving
<1>6. Early
  BY <1>2, <1>3, <1>4, <1>5, NextControl DEF ControlStep
<1>7. \A b \in Bkt : pc[Substep(b)] = "none"
  BY <1>6 DEF EarlyQuiet
<1>8. \A p \in Part : DistributeStep(p) => pc[DistributeJob(p)] \notin LastPlaces
  BY <1>1 DEF Recursing
<1>9. ASSUME NEW j \in Job, StepOf(j) PROVE EarlyStep
  <2>1. CASE \/ SkipBucket(j) \/ CopyBackBucket(j) \/ AddSubstep(j) \/ EnqueueSubstep(j)
             \/ EndBuckets(j) \/ FreeBkt(j)
    <3>1. pc[j] \in {"bucket", "enqueue", "freebkt"}
      BY <2>1 DEF SkipBucket, CopyBackBucket, AddSubstep, EnqueueSubstep, EndBuckets, FreeBkt,
                  AtBucket, At
    <3>2. PICK p \in Part : j = DistributeJob(p)
      BY <3>1, PlacesOf
    <3>3. DistributeStep(p)
      BY <2>1, <3>2, ActionControl DEF DistributeStep
    <3> QED BY <1>8, <3>1, <3>2, <3>3 DEF LastPlaces
  <2>2. CASE Notify(j) \/ AllDone(j)
    <3>1. pc[j] \in {"notify", "alldone"}
      BY <2>2 DEF Notify, AllDone, At
    <3>2. PICK p \in Part : j = DistributeJob(p)
      BY <1>7, <3>1, PlacesOf
    <3>3. DistributeStep(p)
      BY <2>2, <3>2, ActionControl DEF DistributeStep
    <3> QED BY <1>8, <3>1, <3>2, <3>3 DEF LastPlaces
  <2>3. ASSUME NEW b \in Bkt, SubstepSorts(b) PROVE FALSE
    BY <1>7, <2>3 DEF SubstepSorts, At
  <2>4. CASE SpawnPart(j) \/ SpawnEnds(j) \/ SpawnReadsDeleted(j)
    <3>1. UNCHANGED <<arr, bkt, cache, splitter, told>>
      BY <2>4 DEF SpawnPart, SpawnEnds, SpawnReadsDeleted, data, heap, life
    <3>2. Spawns(j) \/ SpawnOver(j)
      BY <2>4, ActionControl
    <3>3. j = SampleJob \/ \E p \in Part : j = CountJob(p)
      BY <2>4, PlacesOf DEF SpawnPart, SpawnEnds, SpawnReadsDeleted, At
    <3> QED BY <3>1, <3>2, <3>3 DEF EarlyStep, QuietMove
  <2>5. ASSUME NEW p \in Part, CountDone(p) \/ DistributeDone(p) PROVE EarlyStep
    <3>1. UNCHANGED <<arr, bkt, cache, splitter, told>>
      BY <2>5 DEF CountDone, DistributeDone, data, heap, life
    <3> QED BY <2>5, <3>1, ActionControl DEF EarlyStep, QuietMove
  <2>6. ASSUME NEW p \in Part, DistributeFinished(p) PROVE FALSE
    BY <1>8, <2>6, ActionControl DEF DistributeFinished, At, DistributeStep, LastPlaces
  <2> QED BY <1>9, <2>1, <2>2, <2>3, <2>4, <2>5, <2>6 DEF StepOf, EarlyStep
<1>10. Return => told # 0
  BY DEF Return
<1>11. ASSUME UNCHANGED vars PROVE EarlyStep
  BY <1>11 DEF vars, data, lcps, EarlyStep, QuietMove
<1> QED BY <1>6, <1>9, <1>10, <1>11 DEF Next

-----------------------------------------------------------------------------
(* A step that leaves strings and counters alone, and the distributors of  *)
(* the parts where they are.                                               *)
Unmoved ==
  /\ Summed' <=> Summed
  /\ \A p \in Part :
       /\ pc'[CountJob(p)] \notin {"none", "queued"} <=> pc[CountJob(p)] \notin {"none", "queued"}
       /\ LET j == DistributeJob(p)
          IN  /\ pc'[j] \in {"none", "queued"} <=> pc[j] \in {"none", "queued"}
              /\ pc'[j] = "move" <=> pc[j] = "move"
              /\ cur'[j] = cur[j]

LEMMA QuietUnmoved ==
  ASSUME Control, [Next]_vars, QuietMove
  PROVE  Unmoved
<1> USE DEF Control
<1>0. Part' = Part
  BY Constant
<1>1. CASE Spawns(SampleJob) \/ SpawnOver(SampleJob)
  <2>1. \A p \in Part : /\ pc'[DistributeJob(p)] = pc[DistributeJob(p)]
                        /\ cur'[DistributeJob(p)] = cur[DistributeJob(p)]
    BY <1>1, SampleFrame
  <2>2. \A p \in Part : \/ pc'[CountJob(p)] = pc[CountJob(p)]
                        \/ pc[CountJob(p)] = "none" /\ pc'[CountJob(p)] = "queued"
    <3>1. CASE Spawns(SampleJob)
      <4>1. cur[SampleJob] \in Part /\ Spawned(SampleJob, cur[SampleJob]) = CountJob(cur[SampleJob])
        BY <3>1, SpawnsNext, SpawnedJobs, Jobs
      <4>2. pc[CountJob(cur[SampleJob])] = "none"
        BY <3>1, <4>1, Ranges DEF Spawns, Spawning, CountsSpawned, Places
      <4> QED BY <3>1, <4>1, <4>2, Jobs, JobsDiffer DEF Spawns, Places
    <3>2. CASE SpawnOver(SampleJob)
      BY <3>2, Jobs, JobsDiffer DEF SpawnOver, Goes, Places
    <3> QED BY <1>1, <3>1, <3>2
  <2>3. \A p \in Part : pc'[CountJob(p)] = "spawn" <=> pc[CountJob(p)] = "spawn"
    BY <2>2
  <2> QED BY <1>0, <2>1, <2>2, <2>3 DEF Unmoved, Summed
<1>2. ASSUME NEW q \in Part,
             \/ Spawns(CountJob(q)) \/ SpawnOver(CountJob(q))
             \/ SignsOff(CountJob(q), "dec", "prefix")
      PROVE  Unmoved
  <2>1. CountStep(q) /\ ~Counted(q) /\ pc[CountJob(q)] \in {"spawn", "dec"}
    BY <1>2, Jobs DEF CountStep, Counted, Goes, Spawns, SpawnOver, SignsOff
  <2>2. \A p \in Part : /\ p # q => pc'[CountJob(p)] = pc[CountJob(p)]
                        /\ cur'[DistributeJob(p)] = cur[DistributeJob(p)]
    BY <2>1, CountFrame
  <2>3. \A p \in Part : \/ pc'[DistributeJob(p)] = pc[DistributeJob(p)]
                        \/ /\ pc[DistributeJob(p)] = "none"
                           /\ pc'[DistributeJob(p)] = "queued"
    BY <2>1, CountLeads
  <2>4. pc'[CountJob(q)] \notin {"none", "queued"}
    BY <2>1, CountLeads
  <2>5. Summed' <=> Summed
    <3>1. CASE Spawns(CountJob(q))
      <4>1. cur[CountJob(q)] \in Part
            /\ Spawned(CountJob(q), cur[CountJob(q)]) = DistributeJob(cur[CountJob(q)])
        BY <3>1, SpawnsNext, SpawnedJobs, Jobs
      <4>2. pc'[DistributeJob(cur[CountJob(q)])] = "queued" /\ pc[CountJob(q)] = "spawn"
        BY <3>1, <4>1, Jobs DEF Spawns, Places
      <4> QED BY <1>0, <4>1, <4>2 DEF Summed
    <3>2. CASE SpawnOver(CountJob(q))
      <4>1. pc[CountJob(q)] = "spawn" /\ \A p \in Part : pc[DistributeJob(p)] # "none"
        BY <3>2, AllDistributesSpawned DEF SpawnOver, Goes
      <4>2. pc'[DistributeJob(q)] # "none"
        BY <2>3, <4>1
      <4> QED BY <1>0, <4>1, <4>2 DEF Summed
    <3>3. CASE SignsOff(CountJob(q), "dec", "prefix")
      <4>1. pc'[CountJob(q)] # "spawn" /\ pc[CountJob(q)] # "spawn"
        BY <3>3, Jobs DEF SignsOff, Goes, Places
      <4>2. \A p \in Part : pc'[DistributeJob(p)] = pc[DistributeJob(p)]
        BY <2>1, <3>3, CountFrame DEF Spawns, SignsOff, Goes
      <4> QED BY <1>0, <2>2, <4>1, <4>2 DEF Summed
    <3> QED BY <1>2, <3>1, <3>2, <3>3
  <2> QED BY <2>1, <2>2, <2>3, <2>4, <2>5 DEF Unmoved
<1>3. ASSUME NEW q \in Part, SignsOff(DistributeJob(q), "ddec", "recurse") PROVE Unmoved
  <2>1. DistributeStep(q) /\ pc[DistributeJob(q)] = "ddec"
    BY <1>3 DEF DistributeStep, SignsOff, Goes
  <2>2. /\ \A p \in Part : pc'[CountJob(p)] = pc[CountJob(p)]
        /\ \A p \in Part : p # q => /\ pc'[DistributeJob(p)] = pc[DistributeJob(p)]
                                    /\ cur'[DistributeJob(p)] = cur[DistributeJob(p)]
    BY <2>1, DistributeFrame
  <2>3. pc'[DistributeJob(q)] \in {"recurse", "done"} /\ cur' = cur
    BY <1>3, <2>1, DistributeLeads DEF SignsOff
  <2> QED BY <1>0, <2>1, <2>2, <2>3 DEF Unmoved, Summed
<1>4. CASE UNCHANGED <<pc, cur>>
  BY <1>0, <1>4 DEF Unmoved, Summed
<1> QED BY <1>1, <1>2, <1>3, <1>4 DEF QuietMove

(* Then the strings are where they were. *)
LEMMA UnmovedStrings ==
  ASSUME input \in Inputs, [Next]_vars, Unmoved
  PROVE  /\ \A i \in Index : HasMoved(i)' <=> HasMoved(i)
         /\ \A p \in Part : From(p)' = From(p)
<1>1. PartSize' = PartSize
  BY Constant
<1>2. \A i \in Index : PartOf(i)' = PartOf(i) /\ PartOf(i) \in Part
  BY PartIndices, PlacesSettled
<1>3. \A p \in Part : From(p)' = From(p)
  BY <1>1 DEF Unmoved, From
<1>4. \A i \in Index : HasMoved(i)' <=> HasMoved(i)
  BY <1>2 DEF Unmoved, HasMoved
<1> QED BY <1>3, <1>4

-----------------------------------------------------------------------------
(* What a step has to show. *)
Kept == told' = 0 /\ Cached' /\ CountedRight' /\ SummedRight' /\ Strings'

(* sample() draws the splitters before anything depends on them. *)
LEMMA SampleKeeps ==
  ASSUME Control, Arrays, Distribution, Early, [Next]_vars, Sample
  PROVE  Kept
<1> USE DEF Control
<1>0. /\ Part' = Part /\ Index' = Index /\ active' = active /\ shadow' = shadow
      /\ PartSize' = PartSize /\ input \in Inputs
  BY Constant DEF Places
<1>1. /\ pc[SampleJob] = "queued" /\ Sampled
      /\ arr' = arr /\ bkt' = bkt /\ cache' = cache /\ told' = told
  BY ActionControl DEF Sample, At, data, heap, life
<1>2. ~Summed /\ \A p \in Part : pc[CountJob(p)] = "none"
  BY <1>1 DEF Phases, Spawning, CountsSpawned
<1>3. \A p \in Part : /\ pc[DistributeJob(p)] = "none" /\ pc'[DistributeJob(p)] = "none"
                      /\ pc'[CountJob(p)] = "none"
  BY <1>1, <1>2, NothingMoved, SampleFrame, Jobs, JobsDiffer DEF Sampled, Goes, Places
<1>4. \A p \in Part : cache'[p] = Null
  BY <1>1, <1>2 DEF Arrays
<1>5. \A i \in Index : ~HasMoved(i) /\ ~HasMoved(i)'
  BY <1>0, <1>2, <1>3, NothingMoved, PartIndices, PlacesSettled DEF HasMoved
<1>6. ~Summed'
  BY <1>0, <1>3 DEF Summed
<1>7. Strings'
  BY <1>0, <1>1, <1>3, <1>5 DEF Distribution, Strings
<1> QED BY <1>0, <1>1, <1>3, <1>4, <1>6, <1>7
        DEF Kept, Distribution, Cached, CountedRight, SummedRight

(* Steps before the first string moves leave the strings where they are. *)
LEMMA StringsKept ==
  ASSUME input \in Inputs, [Next]_vars, Strings, splitter' = splitter, arr' = arr,
         \A i \in Index : HasMoved(i)' <=> HasMoved(i),
         \A p \in Part : pc'[DistributeJob(p)] = "move" => cur'[DistributeJob(p)] >= p * PartSize
  PROVE  Strings'
<1>1. /\ Part' = Part /\ Index' = Index /\ active' = active /\ shadow' = shadow
      /\ PartSize' = PartSize
  BY Constant
<1>2. \A i : Slot(i)' = Slot(i)
  BY PlacesSettled
<1> QED BY <1>1, <1>2 DEF Strings

(* count() *)
LEMMA CountKeeps ==
  ASSUME Control, Arrays, ArrayTypes, Distribution, Early, [Next]_vars,
         NEW p \in Part, Count(p)
  PROVE  Kept
<1> USE DEF Control
<1> DEFINE ids == [i \in PartIndex(p) |-> Bucket(KeyOf(arr[active][i]))]
           num == [b \in BktDomain(p) |-> Cardinality({i \in PartIndex(p) : ids[i] = b})]
<1>0. /\ Part' = Part /\ Index' = Index /\ PartSize' = PartSize /\ input \in Inputs
      /\ Bkt' = Bkt /\ Bkt \subseteq BktDomain(p)
      /\ \A q : PartIndex(q)' = PartIndex(q)
  BY Constant, Sizes DEF Places, Bkt, BktNum, BktDomain
<1>1. /\ cache' = [cache EXCEPT ![p] = ids] /\ bkt' = [bkt EXCEPT ![p] = num]
      /\ CountStep(p) /\ Counted(p) /\ p \in Counting /\ splitter' = splitter
      /\ pc[SampleJob] # "queued"
  BY CountArrays
<1>2. arr' = arr /\ told' = told /\ DOMAIN bkt = Part /\ DOMAIN cache = Part
  BY DEF Count, data, life, ArrayTypes
<1>3. ~Summed
  BY <1>1 DEF Phases
<1>4. /\ \A q \in Part : /\ pc'[DistributeJob(q)] = "none" /\ pc[DistributeJob(q)] = "none"
                         /\ q # p => pc'[CountJob(q)] = pc[CountJob(q)]
      /\ pc'[CountJob(p)] = "dec"
  <2>1. ~Spawns(CountJob(p)) /\ pc'[CountJob(p)] = "dec"
    BY <1>1, Jobs DEF Counted, Goes, Spawns, Places
  <2> QED BY <1>1, <1>3, <2>1, CountFrame, NothingMoved
<1>5. ~Summed'
  <2>1. \A q \in Part : pc'[CountJob(q)] # "spawn"
    BY <1>3, <1>4 DEF Summed
  <2> QED BY <1>0, <1>4, <2>1 DEF Summed
<1>6. \A i : Id(i)' = Id(i)
  BY <1>1, PlacesSettled
<1>7. \A i \in PartIndex(p) : ids[i] = Id(i)
  <2> SUFFICES ASSUME NEW i \in PartIndex(p) PROVE Bucket(KeyOf(arr[active][i])) = Id(i)
    OBVIOUS
  <2>1. i \in Index /\ i \in Nat
    BY ArraysNotNull, <1>0
  <2>2. arr[active][i] = i + 1
    BY <1>3, <2>1, NothingMoved DEF Distribution, Strings
  <2>3. i + 1 # Moved
    BY <2>1, MovedAssumption
  <2> QED BY <2>2, <2>3 DEF KeyOf, Id
<1>8. \A b \in Bkt : num[b] = Cardinality({i \in PartIndex(p) : Id(i) = b})
  <2> SUFFICES ASSUME NEW b \in Bkt
               PROVE  num[b] = Cardinality({i \in PartIndex(p) : Id(i) = b})
    OBVIOUS
  <2> HIDE DEF ids
  <2>1. {i \in PartIndex(p) : ids[i] = b} = {i \in PartIndex(p) : Id(i) = b}
    BY <1>7
  <2> QED BY <1>0, <2>1
<1> HIDE DEF ids, num
<1>9. Cached'
  BY <1>0, <1>1, <1>2, <1>6, <1>7 DEF Distribution, Cached
<1>10. CountedRight'
  BY <1>0, <1>1, <1>2, <1>3, <1>4, <1>6, <1>8 DEF Distribution, CountedRight
<1>11. SummedRight'
  BY <1>5 DEF SummedRight
<1>12. \A i \in Index : ~HasMoved(i) /\ ~HasMoved(i)'
  BY <1>0, <1>3, <1>4, NothingMoved, PartIndices, PlacesSettled DEF HasMoved
<1>13. Strings'
  BY <1>0, <1>1, <1>2, <1>4, <1>12, StringsKept DEF Distribution
<1> QED BY <1>2, <1>9, <1>10, <1>11, <1>13 DEF Kept, Distribution

(* count_finished() *)
LEMMA SummingKeeps ==
  ASSUME Control, Arrays, ArrayTypes, Distribution, Early, [Next]_vars,
         NEW p \in Part, CountFinished(p)
  PROVE  Kept
<1> USE DEF Control
<1>0. /\ Part' = Part /\ Index' = Index /\ PartSize' = PartSize /\ input \in Inputs
      /\ Bkt' = Bkt /\ \A q : PartIndex(q)' = PartIndex(q)
  BY Constant DEF Places, Bkt, BktNum
<1>1. /\ \A q \in Part : \A b \in Bkt : bkt'[q][b] = PrefixSum(b, q)
      /\ cache' = cache /\ splitter' = splitter
      /\ CountStep(p) /\ ~Counted(p) /\ Counting = {}
  BY CountFinishedArrays
<1>2. /\ arr' = arr /\ told' = told /\ pc[CountJob(p)] = "prefix"
      /\ pc'[CountJob(p)] = "spawn"
  BY Jobs DEF CountFinished, data, life, At, Set, Places
<1>3. ~Summed /\ Summed'
  BY <1>0, <1>2 DEF Phases, Summed
<1>4. \A q \in Part : pc'[DistributeJob(q)] = "none" /\ pc[DistributeJob(q)] = "none"
  <2>1. ~Spawns(CountJob(p))
    BY <1>2 DEF Spawns
  <2> QED BY <1>1, <1>3, <2>1, CountFrame, NothingMoved
<1>5. DOMAIN splitter = 0 .. NumSplitters - 1
  BY <1>2 DEF ArrayTypes, Spawning, CountsSpawned
<1>6. \A q \in Part : \A b \in Bkt : bkt[q][b] = Cardinality({i \in PartIndex(q) : Id(i) = b})
  <2>1. \A q \in Part : pc[CountJob(q)] \notin {"none", "queued"}
    BY <1>1 DEF Counting
  <2> QED BY <1>3, <2>1 DEF Distribution, CountedRight
<1>7. \A q \in Part, b \in Bkt : bkt'[q][b] = Cardinality(Below(b, q, q * PartSize))
  BY <1>0, <1>1, <1>5, <1>6, PrefixSumCounts
<1>8. /\ \A i : Id(i)' = Id(i)
      /\ \A b, q, m : Below(b, q, m)' = Below(b, q, m)
  BY <1>1, PlacesSettled
<1>9. \A q \in Part : From(q)' = q * PartSize
  BY <1>0, <1>4 DEF From
<1>10. SummedRight'
  BY <1>0, <1>7, <1>8, <1>9 DEF SummedRight
<1>11. Cached'
  BY <1>0, <1>1, <1>8 DEF Distribution, Cached
<1>12. \A i \in Index : ~HasMoved(i) /\ ~HasMoved(i)'
  BY <1>0, <1>3, <1>4, NothingMoved, PartIndices, PlacesSettled DEF HasMoved
<1>13. Strings'
  BY <1>0, <1>1, <1>2, <1>4, <1>12, StringsKept DEF Distribution
<1> QED BY <1>2, <1>3, <1>10, <1>11, <1>13 DEF Kept, Distribution, CountedRight

(* A distributor begins at the first string of its part. *)
LEMMA DistributeKeeps ==
  ASSUME Control, Distribution, Early, [Next]_vars, NEW p \in Part, Distribute(p)
  PROVE  Kept
<1> USE DEF Control
<1>0. /\ Part' = Part /\ Index' = Index /\ PartSize' = PartSize /\ input \in Inputs
      /\ Bkt' = Bkt /\ \A q : PartIndex(q)' = PartIndex(q)
  BY Constant DEF Places, Bkt, BktNum
<1>1. /\ pc[DistributeJob(p)] = "queued" /\ pc'[DistributeJob(p)] = "move"
      /\ cur'[DistributeJob(p)] = p * PartSize
      /\ UNCHANGED <<arr, bkt, cache, splitter, told>>
  BY Jobs DEF Distribute, At, Set, data, heap, life, Places
<1>2. DistributeStep(p)
  BY MovesAreDistributing DEF DistributeStep
<1>3. \A q \in Part : /\ pc'[CountJob(q)] = pc[CountJob(q)]
                      /\ q # p => /\ pc'[DistributeJob(q)] = pc[DistributeJob(q)]
                                  /\ cur'[DistributeJob(q)] = cur[DistributeJob(q)]
  BY <1>2, DistributeFrame
<1>4. Summed /\ Summed'
  BY <1>0, <1>1 DEF Summed
<1>5. /\ \A i : Id(i)' = Id(i) /\ PartOf(i)' = PartOf(i)
      /\ \A b, q, m : Below(b, q, m)' = Below(b, q, m)
  BY <1>1, PlacesSettled
<1>6. \A q \in Part : From(q)' = From(q)
  BY <1>0, <1>1, <1>3 DEF From
<1>7. \A i \in Index : HasMoved(i)' <=> HasMoved(i)
  <2> SUFFICES ASSUME NEW i \in Index PROVE HasMoved(i)' <=> HasMoved(i)
    OBVIOUS
  <2>1. PartOf(i) \in Part /\ PartOf(i)' = PartOf(i) /\ PartOf(i) * PartSize <= i
    BY <1>0, <1>5, PartIndices
  <2>2. CASE PartOf(i) = p
    <3>1. ~(i < p * PartSize)
      BY <1>0, <2>1, <2>2, Ranges, Sizes DEF Index
    <3> QED BY <1>1, <2>1, <2>2, <3>1 DEF HasMoved
  <2>3. CASE PartOf(i) # p
    BY <1>3, <2>1, <2>3 DEF HasMoved
  <2> QED BY <2>2, <2>3
<1>8. Cached' /\ SummedRight'
  BY <1>0, <1>1, <1>3, <1>4, <1>5, <1>6 DEF Distribution, Cached, SummedRight
<1>9. \A q \in Part : pc'[DistributeJob(q)] = "move" => cur'[DistributeJob(q)] >= q * PartSize
  <2>1. p * PartSize \in Nat
    BY <1>0, Ranges, Sizes
  <2> QED BY <1>1, <1>3, <2>1 DEF Distribution, Strings
<1>10. Strings'
  BY <1>0, <1>1, <1>7, <1>9, StringsKept DEF Distribution
<1> QED BY <1>1, <1>4, <1>8, <1>10 DEF Kept, Distribution, CountedRight

(* A distributor frees its arrays behind the last string of its part. *)
LEMMA FreeKeeps ==
  ASSUME Control, ArrayTypes, Distribution, Early, [Next]_vars, NEW p \in Part, FreePart(p)
  PROVE  Kept
<1> USE DEF Control
<1>0. /\ Part' = Part /\ Index' = Index /\ PartSize' = PartSize /\ input \in Inputs
      /\ Bkt' = Bkt /\ \A q : PartIndex(q)' = PartIndex(q)
  BY Constant DEF Places, Bkt, BktNum
<1>1. /\ pc[DistributeJob(p)] = "move" /\ pc'[DistributeJob(p)] = "ddec"
      /\ bkt' = IF p # 0 THEN [bkt EXCEPT ![p] = Null] ELSE bkt
      /\ cache' = [cache EXCEPT ![p] = Null] /\ splitter' = splitter
      /\ DistributeStep(p)
  BY FreeArrays
<1>2. arr' = arr /\ told' = told /\ DOMAIN bkt = Part /\ DOMAIN cache = Part
      /\ cur[DistributeJob(p)] \notin PartIndex(p)
  BY DEF FreePart, data, life, ArrayTypes
<1>3. \A q \in Part : /\ pc'[CountJob(q)] = pc[CountJob(q)]
                      /\ q # p => /\ pc'[DistributeJob(q)] = pc[DistributeJob(q)]
                                  /\ cur'[DistributeJob(q)] = cur[DistributeJob(q)]
  BY <1>1, DistributeFrame
<1>4. Summed /\ Summed'
  BY <1>0, <1>1 DEF Summed
<1>5. /\ \A i : Id(i)' = Id(i) /\ PartOf(i)' = PartOf(i)
      /\ \A b, q, m : Below(b, q, m)' = Below(b, q, m)
  BY <1>1, PlacesSettled
<1>6. \A q \in Part : q # p => From(q)' = From(q)
  BY <1>0, <1>3 DEF From
<1>7. \A i \in Index : HasMoved(i)' <=> HasMoved(i)
  <2> SUFFICES ASSUME NEW i \in Index PROVE HasMoved(i)' <=> HasMoved(i)
    OBVIOUS
  <2>1. PartOf(i) \in Part /\ PartOf(i)' = PartOf(i)
    BY <1>0, <1>5, PartIndices
  <2>2. CASE PartOf(i) = p
    <3>1. i \in PartIndex(p)
      BY <1>0, <2>2, PartIndices
    <3>2. cur[DistributeJob(p)] \in Nat /\ cur[DistributeJob(p)] >= p * PartSize
      BY <1>1, Jobs DEF Places, Distribution, Strings
    <3> DEFINE lo == p * PartSize
               hi == Min({(p + 1) * PartSize, NumStrings})
    <3>3. PartIndex(p) = lo .. hi - 1 /\ cur[DistributeJob(p)] >= lo
      BY <3>2 DEF PartIndex
    <3> HIDE DEF lo, hi
    <3>4. i < cur[DistributeJob(p)]
      <4>1. lo \in Nat /\ hi \in Int
        <5>1. (p + 1) * PartSize \in Int /\ NumStrings \in Int
          BY <1>0, Ranges, Sizes
        <5>2. hi \in {(p + 1) * PartSize, NumStrings}
          BY <5>1, MinOfTwo DEF hi
        <5>3. lo \in Nat
          BY <1>0, Ranges, Sizes DEF lo
        <5> QED BY <5>1, <5>2, <5>3
      <4> QED BY <1>2, <3>1, <3>2, <3>3, <4>1
    <3> QED BY <1>1, <2>1, <2>2, <3>4 DEF HasMoved
  <2>3. CASE PartOf(i) # p
    BY <1>3, <2>1, <2>3 DEF HasMoved
  <2> QED BY <2>2, <2>3
<1>8. \A q \in Part : /\ q # p => bkt'[q] = bkt[q] /\ cache'[q] = cache[q]
                      /\ cache'[p] = Null
  BY <1>1, <1>2
<1>9. Cached'
  BY <1>0, <1>5, <1>8 DEF Distribution, Cached
<1>10. SummedRight'
  BY <1>0, <1>1, <1>3, <1>4, <1>5, <1>6, <1>8 DEF Distribution, SummedRight
<1>11. Strings'
  BY <1>0, <1>1, <1>2, <1>3, <1>7, StringsKept DEF Distribution, Strings
<1> QED BY <1>2, <1>4, <1>9, <1>10, <1>11 DEF Kept, Distribution, CountedRight

(* The others *)
LEMMA QuietKeeps ==
  ASSUME Control, Distribution, Early, [Next]_vars, QuietMove
  PROVE  Kept
<1> USE DEF Control
<1>0. /\ Part' = Part /\ Index' = Index /\ PartSize' = PartSize /\ input \in Inputs
      /\ Bkt' = Bkt /\ \A q : PartIndex(q)' = PartIndex(q)
  BY Constant DEF Places, Bkt, BktNum
<1>1. UNCHANGED <<arr, bkt, cache, splitter, told>>
  BY DEF QuietMove
<1>2. Unmoved
  BY QuietUnmoved
<1>3. /\ \A i : Id(i)' = Id(i) /\ PartOf(i)' = PartOf(i)
      /\ \A b, q, m : Below(b, q, m)' = Below(b, q, m)
  BY <1>1, PlacesSettled
<1>4. /\ \A i \in Index : HasMoved(i)' <=> HasMoved(i)
      /\ \A p \in Part : From(p)' = From(p)
  BY <1>0, <1>2, UnmovedStrings
<1>5. Cached' /\ CountedRight' /\ SummedRight'
  BY <1>0, <1>1, <1>2, <1>3, <1>4
     DEF Distribution, Cached, CountedRight, SummedRight, Unmoved
<1>6. \A q \in Part : pc'[DistributeJob(q)] = "move" => cur'[DistributeJob(q)] >= q * PartSize
  BY <1>2 DEF Unmoved, Distribution, Strings
<1>7. Strings'
  BY <1>0, <1>1, <1>4, <1>6, StringsKept DEF Distribution
<1> QED BY <1>1, <1>5, <1>7 DEF Kept, Distribution

-----------------------------------------------------------------------------
(* A move takes the string from the position the distributor is at, which  *)
(* is still there, to the place that is the string's own.                  *)
LEMMA MoveLeads ==
  ASSUME Control, Arrays, ArrayTypes, Distribution, Early, NEW p \in Part, MoveString(p)
  PROVE  LET i == cur[DistributeJob(p)]
         IN  /\ i \in PartIndex(p) /\ i \in Index /\ PartOf(i) = p /\ i + 1 \in Nat \ {0}
             /\ ~HasMoved(i) /\ Slot(i) \in Index
             /\ bkt' = [bkt EXCEPT ![p] = [bkt[p] EXCEPT ![Id(i)] = Slot(i)]]
             /\ arr' = [arr EXCEPT ![shadow][Slot(i)] = i + 1, ![active][i] = Moved]
             /\ cur' = [cur EXCEPT ![DistributeJob(p)] = i + 1]
             /\ bkt[p] \in [BktDomain(p) -> Int] /\ Id(i) \in Bkt
             /\ \A b \in Bkt : b \in BktDomain(p) /\ bkt[p][b] = Cardinality(Below(b, p, i))
<1> USE DEF Control
<1> DEFINE i == cur[DistributeJob(p)]
           b == cache[p][i]
<1>0. input \in Inputs /\ Bkt \subseteq BktDomain(p)
  BY Sizes DEF Places, Bkt, BktDomain
<1>1. /\ pc[DistributeJob(p)] = "move" /\ i \in PartIndex(p) /\ b \in Bkt
      /\ bkt[p] \in [BktDomain(p) -> Int] /\ cache[p] \in [PartIndex(p) -> Bkt]
      /\ bkt' = [bkt EXCEPT ![p] = [bkt[p] EXCEPT ![b] = bkt[p][b] - 1]]
  BY MoveArrays
<1>2. /\ cur' = [cur EXCEPT ![DistributeJob(p)] = i + 1]
      /\ arr' = [arr EXCEPT ![shadow][bkt[p][b] - 1] = arr[active][i], ![active][i] = Moved]
  BY DEF MoveString
<1>3. i \in Index /\ PartOf(i) = p /\ i \in Nat
  BY <1>0, <1>1, PartIndices, ArraysNotNull
<1>4. ~HasMoved(i)
  BY <1>1, <1>3 DEF HasMoved
<1>5. b = Id(i)
  <2>1. cache[p] # Null
    BY <1>0, <1>1, ArraysNotNull
  <2> QED BY <1>1, <2>1 DEF Distribution, Cached
<1>6. DOMAIN splitter = 0 .. NumSplitters - 1
  BY <1>1 DEF ArrayTypes, Phases, Summed
<1>7. \A c \in Bkt : c \in BktDomain(p) /\ bkt[p][c] = Cardinality(Below(c, p, i))
  <2>1. Summed /\ From(p) = i
    BY <1>1 DEF Summed, From
  <2> QED BY <1>0, <1>1, <2>1 DEF Distribution, SummedRight
<1>8. Slot(i) \in Index /\ bkt[p][b] - 1 = Slot(i)
  BY <1>0, <1>1, <1>3, <1>5, <1>6, <1>7, BelowStep, SlotsDiffer
<1>9. arr[active][i] = i + 1
  BY <1>3, <1>4 DEF Distribution, Strings
<1>10. /\ bkt' = [bkt EXCEPT ![p] = [bkt[p] EXCEPT ![Id(i)] = Slot(i)]]
       /\ arr' = [arr EXCEPT ![shadow][Slot(i)] = i + 1, ![active][i] = Moved]
  BY <1>1, <1>2, <1>5, <1>8, <1>9
<1>11. i + 1 \in Nat \ {0}
  BY <1>3
<1>12. bkt[p] \in [BktDomain(p) -> Int] /\ Id(i) \in Bkt
  BY <1>1, <1>5
<1> HIDE DEF b
<1> QED BY <1>1, <1>2, <1>3, <1>4, <1>7, <1>8, <1>10, <1>11, <1>12

LEMMA MoveKeeps ==
  ASSUME Control, Arrays, ArrayTypes, Distribution, Early, [Next]_vars,
         NEW p \in Part, MoveString(p)
  PROVE  Kept
<1> USE DEF Control
<1> DEFINE i == cur[DistributeJob(p)]
<1>0. /\ Part' = Part /\ Index' = Index /\ PartSize' = PartSize /\ input \in Inputs
      /\ Bkt' = Bkt /\ (\A q : PartIndex(q)' = PartIndex(q))
      /\ active' = active /\ shadow' = shadow
  BY Constant DEF Places, Bkt, BktNum
<1>1. /\ i \in PartIndex(p) /\ i \in Index /\ PartOf(i) = p /\ i + 1 \in Nat \ {0}
      /\ ~HasMoved(i) /\ Slot(i) \in Index
      /\ bkt' = [bkt EXCEPT ![p] = [bkt[p] EXCEPT ![Id(i)] = Slot(i)]]
      /\ arr' = [arr EXCEPT ![shadow][Slot(i)] = i + 1, ![active][i] = Moved]
      /\ cur' = [cur EXCEPT ![DistributeJob(p)] = i + 1]
      /\ bkt[p] \in [BktDomain(p) -> Int] /\ Id(i) \in Bkt
      /\ \A b \in Bkt : b \in BktDomain(p) /\ bkt[p][b] = Cardinality(Below(b, p, i))
  BY MoveLeads
<1>2. /\ pc[DistributeJob(p)] = "move" /\ pc' = pc /\ cache' = cache /\ splitter' = splitter
  BY MoveArrays
<1>3. told' = told /\ DOMAIN bkt = Part
  BY DEF MoveString, life, ArrayTypes
<1>4. Summed /\ Summed'
  BY <1>0, <1>2 DEF Summed
<1>5. /\ \A k : Id(k)' = Id(k) /\ PartOf(k)' = PartOf(k) /\ Slot(k)' = Slot(k)
      /\ \A b, q, m : Below(b, q, m)' = Below(b, q, m)
  BY <1>2, PlacesSettled
<1>6. DOMAIN splitter = 0 .. NumSplitters - 1
  BY <1>2 DEF ArrayTypes, Phases, Summed
<1>7. \A q \in Part : q # p => cur'[DistributeJob(q)] = cur[DistributeJob(q)]
  BY <1>1, Jobs, JobsDiffer DEF Places
<1>8. cur'[DistributeJob(p)] = i + 1
  BY <1>1, Jobs DEF Places
<1>9. \A k \in Index : HasMoved(k)' <=> HasMoved(k) \/ k = i
  <2> SUFFICES ASSUME NEW k \in Index PROVE HasMoved(k)' <=> HasMoved(k) \/ k = i
    OBVIOUS
  <2>1. PartOf(k) \in Part /\ PartOf(k)' = PartOf(k) /\ k \in Nat /\ i \in Nat
    BY <1>0, <1>1, <1>5, PartIndices, Sizes DEF Index
  <2>2. CASE PartOf(k) = p
    <3>1. HasMoved(k) <=> k < i
      BY <1>2, <2>2 DEF HasMoved
    <3>2. HasMoved(k)' <=> k < i + 1
      BY <1>2, <1>8, <2>1, <2>2 DEF HasMoved
    <3> HIDE DEF i
    <3> QED BY <2>1, <3>1, <3>2
  <2>3. CASE PartOf(k) # p
    BY <1>1, <1>2, <1>7, <2>1, <2>3 DEF HasMoved
  <2> QED BY <2>2, <2>3
<1>10. From(p) = i /\ From(p)' = i + 1 /\ \A q \in Part : q # p => From(q)' = From(q)
  BY <1>0, <1>2, <1>7, <1>8 DEF From
<1> HIDE DEF i
<1>11. \A b \in Bkt : bkt'[p][b] = Cardinality(Below(b, p, i + 1))
  <2> SUFFICES ASSUME NEW b \in Bkt PROVE bkt'[p][b] = Cardinality(Below(b, p, i + 1))
    OBVIOUS
  <2>1. bkt'[p] = [bkt[p] EXCEPT ![Id(i)] = Slot(i)]
    BY <1>1, <1>3
  <2>2. CASE b = Id(i)
    <3>1. bkt'[p][b] = Slot(i) /\ Below(b, p, i + 1) = Below(b, p, i) \ {i}
      BY <1>0, <1>1, <1>6, <2>1, <2>2, BelowStep
    <3>2. /\ IsFiniteSet(Below(b, p, i)) /\ i \in Below(b, p, i)
          /\ Slot(i) = Cardinality(Below(b, p, i)) - 1
      BY <1>0, <1>1, <1>6, <2>2, BelowStep
    <3>3. Cardinality(Below(b, p, i) \ {i}) = Cardinality(Below(b, p, i)) - 1
      BY <3>2, OneMore
    <3> QED BY <3>1, <3>2, <3>3
  <2>3. CASE b # Id(i)
    <3>1. Below(b, p, i + 1) = Below(b, p, i)
      <4>1. \A c \in Bkt : Below(c, p, i + 1) = IF c = Id(i) THEN Below(c, p, i) \ {i}
                                                           ELSE Below(c, p, i)
        BY ONLY <1>0, <1>1, <1>6, BelowStep
      <4> QED BY <2>3, <4>1
    <3> QED BY <1>1, <2>1, <2>3, <3>1
  <2> QED BY <2>2, <2>3
<1>12. SummedRight'
  <2> SUFFICES ASSUME NEW q \in Part, pc'[DistributeJob(q)] \in {"none", "queued", "move"},
                      NEW b \in Bkt
               PROVE  bkt'[q][b] = Cardinality(Below(b, q, From(q)'))
    BY <1>0, <1>5 DEF SummedRight
  <2>1. CASE q = p
    BY <1>10, <1>11, <2>1
  <2>2. CASE q # p
    <3>1. bkt'[q] = bkt[q] /\ From(q)' = From(q)
      BY <1>1, <1>3, <1>10, <2>2
    <3> QED BY <1>2, <1>4, <3>1 DEF Distribution, SummedRight
  <2> QED BY <2>1, <2>2
<1>13. Cached'
  BY <1>0, <1>2, <1>5 DEF Distribution, Cached
<1>14. /\ arr' \in [BOOLEAN -> [Index -> Int \union {Moved}]]
       /\ arr'[shadow][Slot(i)] = i + 1
       /\ \A x \in Index : x # Slot(i) => arr'[shadow][x] = arr[shadow][x]
       /\ \A k \in Index : k # i => arr'[active][k] = arr[active][k]
  <2>1. active \in BOOLEAN /\ shadow \in BOOLEAN /\ active # shadow
    BY <1>0, Sides
  <2>2. arr \in [BOOLEAN -> [Index -> Int \union {Moved}]]
    BY DEF Distribution, Strings
  <2>3. i + 1 \in Int \union {Moved} /\ Moved \in Int \union {Moved}
    BY <1>1
  <2>4. arr' = [arr EXCEPT ![shadow][Slot(i)] = i + 1, ![active][i] = Moved]
    BY <1>1
  <2>5. i \in Index /\ Slot(i) \in Index
    BY <1>1
  <2>6. arr'[shadow] = [arr[shadow] EXCEPT ![Slot(i)] = i + 1]
    BY <2>1, <2>2, <2>4
  <2>7. arr'[active] = [arr[active] EXCEPT ![i] = Moved]
    BY <2>1, <2>2, <2>4
  <2>8. \A side \in BOOLEAN : arr[side] \in [Index -> Int \union {Moved}]
    BY <2>2
  <2>9. /\ arr'[shadow] \in [Index -> Int \union {Moved}]
        /\ arr'[active] \in [Index -> Int \union {Moved}]
    BY <2>1, <2>3, <2>5, <2>6, <2>7, <2>8
  <2>10. \A side \in BOOLEAN : side = active \/ side = shadow
    BY <2>1
  <2>11. arr' \in [BOOLEAN -> [Index -> Int \union {Moved}]]
    BY <2>2, <2>4, <2>9, <2>10
  <2> QED BY <2>1, <2>5, <2>6, <2>7, <2>8, <2>11
<1>15. /\ \A k \in Index : Slot(k) = Slot(i) => k = i
       /\ \A k \in Index : Slot(k) \in Index
  BY <1>0, <1>1, <1>6, SlotsDiffer
<1>16. \A q \in Part : pc'[DistributeJob(q)] = "move" => cur'[DistributeJob(q)] >= q * PartSize
  <2>1. \A q \in Part : pc[DistributeJob(q)] = "move" => cur[DistributeJob(q)] >= q * PartSize
    BY DEF Distribution, Strings
  <2>2. i \in Nat /\ p * PartSize \in Nat
    BY <1>0, <1>1, Ranges, Sizes DEF Index
  <2>3. i >= p * PartSize
    BY <1>2, <2>1 DEF i
  <2>4. i + 1 >= p * PartSize
    BY <2>2, <2>3
  <2> QED BY <1>2, <1>7, <1>8, <2>1, <2>4
<1>17. \A k \in Index : IF HasMoved(k)' THEN arr'[shadow][Slot(k)] = k + 1
                                        ELSE arr'[active][k] = k + 1
  BY <1>9, <1>14, <1>15 DEF Distribution, Strings
<1>18. \A x \in Index : arr'[shadow][x] # Moved => \E k \in Index : HasMoved(k)' /\ Slot(k) = x
  BY <1>1, <1>9, <1>14 DEF Distribution, Strings
<1>19. Strings'
  BY <1>0, <1>5, <1>14, <1>16, <1>17, <1>18 DEF Strings
<1> QED BY <1>3, <1>4, <1>12, <1>13, <1>19 DEF Kept, Distribution, CountedRight

-----------------------------------------------------------------------------
LEMMA DistributionStep ==
  Control /\ Arrays /\ ArrayTypes /\ Distribution /\ [Next]_vars => Distribution'
<1> SUFFICES ASSUME Control, Arrays, ArrayTypes, Distribution, [Next]_vars, Early'
             PROVE  Kept
  BY DEF Distribution, Kept
<1>1. Early
  BY EarlyNext
<1>2. EarlyStep
  BY <1>1, EarlyNext DEF Distribution
<1> QED BY <1>1, <1>2, SampleKeeps, CountKeeps, SummingKeeps, DistributeKeeps, MoveKeeps,
           FreeKeeps, QuietKeeps DEF EarlyStep

LEMMA InitDistribution == Init => Distribution
<1> SUFFICES ASSUME Init PROVE Distribution
  OBVIOUS
<1>1. Control
  BY InitControl
<1>2. /\ input \in Inputs /\ told = 0 /\ \A p \in Part : cache[p] = Null
      /\ arr = [side \in BOOLEAN |->
                  [i \in Index |-> IF side = active THEN i + 1 ELSE Moved]]
  BY DEF Init
<1>3. \A p \in Part : pc[CountJob(p)] = "none" /\ pc[DistributeJob(p)] = "none"
  BY Jobs, JobsDiffer DEF Init
<1>4. ~Summed
  BY <1>3 DEF Summed
<1>5. active \in BOOLEAN /\ shadow \in BOOLEAN /\ active # shadow
  BY <1>2, Sides
<1>6. \A i \in Index : /\ ~HasMoved(i) /\ i + 1 \in Int
                       /\ arr[active][i] = i + 1 /\ arr[shadow][i] = Moved
  BY <1>1, <1>2, <1>4, <1>5, NothingMoved DEF Index
<1>7. arr \in [BOOLEAN -> [Index -> Int \union {Moved}]]
  BY <1>2, <1>6
<1> QED BY <1>2, <1>3, <1>4, <1>6, <1>7
        DEF Distribution, Cached, CountedRight, SummedRight, Strings

LEMMA DistributionInvariant == Spec => [](Control /\ Arrays /\ ArrayTypes /\ Distribution)
<1>1. Init => Distribution
  BY InitDistribution
<1>2. Control /\ Arrays /\ ArrayTypes /\ Distribution /\ [Next]_vars => Distribution'
  BY DistributionStep
<1> QED BY <1>1, <1>2, ArraysInvariant, PTL DEF Spec

(* Only a move of its own changes the position of a moving distributor. *)
LEMMA OnlyMoves ==
  ASSUME Places, [Next]_vars, NEW p \in Part, pc[DistributeJob(p)] = "move",
         cur'[DistributeJob(p)] # cur[DistributeJob(p)]
  PROVE  MoveString(p)
<1>1. DistributeJob(p) \in Job /\ \A q \in Part : DistributeJob(q) = DistributeJob(p) => q = p
  BY Jobs, JobsDiffer
<1>2. ASSUME NEW j \in Job, pc[j] # "move", NEW n, cur' = [cur EXCEPT ![j] = n] PROVE FALSE
  BY <1>1, <1>2 DEF Places
<1>3. cur' # cur
  OBVIOUS
<1>4. ASSUME NEW j \in Job, StepOf(j) PROVE MoveString(p)
  <2>1. CASE SpawnPart(j) \/ SkipBucket(j) \/ CopyBackBucket(j) \/ EnqueueSubstep(j)
    BY <1>2, <1>4, <2>1 DEF SpawnPart, SkipBucket, CopyBackBucket, EnqueueSubstep, AtBucket,
                            NextBucket, At
  <2>2. ASSUME NEW q \in Part, j = DistributeJob(q), Distribute(q) \/ DistributeFinished(q)
        PROVE  FALSE
    BY <1>2, <1>4, <2>2 DEF Distribute, DistributeFinished, At
  <2>3. ASSUME NEW q \in Part, j = DistributeJob(q), MoveString(q) PROVE q = p
    <3>1. cur' = [cur EXCEPT ![j] = cur[j] + 1]
      BY <2>3 DEF MoveString
    <3>2. j = DistributeJob(p)
      BY <1>1, <1>4, <3>1 DEF Places
    <3> QED BY <1>1, <2>3, <3>2
  <2> QED BY <1>3, <1>4, <2>1, <2>2, <2>3
          DEF StepOf, Sample, SpawnEnds, SpawnReadsDeleted, Count, CountDone, CountFinished,
              FreePart, DistributeDone, AddSubstep, EndBuckets, SubstepSorts, Notify, AllDone,
              FreeBkt
<1> QED BY <1>3, <1>4 DEF Next, Return, vars

(* Whatever the number of distributors, the sizes of their parts and the   *)
(* order their moves come in, a move writes to a place of the shadow array *)
(* that nothing has been written to.                                       *)
THEOREM NoOverwriteCorrect == Spec => NoOverwrite
<1> DEFINE Fresh == \A p \in Part, i \in Index :
                      At(DistributeJob(p), "move")
                        /\ cur[DistributeJob(p)]' # cur[DistributeJob(p)]
                        /\ arr'[shadow][i] # arr[shadow][i]
                      => arr[shadow][i] = Moved
<1>1. Control /\ Arrays /\ ArrayTypes /\ Distribution /\ [Next]_vars => [Fresh]_vars
  <2> SUFFICES ASSUME Control, Arrays, ArrayTypes, Distribution, [Next]_vars,
                      NEW p \in Part, NEW x \in Index, pc[DistributeJob(p)] = "move",
                      cur'[DistributeJob(p)] # cur[DistributeJob(p)],
                      arr'[shadow][x] # arr[shadow][x], arr[shadow][x] # Moved
               PROVE  FALSE
    BY DEF At
  <2>1. Early /\ input \in Inputs
    BY DEF Early, Moving, Control, Places
  <2>2. PICK k \in Index : HasMoved(k) /\ Slot(k) = x
    BY <2>1 DEF Distribution, Strings
  <2>3. PICK q \in Part : MoveString(q)
    BY OnlyMoves DEF Control
  <2> DEFINE i == cur[DistributeJob(q)]
  <2>4. /\ i \in Index /\ ~HasMoved(i) /\ Slot(i) \in Index
        /\ arr' = [arr EXCEPT ![shadow][Slot(i)] = i + 1, ![active][i] = Moved]
    BY <2>1, <2>3, MoveLeads
  <2>5. Slot(i) # x
    <3>1. DOMAIN splitter = 0 .. NumSplitters - 1
      BY <2>3, MoveArrays DEF ArrayTypes, Control, Phases, Summed
    <3> QED BY <2>1, <2>2, <2>4, <3>1, SlotsDiffer
  <2>6. active \in BOOLEAN /\ shadow \in BOOLEAN /\ active # shadow
    BY <2>1, Sides
  <2>7. arr \in [BOOLEAN -> [Index -> Int \union {Moved}]]
    BY <2>1 DEF Distribution, Strings
  <2> HIDE DEF i
  <2>8. arr'[shadow][x] = arr[shadow][x]
    BY <2>4, <2>5, <2>6, <2>7
  <2> QED BY <2>8
<1>2. Spec => [][Fresh]_vars
  BY <1>1, DistributionInvariant, PTL DEF Spec
<1> QED BY <1>2, PTL DEF NoOverwrite

-----------------------------------------------------------------------------
(* The second half.  A bucket waits until it is copied back or sorted by   *)
(* its substep.  While it waits, its strings are in its span of the shadow *)
(* array; from then on they are, in order, in the same span of the output  *)
(* array.                                                                  *)

(* How many strings belong to lower buckets, the places of bucket b, and   *)
(* its strings.                                                            *)
Start(b) == Cardinality({k \in Index : Id(k) < b})
Span(b) == Start(b) .. Start(b + 1) - 1
Strs(b) == {s \in Str : Bucket(KeyOf(s)) = b}

Unsettled(b) == Start(b) + 1 < Start(b + 1) /\ ~EqualAndDone(b)

(* The distributor has not come to it, or its substep has yet to sort it.  *)
Waiting(b) ==
  \/ \E p \in Part : /\ pc[DistributeJob(p)] \in {"bucket", "enqueue"}
                     /\ cur[DistributeJob(p)] <= b
  \/ pc[Substep(b)] = "queued"

(* What the string at x of the output array and the one before it, and the *)
(* entries next to it, have to be.                                         *)
Ordered(x) ==
  LET s == arr[output][x - 1]
      t == arr[output][x]
  IN  /\ KeyOf(s) < KeyOf(t) \/
           (KeyOf(s) = KeyOf(t) /\ (s < t \/ Terminated(KeyOf(s))))
      /\ class.lcp => lcp[x] = TrueLcp(s, t)
      /\ class.cache => chars[x] = Distinguishing(s, t)

(* The splitters are drawn. *)
Drawn ==
  /\ input \in Inputs /\ splitter \in [0 .. NumSplitters - 1 -> Keys]
  /\ \A i, k \in 0 .. NumSplitters - 1 : i < k => splitter[i] <= splitter[k]

ArrType == arr \in [BOOLEAN -> [Index -> Str \union {Moved}]]
LcpType == lcp \in [Index -> {Untouched} \union 0 .. KeyWidth]
CharsType == chars \in [Index -> {Untouched} \union 0 .. NumChars]

Shapes ==
  /\ ArrType /\ LcpType /\ CharsType /\ section \in [Bkt -> SUBSET Index]
  /\ pc[SampleJob] # "queued" => Drawn

(* Behind its distributor, bkt[0] has the beginnings of the buckets.       *)
Starts ==
  pc[DistributeJob(0)] \notin {"none", "queued", "move"} /\ bkt[0] # Null =>
    \A b \in 0 .. BktNum : b \in Bkt \/ ~Early => bkt[0][b] = Start(b)

Settled(b) ==
  /\ Waiting(b) => {arr[shadow][x] : x \in Span(b)} = Strs(b)
  /\ ~Waiting(b) => /\ {arr[output][x] : x \in Span(b)} = Strs(b)
                    /\ \A x \in Span(b) : x # Start(b) => Ordered(x)

Buckets == ~Early /\ alive => \A b \in Bkt : Settled(b)

Sections ==
  /\ \A p \in Part : pc[DistributeJob(p)] = "enqueue" => Unsettled(cur[DistributeJob(p)])
  /\ \A b \in Bkt : pc[Substep(b)] = "queued" => section[b] = Span(b) /\ Unsettled(b)

Ending ==
  /\ told \in Nat /\ (alive <=> told = 0)
  /\ result = Null => lcp[0] = Untouched /\ chars[0] = Untouched
  /\ result # Null => told > 0 /\ \A j \in Job : pc[j] \in {"none", "done"}

Sorting == Shapes /\ Starts /\ Buckets /\ Sections /\ Ending /\ SortedWhenTold

-----------------------------------------------------------------------------
(* Strings and their keys. *)
LEMMA KeysOfStrings ==
  ASSUME input \in Inputs
  PROVE  /\ \A s \in Str : /\ s \in Nat \ {0} /\ s # Moved /\ s - 1 \in Index
                           /\ KeyOf(s) = input.keys[s] /\ KeyOf(s) \in Keys /\ KeyOf(s) \in Nat
         /\ \A i \in Index : i \in Nat /\ i + 1 \in Str /\ (i + 1) - 1 = i
         /\ IsFiniteSet(Str) /\ IsFiniteSet(Index) /\ Cardinality(Index) = NumStrings
<1>1. input.keys \in Seq(Keys) /\ NumStrings \in Nat \ {0} /\ Len(input.keys) = NumStrings
  BY Sizes, InputAssumption DEF NumStrings
<1>2. \A s \in Str : s \in Nat \ {0} /\ s # Moved /\ s - 1 \in Index
  BY <1>1, MovedAssumption DEF Str, Index
<1>3. \A s \in Str : input.keys[s] \in Keys
  BY <1>1 DEF Str
<1>4. \A i \in Index : i \in Nat /\ i + 1 \in Str /\ (i + 1) - 1 = i
  BY <1>1 DEF Str, Index
<1>5. IsFiniteSet(Str) /\ IsFiniteSet(Index) /\ Cardinality(Index) = NumStrings
  BY <1>1, FS_Interval DEF Str, Index
<1> QED BY <1>2, <1>3, <1>4, <1>5, KeysAreNumbers DEF KeyOf

(* The output array is one of the two; there are no cached characters      *)
(* without LCPs.                                                           *)
LEMMA Outputs ==
  ASSUME input \in Inputs
  PROVE  output \in BOOLEAN /\ (class.cache => class.lcp) /\ CalcLcp = class.lcp
<1>1. \/ class = [out |-> FALSE, lcp |-> FALSE, cache |-> FALSE]
      \/ class = [out |-> TRUE, lcp |-> FALSE, cache |-> FALSE]
      \/ class = [out |-> FALSE, lcp |-> TRUE, cache |-> FALSE]
      \/ class = [out |-> TRUE, lcp |-> TRUE, cache |-> FALSE]
      \/ class = [out |-> TRUE, lcp |-> TRUE, cache |-> TRUE]
  BY InputAssumption
     DEF class, PointerClasses, StringShadowPtr, StringShadowOutPtr, StringShadowLcpPtr,
         StringShadowLcpOutPtr, StringShadowLcpCacheOutPtr
<1>2. class.out \in BOOLEAN
  <2>1. class.out = TRUE \/ class.out = FALSE
    BY <1>1
  <2> QED BY <2>1, Zenon
<1>3. class.cache => class.lcp
  BY <1>1
<1> QED BY <1>2, <1>3 DEF output, CalcLcp

(* Where the buckets begin. *)
LEMMA StartFacts ==
  ASSUME Drawn
  PROVE  /\ \A b \in 0 .. BktNum : Start(b) \in 0 .. NumStrings
         /\ \A b, c \in 0 .. BktNum : b <= c => Start(b) <= Start(c)
         /\ Start(0) = 0 /\ Start(BktNum) = NumStrings
<1>1. /\ IsFiniteSet(Index) /\ Cardinality(Index) = NumStrings /\ NumStrings \in Nat
      /\ BktNum \in Nat /\ DOMAIN splitter = 0 .. NumSplitters - 1
  BY KeysOfStrings, Sizes DEF Drawn
<1>2. \A i \in Index : Id(i) \in Bkt /\ Id(i) \in Nat
  BY <1>1, PrecedesIsOrder DEF Drawn
<1> DEFINE L(b) == {k \in Index : Id(k) < b}
<1>3. \A b : L(b) \in SUBSET Index /\ Start(b) = Cardinality(L(b))
  BY DEF Start
<1>4. \A b, c \in 0 .. BktNum : b <= c => L(b) \subseteq L(c)
  BY <1>1, <1>2
<1>5. L(0) = {}
  BY <1>2
<1>6. L(BktNum) = Index
  BY <1>1, <1>2 DEF Bkt
<1> HIDE DEF L
<1>7. \A b : IsFiniteSet(L(b)) /\ Cardinality(L(b)) \in 0 .. NumStrings
  BY <1>1, <1>3, FS_Subset, FS_CardinalityType
<1>8. \A b, c \in 0 .. BktNum : b <= c => Start(b) <= Start(c)
  BY <1>3, <1>4, <1>7, FS_Subset
<1>9. Start(0) = 0 /\ Start(BktNum) = NumStrings
  BY <1>1, <1>3, <1>5, <1>6, FS_EmptySet
<1> QED BY <1>3, <1>7, <1>8, <1>9

(* Every place is the place of a string. *)
LEMMA SlotsFill ==
  ASSUME Drawn, NEW x \in Index
  PROVE  \E i \in Index : Slot(i) = x
<1> DEFINE P == [i \in Index |-> {k \in Index : Precedes(k, i)}]
<1>1. IsFiniteSet(Index) /\ Cardinality(Index) = NumStrings /\ DOMAIN P = Index
  BY KeysOfStrings DEF Drawn
<1>2. \A i \in Index : P[i] \in SUBSET Index /\ i \notin P[i]
  BY PrecedesIsOrder DEF Drawn
<1>3. \A i, k \in Index : k \in P[i] => P[k] \in SUBSET P[i]
  BY PrecedesIsOrder DEF Drawn
<1>4. \A i, k \in Index : i = k \/ k \in P[i] \/ i \in P[k]
  BY PrecedesIsOrder DEF Drawn
<1>5. \A i \in Index : Slot(i) = Cardinality(P[i])
  BY DEF Slot
<1> HIDE DEF P
<1>6. \A r \in 0 .. Cardinality(Index) - 1 : \E i \in Index : Cardinality(P[i]) = r
  BY <1>1, <1>2, <1>3, <1>4, RanksFill
<1> QED BY <1>1, <1>5, <1>6 DEF Index

(* A string's place is in the span of its bucket. *)
LEMMA SlotInSpan ==
  ASSUME Drawn, NEW i \in Index
  PROVE  Id(i) \in Bkt /\ Slot(i) \in Span(Id(i))
<1> DEFINE b == Id(i)
           P == {k \in Index : Precedes(k, i)}
           L == {k \in Index : Id(k) < b}
           U == {k \in Index : Id(k) < b + 1}
<1>1. IsFiniteSet(Index) /\ DOMAIN splitter = 0 .. NumSplitters - 1 /\ input \in Inputs
  BY KeysOfStrings DEF Drawn
<1>2. \A k \in Index : Id(k) \in Bkt /\ Id(k) \in Nat /\ ~Precedes(k, k)
  BY <1>1, PrecedesIsOrder
<1>3. L \subseteq P
  BY DEF Precedes
<1>4. P \subseteq U \ {i} /\ i \in U
  BY <1>2 DEF Precedes
<1>5. Slot(i) = Cardinality(P) /\ Start(b) = Cardinality(L) /\ Start(b + 1) = Cardinality(U)
  BY DEF Slot, Start
<1>6. P \subseteq Index /\ U \subseteq Index
  OBVIOUS
<1> HIDE DEF P, L, U, b
<1>7. IsFiniteSet(P) /\ IsFiniteSet(U) /\ IsFiniteSet(U \ {i})
  BY <1>1, <1>6, FS_Subset, FS_RemoveElement
<1>8. Cardinality(L) <= Cardinality(P) /\ Cardinality(P) <= Cardinality(U \ {i})
  BY <1>3, <1>4, <1>7, FS_Subset
<1>9. Cardinality(U \ {i}) = Cardinality(U) - 1
  BY <1>4, <1>7, OneMore
<1>10. Cardinality(L) \in Nat /\ Cardinality(P) \in Nat /\ Cardinality(U) \in Nat
  BY <1>3, <1>7, FS_Subset, FS_CardinalityType
<1> QED BY <1>2, <1>5, <1>8, <1>9, <1>10 DEF Span, b

(* The spans divide the array, in the order of the buckets. *)
LEMMA Spans ==
  ASSUME Drawn
  PROVE  /\ \A b \in Bkt : /\ Start(b) \in Nat /\ Start(b + 1) \in Nat /\ Start(b) <= Start(b + 1)
                           /\ Span(b) \subseteq Index /\ Span(b) \subseteq Nat
         /\ \A b, c \in Bkt : b < c => Start(b + 1) <= Start(c)
         /\ \A b, c \in Bkt : \A x \in Span(b), y \in Span(c) : b < c => x < y
         /\ \A b, c \in Bkt : \A x \in Span(b) : x \in Span(c) => b = c
         /\ \A x \in Index : \E b \in Bkt : x \in Span(b)
<1>1. /\ BktNum \in Nat /\ Bkt = 0 .. BktNum - 1 /\ NumStrings \in Nat /\ input \in Inputs
      /\ \A b \in Bkt : b \in Nat /\ b + 1 \in 0 .. BktNum /\ b \in 0 .. BktNum
  <2>1. BktNum \in Nat /\ Bkt = 0 .. BktNum - 1 /\ NumStrings \in Nat /\ input \in Inputs
    BY Sizes DEF Drawn, Bkt
  <2>2. \A b \in 0 .. BktNum - 1 : b \in Nat /\ b + 1 \in 0 .. BktNum /\ b \in 0 .. BktNum
    BY ONLY <2>1
  <2> QED BY <2>1, <2>2
<1>2. ASSUME NEW b \in Bkt
      PROVE  /\ Start(b) \in Nat /\ Start(b + 1) \in Nat /\ Start(b) <= Start(b + 1)
             /\ Start(b + 1) <= NumStrings
  BY <1>1, StartFacts
<1>3. \A b \in Bkt : Span(b) \subseteq Index /\ Span(b) \subseteq Nat
  <2>1. ASSUME NEW i \in Nat, NEW k \in Nat, NEW n \in Nat, k <= n
        PROVE  i .. k - 1 \subseteq 0 .. n - 1 /\ i .. k - 1 \subseteq Nat
    BY ONLY <2>1
  <2> QED BY <1>1, <1>2, <2>1 DEF Span, Index
<1>4. \A b, c \in Bkt : b < c => Start(b + 1) <= Start(c)
  <2> SUFFICES ASSUME NEW b \in Bkt, NEW c \in Bkt, b < c PROVE Start(b + 1) <= Start(c)
    OBVIOUS
  <2>1. b + 1 <= c /\ b + 1 \in 0 .. BktNum /\ c \in 0 .. BktNum
    BY <1>1
  <2> QED BY <2>1, StartFacts
<1>5. \A b, c \in Bkt : \A x \in Span(b), y \in Span(c) : b < c => x < y
  BY <1>2, <1>4 DEF Span
<1>6. \A b, c \in Bkt : \A x \in Span(b) : x \in Span(c) => b = c
  <2> SUFFICES ASSUME NEW b \in Bkt, NEW c \in Bkt, NEW x \in Span(b), x \in Span(c), b # c
               PROVE  FALSE
    OBVIOUS
  <2>1. b < c \/ c < b
    BY <1>1
  <2>2. x < x
    BY <1>5, <2>1
  <2>3. x \in Nat
    BY <1>3
  <2> QED BY <2>2, <2>3
<1>7. \A x \in Index : \E b \in Bkt : x \in Span(b)
  BY SlotsFill, SlotInSpan
<1> QED BY <1>2, <1>3, <1>4, <1>5, <1>6, <1>7

(* The strings of a bucket are as many as its places. *)
LEMMA StrsCount ==
  ASSUME Drawn, NEW b \in Bkt
  PROVE  /\ IsFiniteSet(Strs(b)) /\ Strs(b) \subseteq Str
         /\ Cardinality(Strs(b)) = Start(b + 1) - Start(b)
<1> DEFINE I == {k \in Index : Id(k) = b}
           L == {k \in Index : Id(k) < b}
           U == {k \in Index : Id(k) < b + 1}
           f == [i \in I |-> i + 1]
<1>1. IsFiniteSet(Index) /\ b \in Nat /\ \A i \in Index : Id(i) \in Nat /\ i \in Nat
  BY KeysOfStrings, PrecedesIsOrder, Ranges DEF Drawn
<1>2. Strs(b) \subseteq Str
  BY DEF Strs
<1>3. \A i \in Index : i + 1 \in Str /\ Bucket(KeyOf(i + 1)) = Id(i)
  BY KeysOfStrings DEF Drawn, Id
<1>4. \A s \in Str : s - 1 \in Index /\ (s - 1) + 1 = s
  BY KeysOfStrings DEF Drawn
<1>5. f \in [I -> Strs(b)]
  BY <1>3 DEF Strs
<1>6. \A i, k \in I : f[i] = f[k] => i = k
  BY <1>1
<1>7. \A s \in Strs(b) : \E i \in I : f[i] = s
  <2> SUFFICES ASSUME NEW s \in Strs(b) PROVE \E i \in I : f[i] = s
    OBVIOUS
  <2>1. s \in Str /\ Bucket(KeyOf(s)) = b
    BY DEF Strs
  <2>2. s - 1 \in I /\ f[s - 1] = s
    BY <1>3, <1>4, <2>1
  <2> QED BY <2>2
<1>8. I \subseteq Index /\ U \subseteq Index /\ L \subseteq Index /\ U = L \union I /\ L \cap I = {}
  BY <1>1
<1>9. Start(b) = Cardinality(L) /\ Start(b + 1) = Cardinality(U)
  BY DEF Start
<1> HIDE DEF I, L, U, f
<1>10. IsFiniteSet(I) /\ IsFiniteSet(L)
  BY <1>1, <1>8, FS_Subset
<1>11. ExistsBijection(I, Strs(b))
  <2>1. f \in Bijection(I, Strs(b))
    BY <1>5, <1>6, <1>7 DEF Bijection, Injection, Surjection, IsInjective
  <2> QED BY <2>1 DEF ExistsBijection
<1>12. IsFiniteSet(Strs(b)) /\ Cardinality(Strs(b)) = Cardinality(I)
  BY <1>10, <1>11, FS_Bijection
<1>13. Cardinality(U) = Cardinality(L) + Cardinality(I)
  <2>1. Cardinality(U) = Cardinality(L) + Cardinality(I) - Cardinality({})
    BY <1>8, <1>10, FS_Union
  <2> QED BY <1>10, <2>1, FS_EmptySet, FS_CardinalityType
<1>14. Cardinality(L) \in Nat /\ Cardinality(I) \in Nat
  BY <1>10, FS_CardinalityType
<1> QED BY <1>2, <1>9, <1>12, <1>13, <1>14

(* Every string is in one bucket. *)
LEMMA StrsCover ==
  ASSUME Drawn
  PROVE  /\ \A s \in Str : Bucket(KeyOf(s)) \in Bkt /\ s \in Strs(Bucket(KeyOf(s)))
         /\ \A i \in Index : i + 1 \in Strs(Id(i))
         /\ \A b : \A s \in Strs(b) : s \in Str /\ s - 1 \in Index /\ Id(s - 1) = b
<1>1. \A s \in Str : s - 1 \in Index /\ (s - 1) + 1 = s /\ KeyOf(s) = input.keys[s]
  BY KeysOfStrings DEF Drawn
<1>2. \A i \in Index : i + 1 \in Str
  BY KeysOfStrings DEF Drawn
<1>3. DOMAIN splitter = 0 .. NumSplitters - 1
  BY DEF Drawn
<1> QED BY <1>1, <1>2, <1>3, BucketInRange DEF Strs, Id

(* What is known of the splitters about a string of bucket b. *)
LEMMA SplittersAround ==
  ASSUME Drawn, NEW b \in Bkt, NEW s \in Strs(b)
  PROVE  /\ b % 2 = 1 => b \div 2 \in 0 .. NumSplitters - 1 /\ KeyOf(s) = splitter[b \div 2]
         /\ b % 2 # 1 => /\ b \div 2 \in 0 .. NumSplitters /\ b % 2 = 0
                         /\ \A i \in 0 .. NumSplitters - 1 :
                              IF i < b \div 2 THEN splitter[i] < KeyOf(s)
                                              ELSE i = b \div 2 => KeyOf(s) < splitter[i]
<1>1. KeyOf(s) \in Int /\ BucketIn(splitter, KeyOf(s)) = b /\ NumSplitters \in Nat
  BY KeysOfStrings, SizeAssumption DEF Drawn, Strs, Bucket
<1>2. splitter \in [0 .. NumSplitters - 1 -> Int]
  BY KeysAreNumbers DEF Drawn
<1>3. \A i, k \in 0 .. NumSplitters - 1 : i < k => splitter[i] <= splitter[k]
  BY DEF Drawn
<1> DEFINE key == KeyOf(s)
<1> HIDE DEF key
<1>4. PICK l \in 0 .. NumSplitters :
        /\ \A i \in 0 .. NumSplitters - 1 : splitter[i] < key <=> i < l
        /\ \/ BucketIn(splitter, key) = 2 * l + 1 /\ l < NumSplitters /\ splitter[l] = key
           \/ BucketIn(splitter, key) = 2 * l /\ (l < NumSplitters => key < splitter[l])
  BY <1>1, <1>2, <1>3, BucketLies DEF key
<1>5. \A n \in Nat : /\ (2 * n) \div 2 = n /\ (2 * n + 1) \div 2 = n
                     /\ (2 * n) % 2 = 0 /\ (2 * n + 1) % 2 = 1
  OBVIOUS
<1>6. CASE b = 2 * l + 1 /\ l < NumSplitters /\ splitter[l] = key
  BY <1>4, <1>5, <1>6, <1>1 DEF key
<1>7. CASE b = 2 * l /\ (l < NumSplitters => key < splitter[l])
  <2>1. b \div 2 = l /\ b % 2 = 0
    BY <1>5, <1>7
  <2> QED BY <1>1, <1>4, <1>7, <2>1 DEF key
<1> QED BY <1>1, <1>4, <1>6, <1>7 DEF key

(* Strings of lower buckets have lower keys. *)
LEMMA BucketsOrder ==
  ASSUME Drawn, NEW b \in Bkt, NEW c \in Bkt, b < c, NEW s \in Strs(b), NEW t \in Strs(c)
  PROVE  KeyOf(s) < KeyOf(t)
<1>1. /\ KeyOf(s) \in Int /\ BucketIn(splitter, KeyOf(s)) = b
      /\ KeyOf(t) \in Int /\ BucketIn(splitter, KeyOf(t)) = c /\ NumSplitters \in Nat
  BY KeysOfStrings, SizeAssumption DEF Drawn, Strs, Bucket
<1>2. splitter \in [0 .. NumSplitters - 1 -> Int]
  BY KeysAreNumbers DEF Drawn
<1>3. \A i, k \in 0 .. NumSplitters - 1 : i < k => splitter[i] <= splitter[k]
  BY DEF Drawn
<1> DEFINE x == KeyOf(s)
           y == KeyOf(t)
<1> HIDE DEF x, y
<1>4. x \in Int /\ y \in Int /\ BucketIn(splitter, x) = b /\ BucketIn(splitter, y) = c
  BY <1>1 DEF x, y
<1>5. y <= x => BucketIn(splitter, y) <= BucketIn(splitter, x)
  BY <1>1, <1>2, <1>3, <1>4, BucketMonotonic
<1>6. b \in Int /\ c \in Int
  BY Ranges DEF Drawn
<1>7. x < y
  BY <1>4, <1>5, <1>6
<1> QED BY <1>7 DEF x, y

(* The strings of a bucket that is not done share the depth of its substep, *)
(* and do not end within it.                                                *)
LEMMA DepthOfBucket ==
  ASSUME Drawn, NEW b \in Bkt, ~EqualAndDone(b), NEW s \in Strs(b), NEW t \in Strs(b)
  PROVE  /\ KeyLcp(KeyOf(s), KeyOf(t)) >= SubstepDepth(b)
         /\ SubstepDepth(b) = KeyWidth => ~Terminated(KeyOf(s))
<1> DEFINE x == KeyOf(s)
           y == KeyOf(t)
           h == b \div 2
<1>1. x \in Keys /\ y \in Keys /\ x \in Int /\ y \in Int
  BY KeysOfStrings DEF Drawn, Strs
<1>2. /\ b % 2 = 1 => h \in 0 .. NumSplitters - 1 /\ x = splitter[h] /\ y = splitter[h]
      /\ b % 2 # 1 => /\ h \in 0 .. NumSplitters /\ b % 2 = 0
                      /\ \A i \in 0 .. NumSplitters - 1 :
                           IF i < h THEN splitter[i] < x /\ splitter[i] < y
                                    ELSE i = h => x < splitter[i] /\ y < splitter[i]
  BY SplittersAround
<1>3. DOMAIN splitter = 0 .. NumSplitters - 1 /\ NumSplitters \in Nat
      /\ \A i \in 0 .. NumSplitters - 1 : splitter[i] \in Keys /\ splitter[i] \in Int
  BY SizeAssumption, KeysAreNumbers DEF Drawn
<1>4. KeyLcp(x, y) \in 0 .. KeyWidth /\ KeyWidth \in Nat \ {0}
  BY <1>1, KeyLcpIsPrefix, KeyAssumption
<1>a. EqualAndDone(b) <=> b % 2 = 1 /\ Terminated(splitter[h])
  BY DEF EqualAndDone
<1>b. SubstepDepth(b) = IF b % 2 = 0 THEN SplitterLcp(h) ELSE KeyWidth
  BY DEF SubstepDepth
<1> HIDE DEF x, y, h
<1>5. CASE b % 2 = 1
  <2>1. SubstepDepth(b) = KeyWidth
    BY <1>5, <1>b
  <2>2. KeyLcp(x, y) = KeyWidth
    <3>1. x = y
      BY <1>2, <1>5
    <3>2. KeyWidth \in 0 .. KeyWidth /\ KeyWidth <= KeyLcp(x, y)
      BY <1>1, <1>4, <3>1, KeyLcpIsPrefix
    <3> QED BY <1>4, <3>2
  <2>3. ~Terminated(x)
    BY <1>2, <1>5, <1>a
  <2> QED BY <1>4, <2>1, <2>2, <2>3 DEF x, y
<1>6. CASE b % 2 # 1
  <2>1. h \in 0 .. NumSplitters /\ SubstepDepth(b) = SplitterLcp(h)
    BY <1>2, <1>6, <1>b
  <2>2. CASE h - 1 \in DOMAIN splitter /\ h \in DOMAIN splitter
    <3> DEFINE u == splitter[h - 1]
               v == splitter[h]
    <3>1. u \in Keys /\ v \in Keys /\ u < x /\ x < v /\ u < y /\ y < v /\ u \in Int /\ v \in Int
      BY <1>2, <1>3, <1>6, <2>1, <2>2
    <3>2. SplitterLcp(h) = KeyLcp(u, v)
      BY <2>2 DEF SplitterLcp, SplitterLcpIn
    <3> HIDE DEF u, v
    <3>3. u <= x /\ x <= v /\ u <= y /\ y <= v /\ u # v
      BY <1>1, <3>1
    <3>4. KeyLcp(u, v) <= KeyLcp(x, y)
      BY <1>1, <3>1, <3>3, KeyLcpBetween
    <3>5. KeyLcp(u, v) # KeyWidth
      BY <3>1, <3>3, KeyLcpFull
    <3>6. KeyLcp(u, v) \in 0 .. KeyWidth
      BY <3>1, KeyLcpIsPrefix
    <3> QED BY <1>4, <2>1, <3>2, <3>4, <3>5, <3>6 DEF x, y
  <2>3. CASE ~(h - 1 \in DOMAIN splitter /\ h \in DOMAIN splitter)
    <3>1. SplitterLcp(h) = 0
      BY <2>3 DEF SplitterLcp, SplitterLcpIn
    <3> QED BY <1>4, <2>1, <3>1 DEF x, y
  <2> QED BY <2>2, <2>3
<1> QED BY <1>5, <1>6

(* What is written into the two arrays of LCPs. *)
LEMMA LcpTypes ==
  ASSUME input \in Inputs, NEW s \in Str, NEW t \in Str
  PROVE  /\ TrueLcp(s, t) \in 0 .. KeyWidth
         /\ Distinguishing(s, t) \in 0 .. NumChars
         /\ KeyOf(s) < KeyOf(t) => Distinguishing(s, t) = CharAt(KeyOf(t), TrueLcp(s, t))
<1>1. KeyOf(s) \in Keys /\ KeyOf(t) \in Keys /\ KeyOf(s) \in Nat /\ KeyOf(t) \in Nat
  BY KeysOfStrings
<1>2. KeyWidth \in Nat \ {0} /\ Place = 0 .. KeyWidth - 1 /\ NumChars \in Nat
  BY KeyAssumption DEF Place
<1>3. TrueLcp(s, t) \in 0 .. KeyWidth
  <2>1. KeyLcp(KeyOf(s), KeyOf(t)) \in 0 .. KeyWidth
    BY <1>1, KeyLcpIsPrefix
  <2>2. Terminated(KeyOf(s)) => KeyDepth(KeyOf(s)) \in 0 .. KeyWidth - 1
    BY <1>2, KeyDepthTerminates
  <2> QED BY <1>2, <2>1, <2>2 DEF TrueLcp
<1>4. TrueLcp(s, t) # KeyWidth => CharAt(KeyOf(t), TrueLcp(s, t)) \in 0 .. NumChars
  <2> SUFFICES ASSUME TrueLcp(s, t) # KeyWidth
               PROVE  CharAt(KeyOf(t), TrueLcp(s, t)) \in 0 .. NumChars
    OBVIOUS
  <2>1. TrueLcp(s, t) \in Place
    BY <1>2, <1>3
  <2>2. CharAt(KeyOf(t), TrueLcp(s, t)) \in 0 .. NumChars - 1
    BY <1>1, <2>1, PrefixStep
  <2> QED BY <1>2, <2>2
<1>5. KeyOf(s) < KeyOf(t) => TrueLcp(s, t) # KeyWidth
  BY <1>1, KeyLcpFull DEF TrueLcp
<1> QED BY <1>2, <1>3, <1>4, <1>5 DEF Distinguishing, Beyond

(* Equal strings, as those of an equal bucket of a terminated key. *)
LEMMA EqualStrings ==
  ASSUME Drawn, NEW b \in Bkt, EqualAndDone(b), NEW s \in Strs(b), NEW t \in Strs(b)
  PROVE  /\ KeyOf(s) = KeyOf(t) /\ Terminated(KeyOf(s))
         /\ TrueLcp(s, t) = KeyDepth(splitter[b \div 2])
         /\ KeyDepth(splitter[b \div 2]) \in 0 .. KeyWidth
         /\ Distinguishing(s, t) = 0
<1> DEFINE k == splitter[b \div 2]
<1>1. KeyOf(s) = k /\ KeyOf(t) = k /\ Terminated(k)
  BY SplittersAround DEF EqualAndDone
<1> HIDE DEF k
<1>2. KeyDepth(k) \in Place /\ CharAt(k, KeyDepth(k)) = 0
  BY <1>1, KeyDepthTerminates
<1>3. KeyDepth(k) \in 0 .. KeyWidth /\ KeyDepth(k) # KeyWidth
  BY <1>2, KeyAssumption DEF Place
<1>4. TrueLcp(s, t) = KeyDepth(k)
  BY <1>1 DEF TrueLcp
<1> QED BY <1>1, <1>2, <1>3, <1>4 DEF Distinguishing, k

(* The ranks of a bucket's strings are, from the beginning of its span, the *)
(* places there, and in their order.                                        *)
LEMMA RanksOfBucket ==
  ASSUME Drawn, NEW b \in Bkt, NEW S, S = Strs(b),
         NEW R, DOMAIN R = S, \A s \in S : R[s] = Cardinality({t \in S : Before(t, s)})
  PROVE  /\ \A s \in S : R[s] \in Nat /\ Start(b) + R[s] \in Span(b)
         /\ \A s, t \in S : R[s] = R[t] => s = t
         /\ \A s, t \in S : R[s] < R[t] => Before(s, t)
         /\ \A x \in Span(b) : \E s \in S : R[s] = x - Start(b)
<1> DEFINE P == [s \in S |-> {t \in S : Before(t, s)}]
<1>1. IsFiniteSet(S) /\ Cardinality(S) = Start(b + 1) - Start(b) /\ S \subseteq Str
  BY StrsCount
<1>2. \A s \in S : s \in Nat /\ KeyOf(s) \in Nat
  BY <1>1, KeysOfStrings DEF Drawn
<1>3. DOMAIN P = S /\ \A s \in S : P[s] \in SUBSET S /\ s \notin P[s]
  BY <1>2 DEF Before
<1>4. \A s, t \in S : t \in P[s] => P[t] \in SUBSET P[s]
  BY <1>2 DEF Before
<1>5. \A s, t \in S : s = t \/ t \in P[s] \/ s \in P[t]
  BY <1>2 DEF Before
<1>6. \A s \in S : R[s] = Cardinality(P[s])
  OBVIOUS
<1>7. \A s, t \in S : t \in P[s] <=> Before(t, s)
  OBVIOUS
<1> HIDE DEF P
<1>8. /\ \A x \in S : Cardinality(P[x]) \in 0 .. Cardinality(S) - 1
      /\ \A x, y \in S : y \in P[x] <=> Cardinality(P[y]) < Cardinality(P[x])
      /\ \A x, y \in S : Cardinality(P[x]) = Cardinality(P[y]) => x = y
      /\ \A r \in 0 .. Cardinality(S) - 1 : \E x \in S : Cardinality(P[x]) = r
  BY <1>1, <1>3, <1>4, <1>5, RanksFill
<1>9. Start(b) \in Nat /\ Start(b + 1) \in Nat
  BY Spans
<1>10. \A s \in S : R[s] \in Nat /\ Start(b) + R[s] \in Span(b)
  BY <1>1, <1>6, <1>8, <1>9 DEF Span
<1>11. \A s, t \in S : R[s] = R[t] => s = t
  BY <1>6, <1>8
<1>12. \A s, t \in S : R[s] < R[t] => Before(s, t)
  BY <1>6, <1>7, <1>8
<1>13. \A x \in Span(b) : \E s \in S : R[s] = x - Start(b)
  <2> SUFFICES ASSUME NEW x \in Span(b) PROVE \E s \in S : R[s] = x - Start(b)
    OBVIOUS
  <2>1. x - Start(b) \in 0 .. Cardinality(S) - 1
    BY <1>1, <1>9 DEF Span
  <2> QED BY <1>6, <1>8, <2>1
<1> QED BY <1>10, <1>11, <1>12, <1>13

-----------------------------------------------------------------------------
(* What depends on the input and the splitters stays with them. *)
LEMMA SpansSettled ==
  ASSUME [Next]_vars, splitter' = splitter
  PROVE  /\ Bkt' = Bkt /\ Str' = Str /\ Drawn' = Drawn
         /\ \A b : /\ Start(b)' = Start(b) /\ Span(b)' = Span(b) /\ Strs(b)' = Strs(b)
                   /\ (EqualAndDone(b)' <=> EqualAndDone(b)) /\ (Unsettled(b)' <=> Unsettled(b))
         /\ \A s : KeyOf(s)' = KeyOf(s)
         /\ \A s, t : TrueLcp(s, t)' = TrueLcp(s, t) /\ Distinguishing(s, t)' = Distinguishing(s, t)
<1>1. input' = input /\ Index' = Index /\ NumStrings' = NumStrings
  BY Constant
<1>2. Bkt' = Bkt /\ Str' = Str /\ Drawn' = Drawn
  BY <1>1 DEF Bkt, BktNum, Str, Drawn
<1>3. \A i : Id(i)' = Id(i)
  BY PlacesSettled
<1>4. \A b : Start(b)' = Start(b)
  BY <1>1, <1>3 DEF Start
<1>5. \A s : KeyOf(s)' = KeyOf(s)
  BY <1>1 DEF KeyOf
<1>6. \A b : Span(b)' = Span(b)
  BY <1>4 DEF Span
<1>7. \A b : Strs(b)' = Strs(b)
  BY <1>2, <1>5 DEF Strs, Bucket
<1>8. \A b : (EqualAndDone(b)' <=> EqualAndDone(b))
  BY DEF EqualAndDone
<1>9. \A b : (Unsettled(b)' <=> Unsettled(b))
  BY <1>4, <1>8 DEF Unsettled
<1>10. \A s, t : TrueLcp(s, t)' = TrueLcp(s, t)
  BY <1>5 DEF TrueLcp
<1>11. \A s, t : Distinguishing(s, t)' = Distinguishing(s, t)
  BY <1>5, <1>10 DEF Distinguishing
<1> QED BY <1>2, <1>4, <1>5, <1>6, <1>7, <1>8, <1>9, <1>10, <1>11

(* Early on, nobody is where the buckets are dealt with. *)
LEMMA EarlyPlaces ==
  ASSUME Control, Early, NEW j \in Job
  PROVE  pc[j] \notin {"bucket", "enqueue", "notify", "alldone", "freebkt"}
<1> USE DEF Control
<1>1. ASSUME NEW p \in Part, pc[DistributeJob(p)] \in LastPlaces PROVE pc[DistributeJob(p)] = "recurse"
  <2>1. p \in Recursing
    BY <1>1 DEF Recursing
  <2>2. Moving = {} /\ \A q \in Part : q # p => pc[DistributeJob(q)] = "done"
    BY <2>1 DEF LastAlone
  <2> QED BY <2>2 DEF Early
<1>2. \A b \in Bkt : pc[Substep(b)] = "none"
  BY DEF EarlyQuiet
<1>3. j = SampleJob => pc[j] \notin {"bucket", "enqueue", "notify", "alldone", "freebkt"}
  BY DEF Places
<1>4. \A p \in Part : pc[CountJob(p)] \notin {"bucket", "enqueue", "notify", "alldone", "freebkt"}
  BY DEF Places
<1> QED BY <1>1, <1>2, <1>3, <1>4, Jobs DEF LastPlaces

(* Nor is anything written that they write. *)
LEMMA EarlyFrame ==
  ASSUME Control, Early, told = 0, [Next]_vars
  PROVE  UNCHANGED <<lcp, chars, section, result, alive, told>>
<1> USE DEF Control
<1>1. ASSUME NEW j \in Job, StepOf(j) PROVE UNCHANGED <<lcp, chars, section, result, alive, told>>
  <2>1. CASE \/ Sample \/ SpawnPart(j) \/ SpawnEnds(j) \/ SpawnReadsDeleted(j)
    BY <2>1 DEF Sample, SpawnPart, SpawnEnds, SpawnReadsDeleted, data, lcps, heap, life
  <2>2. CASE \E p \in Part : Count(p) \/ CountDone(p) \/ CountFinished(p)
    BY <2>2 DEF Count, CountDone, CountFinished, data, lcps, heap, life
  <2>3. CASE \E p \in Part : \/ Distribute(p) \/ MoveString(p) \/ FreePart(p)
                             \/ DistributeDone(p) \/ DistributeFinished(p)
    BY <2>3 DEF Distribute, MoveString, FreePart, DistributeDone, DistributeFinished, data, lcps,
                heap, life
  <2>4. CASE \/ SkipBucket(j) \/ CopyBackBucket(j) \/ AddSubstep(j) \/ EnqueueSubstep(j)
             \/ EndBuckets(j) \/ Notify(j) \/ AllDone(j) \/ FreeBkt(j)
    BY <2>4, EarlyPlaces DEF SkipBucket, CopyBackBucket, AddSubstep, EnqueueSubstep, EndBuckets,
                             Notify, AllDone, FreeBkt, AtBucket, At
  <2>5. ASSUME NEW b \in Bkt, SubstepSorts(b) PROVE FALSE
    BY <2>5 DEF SubstepSorts, At, EarlyQuiet
  <2> QED BY <1>1, <2>1, <2>2, <2>3, <2>4, <2>5 DEF StepOf
<1>2. ~Return
  BY Sizes DEF Return
<1>3. UNCHANGED vars => UNCHANGED <<lcp, chars, section, result, alive, told>>
  BY DEF vars, data, lcps, heap, life
<1> QED BY <1>1, <1>2, <1>3 DEF Next

(* The substeps come with distribute_finished(). *)
LEMMA Finishing ==
  ASSUME Control, Early, told = 0, ~Early', [Next]_vars
  PROVE  \E p \in Part : DistributeFinished(p)
<1> USE DEF Control
<1>0. Part' = Part
  BY Constant
<1>1. ASSUME \/ Sampled \/ Spawns(SampleJob) \/ SpawnOver(SampleJob)
             \/ \E q \in Part : CountStep(q)
             \/ \E q \in Part : DistributeStep(q) /\ Distributing(q)
      PROVE  FALSE
  <2>1. /\ Moving' = Moving
        /\ \A p \in Part : \/ pc'[DistributeJob(p)] = pc[DistributeJob(p)]
                           \/ pc[DistributeJob(p)] \in {"none", "queued", "move", "ddec"}
    BY <1>1, EarlySteps
  <2> QED BY <1>0, <2>1 DEF Early
<1>2. ASSUME NEW q \in Part, DistributeDone(q) PROVE FALSE
  <2>1. SignsOff(DistributeJob(q), "ddec", "recurse") /\ DistributeStep(q)
    BY <1>2, ActionControl DEF DistributeStep
  <2>2. Moving' = Moving \ {q} /\ q \in Moving /\ Summed
    BY <2>1, DistributeSets
  <2>3. pwork = Cardinality(Moving) /\ IsFiniteSet(Moving)
    BY <2>2, FiniteParts DEF PworkCounts, Phases
  <2>4. Cardinality(Moving \ {q}) = Cardinality(Moving) - 1 /\ IsFiniteSet(Moving \ {q})
    BY <2>2, <2>3, OneMore, FS_RemoveElement
  <2>5. pwork # 1
    BY <1>0, <2>1, DistributeLeads DEF Early
  <2>6. Cardinality(Moving \ {q}) # 0
    BY <2>3, <2>4, <2>5, FS_CardinalityType
  <2>7. Moving' # {}
    BY <2>2, <2>4, <2>6, FS_EmptySet
  <2> QED BY <2>7 DEF Early
<1>3. ASSUME NEW j \in Job, StepOf(j) PROVE \E p \in Part : DistributeFinished(p)
  <2>1. CASE \/ Sample \/ SpawnPart(j) \/ SpawnEnds(j) \/ SpawnReadsDeleted(j)
    <3>1. Sample => Sampled
      BY ActionControl
    <3>2. ~Sample => pc[j] = "spawn" /\ (Spawns(j) \/ SpawnOver(j))
      BY <2>1, ActionControl DEF SpawnPart, SpawnEnds, SpawnReadsDeleted, At
    <3> QED BY <1>1, <2>1, <3>1, <3>2, PlacesOf DEF CountStep
  <2>2. CASE \E p \in Part : Count(p) \/ CountDone(p) \/ CountFinished(p)
    BY <1>1, <2>2, ActionControl DEF CountStep
  <2>3. CASE \E p \in Part : Distribute(p) \/ MoveString(p) \/ FreePart(p)
    BY <1>1, <2>3, MovesAreDistributing DEF DistributeStep
  <2>4. CASE \/ SkipBucket(j) \/ CopyBackBucket(j) \/ AddSubstep(j) \/ EnqueueSubstep(j)
             \/ EndBuckets(j) \/ Notify(j) \/ AllDone(j) \/ FreeBkt(j)
    BY <2>4, EarlyPlaces DEF SkipBucket, CopyBackBucket, AddSubstep, EnqueueSubstep, EndBuckets,
                             Notify, AllDone, FreeBkt, AtBucket, At
  <2>5. ASSUME NEW b \in Bkt, SubstepSorts(b) PROVE FALSE
    BY <2>5 DEF SubstepSorts, At, EarlyQuiet
  <2> QED BY <1>2, <1>3, <2>1, <2>2, <2>3, <2>4, <2>5 DEF StepOf
<1>4. ~Return
  BY DEF Return
<1>5. ~UNCHANGED vars
  BY <1>0 DEF vars, Early, Moving
<1> QED BY <1>3, <1>4, <1>5 DEF Next

(* The steps after distribute_finished() that deal with no bucket. *)
LateQuiet ==
  /\ UNCHANGED <<arr, lcp, chars, splitter, section, told, result, alive>>
  /\ bkt'[0] # Null => bkt'[0] = bkt[0]
  /\ \A b \in Bkt : /\ Waiting(b)' <=> Waiting(b)
                    /\ pc'[Substep(b)] = "queued" => pc[Substep(b)] = "queued"
  /\ \A p \in Part : pc'[DistributeJob(p)] = "enqueue" =>
       pc[DistributeJob(p)] = "enqueue" /\ cur'[DistributeJob(p)] = cur[DistributeJob(p)]

(* What follows from the places of the jobs. *)
LEMMA WaitingKept ==
  ASSUME Control, [Next]_vars,
         \A p \in Part : \/ /\ pc'[DistributeJob(p)] = pc[DistributeJob(p)]
                            /\ cur'[DistributeJob(p)] = cur[DistributeJob(p)]
                         \/ /\ \/ pc[DistributeJob(p)] \notin {"bucket", "enqueue"}
                               \/ cur[DistributeJob(p)] = BktNum
                            /\ pc'[DistributeJob(p)] \notin {"bucket", "enqueue"},
         \A b \in Bkt : pc'[Substep(b)] = "queued" <=> pc[Substep(b)] = "queued"
  PROVE  /\ \A b \in Bkt : /\ Waiting(b)' <=> Waiting(b)
                           /\ pc'[Substep(b)] = "queued" => pc[Substep(b)] = "queued"
         /\ \A p \in Part : pc'[DistributeJob(p)] = "enqueue" =>
              pc[DistributeJob(p)] = "enqueue" /\ cur'[DistributeJob(p)] = cur[DistributeJob(p)]
<1>0. Part' = Part /\ \A b \in Bkt : ~(BktNum <= b)
  BY Constant, Sizes DEF Control, Places, Bkt
<1>1. \A b \in Bkt : Waiting(b)' <=> Waiting(b)
  <2> SUFFICES ASSUME NEW b \in Bkt PROVE Waiting(b)' <=> Waiting(b)
    OBVIOUS
  <2>1. \A p \in Part :
          (pc'[DistributeJob(p)] \in {"bucket", "enqueue"} /\ cur'[DistributeJob(p)] <= b) <=>
          (pc[DistributeJob(p)] \in {"bucket", "enqueue"} /\ cur[DistributeJob(p)] <= b)
    BY <1>0
  <2>2. Waiting(b)' <=> \/ \E p \in Part : /\ pc'[DistributeJob(p)] \in {"bucket", "enqueue"}
                                           /\ cur'[DistributeJob(p)] <= b
                        \/ pc'[Substep(b)] = "queued"
    BY <1>0 DEF Waiting, DistributeJob, Substep
  <2> QED BY <2>1, <2>2 DEF Waiting
<1> QED BY <1>1

LEMMA LateQuietSteps ==
  ASSUME Control, Arrays, ArrayTypes, ~Early, [Next]_vars, NEW j \in Job,
         \/ SpawnPart(j) \/ SpawnEnds(j) \/ SpawnReadsDeleted(j)
         \/ EndBuckets(j) \/ Notify(j) \/ FreeBkt(j)
  PROVE  LateQuiet
<1> USE DEF Control
<1>0. Moving = {} /\ Moving' = {} /\ Part' = Part /\ input \in Inputs
  BY EarlyNext, Constant DEF Early, Places
<1>1. CASE SpawnPart(j) \/ SpawnEnds(j) \/ SpawnReadsDeleted(j)
  <2>1. /\ pc[j] = "spawn" /\ (Spawns(j) \/ SpawnOver(j))
        /\ UNCHANGED <<arr, lcp, chars, splitter, section, told, result, alive, bkt>>
    BY <1>1, ActionControl DEF SpawnPart, SpawnEnds, SpawnReadsDeleted, At, data, lcps, heap, life
  <2>2. /\ \A p \in Part : /\ pc'[DistributeJob(p)] = pc[DistributeJob(p)]
                           /\ cur'[DistributeJob(p)] = cur[DistributeJob(p)]
        /\ \A b \in Bkt : pc'[Substep(b)] = pc[Substep(b)]
    <3>1. CASE j = SampleJob
      BY <2>1, <3>1, SampleFrame
    <3>2. ASSUME NEW q \in Part, j = CountJob(q)
          PROVE  /\ \A p \in Part : /\ pc'[DistributeJob(p)] = pc[DistributeJob(p)]
                                    /\ cur'[DistributeJob(p)] = cur[DistributeJob(p)]
                 /\ \A b \in Bkt : pc'[Substep(b)] = pc[Substep(b)]
      <4>1. CountStep(q)
        BY <2>1, <3>2 DEF CountStep
      <4>2. ~Spawns(CountJob(q))
        <5> SUFFICES ASSUME Spawns(CountJob(q)) PROVE FALSE
          OBVIOUS
        <5>1. cur[CountJob(q)] \in Part
          BY Jobs, SpawnsNext
        <5>2. pc'[DistributeJob(cur[CountJob(q)])] = "queued"
          BY <5>1, Jobs, SpawnedJobs DEF Spawns, Places
        <5> QED BY <1>0, <5>1, <5>2 DEF Moving
      <4> QED BY <4>1, <4>2, CountFrame
    <3> QED BY <2>1, <3>1, <3>2, PlacesOf
  <2>3. \A p \in Part : /\ pc'[DistributeJob(p)] = pc[DistributeJob(p)]
                        /\ cur'[DistributeJob(p)] = cur[DistributeJob(p)]
    BY <2>2
  <2> QED BY <2>1, <2>2, <2>3, WaitingKept DEF LateQuiet
<1>2. ASSUME NEW p \in Part, j = DistributeJob(p), EndBuckets(j) \/ Notify(j) \/ FreeBkt(j)
      PROVE  LateQuiet
  <2>1. /\ UNCHANGED <<arr, lcp, chars, splitter, section, told, result, alive>>
        /\ ~FreeBkt(j) => bkt' = bkt
        /\ FreeBkt(j) => bkt' = [bkt EXCEPT ![0] = Null]
    BY <1>2 DEF EndBuckets, Notify, FreeBkt, data, lcps, heap, life
  <2>2. /\ pc[j] \in {"bucket", "notify", "freebkt"} /\ (pc[j] = "bucket" => cur[j] = BktNum)
        /\ pc'[j] \notin {"bucket", "enqueue"}
        /\ \A i \in Job : i # j => pc'[i] = pc[i]
        /\ cur' = cur
    BY <1>2, AfterNotifyPlaces DEF EndBuckets, Notify, FreeBkt, At, Set, Places
  <2>3. \A q \in Part : \/ /\ pc'[DistributeJob(q)] = pc[DistributeJob(q)]
                           /\ cur'[DistributeJob(q)] = cur[DistributeJob(q)]
                        \/ /\ \/ pc[DistributeJob(q)] \notin {"bucket", "enqueue"}
                              \/ cur[DistributeJob(q)] = BktNum
                           /\ pc'[DistributeJob(q)] \notin {"bucket", "enqueue"}
    BY <1>2, <2>2, Jobs
  <2>4. \A b \in Bkt : pc'[Substep(b)] = pc[Substep(b)]
    BY <1>2, <2>2, Jobs, JobsDiffer
  <2>5. bkt'[0] # Null => bkt'[0] = bkt[0]
    BY <1>0, <2>1, Ranges DEF ArrayTypes
  <2> QED BY <2>1, <2>3, <2>4, <2>5, WaitingKept DEF LateQuiet
<1>3. ASSUME NEW b \in Bkt, j = Substep(b), Notify(j) PROVE LateQuiet
  <2>1. /\ UNCHANGED <<arr, lcp, chars, splitter, section, told, result, alive, bkt, cur>>
        /\ pc[j] = "notify" /\ pc'[j] \in {"alldone", "done"}
        /\ \A i \in Job : i # j => pc'[i] = pc[i]
    BY <1>3, AfterNotifyPlaces DEF Notify, data, lcps, heap, life, At, Set, Places
  <2>2. \A p \in Part : /\ pc'[DistributeJob(p)] = pc[DistributeJob(p)]
                        /\ cur'[DistributeJob(p)] = cur[DistributeJob(p)]
    BY <1>3, <2>1, Jobs, JobsDiffer
  <2>3. \A c \in Bkt : pc'[Substep(c)] = "queued" <=> pc[Substep(c)] = "queued"
    BY <1>3, <2>1, Jobs
  <2> QED BY <2>1, <2>2, <2>3, WaitingKept DEF LateQuiet
<1>4. EndBuckets(j) \/ Notify(j) \/ FreeBkt(j) => pc[j] \in {"bucket", "notify", "freebkt"}
  BY DEF EndBuckets, Notify, FreeBkt, At
<1>5. pc[j] = "notify" => ~EndBuckets(j) /\ ~FreeBkt(j)
  BY DEF EndBuckets, FreeBkt, At
<1>6. (EndBuckets(j) => pc[j] = "bucket") /\ (FreeBkt(j) => pc[j] = "freebkt")
  BY DEF EndBuckets, FreeBkt, At
<1> QED BY <1>1, <1>2, <1>3, <1>4, <1>5, <1>6, PlacesOf

(* The steps after distribute_finished(). *)
LEMMA LateNext ==
  ASSUME Control, Arrays, ArrayTypes, ~Early, [Next]_vars
  PROVE  /\ ~Early' /\ Moving = {} /\ splitter' = splitter
         /\ \/ LateQuiet
            \/ \E p \in Part : LET j == DistributeJob(p)
                               IN  \/ SkipBucket(j) \/ CopyBackBucket(j)
                                   \/ AddSubstep(j) \/ EnqueueSubstep(j)
            \/ \E b \in Bkt : SubstepSorts(b)
            \/ \E j \in Job : AllDone(j)
            \/ Return
<1> USE DEF Control
<1>0. ~Early' /\ Moving = {} /\ 0 \in Part
  BY EarlyNext, Ranges DEF Early, Places
<1>1. Summed /\ Counting = {} /\ pc[SampleJob] # "queued"
  BY <1>0 DEF Summed, Moving, Phases
<1>2. ASSUME NEW j \in Job, StepOf(j)
      PROVE  \/ LateQuiet
             \/ \E p \in Part : LET i == DistributeJob(p)
                                IN  \/ SkipBucket(i) \/ CopyBackBucket(i)
                                    \/ AddSubstep(i) \/ EnqueueSubstep(i)
             \/ \E b \in Bkt : SubstepSorts(b)
             \/ \E i \in Job : AllDone(i)
  <2>1. ~Sample
    BY <1>1 DEF Sample, At
  <2>2. \A p \in Part : ~Count(p) /\ ~CountDone(p) /\ ~CountFinished(p)
    BY <1>1 DEF Count, CountDone, CountFinished, At, Counting, Phases
  <2>3. \A p \in Part : /\ ~Distribute(p) /\ ~MoveString(p) /\ ~FreePart(p)
                        /\ ~DistributeDone(p) /\ ~DistributeFinished(p)
    BY <1>0 DEF Distribute, MoveString, FreePart, DistributeDone, DistributeFinished, At,
                Moving, Early
  <2>4. CASE SkipBucket(j) \/ CopyBackBucket(j) \/ AddSubstep(j) \/ EnqueueSubstep(j)
    <3>1. pc[j] \in {"bucket", "enqueue"}
      BY <2>4 DEF SkipBucket, CopyBackBucket, AddSubstep, EnqueueSubstep, AtBucket, At
    <3> QED BY <2>4, <3>1, PlacesOf
  <2> QED BY <1>2, <2>1, <2>2, <2>3, <2>4, LateQuietSteps DEF StepOf
<1>3. UNCHANGED vars => LateQuiet
  <2> SUFFICES ASSUME UNCHANGED vars PROVE LateQuiet
    OBVIOUS
  <2>1. UNCHANGED <<arr, lcp, chars, splitter, section, told, result, alive, bkt, pc, cur>>
    BY DEF vars, data, lcps, heap, life
  <2> QED BY <2>1, WaitingKept DEF LateQuiet
<1>4. \/ LateQuiet
      \/ \E p \in Part : LET j == DistributeJob(p)
                         IN  \/ SkipBucket(j) \/ CopyBackBucket(j)
                             \/ AddSubstep(j) \/ EnqueueSubstep(j)
      \/ \E b \in Bkt : SubstepSorts(b)
      \/ \E j \in Job : AllDone(j)
      \/ Return
  BY <1>2, <1>3 DEF Next
<1>5. splitter' = splitter
  BY <1>4 DEF LateQuiet, SkipBucket, CopyBackBucket, AddSubstep, EnqueueSubstep, SubstepSorts,
              AllDone, Return
<1> QED BY <1>0, <1>4, <1>5

-----------------------------------------------------------------------------
(* A bucket whose places a step leaves alone. *)
LEMMA SettledElsewhere ==
  ASSUME Drawn, [Next]_vars, splitter' = splitter, NEW c \in Bkt,
         \A side \in BOOLEAN : \A x \in Span(c) : arr'[side][x] = arr[side][x],
         \A x \in Span(c) : lcp'[x] = lcp[x] /\ chars'[x] = chars[x],
         Waiting(c)' <=> Waiting(c), Settled(c)
  PROVE  Settled(c)'
<1>1. /\ shadow' = shadow /\ output' = output /\ class' = class
      /\ Span(c)' = Span(c) /\ Start(c)' = Start(c) /\ Strs(c)' = Strs(c)
      /\ \A s : KeyOf(s)' = KeyOf(s)
      /\ \A s, t : TrueLcp(s, t)' = TrueLcp(s, t) /\ Distinguishing(s, t)' = Distinguishing(s, t)
  BY Constant, SpansSettled
<1>2. shadow \in BOOLEAN /\ output \in BOOLEAN
  BY Sides, Outputs DEF Drawn
<1>3. Waiting(c) => {arr'[shadow][x] : x \in Span(c)} = Strs(c)
  BY <1>2 DEF Settled
<1>4. ASSUME ~Waiting(c)
      PROVE  /\ {arr'[output][x] : x \in Span(c)} = Strs(c)
             /\ \A x \in Span(c) : x # Start(c) => Ordered(x)'
  <2>1. {arr'[output][x] : x \in Span(c)} = Strs(c)
    BY <1>2, <1>4 DEF Settled
  <2>2. ASSUME NEW x \in Span(c), x # Start(c) PROVE Ordered(x)'
    <3>1. x - 1 \in Span(c)
      BY <2>2, Spans DEF Span
    <3>2. Ordered(x)
      BY <1>4, <2>2 DEF Settled
    <3>3. arr'[output][x - 1] = arr[output][x - 1] /\ arr'[output][x] = arr[output][x]
      BY <1>2, <3>1
    <3>4. lcp'[x] = lcp[x] /\ chars'[x] = chars[x]
      OBVIOUS
    <3> QED BY <1>1, <3>2, <3>3, <3>4 DEF Ordered
  <2> QED BY <2>1, <2>2
<1>5. Waiting(c)' => {arr'[shadow'][x] : x \in Span(c)'} = Strs(c)'
  BY <1>1, <1>3
<1>6. ~Waiting(c)' => /\ {arr'[output'][x] : x \in Span(c)'} = Strs(c)'
                      /\ \A x \in Span(c)' : x # Start(c)' => Ordered(x)'
  BY <1>1, <1>4
<1> QED BY <1>5, <1>6 DEF Settled

(* A bucket that a step brings home. *)
LEMMA SettledNow ==
  ASSUME Drawn, [Next]_vars, splitter' = splitter, NEW b \in Bkt, ~Waiting(b)',
         {arr'[output][x] : x \in Span(b)} = Strs(b),
         \A x \in Span(b) : x # Start(b) =>
           LET s == arr'[output][x - 1]
               t == arr'[output][x]
           IN  /\ KeyOf(s) < KeyOf(t) \/
                    (KeyOf(s) = KeyOf(t) /\ (s < t \/ Terminated(KeyOf(s))))
               /\ class.lcp => lcp'[x] = TrueLcp(s, t)
               /\ class.cache => chars'[x] = Distinguishing(s, t)
  PROVE  Settled(b)'
<1>1. /\ output' = output /\ class' = class
      /\ Span(b)' = Span(b) /\ Start(b)' = Start(b) /\ Strs(b)' = Strs(b)
      /\ \A s : KeyOf(s)' = KeyOf(s)
      /\ \A s, t : TrueLcp(s, t)' = TrueLcp(s, t) /\ Distinguishing(s, t)' = Distinguishing(s, t)
  BY Constant, SpansSettled
<1>2. \A x \in Span(b) : x # Start(b) => Ordered(x)'
  BY <1>1 DEF Ordered
<1> QED BY <1>1, <1>2 DEF Settled

(* What bkt[0] says of the bucket that the distributor is at. *)
LEMMA AtBuckets ==
  ASSUME Control, Arrays, ArrayTypes, Shapes, Starts, Buckets, NEW p \in Part,
         pc[DistributeJob(p)] \in {"bucket", "enqueue"}, cur[DistributeJob(p)] \in Bkt
  PROVE  LET b == cur[DistributeJob(p)]
         IN  /\ bkt[0][b] = Start(b) /\ bkt[0][b + 1] = Start(b + 1)
             /\ BktSize(b) = Start(b + 1) - Start(b) /\ BktRange(b) = Span(b)
             /\ Waiting(b) /\ {arr[shadow][x] : x \in Span(b)} = Strs(b)
             /\ pc[Substep(b)] = "none" /\ b \in Nat
             /\ Drawn /\ alive /\ ~Early /\ p \in Recursing
<1> USE DEF Control
<1> DEFINE b == cur[DistributeJob(p)]
<1>1. bkt[0] # Null /\ alive /\ p \in Recursing
  BY RecursingArrays
<1>2. Moving = {} /\ \A q \in Part : q # p => pc[DistributeJob(q)] = "done"
  BY <1>1 DEF LastAlone
<1>3. ~Early
  BY <1>2 DEF Early
<1>4. input \in Inputs /\ 0 \in Part /\ BktNum \in Nat
  BY Ranges, Sizes DEF Places
<1>5. pc[SampleJob] # "queued" /\ Summed
  BY DEF Summed, Phases
<1>6. Drawn
  BY <1>5 DEF Shapes
<1>7. pc[DistributeJob(0)] \notin {"none", "queued", "move"}
  BY <1>2, <1>4 DEF Moving
<1>8. b \in Nat /\ b \in 0 .. BktNum /\ b + 1 \in 0 .. BktNum /\ b <= b
  BY <1>4, Ranges DEF Bkt
<1>9. bkt[0][b] = Start(b) /\ bkt[0][b + 1] = Start(b + 1)
  BY <1>1, <1>3, <1>7, <1>8 DEF Starts
<1>10. Waiting(b)
  BY <1>8 DEF Waiting
<1>11. pc[Substep(b)] = "none"
  BY <1>8 DEF BucketsAhead
<1>12. {arr[shadow][x] : x \in Span(b)} = Strs(b)
  BY <1>1, <1>3, <1>10 DEF Buckets, Settled
<1> QED BY <1>1, <1>3, <1>6, <1>8, <1>9, <1>10, <1>11, <1>12 DEF BktSize, BktRange, Span

(* copy_back() of the strings at some places. *)
LEMMA CopiedBack ==
  ASSUME input \in Inputs, ArrType, NEW sec, sec.flip = shadow
  PROVE  LET new == CopyBack(class, arr, sec)
         IN  /\ new \in [BOOLEAN -> [Index -> Str \union {Moved}]]
             /\ \A x \in Index : x \in Positions(sec) => new[output][x] = arr[shadow][x]
             /\ \A x \in Index : x \notin Positions(sec) =>
                  \A side \in BOOLEAN : new[side][x] = arr[side][x]
<1> DEFINE new == CopyBack(class, arr, sec)
<1>1. shadow \in BOOLEAN /\ output \in BOOLEAN /\ class.out = output
  BY Sides, Outputs DEF output
<1>2. \A side \in BOOLEAN : DOMAIN arr[side] = Index
  BY DEF ArrType
<1>3. CASE shadow = output
  <2>1. new = arr
    BY <1>1, <1>3 DEF CopyBack
  <2> QED BY <1>3, <2>1 DEF ArrType
<1>4. CASE shadow # output
  <2> DEFINE P == Positions(sec)
  <2>1. new = [side \in BOOLEAN |-> [i \in DOMAIN arr[side] |->
                 IF i \notin P THEN arr[side][i]
                 ELSE IF side = class.out THEN arr[~side][i] ELSE Moved]]
    BY <1>1, <1>4 DEF CopyBack
  <2> HIDE DEF P, new
  <2>2. DOMAIN arr[TRUE] = Index /\ DOMAIN arr[FALSE] = Index
    BY <1>2
  <2>3. CASE output = TRUE
    <3>1. shadow = FALSE /\ class.out = TRUE
      BY <1>1, <1>4, <2>3
    <3>2. new[TRUE] = [i \in Index |-> IF i \notin P THEN arr[TRUE][i] ELSE arr[FALSE][i]]
      BY <2>1, <2>2, <3>1
    <3>3. new[FALSE] = [i \in Index |-> IF i \notin P THEN arr[FALSE][i] ELSE Moved]
      BY <2>1, <2>2, <3>1
    <3>4. new = [side \in BOOLEAN |-> new[side]]
      BY <2>1
    <3>5. arr[TRUE] \in [Index -> Str \union {Moved}] /\ arr[FALSE] \in [Index -> Str \union {Moved}]
      BY DEF ArrType
    <3>6. new \in [BOOLEAN -> [Index -> Str \union {Moved}]]
      <4>1. new[TRUE] \in [Index -> Str \union {Moved}]
        BY ONLY <3>2, <3>3, <3>5
      <4>2. new[FALSE] \in [Index -> Str \union {Moved}]
        BY ONLY <3>2, <3>3, <3>5
      <4>3. \A side \in BOOLEAN : new[side] \in [Index -> Str \union {Moved}]
        BY ONLY <4>1, <4>2
      <4> QED BY ONLY <3>4, <4>3
    <3>7. \A x \in Index : x \in P => new[output][x] = arr[shadow][x]
      <4>1. \A x \in Index : x \in P => new[TRUE][x] = arr[FALSE][x]
        BY <3>2
      <4> QED BY <2>3, <3>1, <4>1, Zenon
    <3>8. \A x \in Index : x \notin P => \A side \in BOOLEAN : new[side][x] = arr[side][x]
      BY <3>2, <3>3
    <3> QED BY <3>6, <3>7, <3>8 DEF P, new
  <2>4. CASE output = FALSE
    <3>1. shadow = TRUE /\ class.out = FALSE
      BY <1>1, <1>4, <2>4
    <3>2. new[FALSE] = [i \in Index |-> IF i \notin P THEN arr[FALSE][i] ELSE arr[TRUE][i]]
      BY <2>1, <2>2, <3>1
    <3>3. new[TRUE] = [i \in Index |-> IF i \notin P THEN arr[TRUE][i] ELSE Moved]
      BY <2>1, <2>2, <3>1
    <3>4. new = [side \in BOOLEAN |-> new[side]]
      BY <2>1
    <3>5. arr[TRUE] \in [Index -> Str \union {Moved}] /\ arr[FALSE] \in [Index -> Str \union {Moved}]
      BY DEF ArrType
    <3>6. new \in [BOOLEAN -> [Index -> Str \union {Moved}]]
      <4>1. new[TRUE] \in [Index -> Str \union {Moved}]
        BY ONLY <3>2, <3>3, <3>5
      <4>2. new[FALSE] \in [Index -> Str \union {Moved}]
        BY ONLY <3>2, <3>3, <3>5
      <4>3. \A side \in BOOLEAN : new[side] \in [Index -> Str \union {Moved}]
        BY ONLY <4>1, <4>2
      <4> QED BY ONLY <3>4, <4>3
    <3>7. \A x \in Index : x \in P => new[output][x] = arr[shadow][x]
      <4>1. \A x \in Index : x \in P => new[FALSE][x] = arr[TRUE][x]
        BY <3>2
      <4> QED BY <2>4, <3>1, <4>1, Zenon
    <3>8. \A x \in Index : x \notin P => \A side \in BOOLEAN : new[side][x] = arr[side][x]
      BY <3>2, <3>3
    <3> QED BY <3>6, <3>7, <3>8 DEF P, new
  <2> QED BY <1>1, <2>3, <2>4
<1> QED BY <1>3, <1>4

(* bkt[0] stays as it is, or is freed. *)
LEMMA StartsKept ==
  ASSUME Control, ~Early, ~Early', Starts, [Next]_vars, splitter' = splitter,
         bkt'[0] # Null => bkt'[0] = bkt[0]
  PROVE  Starts'
<1>1. Moving = {} /\ 0 \in Part
  BY Ranges DEF Early, Control, Places
<1>2. pc[DistributeJob(0)] \notin {"none", "queued", "move"}
  BY <1>1 DEF Moving
<1>3. \A b : Start(b)' = Start(b)
  BY SpansSettled
<1> QED BY <1>2, <1>3 DEF Starts, Bkt

(* Until the parent is told, there is no more to it than these. *)
LEMMA EndingKept ==
  ASSUME Ending, told = 0, UNCHANGED <<told, alive, result>>,
         lcp'[0] = lcp[0], chars'[0] = chars[0]
  PROVE  Ending' /\ SortedWhenTold'
<1>1. result = Null
  BY DEF Ending
<1> QED BY <1>1 DEF Ending, SortedWhenTold

(* The distributor goes on to the next bucket. *)
LEMMA BucketPassed ==
  ASSUME Control, [Next]_vars, NEW p \in Part, PassesBucket(p)
  PROVE  LET b == cur[DistributeJob(p)]
         IN  /\ b \in Bkt /\ pc[DistributeJob(p)] = "bucket"
             /\ \A c \in Bkt : Waiting(c)' <=> Waiting(c) /\ c # b
             /\ pc' = pc /\ \A q \in Part : pc'[DistributeJob(q)] # "enqueue"
<1> USE DEF Control
<1> DEFINE b == cur[DistributeJob(p)]
<1>1. /\ b \in Bkt /\ pc[DistributeJob(p)] = "bucket" /\ pc' = pc /\ Part' = Part
      /\ cur'[DistributeJob(p)] = b + 1
  BY Constant, Jobs DEF PassesBucket, Places
<1>2. p \in Recursing
  BY <1>1 DEF Recursing, LastPlaces
<1>3. \A q \in Part : q # p => pc[DistributeJob(q)] = "done"
  BY <1>2 DEF LastAlone
<1>4. \A c \in Bkt : c \in Nat
  BY Ranges DEF Places
<1>5. pc[Substep(b)] = "none"
  <2>1. b >= b
    BY <1>1, <1>4
  <2> QED BY <1>1, <2>1 DEF BucketsAhead
<1>6. ASSUME NEW c \in Bkt PROVE Waiting(c)' <=> Waiting(c) /\ c # b
  <2>1. Waiting(c) <=> b <= c \/ pc[Substep(c)] = "queued"
    BY <1>1, <1>3 DEF Waiting
  <2>2. Waiting(c)' <=> b + 1 <= c \/ pc[Substep(c)] = "queued"
    BY <1>1, <1>3 DEF Waiting, DistributeJob, Substep
  <2>3. b + 1 <= c <=> b <= c /\ c # b
    BY <1>1, <1>4
  <2> HIDE DEF b
  <2> QED BY <1>5, <2>1, <2>2, <2>3
<1> QED BY <1>1, <1>3, <1>6

(* An empty bucket *)
LEMMA SkipKeeps ==
  ASSUME Control, Arrays, ArrayTypes, Sorting, [Next]_vars, ~Early', NEW p \in Part,
         SkipBucket(DistributeJob(p))
  PROVE  Sorting'
<1> USE DEF Control
<1>1. PICK b \in Bkt : b = cur[DistributeJob(p)] /\ PassesBucket(p)
  BY ActionControl DEF PassesBucket
<1>2. /\ b \in Bkt /\ pc[DistributeJob(p)] = "bucket" /\ pc' = pc
      /\ \A c \in Bkt : Waiting(c)' <=> Waiting(c) /\ c # b
      /\ \A q \in Part : pc'[DistributeJob(q)] # "enqueue"
  BY <1>1, BucketPassed
<1>3. /\ BktSize(b) = Start(b + 1) - Start(b) /\ {arr[shadow][x] : x \in Span(b)} = Strs(b)
      /\ Drawn /\ alive /\ ~Early /\ told = 0 /\ Waiting(b)
  BY <1>1, <1>2, AtBuckets DEF Sorting, Ending
<1>4. /\ BktSize(b) = 0 /\ UNCHANGED <<arr, lcp, chars, splitter, bkt, section, alive, told, result>>
  BY <1>1 DEF SkipBucket, data, lcps, heap, life
<1>5. /\ Bkt' = Bkt /\ Index' = Index /\ Part' = Part /\ Str' = Str /\ Drawn' = Drawn
      /\ \A c : /\ Span(c)' = Span(c) /\ (Unsettled(c)' <=> Unsettled(c))
  BY <1>4, Constant, SpansSettled
<1>6. Span(b) = {} /\ Strs(b) = {}
  <2>1. Start(b + 1) = Start(b) /\ Start(b) \in Nat
    BY <1>2, <1>3, <1>4, Spans
  <2>2. Span(b) = {}
    BY <2>1 DEF Span
  <2> QED BY <1>3, <2>2
<1>7. Settled(b)'
  BY <1>2, <1>3, <1>4, <1>6, SettledNow
<1>8. ASSUME NEW c \in Bkt, c # b PROVE Settled(c)'
  <2>1. Settled(c)
    BY <1>3 DEF Sorting, Buckets
  <2> QED BY <1>2, <1>3, <1>4, <1>8, <2>1, SettledElsewhere
<1>9. Buckets'
  BY <1>5, <1>7, <1>8 DEF Buckets
<1>10. Shapes'
  BY <1>2, <1>4, <1>5 DEF Sorting, Shapes, ArrType, LcpType, CharsType
<1>11. Starts'
  BY <1>3, <1>4, StartsKept DEF Sorting
<1>12. Sections'
  BY <1>2, <1>4, <1>5 DEF Sorting, Sections, Substep, DistributeJob
<1>13. Ending' /\ SortedWhenTold'
  BY <1>3, <1>4, EndingKept DEF Sorting
<1> QED BY <1>9, <1>10, <1>11, <1>12, <1>13 DEF Sorting

(* The strings of a bucket are sorted already. *)
LEMMA CopyBackKeeps ==
  ASSUME Control, Arrays, ArrayTypes, Sorting, [Next]_vars, ~Early', NEW p \in Part,
         CopyBackBucket(DistributeJob(p))
  PROVE  Sorting'
<1> USE DEF Control
<1>1. PICK b \in Bkt : b = cur[DistributeJob(p)] /\ PassesBucket(p)
  BY ActionControl DEF PassesBucket
<1> DEFINE depth == KeyDepth(splitter[b \div 2])
           rest == Span(b) \ {Start(b)}
<1>2. /\ b \in Bkt /\ pc[DistributeJob(p)] = "bucket" /\ pc' = pc
      /\ \A c \in Bkt : Waiting(c)' <=> Waiting(c) /\ c # b
      /\ \A q \in Part : pc'[DistributeJob(q)] # "enqueue"
  BY <1>1, BucketPassed
<1>3. /\ bkt[0][b] = Start(b) /\ bkt[0][b + 1] = Start(b + 1)
      /\ BktSize(b) = Start(b + 1) - Start(b) /\ {arr[shadow][x] : x \in Span(b)} = Strs(b)
      /\ Drawn /\ alive /\ ~Early /\ told = 0
  BY <1>1, <1>2, AtBuckets DEF Sorting, Ending
<1>4. /\ UNCHANGED <<splitter, bkt, section, alive, told, result>>
      /\ BktSize(b) = 1 \/ EqualAndDone(b)
      /\ arr' = CopyBack(class, arr, BktPtr(b))
      /\ lcp' = IF BktSize(b) > 1 THEN FillLcp(class, lcp, BktPtr(b), depth) ELSE lcp
      /\ chars' = IF BktSize(b) > 1 THEN FillCache(class, chars, BktPtr(b)) ELSE chars
  BY <1>1 DEF CopyBackBucket, heap, life
<1>5. /\ Bkt' = Bkt /\ Index' = Index /\ Part' = Part /\ Str' = Str /\ Drawn' = Drawn
      /\ \A c : /\ Span(c)' = Span(c) /\ (Unsettled(c)' <=> Unsettled(c))
  BY <1>4, Constant, SpansSettled
<1>6. /\ Start(b) \in Nat /\ Start(b + 1) \in Nat /\ Span(b) \subseteq Index
      /\ input \in Inputs /\ ArrType /\ LcpType /\ CharsType
  BY <1>2, <1>3, Spans DEF Drawn, Sorting, Shapes
<1>7. BktPtr(b).flip = shadow /\ BktPtr(b).lo = Start(b) /\ Positions(BktPtr(b)) = Span(b)
  <2>1. /\ active = TRUE => BktPtr(b) = [lo |-> 0 + bkt[0][b], n |-> bkt[0][b + 1] - bkt[0][b],
                                         flip |-> FALSE]
        /\ active = FALSE => BktPtr(b) = [lo |-> 0 + bkt[0][b], n |-> bkt[0][b + 1] - bkt[0][b],
                                          flip |-> TRUE]
    BY DEF BktPtr, Flip, Section
  <2>2. BktPtr(b).flip = shadow
    <3>1. (active = TRUE \/ active = FALSE) /\ shadow = ~active
      BY <1>6, Sides, Zenon DEF active, shadow
    <3>2. /\ active = TRUE => BktPtr(b).flip = FALSE
          /\ active = FALSE => BktPtr(b).flip = TRUE
      BY <2>1
    <3>3. (active = TRUE => shadow = FALSE) /\ (active = FALSE => shadow = TRUE)
      BY <3>1, Zenon
    <3> QED BY <3>1, <3>2, <3>3
  <2>3. BktPtr(b).lo = Start(b) /\ BktPtr(b).n = Start(b + 1) - Start(b)
    BY <1>3, <1>6, <2>1
  <2>4. Start(b) + (Start(b + 1) - Start(b)) - 1 = Start(b + 1) - 1
    BY <1>6
  <2> QED BY <2>2, <2>3, <2>4 DEF Positions, Span
<1>8. /\ arr' \in [BOOLEAN -> [Index -> Str \union {Moved}]]
      /\ \A x \in Span(b) : arr'[output][x] = arr[shadow][x]
      /\ \A x \in Index : x \notin Span(b) => \A side \in BOOLEAN : arr'[side][x] = arr[side][x]
  BY <1>4, <1>6, <1>7, CopiedBack
<1>9. {arr'[output][x] : x \in Span(b)} = Strs(b)
  BY <1>3, <1>8
<1>10. BktSize(b) > 1 => EqualAndDone(b) /\ depth \in 0 .. KeyWidth
  <2> SUFFICES ASSUME BktSize(b) > 1 PROVE EqualAndDone(b) /\ depth \in 0 .. KeyWidth
    OBVIOUS
  <2>1. EqualAndDone(b)
    BY <1>4
  <2>2. depth \in Place
    BY <2>1, KeyDepthTerminates DEF EqualAndDone
  <2> QED BY <2>1, <2>2, KeyAssumption DEF Place
<1> HIDE DEF depth
<1>11. /\ BktSize(b) > 1 /\ class.lcp =>
            lcp' = [x \in Index |-> IF x \in rest THEN depth ELSE lcp[x]]
       /\ ~(BktSize(b) > 1 /\ class.lcp) => lcp' = lcp
  <2>1. DOMAIN lcp = Index
    BY <1>6 DEF LcpType
  <2> QED BY <1>4, <1>7, <2>1 DEF FillLcp, SetLcp, Override
<1>12. /\ BktSize(b) > 1 /\ class.cache =>
            chars' = [x \in Index |-> IF x \in rest THEN 0 ELSE chars[x]]
       /\ ~(BktSize(b) > 1 /\ class.cache) => chars' = chars
  <2>1. DOMAIN chars = Index
    BY <1>6 DEF CharsType
  <2> QED BY <1>4, <1>7, <2>1 DEF FillCache, SetCache, Override
<1>13. lcp' \in [Index -> {Untouched} \union 0 .. KeyWidth]
  BY <1>6, <1>10, <1>11 DEF LcpType
<1>14. chars' \in [Index -> {Untouched} \union 0 .. NumChars]
  BY <1>6, <1>12, KeyAssumption DEF CharsType
<1>15. \A x \in Index : x \notin rest => lcp'[x] = lcp[x] /\ chars'[x] = chars[x]
  BY <1>11, <1>12
<1>16. 0 \notin rest /\ 0 \in Index
  BY <1>6, Sizes DEF Span, Index
<1>17. Settled(b)'
  <2> SUFFICES ASSUME NEW x \in Span(b), x # Start(b)
               PROVE  LET s == arr'[output][x - 1]
                          t == arr'[output][x]
                      IN  /\ KeyOf(s) < KeyOf(t) \/
                               (KeyOf(s) = KeyOf(t) /\ (s < t \/ Terminated(KeyOf(s))))
                          /\ class.lcp => lcp'[x] = TrueLcp(s, t)
                          /\ class.cache => chars'[x] = Distinguishing(s, t)
    BY <1>2, <1>3, <1>4, <1>9, SettledNow
  <2>1. x - 1 \in Span(b) /\ BktSize(b) > 1 /\ x \in Index /\ x \in rest
    BY <1>3, <1>6 DEF Span
  <2> DEFINE s == arr'[output][x - 1]
             t == arr'[output][x]
  <2>2. s \in Strs(b) /\ t \in Strs(b)
    BY <1>9, <2>1
  <2> HIDE DEF s, t
  <2>3. KeyOf(s) = KeyOf(t) /\ Terminated(KeyOf(s)) /\ TrueLcp(s, t) = depth
        /\ Distinguishing(s, t) = 0
    BY <1>2, <1>3, <1>10, <2>1, <2>2, EqualStrings DEF depth
  <2> QED BY <1>11, <1>12, <2>1, <2>3 DEF s, t
<1>18. ASSUME NEW c \in Bkt, c # b PROVE Settled(c)'
  <2>1. Settled(c)
    BY <1>3 DEF Sorting, Buckets
  <2>2. \A x \in Span(c) : x \in Index /\ x \notin Span(b)
    BY <1>2, <1>3, <1>18, Spans
  <2>3. \A side \in BOOLEAN : \A x \in Span(c) : arr'[side][x] = arr[side][x]
    BY <1>8, <2>2
  <2>4. \A x \in Span(c) : lcp'[x] = lcp[x] /\ chars'[x] = chars[x]
    BY <1>15, <2>2
  <2> QED BY <1>2, <1>3, <1>4, <1>18, <2>1, <2>3, <2>4, SettledElsewhere
<1>19. Buckets'
  BY <1>5, <1>17, <1>18 DEF Buckets
<1>20. Shapes'
  BY <1>2, <1>4, <1>5, <1>8, <1>13, <1>14 DEF Sorting, Shapes, ArrType, LcpType, CharsType
<1>21. Starts'
  BY <1>3, <1>4, StartsKept DEF Sorting
<1>22. Sections'
  BY <1>2, <1>4, <1>5 DEF Sorting, Sections, Substep, DistributeJob
<1>23. Ending' /\ SortedWhenTold'
  BY <1>3, <1>4, <1>15, <1>16, EndingKept DEF Sorting
<1> QED BY <1>19, <1>20, <1>21, <1>22, <1>23 DEF Sorting

(* A bucket that a substep has to sort is announced, and enqueued. *)
LEMMA AddKeeps ==
  ASSUME Control, Arrays, ArrayTypes, Sorting, [Next]_vars, ~Early', NEW p \in Part,
         AddSubstep(DistributeJob(p))
  PROVE  Sorting'
<1> USE DEF Control
<1>1. PICK b \in Bkt : b = cur[DistributeJob(p)] /\ Announces(p)
  BY ActionControl DEF Announces
<1>2. /\ BktSize(b) > 1 /\ ~EqualAndDone(b) /\ pc[DistributeJob(p)] = "bucket"
      /\ UNCHANGED <<arr, lcp, chars, splitter, bkt, section, alive, told, result, cur>>
      /\ pc' = [pc EXCEPT ![DistributeJob(p)] = "enqueue"]
  BY <1>1 DEF AddSubstep, AtBucket, At, Set, data, lcps, heap, life
<1>3. /\ BktSize(b) = Start(b + 1) - Start(b) /\ Drawn /\ alive /\ ~Early /\ told = 0
  BY <1>1, <1>2, AtBuckets DEF Sorting, Ending
<1>4. Unsettled(b)
  <2>1. Start(b) \in Nat /\ Start(b + 1) \in Nat
    BY <1>3, Spans
  <2> QED BY <1>2, <1>3, <2>1 DEF Unsettled
<1>5. /\ Bkt' = Bkt /\ Index' = Index /\ Part' = Part /\ Str' = Str /\ Drawn' = Drawn
      /\ \A c : /\ Span(c)' = Span(c) /\ (Unsettled(c)' <=> Unsettled(c))
  BY <1>2, Constant, SpansSettled
<1>6. /\ pc'[DistributeJob(p)] = "enqueue"
      /\ \A q \in Part : q # p => pc'[DistributeJob(q)] = pc[DistributeJob(q)]
      /\ \A c \in Bkt : pc'[Substep(c)] = pc[Substep(c)]
      /\ pc'[SampleJob] = pc[SampleJob]
  BY <1>2, Jobs, JobsDiffer DEF Places
<1>7. ASSUME NEW c \in Bkt PROVE Waiting(c)' <=> Waiting(c)
  BY <1>2, <1>5, <1>6 DEF Waiting, DistributeJob, Substep
<1>8. ASSUME NEW c \in Bkt PROVE Settled(c)'
  <2>1. Settled(c)
    BY <1>3 DEF Sorting, Buckets
  <2> QED BY <1>2, <1>3, <1>7, <2>1, SettledElsewhere
<1>9. Buckets'
  BY <1>5, <1>8 DEF Buckets
<1>10. Shapes'
  BY <1>2, <1>5, <1>6 DEF Sorting, Shapes, ArrType, LcpType, CharsType, SampleJob
<1>11. Starts'
  BY <1>2, <1>3, StartsKept DEF Sorting
<1>12. Sections'
  <2>1. \A q \in Part : pc'[DistributeJob(q)] = "enqueue" => Unsettled(cur[DistributeJob(q)])
    BY <1>1, <1>4, <1>6 DEF Sorting, Sections
  <2>2. \A q \in Part : pc'[DistributeJob(q)] = "enqueue" => Unsettled(cur[DistributeJob(q)])'
    <3> SUFFICES ASSUME NEW q \in Part, pc'[DistributeJob(q)] = "enqueue"
                 PROVE  Unsettled(cur[DistributeJob(q)])'
      OBVIOUS
    <3>1. PICK n : n = cur[DistributeJob(q)]
      OBVIOUS
    <3>2. Unsettled(n)'
      BY <1>5, <2>1, <3>1
    <3> QED BY <1>2, <3>1, <3>2 DEF DistributeJob
  <2> QED BY <1>2, <1>5, <1>6, <2>2 DEF Sorting, Sections, Substep, DistributeJob
<1>13. Ending' /\ SortedWhenTold'
  BY <1>2, <1>3, EndingKept DEF Sorting
<1> QED BY <1>9, <1>10, <1>11, <1>12, <1>13 DEF Sorting

LEMMA EnqueueKeeps ==
  ASSUME Control, Arrays, ArrayTypes, Sorting, [Next]_vars, ~Early', NEW p \in Part,
         EnqueueSubstep(DistributeJob(p))
  PROVE  Sorting'
<1> USE DEF Control
<1>0. pc[DistributeJob(p)] = "enqueue" /\ cur[DistributeJob(p)] \in Bkt
  BY DEF EnqueueSubstep, At, BucketsAhead
<1>1. PICK b \in Bkt : b = cur[DistributeJob(p)]
  BY <1>0
<1>2. /\ UNCHANGED <<arr, lcp, chars, splitter, bkt, alive, told, result>>
      /\ pc' = [pc EXCEPT ![DistributeJob(p)] = "bucket", ![Substep(b)] = "queued"]
      /\ cur' = [cur EXCEPT ![DistributeJob(p)] = b + 1]
      /\ section' = [section EXCEPT ![b] = BktRange(b)]
  BY <1>1 DEF EnqueueSubstep, NextBucket, data, lcps, life
<1>3. /\ BktRange(b) = Span(b) /\ Drawn /\ alive /\ ~Early /\ told = 0 /\ Waiting(b)
      /\ p \in Recursing
  BY <1>0, <1>1, AtBuckets DEF Sorting, Ending
<1>4. Unsettled(b) /\ section \in [Bkt -> SUBSET Index] /\ Span(b) \subseteq Index
  BY <1>0, <1>1, <1>3, Spans DEF Sorting, Sections, Shapes
<1>5. /\ Bkt' = Bkt /\ Index' = Index /\ Part' = Part /\ Str' = Str /\ Drawn' = Drawn
      /\ \A c : /\ Span(c)' = Span(c) /\ (Unsettled(c)' <=> Unsettled(c))
  BY <1>2, Constant, SpansSettled
<1>6. /\ pc'[DistributeJob(p)] = "bucket" /\ cur'[DistributeJob(p)] = b + 1
      /\ \A q \in Part : q # p => pc'[DistributeJob(q)] = "done" /\ pc[DistributeJob(q)] = "done"
      /\ pc'[Substep(b)] = "queued"
      /\ \A c \in Bkt : c # b => pc'[Substep(c)] = pc[Substep(c)]
      /\ pc'[SampleJob] = pc[SampleJob]
  BY <1>2, <1>3, Jobs, JobsDiffer DEF Places, LastAlone
<1>7. ASSUME NEW c \in Bkt PROVE Waiting(c)' <=> Waiting(c)
  <2>1. Waiting(c) <=> b <= c \/ pc[Substep(c)] = "queued"
    BY <1>0, <1>1, <1>6 DEF Waiting
  <2>2. Waiting(c)' <=> b + 1 <= c \/ pc'[Substep(c)] = "queued"
    BY <1>5, <1>6 DEF Waiting, DistributeJob, Substep
  <2>3. b + 1 <= c <=> b <= c /\ c # b
    BY Ranges DEF Places
  <2>4. b <= b
    BY Ranges DEF Places
  <2> QED BY <1>6, <2>1, <2>2, <2>3, <2>4
<1>8. ASSUME NEW c \in Bkt PROVE Settled(c)'
  <2>1. Settled(c)
    BY <1>3 DEF Sorting, Buckets
  <2> QED BY <1>2, <1>3, <1>7, <2>1, SettledElsewhere
<1>9. Buckets'
  BY <1>5, <1>8 DEF Buckets
<1>10. Shapes'
  BY <1>2, <1>3, <1>4, <1>5, <1>6 DEF Sorting, Shapes, ArrType, LcpType, CharsType, SampleJob
<1>11. Starts'
  BY <1>2, <1>3, StartsKept DEF Sorting
<1>12. Sections'
  <2>1. \A q \in Part : pc'[DistributeJob(q)] # "enqueue"
    BY <1>6
  <2>2. section'[b] = Span(b) /\ \A c \in Bkt : c # b => section'[c] = section[c]
    BY <1>2, <1>3, <1>4
  <2> QED BY <1>4, <1>5, <1>6, <2>1, <2>2 DEF Sorting, Sections, Substep, DistributeJob
<1>13. Ending' /\ SortedWhenTold'
  BY <1>2, <1>3, EndingKept DEF Sorting
<1> QED BY <1>9, <1>10, <1>11, <1>12, <1>13 DEF Sorting

(* What a substep writes into the two arrays of strings. *)
Writes(new, f, g) ==
  /\ new = [side \in BOOLEAN |-> new[side]]
  /\ output = TRUE => new[TRUE] = Override(arr[TRUE], f) /\ new[FALSE] = Override(arr[FALSE], g)
  /\ output = FALSE => new[FALSE] = Override(arr[FALSE], f) /\ new[TRUE] = Override(arr[TRUE], g)

LEMMA SortedInto ==
  ASSUME input \in Inputs, ArrType, NEW f, NEW g, DOMAIN g = DOMAIN f,
         \A x \in DOMAIN f : f[x] \in Str /\ g[x] = Moved,
         NEW new, Writes(new, f, g)
  PROVE  /\ new \in [BOOLEAN -> [Index -> Str \union {Moved}]]
         /\ \A x \in Index : x \in DOMAIN f => new[output][x] = f[x]
         /\ \A x \in Index : x \notin DOMAIN f =>
              \A side \in BOOLEAN : new[side][x] = arr[side][x]
<1>1. output = TRUE \/ output = FALSE
  BY Outputs, Zenon
<1>2. DOMAIN arr[TRUE] = Index /\ DOMAIN arr[FALSE] = Index
  BY DEF ArrType
<1>3. CASE output = TRUE
  <2>1. /\ new[TRUE] = [x \in Index |-> IF x \in DOMAIN f THEN f[x] ELSE arr[TRUE][x]]
        /\ new[FALSE] = [x \in Index |-> IF x \in DOMAIN f THEN g[x] ELSE arr[FALSE][x]]
    BY <1>2, <1>3 DEF Override, Writes
  <2>2. \A x \in Index : arr[TRUE][x] \in Str \union {Moved} /\ arr[FALSE][x] \in Str \union {Moved}
    BY DEF ArrType
  <2>3. new[TRUE] \in [Index -> Str \union {Moved}]
    BY <2>1, <2>2
  <2>4. new[FALSE] \in [Index -> Str \union {Moved}]
    BY <2>1, <2>2
  <2>5. new \in [BOOLEAN -> [Index -> Str \union {Moved}]]
    BY <2>3, <2>4 DEF Writes
  <2>6. \A x \in Index : x \in DOMAIN f => new[output][x] = f[x]
    <3>1. \A x \in Index : x \in DOMAIN f => new[TRUE][x] = f[x]
      BY <2>1
    <3> QED BY <1>3, <3>1, Zenon
  <2>7. \A x \in Index : x \notin DOMAIN f => new[TRUE][x] = arr[TRUE][x] /\ new[FALSE][x] = arr[FALSE][x]
    BY <2>1
  <2>8. \A x \in Index : x \notin DOMAIN f => \A side \in BOOLEAN : new[side][x] = arr[side][x]
    BY <2>7, Zenon
  <2> QED BY <2>5, <2>6, <2>8
<1>4. CASE output = FALSE
  <2>1. /\ new[FALSE] = [x \in Index |-> IF x \in DOMAIN f THEN f[x] ELSE arr[FALSE][x]]
        /\ new[TRUE] = [x \in Index |-> IF x \in DOMAIN f THEN g[x] ELSE arr[TRUE][x]]
    BY <1>2, <1>4 DEF Override, Writes
  <2>2. \A x \in Index : arr[FALSE][x] \in Str \union {Moved} /\ arr[TRUE][x] \in Str \union {Moved}
    BY DEF ArrType
  <2>3. new[FALSE] \in [Index -> Str \union {Moved}]
    BY <2>1, <2>2
  <2>4. new[TRUE] \in [Index -> Str \union {Moved}]
    BY <2>1, <2>2
  <2>5. new \in [BOOLEAN -> [Index -> Str \union {Moved}]]
    BY <2>3, <2>4 DEF Writes
  <2>6. \A x \in Index : x \in DOMAIN f => new[output][x] = f[x]
    <3>1. \A x \in Index : x \in DOMAIN f => new[FALSE][x] = f[x]
      BY <2>1
    <3> QED BY <1>4, <3>1, Zenon
  <2>7. \A x \in Index : x \notin DOMAIN f => new[TRUE][x] = arr[TRUE][x] /\ new[FALSE][x] = arr[FALSE][x]
    BY <2>1
  <2>8. \A x \in Index : x \notin DOMAIN f => \A side \in BOOLEAN : new[side][x] = arr[side][x]
    BY <2>7, Zenon
  <2> QED BY <2>5, <2>6, <2>8
<1> QED BY <1>1, <1>3, <1>4

(* What a substep finds. *)
LEMMA AtSubstep ==
  ASSUME Control, Sorting, NEW b \in Bkt, pc[Substep(b)] = "queued"
  PROVE  /\ Drawn /\ alive /\ ~Early /\ told = 0 /\ Waiting(b) /\ Unsettled(b)
         /\ section[b] = Span(b) /\ {arr[shadow][x] : x \in Span(b)} = Strs(b)
         /\ Min(Span(b)) = Start(b) /\ Start(b) \in Nat /\ Start(b) \in Span(b)
<1> USE DEF Control
<1>1. ~Early
  BY DEF EarlyQuiet
<1>2. Moving = {} /\ 0 \in Part
  BY <1>1, Ranges DEF Early, Places
<1>3. Summed /\ pc[SampleJob] # "queued"
  BY <1>2 DEF Summed, Moving, Phases
<1>4. Drawn
  BY <1>3 DEF Sorting, Shapes
<1>5. alive
  <2>1. Running # {}
    BY DEF Running
  <2> QED BY <2>1, HeldByOne
<1>6. told = 0 /\ Waiting(b) /\ Unsettled(b) /\ section[b] = Span(b)
  BY <1>5 DEF Sorting, Ending, Waiting, Sections
<1>7. {arr[shadow][x] : x \in Span(b)} = Strs(b)
  BY <1>1, <1>5, <1>6 DEF Sorting, Buckets, Settled
<1>8. Start(b) \in Nat /\ Start(b + 1) \in Nat
  BY <1>4, Spans
<1>9. Start(b) \in Span(b) /\ \A x \in Span(b) : x \in Nat /\ Start(b) <= x
  BY <1>6, <1>8 DEF Unsettled, Span
<1>10. Min(Span(b)) = Start(b)
  <2> DEFINE m == Min(Span(b))
  <2>1. m \in Span(b) /\ \A x \in Span(b) : m <= x
    BY <1>9 DEF Min
  <2> HIDE DEF m
  <2>2. m = Start(b)
    BY <1>8, <1>9, <2>1
  <2> QED BY <2>2 DEF m
<1> QED BY <1>1, <1>4, <1>5, <1>6, <1>7, <1>8, <1>9, <1>10

(* A substep is over. *)
LEMMA SortsKeep ==
  ASSUME Control, Arrays, ArrayTypes, Sorting, [Next]_vars, ~Early', NEW b \in Bkt,
         SubstepSorts(b)
  PROVE  Sorting'
<1> USE DEF Control
<1> DEFINE first == Min(section[b])
           S == {arr[shadow][i] : i \in section[b]}
           R == [s \in S |-> Cardinality({t \in S : Before(t, s)})]
           f == [i \in section[b] |->
                   LET at == {s \in S : Cardinality({t \in S : Before(t, s)}) = i - first}
                   IN  IF at = {} THEN Moved ELSE CHOOSE s \in at : TRUE]
           g == [i \in section[b] |-> Moved]
           lcpOf == [i \in section[b] \ {first} |-> TrueLcp(f[i - 1], f[i])]
           charOf == [i \in section[b] \ {first} |-> Distinguishing(f[i - 1], f[i])]
<1>1. /\ pc[Substep(b)] = "queued" /\ pc' = [pc EXCEPT ![Substep(b)] = "notify"]
      /\ lcp' = SetLcp(class, lcp, lcpOf) /\ chars' = SetCache(class, chars, charOf)
      /\ UNCHANGED <<splitter, bkt, section, alive, told, result, cur>>
  BY DEF SubstepSorts, At, Set, heap, life
<1>2. /\ Drawn /\ alive /\ ~Early /\ told = 0 /\ Waiting(b) /\ Unsettled(b)
      /\ section[b] = Span(b) /\ {arr[shadow][x] : x \in Span(b)} = Strs(b)
      /\ Min(Span(b)) = Start(b) /\ Start(b) \in Nat /\ Start(b) \in Span(b)
  BY <1>1, AtSubstep
<1>3. first = Start(b) /\ S = Strs(b) /\ DOMAIN f = Span(b) /\ DOMAIN g = Span(b)
  BY <1>2
<1>4. DOMAIN R = S /\ \A s \in S : R[s] = Cardinality({t \in S : Before(t, s)})
  OBVIOUS
<1>5. /\ DOMAIN lcpOf = Span(b) \ {Start(b)} /\ DOMAIN charOf = Span(b) \ {Start(b)}
      /\ \A x \in Span(b) \ {Start(b)} : /\ lcpOf[x] = TrueLcp(f[x - 1], f[x])
                                         /\ charOf[x] = Distinguishing(f[x - 1], f[x])
      /\ \A x \in Span(b) : g[x] = Moved
  BY <1>2, <1>3
<1>6. /\ \A s \in S : R[s] \in Nat /\ Start(b) + R[s] \in Span(b)
      /\ \A s, t \in S : R[s] = R[t] => s = t
      /\ \A s, t \in S : R[s] < R[t] => Before(s, t)
      /\ \A x \in Span(b) : \E s \in S : R[s] = x - Start(b)
  <2> HIDE DEF S, R
  <2> QED BY <1>2, <1>3, <1>4, RanksOfBucket
<1>a. Writes(arr', f, g)
  <2>1. arr' = [arr EXCEPT ![output] = Override(@, f), ![~output] = Override(@, g)]
    BY DEF SubstepSorts
  <2> HIDE DEF f, g
  <2>2. DOMAIN arr = BOOLEAN /\ (output = TRUE \/ output = FALSE)
    <3>1. output \in BOOLEAN
      BY <1>2, Outputs DEF Drawn
    <3>2. output = TRUE \/ output = FALSE
      BY <3>1, Zenon
    <3> QED BY <3>2 DEF Sorting, Shapes, ArrType
  <2>3. ASSUME output = TRUE
        PROVE  arr' = [arr EXCEPT ![TRUE] = Override(@, f), ![FALSE] = Override(@, g)]
    BY <2>1, <2>3, Zenon
  <2>4. ASSUME output = FALSE
        PROVE  arr' = [arr EXCEPT ![FALSE] = Override(@, f), ![TRUE] = Override(@, g)]
    BY <2>1, <2>4, Zenon
  <2> QED BY <2>2, <2>3, <2>4 DEF Writes
<1>7. ASSUME NEW x \in Span(b) PROVE f[x] \in Strs(b) /\ R[f[x]] = x - Start(b)
  <2> DEFINE at == {s \in S : R[s] = x - Start(b)}
  <2>1. at = {s \in S : Cardinality({t \in S : Before(t, s)}) = x - first}
    BY <1>3, <1>4
  <2> DEFINE there == {s \in S : Cardinality({t \in S : Before(t, s)}) = x - first}
  <2>a. x \in section[b]
    BY <1>2
  <2>b. f[x] = IF there = {} THEN Moved ELSE CHOOSE s \in there : TRUE
    BY <2>a
  <2> HIDE DEF f, there
  <2>2. f[x] = IF at = {} THEN Moved ELSE CHOOSE s \in at : TRUE
    BY <2>1, <2>b DEF there
  <2>3. at # {}
    BY <1>6
  <2>4. f[x] \in at
    <3> HIDE DEF at
    <3> QED BY <2>2, <2>3
  <2> QED BY <1>3, <2>4
<1> HIDE DEF S, R, f, g, lcpOf, charOf
<1>8. /\ Bkt' = Bkt /\ Index' = Index /\ Part' = Part /\ Str' = Str /\ Drawn' = Drawn
      /\ \A c : /\ Span(c)' = Span(c) /\ (Unsettled(c)' <=> Unsettled(c))
  BY <1>1, Constant, SpansSettled
<1>9. /\ pc'[Substep(b)] = "notify"
      /\ \A c \in Bkt : c # b => pc'[Substep(c)] = pc[Substep(c)]
      /\ \A q \in Part : pc'[DistributeJob(q)] = pc[DistributeJob(q)]
      /\ pc'[SampleJob] = pc[SampleJob]
  BY <1>1, Jobs, JobsDiffer DEF Places
<1>10. ASSUME NEW c \in Bkt PROVE Waiting(c)' <=> Waiting(c) /\ c # b
  <2>1. Waiting(c)' <=> \/ \E q \in Part : /\ pc[DistributeJob(q)] \in {"bucket", "enqueue"}
                                           /\ cur[DistributeJob(q)] <= c
                        \/ pc'[Substep(c)] = "queued"
    BY <1>1, <1>8, <1>9 DEF Waiting, DistributeJob, Substep
  <2>2. \A q \in Part : ~(/\ pc[DistributeJob(q)] \in {"bucket", "enqueue"}
                          /\ cur[DistributeJob(q)] <= b)
    <3> SUFFICES ASSUME NEW q \in Part, pc[DistributeJob(q)] \in {"bucket", "enqueue"},
                        cur[DistributeJob(q)] <= b
                 PROVE  FALSE
      OBVIOUS
    <3>1. b \in Nat /\ cur[DistributeJob(q)] \in 0 .. BktNum
      BY Ranges DEF Places, BucketsAhead
    <3>2. b >= cur[DistributeJob(q)]
      BY <3>1
    <3> QED BY <1>1, <3>2 DEF BucketsAhead
  <2> QED BY <1>9, <2>1, <2>2 DEF Waiting
<1>11. Span(b) \subseteq Index /\ Strs(b) \subseteq Str /\ input \in Inputs
       /\ ArrType /\ LcpType /\ CharsType /\ (class.cache => class.lcp)
  BY <1>2, Spans, Outputs DEF Drawn, Strs, Sorting, Shapes
<1>12. /\ arr' \in [BOOLEAN -> [Index -> Str \union {Moved}]]
       /\ \A x \in Span(b) : arr'[output][x] = f[x]
       /\ \A x \in Index : x \notin Span(b) => \A side \in BOOLEAN : arr'[side][x] = arr[side][x]
  <2>1. \A x \in DOMAIN f : f[x] \in Str /\ g[x] = Moved
    BY <1>3, <1>5, <1>7, <1>11
  <2>2. DOMAIN g = DOMAIN f
    BY <1>3
  <2>3. /\ arr' \in [BOOLEAN -> [Index -> Str \union {Moved}]]
        /\ \A x \in Index : x \in DOMAIN f => arr'[output][x] = f[x]
        /\ \A x \in Index : x \notin DOMAIN f =>
             \A side \in BOOLEAN : arr'[side][x] = arr[side][x]
    BY <1>11, <1>a, <2>1, <2>2, SortedInto
  <2> QED BY <1>3, <1>11, <2>3
<1>13. {arr'[output][x] : x \in Span(b)} = Strs(b)
  <2>1. \A x \in Span(b) : arr'[output][x] \in Strs(b)
    BY <1>7, <1>12
  <2>2. ASSUME NEW s \in Strs(b) PROVE \E x \in Span(b) : arr'[output][x] = s
    <3>1. R[s] \in Nat /\ Start(b) + R[s] \in Span(b)
      BY <1>3, <1>6
    <3> DEFINE x == Start(b) + R[s]
    <3>2. x - Start(b) = R[s]
      BY <1>2, <3>1
    <3> HIDE DEF x
    <3>3. x \in Span(b)
      BY <3>1 DEF x
    <3>4. f[x] \in S /\ R[f[x]] = R[s]
      BY <1>3, <1>7, <3>2, <3>3
    <3>5. f[x] = s
      BY <1>3, <1>6, <3>4
    <3> QED BY <1>12, <3>3, <3>5
  <2> QED BY <2>1, <2>2
<1>14. ASSUME NEW x \in Span(b), x # Start(b)
       PROVE  /\ x - 1 \in Span(b) /\ x \in Index
              /\ f[x - 1] \in Strs(b) /\ f[x] \in Strs(b) /\ Before(f[x - 1], f[x])
              /\ lcpOf[x] \in 0 .. KeyWidth /\ charOf[x] \in 0 .. NumChars
  <2>1. x - 1 \in Span(b) /\ x \in Index /\ x \in Nat
    BY <1>2, <1>11, <1>14, Spans DEF Span
  <2>2. /\ f[x - 1] \in Strs(b) /\ R[f[x - 1]] = x - 1 - Start(b)
        /\ f[x] \in Strs(b) /\ R[f[x]] = x - Start(b)
    BY <1>7, <2>1
  <2>3. R[f[x - 1]] < R[f[x]]
    BY <1>2, <2>1, <2>2
  <2>4. Before(f[x - 1], f[x])
    BY <1>3, <1>6, <2>2, <2>3
  <2>5. f[x - 1] \in Str /\ f[x] \in Str
    BY <1>11, <2>2
  <2>6. TrueLcp(f[x - 1], f[x]) \in 0 .. KeyWidth
        /\ Distinguishing(f[x - 1], f[x]) \in 0 .. NumChars
    BY <1>11, <2>5, LcpTypes
  <2> QED BY <1>5, <1>14, <2>1, <2>2, <2>4, <2>6
<1>15. /\ class.lcp => lcp' = [x \in Index |-> IF x \in Span(b) \ {Start(b)} THEN lcpOf[x] ELSE lcp[x]]
       /\ ~class.lcp => lcp' = lcp
  <2>1. DOMAIN lcp = Index
    BY <1>11 DEF LcpType
  <2> QED BY <1>1, <1>5, <2>1 DEF SetLcp, Override
<1>16. /\ class.cache =>
            chars' = [x \in Index |-> IF x \in Span(b) \ {Start(b)} THEN charOf[x] ELSE chars[x]]
       /\ ~class.cache => chars' = chars
  <2>1. DOMAIN chars = Index
    BY <1>11 DEF CharsType
  <2> QED BY <1>1, <1>5, <2>1 DEF SetCache, Override
<1>17. lcp' \in [Index -> {Untouched} \union 0 .. KeyWidth]
  BY <1>11, <1>14, <1>15 DEF LcpType
<1>18. chars' \in [Index -> {Untouched} \union 0 .. NumChars]
  BY <1>11, <1>14, <1>16 DEF CharsType
<1>19. \A x \in Index : x \notin Span(b) \ {Start(b)} => lcp'[x] = lcp[x] /\ chars'[x] = chars[x]
  BY <1>15, <1>16
<1>20. 0 \notin Span(b) \ {Start(b)} /\ 0 \in Index
  BY <1>2, <1>11, Sizes DEF Span, Index
<1>21. Settled(b)'
  <2> SUFFICES ASSUME NEW x \in Span(b), x # Start(b)
               PROVE  LET s == arr'[output][x - 1]
                          t == arr'[output][x]
                      IN  /\ KeyOf(s) < KeyOf(t) \/
                               (KeyOf(s) = KeyOf(t) /\ (s < t \/ Terminated(KeyOf(s))))
                          /\ class.lcp => lcp'[x] = TrueLcp(s, t)
                          /\ class.cache => chars'[x] = Distinguishing(s, t)
    BY <1>1, <1>2, <1>10, <1>13, SettledNow
  <2>1. /\ x - 1 \in Span(b) /\ x \in Index /\ Before(f[x - 1], f[x])
        /\ arr'[output][x - 1] = f[x - 1] /\ arr'[output][x] = f[x]
    BY <1>12, <1>14
  <2>2. class.lcp => lcp'[x] = TrueLcp(f[x - 1], f[x])
    BY <1>5, <1>15, <2>1
  <2>3. class.cache => chars'[x] = Distinguishing(f[x - 1], f[x])
    BY <1>5, <1>16, <2>1
  <2> QED BY <2>1, <2>2, <2>3 DEF Before
<1>22. ASSUME NEW c \in Bkt, c # b PROVE Settled(c)'
  <2>1. Settled(c)
    BY <1>2 DEF Sorting, Buckets
  <2>2. \A x \in Span(c) : x \in Index /\ x \notin Span(b)
    BY <1>2, <1>22, Spans
  <2>3. \A side \in BOOLEAN : \A x \in Span(c) : arr'[side][x] = arr[side][x]
    BY <1>12, <2>2
  <2>4. \A x \in Span(c) : lcp'[x] = lcp[x] /\ chars'[x] = chars[x]
    BY <1>19, <2>2
  <2> QED BY <1>1, <1>2, <1>10, <1>22, <2>1, <2>3, <2>4, SettledElsewhere
<1>23. Buckets'
  BY <1>8, <1>21, <1>22 DEF Buckets
<1>24. Shapes'
  BY <1>1, <1>8, <1>9, <1>12, <1>17, <1>18 DEF Sorting, Shapes, ArrType, LcpType, CharsType, SampleJob
<1>25. Starts'
  BY <1>1, <1>2, StartsKept DEF Sorting
<1>26. Sections'
  <2>1. \A q \in Part : pc'[DistributeJob(q)] = "enqueue" => Unsettled(cur[DistributeJob(q)])'
    <3> SUFFICES ASSUME NEW q \in Part, pc'[DistributeJob(q)] = "enqueue"
                 PROVE  Unsettled(cur[DistributeJob(q)])'
      OBVIOUS
    <3>1. PICK n : n = cur[DistributeJob(q)]
      OBVIOUS
    <3>2. Unsettled(n)'
      BY <1>8, <1>9, <3>1 DEF Sorting, Sections
    <3> QED BY <1>1, <3>1, <3>2 DEF DistributeJob
  <2>2. \A c \in Bkt : pc'[Substep(c)] = "queued" => section'[c] = Span(c) /\ Unsettled(c)
    BY <1>1, <1>9 DEF Sorting, Sections
  <2> QED BY <1>8, <2>1, <2>2 DEF Sections, Substep, DistributeJob
<1>27. Ending' /\ SortedWhenTold'
  BY <1>1, <1>2, <1>19, <1>20, EndingKept DEF Sorting
<1> QED BY <1>23, <1>24, <1>25, <1>26, <1>27 DEF Sorting

-----------------------------------------------------------------------------
(* The steps that deal with no bucket. *)
LEMMA LateDrawn ==
  ASSUME Control, Sorting, ~Early
  PROVE  Drawn /\ Moving = {} /\ Summed /\ Counting = {} /\ pc[SampleJob] # "queued"
<1> USE DEF Control
<1>1. Moving = {} /\ 0 \in Part
  BY Ranges DEF Early, Places
<1>2. Summed /\ Counting = {} /\ pc[SampleJob] # "queued"
  BY <1>1 DEF Summed, Moving, Phases
<1> QED BY <1>1, <1>2 DEF Sorting, Shapes

(* When every job has returned, none goes on. *)
LEMMA NobodyLeft ==
  ASSUME Places, [Next]_vars, \A j \in Job : pc[j] \in {"none", "done"}
  PROVE  pc' = pc
<1>1. /\ \A j \in Job : ~Spawns(j) /\ ~SpawnOver(j) /\ ~Notifies(j) /\ ~Deletes(j)
      /\ ~Sampled
  BY Jobs DEF Spawns, SpawnOver, Notifies, Deletes, Sampled, Goes
<1>2. ASSUME NEW p \in Part PROVE ~CountStep(p) /\ ~DistributeStep(p)
  <2>1. pc[CountJob(p)] \in {"none", "done"} /\ pc[DistributeJob(p)] \in {"none", "done"}
    BY Jobs
  <2>2. ~CountStep(p)
    BY <1>1, <2>1, Jobs DEF CountStep, Counted, SignsOff, Summing, Goes
  <2>3. ~DistributeStep(p)
    BY <1>1, <2>1, Jobs DEF DistributeStep, Distributing, SignsOff, Recurses, PassesBucket,
                            Announces, Enqueues, BucketsOver, Frees, Goes
  <2> QED BY <2>2, <2>3
<1>3. ASSUME NEW b \in Bkt PROVE ~SubstepStep(b)
  BY <1>1, Jobs DEF SubstepStep, Sorts, Goes
<1>4. ControlStep
  BY NextControl
<1> QED BY <1>1, <1>2, <1>3, <1>4, Jobs DEF ControlStep

(* What the parent was told stays true. *)
LEMMA ToldStays ==
  ASSUME [Next]_vars, splitter' = splitter, SortedWhenTold,
         UNCHANGED <<arr, lcp, chars, told, result>>
  PROVE  SortedWhenTold'
<1>1. /\ output' = output /\ class' = class /\ Index' = Index /\ Str' = Str
      /\ \A s : KeyOf(s)' = KeyOf(s)
      /\ \A s, t : TrueLcp(s, t)' = TrueLcp(s, t) /\ Distinguishing(s, t)' = Distinguishing(s, t)
  BY Constant, SpansSettled
<1>2. CASE result = Null
  BY <1>1, <1>2 DEF SortedWhenTold
<1>3. CASE result # Null
  BY <1>1, <1>3 DEF SortedWhenTold
<1> QED BY <1>2, <1>3

LEMMA LateQuietKeeps ==
  ASSUME Control, Arrays, ArrayTypes, Sorting, [Next]_vars, ~Early, ~Early', LateQuiet
  PROVE  Sorting'
<1> USE DEF Control
<1>1. /\ UNCHANGED <<arr, lcp, chars, splitter, section, told, result, alive>>
      /\ bkt'[0] # Null => bkt'[0] = bkt[0]
      /\ \A b \in Bkt : /\ Waiting(b)' <=> Waiting(b)
                        /\ pc'[Substep(b)] = "queued" => pc[Substep(b)] = "queued"
      /\ \A p \in Part : pc'[DistributeJob(p)] = "enqueue" =>
           pc[DistributeJob(p)] = "enqueue" /\ cur'[DistributeJob(p)] = cur[DistributeJob(p)]
  BY DEF LateQuiet
<1>2. Drawn
  BY LateDrawn
<1>3. /\ Bkt' = Bkt /\ Index' = Index /\ Part' = Part /\ Str' = Str /\ Drawn' = Drawn /\ Job' = Job
      /\ \A c : /\ Span(c)' = Span(c) /\ (Unsettled(c)' <=> Unsettled(c))
  BY <1>1, Constant, SpansSettled
<1>4. Buckets'
  <2>1. ASSUME alive, NEW c \in Bkt PROVE Settled(c)'
    <3>1. Settled(c)
      BY <2>1 DEF Sorting, Buckets
    <3> QED BY <1>1, <1>2, <3>1, SettledElsewhere
  <2> QED BY <1>1, <1>3, <2>1 DEF Buckets
<1>5. Shapes'
  BY <1>1, <1>2, <1>3 DEF Sorting, Shapes, ArrType, LcpType, CharsType
<1>6. Starts'
  BY <1>1, StartsKept DEF Sorting
<1>7. Sections'
  <2>1. \A q \in Part : pc'[DistributeJob(q)] = "enqueue" => Unsettled(cur[DistributeJob(q)])'
    <3> SUFFICES ASSUME NEW q \in Part, pc'[DistributeJob(q)] = "enqueue"
                 PROVE  Unsettled(cur[DistributeJob(q)])'
      OBVIOUS
    <3>1. PICK n : n = cur[DistributeJob(q)]
      OBVIOUS
    <3>2. Unsettled(n)'
      BY <1>1, <1>3, <3>1 DEF Sorting, Sections
    <3> QED BY <1>1, <3>1, <3>2 DEF DistributeJob
  <2> QED BY <1>1, <1>3, <2>1 DEF Sorting, Sections, Substep, DistributeJob
<1>8. Ending'
  BY <1>1, <1>3, NobodyLeft DEF Sorting, Ending
<1>9. SortedWhenTold'
  BY <1>1, ToldStays DEF Sorting
<1> QED BY <1>4, <1>5, <1>6, <1>7, <1>8, <1>9 DEF Sorting

(* The caller takes the strings, or has them moved back. *)
LEMMA ReturnKeeps ==
  ASSUME Control, Arrays, ArrayTypes, Sorting, [Next]_vars, ~Early, ~Early', Return
  PROVE  Sorting'
<1> USE DEF Control
<1>1. /\ told > 0 /\ result = Null /\ \A j \in Job : pc[j] \in {"none", "done"}
      /\ UNCHANGED <<splitter, bkt, section, alive, told, pc, cur>>
      /\ IF class.cache THEN CompleteFirst ELSE UNCHANGED <<lcp, chars>>
  BY DEF Return, heap, lcps
<1>2. Drawn
  BY LateDrawn
<1>3. /\ Bkt' = Bkt /\ Index' = Index /\ Part' = Part /\ Str' = Str /\ Drawn' = Drawn /\ Job' = Job
      /\ class' = class
      /\ \A c : /\ Span(c)' = Span(c) /\ (Unsettled(c)' <=> Unsettled(c))
      /\ \A s : KeyOf(s)' = KeyOf(s)
      /\ \A s, t : TrueLcp(s, t)' = TrueLcp(s, t) /\ Distinguishing(s, t)' = Distinguishing(s, t)
  BY <1>1, Constant, SpansSettled
<1>4. input \in Inputs /\ output \in BOOLEAN /\ 0 \in Index /\ Null \notin BOOLEAN
  BY <1>2, Outputs, Sizes, NullAssumption DEF Drawn, Index
<1>5. ~alive /\ told \in Nat
  BY <1>1 DEF Sorting, Ending
<1>6. ArrType /\ LcpType /\ CharsType /\ section \in [Bkt -> SUBSET Index]
  BY DEF Sorting, Shapes
<1>7. /\ result' \in BOOLEAN
      /\ arr'[result'] = arr[output]
      /\ arr' \in [BOOLEAN -> [Index -> Str \union {Moved}]]
  <2>1. CASE result' = output /\ arr' = arr
    <3>1. arr'[result'] = arr[output] /\ result' \in BOOLEAN
      BY <1>4, <2>1, Zenon
    <3> QED BY <1>6, <2>1, <3>1 DEF ArrType
  <2>2. CASE /\ class \in {StringShadowOutPtr, StringShadowLcpOutPtr} /\ result' = FALSE
             /\ arr' = [side \in BOOLEAN |-> IF side THEN [i \in Index |-> Moved] ELSE arr[TRUE]]
    <3>1. class.out = TRUE
      BY <2>2 DEF StringShadowOutPtr, StringShadowLcpOutPtr
    <3>2. arr'[FALSE] = arr[TRUE] /\ arr'[TRUE] = [i \in Index |-> Moved]
      BY <2>2
    <3>3. arr'[result'] = arr[output] /\ result' \in BOOLEAN
      BY <2>2, <3>1, <3>2, Zenon DEF output
    <3>4. arr' = [side \in BOOLEAN |-> arr'[side]]
      BY <2>2
    <3>5. arr'[FALSE] \in [Index -> Str \union {Moved}] /\ arr'[TRUE] \in [Index -> Str \union {Moved}]
      BY <1>6, <3>2 DEF ArrType
    <3> QED BY <3>3, <3>4, <3>5
  <2> QED BY <2>1, <2>2 DEF Return
<1>8. result' # Null
  BY <1>4, <1>7
<1>9. /\ {arr[output][i] : i \in Index} = Str
      /\ \A x \in Index \ {0} : Ordered(x)
      /\ lcp[0] = Untouched /\ chars[0] = Untouched
  BY <1>1 DEF Sorting, SortedWhenTold, Ordered
<1>10. CharAt(KeyOf(arr[output][0]), 0) \in 0 .. NumChars
  <2> DEFINE s == arr[output][0]
  <2>1. s \in Str
    BY <1>4, <1>9
  <2> HIDE DEF s
  <2>2. KeyOf(s) \in Nat /\ 0 \in Place
    BY <1>4, <2>1, KeysOfStrings, KeyAssumption DEF Place
  <2>3. CharAt(KeyOf(s), 0) \in 0 .. NumChars - 1
    BY <2>2, PrefixStep
  <2> QED BY <2>3, KeyAssumption DEF s
<1>11. /\ lcp' \in [Index -> {Untouched} \union 0 .. KeyWidth]
       /\ \A x \in Index \ {0} : lcp'[x] = lcp[x]
       /\ lcp'[0] = IF class.cache THEN 0 ELSE Untouched
  <2>1. 0 \in 0 .. KeyWidth
    BY KeyAssumption
  <2> QED BY <1>1, <1>4, <1>6, <1>9, <2>1 DEF LcpType, CompleteFirst
<1>12. /\ chars' \in [Index -> {Untouched} \union 0 .. NumChars]
       /\ \A x \in Index \ {0} : chars'[x] = chars[x]
       /\ chars'[0] = IF class.cache THEN CharAt(KeyOf(arr[output][0]), 0) ELSE Untouched
  BY <1>1, <1>4, <1>6, <1>9, <1>10 DEF CharsType, CompleteFirst
<1>13. SortedWhenTold'
  <2>1. {arr'[result'][i] : i \in Index} = Str
    BY <1>7, <1>9
  <2>2. \A x \in Index \ {0} :
          LET s == arr'[result'][x - 1]
              t == arr'[result'][x]
          IN  /\ KeyOf(s) < KeyOf(t) \/
                   (KeyOf(s) = KeyOf(t) /\ (s < t \/ Terminated(KeyOf(s))))
              /\ class.lcp => lcp'[x] = TrueLcp(s, t)
              /\ class.cache => chars'[x] = Distinguishing(s, t)
    BY <1>7, <1>9, <1>11, <1>12 DEF Ordered
  <2>3. chars'[0] = IF class.cache THEN CharAt(KeyOf(arr'[result'][0]), 0) ELSE Untouched
    BY <1>7, <1>12
  <2> QED BY <1>3, <1>8, <1>11, <2>1, <2>2, <2>3 DEF SortedWhenTold
<1>14. Shapes'
  BY <1>1, <1>2, <1>3, <1>6, <1>7, <1>11, <1>12 DEF Shapes, ArrType, LcpType, CharsType
<1>15. Starts'
  BY <1>1, StartsKept DEF Sorting
<1>16. Buckets'
  BY <1>1, <1>5 DEF Buckets
<1>17. Sections'
  BY <1>1, <1>3, Jobs DEF Sections, Substep, DistributeJob
<1>18. Ending'
  BY <1>1, <1>3, <1>5, <1>8 DEF Sorting, Ending
<1> QED BY <1>13, <1>14, <1>15, <1>16, <1>17, <1>18 DEF Sorting

-----------------------------------------------------------------------------
(* sample_sort_lcp() finds the two strings at every boundary: the first of *)
(* a bucket that is not empty, and the last before it.                     *)
LEMMA Boundaries ==
  ASSUME Drawn, \A b \in 0 .. BktNum : bkt[0][b] = Start(b),
         \A b \in Bkt : {arr[output][x] : x \in Span(b)} = Strs(b)
  PROVE  /\ 0 \notin DOMAIN Boundary /\ DOMAIN Boundary \subseteq Index
         /\ \A b \in Bkt : \A x \in Span(b) :
              /\ x \in DOMAIN Boundary <=> x = Start(b) /\ x # 0
              /\ x \in DOMAIN Boundary =>
                   /\ \E c \in Bkt : c < b /\ x - 1 \in Span(c)
                   /\ Boundary[x].last = KeyOf(arr[output][x - 1])
                   /\ Boundary[x].first = KeyOf(arr[output][x])
<1> DEFINE full == {b \in Bkt : BktSize(b) > 0}
           starts == {b \in full : \E c \in full : c < b}
           at(x) == CHOOSE b \in starts : bkt[0][b] = x
           before(b) == {c \in full : c < b}
<1>1. /\ Boundary = [i \in {bkt[0][b] : b \in starts} |->
                       [last |-> LastKey(Max(before(at(i)))), first |-> FirstKey(at(i))]]
  BY DEF Boundary
<1>2. /\ Bkt = 0 .. BktNum - 1 /\ BktNum \in Nat /\ input \in Inputs
      /\ \A b \in Bkt : b \in Nat /\ b + 1 \in 0 .. BktNum /\ b \in 0 .. BktNum
  BY Sizes DEF Drawn, Bkt
<1>3. \A b \in Bkt : /\ Start(b) \in Nat /\ Start(b + 1) \in Nat /\ Start(b) <= Start(b + 1)
                     /\ bkt[0][b] = Start(b) /\ bkt[0][b + 1] = Start(b + 1)
  BY <1>2, Spans
<1>4. \A b \in Bkt : b \in full <=> Start(b) \in Span(b)
  BY <1>3 DEF BktSize, Span
<1>5. \A b \in Bkt : \A x \in Span(b) : b \in full /\ x \in Nat /\ x \in Index /\ Start(b) <= x
                                        /\ x < Start(b + 1)
  BY <1>3, Spans DEF BktSize, Span
<1>6. full \subseteq Bkt /\ starts \subseteq full /\ \A b \in starts : \E c \in full : c < b
  OBVIOUS
<1>7. \A b : before(b) \subseteq full /\ \A c \in full : c \in before(b) <=> c < b
  OBVIOUS
<1>a. \A b \in full : (\E c \in full : c < b) => b \in starts
  OBVIOUS
<1>b. DOMAIN Boundary = {bkt[0][b] : b \in starts}
  BY <1>1
<1>c. \A x \in DOMAIN Boundary : /\ Boundary[x].last = LastKey(Max(before(at(x))))
                                 /\ Boundary[x].first = FirstKey(at(x))
  BY <1>1
<1>d. \A x : (\E b \in starts : bkt[0][b] = x) => at(x) \in starts /\ bkt[0][at(x)] = x
  OBVIOUS
<1> HIDE DEF full, starts, at, before
<1>8. ASSUME NEW x \in DOMAIN Boundary
      PROVE  x \in Index /\ x # 0 /\ \E b \in starts : b \in Bkt /\ Start(b) = x /\ x \in Span(b)
  <2>1. PICK b \in starts : x = bkt[0][b]
    BY <1>8, <1>b
  <2>2. b \in Bkt /\ b \in full /\ x = Start(b) /\ x \in Span(b)
    BY <1>3, <1>4, <1>6, <2>1
  <2>3. PICK c \in full : c < b
    BY <1>6
  <2>4. c \in Bkt /\ Start(c) \in Span(c)
    BY <1>4, <1>6
  <2>5. Start(c) < x /\ Start(c) \in Nat
    BY <1>3, <2>2, <2>3, <2>4, Spans
  <2>6. x \in Index /\ x \in Nat /\ x # 0
    BY <1>5, <2>2, <2>5
  <2> QED BY <2>2, <2>6
<1>9. ASSUME NEW b \in Bkt, NEW x \in Span(b), x \in DOMAIN Boundary
      PROVE  x = Start(b) /\ x # 0
  <2>1. PICK c \in starts : c \in Bkt /\ Start(c) = x /\ x \in Span(c)
    BY <1>8, <1>9
  <2>2. b = c
    BY <2>1, Spans
  <2> QED BY <1>8, <1>9, <2>1, <2>2
<1>10. ASSUME NEW b \in Bkt, NEW x \in Span(b), x = Start(b), x # 0
       PROVE  /\ x \in DOMAIN Boundary
              /\ \E c \in Bkt : c < b /\ x - 1 \in Span(c)
              /\ Boundary[x].last = KeyOf(arr[output][x - 1])
              /\ Boundary[x].first = KeyOf(arr[output][x])
  <2>1. x \in Nat \ {0} /\ x \in Index /\ x - 1 \in Index /\ b \in full
    BY <1>5, <1>10, Sizes DEF Drawn, Index
  <2>2. PICK c \in Bkt : x - 1 \in Span(c)
    BY <2>1, Spans
  <2>3. c < b
    <3>1. c # b
      BY <1>5, <1>10, <2>1, <2>2
    <3>2. ASSUME b < c PROVE FALSE
      <4>1. x < x - 1
        BY <2>2, <3>2, Spans
      <4> QED BY <2>1, <4>1
    <3> QED BY <1>2, <3>1, <3>2
  <2>4. c \in full /\ b \in starts
    BY <1>5, <1>a, <2>1, <2>2, <2>3
  <2>5. x \in DOMAIN Boundary
    BY <1>3, <1>10, <1>b, <2>4
  <2>6. at(x) = b
    <3>1. at(x) \in starts /\ bkt[0][at(x)] = x
      BY <1>3, <1>10, <1>d, <2>4
    <3>2. PICK d \in Bkt : d = at(x)
      BY <1>6, <3>1
    <3>3. d \in full /\ Start(d) = x
      BY <1>3, <1>6, <3>1, <3>2
    <3>4. x \in Span(d)
      BY <1>4, <3>3
    <3>5. d = b
      BY <3>4, Spans
    <3> QED BY <3>2, <3>5
  <2>7. Max(before(b)) = c
    <3>1. c \in before(b)
      BY <1>7, <2>3, <2>4
    <3>2. ASSUME NEW d \in before(b) PROVE d \in Nat /\ c \in Nat /\ c >= d
      <4>1. d \in full /\ d < b /\ d \in Bkt /\ Start(d) \in Span(d)
        BY <1>4, <1>6, <1>7
      <4>2. ASSUME c < d PROVE FALSE
        <5>1. x - 1 < Start(d) /\ Start(d) < x
          BY <2>2, <4>1, <4>2, Spans
        <5>2. Start(d) \in Nat
          BY <1>3, <4>1
        <5> QED BY <2>1, <5>1, <5>2
      <4> QED BY <1>2, <4>1, <4>2
    <3> DEFINE m == Max(before(b))
    <3>3. m \in before(b) /\ \A d \in before(b) : m >= d
      BY <3>1, <3>2 DEF Max
    <3> HIDE DEF m
    <3>4. m = c
      BY <3>1, <3>2, <3>3
    <3> QED BY <3>4 DEF m
  <2>8. Start(c + 1) = x
    <3>1. x - 1 < Start(c + 1) /\ Start(c + 1) <= x
      BY <1>5, <1>10, <2>2, <2>3, Spans
    <3> QED BY <1>3, <2>1, <3>1
  <2>9. LastKey(c) = KeyOf(arr[output][x - 1])
    <3>1. arr[output][x - 1] \in Strs(c)
      BY <2>2
    <3>2. c % 2 = 1 => KeyOf(arr[output][x - 1]) = splitter[c \div 2]
      BY <3>1, SplittersAround
    <3>3. bkt[0][c + 1] - 1 = x - 1
      BY <1>3, <2>8
    <3> QED BY <3>2, <3>3 DEF LastKey
  <2>10. FirstKey(b) = KeyOf(arr[output][x])
    <3>1. arr[output][x] \in Strs(b)
      OBVIOUS
    <3>2. b % 2 = 1 => KeyOf(arr[output][x]) = splitter[b \div 2]
      BY <3>1, SplittersAround
    <3> QED BY <1>3, <1>10, <3>2 DEF FirstKey
  <2> QED BY <1>c, <2>2, <2>3, <2>5, <2>6, <2>7, <2>9, <2>10
<1> QED BY <1>8, <1>9, <1>10

(* All buckets are sorted: the LCPs between them are what is left to do. *)
LEMMA DoneKeeps ==
  ASSUME Control, Arrays, ArrayTypes, Sorting, [Next]_vars, ~Early, ~Early',
         NEW j \in Job, AllDone(j)
  PROVE  Sorting'
<1> USE DEF Control
<1>1. /\ pc[j] = "alldone" /\ pc' = [pc EXCEPT ![j] = AfterNotify(j)]
      /\ lcp' = IF CalcLcp THEN SetLcp(class, lcp, BoundaryLcp) ELSE lcp
      /\ chars' = IF CalcLcp THEN SetCache(class, chars, BoundaryChar) ELSE chars
      /\ bkt' = IF CalcLcp THEN [bkt EXCEPT ![0] = Null] ELSE bkt
      /\ told' = told + 1 /\ alive' = FALSE
      /\ UNCHANGED <<arr, splitter, section, result, cur>>
  BY DEF AllDone, At, Set
<1>2. Drawn /\ Moving = {} /\ Summed /\ Counting = {} /\ 0 \in Part /\ input \in Inputs
  BY LateDrawn, Ranges DEF Drawn
<1>3. Handle = {} /\ Running = {} /\ alive
  BY <1>1, HeldByOne DEF AliveWhileHeld
<1>4. told = 0 /\ result = Null /\ lcp[0] = Untouched /\ chars[0] = Untouched
  BY <1>3 DEF Sorting, Ending
<1>5. ASSUME NEW b \in Bkt
      PROVE  /\ {arr[output][x] : x \in Span(b)} = Strs(b)
             /\ \A x \in Span(b) : x # Start(b) => Ordered(x)
  <2>1. ~Waiting(b)
    BY <1>3 DEF Waiting, Handle, Running
  <2> QED BY <1>3, <2>1 DEF Sorting, Buckets, Settled
<1>6. /\ Bkt' = Bkt /\ Index' = Index /\ Part' = Part /\ Str' = Str /\ Drawn' = Drawn
      /\ output' = output /\ class' = class
      /\ \A s : KeyOf(s)' = KeyOf(s)
      /\ \A s, t : TrueLcp(s, t)' = TrueLcp(s, t) /\ Distinguishing(s, t)' = Distinguishing(s, t)
  BY <1>1, Constant, SpansSettled
<1>7. /\ ArrType /\ LcpType /\ CharsType /\ section \in [Bkt -> SUBSET Index]
      /\ (class.cache => class.lcp) /\ CalcLcp = class.lcp
      /\ 0 \in Index
  BY <1>2, Outputs, Sizes DEF Sorting, Shapes, Index
<1>8. \A x \in Index : \E b \in Bkt : x \in Span(b)
  BY <1>2, Spans
<1>9. {arr[output][x] : x \in Index} = Str
  <2>1. \A x \in Index : arr[output][x] \in Str
    BY <1>5, <1>8 DEF Strs
  <2>2. ASSUME NEW s \in Str PROVE \E x \in Index : arr[output][x] = s
    <3>1. PICK b \in Bkt : s \in Strs(b)
      BY <1>2, StrsCover
    <3> QED BY <1>2, <1>5, <3>1, Spans
  <2> QED BY <2>1, <2>2
<1>10. ASSUME class.lcp
       PROVE  /\ 0 \notin DOMAIN Boundary /\ DOMAIN Boundary \subseteq Index
              /\ \A b \in Bkt : \A x \in Span(b) :
                   /\ x \in DOMAIN Boundary <=> x = Start(b) /\ x # 0
                   /\ x \in DOMAIN Boundary =>
                        /\ \E c \in Bkt : c < b /\ x - 1 \in Span(c)
                        /\ Boundary[x].last = KeyOf(arr[output][x - 1])
                        /\ Boundary[x].first = KeyOf(arr[output][x])
  <2>1. CalcLcp
    BY <1>7, <1>10, Zenon
  <2>2. pc[CountJob(0)] \notin {"none", "queued"}
    BY <1>2 DEF Counting
  <2>3. bkt[0] # Null
    BY <1>3, <2>1, <2>2 DEF Arrays, ArraysGone
  <2>4. pc[DistributeJob(0)] \notin {"none", "queued", "move"}
    BY <1>2 DEF Moving
  <2>5. \A b \in 0 .. BktNum : bkt[0][b] = Start(b)
    BY <2>3, <2>4 DEF Sorting, Starts
  <2> QED BY <1>2, <1>5, <2>5, Boundaries
<1>11. ASSUME NEW x \in Index, class.lcp, x \in DOMAIN Boundary
       PROVE  LET s == arr[output][x - 1]
                  t == arr[output][x]
              IN  /\ s \in Str /\ t \in Str /\ KeyOf(s) < KeyOf(t)
                  /\ BoundaryLcp[x] = TrueLcp(s, t) /\ BoundaryChar[x] = Distinguishing(s, t)
                  /\ BoundaryLcp[x] \in 0 .. KeyWidth /\ BoundaryChar[x] \in 0 .. NumChars
  <2>1. PICK b \in Bkt : x \in Span(b)
    BY <1>8
  <2>2. PICK c \in Bkt : c < b /\ x - 1 \in Span(c)
    BY <1>10, <1>11, <2>1
  <2> DEFINE s == arr[output][x - 1]
             t == arr[output][x]
  <2>3. s \in Strs(c) /\ t \in Strs(b)
    BY <1>5, <2>1, <2>2
  <2>4. Boundary[x].last = KeyOf(s) /\ Boundary[x].first = KeyOf(t)
    BY <1>10, <1>11, <2>1
  <2> HIDE DEF s, t
  <2>5. s \in Str /\ t \in Str
    BY <2>3 DEF Strs
  <2>6. KeyOf(s) < KeyOf(t)
    BY <1>2, <2>2, <2>3, BucketsOrder
  <2>7. KeyOf(s) # KeyOf(t)
    BY <1>2, <2>5, <2>6, KeysOfStrings
  <2>8. BoundaryLcp[x] = TrueLcp(s, t)
    BY <1>11, <2>4, <2>7 DEF BoundaryLcp, TrueLcp
  <2>9. BoundaryChar[x] = CharAt(KeyOf(t), TrueLcp(s, t))
    BY <1>11, <2>4, <2>8 DEF BoundaryChar
  <2>10. /\ TrueLcp(s, t) \in 0 .. KeyWidth /\ Distinguishing(s, t) \in 0 .. NumChars
         /\ Distinguishing(s, t) = CharAt(KeyOf(t), TrueLcp(s, t))
    BY <1>2, <2>5, <2>6, LcpTypes
  <2> QED BY <2>5, <2>6, <2>8, <2>9, <2>10 DEF s, t
<1>12. DOMAIN BoundaryLcp = DOMAIN Boundary /\ DOMAIN BoundaryChar = DOMAIN Boundary
  BY DEF BoundaryLcp, BoundaryChar
<1>13. /\ class.lcp =>
            lcp' = [x \in Index |-> IF x \in DOMAIN Boundary THEN BoundaryLcp[x] ELSE lcp[x]]
       /\ ~class.lcp => lcp' = lcp
  <2>1. DOMAIN lcp = Index
    BY <1>7 DEF LcpType
  <2>2. lcp' = IF class.lcp THEN SetLcp(class, lcp, BoundaryLcp) ELSE lcp
    BY <1>1, <1>7, Zenon
  <2> QED BY <1>12, <2>1, <2>2 DEF SetLcp, Override
<1>14. /\ class.cache =>
            chars' = [x \in Index |-> IF x \in DOMAIN Boundary THEN BoundaryChar[x] ELSE chars[x]]
       /\ ~class.cache => chars' = chars
  <2>1. DOMAIN chars = Index
    BY <1>7 DEF CharsType
  <2>2. chars' = IF class.lcp THEN SetCache(class, chars, BoundaryChar) ELSE chars
    BY <1>1, <1>7, Zenon
  <2> QED BY <1>7, <1>12, <2>1, <2>2 DEF SetCache, Override
<1>15. lcp' \in [Index -> {Untouched} \union 0 .. KeyWidth]
  BY <1>7, <1>11, <1>13 DEF LcpType
<1>16. chars' \in [Index -> {Untouched} \union 0 .. NumChars]
  BY <1>7, <1>11, <1>14 DEF CharsType
<1>17. lcp'[0] = Untouched /\ chars'[0] = Untouched
  BY <1>4, <1>7, <1>10, <1>13, <1>14
<1>18. ASSUME NEW x \in Index \ {0}
       PROVE  LET s == arr[output][x - 1]
                  t == arr[output][x]
              IN  /\ KeyOf(s) < KeyOf(t) \/
                       (KeyOf(s) = KeyOf(t) /\ (s < t \/ Terminated(KeyOf(s))))
                  /\ class.lcp => lcp'[x] = TrueLcp(s, t)
                  /\ class.cache => chars'[x] = Distinguishing(s, t)
  <2>1. PICK b \in Bkt : x \in Span(b)
    BY <1>8
  <2>2. CASE x # Start(b)
    <3>1. Ordered(x)
      BY <1>5, <2>1, <2>2
    <3>2. class.lcp => x \notin DOMAIN Boundary
      BY <1>10, <2>1, <2>2
    <3>3. (class.lcp => lcp'[x] = lcp[x]) /\ (class.cache => chars'[x] = chars[x])
      BY <1>7, <1>13, <1>14, <3>2
    <3> QED BY <3>1, <3>3 DEF Ordered
  <2>3. CASE x = Start(b)
    <3> DEFINE s == arr[output][x - 1]
               t == arr[output][x]
    <3>1. KeyOf(s) < KeyOf(t)
      <4>1. x - 1 \in Index /\ x - 1 < x
        BY <1>2, Sizes DEF Index
      <4>2. PICK c \in Bkt : x - 1 \in Span(c)
        BY <1>8, <4>1
      <4>3. c < b
        <5>1. c # b
          BY <1>2, <2>3, <4>1, <4>2, Spans DEF Span
        <5>2. ASSUME b < c PROVE FALSE
          <6>1. x < x - 1
            BY <1>2, <2>1, <4>2, <5>2, Spans
          <6>2. x \in Nat
            BY <1>2, <2>1, Spans
          <6> QED BY <6>1, <6>2
        <5> QED BY <1>2, <5>1, <5>2, Ranges
      <4>4. s \in Strs(c) /\ t \in Strs(b)
        BY <1>5, <2>1, <4>2
      <4> QED BY <1>2, <4>3, <4>4, BucketsOrder
    <3>2. class.lcp => x \in DOMAIN Boundary
      BY <1>10, <2>1, <2>3
    <3>3. class.lcp => BoundaryLcp[x] = TrueLcp(s, t) /\ BoundaryChar[x] = Distinguishing(s, t)
      BY <1>11, <3>2
    <3> HIDE DEF s, t
    <3>4. (class.lcp => lcp'[x] = TrueLcp(s, t)) /\ (class.cache => chars'[x] = Distinguishing(s, t))
      BY <1>7, <1>13, <1>14, <3>2, <3>3
    <3> QED BY <3>1, <3>4 DEF s, t
  <2> QED BY <2>2, <2>3
<1>19. SortedWhenTold'
  BY <1>1, <1>4, <1>6, <1>9, <1>17, <1>18 DEF SortedWhenTold
<1>20. /\ pc'[j] \in {"done", "freebkt"}
       /\ \A i \in Job : i # j => pc'[i] = pc[i]
  <2>1. AfterNotify(j) \in {"done", "freebkt"}
    BY <1>1, PlacesOf, AfterNotifyPlaces
  <2> QED BY <1>1, <2>1 DEF Places
<1>21. Sections'
  <2>1. \A q \in Part : pc'[DistributeJob(q)] # "enqueue"
    BY <1>3, <1>20, Jobs DEF Handle
  <2>2. \A b \in Bkt : pc'[Substep(b)] # "queued"
    BY <1>3, <1>20, Jobs DEF Running
  <2> QED BY <1>6, <2>1, <2>2 DEF Sections, Substep, DistributeJob
<1>22. Shapes'
  BY <1>1, <1>2, <1>6, <1>7, <1>15, <1>16 DEF Shapes, ArrType, LcpType, CharsType
<1>23. Starts'
  <2>1. bkt'[0] # Null => bkt'[0] = bkt[0]
    BY <1>1, <1>2 DEF ArrayTypes
  <2> QED BY <1>1, <2>1, StartsKept DEF Sorting
<1>24. Buckets'
  BY <1>1 DEF Buckets
<1>25. Ending'
  BY <1>1, <1>4, <1>17 DEF Ending
<1> QED BY <1>19, <1>21, <1>22, <1>23, <1>24, <1>25 DEF Sorting

-----------------------------------------------------------------------------
(* Before the buckets: the splitters are drawn, once. *)
LEMMA EarlyShapes ==
  ASSUME Control, Arrays, ArrayTypes, Distribution, Sorting, Early, [Next]_vars, EarlyStep
  PROVE  Shapes'
<1> USE DEF Control
<1>0. /\ Bkt' = Bkt /\ Index' = Index /\ Part' = Part /\ Str' = Str /\ input' = input
      /\ input \in Inputs /\ told = 0
  BY Constant DEF Places, Bkt, BktNum, Str, Distribution
<1>1. UNCHANGED <<lcp, chars, section>>
  BY <1>0, EarlyFrame
<1>2. ArrType'
  <2>1. CASE arr' = arr
    BY <1>0, <2>1 DEF Sorting, Shapes, ArrType
  <2>2. ASSUME NEW p \in Part, MoveString(p) PROVE ArrType'
    <3>1. PICK i \in Index :
            /\ Slot(i) \in Index
            /\ arr' = [arr EXCEPT ![shadow][Slot(i)] = i + 1, ![active][i] = Moved]
      BY <2>2, MoveLeads
    <3>2. i + 1 \in Str /\ ArrType
      BY <1>0, KeysOfStrings DEF Sorting, Shapes
    <3>3. active # shadow /\ active \in BOOLEAN /\ shadow \in BOOLEAN
      BY <1>0, Sides
    <3>4. arr' \in [BOOLEAN -> [Index -> Str \union {Moved}]]
      <4> DEFINE m == i + 1
                 x == Slot(i)
                 T == Str \union {Moved}
      <4>1. m \in T /\ Moved \in T /\ x \in Index /\ arr \in [BOOLEAN -> [Index -> T]]
        BY <3>1, <3>2 DEF ArrType
      <4>2. arr' = [arr EXCEPT ![shadow][x] = m, ![active][i] = Moved]
        BY <3>1
      <4> HIDE DEF m, x, T
      <4>3. CASE active = TRUE
        <5>1. shadow = FALSE
          BY <3>3, <4>3, Zenon
        <5>2. arr' = [arr EXCEPT ![FALSE][x] = m, ![TRUE][i] = Moved]
          BY <4>2, <4>3, <5>1, Zenon
        <5> QED BY <4>1, <5>2 DEF T
      <4>4. CASE active = FALSE
        <5>1. shadow = TRUE
          BY <3>3, <4>4, Zenon
        <5>2. arr' = [arr EXCEPT ![TRUE][x] = m, ![FALSE][i] = Moved]
          BY <4>2, <4>4, <5>1, Zenon
        <5> QED BY <4>1, <5>2 DEF T
      <4> QED BY <3>3, <4>3, <4>4, Zenon
    <3> QED BY <1>0, <3>4 DEF ArrType
  <2>3. \A p \in Part : Count(p) \/ CountFinished(p) \/ Distribute(p) \/ FreePart(p) => arr' = arr
    BY DEF Count, CountFinished, Distribute, FreePart, data
  <2>4. Sample \/ QuietMove => arr' = arr
    BY DEF Sample, QuietMove, data
  <2> QED BY <2>1, <2>2, <2>3, <2>4 DEF EarlyStep
<1>3. pc'[SampleJob] # "queued" => Drawn'
  <2>1. CASE Sample
    <3>1. PICK s \in [0 .. NumSplitters - 1 -> {KeyOf(t) : t \in Str}] :
            (\A i, k \in DOMAIN s : i < k => s[i] <= s[k]) /\ splitter' = s
      BY <2>1 DEF Sample
    <3>2. \A t \in Str : KeyOf(t) \in Keys
      BY <1>0, KeysOfStrings
    <3>3. splitter' \in [0 .. NumSplitters - 1 -> Keys]
      BY <3>1, <3>2
    <3>4. \A i, k \in 0 .. NumSplitters - 1 : i < k => splitter'[i] <= splitter'[k]
      BY <3>1
    <3> QED BY <1>0, <3>3, <3>4 DEF Drawn
  <2>2. CASE pc[SampleJob] # "queued" /\ ~Sample
    <3>1. splitter' = splitter
      BY <2>2 DEF EarlyStep, Count, CountFinished, Distribute, MoveString, FreePart, QuietMove
    <3>2. Drawn
      BY <2>2 DEF Sorting, Shapes
    <3> QED BY <3>1, <3>2, SpansSettled
  <2>3. CASE pc[SampleJob] = "queued" /\ ~Sample
    <3>1. /\ \A p \in Part : pc[CountJob(p)] = "none" /\ pc[DistributeJob(p)] = "none"
          /\ ~Summed
      BY <2>3 DEF Spawning, CountsSpawned, Phases, Summed
    <3>2. \A p \in Part : /\ ~Count(p) /\ ~CountFinished(p) /\ ~Distribute(p) /\ ~MoveString(p)
                          /\ ~FreePart(p)
      BY <3>1 DEF Count, CountFinished, Distribute, MoveString, FreePart, At
    <3>3. QuietMove
      BY <2>3, <3>2 DEF EarlyStep
    <3>4. pc' = pc
      BY <2>3, <3>1, <3>3 DEF QuietMove, Spawns, SpawnOver, SignsOff, Goes
    <3> QED BY <2>3, <3>4
  <2> QED BY <2>1, <2>2, <2>3
<1> QED BY <1>0, <1>1, <1>2, <1>3 DEF Sorting, Shapes, LcpType, CharsType, SampleJob

(* When the first part is moved, its counters are at the beginnings of the *)
(* buckets.                                                                *)
LEMMA FirstPartMoved ==
  ASSUME Control, Arrays, ArrayTypes, Distribution, Early, FreePart(0)
  PROVE  bkt' = bkt /\ \A b \in Bkt : bkt[0][b] = Start(b)
<1> USE DEF Control
<1>0. 0 \in Part /\ input \in Inputs
  BY Ranges DEF Places
<1>1. /\ pc[DistributeJob(0)] = "move" /\ cur[DistributeJob(0)] \notin PartIndex(0) /\ bkt' = bkt
  BY DEF FreePart, At
<1>2. Summed
  BY <1>0, <1>1 DEF Summed
<1>3. \A b \in Bkt : bkt[0][b] = Cardinality(Below(b, 0, cur[DistributeJob(0)]))
  BY <1>0, <1>1, <1>2 DEF Distribution, SummedRight, From
<1> DEFINE m == cur[DistributeJob(0)]
<1>4. m \in Nat
  BY <1>0, Jobs DEF Places
<1>5. /\ PartIndex(0) = {i \in Index : PartOf(i) = 0}
      /\ \A i \in Index : i \in Nat /\ PartOf(i) \in Nat
  <2>1. \A i \in Index : PartOf(i) \in Part /\ i \in Nat
    BY <1>0, PartIndices, KeysOfStrings
  <2> QED BY <1>0, <2>1, PartIndices, Ranges
<1>6. /\ PartSize \in Nat \ {0} /\ NumStrings \in Nat \ {0}
      /\ PartIndex(0) = 0 * PartSize .. Min({(0 + 1) * PartSize, NumStrings}) - 1
  BY <1>0, Sizes DEF PartIndex
<1>7. ASSUME NEW k \in Index, PartOf(k) = 0, k >= m PROVE FALSE
  <2>1. k \in PartIndex(0)
    BY <1>5, <1>7
  <2> DEFINE hi == Min({(0 + 1) * PartSize, NumStrings})
  <2>2. hi \in Int
    <3> DEFINE n == (0 + 1) * PartSize
    <3>1. n \in Int /\ NumStrings \in Int
      BY <1>6
    <3> HIDE DEF n
    <3>2. Min({n, NumStrings}) \in {n, NumStrings}
      BY <3>1, MinOfTwo
    <3>3. Min({n, NumStrings}) \in Int
      BY <3>1, <3>2
    <3> QED BY <3>3 DEF n
  <2>3. PartIndex(0) = 0 .. hi - 1
    BY <1>6
  <2> HIDE DEF hi
  <2>4. m \in PartIndex(0)
    BY <1>4, <1>7, <2>1, <2>2, <2>3
  <2> QED BY <1>1, <2>4
<1> HIDE DEF m
<1>8. ASSUME NEW b \in Bkt PROVE Below(b, 0, m) = {k \in Index : Id(k) < b}
  BY <1>5, <1>7 DEF Below
<1> QED BY <1>1, <1>3, <1>8 DEF Start, m

LEMMA EarlyStarts ==
  ASSUME Control, Arrays, ArrayTypes, Distribution, Sorting, Early, [Next]_vars, Early', EarlyStep
  PROVE  Starts'
<1> USE DEF Control
<1>0. Bkt' = Bkt /\ Part' = Part /\ 0 \in Part /\ input \in Inputs
  BY Constant, Ranges DEF Places, Bkt, BktNum
<1>1. ASSUME pc'[DistributeJob(0)] \in {"none", "queued", "move"} PROVE Starts'
  BY <1>1 DEF Starts, DistributeJob
<1>2. ASSUME pc[DistributeJob(0)] \notin {"none", "queued", "move"},
             bkt'[0] = bkt[0], splitter' = splitter
      PROVE  Starts'
  <2>1. \A b : Start(b)' = Start(b)
    BY <1>2, SpansSettled
  <2> QED BY <1>0, <1>2, <2>1 DEF Sorting, Starts
<1>3. CASE Sample
  <2>1. Sampled /\ pc[SampleJob] = "queued"
    BY <1>3, ActionControl DEF Sample, At
  <2>2. pc[DistributeJob(0)] = "none"
    BY <1>0, <2>1 DEF Phases, Summed
  <2> QED BY <1>0, <1>1, <2>1, <2>2, SampleFrame
<1>4. ASSUME NEW p \in Part, Count(p) \/ CountFinished(p) PROVE Starts'
  <2>1. CountStep(p) /\ ~Spawns(CountJob(p))
    BY <1>4, ActionControl DEF CountStep, Count, CountFinished, At, Spawns
  <2>2. pc[CountJob(p)] \in {"queued", "prefix"}
    BY <1>4 DEF Count, CountFinished, At
  <2>3. ~Summed
    BY <2>2 DEF Phases, Counting
  <2>4. pc[DistributeJob(0)] = "none"
    BY <1>0, <2>3 DEF Summed
  <2> QED BY <1>0, <1>1, <2>1, <2>4, CountFrame
<1>5. ASSUME NEW p \in Part, Distribute(p) \/ MoveString(p) \/ FreePart(p) PROVE Starts'
  <2>1. DistributeStep(p) /\ splitter' = splitter
    BY <1>5, MovesAreDistributing DEF DistributeStep, Distribute, MoveString, FreePart
  <2>2. CASE p # 0
    <3>1. bkt'[0] = bkt[0]
      <4>1. Distribute(p) => bkt' = bkt
        BY DEF Distribute, heap
      <4>2. MoveString(p) => bkt'[0] = bkt[0]
        BY <1>0, <2>2, MoveArrays DEF ArrayTypes
      <4>3. FreePart(p) => bkt'[0] = bkt[0]
        BY <1>0, <2>2, FreeArrays DEF ArrayTypes
      <4> QED BY <1>5, <4>1, <4>2, <4>3
    <3>2. pc'[DistributeJob(0)] = pc[DistributeJob(0)]
      BY <1>0, <2>1, <2>2, DistributeFrame
    <3> QED BY <1>1, <1>2, <2>1, <3>1, <3>2
  <2>3. CASE p = 0 /\ ~FreePart(p)
    <3>1. pc'[DistributeJob(p)] = "move"
      BY <1>5, <2>3, Jobs DEF Distribute, MoveString, At, Set, Places
    <3> QED BY <1>1, <2>3, <3>1
  <2>4. CASE p = 0 /\ FreePart(p)
    <3>1. bkt' = bkt /\ \A b \in Bkt : bkt[0][b] = Start(b)
      BY <2>4, FirstPartMoved
    <3>2. \A b : Start(b)' = Start(b)
      BY <2>1, SpansSettled
    <3> QED BY <1>0, <3>1, <3>2 DEF Starts
  <2> QED BY <2>2, <2>3, <2>4
<1>6. CASE QuietMove
  <2>1. bkt' = bkt /\ splitter' = splitter
    BY <1>6 DEF QuietMove
  <2>2. /\ pc'[DistributeJob(0)] \in {"none", "queued"} <=> pc[DistributeJob(0)] \in {"none", "queued"}
        /\ pc'[DistributeJob(0)] = "move" <=> pc[DistributeJob(0)] = "move"
    BY <1>0, <1>6, QuietUnmoved DEF Unmoved
  <2> QED BY <1>1, <1>2, <2>1, <2>2
<1> QED BY <1>3, <1>4, <1>5, <1>6 DEF EarlyStep

LEMMA EarlyKeeps ==
  ASSUME Control, Arrays, ArrayTypes, Distribution, Sorting, [Next]_vars, Early'
  PROVE  Sorting'
<1>1. Early /\ told = 0 /\ EarlyStep
  BY EarlyNext DEF Distribution
<1>2. UNCHANGED <<lcp, chars, section, result, alive, told>>
  BY <1>1, EarlyFrame
<1>3. Shapes' /\ Starts'
  BY <1>1, EarlyShapes, EarlyStarts
<1>4. Buckets'
  BY DEF Buckets
<1>5. Ending' /\ SortedWhenTold'
  BY <1>1, <1>2, EndingKept DEF Sorting
<1>6. Control'
  BY StepControl
<1>7. Sections'
  <2>1. ASSUME NEW p \in Part', (pc[DistributeJob(p)] = "enqueue")' PROVE FALSE
    <3>1. p \in Recursing'
      BY <2>1 DEF Recursing, LastPlaces
    <3>2. Moving' = {} /\ \A q \in Part' : q # p => (pc[DistributeJob(q)] = "done")'
      BY <1>6, <3>1 DEF Control, LastAlone
    <3>3. \A q \in Part' : (pc[DistributeJob(q)] # "recurse")'
      BY <2>1, <3>2
    <3> QED BY <3>2, <3>3 DEF Early
  <2>2. \A b \in Bkt' : (pc[Substep(b)] = "none")'
    BY <1>6 DEF Control, EarlyQuiet
  <2> QED BY <2>1, <2>2 DEF Sections
<1> QED BY <1>3, <1>4, <1>5, <1>7 DEF Sorting

(* When all parts are moved, every bucket waits with its strings in place. *)
LEMMA FinishKeeps ==
  ASSUME Control, Arrays, ArrayTypes, Distribution, Sorting, [Next]_vars, Early, ~Early'
  PROVE  Sorting'
<1> USE DEF Control
<1>1. told = 0
  BY DEF Distribution
<1>2. PICK p \in Part : DistributeFinished(p)
  BY <1>1, Finishing
<1>3. /\ pc[DistributeJob(p)] = "recurse" /\ pc'[DistributeJob(p)] = "bucket" /\ p \in Recursing
      /\ bkt' = [bkt EXCEPT ![0] = [bkt[0] EXCEPT ![BktNum] = NumStrings]]
      /\ bkt[0] # Null /\ bkt[0] \in [BktDomain(0) -> Int] /\ DistributeStep(p)
      /\ UNCHANGED <<arr, splitter>>
  BY <1>2, FinishedArrays, RecursingArrays DEF DistributeFinished, data
<1>4. UNCHANGED <<lcp, chars, section, result, alive, told>>
  BY <1>1, EarlyFrame
<1>5. /\ Bkt' = Bkt /\ Index' = Index /\ Part' = Part /\ Str' = Str /\ Drawn' = Drawn
      /\ shadow' = shadow
      /\ \A b : /\ Span(b)' = Span(b) /\ Strs(b)' = Strs(b) /\ Start(b)' = Start(b)
  BY <1>3, Constant, SpansSettled
<1>6. Moving = {} /\ 0 \in Part /\ input \in Inputs
  BY <1>3, Ranges DEF LastAlone, Places
<1>7. Summed /\ pc[SampleJob] # "queued"
  BY <1>6 DEF Summed, Moving, Phases
<1>8. Drawn
  BY <1>7 DEF Sorting, Shapes
<1>9. \A i \in Index : HasMoved(i) /\ arr[shadow][Slot(i)] = i + 1
  <2>1. \A i \in Index : HasMoved(i)
    BY <1>6, PartIndices DEF HasMoved, Moving
  <2> QED BY <2>1 DEF Distribution, Strings
<1>10. ASSUME NEW b \in Bkt PROVE {arr[shadow][x] : x \in Span(b)} = Strs(b)
  <2>1. ASSUME NEW x \in Span(b) PROVE arr[shadow][x] \in Strs(b)
    <3>1. x \in Index
      BY <1>8, Spans
    <3>2. PICK i \in Index : Slot(i) = x
      BY <1>8, <3>1, SlotsFill
    <3>3. Id(i) \in Bkt /\ x \in Span(Id(i))
      BY <1>8, <3>2, SlotInSpan
    <3>4. Id(i) = b
      BY <1>8, <3>3, Spans
    <3> QED BY <1>8, <1>9, <3>2, <3>4, StrsCover
  <2>2. ASSUME NEW s \in Strs(b) PROVE \E x \in Span(b) : arr[shadow][x] = s
    <3>1. s \in Str /\ s - 1 \in Index /\ Id(s - 1) = b
      BY <1>8, StrsCover
    <3>2. (s - 1) + 1 = s
      BY <1>6, <3>1, KeysOfStrings
    <3>3. Slot(s - 1) \in Span(b)
      BY <1>8, <3>1, SlotInSpan
    <3> QED BY <1>9, <3>1, <3>2, <3>3
  <2> QED BY <2>1, <2>2
<1>11. ASSUME NEW b \in Bkt PROVE Waiting(b)'
  <2>1. cur'[DistributeJob(p)] = 0
    BY <1>2, Jobs DEF DistributeFinished, Places
  <2>2. 0 <= b
    BY <1>6, Ranges
  <2> QED BY <1>3, <1>5, <2>1, <2>2 DEF Waiting, DistributeJob
<1>12. Buckets'
  <2>1. ASSUME NEW b \in Bkt PROVE Settled(b)'
    BY <1>3, <1>5, <1>10, <1>11 DEF Settled
  <2> QED BY <1>5, <2>1 DEF Buckets
<1>13. Shapes'
  BY <1>3, <1>4, <1>5, <1>8 DEF Sorting, Shapes, ArrType, LcpType, CharsType
<1>14. Starts'
  <2>1. pc[DistributeJob(0)] \notin {"none", "queued", "move"}
    BY <1>6 DEF Moving
  <2>2. \A b \in Bkt : bkt[0][b] = Start(b)
    <3>1. \A b \in Bkt : b \in 0 .. BktNum
      BY <1>6, Sizes DEF Bkt
    <3> QED BY <1>3, <2>1, <3>1 DEF Sorting, Starts
  <2>3. bkt'[0] = [bkt[0] EXCEPT ![BktNum] = NumStrings] /\ DOMAIN bkt[0] = 0 .. BktNum
    BY <1>3, <1>6 DEF ArrayTypes, BktDomain
  <2>4. Start(BktNum) = NumStrings /\ BktNum \in Nat
    BY <1>6, <1>8, Sizes, StartFacts
  <2>5. \A b \in 0 .. BktNum : bkt'[0][b] = Start(b)
    <3> SUFFICES ASSUME NEW b \in 0 .. BktNum PROVE bkt'[0][b] = Start(b)
      OBVIOUS
    <3>1. CASE b = BktNum
      BY <2>3, <2>4, <3>1
    <3>2. CASE b # BktNum
      <4>1. b \in Bkt
        BY <2>4, <3>2 DEF Bkt
      <4> QED BY <2>2, <2>3, <3>2, <4>1
    <3> QED BY <3>1, <3>2
  <2> QED BY <1>5, <2>5 DEF Starts
<1>15. Sections'
  <2>1. \A q \in Part : q # p => pc[DistributeJob(q)] = "done"
    BY <1>3 DEF LastAlone
  <2>2. \A q \in Part : pc'[DistributeJob(q)] # "enqueue"
    BY <1>3, <2>1, DistributeFrame
  <2>3. \A b \in Bkt : pc'[Substep(b)] = "none"
    <3>1. \A b \in Bkt : pc[Substep(b)] = "none"
      BY DEF EarlyQuiet
    <3> QED BY <1>2, <3>1, Jobs, JobsDiffer DEF DistributeFinished, Set, Places
  <2> QED BY <1>5, <2>2, <2>3 DEF Sections, Substep, DistributeJob
<1>16. Ending' /\ SortedWhenTold'
  BY <1>1, <1>4, EndingKept DEF Sorting
<1> QED BY <1>12, <1>13, <1>14, <1>15, <1>16 DEF Sorting

-----------------------------------------------------------------------------
(* The invariant and what follows from it. *)
LEMMA InitSorting == Init => Sorting
<1> SUFFICES ASSUME Init PROVE Sorting
  OBVIOUS
<1>1. Control
  BY InitControl
<1>2. /\ input \in Inputs /\ told = 0 /\ alive = TRUE /\ result = Null
      /\ arr = [side \in BOOLEAN |->
                  [i \in Index |-> IF side = active THEN i + 1 ELSE Moved]]
      /\ lcp = [i \in Index |-> Untouched] /\ chars = [i \in Index |-> Untouched]
      /\ section = [b \in Bkt |-> {}]
  BY DEF Init
<1>3. /\ \A p \in Part : pc[DistributeJob(p)] = "none"
      /\ \A b \in Bkt : pc[Substep(b)] = "none"
      /\ pc[SampleJob] = "queued"
  BY Jobs, JobsDiffer DEF Init
<1>4. 0 \in Part /\ 0 \in Index
  BY <1>2, Ranges, Sizes DEF Index
<1>5. Early
  BY <1>3, <1>4 DEF Early, Moving
<1>6. ArrType
  <2>1. \A i \in Index : i + 1 \in Str
    BY <1>2, KeysOfStrings
  <2> QED BY <1>2, <2>1 DEF ArrType
<1>7. Shapes
  BY <1>2, <1>3, <1>6 DEF Shapes, LcpType, CharsType
<1>8. Starts
  BY <1>3, <1>4 DEF Starts
<1>9. Buckets
  BY <1>5 DEF Buckets
<1>10. Sections
  BY <1>3 DEF Sections
<1>11. Ending /\ SortedWhenTold
  BY <1>2, <1>4 DEF Ending, SortedWhenTold
<1> QED BY <1>7, <1>8, <1>9, <1>10, <1>11 DEF Sorting

LEMMA SortingStep ==
  Control /\ Arrays /\ ArrayTypes /\ Distribution /\ Sorting /\ [Next]_vars => Sorting'
<1> SUFFICES ASSUME Control, Arrays, ArrayTypes, Distribution, Sorting, [Next]_vars
             PROVE  Sorting'
  OBVIOUS
<1>1. CASE Early'
  BY <1>1, EarlyKeeps
<1>2. CASE Early /\ ~Early'
  BY <1>2, FinishKeeps
<1>3. CASE ~Early
  <2>1. /\ ~Early'
        /\ \/ LateQuiet
           \/ \E p \in Part : LET j == DistributeJob(p)
                              IN  \/ SkipBucket(j) \/ CopyBackBucket(j)
                                  \/ AddSubstep(j) \/ EnqueueSubstep(j)
           \/ \E b \in Bkt : SubstepSorts(b)
           \/ \E j \in Job : AllDone(j)
           \/ Return
    BY <1>3, LateNext
  <2> QED BY <1>3, <2>1, LateQuietKeeps, SkipKeeps, CopyBackKeeps, AddKeeps, EnqueueKeeps,
             SortsKeep, DoneKeeps, ReturnKeeps
<1> QED BY <1>1, <1>2, <1>3

LEMMA SortingInvariant == Spec => [](Control /\ Sorting)
<1>1. Init => Sorting
  BY InitSorting
<1>2. Control /\ Arrays /\ ArrayTypes /\ Distribution /\ Sorting /\ [Next]_vars => Sorting'
  BY SortingStep
<1> QED BY <1>1, <1>2, DistributionInvariant, PTL DEF Spec

(* When the parent step is notified, the output array holds every string   *)
(* once and in order, and the LCPs and the characters behind them are the  *)
(* right ones, whatever the parts, the buckets and the order of the jobs.  *)
THEOREM SortedCorrect == Spec => []SortedWhenTold
<1>1. Control /\ Sorting => SortedWhenTold
  BY DEF Sorting
<1> QED BY <1>1, SortingInvariant, PTL

(* A substep is started at a depth that all its strings share, and within  *)
(* which none of them ends.                                                *)
THEOREM SubstepDepthCorrect == Spec => []SubstepDepthSound
<1>1. Control /\ Sorting => SubstepDepthSound
  <2> SUFFICES ASSUME Control, Sorting, NEW b \in Bkt, pc[Substep(b)] = "queued",
                      NEW i \in section[b], NEW k \in section[b]
               PROVE  LET s == KeyOf(arr[shadow][i])
                          t == KeyOf(arr[shadow][k])
                      IN  KeyLcp(s, t) >= SubstepDepth(b)
                          /\ (SubstepDepth(b) = KeyWidth => ~Terminated(s))
    BY DEF SubstepDepthSound, At
  <2>1. /\ Drawn /\ Unsettled(b) /\ section[b] = Span(b)
        /\ {arr[shadow][x] : x \in Span(b)} = Strs(b)
    BY AtSubstep
  <2>2. arr[shadow][i] \in Strs(b) /\ arr[shadow][k] \in Strs(b) /\ ~EqualAndDone(b)
    BY <2>1 DEF Unsettled
  <2> QED BY <2>1, <2>2, DepthOfBucket
<1> QED BY <1>1, SortingInvariant, PTL

-----------------------------------------------------------------------------
(* What the type invariant says beyond the other invariants. *)
Types ==
  /\ \A p \in Part : bkt[p] = Null \/ bkt[p] \in [BktDomain(p) -> 0 .. NumStrings]
  /\ pc[SampleJob] = "queued" => pwork = 0 /\ splitter = Null
  /\ alive \in BOOLEAN /\ result \in BOOLEAN \union {Null}

(* No counter exceeds the number of strings. *)
LEMMA CountersStep ==
  ASSUME Control, Arrays, ArrayTypes, Distribution, [Next]_vars,
         \A p \in Part : bkt[p] = Null \/ bkt[p] \in [BktDomain(p) -> 0 .. NumStrings]
  PROVE  \A p \in Part : bkt'[p] = Null \/ bkt'[p] \in [BktDomain(p) -> 0 .. NumStrings]
<1> USE DEF Control
<1>0. /\ input \in Inputs /\ 0 \in Part /\ NumStrings \in Nat /\ DOMAIN bkt = Part
      /\ IsFiniteSet(Index) /\ Cardinality(Index) = NumStrings
  BY Ranges, Sizes, KeysOfStrings DEF Places, ArrayTypes
<1>1. \A S \in SUBSET Index : Cardinality(S) \in 0 .. NumStrings
  <2> SUFFICES ASSUME NEW S \in SUBSET Index PROVE Cardinality(S) \in 0 .. NumStrings
    OBVIOUS
  <2>1. IsFiniteSet(S) /\ Cardinality(S) <= Cardinality(Index)
    BY <1>0, FS_Subset
  <2> QED BY <1>0, <2>1, FS_CardinalityType
<1>2. ASSUME NEW p \in Part, Count(p)
      PROVE  \A q \in Part : bkt'[q] = Null \/ bkt'[q] \in [BktDomain(q) -> 0 .. NumStrings]
  <2> DEFINE ids == [i \in PartIndex(p) |-> Bucket(KeyOf(arr[active][i]))]
             num == [b \in BktDomain(p) |-> Cardinality({i \in PartIndex(p) : ids[i] = b})]
  <2>1. bkt' = [bkt EXCEPT ![p] = num]
    BY <1>2, CountArrays
  <2>2. PartIndex(p) \subseteq Index
    BY <1>0, ArraysNotNull
  <2>3. \A b : {i \in PartIndex(p) : ids[i] = b} \in SUBSET Index
    BY <2>2
  <2>4. num \in [BktDomain(p) -> 0 .. NumStrings]
    <3> HIDE DEF ids
    <3> QED BY <1>1, <2>3
  <2> HIDE DEF num
  <2> QED BY <1>0, <2>1, <2>4
<1>3. ASSUME NEW p \in Part, CountFinished(p)
      PROVE  \A q \in Part : bkt'[q] = Null \/ bkt'[q] \in [BktDomain(q) -> 0 .. NumStrings]
  <2>1. /\ \A q \in Part : /\ bkt[q] \in [BktDomain(q) -> Int]
                           /\ \A b \in Bkt : bkt'[q][b] = PrefixSum(b, q)
        /\ Counting = {} /\ Moving = Part
    BY <1>3, CountFinishedArrays
  <2>2. pc[CountJob(p)] = "prefix"
    BY <1>3 DEF CountFinished, At
  <2>3. ~Summed /\ Early /\ pc[SampleJob] # "queued"
    BY <1>0, <2>1, <2>2 DEF Phases, Early, Spawning, CountsSpawned
  <2>4. \A q \in Part : \A b \in Bkt : bkt[q][b] = Cardinality({i \in PartIndex(q) : Id(i) = b})
    BY <2>1, <2>3 DEF Distribution, CountedRight, Counting
  <2>5. ASSUME NEW q \in Part, NEW b \in Bkt PROVE PrefixSum(b, q) \in 0 .. NumStrings
    <3>1. DOMAIN splitter = 0 .. NumSplitters - 1
      BY <2>3 DEF ArrayTypes
    <3>2. PrefixSum(b, q) = Cardinality(Below(b, q, q * PartSize))
      BY <1>0, <2>4, <3>1, PrefixSumCounts
    <3>3. Below(b, q, q * PartSize) \in SUBSET Index
      BY DEF Below
    <3> QED BY <1>1, <3>2, <3>3
  <2>6. ASSUME NEW q \in Part PROVE bkt'[q] \in [BktDomain(q) -> 0 .. NumStrings]
    <3>1. bkt[q] \in [BktDomain(q) -> 0 .. NumStrings]
      <4>1. bkt[q] # Null
        BY <1>0, <2>1, ArraysNotNull
      <4> QED BY <4>1
    <3>2. bkt'[q] = [b \in DOMAIN bkt[q] |-> IF b \in Bkt THEN PrefixSum(b, q) ELSE bkt[q][b]]
      BY <1>3 DEF CountFinished
    <3> QED BY <2>5, <3>1, <3>2
  <2> QED BY <2>6
<1>4. ASSUME NEW p \in Part, MoveString(p)
      PROVE  \A q \in Part : bkt'[q] = Null \/ bkt'[q] \in [BktDomain(q) -> 0 .. NumStrings]
  <2>1. pc[DistributeJob(p)] = "move"
    BY <1>4 DEF MoveString, At
  <2>2. Early /\ bkt[p] # Null
    BY <2>1, MovingArrays DEF Early
  <2>3. PICK i \in Index : /\ Slot(i) \in Index /\ Id(i) \in Bkt
                           /\ bkt' = [bkt EXCEPT ![p] = [bkt[p] EXCEPT ![Id(i)] = Slot(i)]]
    BY <1>4, <2>2, MoveLeads
  <2>4. Slot(i) \in 0 .. NumStrings
    BY <1>0, <2>3 DEF Index
  <2>5. [bkt[p] EXCEPT ![Id(i)] = Slot(i)] \in [BktDomain(p) -> 0 .. NumStrings]
    BY <2>2, <2>4
  <2> QED BY <1>0, <2>3, <2>5
<1>5. ASSUME NEW p \in Part, FreePart(p)
      PROVE  \A q \in Part : bkt'[q] = Null \/ bkt'[q] \in [BktDomain(q) -> 0 .. NumStrings]
  <2>1. bkt' = IF p # 0 THEN [bkt EXCEPT ![p] = Null] ELSE bkt
    BY <1>5, FreeArrays
  <2> QED BY <1>0, <2>1
<1>6. ASSUME NEW p \in Part, DistributeFinished(p)
      PROVE  \A q \in Part : bkt'[q] = Null \/ bkt'[q] \in [BktDomain(q) -> 0 .. NumStrings]
  <2>1. /\ bkt' = [bkt EXCEPT ![0] = [bkt[0] EXCEPT ![BktNum] = NumStrings]] /\ bkt[0] # Null
    BY <1>6, FinishedArrays
  <2>2. NumStrings \in 0 .. NumStrings
    BY <1>0
  <2>3. [bkt[0] EXCEPT ![BktNum] = NumStrings] \in [BktDomain(0) -> 0 .. NumStrings]
    BY <1>0, <2>1, <2>2
  <2> QED BY <1>0, <2>1, <2>3
<1>7. ASSUME NEW p \in Part, FreeBkt(DistributeJob(p))
      PROVE  \A q \in Part : bkt'[q] = Null \/ bkt'[q] \in [BktDomain(q) -> 0 .. NumStrings]
  <2>1. bkt' = [bkt EXCEPT ![0] = Null]
    BY <1>7 DEF FreeBkt
  <2> QED BY <1>0, <2>1
<1>8. ASSUME NEW j \in Job, AllDone(j)
      PROVE  \A q \in Part : bkt'[q] = Null \/ bkt'[q] \in [BktDomain(q) -> 0 .. NumStrings]
  <2>1. bkt' = IF CalcLcp THEN [bkt EXCEPT ![0] = Null] ELSE bkt
    BY <1>8 DEF AllDone
  <2> QED BY <1>0, <2>1
<1> QED BY <1>2, <1>3, <1>4, <1>5, <1>6, <1>7, <1>8, ArrayActions DEF ArrayStep

(* Before the splitters are drawn nothing happens. *)
LEMMA NothingYet ==
  ASSUME Control, [Next]_vars, pc'[SampleJob] = "queued"
  PROVE  pc[SampleJob] = "queued" /\ pwork' = pwork /\ splitter' = splitter
<1> USE DEF Control
<1>0. 0 \in Part
  BY Ranges DEF Places
<1>1. ~Sampled /\ ~Sample
  BY Jobs, ActionControl DEF Sampled, Goes, Places
<1>2. ~Spawns(SampleJob) /\ ~SpawnOver(SampleJob)
  <2>1. ASSUME Spawns(SampleJob) PROVE FALSE
    <3>1. cur[SampleJob] \in Part /\ pc[SampleJob] = "spawn"
      BY <2>1, Jobs, SpawnsNext DEF Spawns
    <3>2. pc' = [pc EXCEPT ![CountJob(cur[SampleJob])] = "queued"]
      BY <2>1, <3>1, SpawnedJobs DEF Spawns
    <3> QED BY <3>1, <3>2, Jobs, JobsDiffer
  <2>2. ~SpawnOver(SampleJob)
    BY Jobs DEF SpawnOver, Goes, Places
  <2> QED BY <2>1, <2>2
<1>3. pc[SampleJob] = "queued"
  BY <1>1, <1>2, NextControl, CountFrame, DistributeFrame, SubstepFrame DEF ControlStep
<1>4. /\ \A p \in Part : pc[CountJob(p)] = "none" /\ pc[DistributeJob(p)] = "none"
      /\ \A b \in Bkt : pc[Substep(b)] = "none"
  <2>1. \A p \in Part : pc[CountJob(p)] = "none" /\ pc[DistributeJob(p)] = "none"
    BY <1>3 DEF Spawning, CountsSpawned, Phases, Summed
  <2>2. Early
    BY <1>0, <2>1 DEF Early, Moving
  <2> QED BY <2>1, <2>2 DEF EarlyQuiet
<1>5. \A p \in Part : ~CountStep(p) /\ ~DistributeStep(p)
  BY <1>4, DistributeFrame DEF CountStep, Spawns, SpawnOver, Counted, SignsOff, Summing, Goes
<1>6. \A b \in Bkt : ~SubstepStep(b)
  BY <1>4, SubstepFrame
<1>7. pwork' = pwork
  BY <1>1, <1>2, <1>5, <1>6, NextControl DEF ControlStep
<1>8. splitter' = splitter
  <2>1. \A j \in Job : StepOf(j) => splitter' = splitter
    BY <1>1, StepKeeps
  <2> QED BY <2>1 DEF Next, Return, vars
<1> QED BY <1>3, <1>7, <1>8

LEMMA TypesStep ==
  Control /\ Arrays /\ ArrayTypes /\ Distribution /\ Types /\ [Next]_vars => Types'
<1> SUFFICES ASSUME Control, Arrays, ArrayTypes, Distribution, Types, [Next]_vars PROVE Types'
  OBVIOUS
<1>0. Part' = Part /\ NumStrings' = NumStrings /\ input \in Inputs
  BY Constant DEF Control, Places
<1>1. \A p \in Part : bkt'[p] = Null \/ bkt'[p] \in [BktDomain(p) -> 0 .. NumStrings]
  BY CountersStep DEF Types
<1>2. pc'[SampleJob] = "queued" => pwork' = 0 /\ splitter' = Null
  BY NothingYet DEF Types
<1>3. alive' = alive \/ alive' = FALSE
  BY NextControl DEF Control, ControlStep, Sampled, Spawns, SpawnOver, CountStep, Counted, SignsOff,
     Summing, DistributeStep, Distributing, Recurses, PassesBucket, Announces, Enqueues,
     BucketsOver, Notifies, Deletes, Frees, SubstepStep, Sorts
<1>4. alive' \in BOOLEAN
  <2>1. alive \in BOOLEAN
    BY DEF Types
  <2> QED BY <1>3, <2>1
<1>5. result' \in BOOLEAN \union {Null}
  <2>1. \A j \in Job : StepOf(j) => result' = result
    BY StepKeeps
  <2>2. CASE Return
    <3>1. output \in BOOLEAN
      BY <1>0, Outputs
    <3>2. result' = output \/ result' = FALSE
      BY <2>2 DEF Return
    <3> QED BY <3>1, <3>2
  <2>3. result \in BOOLEAN \union {Null}
    BY DEF Types
  <2>4. result' = result \/ Return
    BY <2>1 DEF Next, vars, life
  <2> QED BY <2>2, <2>3, <2>4
<1> QED BY <1>0, <1>1, <1>2, <1>4, <1>5 DEF Types, BktDomain, SampleJob

LEMMA InitTypes == Init => Types
<1> SUFFICES ASSUME Init PROVE Types
  OBVIOUS
<1>1. \A p \in Part : bkt[p] = Null
  BY DEF Init
<1>2. pwork = 0 /\ splitter = Null /\ alive = TRUE /\ result = Null
  BY DEF Init
<1> QED BY <1>1, <1>2 DEF Types

(* No more than one handle, and one more of each substep. *)
LEMMA HandlesBound ==
  ASSUME Control PROVE substeps \in 0 .. BktNum + 1
<1> USE DEF Control
<1>0. input \in Inputs /\ IsFiniteSet(Part) /\ IsFiniteSet(Bkt) /\ BktNum \in Nat
      /\ Cardinality(Bkt) = BktNum
  <2>1. input \in Inputs
    BY DEF Places
  <2>2. BktNum \in Nat \ {0}
    BY <2>1, Sizes
  <2>3. Cardinality(0 .. BktNum - 1) = BktNum
    BY <2>2, FS_Interval
  <2> QED BY <2>1, <2>2, <2>3, Ranges DEF Bkt
<1>1. /\ IsFiniteSet(Running) /\ Cardinality(Running) \in Nat /\ Cardinality(Running) <= BktNum
      /\ Cardinality(Running) = BktNum => Running = Bkt
  <2>1. Running \in SUBSET Bkt
    BY DEF Running
  <2>2. /\ IsFiniteSet(Running) /\ Cardinality(Running) <= Cardinality(Bkt)
        /\ Cardinality(Running) = Cardinality(Bkt) => Running = Bkt
    BY <1>0, <2>1, FS_Subset
  <2> QED BY <1>0, <2>2, FS_CardinalityType
<1>2. CASE Handle = {}
  <2>1. Announced = {}
    BY <1>2 DEF Announced, Handle
  <2> QED BY <1>0, <1>1, <1>2, <2>1, FS_EmptySet DEF HandlesCount
<1>3. CASE Handle # {}
  <2>1. PICK p \in Part : p \in Handle
    BY <1>3 DEF Handle
  <2>2. Handle = {p}
    BY <2>1 DEF Handle, LastAlone, Recursing, LastPlaces
  <2>3. Cardinality(Handle) = 1
    BY <2>2, FS_Singleton
  <2>4. CASE Announced = {}
    BY <1>0, <1>1, <2>3, <2>4, FS_EmptySet DEF HandlesCount
  <2>5. CASE Announced # {}
    <3>1. Announced = {p}
      BY <2>2, <2>5 DEF Announced, Handle
    <3>2. Cardinality(Announced) = 1
      BY <3>1, FS_Singleton
    <3>3. cur[DistributeJob(p)] \in Bkt /\ pc[Substep(cur[DistributeJob(p)])] = "none"
      <4>1. pc[DistributeJob(p)] = "enqueue"
        BY <3>1 DEF Announced
      <4>2. cur[DistributeJob(p)] \in Bkt
        BY <4>1 DEF BucketsAhead
      <4>3. cur[DistributeJob(p)] >= cur[DistributeJob(p)]
        BY <4>2 DEF Bkt
      <4> QED BY <4>1, <4>2, <4>3 DEF BucketsAhead
    <3>4. Running # Bkt
      BY <3>3 DEF Running
    <3> QED BY <1>0, <1>1, <2>3, <3>2, <3>4 DEF HandlesCount
  <2> QED BY <2>4, <2>5
<1> QED BY <1>2, <1>3

(* Every string, counter, array and place is of its kind: the counter of   *)
(* the jobs within the number of parts, m_substep_working within that of   *)
(* the buckets and one, the bucket counters within that of the strings.    *)
THEOREM TypeCorrect == Spec => []TypeOK
<1>1. Control /\ ArrayTypes /\ Sorting /\ Types => TypeOK
  <2> SUFFICES ASSUME Control, ArrayTypes, Sorting, Types PROVE TypeOK
    OBVIOUS
  <2>1. /\ input \in Inputs /\ pc \in [Job -> Location] /\ cur \in [Job -> Nat]
        /\ IsFiniteSet(Part) /\ Cardinality(Part) = Parts /\ Parts \in Nat
    BY Ranges, Sizes DEF Control, Places
  <2>2. /\ arr \in [BOOLEAN -> [Index -> Str \union {Moved}]]
        /\ lcp \in [Index -> {Untouched} \union 0 .. KeyWidth]
        /\ chars \in [Index -> {Untouched} \union 0 .. NumChars]
        /\ section \in [Bkt -> SUBSET Index]
    BY DEF Sorting, Shapes, ArrType, LcpType, CharsType
  <2>3. splitter = Null \/ splitter \in [0 .. NumSplitters - 1 -> Keys]
    BY DEF Types, Sorting, Shapes, Drawn
  <2>4. \A p \in Part : bkt[p] = Null \/
          bkt[p] \in [0 .. (IF p = 0 THEN BktNum ELSE BktNum - 1) -> 0 .. NumStrings]
    BY DEF Types, BktDomain
  <2>5. \A p \in Part : cache[p] = Null \/ cache[p] \in [PartIndex(p) -> Bkt]
    BY DEF ArrayTypes
  <2>6. pwork \in 0 .. Parts
    <3>1. CASE pc[SampleJob] = "queued"
      BY <2>1, <3>1 DEF Types
    <3>2. CASE pc[SampleJob] # "queued"
      <4> DEFINE S == IF Summed THEN Moving ELSE Counting
      <4>1. S \in SUBSET Part /\ pwork = Cardinality(S)
        BY <3>2 DEF Control, PworkCounts, Moving, Counting
      <4> HIDE DEF S
      <4>2. IsFiniteSet(S) /\ Cardinality(S) <= Parts
        BY <2>1, <4>1, FS_Subset
      <4> QED BY <2>1, <4>1, <4>2, FS_CardinalityType
    <3> QED BY <3>1, <3>2
  <2>7. substeps \in 0 .. BktNum + 1
    BY HandlesBound
  <2>8. alive \in BOOLEAN /\ told \in Nat /\ result \in BOOLEAN \union {Null}
    BY DEF Types, Sorting, Ending
  <2> QED BY <2>1, <2>2, <2>3, <2>4, <2>5, <2>6, <2>7, <2>8 DEF TypeOK
<1> QED BY <1>1, DistributionInvariant, SortingInvariant, InitTypes, TypesStep, PTL DEF Spec
=============================================================================
