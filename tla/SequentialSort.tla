--------------------------- MODULE SequentialSort ---------------------------
(***************************************************************************)
(* The sequential sample sorts (sequential/bingmann-sample_sort*.cpp) and  *)
(* the MSD radix sort that they call for small sets                        *)
(* (sequential/bingmann-radix_sort.hpp).                                   *)
(*                                                                         *)
(* A call classifies its strings, moves them to their buckets and calls    *)
(* itself for each bucket.  Four variants of the sample sort differ in     *)
(* control: with a cache of bucket numbers and a tree (sample_sort_generic *)
(* with the tree classifiers, and BSC_original), with one and a binary     *)
(* search (sample_sort_generic with ClassifyBinarySearch, BSC, whose       *)
(* splitters are never marked as done), without a cache (BS, BT), these    *)
(* moving strings in place along cycles, and RBTCE, which hangs trees      *)
(* below the equal buckets of trees, sorts into the buckets of all of them *)
(* out of place and recurses last.                                         *)
(***************************************************************************)
EXTENDS InsertionSorts, TreeShape

CONSTANTS
  Input,          \* records [variant, tail, strings]
  SmallSort,      \* g_samplesort_smallsort
  InsThreshold,   \* g_inssort_threshold
  SampleSize      \* strings that RBTCE draws for its trees

ASSUME SequentialAssumption ==
  /\ SmallSort \in Nat \ {0} /\ InsThreshold \in Nat \ {0, 1}
  /\ SampleSize \in Nat \ {0}

Variants == {"cached", "search", "uncached", "nested"}

VARIABLES
  input,     \* what is sorted: the variant, the strings, and a character
             \* that memory holds behind every terminator
  str,       \* strings[]
  pc,        \* "call", "permute", "build", "classify", "trees",
             \* "buckets", "done"
  call,      \* the call that begins
  stack,     \* the calls whose buckets are being sorted, innermost last
  i,         \* how far the loop over strings has come
  index,     \* bktindex
  cache,     \* bktcache or charcache
  perm,      \* perm and its bucket, while a cycle is followed
  trees,     \* treelist, each tree with its bktcache, by its path
  walk       \* trees that are still to be built, or to permute by

vars == <<input, str, pc, call, stack, i, index, cache, perm, trees, walk>>

NoPerm == [s |-> <<>>, bkt |-> -1]
NoCall == [kind |-> "none"]

Top == Last(stack)

Init ==
  /\ input \in Input
  /\ str = input.strings
  /\ pc = "call"
  /\ call = [kind |-> "sample", lo |-> 1, n |-> Len(str), depth |-> 0]
  /\ stack = <<>>
  /\ i = 0 /\ index = <<>> /\ cache = <<>> /\ perm = NoPerm
  /\ trees = <<>> /\ walk = <<>>

-----------------------------------------------------------------------------
(* get_char<key_type>() *)
Key(s, depth) == BswapKey(s, depth, input.tail)

(* Strings that are too few for a sample are sorted by characters. *)
Radix == call.kind = "radix" \/ call.n < SmallSort

(* The bucket of a string in a call that sorts by splitters or characters. *)
BucketOf(f, s) ==
  IF f.kind = "radix" THEN GetChar(s, f.depth) ELSE BucketIn(f.spl, Key(s, f.depth))

Sizes(bkts, dom) == [b \in dom |-> Cardinality({k \in DOMAIN bkts : bkts[k] = b})]

(* Where a bucket begins, counted from the beginning of the section. *)
Start(size, b) == FoldFunctionOnSet(+, 0, size, {c \in DOMAIN size : c < b})

(* last_bkt_size: of the last bucket that has strings. *)
LastBktSize(f) == f.size[Max({b \in DOMAIN f.size : f.size[b] > 0})]

(* A call is over: the buckets of the call below go on. *)
Return(stk) ==
  /\ stack' = stk
  /\ pc' = IF stk = <<>> THEN "done" ELSE "buckets"

-----------------------------------------------------------------------------
(* msd_CI2() of few strings. *)
Inssort ==
  /\ pc = "call" /\ Radix /\ call.n < InsThreshold
  /\ str' = InssortGeneric(str, Section(call.lo, call.n, FALSE), call.depth)
  /\ call' = NoCall
  /\ Return(stack)
  /\ UNCHANGED <<input, i, index, cache, perm, trees, walk>>

(* Classification, the sizes of the buckets and their inclusive prefix     *)
(* sum, which leaves index[b] at the end of bucket b.                      *)
BeginPermute(frame, dom) ==
  LET bkts == [k \in 0 .. frame.n - 1 |-> BucketOf(frame, str[frame.lo + k])]
  IN  \E size \in {Sizes(bkts, dom)} :
        /\ stack' = Append(stack, [size |-> size, next |-> 0] @@ frame)
        /\ index' = [b \in dom |-> Start(size, b) + size[b]]
        /\ cache' = IF frame.kind = "radix" \/ input.variant # "uncached" THEN bkts ELSE <<>>
        /\ i' = 0
        /\ pc' = "permute"
        /\ call' = NoCall
        /\ UNCHANGED <<input, str, perm, trees, walk>>

(* msd_CI2_run() until the permutation. *)
RadixBegin ==
  /\ pc = "call" /\ Radix /\ call.n >= InsThreshold
  /\ BeginPermute([call EXCEPT !.kind = "radix"], 0 .. NumChars - 1)

(* A sample of keys of the strings, sorted; whatever its size, every       *)
(* choice of splitters among those keys is possible.                       *)
SampleBegin ==
  /\ pc = "call" /\ ~Radix /\ input.variant # "nested"
  /\ \E spl \in [Rank -> {Key(str[call.lo + k], call.depth) : k \in 0 .. call.n - 1}] :
       /\ \A k \in Rank \ {0} : spl[k - 1] <= spl[k]
       /\ BeginPermute([spl |-> spl] @@ call, 0 .. 2 * NumSplitters)

-----------------------------------------------------------------------------
(* The permutation in place.  The bucket of a string comes from the cache, *)
(* or from the string again.                                               *)
BktAt(j) == IF cache = <<>> THEN BucketOf(Top, str[Top.lo + j]) ELSE cache[j]

TakeString ==
  /\ pc = "permute" /\ perm = NoPerm /\ i < Top.n - LastBktSize(Top)
  /\ perm' = [s |-> str[Top.lo + i], bkt |-> BktAt(i)]
  /\ UNCHANGED <<input, str, pc, call, stack, i, index, cache, trees, walk>>

(* Mistake: the cached bucket is not swapped with the string. *)
SwapStringOnly ==
  LET j == index[perm.bkt] - 1
  IN  /\ pc = "permute" /\ perm # NoPerm /\ j > i
      /\ index' = [index EXCEPT ![perm.bkt] = j]
      /\ str' = [str EXCEPT ![Top.lo + j] = perm.s]
      /\ perm' = [perm EXCEPT !.s = str[Top.lo + j]]
      /\ UNCHANGED <<input, pc, call, stack, i, cache, trees, walk>>

(* The string goes to the last free place of its bucket, and the one that  *)
(* was there is next.                                                      *)
SwapString ==
  LET j == index[perm.bkt] - 1
  IN  /\ pc = "permute" /\ perm # NoPerm /\ j > i
      /\ index' = [index EXCEPT ![perm.bkt] = j]
      /\ str' = [str EXCEPT ![Top.lo + j] = perm.s]
      /\ cache' = IF cache = <<>> THEN cache ELSE [cache EXCEPT ![j] = perm.bkt]
      /\ perm' = [s |-> str[Top.lo + j], bkt |-> BktAt(j)]
      /\ UNCHANGED <<input, pc, call, stack, i, trees, walk>>

(* The cycle closes: the string belongs to the bucket that begins at i,    *)
(* which is then complete.                                                 *)
PutString ==
  LET j == index[perm.bkt] - 1
  IN  /\ pc = "permute" /\ perm # NoPerm /\ j <= i
      /\ index' = [index EXCEPT ![perm.bkt] = j]
      /\ str' = [str EXCEPT ![Top.lo + i] = perm.s]
      /\ i' = i + Top.size[perm.bkt]
      /\ perm' = NoPerm
      /\ UNCHANGED <<input, pc, call, stack, cache, trees, walk>>

EndPermute ==
  /\ pc = "permute" /\ perm = NoPerm /\ i >= Top.n - LastBktSize(Top)
  /\ pc' = "buckets"
  /\ i' = 0 /\ index' = <<>> /\ cache' = <<>>
  /\ UNCHANGED <<input, str, call, stack, perm, trees, walk>>

-----------------------------------------------------------------------------
(* Recursion into the buckets of the innermost call, in their order.       *)
LastBkt(f) == Max(DOMAIN f.size)

(* What says that the strings of an equal bucket end within its key: the   *)
(* marker in splitter_lcp, that TreeBuilderPreorder does not set, or the   *)
(* splitter.                                                               *)
MarkedDone(f, b) == input.variant # "search" /\ Terminated(f.spl[b \div 2])

(* Mistake: buckets of two strings are left alone. *)
RecursesFromThree(f, b) ==
  IF f.kind = "radix" THEN b > 0 /\ f.size[b] > 2
  ELSE IF b = LastBkt(f) THEN f.size[b] > 0
  ELSE f.size[b] > 2 /\ (b % 2 = 1 => ~MarkedDone(f, b))

(* Whether a bucket is sorted on: the last one always, if it has strings,  *)
(* and not the equal bucket of a splitter marked as done.                  *)
Recurses(f, b) ==
  IF f.kind = "radix" THEN b > 0 /\ f.size[b] > 1
  ELSE IF b = LastBkt(f) THEN f.size[b] > 0
  ELSE f.size[b] > 1 /\ (b % 2 = 1 => ~MarkedDone(f, b))

(* The characters that the strings of a bucket share. *)
BucketDepth(f, b) ==
  f.depth + IF f.kind = "radix" THEN 1
            ELSE IF b % 2 = 1 THEN KeyWidth ELSE SplitterLcpIn(f.spl, b \div 2)

ToDo(f) == {b \in DOMAIN f.size : b >= f.next /\ Recurses(f, b)}

HasSubtree(f, b) ==
  f.kind = "tree" /\ b % 2 = 1 /\ Append(f.path, b \div 2) \in DOMAIN f.trees

(* The frame in which recursive_sort() of a tree goes through its buckets. *)
TreeFrame(forest, path, lo, n, depth) ==
  [kind |-> "tree", lo |-> lo, n |-> n, depth |-> depth, next |-> 0, path |-> path,
   trees |-> forest, spl |-> forest[path].spl, size |-> forest[path].size]

(* Mistake: the same bucket is next. *)
RecurseAgain ==
  /\ pc = "buckets" /\ ToDo(Top) # {}
  /\ LET f == Top
         b == Min(ToDo(f))
         lo == f.lo + Start(f.size, b)
     IN  /\ ~HasSubtree(f, b)
         /\ call' = [kind |-> IF f.kind = "radix" THEN "radix" ELSE "sample",
                     lo |-> lo, n |-> f.size[b], depth |-> BucketDepth(f, b)]
         /\ pc' = "call"
  /\ UNCHANGED <<input, str, stack, i, index, cache, perm, trees, walk>>

Recurse ==
  /\ pc = "buckets" /\ ToDo(Top) # {}
  /\ LET f == Top
         b == Min(ToDo(f))
         lo == f.lo + Start(f.size, b)
     IN  /\ ~HasSubtree(f, b)
         /\ call' = [kind |-> IF f.kind = "radix" THEN "radix" ELSE "sample",
                     lo |-> lo, n |-> f.size[b], depth |-> BucketDepth(f, b)]
         /\ stack' = Append(Front(stack), [f EXCEPT !.next = b + 1])
         /\ pc' = "call"
  /\ UNCHANGED <<input, str, i, index, cache, perm, trees, walk>>

(* recursive_sort() of the tree below an equal bucket. *)
RecurseIntoTree ==
  /\ pc = "buckets" /\ ToDo(Top) # {}
  /\ LET f == Top
         b == Min(ToDo(f))
         lo == f.lo + Start(f.size, b)
     IN  /\ HasSubtree(f, b)
         /\ stack' = Append(Front(stack), [f EXCEPT !.next = b + 1])
                       \o <<TreeFrame(f.trees, Append(f.path, b \div 2), lo,
                                      f.size[b], BucketDepth(f, b))>>
  /\ UNCHANGED <<input, str, pc, call, i, index, cache, perm, trees, walk>>

EndBuckets ==
  /\ pc = "buckets" /\ ToDo(Top) = {}
  /\ Return(Front(stack))
  /\ UNCHANGED <<input, str, call, i, index, cache, perm, trees, walk>>

-----------------------------------------------------------------------------
(* RBTCE.  A tree is known by its path, the splitters below which it and   *)
(* the trees above it hang.                                                *)
DepthOf(p) == call.depth + Len(p) * KeyWidth

(* The samples of SampleSize strings out of n, with repetition. *)
Draws(n) ==
  LET draws[k \in 0 .. SampleSize] ==
        IF k = 0 THEN {<<>>}
        ELSE {Append(d, p) : <<d, p>> \in
                {<<d, p>> \in draws[k - 1] \X (0 .. n - 1) : d = <<>> \/ Last(d) <= p}}
  IN  draws[SampleSize]

NestedBegin ==
  /\ pc = "call" /\ ~Radix /\ input.variant = "nested"
  /\ \E draw \in Draws(call.n) : walk' = <<[path |-> <<>>, draw |-> draw]>>
  /\ pc' = "build"
  /\ UNCHANGED <<input, str, call, stack, i, index, cache, perm, trees>>

(* The constructor of Builder: a tree over some of the sampled strings,    *)
(* which are given by their positions, in the order of their keys at the   *)
(* tree's depth.  A splitter that is the key of enough samples gets a tree *)
(* below it, over those samples, unless it is terminated; trees below come *)
(* first.  (The limit of 255 trees is left out.)                           *)
BuildTree ==
  /\ pc = "build" /\ walk # <<>>
  /\ LET path == Head(walk).path
         key(p) == Key(str[call.lo + p], DepthOf(path))
         less(p, q) == key(p) < key(q) \/ (key(p) = key(q) /\ p < q)
     IN  \E sorted \in {SortSeq(Head(walk).draw, less)} :
         \E keys \in {[k \in 0 .. Len(sorted) - 1 |-> key(sorted[k + 1])]} :
         \E range \in {NodeRanges(keys, Len(sorted))} :
         \E tree \in {[m \in Node |-> keys[Mid(range[m])]]} :
         \E same \in {[m \in Node |-> SubSeq(sorted, MidLo(keys, range[m]) + 1,
                                             MidHi(keys, range[m]))]} :
           LET hasBelow(m) == Len(same[m]) >= NumSplitters \div 2 /\ ~Terminated(tree[m])
               nodes == SelectSeq(InOrder[1], hasBelow)
           IN  /\ trees' = trees @@ (path :>
                    [tree |-> tree, spl |-> InKeyOrder(tree), cache |-> <<>>, size |-> <<>>])
               /\ walk' = [k \in DOMAIN nodes |->
                             [path |-> Append(path, LevelToPreorder(nodes[k]) - 1),
                              draw |-> same[nodes[k]]]] \o Tail(walk)
  /\ UNCHANGED <<input, str, pc, call, stack, i, index, cache, perm>>

EndBuild ==
  /\ pc = "build" /\ walk = <<>>
  /\ i' = 0
  /\ pc' = "classify"
  /\ UNCHANGED <<input, str, call, stack, index, cache, perm, trees, walk>>

(* The bucket of a string in a tree, and the trees that it gets to: from   *)
(* an equal bucket to the tree below it.                                   *)
BktInTree(p, s) == FindBktEqual(trees[p].tree, Key(s, DepthOf(p)))

Reaches(s, p) ==
  \A j \in 1 .. Len(p) : BktInTree(SubSeq(p, 1, j - 1), s) = 2 * p[j] + 1

(* Mistake: the bucket is cached before it is looked up, as that of the    *)
(* tree above.                                                             *)
ClassifyStringEarly ==
  /\ pc = "classify" /\ i < call.n
  /\ LET s == str[call.lo + i]
     IN  trees' = [p \in DOMAIN trees |->
           IF Reaches(s, p)
           THEN [trees[p] EXCEPT !.cache =
                   Append(@, BktInTree(SubSeq(p, 1, Max({0, Len(p) - 1})), s))]
           ELSE trees[p]]
  /\ i' = i + 1
  /\ UNCHANGED <<input, str, pc, call, stack, index, cache, perm, walk>>

(* The next string: every tree that it gets to caches its bucket there. *)
ClassifyString ==
  /\ pc = "classify" /\ i < call.n
  /\ LET s == str[call.lo + i]
     IN  trees' = [p \in DOMAIN trees |->
           IF Reaches(s, p)
           THEN [trees[p] EXCEPT !.cache = Append(@, BktInTree(p, s))]
           ELSE trees[p]]
  /\ i' = i + 1
  /\ UNCHANGED <<input, str, pc, call, stack, index, cache, perm, walk>>

(* calc_bktsize_prefixsum() of all trees. *)
CountTrees ==
  /\ pc = "classify" /\ i = call.n
  /\ trees' = [p \in DOMAIN trees |->
                 [trees[p] EXCEPT !.size = Sizes(trees[p].cache, 0 .. 2 * NumSplitters)]]
  /\ walk' = <<[path |-> <<>>, lo |-> call.lo, n |-> call.n]>>
  /\ pc' = "trees"
  /\ UNCHANGED <<input, str, call, stack, i, index, cache, perm>>

(* recursive_permute(): the strings of a tree's section go to the tree's   *)
(* buckets, in their order, by the cached buckets; then those of the trees *)
(* below.                                                                  *)
PermuteTree ==
  /\ pc = "trees" /\ walk # <<>>
  /\ LET w == Head(walk)
         t == trees[w.path]
         order == SortSeq([k \in 1 .. w.n |-> k],
                          LAMBDA a, b : \/ t.cache[a] < t.cache[b]
                                        \/ t.cache[a] = t.cache[b] /\ a < b)
         ranks == SetToSortSeq({k \in Rank : Append(w.path, k) \in DOMAIN trees}, <)
         below(k) == [path |-> Append(w.path, k), lo |-> w.lo + Start(t.size, 2 * k + 1),
                      n |-> t.size[2 * k + 1]]
     IN  /\ str' = Put(str, w.lo, [q \in 1 .. w.n |-> str[w.lo + order[q] - 1]])
         /\ trees' = [trees EXCEPT ![w.path].cache = <<>>]
         /\ walk' = [q \in DOMAIN ranks |-> below(ranks[q])] \o Tail(walk)
  /\ UNCHANGED <<input, pc, call, stack, i, index, cache, perm>>

EndTrees ==
  /\ pc = "trees" /\ walk = <<>>
  /\ stack' = Append(stack, TreeFrame(trees, <<>>, call.lo, call.n, call.depth))
  /\ pc' = "buckets"
  /\ call' = NoCall /\ trees' = <<>> /\ i' = 0
  /\ UNCHANGED <<input, str, index, cache, perm, walk>>

-----------------------------------------------------------------------------
Done == pc = "done" /\ UNCHANGED vars

Next ==
  \/ Inssort \/ RadixBegin \/ SampleBegin
  \/ TakeString \/ SwapString \/ PutString \/ EndPermute
  \/ Recurse \/ RecurseIntoTree \/ EndBuckets
  \/ NestedBegin \/ BuildTree \/ EndBuild \/ ClassifyString \/ CountTrees \/ PermuteTree \/ EndTrees
  \/ Done

Spec == Init /\ [][Next]_vars

(* The one thread goes on. *)
FairSpec == Spec /\ WF_vars(Next)

-----------------------------------------------------------------------------
(* At the end the array holds the strings it was given, in order. *)
SortedAtEnd ==
  pc = "done" => /\ \A s \in Range(input.strings) :
                      Cardinality({k \in DOMAIN str : str[k] = s})
                        = Cardinality({k \in DOMAIN str : input.strings[k] = s})
                 /\ \A k \in 1 .. Len(str) - 1 : ~LessFrom(0, str[k + 1], str[k])

(* The depth of a call is one to which its strings are the same, and       *)
(* reach: get_char reads at the depth without looking for an end before    *)
(* it.                                                                     *)
SameUpTo(f) ==
  \A k, l \in f.lo .. f.lo + f.n - 1 :
    Len(str[k]) >= f.depth /\ SubSeq(str[k], 1, f.depth) = SubSeq(str[l], 1, f.depth)

DepthShared ==
  /\ call # NoCall => SameUpTo(call)
  /\ \A f \in Range(stack) : SameUpTo(f)

(* The permutation in place: behind its index a bucket holds its strings   *)
(* only, the index stops one before the bucket at the latest, and that is  *)
(* never before the array; a string in the hand and every cached bucket    *)
(* that is still to be read are right.                                     *)
PlacedRight ==
  pc = "permute" =>
    LET f == Top
        start(b) == Start(f.size, b)
        at(j) == BucketOf(f, str[f.lo + j])
    IN  /\ \A b \in DOMAIN f.size :
             /\ index[b] \in Nat /\ index[b] >= start(b) - 1
             /\ \A j \in Max({index[b], start(b)}) .. start(b) + f.size[b] - 1 : at(j) = b
        /\ perm # NoPerm => perm.bkt = BucketOf(f, perm.s)
        /\ cache # <<>> => \A j \in i .. f.n - 1 : (perm # NoPerm /\ j = i) \/ cache[j] = at(j)

(* A tree below another caches the buckets of exactly the strings that are *)
(* in its section when its turn comes, in the order they then have.        *)
SubtreesAligned ==
  pc = "trees" =>
    \A w \in Range(walk) :
      /\ Len(trees[w.path].cache) = w.n
      /\ \A k \in 1 .. w.n : trees[w.path].cache[k] = BktInTree(w.path, str[w.lo + k - 1])

(* Every call ends: each recursion has fewer strings or looks deeper. *)
Ends == <>(pc = "done")

(* "equal-bucket has NULL-terminated key, done", and there is a "marker for *)
(* done splitters": no call begins behind the terminator of a string.      *)
TerminatedIsDone ==
  call # NoCall => \A k \in call.lo .. call.lo + call.n - 1 : Len(str[k]) >= call.depth

(* "check sorted order of strings": what the pointer classes and the tests *)
(* ask check_order() is whether a greater string precedes a less one.      *)
CheckOrderDetects ==
  \A k \in 1 .. Len(str) - 1 :
    LessFrom(0, str[k + 1], str[k]) => CheckOrder(GenericCharStringSet, str[k], str[k + 1]) = {FALSE}
=============================================================================
