---------------------------- MODULE SplitterTree ----------------------------
(***************************************************************************)
(* The classifiers of the sample sorters: how a sorted sample becomes a    *)
(* splitter tree, and how the variants of find_bkt and get_splitter use    *)
(* it.  The assembler variants are modelled by the loops they are.         *)
(*                                                                         *)
(* The behaviour is short: a sample arrives, the tree is built.  What is   *)
(* of interest are the functions below, on every tree that is built.       *)
(***************************************************************************)
EXTENDS TreeShape, SequencesExt

CONSTANTS
  Oversample,    \* oversample_factor, samples per splitter
  Rollout,       \* keys that the interleaved variants search for at once
  SampleKeys     \* keys the sampled strings may have

ASSUME TreeAssumption ==
  /\ Oversample \in Nat \ {0} /\ Rollout \in Nat \ {0}
  /\ SampleKeys \subseteq Keys

SampleSize == Oversample * NumSplitters

SampleIndex == 0 .. SampleSize - 1

VARIABLES
  samples,    \* samples[0 .. SampleSize - 1], sorted
  tree,       \* splitter_tree, in level order
  splitter    \* splitter array, in key order

vars == <<samples, tree, splitter>>

NotBuilt == <<>>

-----------------------------------------------------------------------------
(* The recursion over the sorted sample. *)
NodeRange == NodeRanges(samples, SampleSize)

LevelOrderTree == LET range == NodeRange IN [i \in Node |-> samples[Mid(range[i])]]

(* Mistake: the splitters in level order. *)
LevelOrderSplitters == [k \in Rank |-> LevelOrderTree[k + 1]]

InOrderSplitters == InKeyOrder(LevelOrderTree)

(* Mistake: a character that differs in its last bits counts as shared. *)
SplitterLcpRoundedUp == [k \in 0 .. NumSplitters |->
  [lcp |-> IF k = 0 \/ k = NumSplitters THEN 0 ELSE KeyLcp(splitter[k - 1], splitter[k]) + 1,
   done |-> k < NumSplitters /\ Terminated(splitter[k])]]

(* splitter_lcp: the LCP with the splitter before, the sentinels, and the  *)
(* marker of splitters that are done.                                      *)
SplitterLcp == [k \in 0 .. NumSplitters |->
  [lcp |-> IF k = 0 \/ k = NumSplitters THEN 0 ELSE KeyLcp(splitter[k - 1], splitter[k]),
   done |-> k < NumSplitters /\ Terminated(splitter[k])]]

(* TreeBuilderPreorder, for the binary search variants: every Oversample-th *)
(* sample, from half of Oversample on.                                     *)
PreorderSplitters == [k \in Rank |-> samples[Oversample \div 2 + k * Oversample]]

(* sample_sortBT makes the tree from such an array, level by level: the    *)
(* splitters of a level lie an even number of places apart.                *)
TreeOfSplitters(spl) ==
  LET highbit(t) == 2 ^ (TreeBits - 1 - HighBit(t))
  IN  [t \in Node |-> spl[highbit(t) - 1 + (t - 2 ^ HighBit(t)) * 2 * highbit(t)]]

-----------------------------------------------------------------------------
(* Searches that end below the leaves, and then compare with the one       *)
(* splitter that may be equal.                                             *)
StepDown(i, key) == 2 * i + (IF key <= tree[i] THEN 0 ELSE 1)
Leaf(i) == i - (NumSplitters + 1)
BucketAt(b, isEqual) == 2 * b + (IF b < NumSplitters /\ isEqual THEN 1 ELSE 0)

(* Mistake: a key equal to a splitter goes right. *)
DescentStrict(key) ==
  LET i[l \in 0 .. NumSplitters] ==
        IF l = 0 THEN 1
        ELSE LET n == i[l - 1]
             IN  IF n \in Node THEN 2 * n + (IF key < tree[n] THEN 0 ELSE 1) ELSE n
  IN  Leaf(i[NumSplitters])

(* ClassifyTreeSimple and ClassifyTreeCalcSimple: while i is a node. *)
Descent(key) ==
  LET i[l \in 0 .. NumSplitters] ==
        IF l = 0 THEN 1
        ELSE LET n == i[l - 1] IN IF n \in Node THEN StepDown(n, key) ELSE n
  IN  Leaf(i[NumSplitters])

(* ClassifyTreeUnroll and ClassifyTreeCalcUnroll: as many steps as levels. *)
DescentUnrolled(key) ==
  LET i[l \in 0 .. TreeBits] == IF l = 0 THEN 1 ELSE StepDown(i[l - 1], key)
  IN  Leaf(i[TreeBits])

(* ClassifyTreeAssembler: the loop tests at its end whether it goes on. *)
DescentAssembler(key) ==
  LET i[l \in 1 .. NumSplitters] ==
        IF l = 1 THEN StepDown(1, key)
        ELSE LET n == i[l - 1] IN IF n < NumSplitters + 1 THEN StepDown(n, key) ELSE n
  IN  Leaf(i[NumSplitters])

(* The variants that keep the splitters as an array as well, and those     *)
(* that read them from the tree.                                           *)
GetSplitterCalc(k) == tree[PreToLevelorder(k + 1)]

FindBktTree(key) ==
  LET b == Descent(key) IN BucketAt(b, b \in Rank /\ splitter[b] = key)
FindBktTreeAssembler(key) ==
  LET b == DescentAssembler(key) IN BucketAt(b, b \in Rank /\ splitter[b] = key)
FindBktTreeUnroll(key) ==
  LET b == DescentUnrolled(key) IN BucketAt(b, b \in Rank /\ splitter[b] = key)
FindBktCalc(key) ==
  LET b == Descent(key) IN BucketAt(b, b \in Rank /\ GetSplitterCalc(b) = key)
FindBktCalcUnroll(key) ==
  LET b == DescentUnrolled(key) IN BucketAt(b, b \in Rank /\ GetSplitterCalc(b) = key)

(* Mistake: begin goes on by one, the output by Rollout. *)
ClassifyInterleaveOverlaps(keys) ==
  LET out[begin \in 0 .. Len(keys)] ==
        IF begin = Len(keys) THEN <<>>
        ELSE IF begin + Rollout < Len(keys)
        THEN [u \in 1 .. Rollout |-> FindBktTreeUnroll(keys[begin + u])] \o out[begin + 1]
        ELSE <<FindBktTree(keys[begin + 1])>> \o out[begin + 1]
  IN  out[0]

(* ClassifyTreeUnrollInterleave: Rollout keys from begin on go down the    *)
(* levels side by side as long as there are more than Rollout of them, the *)
(* others one by one.                                                      *)
ClassifyTreeInterleave(keys) ==
  LET out[begin \in 0 .. Len(keys)] ==
        IF begin = Len(keys) THEN <<>>
        ELSE IF begin + Rollout < Len(keys)
        THEN [u \in 1 .. Rollout |-> FindBktTreeUnroll(keys[begin + u])] \o out[begin + Rollout]
        ELSE <<FindBktTree(keys[begin + 1])>> \o out[begin + 1]
  IN  out[0]

(* ClassifyTreeCalcUnrollInterleave, with the splitters from the tree. *)
ClassifyCalcInterleave(keys) ==
  LET out[begin \in 0 .. Len(keys)] ==
        IF begin = Len(keys) THEN <<>>
        ELSE IF begin + Rollout < Len(keys)
        THEN [u \in 1 .. Rollout |-> FindBktCalcUnroll(keys[begin + u])] \o out[begin + Rollout]
        ELSE <<FindBktCalc(keys[begin + 1])>> \o out[begin + 1]
  IN  out[0]

-----------------------------------------------------------------------------
(* Binary search in the splitter array: halve [lo, hi) ...                 *)
Halve(key, r) ==
  LET mid == (r.lo + r.hi) \div 2
  IN  IF key <= PreorderSplitters[mid] THEN [r EXCEPT !.hi = mid] ELSE [r EXCEPT !.lo = mid + 1]

(* ... while it is not empty (ClassifyBinarySearch, find_bkt_binsearch), ... *)
BinarySearch(key) ==
  LET r[n \in 0 .. TreeBits] ==
        IF n = 0 THEN [lo |-> 0, hi |-> NumSplitters]
        ELSE LET x == r[n - 1] IN IF x.lo < x.hi THEN Halve(key, x) ELSE x
  IN  r[TreeBits].lo

(* ... or at least once, tested at the end (find_bkt_assembler), ...       *)
BinarySearchAssembler(key) ==
  LET r[n \in 1 .. TreeBits] ==
        IF n = 1 THEN Halve(key, [lo |-> 0, hi |-> NumSplitters])
        ELSE LET x == r[n - 1] IN IF x.lo < x.hi THEN Halve(key, x) ELSE x
  IN  r[TreeBits].lo

FindBktBinary(key) ==
  LET b == BinarySearch(key) IN BucketAt(b, b \in Rank /\ PreorderSplitters[b] = key)
FindBktBinaryAssembler(key) ==
  LET b == BinarySearchAssembler(key)
  IN  BucketAt(b, b \in Rank /\ PreorderSplitters[b] = key)

(* ... or until the middle is equal (find_bkt_equal, find_bkt_asmequal).   *)
FindBktBinaryEqual(key) ==
  LET spl == PreorderSplitters
      r[n \in 0 .. TreeBits] ==
        IF n = 0 THEN <<0, NumSplitters>>
        ELSE LET lo == r[n - 1][1]
                 hi == r[n - 1][2]
                 mid == (lo + hi) \div 2
             IN  IF lo >= hi \/ spl[mid] = key THEN r[n - 1]
                 ELSE IF key < spl[mid] THEN <<lo, mid>> ELSE <<mid + 1, hi>>
      lo == r[TreeBits][1]
      hi == r[TreeBits][2]
  IN  IF lo < hi THEN 2 * ((lo + hi) \div 2) + 1 ELSE 2 * lo

-----------------------------------------------------------------------------
(* The equality variants in assembler: the node that was found is shifted  *)
(* by the number of levels from it to the bottom, without                  *)
(* level_to_preorder; an index below the leaves is a bucket as it is.      *)
SplitterTreeEnd(x) ==
  LET cx == TreeBits - HighBit(x.i)
  IN  IF x.found
      THEN 2 * (((x.i * 2 ^ cx) % (NumSplitters + 1)) + 2 ^ (cx - 1)) - 1
      ELSE 2 * Leaf(x.i)

(* ClassifyEqualAssembler and find_bkt_tree_asmequal, which loop while the *)
(* index is a node. *)
FindBktEqualAssembler(key) ==
  LET n == EndOfSearch(tree, key) IN SplitterTreeEnd([i |-> n, found |-> n \in Node])

(* The step of the unrolled variants, which jumps out with the key found.  *)
TreeStep(key, x) ==
  IF x.found THEN x
  ELSE IF key = tree[x.i] THEN [x EXCEPT !.found = TRUE]
  ELSE [x EXCEPT !.i = 2 * @ + (IF key < tree[@] THEN 0 ELSE 1)]

(* As many of them as the tree has levels. *)
UnrolledSteps(key) ==
  LET x[l \in 0 .. TreeBits] ==
        IF l = 0 THEN [i |-> 1, found |-> FALSE] ELSE TreeStep(key, x[l - 1])
  IN  x[TreeBits]

(* ClassifyEqualUnroll and ClassifyEqualUnrollAssembler. *)
FindBktEqualUnroll(key) ==
  LET x == UnrolledSteps(key)
  IN  IF x.found THEN 2 * LevelToPreorder(x.i) - 1 ELSE 2 * Leaf(x.i)
FindBktEqualUnrollAssembler(key) == SplitterTreeEnd(UnrolledSteps(key))

(* get_splitter of ClassifyEqual passes its 0-based argument on as it is.  *)
(* pre_to_levelorder is not defined for zero, and asserts so: NoKey.       *)
NoKey == -1

GetSplitterEqual(k) == IF k = 0 THEN NoKey ELSE tree[PreToLevelorder(k)]

-----------------------------------------------------------------------------
(* The sorted samples of size n. *)
SortedSamples[n \in 0 .. SampleSize] ==
  IF n = 0 THEN {<<>>}
  ELSE {[i \in 0 .. n - 1 |-> IF i = n - 1 THEN x[2] ELSE x[1][i]] :
          x \in {y \in SortedSamples[n - 1] \X SampleKeys : n > 1 => y[1][n - 2] <= y[2]}}

Init ==
  /\ samples \in SortedSamples[SampleSize]
  /\ tree = NotBuilt /\ splitter = NotBuilt

Build ==
  /\ tree = NotBuilt
  /\ tree' = LevelOrderTree
  /\ splitter' = InOrderSplitters
  /\ UNCHANGED samples

Next == Build \/ (tree # NotBuilt /\ UNCHANGED vars)

Spec == Init /\ [][Next]_vars

Built == tree # NotBuilt

-----------------------------------------------------------------------------
(* The recursion over sample ranges, which may be empty when keys repeat,  *)
(* never looks past the sample, and what it emits is in key order.         *)
SplittersOrdered ==
  Built => /\ \A i \in Node : NodeRange[i][1] <= NodeRange[i][2] /\ Mid(NodeRange[i]) \in SampleIndex
           /\ \A k \in Rank \ {0} : splitter[k - 1] <= splitter[k]

(* The index arithmetic that replaces the splitter array: the two          *)
(* conversions are inverse to each other, and get_splitter of the TreeCalc *)
(* variants reads the k-th splitter out of the level-order tree.  The tree *)
(* that sample_sortBT makes from the splitters has them in the same order. *)
TreeCalcExact ==
  Built => /\ \A i \in Node : /\ InOrder[1][LevelToPreorder(i)] = i
                              /\ PreToLevelorder(LevelToPreorder(i)) = i
           /\ \A k \in Rank : GetSplitterCalc(k) = splitter[k]
           /\ InKeyOrder(TreeOfSplitters(splitter)) = splitter

(* Every variant puts every key in the right bucket, that of BucketIn, by  *)
(* which the modules that sort classify: 2k lies between the splitters     *)
(* k - 1 and k, and 2k + 1 is equal to splitter k, the first of equal ones. *)
ClassifyRight ==
  Built => \A key \in Keys :
    /\ \A b \in {FindBktTree(key), FindBktTreeAssembler(key), FindBktTreeUnroll(key),
                 FindBktCalc(key), FindBktCalcUnroll(key)} : b = BucketIn(splitter, key)
    /\ \A b \in {FindBktBinary(key), FindBktBinaryAssembler(key)} :
         b = BucketIn(PreorderSplitters, key)

EqualFound(spl, key, b) ==
  /\ b % 2 = 1 <=> \E k \in Rank : spl[k] = key
  /\ b % 2 = 1 => spl[b \div 2] = key
  /\ b % 2 = 0 => b = BucketIn(spl, key)

(* The equality variants may choose another of several equal splitters,    *)
(* but equal keys go to one equal bucket, and buckets are in key order.    *)
EqualVariantRight ==
  Built => \A key \in Keys :
    /\ \A b \in {FindBktEqualAssembler(key), FindBktEqualUnroll(key),
                 FindBktEqualUnrollAssembler(key)} : b = FindBktEqual(tree, key)
    /\ EqualFound(splitter, key, FindBktEqual(tree, key))
    /\ EqualFound(PreorderSplitters, key, FindBktBinaryEqual(key))

AllKeysDescending ==
  [k \in 1 .. Cardinality(Keys) |->
    CHOOSE key \in Keys : Cardinality({other \in Keys : key < other}) = k - 1]

(* The interleaved variants write one bucket for every string, the right   *)
(* one, however many strings there are and wherever the last batch ends.   *)
InterleavedRight ==
  Built => \A n \in 0 .. Cardinality(Keys) :
    LET keys == SubSeq(AllKeysDescending, 1, n)
    IN  \A out \in {ClassifyTreeInterleave(keys), ClassifyCalcInterleave(keys)} :
          out = [k \in 1 .. n |-> BucketIn(splitter, keys[k])]

(* The depth that a bucket's strings are sorted from: keys in a less-than  *)
(* bucket between two splitters share the splitters' common prefix, and no *)
(* key of that bucket ends within it.                                      *)
DepthSound ==
  Built => \A key \in Keys :
    LET b == FindBktTree(key)
    IN  b % 2 = 0 /\ b \div 2 \in Rank \ {0} =>
          /\ KeyLcp(key, splitter[b \div 2]) >= SplitterLcp[b \div 2].lcp
          /\ KeyDepth(key) >= SplitterLcp[b \div 2].lcp

(* The assertions of sample_sort_lcp: the strings of an equal bucket have  *)
(* the key that get_splitter returns for it, here with ClassifyEqual.      *)
EqualBucketHasSplitter ==
  Built => \A key \in Keys :
    LET b == FindBktEqual(tree, key)
    IN  b % 2 = 1 => GetSplitterEqual(b \div 2) = key
=============================================================================
