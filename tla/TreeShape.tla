----------------------------- MODULE TreeShape -----------------------------
(***************************************************************************)
(* Perfect binary trees of splitters: 2^TreeBits - 1 nodes, numbered from  *)
(* 1 in level order, node i with the children 2i and 2i + 1.  How a sorted *)
(* sample is divided among the nodes, the index arithmetic of              *)
(* TreeCalculations (tools/stringtools.hpp), and the search for a bucket   *)
(* in such a tree.                                                         *)
(***************************************************************************)
EXTENDS StringKeys, Sequences

CONSTANT TreeBits

ASSUME TreeBitsAssumption == TreeBits \in Nat \ {0}

(* What `^' means, as far as the levels of a tree have need of it.         *)
ASSUME DoublingAssumption ==
  2 ^ 0 = 1 /\ \A n \in 0 .. TreeBits : 2 ^ (n + 1) = 2 * 2 ^ n

NumSplitters == 2 ^ TreeBits - 1

Node == 1 .. NumSplitters
Rank == 0 .. NumSplitters - 1     \* position of a splitter in key order

(* From level order to the 1-based in-order position of a node, and back.  *)
(* HighBit is the place of the topmost one, LowBit that of the lowest.     *)
HighBit(i) == CHOOSE h \in 0 .. TreeBits : 2 ^ h <= i /\ i < 2 ^ (h + 1)
LowBit(i) == CHOOSE l \in 0 .. TreeBits : i % (2 ^ (l + 1)) = 2 ^ l

LevelToPreorder(i) ==
  LET hi == TreeBits - 1 - HighBit(i)
  IN  ((i * 2 ^ (hi + 1)) % (2 ^ TreeBits)) + 2 ^ hi

(* Mistake: the lowest bit is not shifted out. *)
PreToLevelKeepsBit(i) ==
  LET lo == LowBit(i)
  IN  (i \div (2 ^ lo)) + 2 ^ (TreeBits - lo)

PreToLevelorder(i) ==
  LET lo == LowBit(i) + 1
  IN  (i \div (2 ^ lo)) + 2 ^ (TreeBits - lo)

(* The order in which a recursion emits nodes: left, self, right. *)
InOrder[i \in 1 .. 2 * NumSplitters + 1] ==
  IF i > NumSplitters THEN <<>> ELSE InOrder[2 * i] \o <<i>> \o InOrder[2 * i + 1]

-----------------------------------------------------------------------------
(* recurse(lo, hi): the samples [lo, hi) a node chooses its splitter from, *)
(* the middle one, and what it leaves to its children: not the copies of   *)
(* the splitter next to the middle, [MidLo, MidHi), though the right child *)
(* keeps the last sample whatever it is.  A range may be empty; its middle *)
(* is then its first position.                                             *)
Mid(r) == r[1] + (r[2] - r[1]) \div 2

MidLo(keys, r) ==
  LET fits == {m \in r[1] .. Mid(r) : \A k \in m .. Mid(r) - 1 : keys[k] = keys[Mid(r)]}
  IN  CHOOSE m \in fits : \A k \in fits : m <= k

MidHi(keys, r) ==
  LET fits == {m \in Mid(r) .. r[2] : m + 1 >= r[2] \/ keys[m] # keys[Mid(r)]}
  IN  CHOOSE m \in fits : \A k \in fits : m <= k

(* The ranges of all nodes of a tree over the keys 0 .. n - 1. *)
NodeRanges(keys, n) ==
  LET range[i \in Node] ==
        IF i = 1 THEN <<0, n>>
        ELSE LET r == range[i \div 2]
             IN  IF i % 2 = 0 THEN <<r[1], MidLo(keys, r)>> ELSE <<MidHi(keys, r), r[2]>>
  IN  range

(* A level-order tree as an array in key order, counted from zero. *)
InKeyOrder(tree) == [k \in Rank |-> tree[InOrder[1][k + 1]]]

-----------------------------------------------------------------------------
(* The search that ends at the first node with the key: its nodes, level   *)
(* by level, and where it ends, possibly below the leaves.                 *)
EndOfSearch(tree, key) ==
  LET i[l \in 0 .. TreeBits] ==
        IF l = 0 THEN 1
        ELSE LET n == i[l - 1]
             IN  IF n \in Node /\ tree[n] = key THEN n
                 ELSE 2 * n + (IF key < tree[n] THEN 0 ELSE 1)
  IN  i[TreeBits]

(* Mistake: level_to_preorder, which counts from one, taken from zero. *)
FindBktEqualShifted(tree, key) ==
  LET n == EndOfSearch(tree, key)
  IN  IF n \in Node THEN 2 * LevelToPreorder(n) ELSE 2 * (n - (NumSplitters + 1))

(* find_bkt of the ClassifyEqual variants and of the nested trees. *)
FindBktEqual(tree, key) ==
  LET n == EndOfSearch(tree, key)
  IN  IF n \in Node THEN 2 * LevelToPreorder(n) - 1 ELSE 2 * (n - (NumSplitters + 1))
=============================================================================
