------------------------- MODULE SplitterTreeProofs -------------------------
(***************************************************************************)
(* Proofs about SplitterTree, for trees of any number of levels over       *)
(* samples of any keys.  A node of level h stands for the 2^(T - h) places *)
(* in key order from Left(i) on: its left child for the first half of      *)
(* them, its right child for the other.  The index arithmetic of           *)
(* TreeCalculations follows from this, and every search is a descent that  *)
(* never leaves the places at which the key may be.                        *)
(***************************************************************************)
EXTENDS SplitterTree, StringProofs

-----------------------------------------------------------------------------
(* Powers of two are positive, and multiply as they should. *)
LEMMA Two == \A n \in 0 .. TreeBits + 1 : 2 ^ n \in Nat \ {0}
<1> DEFINE P == {n \in Nat : n <= TreeBits + 1 => 2 ^ n \in Nat \ {0}}
<1>1. 0 \in P
  BY DoublingAssumption
<1>2. \A n \in P : n + 1 \in P
  <2> SUFFICES ASSUME NEW n \in P, n + 1 <= TreeBits + 1 PROVE 2 ^ (n + 1) \in Nat \ {0}
    OBVIOUS
  <2>1. n \in 0 .. TreeBits /\ 2 ^ n \in Nat \ {0}
    BY TreeBitsAssumption
  <2> QED BY <2>1, DoublingAssumption
<1>3. P = Nat
  <2> HIDE DEF P
  <2> SUFFICES P \in SUBSET Nat
    BY <1>1, <1>2, NatInd
  <2> QED BY DEF P
<1> QED BY <1>3, TreeBitsAssumption

LEMMA TwoSplits ==
  ASSUME NEW n \in 0 .. TreeBits, NEW m \in 0 .. TreeBits, n + m <= TreeBits + 1
  PROVE  2 ^ (n + m) = 2 ^ n * 2 ^ m
<1> DEFINE P == {k \in Nat : k <= m => 2 ^ (n + k) = 2 ^ n * 2 ^ k}
<1>0. n \in Nat /\ m \in Nat /\ TreeBits \in Nat
  BY TreeBitsAssumption
<1>1. 0 \in P
  <2>1. 2 ^ n \in Nat /\ 2 ^ 0 = 1 /\ n + 0 = n
    BY <1>0, Two, DoublingAssumption
  <2> QED BY <2>1
<1>2. \A k \in P : k + 1 \in P
  <2> SUFFICES ASSUME NEW k \in P, k + 1 <= m PROVE 2 ^ (n + (k + 1)) = 2 ^ n * 2 ^ (k + 1)
    OBVIOUS
  <2>1. k \in Nat /\ n + (k + 1) = (n + k) + 1 /\ n + k \in 0 .. TreeBits /\ k \in 0 .. TreeBits
    BY <1>0
  <2>2. 2 ^ (n + k) = 2 ^ n * 2 ^ k
    BY <1>0
  <2>3. 2 ^ ((n + k) + 1) = 2 * 2 ^ (n + k) /\ 2 ^ (k + 1) = 2 * 2 ^ k
    BY <2>1, DoublingAssumption
  <2>4. 2 ^ n \in Nat /\ 2 ^ k \in Nat
    BY <1>0, <2>1, Two
  <2> DEFINE a == 2 ^ n b == 2 ^ k
  <2> HIDE DEF a, b
  <2>5. a \in Nat /\ b \in Nat
    BY <2>4 DEF a, b
  <2>6. 2 * (a * b) = a * (2 * b)
    BY ONLY <2>5
  <2> QED BY <2>1, <2>2, <2>3, <2>6 DEF a, b
<1>3. P = Nat
  <2> HIDE DEF P
  <2> SUFFICES P \in SUBSET Nat
    BY <1>1, <1>2, NatInd
  <2> QED BY DEF P
<1> QED BY <1>3, <1>0

LEMMA TwoGrows ==
  ASSUME NEW n \in 0 .. TreeBits + 1, NEW m \in 0 .. TreeBits + 1, n < m
  PROVE  2 * 2 ^ n <= 2 ^ m
<1> DEFINE P == {k \in Nat : n < k /\ k <= TreeBits + 1 => 2 * 2 ^ n <= 2 ^ k}
<1>0. n \in Nat /\ m \in Nat /\ TreeBits \in Nat
  BY TreeBitsAssumption
<1>1. 0 \in P
  BY <1>0
<1>2. \A k \in P : k + 1 \in P
  <2> SUFFICES ASSUME NEW k \in P, n < k + 1, k + 1 <= TreeBits + 1 PROVE 2 * 2 ^ n <= 2 ^ (k + 1)
    OBVIOUS
  <2>1. k \in 0 .. TreeBits /\ k \in 0 .. TreeBits + 1
    BY <1>0
  <2>2. 2 ^ (k + 1) = 2 * 2 ^ k /\ 2 ^ k \in Nat /\ 2 ^ n \in Nat
    BY <2>1, DoublingAssumption, Two
  <2>3. CASE n = k
    BY <2>2, <2>3
  <2>4. CASE n < k
    <3>1. 2 * 2 ^ n <= 2 ^ k
      BY <2>1, <2>4
    <3> QED BY ONLY <2>2, <3>1
  <2> QED BY <1>0, <2>3, <2>4
<1>3. P = Nat
  <2> HIDE DEF P
  <2> SUFFICES P \in SUBSET Nat
    BY <1>1, <1>2, NatInd
  <2> QED BY DEF P
<1>4. m \in P
  BY <1>0, <1>3
<1> QED BY <1>0, <1>4

(* Nodes, and the leaves below them. *)
Spot == 1 .. 2 * NumSplitters + 1

LEMMA Shape ==
  /\ NumSplitters \in Nat \ {0} /\ 2 ^ TreeBits = NumSplitters + 1
  /\ 2 ^ (TreeBits + 1) = 2 * NumSplitters + 2
<1>1. 2 ^ TreeBits \in Nat /\ 2 ^ (TreeBits + 1) = 2 * 2 ^ TreeBits
  BY Two, DoublingAssumption, TreeBitsAssumption
<1>2. 2 * 2 ^ 0 <= 2 ^ TreeBits
  <2>1. 0 \in 0 .. TreeBits + 1 /\ TreeBits \in 0 .. TreeBits + 1 /\ 0 < TreeBits
    BY TreeBitsAssumption
  <2> QED BY ONLY <2>1, TwoGrows
<1>3. 2 ^ 0 = 1
  BY DoublingAssumption
<1> QED BY <1>1, <1>2, <1>3 DEF NumSplitters

-----------------------------------------------------------------------------
(* The level of a node or leaf, and one of its kind alone. *)
LEMMA HighBitIs ==
  ASSUME NEW i \in Nat, NEW h \in 0 .. TreeBits, 2 ^ h <= i, i < 2 ^ (h + 1)
  PROVE  HighBit(i) = h
<1>1. ASSUME NEW k \in 0 .. TreeBits, 2 ^ k <= i, i < 2 ^ (k + 1) PROVE k = h
  <2>1. /\ h \in Nat /\ k \in Nat /\ TreeBits \in Nat
        /\ h + 1 \in 0 .. TreeBits + 1 /\ k + 1 \in 0 .. TreeBits + 1
        /\ h \in 0 .. TreeBits + 1 /\ k \in 0 .. TreeBits + 1
    BY TreeBitsAssumption
  <2>2. 2 ^ k \in Nat /\ 2 ^ h \in Nat /\ 2 ^ (k + 1) \in Nat /\ 2 ^ (h + 1) \in Nat
    BY <2>1, Two
  <2>3. ~(h + 1 <= k)
    <3> SUFFICES ASSUME h + 1 <= k PROVE FALSE
      OBVIOUS
    <3>1. CASE h + 1 = k
      BY <1>1, <2>2, <3>1
    <3>2. CASE h + 1 < k
      <4>1. 2 * 2 ^ (h + 1) <= 2 ^ k
        BY ONLY <2>1, <3>2, TwoGrows
      <4> QED BY <1>1, <2>2, <4>1
    <3> QED BY ONLY <2>1, <3>1, <3>2, h + 1 <= k
  <2>4. ~(k + 1 <= h)
    <3> SUFFICES ASSUME k + 1 <= h PROVE FALSE
      OBVIOUS
    <3>1. CASE k + 1 = h
      BY <1>1, <2>2, <3>1
    <3>2. CASE k + 1 < h
      <4>1. 2 * 2 ^ (k + 1) <= 2 ^ h
        BY ONLY <2>1, <3>2, TwoGrows
      <4> QED BY <1>1, <2>2, <4>1
    <3> QED BY ONLY <2>1, <3>1, <3>2, k + 1 <= h
  <2> QED BY ONLY <2>1, <2>3, <2>4
<1> QED BY <1>1 DEF HighBit

LEMMA HighBitDoubles ==
  ASSUME NEW i \in Node, NEW h \in 0 .. TreeBits, 2 ^ h <= i, i < 2 ^ (h + 1)
  PROVE  /\ h < TreeBits
         /\ \A c \in {2 * i, 2 * i + 1} : 2 ^ (h + 1) <= c /\ c < 2 ^ ((h + 1) + 1)
<1>1. h + 1 \in 0 .. TreeBits + 1 /\ h \in Nat /\ TreeBits \in Nat
  BY TreeBitsAssumption
<1>2. i \in Nat /\ i <= NumSplitters /\ NumSplitters \in Nat
  BY Shape DEF Node
<1>3. h # TreeBits
  BY <1>2, Shape
<1>4. h + 1 \in 0 .. TreeBits
  BY ONLY <1>1, <1>3, h \in 0 .. TreeBits
<1>5. 2 ^ (h + 1) = 2 * 2 ^ h /\ 2 ^ ((h + 1) + 1) = 2 * 2 ^ (h + 1)
  BY <1>4, DoublingAssumption
<1>6. 2 ^ h \in Nat /\ 2 ^ (h + 1) \in Nat
  BY <1>1, Two
<1> DEFINE a == 2 ^ h b == 2 ^ (h + 1) d == 2 ^ ((h + 1) + 1)
<1> HIDE DEF a, b, d
<1>7. a \in Nat /\ b \in Nat /\ b = 2 * a /\ d = 2 * b /\ a <= i /\ i < b
  BY <1>5, <1>6 DEF a, b, d
<1>8. \A c \in {2 * i, 2 * i + 1} : b <= c /\ c < d
  BY ONLY <1>2, <1>7
<1> QED BY <1>1, <1>4, <1>8 DEF b, d

(* The tree from above, and from below. *)
LEMMA Downwards ==
  ASSUME NEW G \in SUBSET Spot, 1 \in G, \A i \in Node : i \in G => 2 * i \in G /\ 2 * i + 1 \in G
  PROVE  G = Spot
<1> DEFINE P == {n \in Nat : \A i \in Spot : i <= n => i \in G}
<1>0. NumSplitters \in Nat
  BY Shape
<1>1. 0 \in P
  BY <1>0 DEF Spot
<1>2. \A n \in P : n + 1 \in P
  <2> SUFFICES ASSUME NEW n \in P, NEW i \in Spot, i <= n + 1 PROVE i \in G
    BY DEF Spot
  <2>1. CASE i = 1
    BY <2>1
  <2>2. CASE i # 1
    <3> DEFINE p == i \div 2
    <3>1. p \in Nat /\ (i = 2 * p \/ i = 2 * p + 1) /\ p >= 1 /\ p < i /\ p <= NumSplitters
      BY <1>0, <2>2 DEF Spot
    <3> HIDE DEF p
    <3>2. p \in Node /\ p \in Spot /\ p <= n
      BY <1>0, <3>1 DEF Node, Spot
    <3>3. p \in G
      BY <3>2
    <3> QED BY <3>1, <3>2, <3>3
  <2> QED BY <2>1, <2>2
<1>3. P = Nat
  <2> HIDE DEF P
  <2> SUFFICES P \in SUBSET Nat
    BY <1>1, <1>2, NatInd
  <2> QED BY DEF P
<1>4. \A i \in Spot : i \in P
  BY <1>0, <1>3 DEF Spot
<1>5. \A i \in Spot : i <= i
  BY DEF Spot
<1> QED BY <1>4, <1>5

LEMMA Upwards ==
  ASSUME NEW G \in SUBSET Spot, \A i \in Spot \ Node : i \in G,
         \A i \in Node : 2 * i \in G /\ 2 * i + 1 \in G => i \in G
  PROVE  G = Spot
<1> DEFINE P == {n \in Nat : \A i \in Spot : 2 * NumSplitters + 1 - i <= n => i \in G}
<1>0. NumSplitters \in Nat
  BY Shape
<1>1. 0 \in P
  <2> SUFFICES ASSUME NEW i \in Spot, 2 * NumSplitters + 1 - i <= 0 PROVE i \in Spot \ Node
    OBVIOUS
  <2> QED BY <1>0, Shape DEF Spot, Node
<1>2. \A n \in P : n + 1 \in P
  <2> SUFFICES ASSUME NEW n \in P, NEW i \in Spot, 2 * NumSplitters + 1 - i <= n + 1 PROVE i \in G
    BY DEF Spot
  <2>1. CASE i \in Node
    <3>1. /\ 2 * i \in Spot /\ 2 * i + 1 \in Spot
          /\ 2 * NumSplitters + 1 - 2 * i <= n /\ 2 * NumSplitters + 1 - (2 * i + 1) <= n
      BY <1>0, <2>1 DEF Spot, Node
    <3> QED BY <2>1, <3>1
  <2> QED BY <2>1
<1>3. P = Nat
  <2> HIDE DEF P
  <2> SUFFICES P \in SUBSET Nat
    BY <1>1, <1>2, NatInd
  <2> QED BY DEF P
<1>4. \A i \in Spot : 2 * NumSplitters + 1 - i \in P
  <2>1. \A i \in Spot : 2 * NumSplitters + 1 - i \in Nat
    BY <1>0 DEF Spot
  <2> HIDE DEF P
  <2> QED BY ONLY <1>3, <2>1
<1>5. \A i \in Spot : 2 * NumSplitters + 1 - i <= 2 * NumSplitters + 1 - i
  BY <1>0 DEF Spot
<1> QED BY <1>4, <1>5

LEMMA Levels ==
  ASSUME NEW i \in Spot
  PROVE  /\ HighBit(i) \in 0 .. TreeBits
         /\ 2 ^ HighBit(i) <= i /\ i < 2 ^ (HighBit(i) + 1)
         /\ i \in Node <=> HighBit(i) < TreeBits
<1> DEFINE G == {k \in Spot : \E h \in 0 .. TreeBits : 2 ^ h <= k /\ k < 2 ^ (h + 1)}
<1>0. NumSplitters \in Nat /\ TreeBits \in Nat
  BY Shape, TreeBitsAssumption
<1>1. 1 \in G
  <2>1. 0 \in 0 .. TreeBits /\ 1 \in Spot
    BY <1>0 DEF Spot
  <2>2. 2 ^ 0 = 1 /\ 2 ^ (0 + 1) = 2 * 2 ^ 0
    BY <2>1, DoublingAssumption
  <2>3. 2 ^ 0 <= 1 /\ 1 < 2 ^ (0 + 1)
    BY ONLY <2>2
  <2> QED BY <2>1, <2>3
<1>2. ASSUME NEW k \in Node, k \in G PROVE 2 * k \in G /\ 2 * k + 1 \in G
  <2>1. PICK h \in 0 .. TreeBits : 2 ^ h <= k /\ k < 2 ^ (h + 1)
    BY <1>2
  <2>2. h < TreeBits /\ \A c \in {2 * k, 2 * k + 1} : 2 ^ (h + 1) <= c /\ c < 2 ^ ((h + 1) + 1)
    BY <2>1, HighBitDoubles
  <2>3. h + 1 \in 0 .. TreeBits /\ 2 * k \in Spot /\ 2 * k + 1 \in Spot
    BY <1>0, <2>2 DEF Node, Spot
  <2> QED BY <2>2, <2>3
<1>3. G = Spot
  <2> HIDE DEF G
  <2> SUFFICES G \in SUBSET Spot
    BY <1>1, <1>2, Downwards
  <2> QED BY DEF G
<1>4. i \in G
  <2> HIDE DEF G
  <2> QED BY <1>3
<1>5. PICK h \in 0 .. TreeBits : 2 ^ h <= i /\ i < 2 ^ (h + 1)
  BY <1>4
<1>6. i \in Nat
  BY <1>0 DEF Spot
<1>7. HighBit(i) = h
  BY <1>5, <1>6, HighBitIs
<1>8. i \in Node => h < TreeBits
  BY <1>5, HighBitDoubles
<1>9. h < TreeBits => i \in Node
  <2> SUFFICES ASSUME h < TreeBits PROVE i \in Node
    OBVIOUS
  <2>1. h + 1 \in 0 .. TreeBits + 1 /\ TreeBits \in 0 .. TreeBits + 1
    BY <1>0
  <2>2. 2 ^ (h + 1) \in Nat /\ 2 ^ TreeBits \in Nat
    BY <2>1, Two
  <2>3. 2 ^ (h + 1) <= 2 ^ TreeBits
    <3>1. CASE h + 1 = TreeBits
      BY <2>2, <3>1
    <3>2. CASE h + 1 < TreeBits
      <4>1. 2 * 2 ^ (h + 1) <= 2 ^ TreeBits
        BY ONLY <2>1, <3>2, TwoGrows
      <4> QED BY ONLY <2>2, <4>1
    <3> QED BY ONLY <3>1, <3>2, <1>0, h < TreeBits, h \in 0 .. TreeBits
  <2>4. i < 2 ^ TreeBits
    BY ONLY <1>5, <1>6, <2>2, <2>3
  <2> QED BY <1>0, <1>6, <2>4, Shape DEF Node, Spot
<1> QED BY <1>5, <1>7, <1>8, <1>9

LEMMA LevelBelow ==
  /\ 1 \in Spot /\ HighBit(1) = 0
  /\ \A i \in Node : /\ i \in Spot /\ 2 * i \in Spot /\ 2 * i + 1 \in Spot
                     /\ HighBit(2 * i) = HighBit(i) + 1 /\ HighBit(2 * i + 1) = HighBit(i) + 1
<1>0. NumSplitters \in Nat /\ TreeBits \in Nat
  BY Shape, TreeBitsAssumption
<1>1. 1 \in Spot /\ HighBit(1) = 0
  <2>1. 0 \in 0 .. TreeBits /\ 1 \in Spot
    BY <1>0 DEF Spot
  <2>2. 2 ^ 0 = 1 /\ 2 ^ (0 + 1) = 2 * 2 ^ 0
    BY <2>1, DoublingAssumption
  <2>3. 2 ^ 0 <= 1 /\ 1 < 2 ^ (0 + 1)
    BY ONLY <2>2
  <2> QED BY <2>1, <2>3, HighBitIs
<1>2. ASSUME NEW i \in Node
      PROVE  /\ i \in Spot /\ 2 * i \in Spot /\ 2 * i + 1 \in Spot
             /\ HighBit(2 * i) = HighBit(i) + 1 /\ HighBit(2 * i + 1) = HighBit(i) + 1
  <2> DEFINE h == HighBit(i)
  <2>1. i \in Spot /\ 2 * i \in Spot /\ 2 * i + 1 \in Spot /\ 2 * i \in Nat /\ 2 * i + 1 \in Nat
    BY <1>0 DEF Node, Spot
  <2>2. h \in 0 .. TreeBits /\ 2 ^ h <= i /\ i < 2 ^ (h + 1)
    BY <2>1, Levels
  <2> HIDE DEF h
  <2>3. h < TreeBits /\ \A c \in {2 * i, 2 * i + 1} : 2 ^ (h + 1) <= c /\ c < 2 ^ ((h + 1) + 1)
    BY <2>2, HighBitDoubles
  <2>4. h + 1 \in 0 .. TreeBits
    BY <1>0, <2>2, <2>3
  <2>5. ASSUME NEW c \in {2 * i, 2 * i + 1} PROVE HighBit(c) = h + 1
    <3>1. c \in Nat /\ 2 ^ (h + 1) <= c /\ c < 2 ^ ((h + 1) + 1)
      BY <2>1, <2>3
    <3> QED BY ONLY <2>4, <3>1, HighBitIs
  <2> QED BY <2>1, <2>5 DEF h
<1> QED BY <1>1, <1>2

(* The places in key order that belong to a node's subtree: Wide(i) of     *)
(* them from Left(i) on, the last one being that behind the subtree.       *)
Wide(i) == 2 ^ (TreeBits - HighBit(i))
Left(i) == (i - 2 ^ HighBit(i)) * Wide(i)

LEMMA Widths ==
  /\ Left(1) = 0 /\ Wide(1) = NumSplitters + 1
  /\ \A i \in Spot : /\ Wide(i) \in Nat \ {0} /\ Left(i) \in Nat
                     /\ Left(i) + Wide(i) <= NumSplitters + 1
                     /\ 2 ^ HighBit(i) * Wide(i) = NumSplitters + 1
  /\ \A i \in Spot \ Node : Wide(i) = 1 /\ Left(i) = i - (NumSplitters + 1)
<1>0. NumSplitters \in Nat /\ TreeBits \in Nat
  BY Shape, TreeBitsAssumption
<1>1. Left(1) = 0 /\ Wide(1) = NumSplitters + 1
  <2>1. HighBit(1) = 0 /\ 2 ^ 0 = 1 /\ 2 ^ TreeBits = NumSplitters + 1 /\ TreeBits - 0 = TreeBits
    BY <1>0, LevelBelow, DoublingAssumption, Shape
  <2>2. Wide(1) = NumSplitters + 1
    BY <2>1 DEF Wide
  <2>3. Left(1) = 0 * Wide(1)
    <3> DEFINE x == 2 ^ HighBit(1) w == Wide(1)
    <3>1. x = 1
      BY <2>1
    <3>2. Left(1) = (1 - x) * w
      BY DEF Left
    <3> HIDE DEF x, w
    <3>3. Left(1) = 0 * w
      BY ONLY <3>1, <3>2
    <3> QED BY <3>3 DEF w
  <2> QED BY <1>0, <2>2, <2>3
<1>2. ASSUME NEW i \in Spot
      PROVE  /\ Wide(i) \in Nat \ {0} /\ Left(i) \in Nat
             /\ Left(i) + Wide(i) <= NumSplitters + 1
             /\ 2 ^ HighBit(i) * Wide(i) = NumSplitters + 1
             /\ i \notin Node => Wide(i) = 1 /\ Left(i) = i - (NumSplitters + 1)
  <2> DEFINE h == HighBit(i)
  <2>1. /\ h \in 0 .. TreeBits /\ 2 ^ h <= i /\ i < 2 ^ (h + 1) /\ i \in Nat
        /\ i \in Node <=> h < TreeBits
    BY <1>0, Levels DEF Spot
  <2>2. Wide(i) = 2 ^ (TreeBits - h) /\ Left(i) = (i - 2 ^ h) * Wide(i)
    BY DEF Wide, Left
  <2> HIDE DEF h
  <2>3. /\ TreeBits - h \in 0 .. TreeBits /\ TreeBits - h \in 0 .. TreeBits + 1
        /\ h \in 0 .. TreeBits + 1 /\ h + (TreeBits - h) = TreeBits
        /\ h + (TreeBits - h) <= TreeBits + 1
    BY <1>0, <2>1
  <2>4. 2 ^ (h + (TreeBits - h)) = 2 ^ h * 2 ^ (TreeBits - h)
    BY ONLY <2>1, <2>3, TwoSplits
  <2>5. 2 ^ h * Wide(i) = NumSplitters + 1
    BY <2>2, <2>3, <2>4, Shape
  <2>6. Wide(i) \in Nat \ {0} /\ 2 ^ h \in Nat \ {0}
    BY <2>2, <2>3, Two
  <2>7. 2 ^ (h + 1) = 2 * 2 ^ h
    BY <2>1, DoublingAssumption
  <2> DEFINE a == 2 ^ h b == 2 ^ (h + 1) w == Wide(i) l == Left(i)
  <2> HIDE DEF a, b, w, l
  <2>8. /\ a \in Nat /\ w \in Nat \ {0} /\ b = 2 * a /\ a <= i /\ i < b /\ i \in Nat
        /\ l = (i - a) * w /\ a * w = NumSplitters + 1
    BY <2>1, <2>2, <2>5, <2>6, <2>7 DEF a, b, w, l
  <2>9. l \in Nat /\ l + w <= NumSplitters + 1
    <3> DEFINE d == i - a
    <3>1. d \in Nat /\ d + 1 <= a /\ l = d * w
      BY ONLY <2>8
    <3> HIDE DEF d
    <3>2. (d + 1) * w <= a * w
      BY ONLY <2>8, <3>1
    <3>3. (d + 1) * w = d * w + w /\ d * w \in Nat
      BY ONLY <2>8, <3>1
    <3> QED BY ONLY <1>0, <2>8, <3>1, <3>2, <3>3
  <2>10. ASSUME i \notin Node PROVE w = 1 /\ l = i - (NumSplitters + 1)
    <3>1. h = TreeBits /\ TreeBits - h = 0
      BY <1>0, <2>1, <2>10
    <3>2. w = 1
      BY <2>2, <3>1, DoublingAssumption DEF w
    <3>3. a = NumSplitters + 1
      BY <3>1, Shape DEF a
    <3> QED BY ONLY <1>0, <2>8, <3>2, <3>3
  <2> QED BY <2>5, <2>8, <2>9, <2>10 DEF w, l, h
<1> QED BY <1>1, <1>2

LEMMA ChildPlaces ==
  ASSUME NEW i \in Node
  PROVE  /\ 2 * i \in Spot /\ 2 * i + 1 \in Spot /\ i \in Spot
         /\ Wide(i) = 2 * Wide(2 * i) /\ Wide(2 * i + 1) = Wide(2 * i)
         /\ Left(2 * i) = Left(i) /\ Left(2 * i + 1) = Left(i) + Wide(2 * i)
         /\ Wide(2 * i) = 2 ^ (TreeBits - 1 - HighBit(i))
<1> DEFINE h == HighBit(i)
<1>0. TreeBits \in Nat /\ i \in Nat
  BY TreeBitsAssumption, Shape DEF Node
<1>1. /\ 2 * i \in Spot /\ 2 * i + 1 \in Spot /\ i \in Spot
      /\ HighBit(2 * i) = h + 1 /\ HighBit(2 * i + 1) = h + 1
  BY LevelBelow
<1>2. h \in 0 .. TreeBits /\ h < TreeBits
  BY <1>1, Levels
<1>3. /\ Wide(i) = 2 ^ (TreeBits - h) /\ Left(i) = (i - 2 ^ h) * Wide(i)
      /\ Wide(2 * i) = 2 ^ (TreeBits - (h + 1)) /\ Wide(2 * i + 1) = 2 ^ (TreeBits - (h + 1))
      /\ Left(2 * i) = (2 * i - 2 ^ (h + 1)) * Wide(2 * i)
      /\ Left(2 * i + 1) = (2 * i + 1 - 2 ^ (h + 1)) * Wide(2 * i + 1)
  <2>1. Wide(i) = 2 ^ (TreeBits - h) /\ Left(i) = (i - 2 ^ h) * Wide(i)
    BY DEF Wide, Left
  <2>2. Wide(2 * i) = 2 ^ (TreeBits - (h + 1)) /\ Wide(2 * i + 1) = 2 ^ (TreeBits - (h + 1))
    BY <1>1 DEF Wide
  <2>3. Left(2 * i) = (2 * i - 2 ^ (h + 1)) * Wide(2 * i)
    <3>1. Left(2 * i) = (2 * i - 2 ^ HighBit(2 * i)) * Wide(2 * i)
      BY DEF Left
    <3> QED BY ONLY <1>1, <3>1
  <2>4. Left(2 * i + 1) = (2 * i + 1 - 2 ^ (h + 1)) * Wide(2 * i + 1)
    <3> DEFINE c == 2 * i + 1
    <3>1. HighBit(c) = h + 1
      BY <1>1
    <3> HIDE DEF c, h
    <3>2. Left(c) = (c - 2 ^ HighBit(c)) * Wide(c)
      BY DEF Left
    <3>3. Left(c) = (c - 2 ^ (h + 1)) * Wide(c)
      BY ONLY <3>1, <3>2
    <3>4. c = 2 * i + 1
      BY DEF c
    <3>5. c - 2 ^ (h + 1) = 2 * i + 1 - 2 ^ (h + 1)
      <4>1. 2 ^ (h + 1) \in Nat
        <5>1. h + 1 \in 0 .. TreeBits + 1
          BY <1>0, <1>2
        <5> QED BY ONLY <5>1, Two
      <4> QED BY ONLY <1>0, <3>4, <4>1
    <3> QED BY ONLY <3>3, <3>4, <3>5
  <2> QED BY ONLY <2>1, <2>2, <2>3, <2>4
<1> HIDE DEF h
<1>4. /\ TreeBits - (h + 1) \in 0 .. TreeBits /\ TreeBits - (h + 1) \in 0 .. TreeBits + 1
      /\ TreeBits - h = (TreeBits - (h + 1)) + 1 /\ TreeBits - 1 - h = TreeBits - (h + 1)
      /\ h \in 0 .. TreeBits + 1
  BY ONLY <1>0, <1>2
<1>5. 2 ^ (TreeBits - h) = 2 * 2 ^ (TreeBits - (h + 1)) /\ 2 ^ (h + 1) = 2 * 2 ^ h
  BY <1>2, <1>4, DoublingAssumption
<1>6. 2 ^ (TreeBits - (h + 1)) \in Nat /\ 2 ^ h \in Nat
  BY <1>4, Two
<1> DEFINE w == 2 ^ (TreeBits - (h + 1)) a == 2 ^ h
<1>7. /\ w \in Nat /\ a \in Nat /\ Wide(2 * i) = w /\ Wide(2 * i + 1) = w /\ Wide(i) = 2 * w
      /\ Left(i) = (i - a) * (2 * w) /\ Left(2 * i) = (2 * i - 2 * a) * w
      /\ Left(2 * i + 1) = (2 * i + 1 - 2 * a) * w
  BY <1>3, <1>5, <1>6
<1> HIDE DEF w, a
<1> DEFINE d == i - a
<1>8. d \in Int /\ 2 * i - 2 * a = 2 * d /\ 2 * i + 1 - 2 * a = 2 * d + 1
  BY ONLY <1>0, <1>7
<1> HIDE DEF d
<1>9. d * (2 * w) = (2 * d) * w /\ (2 * d + 1) * w = (2 * d) * w + w
  BY ONLY <1>7, <1>8
<1>10. Left(i) = d * (2 * w) /\ Left(2 * i) = (2 * d) * w /\ Left(2 * i + 1) = (2 * d + 1) * w
  BY <1>7, <1>8 DEF d
<1> QED BY <1>1, <1>4, <1>7, <1>9, <1>10 DEF w, h

(* level_to_preorder counts the places from one. *)
LEMMA LevelToPreorderIs ==
  ASSUME NEW i \in Node
  PROVE  /\ LevelToPreorder(i) = Left(i) + Wide(2 * i)
         /\ LevelToPreorder(i) \in 1 .. NumSplitters
         /\ (i * 2 ^ (TreeBits - HighBit(i))) % (NumSplitters + 1) = Left(i)
<1> DEFINE h == HighBit(i) w == Wide(i) l == Left(i) a == 2 ^ h
<1>0. TreeBits \in Nat /\ i \in Nat /\ NumSplitters \in Nat
  BY TreeBitsAssumption, Shape DEF Node
<1>1. h \in 0 .. TreeBits /\ h < TreeBits /\ i \in Spot /\ a <= i /\ TreeBits - 1 - h \in 0 .. TreeBits + 1
  BY <1>0, Levels, ChildPlaces
<1>2. /\ w \in Nat \ {0} /\ l \in Nat /\ l + w <= NumSplitters + 1 /\ a * w = NumSplitters + 1
      /\ l = (i - a) * w
  BY <1>1, Widths DEF Left
<1>3. TreeBits - 1 - h + 1 = TreeBits - h /\ a \in Nat
  BY <1>0, <1>1, Two
<1>4. Wide(2 * i) = 2 ^ (TreeBits - 1 - h) /\ w = 2 * Wide(2 * i) /\ w = 2 ^ (TreeBits - h)
  BY ChildPlaces DEF Wide
<1>5. 2 ^ (TreeBits - 1 - h) \in Nat
  BY <1>1, Two
<1>6. (i * w) % (NumSplitters + 1) = l
  <2> HIDE DEF h, w, l, a
  <2>1. i * w = a * w + (i - a) * w
    BY ONLY <1>0, <1>2, <1>3
  <2>2. i * w = 1 * (NumSplitters + 1) + l /\ i * w \in Nat
    BY ONLY <1>0, <1>2, <2>1
  <2>3. NumSplitters + 1 \in Nat \ {0} /\ l \in 0 .. (NumSplitters + 1) - 1 /\ 1 \in Nat
    BY ONLY <1>0, <1>2
  <2> QED BY ONLY <2>2, <2>3, DigitOf
<1>7. LevelToPreorder(i) = ((i * 2 ^ (TreeBits - h)) % (2 ^ TreeBits)) + 2 ^ (TreeBits - 1 - h)
  BY <1>3 DEF LevelToPreorder
<1>8. LevelToPreorder(i) = l + Wide(2 * i)
  BY <1>4, <1>6, <1>7, Shape
<1>9. LevelToPreorder(i) \in 1 .. NumSplitters
  <2> DEFINE v == Wide(2 * i)
  <2>1. v \in Nat /\ w = 2 * v /\ LevelToPreorder(i) = l + v
    BY <1>4, <1>5, <1>8
  <2> HIDE DEF v, l, w
  <2> QED BY ONLY <1>0, <1>2, <2>1
<1> QED BY <1>4, <1>6, <1>8, <1>9

(* The lowest bit of a number is one of its kind. *)
LEMMA LowBitOnly ==
  ASSUME NEW p \in Nat, NEW k \in 0 .. TreeBits, NEW l \in 0 .. TreeBits, k < l,
         p % (2 ^ (l + 1)) = 2 ^ l, p % (2 ^ (k + 1)) = 2 ^ k
  PROVE  FALSE
<1>0. /\ TreeBits \in Nat /\ k \in Nat /\ l \in Nat /\ l - (k + 1) \in 0 .. TreeBits
      /\ k + 1 \in 0 .. TreeBits /\ (l - (k + 1)) + (k + 1) = l
      /\ (l - (k + 1)) + (k + 1) <= TreeBits + 1
      /\ k + 1 \in 0 .. TreeBits + 1 /\ l + 1 \in 0 .. TreeBits + 1 /\ l - (k + 1) \in 0 .. TreeBits + 1
      /\ k \in 0 .. TreeBits + 1
  BY TreeBitsAssumption
<1>1. 2 ^ l = 2 ^ (l - (k + 1)) * 2 ^ (k + 1)
  <2>1. 2 ^ ((l - (k + 1)) + (k + 1)) = 2 ^ (l - (k + 1)) * 2 ^ (k + 1)
    BY ONLY <1>0, TwoSplits
  <2> QED BY <1>0, <2>1
<1> DEFINE c == 2 ^ (l - (k + 1)) m == 2 ^ (k + 1) n == 2 ^ (l + 1) b == 2 ^ l s == 2 ^ k
<1>2. /\ c \in Nat /\ m \in Nat \ {0} /\ n \in Nat \ {0} /\ s \in Nat \ {0} /\ n = 2 * b /\ b = c * m
      /\ p % n = b /\ p % m = s
  BY <1>0, <1>1, Two, DoublingAssumption
<1> HIDE DEF c, m, n, b, s
<1> DEFINE q == p \div n
<1>3. q \in Nat /\ q * n <= p /\ p < q * n + n
  BY ONLY <1>2, Quotient, p \in Nat
<1> HIDE DEF q
<1> DEFINE g == p - q * n
<1>4. g \in 0 .. n - 1 /\ p = q * n + g
  BY ONLY <1>2, <1>3, p \in Nat
<1> HIDE DEF g
<1>5. p % n = g
  BY ONLY <1>2, <1>3, <1>4, DigitOf, p \in Nat
<1>6. p = q * n + b
  BY ONLY <1>2, <1>4, <1>5
<1> DEFINE r == 2 * (q * c) + c
<1>7. r \in Nat /\ p = r * m + 0
  <2>1. q * n = (2 * (q * c)) * m
    <3>1. q * (2 * (c * m)) = (2 * (q * c)) * m
      BY ONLY <1>2, <1>3
    <3> QED BY ONLY <1>2, <3>1
  <2>2. (2 * (q * c) + c) * m = (2 * (q * c)) * m + c * m /\ q * c \in Nat /\ c * m \in Nat
    BY ONLY <1>2, <1>3
  <2> QED BY ONLY <1>2, <1>6, <2>1, <2>2, p \in Nat DEF r
<1> HIDE DEF r
<1>8. 0 \in 0 .. m - 1
  BY ONLY <1>2
<1>9. p % m = 0
  BY ONLY <1>2, <1>7, <1>8, DigitOf, p \in Nat
<1> QED BY ONLY <1>2, <1>9

LEMMA LowBitIs ==
  ASSUME NEW p \in Nat, NEW l \in 0 .. TreeBits, p % (2 ^ (l + 1)) = 2 ^ l
  PROVE  LowBit(p) = l
<1>1. ASSUME NEW k \in 0 .. TreeBits, p % (2 ^ (k + 1)) = 2 ^ k PROVE k = l
  <2>1. k \in Nat /\ l \in Nat
    BY TreeBitsAssumption
  <2>2. ~(k < l)
    BY <1>1, LowBitOnly
  <2>3. ~(l < k)
    BY <1>1, LowBitOnly
  <2> QED BY ONLY <2>1, <2>2, <2>3
<1> QED BY <1>1 DEF LowBit

(* The two conversions are inverse to each other. *)
LEMMA PreToLevelIs ==
  ASSUME NEW i \in Node
  PROVE  PreToLevelorder(LevelToPreorder(i)) = i
<1> DEFINE h == HighBit(i) l == TreeBits - 1 - h v == 2 ^ l a == 2 ^ h p == LevelToPreorder(i) d == i - a
<1>0. TreeBits \in Nat /\ i \in Nat /\ NumSplitters \in Nat
  BY TreeBitsAssumption, Shape DEF Node
<1>1. h \in 0 .. TreeBits /\ h < TreeBits /\ i \in Spot /\ a <= i
  BY <1>0, Levels, ChildPlaces
<1>2. /\ l \in 0 .. TreeBits /\ l \in 0 .. TreeBits + 1 /\ l + 1 \in 0 .. TreeBits + 1
      /\ TreeBits - (l + 1) = h /\ h \in 0 .. TreeBits + 1
  BY <1>0, <1>1
<1>3. /\ v \in Nat \ {0} /\ a \in Nat /\ 2 ^ (l + 1) = 2 * v /\ p \in Nat
      /\ Left(i) = d * Wide(i) /\ p = Left(i) + v /\ Wide(i) = 2 * v
  <2>1. v \in Nat \ {0} /\ a \in Nat /\ 2 ^ (l + 1) = 2 * v
    BY <1>2, Two, DoublingAssumption
  <2>2. p = Left(i) + Wide(2 * i) /\ Wide(2 * i) = v /\ Wide(i) = 2 * Wide(2 * i) /\ p \in 1 .. NumSplitters
    BY LevelToPreorderIs, ChildPlaces
  <2>3. Left(i) = d * Wide(i)
    BY DEF Left
  <2>4. p \in Nat
    BY <1>0, <2>2
  <2> HIDE DEF h, l, v, a, p, d
  <2> QED BY ONLY <2>1, <2>2, <2>3, <2>4
<1>4. d \in Nat
  BY <1>0, <1>1, <1>3
<1> DEFINE W == 2 * v
<1>5. p = d * W + v /\ W \in Nat \ {0} /\ v \in 0 .. W - 1 /\ d * W <= p /\ p < d * W + W
  <2> HIDE DEF h, l, v, a, p, d
  <2> QED BY ONLY <1>3, <1>4
<1>6. p % W = v /\ p \div W = d
  <2> HIDE DEF h, l, v, a, p, d, W
  <2>1. p % W = v
    BY ONLY <1>3, <1>4, <1>5, DigitOf
  <2>2. p \div W = d
    BY ONLY <1>3, <1>4, <1>5, QuotientIs
  <2> QED BY ONLY <2>1, <2>2
<1>7. LowBit(p) = l
  <2>1. p % (2 ^ (l + 1)) = 2 ^ l
    BY <1>3, <1>6
  <2> HIDE DEF h, l, p
  <2> QED BY ONLY <1>2, <1>3, <2>1, LowBitIs
<1>8. PreToLevelorder(p) = (p \div (2 ^ (l + 1))) + 2 ^ (TreeBits - (l + 1))
  <2> HIDE DEF h, l, p
  <2> QED BY <1>7 DEF PreToLevelorder
<1>9. PreToLevelorder(p) = d + a
  <2>1. p \div (2 ^ (l + 1)) = d
    BY <1>3, <1>6
  <2>2. 2 ^ (TreeBits - (l + 1)) = a
    BY <1>2
  <2> HIDE DEF l, p, a, d
  <2> QED BY ONLY <1>8, <2>1, <2>2
<1>10. d + a = i
  BY <1>0, <1>3
<1> HIDE DEF p, d, a
<1> QED BY <1>9, <1>10 DEF p

-----------------------------------------------------------------------------
(* Every place is that of a node, the one that pre_to_levelorder says. *)
LEMMA Conversions ==
  \A p \in 1 .. NumSplitters : PreToLevelorder(p) \in Node /\ LevelToPreorder(PreToLevelorder(p)) = p
<1> DEFINE Found(p) == \E j \in Node : LevelToPreorder(j) = p
           G == {i \in Spot : \A p \in Left(i) + 1 .. Left(i) + Wide(i) - 1 : Found(p)}
<1> HIDE DEF Found
<1>0. NumSplitters \in Nat
  BY Shape
<1>1. ASSUME NEW i \in Spot \ Node PROVE i \in G
  BY <1>1, Widths
<1>2. ASSUME NEW i \in Node, 2 * i \in G, 2 * i + 1 \in G PROVE i \in G
  <2> DEFINE l == Left(i) v == Wide(2 * i)
  <2>1. /\ Left(2 * i) = l /\ Left(2 * i + 1) = l + v /\ Wide(i) = 2 * v /\ Wide(2 * i + 1) = v
        /\ i \in Spot /\ l \in Nat /\ v \in Nat
    BY ChildPlaces, Widths
  <2>2. Found(l + v)
    BY LevelToPreorderIs DEF Found
  <2>3. \A p \in l + 1 .. l + v - 1 : Found(p)
    BY <1>2, <2>1
  <2>4. \A p \in (l + v) + 1 .. (l + v) + v - 1 : Found(p)
    BY <1>2, <2>1
  <2> HIDE DEF l, v
  <2>5. \A p \in l + 1 .. l + 2 * v - 1 : Found(p)
    BY ONLY <2>1, <2>2, <2>3, <2>4
  <2> QED BY <2>1, <2>5 DEF l
<1>3. G = Spot
  <2> HIDE DEF G
  <2> SUFFICES G \in SUBSET Spot
    BY <1>1, <1>2, Upwards
  <2> QED BY DEF G
<1>4. 1 \in G
  <2> HIDE DEF G
  <2> QED BY <1>3, LevelBelow
<1>5. ASSUME NEW p \in 1 .. NumSplitters
      PROVE PreToLevelorder(p) \in Node /\ LevelToPreorder(PreToLevelorder(p)) = p
  <2>1. Found(p)
    BY <1>0, <1>4, Widths
  <2> QED BY <2>1, PreToLevelIs DEF Found
<1> QED BY <1>5

LEMMA Joined ==
  ASSUME NEW S, NEW s \in Seq(S), NEW x \in S, NEW t \in Seq(S)
  PROVE  /\ s \o <<x>> \o t \in Seq(S) /\ Len(s) \in Nat
         /\ Len(s \o <<x>> \o t) = Len(s) + 1 + Len(t)
         /\ \A k \in 1 .. Len(s) + 1 + Len(t) :
              (s \o <<x>> \o t)[k] = IF k <= Len(s) THEN s[k]
                                     ELSE IF k = Len(s) + 1 THEN x ELSE t[k - (Len(s) + 1)]
<1> DEFINE u == s \o <<x>> w == u \o t n == Len(s) m == Len(t)
<1>0. n \in Nat /\ m \in Nat
  BY LenProperties
<1>1. <<x>> \in Seq(S) /\ Len(<<x>>) = 1 /\ <<x>>[1] = x
  OBVIOUS
<1>2. /\ u \in Seq(S) /\ Len(u) = n + 1
      /\ \A k \in 1 .. n + 1 : u[k] = IF k <= n THEN s[k] ELSE <<x>>[k - n]
  BY <1>1, ConcatProperties
<1>3. /\ w \in Seq(S) /\ Len(w) = (n + 1) + m
      /\ \A k \in 1 .. (n + 1) + m : w[k] = IF k <= n + 1 THEN u[k] ELSE t[k - (n + 1)]
  BY <1>2, ConcatProperties
<1>4. ASSUME NEW k \in 1 .. n + 1 + m
      PROVE w[k] = IF k <= n THEN s[k] ELSE IF k = n + 1 THEN x ELSE t[k - (n + 1)]
  <2> HIDE DEF u, w, n, m
  <2>1. CASE k <= n
    <3>1. k \in 1 .. n + 1 /\ k \in 1 .. (n + 1) + m /\ k <= n + 1
      BY ONLY <1>0, <2>1, k \in 1 .. n + 1 + m
    <3> QED BY ONLY <1>2, <1>3, <2>1, <3>1
  <2>2. CASE k = n + 1
    <3>1. k \in 1 .. n + 1 /\ k \in 1 .. (n + 1) + m /\ k <= n + 1 /\ ~(k <= n) /\ k - n = 1
      BY ONLY <1>0, <2>2
    <3> QED BY ONLY <1>1, <1>2, <1>3, <2>2, <3>1
  <2>3. CASE k > n + 1
    <3>1. k \in 1 .. (n + 1) + m /\ ~(k <= n + 1) /\ ~(k <= n) /\ k # n + 1
      BY ONLY <1>0, <2>3, k \in 1 .. n + 1 + m
    <3> QED BY ONLY <1>3, <3>1
  <2> QED BY ONLY <1>0, <2>1, <2>2, <2>3, k \in 1 .. n + 1 + m
<1> HIDE DEF u, w, n, m
<1>5. Len(w) = n + 1 + m
  BY ONLY <1>0, <1>3
<1> QED BY ONLY <1>0, <1>3, <1>4, <1>5 DEF w, u, n, m

(* The nodes of the subtree at i in key order. *)
Emitted(i) == [k \in 1 .. Wide(i) - 1 |-> PreToLevelorder(Left(i) + k)]

LEMMA EmittedIs ==
  /\ \A i \in Spot : Emitted(i) \in Seq(Node)
  /\ \A i \in Spot \ Node : Emitted(i) = <<>>
  /\ \A i \in Node : Emitted(i) = Emitted(2 * i) \o <<i>> \o Emitted(2 * i + 1)
<1>0. NumSplitters \in Nat
  BY Shape
<1>1. ASSUME NEW i \in Spot PROVE Emitted(i) \in Seq(Node) /\ Len(Emitted(i)) = Wide(i) - 1
  <2>1. Wide(i) \in Nat \ {0} /\ Left(i) \in Nat /\ Left(i) + Wide(i) <= NumSplitters + 1
    BY Widths
  <2>2. \A k \in 1 .. Wide(i) - 1 : Left(i) + k \in 1 .. NumSplitters
    BY <1>0, <2>1
  <2>3. \A k \in 1 .. Wide(i) - 1 : PreToLevelorder(Left(i) + k) \in Node
    BY <2>2, Conversions
  <2>4. Wide(i) - 1 \in Nat
    BY <2>1
  <2> QED BY <2>3, <2>4 DEF Emitted
<1>2. ASSUME NEW i \in Spot \ Node PROVE Emitted(i) = <<>>
  <2>1. Len(Emitted(i)) = 0 /\ Emitted(i) \in Seq(Node)
    BY <1>1, Widths
  <2> QED BY <2>1, EmptySeq
<1>3. ASSUME NEW i \in Node PROVE Emitted(i) = Emitted(2 * i) \o <<i>> \o Emitted(2 * i + 1)
  <2> DEFINE l == Left(i) v == Wide(2 * i) s == Emitted(2 * i) t == Emitted(2 * i + 1)
             w == s \o <<i>> \o t
  <2>1. /\ 2 * i \in Spot /\ 2 * i + 1 \in Spot /\ i \in Spot
        /\ Left(2 * i) = l /\ Left(2 * i + 1) = l + v /\ Wide(i) = 2 * v /\ Wide(2 * i + 1) = v
        /\ l \in Nat /\ v \in Nat \ {0}
    BY ChildPlaces, Widths
  <2>2. s \in Seq(Node) /\ t \in Seq(Node) /\ Len(s) = v - 1 /\ Len(t) = v - 1
    BY <1>1, <2>1
  <2>3. /\ w \in Seq(Node) /\ Len(w) = Len(s) + 1 + Len(t)
        /\ \A k \in 1 .. Len(s) + 1 + Len(t) :
              w[k] = IF k <= Len(s) THEN s[k]
                     ELSE IF k = Len(s) + 1 THEN i ELSE t[k - (Len(s) + 1)]
    BY <2>2, Joined
  <2>4. Emitted(i) \in Seq(Node) /\ Len(Emitted(i)) = 2 * v - 1
    BY <1>1, <2>1
  <2>5. Len(w) = 2 * v - 1 /\ Len(s) + 1 + Len(t) = 2 * v - 1 /\ Len(s) + 1 = v
    <3> HIDE DEF w, s, t, v
    <3> QED BY ONLY <2>1, <2>2, <2>3
  <2>6. ASSUME NEW k \in 1 .. 2 * v - 1 PROVE Emitted(i)[k] = w[k]
    <3>1. Emitted(i)[k] = PreToLevelorder(l + k)
      BY <2>1 DEF Emitted
    <3>2. w[k] = IF k <= v - 1 THEN s[k] ELSE IF k = v THEN i ELSE t[k - v]
      <4> HIDE DEF w, s, t, v
      <4> QED BY ONLY <2>2, <2>3, <2>5, k \in 1 .. 2 * v - 1
    <3>3. CASE k <= v - 1
      <4>1. k \in 1 .. v - 1
        BY <2>1, <3>3
      <4>2. s[k] = PreToLevelorder(l + k)
        BY <2>1, <4>1 DEF Emitted
      <4> HIDE DEF w, s, t, v
      <4> QED BY ONLY <3>1, <3>2, <3>3, <4>2
    <3>4. CASE k = v
      <4>1. LevelToPreorder(i) = l + v
        BY LevelToPreorderIs
      <4>2. PreToLevelorder(l + v) = i
        BY <4>1, PreToLevelIs
      <4>3. ~(k <= v - 1)
        BY <2>1, <3>4
      <4> HIDE DEF w, s, t, v
      <4> QED BY ONLY <3>1, <3>2, <3>4, <4>2, <4>3
    <3>5. CASE k > v
      <4>1. k - v \in 1 .. v - 1 /\ (l + v) + (k - v) = l + k /\ ~(k <= v - 1) /\ k # v
        BY <2>1, <3>5
      <4>2. t[k - v] = PreToLevelorder((l + v) + (k - v))
        BY <2>1, <4>1 DEF Emitted
      <4> HIDE DEF w, s, t, v
      <4> QED BY ONLY <3>1, <3>2, <4>1, <4>2
    <3>6. v \in Nat /\ k \in Int
      BY <2>1
    <3> HIDE DEF v, l, s, t, w
    <3> QED BY ONLY <3>3, <3>4, <3>5, <3>6
  <2> HIDE DEF w, v
  <2> QED BY ONLY <2>3, <2>4, <2>5, <2>6, SeqEqual DEF w
<1> QED BY <1>1, <1>2, <1>3

(* The recursion emits them. *)
LEMMA InOrderIs ==
  \A i \in Spot : InOrder[i] = Emitted(i)
<1> DEFINE Recurses(f) == f = [i \in 1 .. 2 * NumSplitters + 1 |->
             IF i > NumSplitters THEN <<>> ELSE f[2 * i] \o <<i>> \o f[2 * i + 1]]
           e == [i \in Spot |-> Emitted(i)]
<1>0. NumSplitters \in Nat
  BY Shape
<1>1. Recurses(e)
  <2>1. ASSUME NEW i \in Spot
        PROVE e[i] = IF i > NumSplitters THEN <<>> ELSE e[2 * i] \o <<i>> \o e[2 * i + 1]
    <3>1. CASE i > NumSplitters
      <4>1. i \in Spot \ Node
        BY <1>0, <3>1 DEF Spot, Node
      <4> QED BY <3>1, <4>1, EmittedIs
    <3>2. CASE ~(i > NumSplitters)
      <4>1. i \in Node
        BY <1>0, <3>2 DEF Spot, Node
      <4>2. 2 * i \in Spot /\ 2 * i + 1 \in Spot
        BY <4>1, LevelBelow
      <4>3. e[i] = Emitted(i) /\ e[2 * i] = Emitted(2 * i) /\ e[2 * i + 1] = Emitted(2 * i + 1)
        BY <4>2
      <4> HIDE DEF e
      <4> QED BY <3>2, <4>1, <4>3, EmittedIs
    <3> QED BY <3>1, <3>2
  <2>2. e = [i \in Spot |-> e[i]]
    OBVIOUS
  <2> HIDE DEF e
  <2>3. e = [i \in Spot |-> IF i > NumSplitters THEN <<>> ELSE e[2 * i] \o <<i>> \o e[2 * i + 1]]
    BY <2>1, <2>2
  <2> QED BY <2>3 DEF Spot
<1>2. InOrder = CHOOSE f : Recurses(f)
  BY DEF InOrder
<1>3. Recurses(InOrder)
  <2> HIDE DEF Recurses
  <2> QED BY <1>1, <1>2
<1>4. \A i \in Spot : InOrder[i] = IF i > NumSplitters THEN <<>> ELSE InOrder[2 * i] \o <<i>> \o InOrder[2 * i + 1]
  BY <1>3 DEF Spot
<1> DEFINE G == {i \in Spot : InOrder[i] = Emitted(i)}
<1>5. \A i \in Spot \ Node : i \in G
  <2> SUFFICES ASSUME NEW i \in Spot \ Node PROVE InOrder[i] = Emitted(i)
    OBVIOUS
  <2>1. i > NumSplitters
    BY <1>0 DEF Spot, Node
  <2> QED BY <1>4, <2>1, EmittedIs
<1>6. \A i \in Node : 2 * i \in G /\ 2 * i + 1 \in G => i \in G
  <2> SUFFICES ASSUME NEW i \in Node, 2 * i \in G, 2 * i + 1 \in G PROVE InOrder[i] = Emitted(i)
    BY LevelBelow
  <2>1. ~(i > NumSplitters) /\ i \in Spot
    BY <1>0, LevelBelow DEF Node
  <2> QED BY <1>4, <2>1, EmittedIs
<1>7. G = Spot
  <2> HIDE DEF G
  <2> SUFFICES G \in SUBSET Spot
    BY <1>5, <1>6, Upwards
  <2> QED BY DEF G
<1> QED BY <1>7

-----------------------------------------------------------------------------
LEMMA LeastOf ==
  ASSUME NEW S \in SUBSET Nat, S # {}
  PROVE  LET least == CHOOSE m \in S : \A k \in S : m <= k
         IN  least \in S /\ \A k \in S : least <= k
<1>1. PICK n \in S : \A m \in S : ~ (<<m, n>> \in OpToRel(<, Nat))
  <2> HIDE DEF OpToRel, IsWellFoundedOn
  <2> QED BY NatLessThanWellFounded, WFMin
<1>2. \A m \in S : n <= m
  <2> SUFFICES ASSUME NEW m \in S, m < n PROVE FALSE
    OBVIOUS
  <2>1. <<m, n>> \in OpToRel(<, Nat)
    BY DEF OpToRel
  <2> QED BY <1>1, <2>1
<1> QED BY <1>2

(* A range in the middle of a sample of n keys, perhaps empty. *)
RangeOk(r, n) ==
  /\ r \in Nat \X Nat
  /\ r[1] <= r[2] /\ r[1] < n /\ r[2] <= n

LEMMA MiddleIs ==
  ASSUME NEW keys, NEW n \in Nat, NEW r, RangeOk(r, n)
  PROVE  /\ Mid(r) \in Nat /\ Mid(r) < n /\ r[1] <= Mid(r) /\ Mid(r) <= r[2]
         /\ MidLo(keys, r) \in r[1] .. Mid(r)
         /\ MidHi(keys, r) \in Mid(r) .. r[2] /\ MidHi(keys, r) < n
<1> DEFINE a == r[1] b == r[2] m == Mid(r)
<1>0. a \in Nat /\ b \in Nat /\ a <= b /\ a < n /\ b <= n
  BY DEF RangeOk
<1>1. m = a + (b - a) \div 2
  BY DEF Mid
<1> HIDE DEF a, b, m
<1>2. /\ m \in Nat /\ a <= m /\ m <= b /\ (a < b => m < b) /\ m < n
  BY ONLY <1>0, <1>1, n \in Nat
<1> DEFINE lows == {k \in a .. m : \A j \in k .. m - 1 : keys[j] = keys[m]}
           highs == {k \in m .. b : k + 1 >= b \/ keys[k] # keys[m]}
<1>3. m \in lows /\ lows \in SUBSET Nat /\ lows \subseteq a .. m
  BY <1>0, <1>2
<1>4. MidLo(keys, r) \in lows
  <2>1. MidLo(keys, r) = CHOOSE k \in lows : \A j \in lows : k <= j
    BY DEF MidLo, a, m
  <2> HIDE DEF lows
  <2> QED BY <1>3, <2>1, LeastOf
<1>5. highs # {} /\ highs \in SUBSET Nat /\ highs \subseteq m .. b
  <2>1. IF a < b THEN b - 1 \in highs ELSE b \in highs
    BY <1>0, <1>2
  <2>2. highs \subseteq m .. b /\ \A k \in m .. b : k \in Nat
    BY <1>0, <1>2
  <2> HIDE DEF highs
  <2> QED BY <2>1, <2>2
<1> DEFINE high == CHOOSE k \in highs : \A j \in highs : k <= j
<1>6. MidHi(keys, r) = high
  BY DEF MidHi, b, m
<1>7. high \in highs
  <2> HIDE DEF highs
  <2> QED BY <1>5, LeastOf
<1>8. high < n
  <2>1. CASE a < b
    <3>1. b - 1 \in highs
      BY <1>0, <1>2, <2>1
    <3>3. high <= b - 1
      <4> HIDE DEF highs
      <4> QED BY <1>5, <3>1, LeastOf
    <3>4. high \in m .. b
      <4> HIDE DEF highs, high
      <4> QED BY <1>5, <1>7
    <3> HIDE DEF high
    <3> QED BY ONLY <1>0, <1>2, <3>3, <3>4, n \in Nat
  <2>2. CASE a = b
    <3>1. high \in m .. b
      <4> HIDE DEF highs, high
      <4> QED BY <1>5, <1>7
    <3> HIDE DEF high
    <3> QED BY ONLY <1>0, <1>2, <2>2, <3>1, n \in Nat
  <2> QED BY ONLY <1>0, <2>1, <2>2
<1>9. MidLo(keys, r) \in a .. m /\ MidHi(keys, r) \in m .. b
  <2> HIDE DEF lows, highs, high
  <2> QED BY <1>3, <1>4, <1>5, <1>6, <1>7
<1> HIDE DEF high
<1> QED BY <1>2, <1>6, <1>8, <1>9 DEF a, b, m

(* What the recursion over ranges of n keys says of the nodes up to m. *)
Divided(range, keys, n, m) ==
  range = [i \in 1 .. m |->
            IF i = 1 THEN <<0, n>>
            ELSE LET r == range[i \div 2]
                 IN  IF i % 2 = 0 THEN <<r[1], MidLo(keys, r)>> ELSE <<MidHi(keys, r), r[2]>>]

LEMMA DividedExists ==
  ASSUME NEW keys, NEW n, NEW m \in Nat
  PROVE  \E range : Divided(range, keys, n, m)
<1> DEFINE P == {k \in Nat : \E f : Divided(f, keys, n, k)}
           next(i, r) == IF i = 1 THEN <<0, n>>
                         ELSE IF i % 2 = 0 THEN <<r[1], MidLo(keys, r)>> ELSE <<MidHi(keys, r), r[2]>>
<1>1. 0 \in P
  <2> DEFINE g == [i \in 1 .. 0 |-> i]
  <2>1. Divided(g, keys, n, 0)
    BY DEF Divided
  <2> QED BY <2>1
<1>2. ASSUME NEW k \in P PROVE k + 1 \in P
  <2>0. k \in Nat
    OBVIOUS
  <2>1. PICK f : Divided(f, keys, n, k)
    OBVIOUS
  <2>2. \A i \in 1 .. k : f[i] = next(i, f[i \div 2])
    BY <2>1 DEF Divided
  <2> DEFINE last == next(k + 1, f[(k + 1) \div 2])
             g == [i \in 1 .. k + 1 |-> IF i = k + 1 THEN last ELSE f[i]]
             h == [i \in 1 .. k + 1 |-> next(i, g[i \div 2])]
  <2>3. ASSUME NEW i \in 1 .. k + 1 PROVE g[i] = h[i]
    <3>1. CASE i = 1
      <4>1. h[i] = <<0, n>>
        BY <3>1
      <4>2. g[i] = IF i = k + 1 THEN last ELSE f[i]
        OBVIOUS
      <4>3. CASE k = 0
        BY <2>0, <3>1, <4>1, <4>2, <4>3
      <4>4. CASE k # 0
        <5>1. i # k + 1 /\ 1 \in 1 .. k
          BY <2>0, <3>1, <4>4
        <5>2. f[1] = <<0, n>>
          BY <2>2, <5>1
        <5> QED BY <3>1, <4>1, <4>2, <5>1, <5>2
      <4> QED BY <4>3, <4>4
    <3>2. CASE i # 1
      <4> DEFINE p == i \div 2
      <4>1. p \in 1 .. k /\ p # k + 1 /\ p \in 1 .. k + 1
        BY <2>0, <3>2
      <4>2. g[p] = f[p]
        <5> HIDE DEF p
        <5> QED BY <4>1
      <4>3. h[i] = next(i, f[p])
        <5>1. h[i] = next(i, g[p])
          OBVIOUS
        <5> HIDE DEF g, next, h, p
        <5> QED BY ONLY <4>2, <5>1
      <4>4. g[i] = next(i, f[p])
        <5>1. CASE i = k + 1
          BY <5>1
        <5>2. CASE i # k + 1
          <6>1. i \in 1 .. k
            BY <2>0, <5>2
          <6>2. g[i] = f[i]
            BY <5>2
          <6> HIDE DEF g, next
          <6> QED BY ONLY <2>2, <6>1, <6>2
        <5> QED BY <5>1, <5>2
      <4> HIDE DEF g, h, next
      <4> QED BY ONLY <4>3, <4>4
    <3> QED BY <3>1, <3>2
  <2>4. g = h
    <3>1. g = [i \in 1 .. k + 1 |-> g[i]] /\ h = [i \in 1 .. k + 1 |-> h[i]]
      OBVIOUS
    <3> HIDE DEF g, h
    <3> QED BY <2>3, <3>1
  <2>5. Divided(g, keys, n, k + 1)
    BY <2>4 DEF Divided
  <2> HIDE DEF g
  <2> QED BY <2>0, <2>5
<1> HIDE DEF P
<1>3. P = Nat
  <2>1. P \in SUBSET Nat
    BY DEF P
  <2> QED BY <1>1, <1>2, <2>1, NatInd
<1> QED BY <1>3 DEF P

LEMMA RangesAre ==
  ASSUME NEW keys, NEW n
  PROVE  LET range == NodeRanges(keys, n)
         IN  /\ range[1] = <<0, n>>
             /\ \A i \in Node : /\ 2 * i \in Node => range[2 * i] = <<range[i][1], MidLo(keys, range[i])>>
                                /\ 2 * i + 1 \in Node => range[2 * i + 1] = <<MidHi(keys, range[i]), range[i][2]>>
<1> DEFINE range == NodeRanges(keys, n)
<1>0. NumSplitters \in Nat \ {0}
  BY Shape
<1>1. range = CHOOSE f : Divided(f, keys, n, NumSplitters)
  BY DEF NodeRanges, Divided, Node
<1>2. Divided(range, keys, n, NumSplitters)
  BY <1>0, <1>1, DividedExists
<1> HIDE DEF range
<1>3. \A i \in Node : range[i] = IF i = 1 THEN <<0, n>>
            ELSE IF i % 2 = 0 THEN <<range[i \div 2][1], MidLo(keys, range[i \div 2])>>
                 ELSE <<MidHi(keys, range[i \div 2]), range[i \div 2][2]>>
  BY <1>2 DEF Divided, Node
<1>4. range[1] = <<0, n>>
  <2>1. 1 \in Node
    BY <1>0 DEF Node
  <2> QED BY ONLY <1>3, <2>1
<1>5. ASSUME NEW i \in Node, 2 * i \in Node
      PROVE  range[2 * i] = <<range[i][1], MidLo(keys, range[i])>>
  <2> DEFINE c == 2 * i
  <2>1. c # 1 /\ c % 2 = 0 /\ c \div 2 = i /\ c \in Node
    BY <1>0, <1>5 DEF Node
  <2> HIDE DEF c
  <2>2. range[c] = <<range[i][1], MidLo(keys, range[i])>>
    BY ONLY <1>3, <2>1
  <2> QED BY <2>2 DEF c
<1>6. ASSUME NEW i \in Node, 2 * i + 1 \in Node
      PROVE  range[2 * i + 1] = <<MidHi(keys, range[i]), range[i][2]>>
  <2> DEFINE c == 2 * i + 1
  <2>1. c # 1 /\ c % 2 # 0 /\ c \div 2 = i /\ c \in Node
    BY <1>0, <1>6 DEF Node
  <2> HIDE DEF c
  <2>2. range[c] = <<MidHi(keys, range[i]), range[i][2]>>
    BY ONLY <1>3, <2>1
  <2> QED BY <2>2 DEF c
<1> QED BY <1>4, <1>5, <1>6 DEF range

(* The ranges of a sample stay inside of it, and the middles follow one    *)
(* another in the order of the places.                                     *)
LEMMA RangesInside ==
  ASSUME NEW keys, NEW n \in Nat \ {0}, NEW i \in Node
  PROVE  RangeOk(NodeRanges(keys, n)[i], n)
<1> DEFINE range == NodeRanges(keys, n)
           G == {k \in Spot : k \in Node => RangeOk(range[k], n)}
<1> HIDE DEF range
<1>0. /\ range[1] = <<0, n>>
      /\ \A k \in Node : /\ 2 * k \in Node => range[2 * k] = <<range[k][1], MidLo(keys, range[k])>>
                         /\ 2 * k + 1 \in Node => range[2 * k + 1] = <<MidHi(keys, range[k]), range[k][2]>>
  BY RangesAre DEF range
<1>1. 1 \in G
  <2>1. RangeOk(range[1], n)
    BY <1>0 DEF RangeOk
  <2> QED BY <2>1, LevelBelow
<1>2. ASSUME NEW k \in Node, k \in G PROVE 2 * k \in G /\ 2 * k + 1 \in G
  <2> DEFINE r == range[k]
  <2>1. RangeOk(r, n)
    BY <1>2
  <2> HIDE DEF r
  <2>2. /\ Mid(r) \in Nat /\ Mid(r) < n /\ r[1] <= Mid(r) /\ Mid(r) <= r[2]
        /\ MidLo(keys, r) \in r[1] .. Mid(r)
        /\ MidHi(keys, r) \in Mid(r) .. r[2] /\ MidHi(keys, r) < n
    BY <2>1, MiddleIs
  <2>3. r[1] \in Nat /\ r[2] \in Nat /\ r[1] <= r[2] /\ r[1] < n /\ r[2] <= n
    BY <2>1 DEF RangeOk
  <2> DEFINE lo == MidLo(keys, r) hi == MidHi(keys, r) mid == Mid(r) a == r[1] b == r[2]
  <2>4. /\ lo \in Nat /\ hi \in Nat /\ a <= lo /\ lo <= n /\ hi <= b /\ hi < n
        /\ a \in Nat /\ b \in Nat /\ a < n /\ b <= n
    <3> HIDE DEF lo, hi, mid, a, b
    <3>1. /\ mid \in Nat /\ mid < n /\ a <= mid /\ mid <= b /\ lo \in a .. mid /\ hi \in mid .. b
          /\ hi < n /\ a \in Nat /\ b \in Nat /\ a < n /\ b <= n
      BY ONLY <2>2, <2>3 DEF lo, hi, mid, a, b
    <3> QED BY ONLY <3>1, n \in Nat \ {0}
  <2> HIDE DEF lo, hi, a, b
  <2>5. RangeOk(<<a, lo>>, n) /\ RangeOk(<<hi, b>>, n)
    BY <2>4 DEF RangeOk
  <2>6. 2 * k \in Node => RangeOk(range[2 * k], n)
    BY <1>0, <2>5 DEF a, lo, r
  <2>7. 2 * k + 1 \in Node => RangeOk(range[2 * k + 1], n)
    BY <1>0, <2>5 DEF b, hi, r
  <2> QED BY <2>6, <2>7, LevelBelow
<1>3. G = Spot
  <2> HIDE DEF G
  <2> SUFFICES G \in SUBSET Spot
    BY <1>1, <1>2, Downwards
  <2> QED BY DEF G
<1> QED BY <1>3, LevelBelow DEF range

LEMMA MiddlesOrdered ==
  ASSUME NEW keys, NEW n \in Nat \ {0}
  PROVE  \A p, q \in 1 .. NumSplitters : p < q =>
           Mid(NodeRanges(keys, n)[PreToLevelorder(p)]) <= Mid(NodeRanges(keys, n)[PreToLevelorder(q)])
<1> DEFINE range == NodeRanges(keys, n)
           M(p) == Mid(range[PreToLevelorder(p)])
           Own(i) == Left(i) + 1 .. Left(i) + Wide(i) - 1
           Good(i) == /\ \A p \in Own(i) : M(p) \in Nat /\ range[i][1] <= M(p) /\ M(p) <= range[i][2]
                      /\ \A p, q \in Own(i) : p < q => M(p) <= M(q)
           G == {i \in Spot : i \in Node => Good(i)}
<1> HIDE DEF range
<1>0. /\ NumSplitters \in Nat \ {0}
      /\ \A k \in Node : /\ 2 * k \in Node => range[2 * k] = <<range[k][1], MidLo(keys, range[k])>>
                         /\ 2 * k + 1 \in Node => range[2 * k + 1] = <<MidHi(keys, range[k]), range[k][2]>>
  BY RangesAre, Shape DEF range
<1>1. \A i \in Spot \ Node : i \in G
  OBVIOUS
<1>2. ASSUME NEW i \in Node, 2 * i \in G, 2 * i + 1 \in G PROVE i \in G
  <2> DEFINE l == Left(i) v == Wide(2 * i) r == range[i]
             lo == MidLo(keys, r) hi == MidHi(keys, r) mid == Mid(r) a == r[1] b == r[2]
             L == l + 1 .. l + v - 1 R == (l + v) + 1 .. (l + v) + v - 1
  <2>1. /\ 2 * i \in Spot /\ 2 * i + 1 \in Spot /\ i \in Spot
        /\ Left(2 * i) = l /\ Left(2 * i + 1) = l + v /\ Wide(i) = 2 * v /\ Wide(2 * i + 1) = v
        /\ l \in Nat /\ v \in Nat \ {0}
    BY ChildPlaces, Widths
  <2>2. /\ mid \in Nat /\ a \in Nat /\ b \in Nat /\ a <= mid /\ mid <= b
        /\ lo \in Nat /\ hi \in Nat /\ lo <= mid /\ a <= lo /\ mid <= hi /\ hi <= b
    <3>1. RangeOk(r, n)
      BY RangesInside DEF range
    <3> HIDE DEF r
    <3>2. r[1] \in Nat /\ r[2] \in Nat /\ n \in Nat
      BY <3>1 DEF RangeOk
    <3>3. /\ Mid(r) \in Nat /\ Mid(r) < n /\ r[1] <= Mid(r) /\ Mid(r) <= r[2]
          /\ MidLo(keys, r) \in r[1] .. Mid(r) /\ MidHi(keys, r) \in Mid(r) .. r[2]
      BY <3>1, MiddleIs
    <3> QED BY ONLY <3>2, <3>3
  <2>3. M(l + v) = mid
    <3>1. PreToLevelorder(l + v) = i
      BY LevelToPreorderIs, PreToLevelIs
    <3> QED BY <3>1
  <2> DEFINE In(p, x, y) == M(p) \in Nat /\ x <= M(p) /\ M(p) <= y
  <2>4. (\A p \in L : In(p, a, lo)) /\ \A p, q \in L : p < q => M(p) <= M(q)
    <3>1. CASE 2 * i \in Node
      <4>1. Good(2 * i)
        BY <1>2, <3>1
      <4>2. Own(2 * i) = L
        BY <2>1
      <4>3. range[2 * i][1] = a /\ range[2 * i][2] = lo
        BY <1>0, <3>1
      <4> HIDE DEF Own, M, L, a, lo
      <4> QED BY ONLY <4>1, <4>2, <4>3
    <3>2. CASE 2 * i \notin Node
      <4>1. v = 1
        BY <2>1, <3>2, Widths
      <4> QED BY <2>1, <4>1
    <3> QED BY <3>1, <3>2
  <2>5. (\A p \in R : In(p, hi, b)) /\ \A p, q \in R : p < q => M(p) <= M(q)
    <3>1. CASE 2 * i + 1 \in Node
      <4>1. Good(2 * i + 1)
        BY <1>2, <3>1
      <4>2. Own(2 * i + 1) = R
        BY <2>1
      <4>3. range[2 * i + 1][1] = hi /\ range[2 * i + 1][2] = b
        BY <1>0, <3>1
      <4> HIDE DEF Own, M, R, hi, b
      <4> QED BY ONLY <4>1, <4>2, <4>3
    <3>2. CASE 2 * i + 1 \notin Node
      <4>1. v = 1
        BY <2>1, <3>2, Widths
      <4> QED BY <2>1, <4>1
    <3> QED BY <3>1, <3>2
  <2>6. Own(i) = l + 1 .. l + 2 * v - 1
    BY <2>1
  <2>7. \A p \in Own(i) : p \in L \/ p = l + v \/ p \in R
    <3> HIDE DEF l, v, M, Own
    <3> QED BY ONLY <2>1, <2>6
  <2>8. \A p \in L : p < l + v /\ \A q \in R : l + v < q
    <3> HIDE DEF l, v, M
    <3> QED BY ONLY <2>1
  <2>9. \A p \in Own(i) : p \in Int
    <3> HIDE DEF l, v, M
    <3> QED BY ONLY <2>1, <2>6
  <2> HIDE DEF M, Own, a, b, lo, hi, mid, l, v
  <2>10. \A p \in L \union R : p \in Int
    BY ONLY <2>1
  <2>11. \A p \in Own(i) : In(p, a, b)
    <3> SUFFICES ASSUME NEW p \in Own(i) PROVE In(p, a, b)
      OBVIOUS
    <3>1. CASE p \in L
      BY ONLY <2>2, <2>4, <3>1
    <3>2. CASE p \in R
      BY ONLY <2>2, <2>5, <3>2
    <3>3. CASE p = l + v
      BY ONLY <2>2, <2>3, <3>3
    <3> QED BY ONLY <2>7, <3>1, <3>2, <3>3, p \in Own(i)
  <2>12. \A p, q \in Own(i) : p < q => M(p) <= M(q)
    <3> SUFFICES ASSUME NEW p \in Own(i), NEW q \in Own(i), p < q PROVE M(p) <= M(q)
      OBVIOUS
    <3>0. /\ p \in Int /\ q \in Int /\ l + v \in Int
          /\ p \in L \/ p = l + v \/ p \in R
          /\ q \in L \/ q = l + v \/ q \in R
      <4>1. p \in Int /\ q \in Int /\ l + v \in Int
        BY <2>1, <2>9
      <4> HIDE DEF L, R
      <4> QED BY ONLY <2>7, <4>1, p \in Own(i), q \in Own(i)
    <3>1. CASE p \in L /\ q \in L
      BY ONLY <2>4, <3>1, p < q
    <3>2. CASE p \in R /\ q \in R
      BY ONLY <2>5, <3>2, p < q
    <3>3. CASE p \in L /\ (q = l + v \/ q \in R)
      <4>1. M(p) \in Nat /\ M(p) <= lo
        BY ONLY <2>4, <3>3
      <4>2. M(q) \in Nat /\ mid <= M(q)
        <5>1. CASE q = l + v
          BY ONLY <2>2, <2>3, <5>1
        <5>2. CASE q \in R
          <6>1. In(q, hi, b)
            BY ONLY <2>5, <5>2
          <6> QED BY ONLY <2>2, <6>1
        <5> QED BY ONLY <3>3, <5>1, <5>2
      <4> QED BY ONLY <2>2, <4>1, <4>2
    <3>4. CASE p = l + v /\ q \in R
      <4>1. In(q, hi, b)
        BY ONLY <2>5, <3>4
      <4> QED BY ONLY <2>2, <2>3, <3>4, <4>1
    <3>5. ~(p \in R /\ q \in L) /\ ~(p = l + v /\ q \in L) /\ ~(p \in R /\ q = l + v) /\ ~(p = l + v /\ q = l + v)
      BY ONLY <2>1, p < q
    <3> HIDE DEF L, R
    <3> QED BY ONLY <3>0, <3>1, <3>2, <3>3, <3>4, <3>5
  <2>13. Good(i)
    BY ONLY <2>11, <2>12 DEF a, b
  <2> HIDE DEF Good
  <2> QED BY <2>1, <2>13
<1>3. G = Spot
  <2> HIDE DEF G
  <2> SUFFICES G \in SUBSET Spot
    BY <1>1, <1>2, Upwards
  <2> QED BY DEF G
<1>4. 1 \in Node /\ Own(1) = 1 .. NumSplitters
  BY <1>0, Widths DEF Node
<1>5. Good(1)
  <2>1. 1 \in G
    <3> HIDE DEF G
    <3> QED BY <1>3, LevelBelow
  <2> QED BY <1>4, <2>1
<1> HIDE DEF Own
<1> QED BY <1>4, <1>5 DEF range

-----------------------------------------------------------------------------
(* The samples of size n are in order. *)
Ascending(s, n) ==
  /\ s \in [0 .. n - 1 -> SampleKeys]
  /\ \A i, k \in 0 .. n - 1 : i <= k => s[i] <= s[k]

LongerBy(shorter, n) ==
  {[i \in 0 .. n - 1 |-> IF i = n - 1 THEN x[2] ELSE x[1][i]] :
     x \in {y \in shorter \X SampleKeys : n > 1 => y[1][n - 2] <= y[2]}}

Samples(f, m) == f = [n \in 0 .. m |-> IF n = 0 THEN {<<>>} ELSE LongerBy(f[n - 1], n)]

LEMMA SamplesExist ==
  ASSUME NEW m \in Nat
  PROVE  \E f : Samples(f, m)
<1> DEFINE P == {k \in Nat : \E f : Samples(f, k)}
<1>1. 0 \in P
  <2> DEFINE g == [n \in 0 .. 0 |-> {<<>>}]
             h == [n \in 0 .. 0 |-> IF n = 0 THEN {<<>>} ELSE LongerBy(g[n - 1], n)]
  <2>1. \A n \in 0 .. 0 : g[n] = h[n]
    OBVIOUS
  <2>2. g = [n \in 0 .. 0 |-> g[n]] /\ h = [n \in 0 .. 0 |-> h[n]]
    OBVIOUS
  <2>3. g = h
    <3> HIDE DEF g, h
    <3> QED BY <2>1, <2>2
  <2>4. Samples(g, 0)
    BY <2>3 DEF Samples
  <2> HIDE DEF g
  <2> QED BY <2>4
<1>2. ASSUME NEW k \in P PROVE k + 1 \in P
  <2>0. k \in Nat
    OBVIOUS
  <2>1. PICK f : Samples(f, k)
    OBVIOUS
  <2> DEFINE next(n, t) == IF n = 0 THEN {<<>>} ELSE LongerBy(t, n)
             last == next(k + 1, f[k])
             g == [n \in 0 .. k + 1 |-> IF n = k + 1 THEN last ELSE f[n]]
             h == [n \in 0 .. k + 1 |-> next(n, g[n - 1])]
  <2>2. \A n \in 0 .. k : f[n] = next(n, f[n - 1])
    BY <2>1 DEF Samples
  <2>3. ASSUME NEW n \in 0 .. k + 1 PROVE g[n] = h[n]
    <3>1. CASE n = k + 1
      <4>1. g[n - 1] = f[k] /\ n # 0
        BY <2>0, <3>1
      <4>2. g[n] = next(n, f[k])
        BY <2>0, <3>1
      <4>3. h[n] = next(n, g[n - 1])
        OBVIOUS
      <4> HIDE DEF g, h, next
      <4> QED BY ONLY <4>1, <4>2, <4>3
    <3>2. CASE n = 0
      <4>1. 0 \in 0 .. k /\ n # k + 1
        BY <2>0, <3>2
      <4>2. f[0] = {<<>>}
        BY <2>2, <4>1
      <4> QED BY <3>2, <4>1, <4>2
    <3>3. CASE n \in 1 .. k
      <4>1. n \in 0 .. k /\ n - 1 \in 0 .. k + 1 /\ n # k + 1 /\ n - 1 # k + 1
        BY <2>0, <3>3
      <4>2. g[n] = f[n] /\ g[n - 1] = f[n - 1]
        BY <4>1
      <4>3. h[n] = next(n, g[n - 1])
        OBVIOUS
      <4> HIDE DEF g, h, next
      <4> QED BY ONLY <2>2, <4>1, <4>2, <4>3
    <3> QED BY <2>0, <3>1, <3>2, <3>3
  <2>4. g = h
    <3>1. g = [n \in 0 .. k + 1 |-> g[n]] /\ h = [n \in 0 .. k + 1 |-> h[n]]
      OBVIOUS
    <3> HIDE DEF g, h
    <3> QED BY <2>3, <3>1
  <2>5. Samples(g, k + 1)
    BY <2>4 DEF Samples
  <2> HIDE DEF g
  <2> QED BY <2>0, <2>5
<1> HIDE DEF P
<1>3. P = Nat
  <2>1. P \in SUBSET Nat
    BY DEF P
  <2> QED BY <1>1, <1>2, <2>1, NatInd
<1> QED BY <1>3 DEF P

LEMMA SizeIs == SampleSize \in Nat \ {0} /\ NumSplitters <= SampleSize /\ Oversample \in Nat \ {0}
<1>1. NumSplitters \in Nat \ {0} /\ Oversample \in Nat \ {0}
  BY Shape, TreeAssumption
<1>2. 1 * NumSplitters <= Oversample * NumSplitters /\ Oversample * NumSplitters \in Nat
  BY ONLY <1>1
<1> QED BY ONLY <1>1, <1>2 DEF SampleSize

LEMMA SamplesAscend ==
  \A s \in SortedSamples[SampleSize] : Ascending(s, SampleSize)
<1>0. SampleSize \in Nat
  BY SizeIs
<1>1. SortedSamples = CHOOSE f : Samples(f, SampleSize)
  BY DEF SortedSamples, Samples, LongerBy
<1>2. Samples(SortedSamples, SampleSize)
  BY <1>0, <1>1, SamplesExist
<1>3. /\ SortedSamples[0] = {<<>>}
      /\ \A n \in 1 .. SampleSize : SortedSamples[n] = LongerBy(SortedSamples[n - 1], n)
  <2>1. \A n \in 0 .. SampleSize :
          SortedSamples[n] = IF n = 0 THEN {<<>>} ELSE LongerBy(SortedSamples[n - 1], n)
    BY <1>2 DEF Samples
  <2>2. 0 \in 0 .. SampleSize /\ \A n \in 1 .. SampleSize : n \in 0 .. SampleSize /\ n # 0
    BY <1>0
  <2> QED BY ONLY <2>1, <2>2
<1> DEFINE P == {n \in Nat : n <= SampleSize => \A s \in SortedSamples[n] : Ascending(s, n)}
<1>4. 0 \in P
  <2>1. \A s \in SortedSamples[0] : s = <<>>
    BY <1>3
  <2>2. Ascending(<<>>, 0)
    <3>1. 0 .. 0 - 1 = {}
      OBVIOUS
    <3>2. <<>> \in [{} -> SampleKeys]
      OBVIOUS
    <3> QED BY <3>1, <3>2 DEF Ascending
  <2> QED BY <2>1, <2>2
<1>5. ASSUME NEW n \in P PROVE n + 1 \in P
  <2> SUFFICES ASSUME n + 1 <= SampleSize, NEW s \in SortedSamples[n + 1] PROVE Ascending(s, n + 1)
    OBVIOUS
  <2>1. n \in Nat /\ n + 1 \in 1 .. SampleSize /\ (n + 1) - 1 = n /\ (n + 1) - 2 = n - 1 /\ n <= SampleSize
    BY <1>0
  <2>2. s \in LongerBy(SortedSamples[n], n + 1)
    BY <1>3, <2>1
  <2>3. PICK x \in SortedSamples[n] \X SampleKeys :
          /\ n + 1 > 1 => x[1][n - 1] <= x[2]
          /\ s = [i \in 0 .. n |-> IF i = n THEN x[2] ELSE x[1][i]]
    BY <2>1, <2>2 DEF LongerBy
  <2> DEFINE t == x[1] key == x[2]
  <2>4. Ascending(t, n) /\ key \in SampleKeys
    BY <2>1, <2>3
  <2> HIDE DEF t, key
  <2>5. /\ t \in [0 .. n - 1 -> SampleKeys] /\ \A i, k \in 0 .. n - 1 : i <= k => t[i] <= t[k]
        /\ n + 1 > 1 => t[n - 1] <= key
        /\ s = [i \in 0 .. n |-> IF i = n THEN key ELSE t[i]]
    BY <2>3, <2>4 DEF Ascending, t, key
  <2>6. \A i \in 0 .. n - 1 : s[i] = t[i] /\ t[i] \in SampleKeys
    BY <2>1, <2>5
  <2>7. s[n] = key
    BY <2>1, <2>5
  <2>8. \A i \in 0 .. n : i = n \/ i \in 0 .. n - 1
    BY <2>1
  <2>9. s \in [0 .. n -> SampleKeys]
    BY <2>1, <2>4, <2>5
  <2>10. \A k \in SampleKeys : k \in Nat
    BY TreeAssumption, KeysAreNumbers
  <2>11. ASSUME NEW i \in 0 .. n, NEW k \in 0 .. n, i <= k PROVE s[i] <= s[k]
    <3>1. CASE k = n /\ i = n
      BY <2>4, <2>7, <2>10, <3>1
    <3>2. CASE k = n /\ i \in 0 .. n - 1
      <4>1. n - 1 \in 0 .. n - 1 /\ i <= n - 1 /\ n + 1 > 1
        BY <2>1, <3>2
      <4>2. t[i] <= t[n - 1] /\ t[n - 1] <= key
        BY ONLY <2>5, <3>2, <4>1
      <4>3. t[i] \in Nat /\ t[n - 1] \in Nat /\ key \in Nat
        BY <2>4, <2>6, <2>10, <3>2, <4>1
      <4>4. t[i] <= key
        BY ONLY <4>2, <4>3
      <4> QED BY <2>6, <2>7, <3>2, <4>4
    <3>3. CASE k \in 0 .. n - 1
      <4>1. i \in 0 .. n - 1
        BY <2>1, <2>11, <3>3
      <4> QED BY <2>5, <2>6, <2>11, <3>3, <4>1
    <3> QED BY <2>8, <3>1, <3>2, <3>3
  <2>12. (n + 1) - 1 = n
    BY <2>1
  <2> QED BY <2>9, <2>11, <2>12 DEF Ascending
<1> HIDE DEF P
<1>6. P = Nat
  <2>1. P \in SUBSET Nat
    BY DEF P
  <2> QED BY <1>4, <1>5, <2>1, NatInd
<1>7. SampleSize \in P
  BY <1>0, <1>6
<1> QED BY <1>0, <1>7 DEF P

-----------------------------------------------------------------------------
(* What is known of a sample and of the tree that was built from it. *)
TreeInv ==
  /\ Ascending(samples, SampleSize)
  /\ Built => tree = LevelOrderTree /\ splitter = InOrderSplitters

LEMMA TreeInvHolds == Spec => []TreeInv
<1>1. Init => TreeInv
  BY SamplesAscend DEF Init, TreeInv, Built
<1>2. TreeInv /\ [Next]_vars => TreeInv'
  <2> SUFFICES ASSUME TreeInv, [Next]_vars PROVE TreeInv'
    OBVIOUS
  <2>1. CASE Build
    <3>1. samples' = samples /\ tree' = LevelOrderTree /\ splitter' = InOrderSplitters
      BY <2>1 DEF Build
    <3>2. tree' = LevelOrderTree' /\ splitter' = InOrderSplitters'
      BY <3>1 DEF LevelOrderTree, InOrderSplitters, NodeRange
    <3> QED BY <3>1, <3>2 DEF TreeInv
  <2>2. CASE UNCHANGED vars
    <3>1. samples' = samples /\ tree' = tree /\ splitter' = splitter
      BY <2>2 DEF vars
    <3> QED BY <3>1 DEF TreeInv, Built, LevelOrderTree, InOrderSplitters, NodeRange
  <2> QED BY <2>1, <2>2 DEF Next
<1> QED BY <1>1, <1>2, PTL DEF Spec

(* The places of nodes, and the nodes of places. *)
LEMMA InOrderPlaces ==
  /\ \A p \in 1 .. NumSplitters : InOrder[1][p] = PreToLevelorder(p)
  /\ \A k \in Rank : k + 1 \in 1 .. NumSplitters
  /\ \A i \in Node : LevelToPreorder(i) - 1 \in Rank
<1>0. NumSplitters \in Nat \ {0}
  BY Shape
<1>1. ASSUME NEW p \in 1 .. NumSplitters PROVE InOrder[1][p] = PreToLevelorder(p)
  <2>1. InOrder[1] = Emitted(1)
    BY LevelBelow, InOrderIs
  <2>2. p \in 1 .. Wide(1) - 1 /\ Left(1) + p = p
    BY <1>0, Widths
  <2> QED BY <2>1, <2>2 DEF Emitted
<1>2. \A i \in Node : LevelToPreorder(i) - 1 \in Rank
  <2> SUFFICES ASSUME NEW i \in Node PROVE LevelToPreorder(i) - 1 \in Rank
    OBVIOUS
  <2>1. LevelToPreorder(i) \in 1 .. NumSplitters
    BY LevelToPreorderIs
  <2> QED BY <1>0, <2>1 DEF Rank
<1> QED BY <1>0, <1>1, <1>2 DEF Rank

LEMMA SplittersAre ==
  ASSUME TreeInv, Built
  PROVE  /\ tree \in [Node -> SampleKeys] /\ splitter \in [Rank -> SampleKeys]
         /\ \A i \in Node : NodeRange[i][1] <= NodeRange[i][2] /\ Mid(NodeRange[i]) \in SampleIndex
         /\ \A k, l \in Rank : k < l => splitter[k] <= splitter[l]
         /\ \A k \in Rank : splitter[k] = tree[PreToLevelorder(k + 1)]
         /\ \A i \in Node : tree[i] = splitter[LevelToPreorder(i) - 1]
<1> DEFINE M(i) == Mid(NodeRange[i])
<1>0. NumSplitters \in Nat \ {0} /\ SampleSize \in Nat \ {0}
  BY Shape, SizeIs
<1>1. ASSUME NEW i \in Node PROVE NodeRange[i][1] <= NodeRange[i][2] /\ M(i) \in SampleIndex
  <2> DEFINE r == NodeRange[i]
  <2>1. RangeOk(r, SampleSize)
    BY <1>0, RangesInside DEF NodeRange
  <2> HIDE DEF r
  <2>2. Mid(r) \in Nat /\ Mid(r) < SampleSize /\ r[1] <= r[2]
    BY <1>0, <2>1, MiddleIs DEF RangeOk
  <2> QED BY <1>0, <2>2 DEF r, SampleIndex
<1>2. /\ samples \in [SampleIndex -> SampleKeys]
      /\ \A x, y \in SampleIndex : x <= y => samples[x] <= samples[y]
  BY DEF TreeInv, Ascending, SampleIndex
<1>3. tree = [i \in Node |-> samples[M(i)]] /\ splitter = [k \in Rank |-> tree[InOrder[1][k + 1]]]
  BY DEF TreeInv, LevelOrderTree, InOrderSplitters, InKeyOrder
<1> HIDE DEF M
<1>4. \A k \in Rank : /\ PreToLevelorder(k + 1) \in Node
                      /\ splitter[k] = tree[PreToLevelorder(k + 1)]
  BY <1>3, InOrderPlaces, Conversions
<1>5. tree \in [Node -> SampleKeys] /\ \A i \in Node : tree[i] = samples[M(i)]
  BY <1>1, <1>2, <1>3
<1>6. splitter \in [Rank -> SampleKeys]
  <2>1. \A k \in Rank : tree[InOrder[1][k + 1]] \in SampleKeys
    BY <1>4, <1>5, InOrderPlaces
  <2> QED BY <1>3, <2>1
<1>7. ASSUME NEW k \in Rank, NEW l \in Rank, k < l PROVE splitter[k] <= splitter[l]
  <2> DEFINE i == PreToLevelorder(k + 1) j == PreToLevelorder(l + 1)
  <2>1. k + 1 < l + 1 /\ k + 1 \in 1 .. NumSplitters /\ l + 1 \in 1 .. NumSplitters
    BY <1>0, <1>7 DEF Rank
  <2>2. M(i) <= M(j)
    BY <1>0, <2>1, MiddlesOrdered DEF M, NodeRange
  <2>3. i \in Node /\ j \in Node /\ splitter[k] = tree[i] /\ splitter[l] = tree[j]
    BY <1>4
  <2> HIDE DEF i, j
  <2> QED BY <1>1, <1>2, <1>5, <2>2, <2>3 DEF M
<1>8. ASSUME NEW i \in Node PROVE tree[i] = splitter[LevelToPreorder(i) - 1]
  <2> DEFINE k == LevelToPreorder(i) - 1
  <2>1. k \in Rank
    BY InOrderPlaces
  <2>2. k + 1 = LevelToPreorder(i)
    <3>1. LevelToPreorder(i) \in Int
      BY LevelToPreorderIs
    <3> QED BY <3>1
  <2>3. PreToLevelorder(k + 1) = i
    BY <2>2, PreToLevelIs
  <2> HIDE DEF k
  <2>4. splitter[k] = tree[i]
    BY <1>4, <2>1, <2>3
  <2> QED BY <2>4 DEF k
<1> QED BY <1>1, <1>4, <1>5, <1>6, <1>7, <1>8 DEF M

(* The ranges the recursion divides a sample into stay inside of it, and   *)
(* the splitters it chooses are in key order, whatever keys repeat.        *)
THEOREM SplittersCorrect == Spec => []SplittersOrdered
<1>1. TreeInv => SplittersOrdered
  <2> SUFFICES ASSUME TreeInv, Built
               PROVE  /\ \A i \in Node : NodeRange[i][1] <= NodeRange[i][2] /\ Mid(NodeRange[i]) \in SampleIndex
                      /\ \A k \in Rank \ {0} : splitter[k - 1] <= splitter[k]
    BY DEF SplittersOrdered
  <2>1. \A k \in Rank \ {0} : k - 1 \in Rank /\ k - 1 < k
    BY Shape DEF Rank
  <2> QED BY <2>1, SplittersAre
<1> QED BY <1>1, TreeInvHolds, PTL

(* The index arithmetic is exact for trees of any number of levels:        *)
(* level_to_preorder and pre_to_levelorder are inverse to each other, the  *)
(* in-order recursion visits the nodes in their order, and so does the     *)
(* tree that sample_sortBT makes of the splitters.                         *)
THEOREM TreeCalcCorrect == Spec => []TreeCalcExact
<1>1. TreeInv => TreeCalcExact
  <2> SUFFICES ASSUME TreeInv, Built
               PROVE  /\ \A i \in Node : /\ InOrder[1][LevelToPreorder(i)] = i
                                         /\ PreToLevelorder(LevelToPreorder(i)) = i
                      /\ \A k \in Rank : GetSplitterCalc(k) = splitter[k]
                      /\ InKeyOrder(TreeOfSplitters(splitter)) = splitter
    BY DEF TreeCalcExact
  <2>1. ASSUME NEW i \in Node
        PROVE  InOrder[1][LevelToPreorder(i)] = i /\ PreToLevelorder(LevelToPreorder(i)) = i
    BY PreToLevelIs, InOrderPlaces, LevelToPreorderIs
  <2>2. ASSUME NEW k \in Rank PROVE GetSplitterCalc(k) = splitter[k]
    BY SplittersAre DEF GetSplitterCalc
  <2> DEFINE t == TreeOfSplitters(splitter)
  <2>3. ASSUME NEW i \in Node PROVE t[i] = splitter[LevelToPreorder(i) - 1]
    <3> DEFINE h == HighBit(i) v == 2 ^ (TreeBits - 1 - h) d == i - 2 ^ h
    <3>1. t[i] = splitter[v - 1 + d * 2 * v]
      BY DEF TreeOfSplitters
    <3>2. /\ Wide(2 * i) = v /\ Wide(i) = 2 * v /\ Left(i) = d * Wide(i) /\ Left(i) \in Nat
          /\ v \in Nat /\ LevelToPreorder(i) = Left(i) + v
      <4>1. Wide(2 * i) = v /\ Wide(i) = 2 * Wide(2 * i) /\ 2 * i \in Spot /\ i \in Spot
        BY ChildPlaces
      <4>2. v \in Nat /\ Left(i) \in Nat
        BY <4>1, Widths
      <4>3. Left(i) = d * Wide(i)
        BY DEF Left
      <4>4. LevelToPreorder(i) = Left(i) + v
        BY <4>1, LevelToPreorderIs
      <4> HIDE DEF v, d
      <4> QED BY <4>1, <4>2, <4>3, <4>4
    <3>3. d \in Int
      <4>1. i \in Nat /\ h \in 0 .. TreeBits + 1
        BY Shape, Levels, ChildPlaces, TreeBitsAssumption DEF Node
      <4>2. 2 ^ h \in Nat
        BY <4>1, Two
      <4> HIDE DEF h
      <4> QED BY <4>1, <4>2
    <3> HIDE DEF v, d
    <3>4. d * 2 * v = d * (2 * v)
      BY ONLY <3>2, <3>3
    <3> DEFINE l == Left(i)
    <3>5. d * 2 * v = l /\ l \in Nat
      BY <3>2, <3>4
    <3> HIDE DEF l
    <3>6. v - 1 + d * 2 * v = (l + v) - 1
      BY ONLY <3>2, <3>5
    <3> QED BY <3>1, <3>2, <3>6 DEF l
  <2>4. ASSUME NEW k \in Rank PROVE t[InOrder[1][k + 1]] = splitter[k]
    <3> DEFINE i == PreToLevelorder(k + 1)
    <3>1. i \in Node /\ LevelToPreorder(i) = k + 1 /\ InOrder[1][k + 1] = i
      BY Conversions, InOrderPlaces
    <3>2. (k + 1) - 1 = k
      BY Shape DEF Rank
    <3> HIDE DEF i, t
    <3> QED BY <2>3, <3>1, <3>2
  <2>5. InKeyOrder(t) = splitter
    <3>1. splitter = [k \in Rank |-> splitter[k]]
      BY SplittersAre
    <3> HIDE DEF t
    <3> QED BY <2>4, <3>1 DEF InKeyOrder
  <2> QED BY <2>1, <2>2, <2>5
<1> QED BY <1>1, TreeInvHolds, PTL

-----------------------------------------------------------------------------
(* Loops of searches are functions of the number of rounds. *)
RoundsFrom(lo, hi, T, base, step) ==
  lo \in Int /\ hi \in Int /\ lo <= hi /\ base \in T /\ step \in [T -> T]

RoundsOf(f, lo, hi, T, base, step) ==
  f \in [lo .. hi -> T] /\ f[lo] = base /\ \A l \in lo + 1 .. hi : f[l] = step[f[l - 1]]

LEMMA Rounds ==
  ASSUME NEW lo, NEW hi, NEW T, NEW base, NEW step, RoundsFrom(lo, hi, T, base, step)
  PROVE  \E f : RoundsOf(f, lo, hi, T, base, step)
<1>0. lo \in Int /\ hi \in Int /\ lo <= hi /\ base \in T /\ step \in [T -> T]
  BY DEF RoundsFrom
<1> DEFINE n == hi - lo
           s == [k \in 1 .. n |-> step]
<1>1. n \in Nat
  BY <1>0
<1>2. \A k \in 1 .. n, t \in T : s[k][t] \in T
  BY <1>0
<1>3. PICK r \in [0 .. n -> T] : r[0] = base /\ \A k \in 1 .. n : r[k] = s[k][r[k - 1]]
  <2> HIDE DEF n, s
  <2>0. base \in T
    BY <1>0
  <2>1. PICK r \in [0 .. n -> T], end \in T : OneByOne(r, n, base, s, end)
    BY <1>1, <1>2, <2>0, StepsExist
  <2> QED BY <2>1 DEF OneByOne
<1> DEFINE f == [l \in lo .. hi |-> r[l - lo]]
<1>4. \A l \in lo .. hi : l - lo \in 0 .. n
  BY <1>0
<1>5. f \in [lo .. hi -> T] /\ f[lo] = base
  BY <1>0, <1>3, <1>4
<1>6. ASSUME NEW l \in lo + 1 .. hi PROVE f[l] = step[f[l - 1]]
  <2>1. l \in lo .. hi /\ l - 1 \in lo .. hi /\ l - lo \in 1 .. n /\ (l - 1) - lo = (l - lo) - 1
    BY <1>0
  <2>2. f[l] = r[l - lo] /\ f[l - 1] = r[(l - lo) - 1]
    BY <2>1
  <2>3. r[l - lo] = step[r[(l - lo) - 1]]
    BY <1>0, <1>3, <2>1
  <2> HIDE DEF f
  <2> QED BY <2>2, <2>3
<1> HIDE DEF f
<1>7. RoundsOf(f, lo, hi, T, base, step)
  BY <1>5, <1>6 DEF RoundsOf
<1> QED BY <1>7

(* What each round keeps is there at the end. *)
LEMMA RoundsKeep ==
  ASSUME NEW lo \in Int, NEW hi \in Int, lo <= hi, NEW f, NEW G, f[lo] \in G[lo],
         \A l \in lo + 1 .. hi : f[l - 1] \in G[l - 1] => f[l] \in G[l]
  PROVE  f[hi] \in G[hi]
<1> DEFINE P == {k \in Nat : lo + k <= hi => f[lo + k] \in G[lo + k]}
<1>1. 0 \in P
  OBVIOUS
<1>2. ASSUME NEW k \in P PROVE k + 1 \in P
  <2> SUFFICES ASSUME lo + (k + 1) <= hi PROVE f[lo + (k + 1)] \in G[lo + (k + 1)]
    OBVIOUS
  <2> DEFINE l == lo + (k + 1)
  <2>1. l \in lo + 1 .. hi /\ l - 1 = lo + k /\ lo + k <= hi /\ k \in Nat
    OBVIOUS
  <2>2. f[lo + k] \in G[lo + k]
    BY <2>1
  <2> HIDE DEF l
  <2>3. f[l] \in G[l]
    BY <2>1, <2>2
  <2> QED BY <2>3 DEF l
<1> HIDE DEF P
<1>3. P = Nat
  <2>1. P \in SUBSET Nat
    BY DEF P
  <2> QED BY <1>1, <1>2, <2>1, NatInd
<1>4. hi - lo \in P /\ lo + (hi - lo) = hi /\ hi - lo \in Nat
  BY <1>3
<1> QED BY <1>4 DEF P

LEMMA BucketOf ==
  ASSUME NEW spl \in [Rank -> Int], NEW key \in Int, NEW l \in 0 .. NumSplitters,
         \A k \in Rank : spl[k] < key <=> k < l
  PROVE  BucketIn(spl, key) = BucketAt(l, l \in Rank /\ spl[l] = key)
<1>0. NumSplitters \in Nat \ {0}
  BY Shape
<1> DEFINE less == Cardinality({i \in DOMAIN spl : spl[i] < key})
<1>1. {i \in DOMAIN spl : spl[i] < key} = 0 .. l - 1
  BY <1>0 DEF Rank
<1>2. Cardinality(0 .. l - 1) = l
  <2>1. 0 \in Int /\ l - 1 \in Int /\ l \in Nat
    BY <1>0
  <2>2. Cardinality(0 .. l - 1) = IF 0 > l - 1 THEN 0 ELSE (l - 1) - 0 + 1
    BY ONLY <2>1, FS_Interval
  <2> QED BY ONLY <2>1, <2>2
<1>3. less = l
  BY <1>1, <1>2
<1> HIDE DEF less
<1>4. BucketIn(spl, key) = IF l \in Rank /\ spl[l] = key THEN 2 * l + 1 ELSE 2 * l
  BY <1>3 DEF BucketIn, less
<1>5. l \in Rank <=> l < NumSplitters
  BY <1>0 DEF Rank
<1>6. CASE l \in Rank /\ spl[l] = key
  BY <1>0, <1>4, <1>5, <1>6 DEF BucketAt
<1>7. CASE ~(l \in Rank /\ spl[l] = key)
  BY <1>0, <1>4, <1>5, <1>7 DEF BucketAt
<1> QED BY <1>6, <1>7

-----------------------------------------------------------------------------
(* A search for key that has come to n has all splitters before the        *)
(* subtree at n behind it.                                                 *)
Reached(n, key) ==
  /\ n \in Spot
  /\ \A k \in Rank : k < Left(n) => splitter[k] < key
  /\ \A k \in Rank : k >= Left(n) + Wide(n) - 1 => key <= splitter[k]

LEMMA SplitterInts ==
  ASSUME TreeInv, Built
  PROVE  /\ splitter \in [Rank -> Int] /\ tree \in [Node -> Int]
         /\ \A k, l \in Rank : k <= l => splitter[k] <= splitter[l]
<1>1. \A k \in SampleKeys : k \in Int
  BY TreeAssumption, KeysAreNumbers
<1>2. splitter \in [Rank -> Int] /\ tree \in [Node -> Int]
  BY <1>1, SplittersAre
<1>3. ASSUME NEW k \in Rank, NEW l \in Rank, k <= l PROVE splitter[k] <= splitter[l]
  <2>1. CASE k = l
    BY <1>2, <2>1
  <2>2. CASE k < l
    BY <2>2, SplittersAre
  <2> QED BY <1>3, <2>1, <2>2, Shape DEF Rank
<1> QED BY <1>2, <1>3

LEMMA ReachedBegins ==
  ASSUME NEW key
  PROVE  Reached(1, key)
<1>1. \A k \in Rank : ~(k < Left(1)) /\ ~(k >= Left(1) + Wide(1) - 1)
  BY Widths, Shape DEF Rank
<1> QED BY <1>1, LevelBelow DEF Reached

LEMMA ReachedStep ==
  ASSUME TreeInv, Built, NEW key \in Int, NEW n \in Node, Reached(n, key)
  PROVE  Reached(StepDown(n, key), key)
<1> DEFINE l == Left(n) v == Wide(2 * n) c == LevelToPreorder(n) - 1
<1>1. /\ 2 * n \in Spot /\ 2 * n + 1 \in Spot /\ n \in Spot
      /\ Left(2 * n) = l /\ Left(2 * n + 1) = l + v /\ Wide(n) = 2 * v /\ Wide(2 * n + 1) = v
      /\ l \in Nat /\ v \in Nat \ {0}
  BY ChildPlaces, Widths
<1>2. c \in Rank /\ tree[n] = splitter[c] /\ c = l + v - 1
  BY <1>1, InOrderPlaces, SplittersAre, LevelToPreorderIs
<1>3. /\ \A k \in Rank : k < l => splitter[k] < key
      /\ \A k \in Rank : k >= l + Wide(n) - 1 => key <= splitter[k]
  BY DEF Reached
<1>4. \A k \in Rank : splitter[k] \in Int /\ k \in Int
  BY SplitterInts, Shape DEF Rank
<1>5. \A j, k \in Rank : j <= k => splitter[j] <= splitter[k]
  BY SplitterInts
<1> HIDE DEF l, v, c
<1>6. CASE key <= tree[n]
  <2>1. StepDown(n, key) = 2 * n + 0
    BY <1>6 DEF StepDown
  <2>2. StepDown(n, key) = 2 * n
    BY <2>1, Shape DEF Node
  <2>3. \A k \in Rank : k >= l + v - 1 => key <= splitter[k]
    <3> SUFFICES ASSUME NEW k \in Rank, k >= l + v - 1 PROVE key <= splitter[k]
      OBVIOUS
    <3>1. c <= k
      BY <1>1, <1>2, <1>4
    <3>2. splitter[c] <= splitter[k] /\ key <= splitter[c]
      BY <1>2, <1>5, <1>6, <3>1
    <3> QED BY <1>2, <1>4, <3>2
  <2>4. Reached(2 * n, key)
    BY <1>1, <1>3, <2>3 DEF Reached, v
  <2> QED BY <2>2, <2>4
<1>7. CASE ~(key <= tree[n])
  <2>1. StepDown(n, key) = 2 * n + 1
    BY <1>7 DEF StepDown
  <2>2. \A k \in Rank : k < l + v => splitter[k] < key
    <3> SUFFICES ASSUME NEW k \in Rank, k < l + v PROVE splitter[k] < key
      OBVIOUS
    <3>1. k <= c
      BY <1>1, <1>2, <1>4
    <3>2. splitter[k] <= splitter[c] /\ ~(key <= splitter[c])
      BY <1>2, <1>5, <1>7, <3>1
    <3> QED BY <1>2, <1>4, <3>2
  <2>3. (l + v) + v - 1 = l + 2 * v - 1
    BY <1>1
  <2>4. \A k \in Rank : k >= (l + v) + v - 1 => key <= splitter[k]
    BY <1>1, <1>3, <2>3
  <2> DEFINE m == 2 * n + 1
  <2>5. m \in Spot /\ Left(m) = l + v /\ Wide(m) = v
    BY <1>1
  <2> HIDE DEF m
  <2>6. Reached(m, key)
    BY <2>2, <2>4, <2>5 DEF Reached
  <2> QED BY <2>1, <2>6 DEF m
<1> QED BY <1>6, <1>7

LEMMA ReachedEnds ==
  ASSUME TreeInv, Built, NEW key \in Int, NEW n \in Spot \ Node, Reached(n, key)
  PROVE  /\ Leaf(n) \in 0 .. NumSplitters
         /\ BucketAt(Leaf(n), Leaf(n) \in Rank /\ splitter[Leaf(n)] = key) = BucketIn(splitter, key)
<1> DEFINE l == Leaf(n)
<1>0. NumSplitters \in Nat \ {0}
  BY Shape
<1>1. Left(n) = l /\ Wide(n) = 1
  BY Widths DEF Leaf
<1>2. l \in Nat /\ l + 1 <= NumSplitters + 1
  BY <1>1, Widths
<1> HIDE DEF l
<1>3. l \in 0 .. NumSplitters
  BY <1>0, <1>2
<1>4. \A k \in Rank : splitter[k] \in Int /\ k \in Int
  BY SplitterInts, Shape DEF Rank
<1>5. \A k \in Rank : splitter[k] < key <=> k < l
  <2> SUFFICES ASSUME NEW k \in Rank PROVE splitter[k] < key <=> k < l
    OBVIOUS
  <2>1. k < l => splitter[k] < key
    BY <1>1 DEF Reached
  <2>2. k >= l + 1 - 1 => key <= splitter[k]
    BY <1>1 DEF Reached
  <2> QED BY <1>2, <1>4, <2>1, <2>2
<1>6. splitter \in [Rank -> Int]
  BY SplitterInts
<1>7. BucketIn(splitter, key) = BucketAt(l, l \in Rank /\ splitter[l] = key)
  BY <1>3, <1>5, <1>6, BucketOf
<1> QED BY <1>3, <1>7 DEF l

LEMMA StepDownIs ==
  ASSUME NEW key, NEW n \in Nat
  PROVE  StepDown(n, key) \in {2 * n, 2 * n + 1} /\ StepDown(n, key) \in Nat
<1>1. CASE key <= tree[n]
  <2>1. StepDown(n, key) = 2 * n + 0
    BY <1>1 DEF StepDown
  <2> QED BY <2>1
<1>2. CASE ~(key <= tree[n])
  <2>1. StepDown(n, key) = 2 * n + 1
    BY <1>2 DEF StepDown
  <2> QED BY <2>1
<1> QED BY <1>1, <1>2

(* The three loops all end at the leaf at which the key belongs. *)
LEMMA DescentIs ==
  ASSUME TreeInv, Built, NEW key \in Int
  PROVE  \E n \in Spot \ Node : Reached(n, key) /\ Descent(key) = Leaf(n)
<1> DEFINE goes(n) == IF n \in Node THEN StepDown(n, key) ELSE n
           step == [n \in Nat |-> goes(n)]
           Rec(g) == g = [l \in 0 .. NumSplitters |-> IF l = 0 THEN 1 ELSE goes(g[l - 1])]
           d == CHOOSE g : Rec(g)
<1>0. NumSplitters \in Nat \ {0} /\ 0 <= NumSplitters /\ 0 \in Int /\ NumSplitters \in Int
  BY Shape
<1>1. step \in [Nat -> Nat]
  BY StepDownIs
<1>2. \E f : Rec(f)
  <2>1. PICK f \in [0 .. NumSplitters -> Nat] :
          f[0] = 1 /\ \A l \in 0 + 1 .. NumSplitters : f[l] = step[f[l - 1]]
    <3> HIDE DEF step
    <3>1. 1 \in Nat
      BY <1>1
    <3>2. RoundsFrom(0, NumSplitters, Nat, 1, step)
      BY <1>0, <1>1, <3>1 DEF RoundsFrom
    <3>3. \E f : RoundsOf(f, 0, NumSplitters, Nat, 1, step)
      BY ONLY <3>2, Rounds
    <3> QED BY <3>3 DEF RoundsOf
  <2>2. ASSUME NEW l \in 0 .. NumSplitters PROVE f[l] = IF l = 0 THEN 1 ELSE goes(f[l - 1])
    <3>1. CASE l = 0
      BY <2>1, <3>1
    <3>2. CASE l # 0
      <4>1. l \in 0 + 1 .. NumSplitters /\ l - 1 \in 0 .. NumSplitters
        BY <1>0, <3>2
      <4>2. f[l] = step[f[l - 1]] /\ f[l - 1] \in Nat
        BY <2>1, <4>1
      <4> HIDE DEF goes
      <4> QED BY <3>2, <4>2
    <3> QED BY <3>1, <3>2
  <2> HIDE DEF goes
  <2>3. f = [l \in 0 .. NumSplitters |-> IF l = 0 THEN 1 ELSE goes(f[l - 1])]
    BY <2>1, <2>2
  <2> QED BY <2>3
<1>3. Descent(key) = Leaf(d[NumSplitters])
  BY DEF Descent
<1>4. Rec(d)
  <2> HIDE DEF Rec
  <2> QED BY <1>2
<1> HIDE DEF d
<1>5. d[0] = 1 /\ \A l \in 1 .. NumSplitters : d[l] = goes(d[l - 1])
  <2> HIDE DEF goes
  <2>1. \A l \in 0 .. NumSplitters : d[l] = IF l = 0 THEN 1 ELSE goes(d[l - 1])
    BY <1>4
  <2>2. 0 \in 0 .. NumSplitters /\ \A l \in 1 .. NumSplitters : l \in 0 .. NumSplitters /\ l # 0
    BY <1>0
  <2> QED BY ONLY <2>1, <2>2
<1> DEFINE G == [l \in 0 .. NumSplitters |-> {n \in Spot : Reached(n, key) /\ (n \in Node => n >= l + 1)}]
<1>6. d[0] \in G[0]
  <2>1. 0 \in 0 .. NumSplitters /\ 1 >= 0 + 1
    BY <1>0
  <2> QED BY <1>5, <2>1, ReachedBegins, LevelBelow
<1>7. ASSUME NEW l \in 0 + 1 .. NumSplitters, d[l - 1] \in G[l - 1] PROVE d[l] \in G[l]
  <2> DEFINE n == d[l - 1]
  <2>1. /\ l \in 1 .. NumSplitters /\ l \in 0 .. NumSplitters /\ l - 1 \in 0 .. NumSplitters
        /\ (l - 1) + 1 = l
    BY <1>0
  <2>2. n \in Spot /\ Reached(n, key) /\ (n \in Node => n >= l) /\ d[l] = goes(n)
    BY <1>5, <1>7, <2>1
  <2> HIDE DEF n
  <2>3. CASE n \in Node
    <3> DEFINE m == StepDown(n, key)
    <3>1. n \in Nat /\ n >= 1
      BY <1>0, <2>3 DEF Node
    <3>2. m \in {2 * n, 2 * n + 1}
      BY <3>1, StepDownIs
    <3>3. Reached(m, key)
      BY <2>2, <2>3, ReachedStep
    <3> HIDE DEF m
    <3>4. m \in Spot /\ m >= l + 1
      BY <2>1, <2>2, <2>3, <3>1, <3>2, <3>3 DEF Reached
    <3>5. d[l] = m
      BY <2>2, <2>3 DEF m
    <3> QED BY <2>1, <3>3, <3>4, <3>5
  <2>4. CASE n \notin Node
    BY <2>1, <2>2, <2>4
  <2> QED BY <2>3, <2>4
<1>8. d[NumSplitters] \in G[NumSplitters]
  <2> HIDE DEF G
  <2> QED BY ONLY <1>0, <1>6, <1>7, RoundsKeep
<1> DEFINE n == d[NumSplitters]
<1>9. n \in Spot /\ Reached(n, key) /\ (n \in Node => n >= NumSplitters + 1)
  BY <1>0, <1>8
<1>10. n \notin Node
  <2> HIDE DEF n
  <2> QED BY <1>0, <1>9 DEF Node
<1> QED BY <1>3, <1>9, <1>10

LEMMA DescentAssemblerIs ==
  ASSUME TreeInv, Built, NEW key \in Int
  PROVE  \E n \in Spot \ Node : Reached(n, key) /\ DescentAssembler(key) = Leaf(n)
<1> DEFINE goes(n) == IF n < NumSplitters + 1 THEN StepDown(n, key) ELSE n
           step == [n \in Nat |-> goes(n)]
           Rec(g) == g = [l \in 1 .. NumSplitters |-> IF l = 1 THEN StepDown(1, key) ELSE goes(g[l - 1])]
           d == CHOOSE g : Rec(g)
<1>0. NumSplitters \in Nat \ {0} /\ 1 <= NumSplitters /\ 1 \in Int /\ NumSplitters \in Int
  BY Shape
<1>1. step \in [Nat -> Nat] /\ StepDown(1, key) \in {2, 3} /\ StepDown(1, key) \in Nat
  BY StepDownIs
<1>2. \E f : Rec(f)
  <2>1. PICK f \in [1 .. NumSplitters -> Nat] :
          f[1] = StepDown(1, key) /\ \A l \in 1 + 1 .. NumSplitters : f[l] = step[f[l - 1]]
    <3> HIDE DEF step
    <3>1. StepDown(1, key) \in Nat
      BY <1>1
    <3>2. RoundsFrom(1, NumSplitters, Nat, StepDown(1, key), step)
      BY <1>0, <1>1, <3>1 DEF RoundsFrom
    <3>3. \E f : RoundsOf(f, 1, NumSplitters, Nat, StepDown(1, key), step)
      BY ONLY <3>2, Rounds
    <3> QED BY <3>3 DEF RoundsOf
  <2>2. ASSUME NEW l \in 1 .. NumSplitters PROVE f[l] = IF l = 1 THEN StepDown(1, key) ELSE goes(f[l - 1])
    <3>1. CASE l = 1
      BY <2>1, <3>1
    <3>2. CASE l # 1
      <4>1. l \in 1 + 1 .. NumSplitters /\ l - 1 \in 1 .. NumSplitters
        BY <1>0, <3>2
      <4>2. f[l] = step[f[l - 1]] /\ f[l - 1] \in Nat
        BY <2>1, <4>1
      <4> HIDE DEF goes
      <4> QED BY <3>2, <4>2
    <3> QED BY <3>1, <3>2
  <2> HIDE DEF goes
  <2>3. f = [l \in 1 .. NumSplitters |-> IF l = 1 THEN StepDown(1, key) ELSE goes(f[l - 1])]
    BY <2>1, <2>2
  <2> QED BY <2>3
<1>3. DescentAssembler(key) = Leaf(d[NumSplitters])
  BY DEF DescentAssembler
<1>4. Rec(d)
  <2> HIDE DEF Rec
  <2> QED BY <1>2
<1> HIDE DEF d
<1>5. d[1] = StepDown(1, key) /\ \A l \in 2 .. NumSplitters : d[l] = goes(d[l - 1])
  <2> HIDE DEF goes
  <2>1. \A l \in 1 .. NumSplitters : d[l] = IF l = 1 THEN StepDown(1, key) ELSE goes(d[l - 1])
    BY <1>4
  <2>2. 1 \in 1 .. NumSplitters /\ \A l \in 2 .. NumSplitters : l \in 1 .. NumSplitters /\ l # 1
    BY <1>0
  <2> QED BY ONLY <2>1, <2>2
<1> DEFINE G == [l \in 1 .. NumSplitters |-> {n \in Spot : Reached(n, key) /\ (n \in Node => n >= l + 1)}]
<1>6. d[1] \in G[1]
  <2>1. 1 \in 1 .. NumSplitters /\ 1 \in Node
    BY <1>0 DEF Node
  <2>2. Reached(d[1], key)
    BY <1>5, <2>1, ReachedBegins, ReachedStep
  <2>3. d[1] \in Spot /\ d[1] >= 1 + 1
    BY <1>1, <1>5, <2>2 DEF Reached
  <2> QED BY <2>1, <2>2, <2>3
<1>7. ASSUME NEW l \in 1 + 1 .. NumSplitters, d[l - 1] \in G[l - 1] PROVE d[l] \in G[l]
  <2> DEFINE n == d[l - 1]
  <2>1. /\ l \in 2 .. NumSplitters /\ l \in 1 .. NumSplitters /\ l - 1 \in 1 .. NumSplitters
        /\ (l - 1) + 1 = l
    BY <1>0
  <2>2. n \in Spot /\ Reached(n, key) /\ (n \in Node => n >= l) /\ d[l] = goes(n)
    BY <1>5, <1>7, <2>1
  <2> HIDE DEF n
  <2>3. CASE n \in Node
    <3> DEFINE m == StepDown(n, key)
    <3>1. n \in Nat /\ n >= 1 /\ n < NumSplitters + 1
      BY <1>0, <2>3 DEF Node
    <3>2. m \in {2 * n, 2 * n + 1}
      BY <3>1, StepDownIs
    <3>3. Reached(m, key)
      BY <2>2, <2>3, ReachedStep
    <3> HIDE DEF m
    <3>4. m \in Spot /\ m >= l + 1
      BY <2>1, <2>2, <2>3, <3>1, <3>2, <3>3 DEF Reached
    <3>5. d[l] = m
      BY <2>2, <3>1 DEF m
    <3> QED BY <2>1, <3>3, <3>4, <3>5
  <2>4. CASE n \notin Node
    <3>1. ~(n < NumSplitters + 1)
      BY <1>0, <2>2, <2>4 DEF Spot, Node
    <3> QED BY <2>1, <2>2, <2>4, <3>1
  <2> QED BY <2>3, <2>4
<1>8. d[NumSplitters] \in G[NumSplitters]
  <2> HIDE DEF G
  <2> QED BY ONLY <1>0, <1>6, <1>7, RoundsKeep
<1> DEFINE n == d[NumSplitters]
<1>9. n \in Spot /\ Reached(n, key) /\ (n \in Node => n >= NumSplitters + 1)
  BY <1>0, <1>8
<1>10. n \notin Node
  <2> HIDE DEF n
  <2> QED BY <1>0, <1>9 DEF Node
<1> QED BY <1>3, <1>9, <1>10

LEMMA DescentUnrolledIs ==
  ASSUME TreeInv, Built, NEW key \in Int
  PROVE  \E n \in Spot \ Node : Reached(n, key) /\ DescentUnrolled(key) = Leaf(n)
<1> DEFINE step == [n \in Nat |-> StepDown(n, key)]
           Rec(g) == g = [l \in 0 .. TreeBits |-> IF l = 0 THEN 1 ELSE StepDown(g[l - 1], key)]
           d == CHOOSE g : Rec(g)
<1>0. TreeBits \in Nat \ {0} /\ 0 <= TreeBits /\ 0 \in Int /\ TreeBits \in Int
  BY TreeBitsAssumption
<1>1. step \in [Nat -> Nat]
  BY StepDownIs
<1>2. \E f : Rec(f)
  <2>1. PICK f \in [0 .. TreeBits -> Nat] :
          f[0] = 1 /\ \A l \in 0 + 1 .. TreeBits : f[l] = step[f[l - 1]]
    <3> HIDE DEF step
    <3>1. 1 \in Nat
      BY <1>1
    <3>2. RoundsFrom(0, TreeBits, Nat, 1, step)
      BY <1>0, <1>1, <3>1 DEF RoundsFrom
    <3>3. \E f : RoundsOf(f, 0, TreeBits, Nat, 1, step)
      BY ONLY <3>2, Rounds
    <3> QED BY <3>3 DEF RoundsOf
  <2>2. ASSUME NEW l \in 0 .. TreeBits PROVE f[l] = IF l = 0 THEN 1 ELSE StepDown(f[l - 1], key)
    <3>1. CASE l = 0
      BY <2>1, <3>1
    <3>2. CASE l # 0
      <4>1. l \in 0 + 1 .. TreeBits /\ l - 1 \in 0 .. TreeBits
        BY <1>0, <3>2
      <4>2. f[l] = step[f[l - 1]] /\ f[l - 1] \in Nat
        BY <2>1, <4>1
      <4> QED BY <3>2, <4>2
    <3> QED BY <3>1, <3>2
  <2>3. f = [l \in 0 .. TreeBits |-> IF l = 0 THEN 1 ELSE StepDown(f[l - 1], key)]
    BY <2>1, <2>2
  <2> QED BY <2>3
<1>3. DescentUnrolled(key) = Leaf(d[TreeBits])
  BY DEF DescentUnrolled
<1>4. Rec(d)
  <2> HIDE DEF Rec
  <2> QED BY <1>2
<1> HIDE DEF d
<1>5. d[0] = 1 /\ \A l \in 1 .. TreeBits : d[l] = StepDown(d[l - 1], key)
  <2>1. \A l \in 0 .. TreeBits : d[l] = IF l = 0 THEN 1 ELSE StepDown(d[l - 1], key)
    BY <1>4
  <2>2. 0 \in 0 .. TreeBits /\ \A l \in 1 .. TreeBits : l \in 0 .. TreeBits /\ l # 0
    BY <1>0
  <2> QED BY ONLY <2>1, <2>2
<1> DEFINE G == [l \in 0 .. TreeBits |-> {n \in Spot : Reached(n, key) /\ HighBit(n) = l}]
<1>6. d[0] \in G[0]
  <2>1. 0 \in 0 .. TreeBits
    BY <1>0
  <2> QED BY <1>5, <2>1, ReachedBegins, LevelBelow
<1>7. ASSUME NEW l \in 0 + 1 .. TreeBits, d[l - 1] \in G[l - 1] PROVE d[l] \in G[l]
  <2> DEFINE n == d[l - 1]
  <2>1. /\ l \in 1 .. TreeBits /\ l \in 0 .. TreeBits /\ l - 1 \in 0 .. TreeBits
        /\ (l - 1) + 1 = l /\ l - 1 < TreeBits
    BY <1>0
  <2>2. n \in Spot /\ Reached(n, key) /\ HighBit(n) = l - 1 /\ d[l] = StepDown(n, key)
    BY <1>5, <1>7, <2>1
  <2> HIDE DEF n
  <2>3. n \in Node /\ n \in Nat
    BY <2>1, <2>2, Levels, Shape DEF Spot
  <2> DEFINE m == StepDown(n, key)
  <2>4. m \in {2 * n, 2 * n + 1}
    BY <2>3, StepDownIs
  <2>5. Reached(m, key)
    BY <2>2, <2>3, ReachedStep
  <2> HIDE DEF m
  <2>6. m \in Spot /\ HighBit(m) = l
    BY <2>1, <2>2, <2>3, <2>4, LevelBelow
  <2> QED BY <2>1, <2>2, <2>5, <2>6 DEF m
<1>8. d[TreeBits] \in G[TreeBits]
  <2> HIDE DEF G
  <2> QED BY ONLY <1>0, <1>6, <1>7, RoundsKeep
<1> DEFINE n == d[TreeBits]
<1>9. n \in Spot /\ Reached(n, key) /\ HighBit(n) = TreeBits
  BY <1>0, <1>8
<1>10. n \notin Node
  <2> HIDE DEF n
  <2> QED BY <1>0, <1>9, Levels
<1> QED BY <1>3, <1>9, <1>10

(* The variants of find_bkt that use a tree. *)
LEMMA TreeBuckets ==
  ASSUME TreeInv, Built, NEW key \in Int
  PROVE  /\ FindBktTree(key) = BucketIn(splitter, key)
         /\ FindBktTreeAssembler(key) = BucketIn(splitter, key)
         /\ FindBktTreeUnroll(key) = BucketIn(splitter, key)
         /\ FindBktCalc(key) = BucketIn(splitter, key)
         /\ FindBktCalcUnroll(key) = BucketIn(splitter, key)
<1>1. \A k \in Rank : GetSplitterCalc(k) = splitter[k]
  BY SplittersAre DEF GetSplitterCalc
<1> DEFINE at(b) == BucketAt(b, b \in Rank /\ splitter[b] = key)
<1>2. \A b : (b \in Rank /\ GetSplitterCalc(b) = key) = (b \in Rank /\ splitter[b] = key)
  BY <1>1
<1>3. at(Descent(key)) = BucketIn(splitter, key)
  BY DescentIs, ReachedEnds
<1>4. at(DescentAssembler(key)) = BucketIn(splitter, key)
  BY DescentAssemblerIs, ReachedEnds
<1>5. at(DescentUnrolled(key)) = BucketIn(splitter, key)
  BY DescentUnrolledIs, ReachedEnds
<1>6. FindBktTree(key) = at(Descent(key))
  BY DEF FindBktTree
<1>7. FindBktTreeAssembler(key) = at(DescentAssembler(key))
  BY DEF FindBktTreeAssembler
<1>8. FindBktTreeUnroll(key) = at(DescentUnrolled(key))
  BY DEF FindBktTreeUnroll
<1>9. FindBktCalc(key) = at(Descent(key))
  <2> DEFINE b == Descent(key)
  <2>1. FindBktCalc(key) = BucketAt(b, b \in Rank /\ GetSplitterCalc(b) = key)
    BY DEF FindBktCalc
  <2> HIDE DEF b
  <2> QED BY <1>2, <2>1 DEF BucketAt, b
<1>10. FindBktCalcUnroll(key) = at(DescentUnrolled(key))
  <2> DEFINE b == DescentUnrolled(key)
  <2>1. FindBktCalcUnroll(key) = BucketAt(b, b \in Rank /\ GetSplitterCalc(b) = key)
    BY DEF FindBktCalcUnroll
  <2> HIDE DEF b
  <2> QED BY <1>2, <2>1 DEF BucketAt, b
<1> HIDE DEF at
<1> QED BY <1>3, <1>4, <1>5, <1>6, <1>7, <1>8, <1>9, <1>10

-----------------------------------------------------------------------------
(* The splitters of the binary search variants are in order as well. *)
LEMMA PreorderAre ==
  ASSUME TreeInv
  PROVE  /\ PreorderSplitters \in [Rank -> Int]
         /\ \A k, l \in Rank : k <= l => PreorderSplitters[k] <= PreorderSplitters[l]
<1> DEFINE at(k) == Oversample \div 2 + k * Oversample
<1>0. NumSplitters \in Nat \ {0} /\ Oversample \in Nat \ {0}
  BY Shape, SizeIs
<1>1. ASSUME NEW k \in Rank PROVE at(k) \in 0 .. SampleSize - 1
  <2>1. k \in Nat /\ k <= NumSplitters - 1
    BY <1>0 DEF Rank
  <2>2. Oversample \div 2 \in Nat /\ Oversample \div 2 <= Oversample - 1
    BY <1>0
  <2>3. k * Oversample \in Nat /\ k * Oversample <= (NumSplitters - 1) * Oversample
    BY <1>0, <2>1
  <2>4. (NumSplitters - 1) * Oversample = Oversample * NumSplitters - Oversample
    BY <1>0
  <2>5. Oversample * NumSplitters \in Nat
    BY <1>0
  <2> QED BY <1>0, <2>2, <2>3, <2>4, <2>5 DEF SampleSize
<1>2. ASSUME NEW k \in Rank, NEW l \in Rank, k <= l PROVE at(k) <= at(l)
  <2>1. k \in Nat /\ l \in Nat
    BY <1>0 DEF Rank
  <2>2. k * Oversample <= l * Oversample /\ k * Oversample \in Nat /\ l * Oversample \in Nat
    BY <1>0, <1>2, <2>1
  <2>3. Oversample \div 2 \in Nat
    BY <1>0
  <2> QED BY <2>2, <2>3
<1>3. \A k \in Rank : PreorderSplitters[k] = samples[at(k)]
  BY DEF PreorderSplitters
<1> HIDE DEF at
<1>4. samples \in [0 .. SampleSize - 1 -> SampleKeys]
  BY DEF TreeInv, Ascending
<1>5. \A i, k \in 0 .. SampleSize - 1 : i <= k => samples[i] <= samples[k]
  BY DEF TreeInv, Ascending
<1>6. \A key \in SampleKeys : key \in Int
  BY TreeAssumption, KeysAreNumbers
<1>7. \A k \in Rank : PreorderSplitters[k] \in Int
  BY <1>1, <1>3, <1>4, <1>6
<1>8. PreorderSplitters \in [Rank -> Int]
  BY <1>7 DEF PreorderSplitters
<1> QED BY <1>1, <1>2, <1>3, <1>5, <1>8

(* What is left of a binary search after n rounds. *)
SearchRange == [lo : Nat, hi : Nat]

Halved(r, key, n) ==
  /\ r \in SearchRange /\ r.lo <= r.hi /\ r.hi <= NumSplitters
  /\ \A k \in Rank : k < r.lo => PreorderSplitters[k] < key
  /\ \A k \in Rank : k >= r.hi => key <= PreorderSplitters[k]
  /\ r.hi - r.lo < 2 ^ (TreeBits - n)

LEMMA HalveIs ==
  ASSUME NEW key, NEW r \in SearchRange
  PROVE  LET mid == (r.lo + r.hi) \div 2
         IN  /\ Halve(key, r) = IF key <= PreorderSplitters[mid] THEN [lo |-> r.lo, hi |-> mid]
                                                                 ELSE [lo |-> mid + 1, hi |-> r.hi]
             /\ Halve(key, r) \in SearchRange
<1> DEFINE mid == (r.lo + r.hi) \div 2
<1>1. mid \in Nat /\ mid + 1 \in Nat
  BY DEF SearchRange
<1>2. r = [lo |-> r.lo, hi |-> r.hi] /\ r.lo \in Nat /\ r.hi \in Nat
  BY DEF SearchRange
<1>3. Halve(key, r) = IF key <= PreorderSplitters[mid] THEN [r EXCEPT !.hi = mid] ELSE [r EXCEPT !.lo = mid + 1]
  BY DEF Halve
<1> HIDE DEF mid
<1>4. [r EXCEPT !.hi = mid] = [lo |-> r.lo, hi |-> mid] /\ [r EXCEPT !.lo = mid + 1] = [lo |-> mid + 1, hi |-> r.hi]
  BY <1>2 DEF SearchRange
<1>5. [lo |-> r.lo, hi |-> mid] \in SearchRange /\ [lo |-> mid + 1, hi |-> r.hi] \in SearchRange
  BY <1>1, <1>2 DEF SearchRange
<1>6. /\ Halve(key, r) = IF key <= PreorderSplitters[mid] THEN [lo |-> r.lo, hi |-> mid]
                                                          ELSE [lo |-> mid + 1, hi |-> r.hi]
      /\ Halve(key, r) \in SearchRange
  <2>1. CASE key <= PreorderSplitters[mid]
    BY <1>3, <1>4, <1>5, <2>1
  <2>2. CASE ~(key <= PreorderSplitters[mid])
    BY <1>3, <1>4, <1>5, <2>2
  <2> QED BY <2>1, <2>2
<1> QED BY <1>6 DEF mid

LEMMA HalvedBegins ==
  ASSUME NEW key
  PROVE  Halved([lo |-> 0, hi |-> NumSplitters], key, 0)
<1>1. \A k \in Rank : k \in Nat /\ ~(k < 0) /\ ~(k >= NumSplitters)
  BY Shape DEF Rank
<1>2. TreeBits - 0 = TreeBits /\ NumSplitters - 0 < 2 ^ TreeBits /\ NumSplitters \in Nat
  BY Shape, TreeBitsAssumption
<1> QED BY <1>1, <1>2 DEF Halved, SearchRange

LEMMA HalvedStep ==
  ASSUME TreeInv, NEW key \in Int, NEW n \in 0 .. TreeBits - 1, NEW r, Halved(r, key, n)
  PROVE  Halved(IF r.lo < r.hi THEN Halve(key, r) ELSE r, key, n + 1)
<1> DEFINE w == 2 ^ (TreeBits - (n + 1)) P == PreorderSplitters
<1>0. TreeBits \in Nat \ {0} /\ NumSplitters \in Nat \ {0}
  BY TreeBitsAssumption, Shape
<1>1. w \in Nat \ {0} /\ 2 ^ (TreeBits - n) = 2 * w
  <2>1. TreeBits - (n + 1) \in 0 .. TreeBits /\ TreeBits - (n + 1) + 1 = TreeBits - n
    BY <1>0
  <2>2. TreeBits - (n + 1) \in 0 .. TreeBits + 1
    BY <1>0
  <2> QED BY <2>1, <2>2, Two, DoublingAssumption
<1>2. \A k \in Rank : P[k] \in Int /\ k \in Int
  BY <1>0, PreorderAre DEF Rank
<1>3. \A k, l \in Rank : k <= l => P[k] <= P[l]
  BY PreorderAre
<1> HIDE DEF P, w
<1>4. /\ r \in SearchRange /\ r.lo <= r.hi /\ r.hi <= NumSplitters /\ r.hi - r.lo < 2 * w
      /\ \A k \in Rank : k < r.lo => P[k] < key
      /\ \A k \in Rank : k >= r.hi => key <= P[k]
  BY <1>1 DEF Halved, P
<1>5. r.lo \in Nat /\ r.hi \in Nat
  BY <1>4 DEF SearchRange
<1>6. CASE r.lo < r.hi
  <2> DEFINE mid == (r.lo + r.hi) \div 2
             a == [lo |-> r.lo, hi |-> mid]
             b == [lo |-> mid + 1, hi |-> r.hi]
  <2>1. /\ mid \in Nat /\ r.lo <= mid /\ mid < r.hi
        /\ mid - r.lo < w /\ r.hi - (mid + 1) < w
    BY <1>1, <1>4, <1>5, <1>6
  <2>2. Halve(key, r) = IF key <= P[mid] THEN a ELSE b
    BY <1>4, HalveIs DEF P
  <2> HIDE DEF mid
  <2>3. mid \in Rank
    BY <1>0, <1>4, <1>5, <2>1 DEF Rank
  <2>4. a.lo = r.lo /\ a.hi = mid /\ a \in SearchRange
    BY <1>5, <2>1 DEF SearchRange
  <2>5. b.lo = mid + 1 /\ b.hi = r.hi /\ b \in SearchRange
    BY <1>5, <2>1 DEF SearchRange
  <2> HIDE DEF a, b
  <2>6. CASE key <= P[mid]
    <3>1. ASSUME NEW k \in Rank, k >= mid PROVE key <= P[k]
      BY <1>2, <1>3, <2>3, <2>6, <3>1
    <3>2. Halved(a, key, n + 1)
      BY <1>0, <1>4, <1>5, <2>1, <2>4, <3>1 DEF Halved, P, w
    <3> QED BY <1>6, <2>2, <2>6, <3>2
  <2>7. CASE ~(key <= P[mid])
    <3>1. ASSUME NEW k \in Rank, k < mid + 1 PROVE P[k] < key
      <4>1. k <= mid
        BY <1>2, <2>1, <3>1
      <4> QED BY <1>2, <1>3, <2>3, <2>7, <4>1
    <3>2. Halved(b, key, n + 1)
      BY <1>0, <1>4, <1>5, <2>1, <2>5, <3>1 DEF Halved, P, w
    <3> QED BY <1>6, <2>2, <2>7, <3>2
  <2> QED BY <2>6, <2>7
<1>7. CASE ~(r.lo < r.hi)
  <2>1. r.hi - r.lo < w
    BY <1>1, <1>4, <1>5, <1>7
  <2>2. Halved(r, key, n + 1)
    BY <1>4, <2>1 DEF Halved, P, w
  <2> QED BY <1>7, <2>2
<1> QED BY <1>6, <1>7

LEMMA HalvedEnds ==
  ASSUME TreeInv, NEW key \in Int, NEW r, Halved(r, key, TreeBits)
  PROVE  BucketAt(r.lo, r.lo \in Rank /\ PreorderSplitters[r.lo] = key) = BucketIn(PreorderSplitters, key)
<1>0. NumSplitters \in Nat \ {0} /\ TreeBits - TreeBits = 0 /\ 2 ^ 0 = 1
  BY Shape, TreeBitsAssumption, DoublingAssumption
<1> DEFINE l == r.lo
<1>1. r.lo \in Nat /\ r.hi \in Nat /\ r.lo <= r.hi /\ r.hi <= NumSplitters /\ r.hi - r.lo < 1
  BY <1>0 DEF Halved, SearchRange
<1>2. l \in 0 .. NumSplitters /\ r.hi = l
  BY <1>0, <1>1
<1>3. \A k \in Rank : PreorderSplitters[k] \in Int /\ k \in Int
  BY <1>0, PreorderAre DEF Rank
<1>4. \A k \in Rank : k < l => PreorderSplitters[k] < key
  BY DEF Halved
<1>5. \A k \in Rank : k >= l => key <= PreorderSplitters[k]
  BY <1>2 DEF Halved
<1> HIDE DEF l
<1>6. \A k \in Rank : PreorderSplitters[k] < key <=> k < l
  BY <1>0, <1>2, <1>3, <1>4, <1>5
<1>7. PreorderSplitters \in [Rank -> Int]
  BY PreorderAre
<1>8. BucketIn(PreorderSplitters, key) = BucketAt(l, l \in Rank /\ PreorderSplitters[l] = key)
  BY <1>2, <1>6, <1>7, BucketOf
<1> QED BY <1>8 DEF l

LEMMA BinarySearchIs ==
  ASSUME TreeInv, NEW key \in Int
  PROVE  \E r : Halved(r, key, TreeBits) /\ BinarySearch(key) = r.lo
<1> DEFINE base == [lo |-> 0, hi |-> NumSplitters]
           goes(x) == IF x.lo < x.hi THEN Halve(key, x) ELSE x
           step == [x \in SearchRange |-> goes(x)]
           Rec(g) == g = [n \in 0 .. TreeBits |-> IF n = 0 THEN base ELSE goes(g[n - 1])]
           d == CHOOSE g : Rec(g)
<1>0. TreeBits \in Nat \ {0} /\ 0 <= TreeBits /\ 0 \in Int /\ TreeBits \in Int
  BY TreeBitsAssumption
<1>1. step \in [SearchRange -> SearchRange]
  <2>1. ASSUME NEW x \in SearchRange PROVE goes(x) \in SearchRange
    <3>1. CASE x.lo < x.hi
      BY <3>1, HalveIs
    <3>2. CASE ~(x.lo < x.hi)
      BY <3>2
    <3> QED BY <3>1, <3>2
  <2> HIDE DEF goes
  <2> QED BY <2>1
<1>2. base \in SearchRange /\ Halved(base, key, 0)
  BY HalvedBegins DEF Halved
<1>3. BinarySearch(key) = d[TreeBits].lo
  BY DEF BinarySearch
<1> HIDE DEF base
<1>4. \E f : Rec(f)
  <2>1. PICK f \in [0 .. TreeBits -> SearchRange] :
          f[0] = base /\ \A l \in 0 + 1 .. TreeBits : f[l] = step[f[l - 1]]
    <3> HIDE DEF step
    <3>1. RoundsFrom(0, TreeBits, SearchRange, base, step)
      BY <1>0, <1>1, <1>2 DEF RoundsFrom
    <3>2. \E f : RoundsOf(f, 0, TreeBits, SearchRange, base, step)
      BY ONLY <3>1, Rounds
    <3> QED BY <3>2 DEF RoundsOf
  <2>2. ASSUME NEW n \in 0 .. TreeBits PROVE f[n] = IF n = 0 THEN base ELSE goes(f[n - 1])
    <3>1. CASE n = 0
      BY <2>1, <3>1
    <3>2. CASE n # 0
      <4>1. n \in 0 + 1 .. TreeBits /\ n - 1 \in 0 .. TreeBits
        BY <1>0, <3>2
      <4>2. f[n] = step[f[n - 1]] /\ f[n - 1] \in SearchRange
        BY <2>1, <4>1
      <4> HIDE DEF goes
      <4> QED BY <3>2, <4>2
    <3> QED BY <3>1, <3>2
  <2> HIDE DEF goes
  <2>3. f = [n \in 0 .. TreeBits |-> IF n = 0 THEN base ELSE goes(f[n - 1])]
    BY <2>1, <2>2
  <2> QED BY <2>3
<1>5. Rec(d)
  <2> HIDE DEF Rec
  <2> QED BY <1>4
<1> HIDE DEF d
<1>6. d[0] = base /\ \A n \in 1 .. TreeBits : d[n] = goes(d[n - 1])
  <2> HIDE DEF goes
  <2>1. \A n \in 0 .. TreeBits : d[n] = IF n = 0 THEN base ELSE goes(d[n - 1])
    BY <1>5
  <2>2. 0 \in 0 .. TreeBits /\ \A n \in 1 .. TreeBits : n \in 0 .. TreeBits /\ n # 0
    BY <1>0
  <2> QED BY ONLY <2>1, <2>2
<1> DEFINE G == [n \in 0 .. TreeBits |-> {r \in SearchRange : Halved(r, key, n)}]
<1>7. d[0] \in G[0]
  <2>1. 0 \in 0 .. TreeBits
    BY <1>0
  <2> QED BY <1>2, <1>6, <2>1
<1>8. ASSUME NEW n \in 0 + 1 .. TreeBits, d[n - 1] \in G[n - 1] PROVE d[n] \in G[n]
  <2> DEFINE r == d[n - 1]
  <2>1. /\ n \in 1 .. TreeBits /\ n \in 0 .. TreeBits /\ n - 1 \in 0 .. TreeBits
        /\ n - 1 \in 0 .. TreeBits - 1 /\ (n - 1) + 1 = n
    BY <1>0
  <2>2. Halved(r, key, n - 1) /\ d[n] = goes(r)
    BY <1>6, <1>8, <2>1
  <2> HIDE DEF r
  <2>3. Halved(goes(r), key, n)
    BY <2>1, <2>2, HalvedStep
  <2>4. goes(r) \in SearchRange
    BY <2>3 DEF Halved
  <2> HIDE DEF goes
  <2> QED BY <2>1, <2>2, <2>3, <2>4
<1>9. d[TreeBits] \in G[TreeBits]
  <2> HIDE DEF G
  <2> QED BY ONLY <1>0, <1>7, <1>8, RoundsKeep
<1>10. TreeBits \in 0 .. TreeBits
  BY <1>0
<1>11. Halved(d[TreeBits], key, TreeBits)
  BY <1>9, <1>10
<1> QED BY <1>3, <1>11

LEMMA BinarySearchAssemblerIs ==
  ASSUME TreeInv, NEW key \in Int
  PROVE  \E r : Halved(r, key, TreeBits) /\ BinarySearchAssembler(key) = r.lo
<1> DEFINE base == Halve(key, [lo |-> 0, hi |-> NumSplitters])
           goes(x) == IF x.lo < x.hi THEN Halve(key, x) ELSE x
           step == [x \in SearchRange |-> goes(x)]
           Rec(g) == g = [n \in 1 .. TreeBits |-> IF n = 1 THEN base ELSE goes(g[n - 1])]
           d == CHOOSE g : Rec(g)
<1>0. TreeBits \in Nat \ {0} /\ 1 <= TreeBits /\ 1 \in Int /\ TreeBits \in Int
  BY TreeBitsAssumption
<1>1. step \in [SearchRange -> SearchRange]
  <2>1. ASSUME NEW x \in SearchRange PROVE goes(x) \in SearchRange
    <3>1. CASE x.lo < x.hi
      BY <3>1, HalveIs
    <3>2. CASE ~(x.lo < x.hi)
      BY <3>2
    <3> QED BY <3>1, <3>2
  <2> HIDE DEF goes
  <2> QED BY <2>1
<1>2. base \in SearchRange /\ Halved(base, key, 1)
  <2> DEFINE all == [lo |-> 0, hi |-> NumSplitters]
  <2>1. Halved(all, key, 0)
    BY HalvedBegins
  <2>2. all.lo < all.hi /\ 0 \in 0 .. TreeBits - 1 /\ 0 + 1 = 1
    BY <1>0, Shape
  <2>3. base = Halve(key, all)
    OBVIOUS
  <2> HIDE DEF all, base
  <2>4. Halved(base, key, 1)
    BY <2>1, <2>2, <2>3, HalvedStep
  <2> QED BY <2>4 DEF Halved
<1>3. BinarySearchAssembler(key) = d[TreeBits].lo
  BY DEF BinarySearchAssembler
<1> HIDE DEF base
<1>4. \E f : Rec(f)
  <2>1. PICK f \in [1 .. TreeBits -> SearchRange] :
          f[1] = base /\ \A l \in 1 + 1 .. TreeBits : f[l] = step[f[l - 1]]
    <3> HIDE DEF step
    <3>1. RoundsFrom(1, TreeBits, SearchRange, base, step)
      BY <1>0, <1>1, <1>2 DEF RoundsFrom
    <3>2. \E f : RoundsOf(f, 1, TreeBits, SearchRange, base, step)
      BY ONLY <3>1, Rounds
    <3> QED BY <3>2 DEF RoundsOf
  <2>2. ASSUME NEW n \in 1 .. TreeBits PROVE f[n] = IF n = 1 THEN base ELSE goes(f[n - 1])
    <3>1. CASE n = 1
      BY <2>1, <3>1
    <3>2. CASE n # 1
      <4>1. n \in 1 + 1 .. TreeBits /\ n - 1 \in 1 .. TreeBits
        BY <1>0, <3>2
      <4>2. f[n] = step[f[n - 1]] /\ f[n - 1] \in SearchRange
        BY <2>1, <4>1
      <4> HIDE DEF goes
      <4> QED BY <3>2, <4>2
    <3> QED BY <3>1, <3>2
  <2> HIDE DEF goes
  <2>3. f = [n \in 1 .. TreeBits |-> IF n = 1 THEN base ELSE goes(f[n - 1])]
    BY <2>1, <2>2
  <2> QED BY <2>3
<1>5. Rec(d)
  <2> HIDE DEF Rec
  <2> QED BY <1>4
<1> HIDE DEF d
<1>6. d[1] = base /\ \A n \in 2 .. TreeBits : d[n] = goes(d[n - 1])
  <2> HIDE DEF goes
  <2>1. \A n \in 1 .. TreeBits : d[n] = IF n = 1 THEN base ELSE goes(d[n - 1])
    BY <1>5
  <2>2. 1 \in 1 .. TreeBits /\ \A n \in 2 .. TreeBits : n \in 1 .. TreeBits /\ n # 1
    BY <1>0
  <2> QED BY ONLY <2>1, <2>2
<1> DEFINE G == [n \in 1 .. TreeBits |-> {r \in SearchRange : Halved(r, key, n)}]
<1>7. d[1] \in G[1]
  <2>1. 1 \in 1 .. TreeBits
    BY <1>0
  <2> QED BY <1>2, <1>6, <2>1
<1>8. ASSUME NEW n \in 1 + 1 .. TreeBits, d[n - 1] \in G[n - 1] PROVE d[n] \in G[n]
  <2> DEFINE r == d[n - 1]
  <2>1. /\ n \in 2 .. TreeBits /\ n \in 1 .. TreeBits /\ n - 1 \in 1 .. TreeBits
        /\ n - 1 \in 0 .. TreeBits - 1 /\ (n - 1) + 1 = n
    BY <1>0
  <2>2. Halved(r, key, n - 1) /\ d[n] = goes(r)
    BY <1>6, <1>8, <2>1
  <2> HIDE DEF r
  <2>3. Halved(goes(r), key, n)
    BY <2>1, <2>2, HalvedStep
  <2>4. goes(r) \in SearchRange
    BY <2>3 DEF Halved
  <2> HIDE DEF goes
  <2> QED BY <2>1, <2>2, <2>3, <2>4
<1>9. d[TreeBits] \in G[TreeBits]
  <2> HIDE DEF G
  <2> QED BY ONLY <1>0, <1>7, <1>8, RoundsKeep
<1>10. TreeBits \in 1 .. TreeBits
  BY <1>0
<1>11. Halved(d[TreeBits], key, TreeBits)
  BY <1>9, <1>10
<1> QED BY <1>3, <1>11

LEMMA BinaryBuckets ==
  ASSUME TreeInv, NEW key \in Int
  PROVE  /\ FindBktBinary(key) = BucketIn(PreorderSplitters, key)
         /\ FindBktBinaryAssembler(key) = BucketIn(PreorderSplitters, key)
<1> DEFINE at(b) == BucketAt(b, b \in Rank /\ PreorderSplitters[b] = key)
<1>1. at(BinarySearch(key)) = BucketIn(PreorderSplitters, key)
  BY BinarySearchIs, HalvedEnds
<1>2. at(BinarySearchAssembler(key)) = BucketIn(PreorderSplitters, key)
  BY BinarySearchAssemblerIs, HalvedEnds
<1>3. FindBktBinary(key) = at(BinarySearch(key))
  BY DEF FindBktBinary
<1>4. FindBktBinaryAssembler(key) = at(BinarySearchAssembler(key))
  BY DEF FindBktBinaryAssembler
<1> HIDE DEF at
<1> QED BY <1>1, <1>2, <1>3, <1>4

(* Every variant of find_bkt puts every key in the bucket that BucketIn    *)
(* says, for trees of any number of levels over any sample.                *)
THEOREM ClassifyCorrect == Spec => []ClassifyRight
<1>1. TreeInv => ClassifyRight
  <2> SUFFICES ASSUME TreeInv PROVE ClassifyRight
    OBVIOUS
  <2>1. ASSUME Built, NEW key \in Keys
        PROVE  /\ \A b \in {FindBktTree(key), FindBktTreeAssembler(key), FindBktTreeUnroll(key),
                             FindBktCalc(key), FindBktCalcUnroll(key)} : b = BucketIn(splitter, key)
               /\ \A b \in {FindBktBinary(key), FindBktBinaryAssembler(key)} :
                    b = BucketIn(PreorderSplitters, key)
    <3>1. key \in Int
      BY KeysAreNumbers
    <3>2. /\ FindBktTree(key) = BucketIn(splitter, key)
          /\ FindBktTreeAssembler(key) = BucketIn(splitter, key)
          /\ FindBktTreeUnroll(key) = BucketIn(splitter, key)
          /\ FindBktCalc(key) = BucketIn(splitter, key)
          /\ FindBktCalcUnroll(key) = BucketIn(splitter, key)
      BY <2>1, <3>1, TreeBuckets
    <3>3. /\ FindBktBinary(key) = BucketIn(PreorderSplitters, key)
          /\ FindBktBinaryAssembler(key) = BucketIn(PreorderSplitters, key)
      BY <3>1, BinaryBuckets
    <3> QED BY <3>2, <3>3
  <2> QED BY <2>1 DEF ClassifyRight
<1> QED BY <1>1, TreeInvHolds, PTL

-----------------------------------------------------------------------------
(* A search that stops at a node with the key, and has not met it so far. *)
Nearing(n, key) ==
  /\ n \in Spot
  /\ \A k \in Rank : k < Left(n) => splitter[k] < key
  /\ \A k \in Rank : k >= Left(n) + Wide(n) - 1 => key < splitter[k]

Towards(n, key) ==
  IF n \in Node /\ tree[n] = key THEN n ELSE 2 * n + (IF key < tree[n] THEN 0 ELSE 1)

SearchedTo(n, key, l) ==
  /\ n \in Spot
  /\ (n \in Node /\ tree[n] = key) \/ (HighBit(n) = l /\ Nearing(n, key))

LEMMA NearingBegins ==
  ASSUME NEW key
  PROVE  Nearing(1, key)
<1>1. \A k \in Rank : ~(k < Left(1)) /\ ~(k >= Left(1) + Wide(1) - 1)
  BY Widths, Shape DEF Rank
<1> QED BY <1>1, LevelBelow DEF Nearing

LEMMA NearingStep ==
  ASSUME TreeInv, Built, NEW key \in Int, NEW n \in Node, Nearing(n, key), tree[n] # key
  PROVE  Nearing(2 * n + (IF key < tree[n] THEN 0 ELSE 1), key)
<1> DEFINE l == Left(n) v == Wide(2 * n) c == LevelToPreorder(n) - 1
<1>1. /\ 2 * n \in Spot /\ 2 * n + 1 \in Spot /\ n \in Spot
      /\ Left(2 * n) = l /\ Left(2 * n + 1) = l + v /\ Wide(n) = 2 * v /\ Wide(2 * n + 1) = v
      /\ l \in Nat /\ v \in Nat \ {0}
  BY ChildPlaces, Widths
<1>2. c \in Rank /\ tree[n] = splitter[c] /\ c = l + v - 1
  BY <1>1, InOrderPlaces, SplittersAre, LevelToPreorderIs
<1>3. /\ \A k \in Rank : k < l => splitter[k] < key
      /\ \A k \in Rank : k >= l + Wide(n) - 1 => key < splitter[k]
  BY DEF Nearing
<1>4. \A k \in Rank : splitter[k] \in Int /\ k \in Int
  BY SplitterInts, Shape DEF Rank
<1>5. \A j, k \in Rank : j <= k => splitter[j] <= splitter[k]
  BY SplitterInts
<1>n. n \in Nat
  BY Shape DEF Node
<1> HIDE DEF l, v, c
<1>6. CASE key < tree[n]
  <2>1. 2 * n + (IF key < tree[n] THEN 0 ELSE 1) = 2 * n
    BY <1>6, <1>n
  <2>2. ASSUME NEW k \in Rank, k >= l + v - 1 PROVE key < splitter[k]
    <3>1. splitter[c] <= splitter[k] /\ key < splitter[c]
      BY <1>2, <1>4, <1>5, <1>6, <2>2
    <3> QED BY <1>2, <1>4, <3>1
  <2>3. Left(2 * n) = l /\ Wide(2 * n) = v
    BY <1>1 DEF v
  <2>4. Nearing(2 * n, key)
    BY <1>1, <1>3, <2>2, <2>3 DEF Nearing
  <2> QED BY <2>1, <2>4
<1>7. CASE ~(key < tree[n])
  <2>1. 2 * n + (IF key < tree[n] THEN 0 ELSE 1) = 2 * n + 1
    BY <1>7
  <2>2. ASSUME NEW k \in Rank, k < l + v PROVE splitter[k] < key
    <3>1. k <= c
      BY <1>1, <1>2, <1>4, <2>2
    <3>2. splitter[k] <= splitter[c] /\ splitter[c] < key
      BY <1>2, <1>4, <1>5, <1>7, <3>1
    <3> QED BY <1>2, <1>4, <3>2
  <2>3. (l + v) + v - 1 = l + Wide(n) - 1
    BY <1>1
  <2>4. Nearing(2 * n + 1, key)
    BY <1>1, <1>3, <2>2, <2>3 DEF Nearing
  <2> QED BY <2>1, <2>4
<1> QED BY <1>6, <1>7

LEMMA SearchedStep ==
  ASSUME TreeInv, Built, NEW key \in Int, NEW l \in 0 .. TreeBits - 1, NEW n, SearchedTo(n, key, l)
  PROVE  /\ n \in Node
         /\ SearchedTo(Towards(n, key), key, l + 1)
<1>0. TreeBits \in Nat \ {0}
  BY TreeBitsAssumption
<1>1. n \in Node
  <2>1. CASE HighBit(n) = l /\ Nearing(n, key)
    BY <1>0, <2>1, Levels DEF Nearing
  <2> QED BY <2>1 DEF SearchedTo
<1>2. CASE tree[n] = key
  BY <1>1, <1>2 DEF SearchedTo, Towards
<1>3. CASE tree[n] # key
  <2> DEFINE m == 2 * n + (IF key < tree[n] THEN 0 ELSE 1)
  <2>1. HighBit(n) = l /\ Nearing(n, key)
    BY <1>3 DEF SearchedTo
  <2>2. Nearing(m, key)
    BY <1>1, <1>3, <2>1, NearingStep
  <2>3. m \in {2 * n, 2 * n + 1}
    <3>1. n \in Nat
      BY <1>1, Shape DEF Node
    <3>2. CASE key < tree[n]
      BY <3>1, <3>2
    <3>3. CASE ~(key < tree[n])
      BY <3>1, <3>3
    <3> QED BY <3>2, <3>3
  <2>4. Towards(n, key) = m
    BY <1>3 DEF Towards
  <2> HIDE DEF m
  <2>5. HighBit(m) = l + 1
    BY <1>1, <2>1, <2>3, LevelBelow
  <2> QED BY <1>1, <2>2, <2>4, <2>5 DEF SearchedTo, Nearing
<1> QED BY <1>1, <1>2, <1>3

(* The search as a function of the number of rounds, with what is true of  *)
(* it in each of them.                                                     *)
SearchNodes(f, key) ==
  /\ f[0] = 1 /\ \A l \in 1 .. TreeBits : f[l] = Towards(f[l - 1], key)
  /\ \A l \in 0 .. TreeBits : SearchedTo(f[l], key, l)

LEMMA SearchIs ==
  ASSUME TreeInv, Built, NEW key \in Int
  PROVE  \E f : SearchNodes(f, key) /\ EndOfSearch(tree, key) = f[TreeBits]
<1> DEFINE step == [n \in Nat |-> Towards(n, key)]
           goes(n) == IF n \in Node /\ tree[n] = key THEN n ELSE 2 * n + (IF key < tree[n] THEN 0 ELSE 1)
           Rec(g) == g = [l \in 0 .. TreeBits |-> IF l = 0 THEN 1 ELSE goes(g[l - 1])]
           d == CHOOSE g : Rec(g)
<1>0. TreeBits \in Nat \ {0} /\ 0 <= TreeBits /\ 0 \in Int /\ TreeBits \in Int
  BY TreeBitsAssumption
<1>1. step \in [Nat -> Nat]
  <2>1. ASSUME NEW n \in Nat PROVE Towards(n, key) \in Nat
    <3>1. (IF key < tree[n] THEN 0 ELSE 1) \in Nat
      BY Zenon
    <3>2. 2 * n + (IF key < tree[n] THEN 0 ELSE 1) \in Nat
      BY <3>1
    <3> QED BY <3>2 DEF Towards
  <2> QED BY <2>1
<1>g. \A n : goes(n) = Towards(n, key)
  BY DEF Towards
<1>2. \E f : Rec(f)
  <2>1. PICK f \in [0 .. TreeBits -> Nat] :
          f[0] = 1 /\ \A l \in 0 + 1 .. TreeBits : f[l] = step[f[l - 1]]
    <3> HIDE DEF step
    <3>1. RoundsFrom(0, TreeBits, Nat, 1, step)
      BY <1>0, <1>1 DEF RoundsFrom
    <3>2. \E f : RoundsOf(f, 0, TreeBits, Nat, 1, step)
      BY ONLY <3>1, Rounds
    <3> QED BY <3>2 DEF RoundsOf
  <2> HIDE DEF goes
  <2>2. ASSUME NEW l \in 0 .. TreeBits PROVE f[l] = IF l = 0 THEN 1 ELSE goes(f[l - 1])
    <3>1. CASE l = 0
      BY <2>1, <3>1
    <3>2. CASE l # 0
      <4>1. l \in 0 + 1 .. TreeBits /\ l - 1 \in 0 .. TreeBits
        BY <1>0, <3>2
      <4>2. f[l] = step[f[l - 1]] /\ f[l - 1] \in Nat
        BY <2>1, <4>1
      <4> QED BY <1>g, <3>2, <4>2
    <3> QED BY <3>1, <3>2
  <2>3. f = [l \in 0 .. TreeBits |-> IF l = 0 THEN 1 ELSE goes(f[l - 1])]
    BY <2>1, <2>2
  <2> QED BY <2>3
<1>3. EndOfSearch(tree, key) = d[TreeBits]
  BY DEF EndOfSearch
<1>4. Rec(d)
  <2> HIDE DEF Rec
  <2> QED BY <1>2
<1> HIDE DEF d
<1>5. d[0] = 1 /\ \A l \in 1 .. TreeBits : d[l] = Towards(d[l - 1], key)
  <2> HIDE DEF goes
  <2>1. \A l \in 0 .. TreeBits : d[l] = IF l = 0 THEN 1 ELSE goes(d[l - 1])
    BY <1>4
  <2>2. 0 \in 0 .. TreeBits /\ \A l \in 1 .. TreeBits : l \in 0 .. TreeBits /\ l # 0
    BY <1>0
  <2> QED BY ONLY <1>g, <2>1, <2>2
<1> DEFINE G == [l \in 0 .. TreeBits |-> {n \in Spot : SearchedTo(n, key, l)}]
<1>6. d[0] \in G[0]
  <2>1. 0 \in 0 .. TreeBits
    BY <1>0
  <2> QED BY <1>5, <2>1, NearingBegins, LevelBelow DEF SearchedTo
<1>7. ASSUME NEW l \in 0 + 1 .. TreeBits, d[l - 1] \in G[l - 1] PROVE d[l] \in G[l]
  <2> DEFINE n == d[l - 1]
  <2>1. /\ l \in 1 .. TreeBits /\ l \in 0 .. TreeBits /\ l - 1 \in 0 .. TreeBits
        /\ (l - 1) + 1 = l /\ l - 1 \in 0 .. TreeBits - 1
    BY <1>0
  <2>2. SearchedTo(n, key, l - 1) /\ d[l] = Towards(n, key)
    BY <1>5, <1>7, <2>1
  <2> HIDE DEF n
  <2>3. SearchedTo(Towards(n, key), key, l)
    BY <2>1, <2>2, SearchedStep
  <2>4. Towards(n, key) \in Spot
    BY <2>3 DEF SearchedTo
  <2> QED BY <2>1, <2>2, <2>3, <2>4
<1>8. ASSUME NEW l \in 0 .. TreeBits PROVE SearchedTo(d[l], key, l)
  <2>1. l \in Int /\ 0 <= l
    BY <1>0
  <2>2. \A k \in 0 + 1 .. l : k \in 0 + 1 .. TreeBits
    BY <1>0
  <2>3. d[l] \in G[l]
    <3> HIDE DEF G
    <3>1. \A k \in 0 + 1 .. l : d[k - 1] \in G[k - 1] => d[k] \in G[k]
      BY <1>7, <2>2
    <3> QED BY ONLY <1>0, <2>1, <1>6, <3>1, RoundsKeep
  <2> QED BY <2>3
<1>9. SearchNodes(d, key)
  BY <1>5, <1>8 DEF SearchNodes
<1> QED BY <1>3, <1>9

(* Where the search ends: at the first splitter met that has the key, or   *)
(* below the leaves, with none that has it.                                *)
LEMMA LeafOfSearch ==
  ASSUME TreeInv, Built, NEW key \in Int, NEW n \in Spot \ Node, Nearing(n, key)
  PROVE  /\ Leaf(n) \in 0 .. NumSplitters
         /\ BucketIn(splitter, key) = 2 * Leaf(n)
         /\ \A k \in Rank : splitter[k] # key
<1> DEFINE l == Leaf(n)
<1>0. NumSplitters \in Nat \ {0}
  BY Shape
<1>1. Left(n) = l /\ Wide(n) = 1
  BY Widths DEF Leaf
<1>2. l \in Nat /\ l + 1 <= NumSplitters + 1
  BY <1>1, Widths
<1> HIDE DEF l
<1>3. l \in 0 .. NumSplitters
  BY <1>0, <1>2
<1>4. \A k \in Rank : splitter[k] \in Int /\ k \in Int
  BY SplitterInts, Shape DEF Rank
<1>5. /\ \A k \in Rank : k < l => splitter[k] < key
      /\ \A k \in Rank : k >= l + 1 - 1 => key < splitter[k]
  BY <1>1 DEF Nearing
<1>6. \A k \in Rank : (splitter[k] < key <=> k < l) /\ splitter[k] # key
  BY <1>2, <1>4, <1>5
<1>7. splitter \in [Rank -> Int]
  BY SplitterInts
<1>8. BucketIn(splitter, key) = BucketAt(l, l \in Rank /\ splitter[l] = key)
  BY <1>3, <1>6, <1>7, BucketOf
<1>9. BucketAt(l, l \in Rank /\ splitter[l] = key) = 2 * l
  <2>1. ~(l \in Rank /\ splitter[l] = key)
    BY <1>6
  <2>2. BucketAt(l, l \in Rank /\ splitter[l] = key) = 2 * l + 0
    BY <2>1 DEF BucketAt
  <2> QED BY <1>2, <2>2
<1> QED BY <1>3, <1>6, <1>8, <1>9 DEF l

LEMMA EqualTreeBucket ==
  ASSUME TreeInv, Built, NEW key \in Int
  PROVE  /\ EqualFound(splitter, key, FindBktEqual(tree, key))
         /\ FindBktEqualAssembler(key) = FindBktEqual(tree, key)
<1> DEFINE n == EndOfSearch(tree, key)
<1>0. TreeBits \in Nat \ {0} /\ NumSplitters \in Nat \ {0} /\ TreeBits \in 0 .. TreeBits
  BY TreeBitsAssumption, Shape
<1>1. SearchedTo(n, key, TreeBits)
  BY <1>0, SearchIs DEF SearchNodes
<1>2. /\ n \in Node => FindBktEqual(tree, key) = 2 * LevelToPreorder(n) - 1
      /\ n \notin Node => FindBktEqual(tree, key) = 2 * Leaf(n)
  BY DEF FindBktEqual, Leaf
<1> DEFINE x == [i |-> n, found |-> n \in Node]
<1>3. FindBktEqualAssembler(key) = SplitterTreeEnd(x)
  BY DEF FindBktEqualAssembler
<1> HIDE DEF n
<1>4. x.i = n /\ (x.found <=> n \in Node)
  OBVIOUS
<1> HIDE DEF x
<1>5. CASE n \in Node
  <2> DEFINE p == LevelToPreorder(n) c == p - 1
  <2>1. tree[n] = key
    <3>1. ~(HighBit(n) = TreeBits)
      BY <1>0, <1>5, Levels, LevelBelow
    <3> QED BY <1>1, <3>1 DEF SearchedTo
  <2>2. p \in 1 .. NumSplitters /\ c \in Rank /\ splitter[c] = key
    BY <1>5, <2>1, LevelToPreorderIs, InOrderPlaces, SplittersAre
  <2> HIDE DEF p
  <2>3. p \in Nat /\ 2 * p - 1 = 2 * c + 1 /\ (2 * c + 1) % 2 = 1 /\ (2 * c + 1) \div 2 = c
    BY <1>0, <2>2
  <2>4. EqualFound(splitter, key, 2 * c + 1)
    <3> DEFINE b == 2 * c + 1
    <3>1. b % 2 = 1 /\ b \div 2 = c
      BY <2>3
    <3> HIDE DEF b, c
    <3>2. EqualFound(splitter, key, b)
      BY <2>2, <3>1 DEF EqualFound
    <3> QED BY <3>2 DEF b
  <2>5. FindBktEqual(tree, key) = 2 * p - 1
    BY <1>2, <1>5 DEF p
  <2>6. SplitterTreeEnd(x) = 2 * p - 1
    <3>1. SplitterTreeEnd(x) = 2 * (((n * 2 ^ (TreeBits - HighBit(n))) % (NumSplitters + 1)) + 2 ^ (TreeBits - HighBit(n) - 1)) - 1
      BY <1>4, <1>5 DEF SplitterTreeEnd
    <3>2. TreeBits - HighBit(n) - 1 = TreeBits - 1 - HighBit(n)
      BY <1>0, <1>5, Levels, LevelBelow
    <3>3. p = Left(n) + 2 ^ (TreeBits - 1 - HighBit(n))
      BY <1>5, LevelToPreorderIs, ChildPlaces DEF p
    <3>4. (n * 2 ^ (TreeBits - HighBit(n))) % (NumSplitters + 1) = Left(n)
      BY <1>5, LevelToPreorderIs
    <3> QED BY ONLY <3>1, <3>2, <3>3, <3>4
  <2> QED BY <1>3, <2>3, <2>4, <2>5, <2>6
<1>6. CASE n \notin Node
  <2> DEFINE l == Leaf(n)
  <2>1. n \in Spot \ Node /\ Nearing(n, key)
    BY <1>1, <1>6 DEF SearchedTo
  <2>2. l \in 0 .. NumSplitters /\ BucketIn(splitter, key) = 2 * l /\ \A k \in Rank : splitter[k] # key
    BY <2>1, LeafOfSearch
  <2>3. FindBktEqual(tree, key) = 2 * l
    BY <1>2, <1>6
  <2>4. SplitterTreeEnd(x) = 2 * l
    BY <1>4, <1>6 DEF SplitterTreeEnd
  <2> HIDE DEF l
  <2>5. (2 * l) % 2 = 0 /\ 0 # 1
    BY <1>0, <2>2
  <2>6. EqualFound(splitter, key, 2 * l)
    <3> DEFINE b == 2 * l
    <3>1. b % 2 = 0 /\ b = BucketIn(splitter, key)
      BY <2>2, <2>5
    <3> HIDE DEF b
    <3>2. EqualFound(splitter, key, b)
      BY <2>2, <3>1 DEF EqualFound
    <3> QED BY <3>2 DEF b
  <2> QED BY <1>3, <2>3, <2>4, <2>6
<1> QED BY <1>5, <1>6

(* The unrolled search goes through the same nodes. *)
StepRecord == [i : Nat, found : BOOLEAN]

Unrolled(x, n, key, l) ==
  /\ x \in StepRecord /\ x.i = n
  /\ IF x.found THEN n \in Node /\ tree[n] = key ELSE HighBit(n) = l /\ Nearing(n, key)

LEMMA TreeStepIs ==
  ASSUME NEW key, NEW x \in StepRecord
  PROVE  /\ x.found => TreeStep(key, x) = x
         /\ ~x.found /\ key = tree[x.i] => TreeStep(key, x) = [i |-> x.i, found |-> TRUE]
         /\ ~x.found /\ key # tree[x.i] =>
              TreeStep(key, x) = [i |-> 2 * x.i + (IF key < tree[x.i] THEN 0 ELSE 1), found |-> FALSE]
         /\ TreeStep(key, x) \in StepRecord
<1> DEFINE m == 2 * x.i + (IF key < tree[x.i] THEN 0 ELSE 1)
<1>1. x = [i |-> x.i, found |-> x.found] /\ x.i \in Nat /\ x.found \in BOOLEAN
  BY DEF StepRecord
<1>2. m \in Nat
  <2>1. CASE key < tree[x.i]
    BY <1>1, <2>1
  <2>2. CASE ~(key < tree[x.i])
    BY <1>1, <2>2
  <2> QED BY <2>1, <2>2
<1>3. x.found => TreeStep(key, x) = x
  BY DEF TreeStep
<1>4. ~x.found /\ key = tree[x.i] => TreeStep(key, x) = [x EXCEPT !.found = TRUE]
  BY DEF TreeStep
<1>5. ~x.found /\ key # tree[x.i] => TreeStep(key, x) = [x EXCEPT !.i = m]
  BY DEF TreeStep
<1> HIDE DEF m
<1>6. [x EXCEPT !.found = TRUE] = [i |-> x.i, found |-> TRUE]
  <2>1. \A v : [x EXCEPT !.found = v] = [i |-> x.i, found |-> v]
    BY <1>1 DEF StepRecord
  <2> QED BY ONLY <2>1
<1>7. ~x.found => [x EXCEPT !.i = m] = [i |-> m, found |-> FALSE]
  <2> SUFFICES ASSUME ~x.found PROVE [x EXCEPT !.i = m] = [i |-> m, found |-> FALSE]
    OBVIOUS
  <2>1. [x EXCEPT !.i = m] = [i |-> m, found |-> x.found]
    BY <1>1 DEF StepRecord
  <2>2. x.found = FALSE
    BY <1>1
  <2> QED BY <2>1, <2>2
<1>8. [i |-> x.i, found |-> TRUE] \in StepRecord /\ [i |-> m, found |-> FALSE] \in StepRecord
  BY <1>1, <1>2 DEF StepRecord
<1>9. TreeStep(key, x) \in StepRecord
  <2>1. CASE x.found
    BY <1>3, <2>1
  <2>2. CASE ~x.found /\ key = tree[x.i]
    BY <1>4, <1>6, <1>8, <2>2
  <2>3. CASE ~x.found /\ key # tree[x.i]
    BY <1>5, <1>7, <1>8, <2>3
  <2> QED BY <2>1, <2>2, <2>3
<1>10. ~x.found /\ key # tree[x.i] => TreeStep(key, x) = [i |-> m, found |-> FALSE]
  BY <1>5, <1>7
<1>11. ~x.found /\ key = tree[x.i] => TreeStep(key, x) = [i |-> x.i, found |-> TRUE]
  BY <1>4, <1>6
<1> QED BY <1>3, <1>9, <1>10, <1>11 DEF m

LEMMA UnrolledStep ==
  ASSUME TreeInv, Built, NEW key \in Int, NEW l \in 0 .. TreeBits - 1, NEW n, NEW x,
         Unrolled(x, n, key, l)
  PROVE  Unrolled(TreeStep(key, x), Towards(n, key), key, l + 1)
<1>0. TreeBits \in Nat \ {0}
  BY TreeBitsAssumption
<1>1. x \in StepRecord /\ x.i = n /\ x.found \in BOOLEAN
  BY DEF Unrolled, StepRecord
<1>2. CASE x.found
  <2>1. n \in Node /\ tree[n] = key
    BY <1>2 DEF Unrolled
  <2>2. TreeStep(key, x) = x /\ Towards(n, key) = n
    BY <1>1, <1>2, <2>1, TreeStepIs DEF Towards
  <2> QED BY <1>1, <1>2, <2>1, <2>2 DEF Unrolled
<1>3. CASE ~x.found
  <2>1. HighBit(n) = l /\ Nearing(n, key)
    BY <1>3 DEF Unrolled
  <2>2. n \in Node
    BY <1>0, <2>1, Levels DEF Nearing
  <2>3. CASE key = tree[n]
    <3> DEFINE y == [i |-> x.i, found |-> TRUE]
    <3>1. TreeStep(key, x) = y /\ Towards(n, key) = n
      BY <1>1, <1>3, <2>2, <2>3, TreeStepIs DEF Towards
    <3>2. y.i = n /\ y.found /\ y \in StepRecord
      BY <1>1 DEF StepRecord
    <3> HIDE DEF y
    <3> QED BY <2>2, <2>3, <3>1, <3>2 DEF Unrolled
  <2>4. CASE key # tree[n]
    <3> DEFINE m == 2 * n + (IF key < tree[n] THEN 0 ELSE 1)
               y == [i |-> m, found |-> FALSE]
    <3>1. TreeStep(key, x) = y /\ TreeStep(key, x) \in StepRecord
      BY <1>1, <1>3, <2>4, TreeStepIs
    <3>2. Towards(n, key) = m
      BY <2>4 DEF Towards
    <3>3. Nearing(m, key)
      BY <2>1, <2>2, <2>4, NearingStep
    <3>4. m \in {2 * n, 2 * n + 1}
      <4>1. n \in Nat
        BY <2>2, Shape DEF Node
      <4>2. CASE key < tree[n]
        BY <4>1, <4>2
      <4>3. CASE ~(key < tree[n])
        BY <4>1, <4>3
      <4> QED BY <4>2, <4>3
    <3>5. y.i = m /\ ~y.found
      OBVIOUS
    <3> HIDE DEF m, y
    <3>6. HighBit(m) = l + 1
      BY <2>1, <2>2, <3>4, LevelBelow
    <3> QED BY <3>1, <3>2, <3>3, <3>5, <3>6 DEF Unrolled
  <2> QED BY <2>3, <2>4
<1> QED BY <1>1, <1>2, <1>3

LEMMA UnrolledIs ==
  ASSUME TreeInv, Built, NEW key \in Int
  PROVE  /\ UnrolledSteps(key).i = EndOfSearch(tree, key)
         /\ UnrolledSteps(key).found <=> EndOfSearch(tree, key) \in Node
<1> DEFINE base == [i |-> 1, found |-> FALSE]
           step == [x \in StepRecord |-> TreeStep(key, x)]
           Rec(g) == g = [l \in 0 .. TreeBits |-> IF l = 0 THEN base ELSE TreeStep(key, g[l - 1])]
           d == CHOOSE g : Rec(g)
<1>0. TreeBits \in Nat \ {0} /\ 0 <= TreeBits /\ 0 \in Int /\ TreeBits \in Int
  BY TreeBitsAssumption
<1>1. step \in [StepRecord -> StepRecord]
  BY TreeStepIs
<1>2. base \in StepRecord /\ base.i = 1 /\ ~base.found
  BY DEF StepRecord
<1>3. UnrolledSteps(key) = d[TreeBits]
  BY DEF UnrolledSteps
<1> HIDE DEF base
<1>4. \E f : Rec(f)
  <2>1. PICK f \in [0 .. TreeBits -> StepRecord] :
          f[0] = base /\ \A l \in 0 + 1 .. TreeBits : f[l] = step[f[l - 1]]
    <3> HIDE DEF step
    <3>1. RoundsFrom(0, TreeBits, StepRecord, base, step)
      BY <1>0, <1>1, <1>2 DEF RoundsFrom
    <3>2. \E f : RoundsOf(f, 0, TreeBits, StepRecord, base, step)
      BY ONLY <3>1, Rounds
    <3> QED BY <3>2 DEF RoundsOf
  <2>2. ASSUME NEW l \in 0 .. TreeBits PROVE f[l] = IF l = 0 THEN base ELSE TreeStep(key, f[l - 1])
    <3>1. CASE l = 0
      BY <2>1, <3>1
    <3>2. CASE l # 0
      <4>1. l \in 0 + 1 .. TreeBits /\ l - 1 \in 0 .. TreeBits
        BY <1>0, <3>2
      <4>2. f[l] = step[f[l - 1]] /\ f[l - 1] \in StepRecord
        BY <2>1, <4>1
      <4> QED BY <3>2, <4>2
    <3> QED BY <3>1, <3>2
  <2>3. f = [l \in 0 .. TreeBits |-> IF l = 0 THEN base ELSE TreeStep(key, f[l - 1])]
    BY <2>1, <2>2
  <2> QED BY <2>3
<1>5. Rec(d)
  <2> HIDE DEF Rec
  <2> QED BY <1>4
<1> HIDE DEF d
<1>6. d[0] = base /\ \A l \in 1 .. TreeBits : d[l] = TreeStep(key, d[l - 1])
  <2>1. \A l \in 0 .. TreeBits : d[l] = IF l = 0 THEN base ELSE TreeStep(key, d[l - 1])
    BY <1>5
  <2>2. 0 \in 0 .. TreeBits /\ \A l \in 1 .. TreeBits : l \in 0 .. TreeBits /\ l # 0
    BY <1>0
  <2> QED BY ONLY <2>1, <2>2
<1>7. PICK f : SearchNodes(f, key) /\ EndOfSearch(tree, key) = f[TreeBits]
  BY SearchIs
<1> DEFINE G == [l \in 0 .. TreeBits |-> {x \in StepRecord : Unrolled(x, f[l], key, l)}]
<1>8. d[0] \in G[0]
  <2>1. 0 \in 0 .. TreeBits /\ f[0] = 1
    BY <1>0, <1>7 DEF SearchNodes
  <2> QED BY <1>2, <1>6, <2>1, NearingBegins, LevelBelow DEF Unrolled
<1>9. ASSUME NEW l \in 0 + 1 .. TreeBits, d[l - 1] \in G[l - 1] PROVE d[l] \in G[l]
  <2> DEFINE x == d[l - 1] n == f[l - 1]
  <2>1. /\ l \in 1 .. TreeBits /\ l \in 0 .. TreeBits /\ l - 1 \in 0 .. TreeBits
        /\ (l - 1) + 1 = l /\ l - 1 \in 0 .. TreeBits - 1
    BY <1>0
  <2>2. Unrolled(x, n, key, l - 1) /\ d[l] = TreeStep(key, x)
    BY <1>6, <1>9, <2>1
  <2>3. f[l] = Towards(n, key)
    BY <1>7, <2>1 DEF SearchNodes
  <2> HIDE DEF x, n
  <2>4. Unrolled(TreeStep(key, x), Towards(n, key), key, l)
    BY <2>1, <2>2, UnrolledStep
  <2>5. TreeStep(key, x) \in StepRecord
    BY <2>4 DEF Unrolled
  <2> QED BY <2>1, <2>2, <2>3, <2>4, <2>5
<1>10. d[TreeBits] \in G[TreeBits]
  <2> HIDE DEF G
  <2> QED BY ONLY <1>0, <1>8, <1>9, RoundsKeep
<1>11. TreeBits \in 0 .. TreeBits
  BY <1>0
<1>12. Unrolled(d[TreeBits], f[TreeBits], key, TreeBits)
  BY <1>10, <1>11
<1> DEFINE x == d[TreeBits] n == f[TreeBits]
<1> HIDE DEF x, n
<1>13. x.i = n
  BY <1>12 DEF Unrolled, x, n
<1>14. x.found <=> n \in Node
  <2>1. CASE x.found
    BY <1>12, <2>1 DEF Unrolled, x, n
  <2>2. CASE ~x.found
    <3>1. HighBit(n) = TreeBits /\ n \in Spot
      BY <1>12, <2>2 DEF Unrolled, Nearing, x, n
    <3>2. n \notin Node
      BY <1>0, <3>1, Levels
    <3> QED BY <2>2, <3>2
  <2> QED BY <2>1, <2>2
<1> QED BY <1>3, <1>7, <1>13, <1>14 DEF x, n

LEMMA EqualUnrollBuckets ==
  ASSUME TreeInv, Built, NEW key \in Int
  PROVE  /\ FindBktEqualUnroll(key) = FindBktEqual(tree, key)
         /\ FindBktEqualUnrollAssembler(key) = FindBktEqual(tree, key)
<1> DEFINE x == UnrolledSteps(key) n == EndOfSearch(tree, key) y == [i |-> n, found |-> n \in Node]
<1>1. x.i = n /\ (x.found <=> n \in Node)
  BY UnrolledIs
<1>2. y.i = n /\ (y.found <=> n \in Node)
  OBVIOUS
<1>3. FindBktEqualUnroll(key) = IF x.found THEN 2 * LevelToPreorder(x.i) - 1 ELSE 2 * Leaf(x.i)
  BY DEF FindBktEqualUnroll
<1>4. FindBktEqual(tree, key) = IF n \in Node THEN 2 * LevelToPreorder(n) - 1 ELSE 2 * (n - (NumSplitters + 1))
  BY DEF FindBktEqual
<1>5. FindBktEqualUnrollAssembler(key) = SplitterTreeEnd(x)
  BY DEF FindBktEqualUnrollAssembler
<1>6. FindBktEqualAssembler(key) = SplitterTreeEnd(y)
  BY DEF FindBktEqualAssembler
<1> HIDE DEF x, n, y
<1>7. SplitterTreeEnd(x) = SplitterTreeEnd(y)
  <2>1. CASE n \in Node
    BY <1>1, <1>2, <2>1 DEF SplitterTreeEnd
  <2>2. CASE n \notin Node
    BY <1>1, <1>2, <2>2 DEF SplitterTreeEnd
  <2> QED BY <2>1, <2>2
<1>8. FindBktEqualUnroll(key) = FindBktEqual(tree, key)
  <2>1. CASE n \in Node
    BY <1>1, <1>3, <1>4, <2>1
  <2>2. CASE n \notin Node
    BY <1>1, <1>3, <1>4, <2>2 DEF Leaf
  <2> QED BY <2>1, <2>2
<1> QED BY <1>5, <1>6, <1>7, <1>8, EqualTreeBucket

(* The binary search that stops at a splitter with the key. *)
Pairs == Nat \X Nat
Middle(x) == (x[1] + x[2]) \div 2

Narrow(key, x) ==
  IF x[1] >= x[2] \/ PreorderSplitters[Middle(x)] = key THEN x
  ELSE IF key < PreorderSplitters[Middle(x)] THEN <<x[1], Middle(x)>> ELSE <<Middle(x) + 1, x[2]>>

Narrowed(x, key, n) ==
  /\ x \in Pairs /\ x[1] <= x[2] /\ x[2] <= NumSplitters
  /\ \A k \in Rank : k < x[1] => PreorderSplitters[k] < key
  /\ \A k \in Rank : k >= x[2] => key < PreorderSplitters[k]
  /\ x[2] - x[1] < 2 ^ (TreeBits - n) \/ (x[1] < x[2] /\ PreorderSplitters[Middle(x)] = key)

LEMMA PairIs ==
  ASSUME NEW x \in Pairs
  PROVE  x[1] \in Nat /\ x[2] \in Nat /\ Middle(x) \in Nat /\ Middle(x) + 1 \in Nat
BY DEF Pairs, Middle

LEMMA NarrowIs ==
  ASSUME NEW key, NEW x \in Pairs
  PROVE  Narrow(key, x) \in Pairs
<1> DEFINE m == Middle(x)
<1>1. x[1] \in Nat /\ x[2] \in Nat /\ m \in Nat /\ m + 1 \in Nat
  BY PairIs
<1> HIDE DEF m
<1>2. <<x[1], m>> \in Pairs /\ <<m + 1, x[2]>> \in Pairs
  BY <1>1 DEF Pairs
<1>3. CASE x[1] >= x[2] \/ PreorderSplitters[m] = key
  BY <1>3 DEF Narrow, m
<1>4. CASE ~(x[1] >= x[2] \/ PreorderSplitters[m] = key) /\ key < PreorderSplitters[m]
  <2>1. Narrow(key, x) = <<x[1], m>>
    BY <1>4 DEF Narrow, m
  <2> QED BY <1>2, <2>1
<1>5. CASE ~(x[1] >= x[2] \/ PreorderSplitters[m] = key) /\ ~(key < PreorderSplitters[m])
  <2>1. Narrow(key, x) = <<m + 1, x[2]>>
    BY <1>5 DEF Narrow, m
  <2> QED BY <1>2, <2>1
<1> QED BY <1>3, <1>4, <1>5

LEMMA NarrowBegins ==
  ASSUME NEW key
  PROVE  Narrowed(<<0, NumSplitters>>, key, 0)
<1>1. \A k \in Rank : k \in Nat /\ ~(k < 0) /\ ~(k >= NumSplitters)
  BY Shape DEF Rank
<1>2. TreeBits - 0 = TreeBits /\ NumSplitters - 0 < 2 ^ TreeBits /\ NumSplitters \in Nat
  BY Shape, TreeBitsAssumption
<1> QED BY <1>1, <1>2 DEF Narrowed, Pairs

LEMMA NarrowStep ==
  ASSUME TreeInv, NEW key \in Int, NEW n \in 0 .. TreeBits - 1, NEW x, Narrowed(x, key, n)
  PROVE  Narrowed(Narrow(key, x), key, n + 1)
<1> DEFINE w == 2 ^ (TreeBits - (n + 1)) P == PreorderSplitters mid == Middle(x) lo == x[1] hi == x[2]
<1>0. TreeBits \in Nat \ {0} /\ NumSplitters \in Nat \ {0}
  BY TreeBitsAssumption, Shape
<1>1. w \in Nat \ {0} /\ 2 ^ (TreeBits - n) = 2 * w
  <2>1. TreeBits - (n + 1) \in 0 .. TreeBits /\ TreeBits - (n + 1) + 1 = TreeBits - n
    BY <1>0
  <2>2. TreeBits - (n + 1) \in 0 .. TreeBits + 1
    BY <1>0
  <2> QED BY <2>1, <2>2, Two, DoublingAssumption
<1>2. \A k \in Rank : P[k] \in Int /\ k \in Int
  BY <1>0, PreorderAre DEF Rank
<1>3. \A k, l \in Rank : k <= l => P[k] <= P[l]
  BY PreorderAre
<1> HIDE DEF P, w
<1>4. /\ x \in Pairs /\ lo <= hi /\ hi <= NumSplitters
      /\ \A k \in Rank : k < lo => P[k] < key
      /\ \A k \in Rank : k >= hi => key < P[k]
      /\ hi - lo < 2 * w \/ (lo < hi /\ P[mid] = key)
  BY <1>1 DEF Narrowed, P
<1>5. lo \in Nat /\ hi \in Nat /\ mid \in Nat
  BY <1>4, PairIs
<1>m. mid = (lo + hi) \div 2
  BY DEF Middle
<1>6. CASE lo >= hi \/ P[mid] = key
  <2>1. Narrow(key, x) = x
    BY <1>6 DEF Narrow, P
  <2>2. hi - lo < w \/ (lo < hi /\ P[mid] = key)
    BY <1>1, <1>4, <1>5, <1>6
  <2> HIDE DEF mid
  <2>3. Narrowed(x, key, n + 1)
    BY <1>4, <2>2 DEF Narrowed, P, w, mid
  <2> QED BY <2>1, <2>3
<1>7. CASE ~(lo >= hi \/ P[mid] = key)
  <2>1. /\ lo <= mid /\ mid < hi
        /\ mid - lo < w /\ hi - (mid + 1) < w
    BY <1>1, <1>4, <1>5, <1>7, <1>m
  <2>2. mid \in Rank
    BY <1>0, <1>4, <1>5, <2>1 DEF Rank
  <2> DEFINE a == <<lo, mid>> b == <<mid + 1, hi>>
  <2>3. Narrow(key, x) = IF key < P[mid] THEN a ELSE b
    BY <1>7 DEF Narrow, P
  <2> HIDE DEF mid, lo, hi
  <2>4. a[1] = lo /\ a[2] = mid /\ a \in Pairs
    BY <1>5, <2>1 DEF Pairs
  <2>5. b[1] = mid + 1 /\ b[2] = hi /\ b \in Pairs
    BY <1>5, <2>1 DEF Pairs
  <2> HIDE DEF a, b
  <2>6. CASE key < P[mid]
    <3>1. ASSUME NEW k \in Rank, k >= mid PROVE key < P[k]
      BY <1>2, <1>3, <2>2, <2>6, <3>1
    <3>2. a[2] - a[1] < w /\ a[1] <= a[2] /\ a[2] <= NumSplitters
      BY <1>0, <1>4, <1>5, <2>1, <2>4
    <3>3. /\ \A k \in Rank : k < a[1] => P[k] < key
          /\ \A k \in Rank : k >= a[2] => key < P[k]
      BY <1>4, <2>4, <3>1
    <3>4. Narrowed(a, key, n + 1)
      BY <2>4, <3>2, <3>3 DEF Narrowed, P, w
    <3> QED BY <2>3, <2>6, <3>4
  <2>7. CASE ~(key < P[mid])
    <3>1. ASSUME NEW k \in Rank, k < mid + 1 PROVE P[k] < key
      <4>1. k <= mid
        BY <1>2, <1>5, <3>1
      <4>2. P[mid] < key
        BY <1>2, <1>7, <2>2, <2>7
      <4> QED BY <1>2, <1>3, <2>2, <4>1, <4>2
    <3>2. b[2] - b[1] < w /\ b[1] <= b[2] /\ b[2] <= NumSplitters
      BY <1>0, <1>4, <1>5, <2>1, <2>5
    <3>3. /\ \A k \in Rank : k < b[1] => P[k] < key
          /\ \A k \in Rank : k >= b[2] => key < P[k]
      BY <1>4, <2>5, <3>1
    <3>4. Narrowed(b, key, n + 1)
      BY <2>5, <3>2, <3>3 DEF Narrowed, P, w
    <3> QED BY <2>3, <2>7, <3>4
  <2> QED BY <2>6, <2>7
<1> QED BY <1>6, <1>7

LEMMA NarrowedEnds ==
  ASSUME TreeInv, NEW key \in Int, NEW x, Narrowed(x, key, TreeBits)
  PROVE  EqualFound(PreorderSplitters, key, IF x[1] < x[2] THEN 2 * Middle(x) + 1 ELSE 2 * x[1])
<1> DEFINE P == PreorderSplitters lo == x[1] hi == x[2] mid == Middle(x)
<1>0. NumSplitters \in Nat \ {0} /\ TreeBits - TreeBits = 0 /\ 2 ^ 0 = 1
  BY Shape, TreeBitsAssumption, DoublingAssumption
<1>1. lo \in Nat /\ hi \in Nat /\ mid \in Nat /\ mid = (lo + hi) \div 2
  BY PairIs DEF Narrowed, Middle
<1>2. /\ lo <= hi /\ hi <= NumSplitters
      /\ \A k \in Rank : k < lo => P[k] < key
      /\ \A k \in Rank : k >= hi => key < P[k]
      /\ hi - lo < 1 \/ (lo < hi /\ P[mid] = key)
  BY <1>0 DEF Narrowed
<1>3. \A k \in Rank : P[k] \in Int /\ k \in Int
  BY <1>0, PreorderAre DEF Rank
<1>4. P \in [Rank -> Int]
  BY PreorderAre
<1> HIDE DEF P, lo, hi, mid
<1>5. CASE lo < hi
  <2> DEFINE b == 2 * mid + 1
  <2>1. P[mid] = key /\ mid \in Rank
    BY <1>0, <1>1, <1>2, <1>5 DEF Rank
  <2>2. b % 2 = 1 /\ b \div 2 = mid
    BY <1>1
  <2> HIDE DEF b
  <2>3. EqualFound(P, key, b)
    BY <2>1, <2>2 DEF EqualFound
  <2> QED BY <1>5, <2>3 DEF b, P, lo, hi, mid
<1>6. CASE ~(lo < hi)
  <2> DEFINE b == 2 * lo
  <2>1. hi = lo /\ lo \in 0 .. NumSplitters
    BY <1>0, <1>1, <1>2, <1>6
  <2>2. b % 2 = 0 /\ 0 # 1 /\ b = 2 * lo + 0
    BY <1>1
  <2>3. \A k \in Rank : (P[k] < key <=> k < lo) /\ P[k] # key
    BY <1>1, <1>2, <1>3, <2>1
  <2>4. BucketIn(P, key) = BucketAt(lo, lo \in Rank /\ P[lo] = key)
    BY <1>4, <2>1, <2>3, BucketOf
  <2>5. BucketAt(lo, lo \in Rank /\ P[lo] = key) = 2 * lo + 0
    <3>1. ~(lo \in Rank /\ P[lo] = key)
      BY <2>3
    <3> QED BY <3>1 DEF BucketAt
  <2>6. b = BucketIn(P, key)
    BY <2>2, <2>4, <2>5
  <2> HIDE DEF b
  <2>7. EqualFound(P, key, b)
    BY <2>2, <2>3, <2>6 DEF EqualFound
  <2> QED BY <1>6, <2>7 DEF b, P, lo, hi, mid
<1> QED BY <1>5, <1>6

LEMMA EqualBinaryBucket ==
  ASSUME TreeInv, NEW key \in Int
  PROVE  EqualFound(PreorderSplitters, key, FindBktBinaryEqual(key))
<1> DEFINE base == <<0, NumSplitters>>
           step == [x \in Pairs |-> Narrow(key, x)]
           goes(x) == IF x[1] >= x[2] \/ PreorderSplitters[(x[1] + x[2]) \div 2] = key THEN x
                      ELSE IF key < PreorderSplitters[(x[1] + x[2]) \div 2]
                           THEN <<x[1], (x[1] + x[2]) \div 2>> ELSE <<(x[1] + x[2]) \div 2 + 1, x[2]>>
           Rec(g) == g = [n \in 0 .. TreeBits |-> IF n = 0 THEN base ELSE goes(g[n - 1])]
           d == CHOOSE g : Rec(g)
<1>0. TreeBits \in Nat \ {0} /\ 0 <= TreeBits /\ 0 \in Int /\ TreeBits \in Int
  BY TreeBitsAssumption
<1>1. step \in [Pairs -> Pairs]
  BY NarrowIs
<1>g. \A x : goes(x) = Narrow(key, x)
  BY DEF Narrow, Middle
<1>2. base \in Pairs /\ Narrowed(base, key, 0)
  BY NarrowBegins DEF Narrowed
<1>3. FindBktBinaryEqual(key) = IF d[TreeBits][1] < d[TreeBits][2] THEN 2 * Middle(d[TreeBits]) + 1 ELSE 2 * d[TreeBits][1]
  BY DEF FindBktBinaryEqual, Middle
<1> HIDE DEF base, goes
<1>4. \E f : Rec(f)
  <2>1. PICK f \in [0 .. TreeBits -> Pairs] :
          f[0] = base /\ \A l \in 0 + 1 .. TreeBits : f[l] = step[f[l - 1]]
    <3> HIDE DEF step
    <3>1. RoundsFrom(0, TreeBits, Pairs, base, step)
      BY <1>0, <1>1, <1>2 DEF RoundsFrom
    <3>2. \E f : RoundsOf(f, 0, TreeBits, Pairs, base, step)
      BY ONLY <3>1, Rounds
    <3> QED BY <3>2 DEF RoundsOf
  <2>2. ASSUME NEW n \in 0 .. TreeBits PROVE f[n] = IF n = 0 THEN base ELSE goes(f[n - 1])
    <3>1. CASE n = 0
      BY <2>1, <3>1
    <3>2. CASE n # 0
      <4>1. n \in 0 + 1 .. TreeBits /\ n - 1 \in 0 .. TreeBits
        BY <1>0, <3>2
      <4>2. f[n] = step[f[n - 1]] /\ f[n - 1] \in Pairs
        BY <2>1, <4>1
      <4> QED BY <1>g, <3>2, <4>2
    <3> QED BY <3>1, <3>2
  <2>3. f = [n \in 0 .. TreeBits |-> IF n = 0 THEN base ELSE goes(f[n - 1])]
    BY <2>1, <2>2
  <2> QED BY <2>3
<1>5. Rec(d)
  <2> HIDE DEF Rec
  <2> QED BY <1>4
<1> HIDE DEF d
<1>6. d[0] = base /\ \A n \in 1 .. TreeBits : d[n] = Narrow(key, d[n - 1])
  <2>1. \A n \in 0 .. TreeBits : d[n] = IF n = 0 THEN base ELSE goes(d[n - 1])
    BY <1>5
  <2>2. 0 \in 0 .. TreeBits /\ \A n \in 1 .. TreeBits : n \in 0 .. TreeBits /\ n # 0
    BY <1>0
  <2> QED BY ONLY <1>g, <2>1, <2>2
<1> DEFINE G == [n \in 0 .. TreeBits |-> {x \in Pairs : Narrowed(x, key, n)}]
<1>7. d[0] \in G[0]
  <2>1. 0 \in 0 .. TreeBits
    BY <1>0
  <2> QED BY <1>2, <1>6, <2>1
<1>8. ASSUME NEW n \in 0 + 1 .. TreeBits, d[n - 1] \in G[n - 1] PROVE d[n] \in G[n]
  <2> DEFINE x == d[n - 1]
  <2>1. /\ n \in 1 .. TreeBits /\ n \in 0 .. TreeBits /\ n - 1 \in 0 .. TreeBits
        /\ n - 1 \in 0 .. TreeBits - 1 /\ (n - 1) + 1 = n
    BY <1>0
  <2>2. Narrowed(x, key, n - 1) /\ d[n] = Narrow(key, x)
    BY <1>6, <1>8, <2>1
  <2> HIDE DEF x
  <2>3. Narrowed(Narrow(key, x), key, n)
    BY <2>1, <2>2, NarrowStep
  <2>4. Narrow(key, x) \in Pairs
    BY <2>3 DEF Narrowed
  <2> QED BY <2>1, <2>2, <2>3, <2>4
<1>9. d[TreeBits] \in G[TreeBits]
  <2> HIDE DEF G
  <2> QED BY ONLY <1>0, <1>7, <1>8, RoundsKeep
<1>10. TreeBits \in 0 .. TreeBits
  BY <1>0
<1>11. Narrowed(d[TreeBits], key, TreeBits)
  BY <1>9, <1>10
<1> QED BY <1>3, <1>11, NarrowedEnds

(* The equality variants all find the same bucket, that of an equal        *)
(* splitter if there is one and else that of BucketIn, and so does the     *)
(* binary search that stops early.                                         *)
THEOREM EqualVariantCorrect == Spec => []EqualVariantRight
<1>1. TreeInv => EqualVariantRight
  <2> SUFFICES ASSUME TreeInv PROVE EqualVariantRight
    OBVIOUS
  <2>1. ASSUME Built, NEW key \in Keys
        PROVE  /\ \A b \in {FindBktEqualAssembler(key), FindBktEqualUnroll(key),
                            FindBktEqualUnrollAssembler(key)} : b = FindBktEqual(tree, key)
               /\ EqualFound(splitter, key, FindBktEqual(tree, key))
               /\ EqualFound(PreorderSplitters, key, FindBktBinaryEqual(key))
    <3>1. key \in Int
      BY KeysAreNumbers
    <3> QED BY <2>1, <3>1, EqualTreeBucket, EqualUnrollBuckets, EqualBinaryBucket
  <2> QED BY <2>1 DEF EqualVariantRight
<1> QED BY <1>1, TreeInvHolds, PTL

-----------------------------------------------------------------------------
(* Buckets that are written in batches: m of them from b on. *)
RunOf(right, b, m) == [k \in 1 .. m |-> right[b + k]]

RunFits(right, n, b, m, r) ==
  n \in Nat /\ right \in [1 .. n -> Int] /\ b \in Nat /\ m \in Nat /\ r \in Nat /\ b + m + r <= n

LEMMA RunIs ==
  ASSUME NEW n, NEW right, NEW b, NEW m, RunFits(right, n, b, m, 0)
  PROVE  /\ RunOf(right, b, m) \in Seq(Int) /\ Len(RunOf(right, b, m)) = m
         /\ \A k \in 1 .. m : RunOf(right, b, m)[k] = right[b + k]
<1>0. n \in Nat /\ right \in [1 .. n -> Int] /\ b \in Nat /\ m \in Nat /\ b + m <= n
  BY DEF RunFits
<1>1. \A k \in 1 .. m : b + k \in 1 .. n
  BY <1>0
<1>2. \A k \in 1 .. m : right[b + k] \in Int
  BY <1>0, <1>1
<1> QED BY <1>0, <1>2 DEF RunOf

Joins(right, b, m, r) == RunOf(right, b, m) \o RunOf(right, b + m, r) = RunOf(right, b, m + r)

LEMMA RunsJoin ==
  ASSUME NEW n, NEW right, NEW b, NEW m, NEW r, RunFits(right, n, b, m, r)
  PROVE  Joins(right, b, m, r)
<1>0. n \in Nat /\ right \in [1 .. n -> Int] /\ b \in Nat /\ m \in Nat /\ r \in Nat /\ b + m + r <= n
  BY DEF RunFits
<1> DEFINE c == b + m e == m + r
           s == RunOf(right, b, m) t == RunOf(right, c, r) u == RunOf(right, b, e)
<1>1. RunFits(right, n, b, m, 0) /\ RunFits(right, n, c, r, 0) /\ RunFits(right, n, b, e, 0)
  BY <1>0 DEF RunFits
<1> HIDE DEF c, e
<1>2. s \in Seq(Int) /\ Len(s) = m /\ \A k \in 1 .. m : s[k] = right[b + k]
  BY ONLY <1>1, RunIs
<1>3. t \in Seq(Int) /\ Len(t) = r /\ \A k \in 1 .. r : t[k] = right[c + k]
  BY ONLY <1>1, RunIs
<1>4. u \in Seq(Int) /\ Len(u) = e /\ \A k \in 1 .. e : u[k] = right[b + k]
  BY ONLY <1>1, RunIs
<1> HIDE DEF s, t, u
<1>e. c = b + m /\ e = m + r
  BY DEF c, e
<1>5. /\ s \o t \in Seq(Int) /\ Len(s \o t) = m + r
      /\ \A k \in 1 .. m + r : (s \o t)[k] = IF k <= m THEN s[k] ELSE t[k - m]
  <2>1. s \in Seq(Int) /\ t \in Seq(Int)
    BY <1>2, <1>3
  <2>2. /\ s \o t \in Seq(Int) /\ Len(s \o t) = Len(s) + Len(t)
        /\ \A k \in 1 .. Len(s) + Len(t) : (s \o t)[k] = IF k <= Len(s) THEN s[k] ELSE t[k - Len(s)]
    BY ONLY <2>1, ConcatProperties
  <2>3. Len(s) = m /\ Len(t) = r
    BY <1>2, <1>3
  <2> QED BY ONLY <2>2, <2>3
<1>6. ASSUME NEW k \in 1 .. m + r PROVE (s \o t)[k] = u[k]
  <2>1. CASE k <= m
    BY <1>0, <1>2, <1>4, <1>5, <1>e, <2>1
  <2>2. CASE ~(k <= m)
    <3>1. k - m \in 1 .. r /\ c + (k - m) = b + k
      BY <1>0, <1>e, <2>2
    <3> QED BY <1>0, <1>3, <1>4, <1>5, <1>e, <2>2, <3>1
  <2> QED BY <2>1, <2>2
<1>7. s \o t = u
  BY <1>4, <1>5, <1>6, <1>e, SeqEqual
<1> QED BY <1>7 DEF s, t, u, c, e, Joins

LEMMA RunsShort ==
  ASSUME NEW n \in Nat, NEW right \in [1 .. n -> Int], NEW b \in Nat
  PROVE  /\ b <= n => RunOf(right, b, 0) = <<>>
         /\ b + 1 <= n => RunOf(right, b, 1) = <<right[b + 1]>>
<1>1. ASSUME b <= n PROVE RunOf(right, b, 0) = <<>>
  <2>1. RunOf(right, b, 0) \in Seq(Int) /\ Len(RunOf(right, b, 0)) = 0
    <3>1. RunFits(right, n, b, 0, 0)
      BY <1>1 DEF RunFits
    <3> QED BY ONLY <3>1, RunIs
  <2> QED BY <2>1, EmptySeq
<1>2. ASSUME b + 1 <= n PROVE RunOf(right, b, 1) = <<right[b + 1]>>
  <2> DEFINE s == RunOf(right, b, 1) v == right[b + 1] t == <<v>>
  <2>1. s \in Seq(Int) /\ Len(s) = 1 /\ s[1] = v
    <3>1. 1 \in Nat /\ 1 \in 1 .. 1
      OBVIOUS
    <3>2. s \in Seq(Int) /\ Len(s) = 1 /\ \A k \in 1 .. 1 : s[k] = right[b + k]
      <4> DEFINE one == 1
      <4>1. RunFits(right, n, b, one, 0)
        BY <1>2 DEF RunFits
      <4> HIDE DEF one
      <4>2. /\ RunOf(right, b, one) \in Seq(Int) /\ Len(RunOf(right, b, one)) = one
            /\ \A k \in 1 .. one : RunOf(right, b, one)[k] = right[b + k]
        BY ONLY <4>1, RunIs
      <4> QED BY ONLY <4>2 DEF one
    <3> HIDE DEF s
    <3> QED BY <3>1, <3>2
  <2>2. v \in Int
    BY <1>2
  <2> HIDE DEF s, v
  <2>3. t \in Seq(Int) /\ Len(t) = 1 /\ t[1] = v
    BY <2>2
  <2> HIDE DEF t
  <2>4. \A k \in 1 .. Len(s) : s[k] = t[k]
    BY <2>1, <2>3
  <2>5. s = t
    BY <2>1, <2>3, <2>4, SeqEqual
  <2> QED BY <2>5 DEF s, t, v
<1> QED BY <1>1, <1>2

(* What the interleaved variants write from begin on, batch by batch. *)
Batches(out, right, n) ==
  out = [begin \in 0 .. n |->
          IF begin = n THEN <<>>
          ELSE IF begin + Rollout < n
          THEN [u \in 1 .. Rollout |-> right[begin + u]] \o out[begin + Rollout]
          ELSE <<right[begin + 1]>> \o out[begin + 1]]

(* The runs to the end. *)
Rests(right, n) == [begin \in 0 .. n |-> RunOf(right, begin, n - begin)]

LEMMA BatchIs ==
  ASSUME NEW n \in Nat, NEW right \in [1 .. n -> Int], NEW begin \in 0 .. n - 1
  PROVE  /\ begin + Rollout < n =>
              [u \in 1 .. Rollout |-> right[begin + u]] \o RunOf(right, begin + Rollout, n - (begin + Rollout))
                = RunOf(right, begin, n - begin)
         /\ <<right[begin + 1]>> \o RunOf(right, begin + 1, n - (begin + 1)) = RunOf(right, begin, n - begin)
<1>0. Rollout \in Nat \ {0} /\ begin \in Nat
  BY TreeAssumption
<1>1. ASSUME NEW r \in Nat, begin + r <= n
      PROVE  RunOf(right, begin, r) \o RunOf(right, begin + r, n - (begin + r)) = RunOf(right, begin, n - begin)
  <2> DEFINE q == n - (begin + r)
  <2>1. q \in Nat /\ begin + r + q <= n /\ r + q = n - begin
    BY <1>0, <1>1
  <2> HIDE DEF q
  <2>2. RunOf(right, begin, r) \o RunOf(right, begin + r, q) = RunOf(right, begin, r + q)
    <3>1. RunFits(right, n, begin, r, q)
      BY <1>0, <2>1 DEF RunFits
    <3>2. Joins(right, begin, r, q)
      BY ONLY <3>1, RunsJoin
    <3> QED BY <3>2 DEF Joins
  <2> QED BY <2>1, <2>2 DEF q
<1>2. begin + 1 <= n /\ 1 \in Nat
  BY <1>0
<1>3. <<right[begin + 1]>> = RunOf(right, begin, 1)
  BY <1>0, <1>2, RunsShort
<1>4. <<right[begin + 1]>> \o RunOf(right, begin + 1, n - (begin + 1)) = RunOf(right, begin, n - begin)
  BY <1>1, <1>2, <1>3
<1>5. ASSUME begin + Rollout < n
      PROVE  [u \in 1 .. Rollout |-> right[begin + u]] \o RunOf(right, begin + Rollout, n - (begin + Rollout))
                = RunOf(right, begin, n - begin)
  <2>1. begin + Rollout <= n /\ Rollout \in Nat
    BY <1>0, <1>5
  <2>2. RunOf(right, begin, Rollout) \o RunOf(right, begin + Rollout, n - (begin + Rollout)) = RunOf(right, begin, n - begin)
    BY <1>1, <2>1
  <2> QED BY <2>2 DEF RunOf
<1> QED BY <1>4, <1>5

LEMMA BatchesExist ==
  ASSUME NEW n \in Nat, NEW right \in [1 .. n -> Int]
  PROVE  Batches(Rests(right, n), right, n)
<1> DEFINE out == Rests(right, n)
           B(begin) == IF begin = n THEN <<>>
                       ELSE IF begin + Rollout < n
                       THEN [u \in 1 .. Rollout |-> right[begin + u]] \o out[begin + Rollout]
                       ELSE <<right[begin + 1]>> \o out[begin + 1]
<1>0. Rollout \in Nat \ {0}
  BY TreeAssumption
<1>1. \A begin \in 0 .. n : out[begin] = RunOf(right, begin, n - begin)
  BY DEF Rests
<1>2. out = [begin \in 0 .. n |-> out[begin]]
  BY DEF Rests
<1>3. ASSUME NEW begin \in 0 .. n PROVE out[begin] = B(begin)
  <2>1. CASE begin = n
    <3>1. n - n = 0 /\ n <= n
      OBVIOUS
    <3> QED BY <1>1, <2>1, <3>1, RunsShort
  <2>2. CASE begin # n /\ begin + Rollout < n
    <3>1. begin \in 0 .. n - 1 /\ begin + Rollout \in 0 .. n
      BY <1>0, <2>2
    <3>2. out[begin + Rollout] = RunOf(right, begin + Rollout, n - (begin + Rollout))
      BY <1>1, <3>1
    <3>3. [u \in 1 .. Rollout |-> right[begin + u]] \o RunOf(right, begin + Rollout, n - (begin + Rollout))
                = RunOf(right, begin, n - begin)
      BY <2>2, <3>1, BatchIs
    <3>4. B(begin) = [u \in 1 .. Rollout |-> right[begin + u]] \o out[begin + Rollout]
      BY <2>2
    <3> HIDE DEF B, out
    <3> QED BY <1>1, <3>2, <3>3, <3>4
  <2>3. CASE begin # n /\ ~(begin + Rollout < n)
    <3>1. begin \in 0 .. n - 1 /\ begin + 1 \in 0 .. n
      BY <2>3
    <3>2. out[begin + 1] = RunOf(right, begin + 1, n - (begin + 1))
      BY <1>1, <3>1
    <3>3. <<right[begin + 1]>> \o RunOf(right, begin + 1, n - (begin + 1)) = RunOf(right, begin, n - begin)
      BY <3>1, BatchIs
    <3>4. B(begin) = <<right[begin + 1]>> \o out[begin + 1]
      BY <2>3
    <3> HIDE DEF B, out
    <3> QED BY <1>1, <3>2, <3>3, <3>4
  <2> QED BY <2>1, <2>2, <2>3
<1> HIDE DEF out
<1>4. out = [begin \in 0 .. n |-> B(begin)]
  <2> HIDE DEF B
  <2>1. [begin \in 0 .. n |-> out[begin]] = [begin \in 0 .. n |-> B(begin)]
    BY <1>3
  <2> QED BY <1>2, <2>1
<1> QED BY <1>4 DEF Batches, out

LEMMA BatchesAre ==
  ASSUME NEW n \in Nat, NEW right \in [1 .. n -> Int], NEW out, Batches(out, right, n)
  PROVE  out[0] = RunOf(right, 0, n)
<1>0. Rollout \in Nat \ {0}
  BY TreeAssumption
<1> DEFINE B(begin) == IF begin = n THEN <<>>
                       ELSE IF begin + Rollout < n
                       THEN [u \in 1 .. Rollout |-> right[begin + u]] \o out[begin + Rollout]
                       ELSE <<right[begin + 1]>> \o out[begin + 1]
           Good(b) == out[b] = RunOf(right, b, n - b)
           P == {k \in Nat : \A b \in 0 .. n : n - b <= k => Good(b)}
<1>1. \A begin \in 0 .. n : out[begin] = B(begin)
  <2>1. out = [begin \in 0 .. n |-> B(begin)]
    BY DEF Batches
  <2> HIDE DEF B
  <2> QED BY ONLY <2>1
<1>2. Good(n)
  <2>0. n \in 0 .. n /\ n - n = 0 /\ n <= n /\ 0 \in Nat
    OBVIOUS
  <2>1. B(n) = <<>>
    OBVIOUS
  <2>2. out[n] = <<>>
    <3> HIDE DEF B
    <3> QED BY ONLY <1>1, <2>0, <2>1
  <2> QED BY <2>0, <2>2, RunsShort
<1>3. 0 \in P
  <2>1. ASSUME NEW b \in 0 .. n, n - b <= 0 PROVE Good(b)
    <3>1. b = n
      BY <2>1
    <3> HIDE DEF Good
    <3> QED BY <1>2, <3>1
  <2> HIDE DEF Good
  <2> QED BY <2>1
<1>4. ASSUME NEW k \in P PROVE k + 1 \in P
  <2>0. k \in Nat /\ k + 1 \in Nat
    OBVIOUS
  <2>1. \A b \in 0 .. n : n - b <= k => Good(b)
    OBVIOUS
  <2>2. ASSUME NEW b \in 0 .. n, n - b <= k + 1 PROVE Good(b)
    <3>1. CASE b = n
      <4> HIDE DEF Good
      <4> QED BY <1>2, <3>1
    <3>2. CASE b # n /\ b + Rollout < n
      <4>1. b \in 0 .. n - 1 /\ b + Rollout \in 0 .. n /\ n - (b + Rollout) <= k
        BY <1>0, <2>0, <2>2, <3>2
      <4>2. out[b + Rollout] = RunOf(right, b + Rollout, n - (b + Rollout))
        BY <2>1, <4>1
      <4>3. [u \in 1 .. Rollout |-> right[b + u]] \o RunOf(right, b + Rollout, n - (b + Rollout))
                = RunOf(right, b, n - b)
        BY <3>2, <4>1, BatchIs
      <4>4. B(b) = [u \in 1 .. Rollout |-> right[b + u]] \o out[b + Rollout]
        BY <3>2
      <4> HIDE DEF B
      <4> QED BY <1>1, <4>2, <4>3, <4>4
    <3>3. CASE b # n /\ ~(b + Rollout < n)
      <4>1. b \in 0 .. n - 1 /\ b + 1 \in 0 .. n /\ n - (b + 1) <= k
        BY <2>0, <2>2, <3>3
      <4>2. out[b + 1] = RunOf(right, b + 1, n - (b + 1))
        BY <2>1, <4>1
      <4>3. <<right[b + 1]>> \o RunOf(right, b + 1, n - (b + 1)) = RunOf(right, b, n - b)
        BY <4>1, BatchIs
      <4>4. B(b) = <<right[b + 1]>> \o out[b + 1]
        BY <3>3
      <4> HIDE DEF B
      <4> QED BY <1>1, <4>2, <4>3, <4>4
    <3> QED BY <3>1, <3>2, <3>3
  <2> HIDE DEF Good
  <2> QED BY <2>0, <2>2
<1>5. P = Nat
  <2>1. P \in SUBSET Nat
    OBVIOUS
  <2> HIDE DEF P
  <2> QED BY ONLY <1>3, <1>4, <2>1, NatInd
<1>6. n \in P /\ 0 \in 0 .. n /\ n - 0 <= n /\ n - 0 = n
  <2> HIDE DEF P
  <2> QED BY <1>5
<1> HIDE DEF Good
<1>7. Good(0)
  BY <1>6
<1> QED BY <1>6, <1>7 DEF Good

LEMMA AllKeysAre ==
  /\ Cardinality(Keys) \in Nat
  /\ \A k \in 1 .. Cardinality(Keys) : AllKeysDescending[k] \in Keys
<1>1. IsFiniteSet(Keys)
  <2> DEFINE top == NumChars ^ KeyWidth - 1
  <2>1. 0 \in Int /\ top \in Int
    BY Powers, KeyAssumption
  <2>2. Keys \subseteq 0 .. top
    BY DEF Keys
  <2> HIDE DEF top
  <2>3. IsFiniteSet(0 .. top)
    BY ONLY <2>1, FS_Interval
  <2> QED BY ONLY <2>2, <2>3, FS_Subset
<1>2. Cardinality(Keys) \in Nat
  BY <1>1, FS_CardinalityType
<1> DEFINE P == [x \in Keys |-> {other \in Keys : x < other}]
<1>3. \A x \in Keys : x \in Int
  BY KeysAreNumbers
<1>4. DOMAIN P = Keys /\ \A x, y \in Keys : y \in P[x] <=> x < y
  OBVIOUS
<1>5. \A x \in Keys : P[x] \in SUBSET Keys
  OBVIOUS
<1>6. \A x \in Keys : P[x] = {other \in Keys : x < other}
  OBVIOUS
<1> HIDE DEF P
<1>7. \A x \in Keys : P[x] \in SUBSET Keys /\ x \notin P[x]
  BY <1>3, <1>4, <1>5
<1>8. \A x, y \in Keys : y \in P[x] => P[y] \in SUBSET P[x]
  <2> SUFFICES ASSUME NEW x \in Keys, NEW y \in Keys, y \in P[x], NEW z \in P[y] PROVE z \in P[x]
    OBVIOUS
  <2>1. z \in Keys
    BY <1>5
  <2> QED BY <1>3, <1>4, <2>1
<1>9. \A x, y \in Keys : x = y \/ y \in P[x] \/ x \in P[y]
  BY <1>3, <1>4
<1>10. \A r \in 0 .. Cardinality(Keys) - 1 : \E x \in Keys : Cardinality(P[x]) = r
  BY ONLY <1>1, <1>4, <1>7, <1>8, <1>9, RanksFill
<1>11. ASSUME NEW k \in 1 .. Cardinality(Keys) PROVE AllKeysDescending[k] \in Keys
  <2>1. k - 1 \in 0 .. Cardinality(Keys) - 1
    BY <1>2
  <2>2. \E x \in Keys : Cardinality({other \in Keys : x < other}) = k - 1
    BY <1>6, <1>10, <2>1
  <2>3. AllKeysDescending[k] = CHOOSE key \in Keys : Cardinality({other \in Keys : key < other}) = k - 1
    BY DEF AllKeysDescending
  <2> QED BY <2>2, <2>3
<1> QED BY <1>2, <1>11

LEMMA TreeInterleaved ==
  ASSUME NEW keys, NEW n \in Nat, Len(keys) = n, NEW right \in [1 .. n -> Int],
         \A k \in 1 .. n : FindBktTreeUnroll(keys[k]) = right[k] /\ FindBktTree(keys[k]) = right[k]
  PROVE  ClassifyTreeInterleave(keys) = right
<1> DEFINE F(g, begin) ==
             IF begin = Len(keys) THEN <<>>
             ELSE IF begin + Rollout < Len(keys)
             THEN [u \in 1 .. Rollout |-> FindBktTreeUnroll(keys[begin + u])] \o g[begin + Rollout]
             ELSE <<FindBktTree(keys[begin + 1])>> \o g[begin + 1]
           B(g, begin) ==
             IF begin = n THEN <<>>
             ELSE IF begin + Rollout < n
             THEN [u \in 1 .. Rollout |-> right[begin + u]] \o g[begin + Rollout]
             ELSE <<right[begin + 1]>> \o g[begin + 1]
           Rec(g) == g = [begin \in 0 .. Len(keys) |-> F(g, begin)]
           d == CHOOSE g : Rec(g)
<1>0. Rollout \in Nat \ {0}
  BY TreeAssumption
<1>1. ASSUME NEW g, NEW begin \in 0 .. n PROVE F(g, begin) = B(g, begin)
  <2>1. CASE begin = n
    BY <2>1
  <2>2. CASE begin # n /\ begin + Rollout < n
    <3> DEFINE x == [u \in 1 .. Rollout |-> FindBktTreeUnroll(keys[begin + u])]
               y == [u \in 1 .. Rollout |-> right[begin + u]]
    <3>1. \A u \in 1 .. Rollout : begin + u \in 1 .. n
      BY <1>0, <2>2
    <3>2. x = y
      BY <3>1
    <3>3. F(g, begin) = x \o g[begin + Rollout] /\ B(g, begin) = y \o g[begin + Rollout]
      BY <2>2
    <3> HIDE DEF x, y, F, B
    <3> QED BY ONLY <3>2, <3>3
  <2>3. CASE begin # n /\ ~(begin + Rollout < n)
    <3> DEFINE x == <<FindBktTree(keys[begin + 1])>> y == <<right[begin + 1]>>
    <3>1. begin + 1 \in 1 .. n
      BY <2>3
    <3>2. x = y
      BY <3>1
    <3>3. F(g, begin) = x \o g[begin + 1] /\ B(g, begin) = y \o g[begin + 1]
      BY <2>3
    <3> HIDE DEF x, y, F, B
    <3> QED BY ONLY <3>2, <3>3
  <2> QED BY <2>1, <2>2, <2>3
<1>2. ClassifyTreeInterleave(keys) = d[0]
  BY DEF ClassifyTreeInterleave
<1>3. \A g : Batches(g, right, n) <=> g = [begin \in 0 .. n |-> B(g, begin)]
  BY DEF Batches
<1> HIDE DEF F, B
<1>4. ASSUME NEW g PROVE [begin \in 0 .. n |-> B(g, begin)] = [begin \in 0 .. Len(keys) |-> F(g, begin)]
  BY <1>1
<1>5. \A g : Batches(g, right, n) <=> Rec(g)
  <2> SUFFICES ASSUME NEW g PROVE Batches(g, right, n) <=> Rec(g)
    OBVIOUS
  <2> DEFINE fb == [begin \in 0 .. n |-> B(g, begin)] ff == [begin \in 0 .. Len(keys) |-> F(g, begin)]
  <2>1. fb = ff /\ (Batches(g, right, n) <=> g = fb) /\ (Rec(g) <=> g = ff)
    BY <1>3, <1>4
  <2> HIDE DEF fb, ff, Rec
  <2> QED BY ONLY <2>1
<1> HIDE DEF Rec
<1>6. \E g : Rec(g)
  BY <1>5, BatchesExist
<1>7. Batches(d, right, n)
  <2>1. Rec(d)
    BY ONLY <1>6
  <2> HIDE DEF d
  <2> QED BY <1>5, <2>1
<1> HIDE DEF d
<1>8. d[0] = RunOf(right, 0, n)
  BY <1>7, BatchesAre
<1>9. RunOf(right, 0, n) = right
  <2>1. \A k \in 1 .. n : 0 + k = k
    OBVIOUS
  <2>2. right = [k \in 1 .. n |-> right[k]]
    OBVIOUS
  <2>3. [k \in 1 .. n |-> right[0 + k]] = [k \in 1 .. n |-> right[k]]
    BY <2>1
  <2> QED BY ONLY <2>2, <2>3 DEF RunOf
<1> QED BY <1>2, <1>8, <1>9

LEMMA CalcInterleaved ==
  ASSUME NEW keys, NEW n \in Nat, Len(keys) = n, NEW right \in [1 .. n -> Int],
         \A k \in 1 .. n : FindBktCalcUnroll(keys[k]) = right[k] /\ FindBktCalc(keys[k]) = right[k]
  PROVE  ClassifyCalcInterleave(keys) = right
<1> DEFINE F(g, begin) ==
             IF begin = Len(keys) THEN <<>>
             ELSE IF begin + Rollout < Len(keys)
             THEN [u \in 1 .. Rollout |-> FindBktCalcUnroll(keys[begin + u])] \o g[begin + Rollout]
             ELSE <<FindBktCalc(keys[begin + 1])>> \o g[begin + 1]
           B(g, begin) ==
             IF begin = n THEN <<>>
             ELSE IF begin + Rollout < n
             THEN [u \in 1 .. Rollout |-> right[begin + u]] \o g[begin + Rollout]
             ELSE <<right[begin + 1]>> \o g[begin + 1]
           Rec(g) == g = [begin \in 0 .. Len(keys) |-> F(g, begin)]
           d == CHOOSE g : Rec(g)
<1>0. Rollout \in Nat \ {0}
  BY TreeAssumption
<1>1. ASSUME NEW g, NEW begin \in 0 .. n PROVE F(g, begin) = B(g, begin)
  <2>1. CASE begin = n
    BY <2>1
  <2>2. CASE begin # n /\ begin + Rollout < n
    <3> DEFINE x == [u \in 1 .. Rollout |-> FindBktCalcUnroll(keys[begin + u])]
               y == [u \in 1 .. Rollout |-> right[begin + u]]
    <3>1. \A u \in 1 .. Rollout : begin + u \in 1 .. n
      BY <1>0, <2>2
    <3>2. x = y
      BY <3>1
    <3>3. F(g, begin) = x \o g[begin + Rollout] /\ B(g, begin) = y \o g[begin + Rollout]
      BY <2>2
    <3> HIDE DEF x, y, F, B
    <3> QED BY ONLY <3>2, <3>3
  <2>3. CASE begin # n /\ ~(begin + Rollout < n)
    <3> DEFINE x == <<FindBktCalc(keys[begin + 1])>> y == <<right[begin + 1]>>
    <3>1. begin + 1 \in 1 .. n
      BY <2>3
    <3>2. x = y
      BY <3>1
    <3>3. F(g, begin) = x \o g[begin + 1] /\ B(g, begin) = y \o g[begin + 1]
      BY <2>3
    <3> HIDE DEF x, y, F, B
    <3> QED BY ONLY <3>2, <3>3
  <2> QED BY <2>1, <2>2, <2>3
<1>2. ClassifyCalcInterleave(keys) = d[0]
  BY DEF ClassifyCalcInterleave
<1>3. \A g : Batches(g, right, n) <=> g = [begin \in 0 .. n |-> B(g, begin)]
  BY DEF Batches
<1> HIDE DEF F, B
<1>4. ASSUME NEW g PROVE [begin \in 0 .. n |-> B(g, begin)] = [begin \in 0 .. Len(keys) |-> F(g, begin)]
  BY <1>1
<1>5. \A g : Batches(g, right, n) <=> Rec(g)
  <2> SUFFICES ASSUME NEW g PROVE Batches(g, right, n) <=> Rec(g)
    OBVIOUS
  <2> DEFINE fb == [begin \in 0 .. n |-> B(g, begin)] ff == [begin \in 0 .. Len(keys) |-> F(g, begin)]
  <2>1. fb = ff /\ (Batches(g, right, n) <=> g = fb) /\ (Rec(g) <=> g = ff)
    BY <1>3, <1>4
  <2> HIDE DEF fb, ff, Rec
  <2> QED BY ONLY <2>1
<1> HIDE DEF Rec
<1>6. \E g : Rec(g)
  BY <1>5, BatchesExist
<1>7. Batches(d, right, n)
  <2>1. Rec(d)
    BY ONLY <1>6
  <2> HIDE DEF d
  <2> QED BY <1>5, <2>1
<1> HIDE DEF d
<1>8. d[0] = RunOf(right, 0, n)
  BY <1>7, BatchesAre
<1>9. RunOf(right, 0, n) = right
  <2>1. \A k \in 1 .. n : 0 + k = k
    OBVIOUS
  <2>2. right = [k \in 1 .. n |-> right[k]]
    OBVIOUS
  <2>3. [k \in 1 .. n |-> right[0 + k]] = [k \in 1 .. n |-> right[k]]
    BY <2>1
  <2> QED BY ONLY <2>2, <2>3 DEF RunOf
<1> QED BY <1>2, <1>8, <1>9

(* The interleaved variants write the right bucket for every key, however  *)
(* many keys there are and whatever Rollout is.                            *)
THEOREM InterleavedCorrect == Spec => []InterleavedRight
<1>1. TreeInv => InterleavedRight
  <2> SUFFICES ASSUME TreeInv, Built, NEW n \in 0 .. Cardinality(Keys)
               PROVE  LET keys == SubSeq(AllKeysDescending, 1, n)
                      IN  \A out \in {ClassifyTreeInterleave(keys), ClassifyCalcInterleave(keys)} :
                            out = [k \in 1 .. n |-> BucketIn(splitter, keys[k])]
    BY DEF InterleavedRight
  <2> DEFINE keys == SubSeq(AllKeysDescending, 1, n)
             right == [k \in 1 .. n |-> BucketIn(splitter, keys[k])]
  <2>0. Cardinality(Keys) \in Nat /\ n \in Nat /\ n <= Cardinality(Keys)
    BY AllKeysAre
  <2>1. \A k \in 1 .. n : AllKeysDescending[k] \in Keys
    BY <2>0, AllKeysAre
  <2>2. /\ keys \in Seq(Keys) /\ Len(keys) = n
        /\ \A k \in 1 .. n : keys[k] \in Int
    <3>1. 1 \in Int /\ n \in Int
      BY <2>0
    <3>2. keys \in Seq(Keys) /\ Len(keys) = IF 1 <= n THEN n - 1 + 1 ELSE 0
      BY ONLY <3>1, <2>1, SubSeqProperties
    <3> HIDE DEF keys
    <3>3. Len(keys) = n
      BY <2>0, <3>2
    <3>4. \A k \in 1 .. n : keys[k] \in Keys
      BY <2>0, <3>2, <3>3, ElementOfSeq
    <3> QED BY <3>2, <3>3, <3>4, KeysAreNumbers
  <2> HIDE DEF keys
  <2>3. \A k \in 1 .. n :
          /\ FindBktTreeUnroll(keys[k]) = right[k] /\ FindBktTree(keys[k]) = right[k]
          /\ FindBktCalcUnroll(keys[k]) = right[k] /\ FindBktCalc(keys[k]) = right[k]
    BY <2>2, TreeBuckets
  <2>4. right \in [1 .. n -> Int]
    <3>1. ASSUME NEW k \in 1 .. n PROVE BucketIn(splitter, keys[k]) \in Int
      <4>1. splitter \in [0 .. NumSplitters - 1 -> Int] /\ NumSplitters \in Nat
        BY SplitterInts, Shape DEF Rank
      <4>2. \A i, j \in 0 .. NumSplitters - 1 : i < j => splitter[i] <= splitter[j]
        BY SplittersAre DEF Rank
      <4> DEFINE x == keys[k]
      <4>3. x \in Int
        BY <2>2
      <4> HIDE DEF x
      <4>4. PICK l \in 0 .. NumSplitters : BucketIn(splitter, x) = 2 * l + 1 \/ BucketIn(splitter, x) = 2 * l
        BY <4>1, <4>2, <4>3, BucketLies
      <4>5. 2 * l + 1 \in Int /\ 2 * l \in Int
        BY <4>1
      <4> QED BY <4>4, <4>5 DEF x
    <3> QED BY <3>1
  <2> HIDE DEF right
  <2>5. ClassifyTreeInterleave(keys) = right
    BY <2>0, <2>2, <2>3, <2>4, TreeInterleaved
  <2>6. ClassifyCalcInterleave(keys) = right
    BY <2>0, <2>2, <2>3, <2>4, CalcInterleaved
  <2> QED BY <2>5, <2>6 DEF keys, right
<1> QED BY <1>1, TreeInvHolds, PTL

-----------------------------------------------------------------------------
(* A key has as many characters before its terminator as are not zero. *)
LEMMA DepthAtLeast ==
  ASSUME NEW key, NEW m \in 0 .. KeyWidth, \A e \in 0 .. m - 1 : CharAt(key, e) # 0
  PROVE  KeyDepth(key) \in Nat /\ KeyDepth(key) >= m
<1> DEFINE deep == {d \in Place : \E e \in d .. KeyWidth - 1 : CharAt(key, e) # 0}
<1>0. KeyWidth \in Nat \ {0} /\ m \in Nat /\ m <= KeyWidth /\ 0 \in Int /\ m - 1 \in Int /\ KeyWidth - 1 \in Int
  BY KeyAssumption
<1>1. IsFiniteSet(Place)
  <2> DEFINE top == KeyWidth - 1
  <2>1. 0 \in Int /\ top \in Int
    BY <1>0
  <2> HIDE DEF top
  <2>2. IsFiniteSet(0 .. top)
    BY ONLY <2>1, FS_Interval
  <2> QED BY <2>2 DEF Place, top
<1>2. IsFiniteSet(deep)
  <2>1. deep \subseteq Place
    OBVIOUS
  <2> HIDE DEF deep
  <2> QED BY ONLY <1>1, <2>1, FS_Subset
<1>3. 0 .. m - 1 \subseteq deep
  <2> SUFFICES ASSUME NEW d \in 0 .. m - 1 PROVE d \in deep
    OBVIOUS
  <2>1. d \in Place /\ d \in d .. KeyWidth - 1
    BY <1>0 DEF Place
  <2> QED BY <2>1
<1> HIDE DEF deep
<1> DEFINE last == m - 1
<1>4. IsFiniteSet(0 .. last) /\ Cardinality(0 .. last) = m
  <2>1. 0 \in Int /\ last \in Int
    BY <1>0
  <2> HIDE DEF last
  <2>2. IsFiniteSet(0 .. last) /\ Cardinality(0 .. last) = IF 0 > last THEN 0 ELSE last - 0 + 1
    BY ONLY <2>1, FS_Interval
  <2> QED BY <1>0, <2>2 DEF last
<1> HIDE DEF last
<1>5. Cardinality(0 .. last) <= Cardinality(deep)
  BY <1>2, <1>3, FS_Subset DEF last
<1>6. Cardinality(deep) \in Nat
  BY <1>2, FS_CardinalityType
<1> QED BY <1>4, <1>5, <1>6 DEF KeyDepth, deep

(* The depth that a less-than bucket is sorted from is sound: its keys     *)
(* share the splitters' common prefix, and none ends within it.            *)
THEOREM DepthCorrect == Spec => []DepthSound
<1>1. TreeInv => DepthSound
  <2> SUFFICES ASSUME TreeInv, Built, NEW key \in Keys,
                      FindBktTree(key) % 2 = 0, FindBktTree(key) \div 2 \in Rank \ {0}
               PROVE  LET b == FindBktTree(key)
                      IN  /\ KeyLcp(key, splitter[b \div 2]) >= SplitterLcp[b \div 2].lcp
                          /\ KeyDepth(key) >= SplitterLcp[b \div 2].lcp
    BY DEF DepthSound
  <2> DEFINE b == FindBktTree(key) k == b \div 2 x == splitter[k - 1] y == splitter[k]
  <2>0. NumSplitters \in Nat \ {0} /\ key \in Int
    BY Shape, KeysAreNumbers
  <2>1. b = BucketIn(splitter, key)
    BY <2>0, TreeBuckets
  <2>2. splitter \in [0 .. NumSplitters - 1 -> Int]
    BY SplitterInts DEF Rank
  <2>3. \A i, j \in 0 .. NumSplitters - 1 : i < j => splitter[i] <= splitter[j]
    BY SplittersAre DEF Rank
  <2>4. PICK l \in 0 .. NumSplitters :
           /\ \A i \in 0 .. NumSplitters - 1 : splitter[i] < key <=> i < l
           /\ \/ BucketIn(splitter, key) = 2 * l + 1 /\ l < NumSplitters /\ splitter[l] = key
              \/ BucketIn(splitter, key) = 2 * l /\ (l < NumSplitters => key < splitter[l])
    <3>1. NumSplitters \in Nat
      BY <2>0
    <3> QED BY ONLY <3>1, <2>0, <2>2, <2>3, BucketLies
  <2>5. b % 2 = 0 /\ k \in Rank \ {0}
    OBVIOUS
  <2> HIDE DEF b
  <2>6. k = l /\ b = 2 * l
    <3>1. b \in {2 * l, 2 * l + 1} /\ l \in Nat
      BY <2>0, <2>1, <2>4
    <3>2. (2 * l + 1) % 2 = 1 /\ (2 * l) \div 2 = l
      BY <3>1
    <3>3. CASE b = 2 * l + 1
      BY <2>5, <3>2, <3>3
    <3>4. CASE b = 2 * l
      BY <3>2, <3>4
    <3> QED BY <3>1, <3>3, <3>4
  <2>7. k \in Rank /\ k - 1 \in Rank /\ k \in 0 .. NumSplitters /\ k # 0 /\ k # NumSplitters /\ k - 1 < l /\ l < NumSplitters
    BY <2>0, <2>5, <2>6 DEF Rank
  <2>8. x < key /\ key < y
    <3>1. x < key
      BY <2>4, <2>7 DEF Rank
    <3>2. BucketIn(splitter, key) # 2 * l + 1
      BY <2>0, <2>1, <2>4, <2>6
    <3> QED BY <2>4, <2>6, <2>7, <3>1, <3>2
  <2>9. x \in Keys /\ y \in Keys /\ x \in Int /\ y \in Int
    BY <2>7, SplittersAre, TreeAssumption, KeysAreNumbers
  <2>10. SplitterLcp[k].lcp = KeyLcp(x, y)
    BY <2>7 DEF SplitterLcp
  <2> HIDE DEF k, x, y
  <2>11. x <= key /\ key <= y /\ x <= y /\ x <= x /\ y <= y /\ key # x
    BY <2>0, <2>8, <2>9
  <2>12. KeyLcp(x, y) <= KeyLcp(key, y)
    BY <2>9, <2>11, KeyLcpBetween
  <2>13. KeyLcp(x, y) <= KeyLcp(key, x)
    BY <2>9, <2>11, KeyLcpBetween
  <2>14. KeyLcp(x, y) \in 0 .. KeyWidth /\ KeyLcp(key, x) \in 0 .. KeyWidth /\ KeyLcp(key, y) \in 0 .. KeyWidth
    BY <2>9, KeyLcpIsPrefix
  <2>15. \A e \in 0 .. KeyLcp(key, x) - 1 : CharAt(key, e) # 0
    BY <2>9, <2>11, KeysDiffer
  <2> DEFINE m == KeyLcp(x, y) n == KeyLcp(key, x)
  <2>16. m \in 0 .. KeyWidth /\ \A e \in 0 .. m - 1 : e \in 0 .. n - 1
    BY <2>13, <2>14, KeyAssumption
  <2>17. KeyDepth(key) \in Nat /\ KeyDepth(key) >= m
    <3> HIDE DEF m, n
    <3>1. \A e \in 0 .. m - 1 : CharAt(key, e) # 0
      BY <2>15, <2>16 DEF n
    <3> QED BY <2>16, <3>1, DepthAtLeast
  <2>18. KeyLcp(key, y) >= m
    BY <2>12, <2>14
  <2> QED BY <2>10, <2>17, <2>18 DEF k, y, b
<1> QED BY <1>1, TreeInvHolds, PTL
=============================================================================
