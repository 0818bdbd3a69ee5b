-------------------------- MODULE MultikeyQuicksort -------------------------
(***************************************************************************)
(* The partition of strings and their cached keys in one step of multikey  *)
(* quicksort (MKQSStep in bingmann-parallel_sample_sort.hpp).  Items are   *)
(* pairs of a string and its key, indexed from zero; while the loop runs   *)
(* they are                                                                *)
(*                                                                         *)
(*   0 [===] leq [<<<] llt [???] rgt [>>>] req [===] n-1                   *)
(***************************************************************************)
EXTENDS StringKeys, SequencesExt

Swap(f, i, j) == [f EXCEPT ![i] = f[j], ![j] = f[i]]

(* swap_ranges() of n items from i and from j on. *)
SwapRanges(f, i, j, n) ==
  [k \in DOMAIN f |-> IF k \in i .. i + n - 1 THEN f[j + k - i]
                      ELSE IF k \in j .. j + n - 1 THEN f[i + k - j] ELSE f[k]]

Least(i, j) == IF i < j THEN i ELSE j
Greatest(i, j) == IF i > j THEN i ELSE j

(* med3: which of three places has the median. *)
Med3(a, i, j, k) ==
  IF a[i] = a[j] THEN i
  ELSE IF a[k] \in {a[i], a[j]} THEN k
  ELSE CHOOSE x \in {i, j, k} : \E y, z \in {i, j, k} : a[y] < a[x] /\ a[x] < a[z]

(* The median of nine, of at least three items. *)
PivotAt(keys, n) ==
  LET med3(i, j, k) == Med3(keys, i, j, k)
      e == n \div 8
  IN  med3(med3(0, e, n \div 4),
           med3(n \div 2 - e, n \div 2, n \div 2 + e),
           med3(n - 1 - n \div 4, n - 1 - e, n - 3))

(* A scan from the left, up to an item that is greater than the pivot. *)
ScanLeft(p) ==
  LET key == p.items[p.llt].key
  IN  IF p.llt > p.rgt THEN [p EXCEPT !.at = "right"]
      ELSE IF key > p.pivot
           THEN [p EXCEPT !.at = "right", !.minGt = Least(@, key)]
      ELSE IF key = p.pivot
           THEN [p EXCEPT !.items = Swap(@, p.leq, p.llt), !.leq = @ + 1, !.llt = @ + 1]
      ELSE [p EXCEPT !.maxLt = Greatest(@, key), !.llt = @ + 1]

(* Mistake: the item that stops the scan is not counted. *)
ScanRightForgetsLast(p) ==
  LET key == p.items[p.rgt].key
  IN  IF p.llt > p.rgt THEN [p EXCEPT !.at = "done"]
      ELSE IF key < p.pivot
           THEN [p EXCEPT !.at = "swap"]
      ELSE IF key = p.pivot
           THEN [p EXCEPT !.items = Swap(@, p.req, p.rgt), !.req = @ - 1, !.rgt = @ - 1]
      ELSE [p EXCEPT !.minGt = Least(@, key), !.rgt = @ - 1]

(* A scan from the right, down to an item that is less. *)
ScanRight(p) ==
  LET key == p.items[p.rgt].key
  IN  IF p.llt > p.rgt THEN [p EXCEPT !.at = "done"]
      ELSE IF key < p.pivot
           THEN [p EXCEPT !.at = "swap", !.maxLt = Greatest(@, key)]
      ELSE IF key = p.pivot
           THEN [p EXCEPT !.items = Swap(@, p.req, p.rgt), !.req = @ - 1, !.rgt = @ - 1]
      ELSE [p EXCEPT !.minGt = Least(@, key), !.rgt = @ - 1]

SwapBoth(p) ==
  [p EXCEPT !.items = Swap(@, p.llt, p.rgt), !.llt = @ + 1, !.rgt = @ - 1, !.at = "left"]

(* Before the loop, with the pivot in front. *)
ScanStart(items, n) ==
  LET keys == [k \in DOMAIN items |-> items[k].key]
      swapped == Swap(items, 0, PivotAt(keys, n))
  IN  [items |-> swapped, pivot |-> swapped[0].key, at |-> "left",
       leq |-> 1, llt |-> 1, rgt |-> n - 1, req |-> n - 1,
       maxLt |-> 0, minGt |-> NumChars ^ KeyWidth - 1]

ScanStep(p) ==
  CASE p.at = "left" -> ScanLeft(p)
    [] p.at = "right" -> ScanRight(p)
    [] p.at = "swap" -> SwapBoth(p)
    [] p.at = "done" -> p

(* The loop: every iteration but for two at each end of the scan takes an  *)
(* item from between llt and rgt, so that 3n + 3 of them are enough.       *)
Scanned(items, n) ==
  LET scan(p, k) == ScanStep(p)
  IN  FoldLeft(scan, ScanStart(items, n), [k \in 1 .. 3 * n + 3 |-> k])

(* What comes of it: equal items are swapped from both ends to the middle; *)
(* what the scan found out about the keys next to the pivot gives the LCPs *)
(* of the three parts.                                                     *)
Parts(p, n) ==
  LET numLeq == p.leq
      numReq == n - 1 - p.req
      lt == p.llt - p.leq
      gt == p.req - p.rgt
      size1 == Least(numLeq, lt)
      size2 == Least(numReq, gt)
      left == SwapRanges(p.items, 0, p.llt - size1, size1)
  IN  [items |-> SwapRanges(left, p.llt, n - size2, size2),
       pivot |-> p.pivot, lt |-> lt, eq |-> numLeq + numReq, gt |-> gt,
       lcpLt |-> IF lt > 0 THEN KeyLcp(p.maxLt, p.pivot) ELSE 0,
       lcpGt |-> IF gt > 0 THEN KeyLcp(p.pivot, p.minGt) ELSE 0,
       charGt |-> IF gt > 0 THEN CharAt(p.minGt, KeyLcp(p.pivot, p.minGt)) ELSE 0]

(* The constructor of MKQSStep, as a set of one outcome. *)
Partitions(items, n) == {Parts(p, n) : p \in {Scanned(items, n)}}
=============================================================================
