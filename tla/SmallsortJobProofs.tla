------------------------- MODULE SmallsortJobProofs -------------------------
(***************************************************************************)
(* Proofs about SmallsortJob, for every set of inputs, number of splitters *)
(* and threshold: what each sorter makes of a section, what the frames and *)
(* the jobs hold, that every string is theirs once or in its final place,  *)
(* and that the result is in order.                                        *)
(***************************************************************************)
EXTENDS SmallsortJob, StringProofs

(* The partition of a quicksort frame.                                     *)
Swapped(g, f, D, i, j) ==
  /\ g \in Rearranged(f, D)
  /\ \A k \in D : g[k] = IF k = j THEN f[i] ELSE IF k = i THEN f[j] ELSE f[k]

LEMMA SwapIs ==
  ASSUME NEW D, NEW f, DOMAIN f = D, NEW i \in D, NEW j \in D
  PROVE  Swapped(Swap(f, i, j), f, D, i, j)
<1> DEFINE g == Swap(f, i, j)
           p == [k \in D |-> IF k = j THEN i ELSE IF k = i THEN j ELSE k]
<1>1. g = [k \in D |-> IF k = j THEN f[i] ELSE IF k = i THEN f[j] ELSE f[k]]
  BY DEF Swap
<1>2. Bijective(p, D)
  BY DEF Bijective
<1>3. \A k \in D : g[k] = f[p[k]]
  BY <1>1
<1>4. g \in [D -> {f[k] : k \in D}]
  BY <1>1
<1> HIDE DEF g, p
<1>5. Permuted(f, g, D)
  BY <1>2, <1>3 DEF Permuted
<1>6. g \in Rearranged(f, D)
  BY <1>4, <1>5 DEF Rearranged
<1> QED BY <1>1, <1>6 DEF g, Swapped

(* The areas of the items, and what the scans know of where they stop.     *)
PartRight(it, n, pivot, at, leq, llt, rgt, req) ==
  /\ 1 <= leq /\ leq <= llt /\ llt <= rgt + 1 /\ rgt <= req /\ req <= n - 1
  /\ \A k \in 0 .. leq - 1 : it[k].key = pivot
  /\ \A k \in leq .. llt - 1 : it[k].key < pivot
  /\ \A k \in rgt + 1 .. req : it[k].key > pivot
  /\ \A k \in req + 1 .. n - 1 : it[k].key = pivot
  /\ at \in {"right", "swap"} /\ llt <= rgt => it[llt].key > pivot
  /\ at = "swap" => llt < rgt /\ it[rgt].key < pivot
  /\ at = "done" => llt > rgt

PartStates(items, n, pivot) ==
  {p \in [items : Rearranged(items, 0 .. n - 1), pivot : {pivot},
          at : {"left", "right", "swap", "done"}, leq : Int, llt : Int, rgt : Int, req : Int,
          maxLt : Int, minGt : Int] :
     PartRight(p.items, n, p.pivot, p.at, p.leq, p.llt, p.rgt, p.req)}

(* Every step of the scan takes something from this. *)
ToScan(p) ==
  3 * (p.rgt - p.llt + 1) + (IF p.at = "left" THEN 2 ELSE IF p.at = "right" THEN 1 ELSE 0)

LEMMA LeastIs ==
  ASSUME NEW i \in Int, NEW j \in Int
  PROVE  /\ Least(i, j) \in {i, j} /\ Least(i, j) <= i /\ Least(i, j) <= j /\ Least(i, j) \in Int
         /\ Greatest(i, j) \in {i, j} /\ Greatest(i, j) \in Int
  BY DEF Least, Greatest

LEMMA ScanLeftRight ==
  ASSUME NEW n \in Nat, NEW items, DOMAIN items = 0 .. n - 1, items = [k \in 0 .. n - 1 |-> items[k]],
         \A k \in 0 .. n - 1 : items[k].key \in Int, NEW pivot \in Int,
         NEW p \in PartStates(items, n, pivot), p.at = "left"
  PROVE  ScanLeft(p) \in PartStates(items, n, pivot) /\ ToScan(ScanLeft(p)) < ToScan(p)
<1> DEFINE D == 0 .. n - 1
           it == p.items
           y == ScanLeft(p)
           key == it[p.llt].key
<1>1. /\ p = [items |-> p.items, pivot |-> p.pivot, at |-> p.at, leq |-> p.leq, llt |-> p.llt,
              rgt |-> p.rgt, req |-> p.req, maxLt |-> p.maxLt, minGt |-> p.minGt]
      /\ it \in Rearranged(items, D) /\ p.pivot = pivot /\ p.leq \in Int /\ p.llt \in Int
      /\ p.rgt \in Int /\ p.req \in Int /\ p.maxLt \in Int /\ p.minGt \in Int
      /\ PartRight(it, n, pivot, "left", p.leq, p.llt, p.rgt, p.req)
  BY DEF PartStates
<1>2. DOMAIN it = D /\ it = [k \in D |-> it[k]] /\ \A k \in D : it[k].key \in Int
  <2> HIDE DEF it, D
  <2>1. it \in [D -> {items[k] : k \in D}]
    BY <1>1 DEF Rearranged, D
  <2>2. \A k \in D : it[k] \in {items[l] : l \in D}
    BY <2>1
  <2>3. \A l \in D : items[l].key \in Int
    BY DEF D
  <2> QED BY <2>1, <2>2, <2>3
<1>4. p.at = "left"
  OBVIOUS
<1> HIDE DEF D
<1>5. CASE p.llt > p.rgt
  <2>1. y = [p EXCEPT !.at = "right"]
    BY <1>5 DEF ScanLeft
  <2> HIDE DEF y, it
  <2>2. y = [items |-> p.items, pivot |-> pivot, at |-> "right", leq |-> p.leq, llt |-> p.llt,
             rgt |-> p.rgt, req |-> p.req, maxLt |-> p.maxLt, minGt |-> p.minGt]
    BY <1>1, <2>1
  <2>3. PartRight(it, n, pivot, "right", p.leq, p.llt, p.rgt, p.req)
    BY <1>1, <1>5 DEF PartRight
  <2>4. y \in PartStates(items, n, pivot) /\ y.rgt = p.rgt /\ y.llt = p.llt /\ y.at = "right"
    BY <1>1, <2>2, <2>3 DEF it, PartStates, D
  <2> QED BY <1>1, <1>4, <2>4 DEF ToScan, y
<1>6. CASE ~(p.llt > p.rgt) /\ key > pivot
  <2>0. p.llt \in D /\ key \in Int
    BY <1>1, <1>2, <1>6 DEF PartRight, D
  <2>1. y = [p EXCEPT !.at = "right", !.minGt = Least(p.minGt, key)]
    BY <1>1, <1>6 DEF ScanLeft
  <2>9. Least(p.minGt, key) \in Int
    BY <1>1, <2>0, LeastIs
  <2> DEFINE gt == Least(p.minGt, key)
  <2> HIDE DEF y, it, gt
  <2>2. y = [items |-> p.items, pivot |-> pivot, at |-> "right", leq |-> p.leq, llt |-> p.llt,
             rgt |-> p.rgt, req |-> p.req, maxLt |-> p.maxLt, minGt |-> gt]
    <3>1. /\ DOMAIN y = {"items", "pivot", "at", "leq", "llt", "rgt", "req", "maxLt", "minGt"}
          /\ y.items = p.items /\ y.pivot = pivot /\ y.at = "right" /\ y.leq = p.leq /\ y.llt = p.llt
          /\ y.rgt = p.rgt /\ y.req = p.req /\ y.maxLt = p.maxLt /\ y.minGt = gt
      BY ONLY <1>1, <2>1 DEF gt
    <3>2. y = [c \in DOMAIN y |-> y[c]]
      BY ONLY <2>1
    <3> QED BY ONLY <3>1, <3>2
  <2>3. PartRight(it, n, pivot, "right", p.leq, p.llt, p.rgt, p.req)
    BY <1>1, <1>6 DEF PartRight
  <2>4. y \in PartStates(items, n, pivot) /\ y.rgt = p.rgt /\ y.llt = p.llt /\ y.at = "right"
    <3>1. gt \in Int
      BY <2>9 DEF gt
    <3> QED BY <1>1, <2>2, <2>3, <3>1 DEF it, PartStates, D
  <2> QED BY <1>1, <1>4, <2>4 DEF ToScan, y
<1>7. CASE ~(p.llt > p.rgt) /\ key = pivot
  <2> DEFINE a == Swap(it, p.leq, p.llt)
  <2>0. p.llt \in D /\ p.leq \in D
    BY <1>1, <1>7 DEF PartRight, D
  <2>1. y = [p EXCEPT !.items = a, !.leq = p.leq + 1, !.llt = p.llt + 1]
    BY <1>1, <1>7 DEF ScanLeft
  <2>7. Swapped(a, it, D, p.leq, p.llt)
    <3> HIDE DEF it
    <3> QED BY <1>2, <2>0, SwapIs
  <2>5. /\ \A k \in D : a[k] = IF k = p.llt THEN it[p.leq] ELSE IF k = p.leq THEN it[p.llt] ELSE it[k]
        /\ a \in Rearranged(it, D)
    <3> HIDE DEF a, it
    <3> QED BY <2>7 DEF Swapped
  <2>6. a \in Rearranged(items, D)
    <3> HIDE DEF a, it
    <3>1. D \in SUBSET D /\ D \subseteq DOMAIN items
      BY DEF D
    <3> QED BY <1>1, <2>5, <3>1, RearrangedTwice
  <2>3. PartRight(a, n, pivot, "left", p.leq + 1, p.llt + 1, p.rgt, p.req)
    <3>1. \A k \in 0 .. p.leq : a[k].key = pivot
      <4> SUFFICES ASSUME NEW k \in 0 .. p.leq PROVE a[k].key = pivot
        OBVIOUS
      <4>1. k \in D
        BY <1>1, <2>0 DEF PartRight, D
      <4>2. CASE k = p.leq
        <5>1. a[k] = it[p.llt]
          BY <2>5, <4>1, <4>2
        <5> QED BY <1>7, <5>1
      <4>3. CASE k # p.leq
        <5>1. k \in 0 .. p.leq - 1 /\ k # p.llt
          BY <1>1, <4>3 DEF PartRight
        <5>2. a[k] = it[k]
          BY <2>5, <4>1, <4>3, <5>1
        <5> QED BY <1>1, <5>1, <5>2 DEF PartRight
      <4> QED BY <4>2, <4>3
    <3>2. \A k \in p.leq + 1 .. p.llt : a[k].key < pivot
      <4> SUFFICES ASSUME NEW k \in p.leq + 1 .. p.llt PROVE a[k].key < pivot
        OBVIOUS
      <4>1. k \in D /\ k # p.leq
        BY <1>1, <2>0 DEF PartRight, D
      <4>2. CASE k = p.llt
        <5>1. a[k] = it[p.leq]
          BY <2>5, <4>1, <4>2
        <5>2. p.leq \in p.leq .. p.llt - 1
          BY <1>1, <4>2
        <5> QED BY <1>1, <5>1, <5>2 DEF PartRight
      <4>3. CASE k # p.llt
        <5>1. a[k] = it[k]
          BY <2>5, <4>1, <4>3
        <5>2. k \in p.leq .. p.llt - 1
          BY <1>1, <4>3
        <5> QED BY <1>1, <5>1, <5>2 DEF PartRight
      <4> QED BY <4>2, <4>3
    <3>3. ASSUME NEW k \in p.rgt + 1 .. n - 1 PROVE a[k] = it[k]
      <4>1. k \in D /\ k # p.leq /\ k # p.llt
        BY <1>1, <1>7 DEF PartRight, D
      <4> QED BY <2>5, <4>1
    <3>4. \A k \in p.rgt + 1 .. p.req : k \in p.rgt + 1 .. n - 1
      BY <1>1 DEF PartRight
    <3>5. \A k \in p.req + 1 .. n - 1 : k \in p.rgt + 1 .. n - 1
      BY <1>1 DEF PartRight
    <3>6. \A k \in p.rgt + 1 .. p.req : a[k].key > pivot
      BY <1>1, <3>3, <3>4 DEF PartRight
    <3>7. \A k \in p.req + 1 .. n - 1 : a[k].key = pivot
      BY <1>1, <3>3, <3>5 DEF PartRight
    <3>8. /\ 1 <= p.leq + 1 /\ p.leq + 1 <= p.llt + 1 /\ p.llt + 1 <= p.rgt + 1
          /\ p.rgt <= p.req /\ p.req <= n - 1
          /\ (p.leq + 1) - 1 = p.leq /\ (p.llt + 1) - 1 = p.llt
      BY <1>1, <1>7 DEF PartRight
    <3> HIDE DEF a
    <3> QED BY <3>1, <3>2, <3>6, <3>7, <3>8 DEF PartRight
  <2> HIDE DEF y, it, a
  <2>2. y = [items |-> a, pivot |-> pivot, at |-> "left", leq |-> p.leq + 1, llt |-> p.llt + 1,
             rgt |-> p.rgt, req |-> p.req, maxLt |-> p.maxLt, minGt |-> p.minGt]
    <3>1. /\ DOMAIN y = {"items", "pivot", "at", "leq", "llt", "rgt", "req", "maxLt", "minGt"}
          /\ y.items = a /\ y.pivot = pivot /\ y.at = "left" /\ y.leq = p.leq + 1 /\ y.llt = p.llt + 1
          /\ y.rgt = p.rgt /\ y.req = p.req /\ y.maxLt = p.maxLt /\ y.minGt = p.minGt
      BY ONLY <1>1, <1>4, <2>1
    <3>2. y = [c \in DOMAIN y |-> y[c]]
      BY ONLY <2>1
    <3> QED BY ONLY <3>1, <3>2
  <2>4. y \in PartStates(items, n, pivot) /\ y.rgt = p.rgt /\ y.llt = p.llt + 1 /\ y.at = "left"
    <3>1. p.leq + 1 \in Int /\ p.llt + 1 \in Int
      BY <1>1
    <3> QED BY <1>1, <2>2, <2>3, <2>6, <3>1 DEF PartStates, D
  <2> QED BY <1>1, <1>4, <2>4 DEF ToScan, y
<1>8. CASE ~(p.llt > p.rgt) /\ ~(key > pivot) /\ key # pivot
  <2>0. p.llt \in D /\ key \in Int
    BY <1>1, <1>2, <1>8 DEF PartRight, D
  <2>1. y = [p EXCEPT !.maxLt = Greatest(p.maxLt, key), !.llt = p.llt + 1]
    BY <1>1, <1>8 DEF ScanLeft
  <2>9. Greatest(p.maxLt, key) \in Int
    BY <1>1, <2>0, LeastIs
  <2>3. PartRight(it, n, pivot, "left", p.leq, p.llt + 1, p.rgt, p.req)
    <3>1. \A k \in p.leq .. p.llt : it[k].key < pivot
      <4> SUFFICES ASSUME NEW k \in p.leq .. p.llt PROVE it[k].key < pivot
        OBVIOUS
      <4>1. CASE k = p.llt
        BY <1>8, <2>0, <4>1
      <4>2. CASE k # p.llt
        <5>1. k \in p.leq .. p.llt - 1
          BY <1>1, <4>2
        <5> QED BY <1>1, <5>1 DEF PartRight
      <4> QED BY <4>1, <4>2
    <3>2. p.llt + 1 <= p.rgt + 1 /\ p.leq <= p.llt + 1 /\ (p.llt + 1) - 1 = p.llt
      BY <1>1, <1>8 DEF PartRight
    <3> HIDE DEF it
    <3> QED BY <1>1, <3>1, <3>2 DEF PartRight
  <2> DEFINE lt == Greatest(p.maxLt, key)
  <2> HIDE DEF y, it, lt
  <2>2. y = [items |-> p.items, pivot |-> pivot, at |-> "left", leq |-> p.leq, llt |-> p.llt + 1,
             rgt |-> p.rgt, req |-> p.req, maxLt |-> lt, minGt |-> p.minGt]
    <3>1. /\ DOMAIN y = {"items", "pivot", "at", "leq", "llt", "rgt", "req", "maxLt", "minGt"}
          /\ y.items = p.items /\ y.pivot = pivot /\ y.at = "left" /\ y.leq = p.leq /\ y.llt = p.llt + 1
          /\ y.rgt = p.rgt /\ y.req = p.req /\ y.maxLt = lt /\ y.minGt = p.minGt
      BY ONLY <1>1, <1>4, <2>1 DEF lt
    <3>2. y = [c \in DOMAIN y |-> y[c]]
      BY ONLY <2>1
    <3> QED BY ONLY <3>1, <3>2
  <2>4. y \in PartStates(items, n, pivot) /\ y.rgt = p.rgt /\ y.llt = p.llt + 1 /\ y.at = "left"
    <3>1. lt \in Int /\ p.llt + 1 \in Int
      BY <1>1, <2>9 DEF lt
    <3> QED BY <1>1, <2>2, <2>3, <3>1 DEF it, PartStates, D
  <2> QED BY <1>1, <1>4, <2>4 DEF ToScan, y
<1> QED BY <1>5, <1>6, <1>7, <1>8

LEMMA ScanRightRight ==
  ASSUME NEW n \in Nat, NEW items, DOMAIN items = 0 .. n - 1, items = [k \in 0 .. n - 1 |-> items[k]],
         \A k \in 0 .. n - 1 : items[k].key \in Int, NEW pivot \in Int,
         NEW p \in PartStates(items, n, pivot), p.at = "right"
  PROVE  ScanRight(p) \in PartStates(items, n, pivot) /\ ToScan(ScanRight(p)) < ToScan(p)
<1> DEFINE D == 0 .. n - 1
           it == p.items
           y == ScanRight(p)
           key == it[p.rgt].key
<1>1. /\ p = [items |-> p.items, pivot |-> p.pivot, at |-> p.at, leq |-> p.leq, llt |-> p.llt,
              rgt |-> p.rgt, req |-> p.req, maxLt |-> p.maxLt, minGt |-> p.minGt]
      /\ it \in Rearranged(items, D) /\ p.pivot = pivot /\ p.leq \in Int /\ p.llt \in Int
      /\ p.rgt \in Int /\ p.req \in Int /\ p.maxLt \in Int /\ p.minGt \in Int
      /\ PartRight(it, n, pivot, "right", p.leq, p.llt, p.rgt, p.req)
  BY DEF PartStates
<1>2. DOMAIN it = D /\ it = [k \in D |-> it[k]] /\ \A k \in D : it[k].key \in Int
  <2> HIDE DEF it, D
  <2>1. it \in [D -> {items[k] : k \in D}]
    BY <1>1 DEF Rearranged, D
  <2>2. \A k \in D : it[k] \in {items[l] : l \in D}
    BY <2>1
  <2>3. \A l \in D : items[l].key \in Int
    BY DEF D
  <2> QED BY <2>1, <2>2, <2>3
<1>4. p.at = "right"
  OBVIOUS
<1> HIDE DEF D
<1>5. CASE p.llt > p.rgt
  <2>1. y = [p EXCEPT !.at = "done"]
    BY <1>5 DEF ScanRight
  <2> HIDE DEF y, it
  <2>2. y = [items |-> p.items, pivot |-> pivot, at |-> "done", leq |-> p.leq, llt |-> p.llt,
             rgt |-> p.rgt, req |-> p.req, maxLt |-> p.maxLt, minGt |-> p.minGt]
    <3>1. /\ DOMAIN y = {"items", "pivot", "at", "leq", "llt", "rgt", "req", "maxLt", "minGt"}
          /\ y.items = p.items /\ y.pivot = pivot /\ y.at = "done" /\ y.leq = p.leq /\ y.llt = p.llt
          /\ y.rgt = p.rgt /\ y.req = p.req /\ y.maxLt = p.maxLt /\ y.minGt = p.minGt
      BY ONLY <1>1, <1>4, <2>1
    <3>2. y = [c \in DOMAIN y |-> y[c]]
      BY ONLY <2>1
    <3> QED BY ONLY <3>1, <3>2
  <2>3. PartRight(it, n, pivot, "done", p.leq, p.llt, p.rgt, p.req)
    BY <1>1, <1>5 DEF PartRight
  <2>4. y \in PartStates(items, n, pivot) /\ y.rgt = p.rgt /\ y.llt = p.llt /\ y.at = "done"
    <3>1. p.llt + 1 \in Int /\ p.rgt - 1 \in Int /\ p.req - 1 \in Int
      BY <1>1
    <3> QED BY <1>1, <2>2, <2>3, <3>1 DEF it, PartStates, D
  <2> QED BY <1>1, <1>4, <2>4 DEF ToScan, y
<1>6. CASE ~(p.llt > p.rgt) /\ key < pivot
  <2>0. p.rgt \in D /\ key \in Int
    BY <1>1, <1>2, <1>6 DEF PartRight, D
  <2>1. y = [p EXCEPT !.at = "swap", !.maxLt = Greatest(p.maxLt, key)]
    BY <1>1, <1>6 DEF ScanRight
  <2>9. Greatest(p.maxLt, key) \in Int
    BY <1>1, <2>0, LeastIs
  <2> DEFINE lt == Greatest(p.maxLt, key)
  <2>3. PartRight(it, n, pivot, "swap", p.leq, p.llt, p.rgt, p.req)
    <3>1. it[p.llt].key > pivot
      BY <1>1, <1>6 DEF PartRight
    <3>2. p.llt # p.rgt
      BY <1>6, <2>0, <3>1
    <3>3. p.llt < p.rgt
      BY <1>1, <1>6, <3>2
    <3> HIDE DEF y
    <3> QED BY <1>1, <1>6, <3>1, <3>3 DEF PartRight
  <2> HIDE DEF y, it, lt
  <2>2. y = [items |-> p.items, pivot |-> pivot, at |-> "swap", leq |-> p.leq, llt |-> p.llt,
             rgt |-> p.rgt, req |-> p.req, maxLt |-> lt, minGt |-> p.minGt]
    <3>1. /\ DOMAIN y = {"items", "pivot", "at", "leq", "llt", "rgt", "req", "maxLt", "minGt"}
          /\ y.items = p.items /\ y.pivot = pivot /\ y.at = "swap" /\ y.leq = p.leq /\ y.llt = p.llt
          /\ y.rgt = p.rgt /\ y.req = p.req /\ y.maxLt = lt /\ y.minGt = p.minGt
      BY ONLY <1>1, <1>4, <2>1 DEF lt
    <3>2. y = [c \in DOMAIN y |-> y[c]]
      BY ONLY <2>1
    <3> QED BY ONLY <3>1, <3>2
  <2>10. lt \in Int
    BY <2>9 DEF lt
  <2>4. y \in PartStates(items, n, pivot) /\ y.rgt = p.rgt /\ y.llt = p.llt /\ y.at = "swap"
    <3>1. p.llt + 1 \in Int /\ p.rgt - 1 \in Int /\ p.req - 1 \in Int
      BY <1>1
    <3> QED BY <1>1, <2>2, <2>3, <3>1, <2>10 DEF it, PartStates, D
  <2> QED BY <1>1, <1>4, <2>4 DEF ToScan, y
<1>7. CASE ~(p.llt > p.rgt) /\ key = pivot
  <2> DEFINE a == Swap(it, p.req, p.rgt)
  <2>0. p.rgt \in D /\ p.req \in D /\ p.llt \in D
    BY <1>1, <1>7 DEF PartRight, D
  <2>1. y = [p EXCEPT !.items = a, !.req = p.req - 1, !.rgt = p.rgt - 1]
    BY <1>1, <1>7 DEF ScanRight
  <2>7. Swapped(a, it, D, p.req, p.rgt)
    <3> HIDE DEF it
    <3> QED BY <1>2, <2>0, SwapIs
  <2>5. /\ \A k \in D : a[k] = IF k = p.rgt THEN it[p.req] ELSE IF k = p.req THEN it[p.rgt] ELSE it[k]
        /\ a \in Rearranged(it, D)
    <3> HIDE DEF a, it
    <3> QED BY <2>7 DEF Swapped
  <2>6. a \in Rearranged(items, D)
    <3> HIDE DEF a, it
    <3>1. D \in SUBSET D /\ D \subseteq DOMAIN items
      BY DEF D
    <3> QED BY <1>1, <2>5, <3>1, RearrangedTwice
  <2>3. PartRight(a, n, pivot, "right", p.leq, p.llt, p.rgt - 1, p.req - 1)
    <3>0. it[p.llt].key > pivot /\ p.llt # p.rgt /\ p.llt < p.rgt
      <4>1. it[p.llt].key > pivot
        BY <1>1, <1>7 DEF PartRight
      <4>2. p.llt # p.rgt
        BY <1>2, <1>7, <2>0, <4>1
      <4> QED BY <1>1, <1>7, <4>1, <4>2
    <3>1. \A k \in p.req .. n - 1 : a[k].key = pivot
      <4> SUFFICES ASSUME NEW k \in p.req .. n - 1 PROVE a[k].key = pivot
        OBVIOUS
      <4>1. k \in D
        BY <1>1, <2>0 DEF PartRight, D
      <4>2. CASE k = p.req
        <5>1. a[k] = it[p.rgt]
          BY <2>5, <4>1, <4>2
        <5> QED BY <1>7, <5>1
      <4>3. CASE k # p.req
        <5>1. k \in p.req + 1 .. n - 1 /\ k # p.rgt
          BY <1>1, <4>3 DEF PartRight
        <5>2. a[k] = it[k]
          BY <2>5, <4>1, <4>3, <5>1
        <5> QED BY <1>1, <5>1, <5>2 DEF PartRight
      <4> QED BY <4>2, <4>3
    <3>2. \A k \in p.rgt .. p.req - 1 : a[k].key > pivot
      <4> SUFFICES ASSUME NEW k \in p.rgt .. p.req - 1 PROVE a[k].key > pivot
        OBVIOUS
      <4>1. k \in D /\ k # p.req
        BY <1>1, <2>0 DEF PartRight, D
      <4>2. CASE k = p.rgt
        <5>1. a[k] = it[p.req]
          BY <2>5, <4>1, <4>2
        <5>2. p.req \in p.rgt + 1 .. p.req
          BY <1>1, <4>2
        <5> QED BY <1>1, <5>1, <5>2 DEF PartRight
      <4>3. CASE k # p.rgt
        <5>1. a[k] = it[k]
          BY <2>5, <4>1, <4>3
        <5>2. k \in p.rgt + 1 .. p.req
          BY <1>1, <4>3
        <5> QED BY <1>1, <5>1, <5>2 DEF PartRight
      <4> QED BY <4>2, <4>3
    <3>3. ASSUME NEW k \in 0 .. p.llt PROVE a[k] = it[k]
      <4>1. k \in D /\ k # p.req /\ k # p.rgt
        BY <1>1, <2>0, <3>0 DEF PartRight, D
      <4> QED BY <2>5, <4>1
    <3>4. /\ \A k \in 0 .. p.leq - 1 : k \in 0 .. p.llt
          /\ \A k \in p.leq .. p.llt - 1 : k \in 0 .. p.llt
          /\ p.llt \in 0 .. p.llt
      BY <1>1 DEF PartRight
    <3>5. \A k \in 0 .. p.leq - 1 : a[k].key = pivot
      BY <1>1, <3>3, <3>4 DEF PartRight
    <3>6. \A k \in p.leq .. p.llt - 1 : a[k].key < pivot
      BY <1>1, <3>3, <3>4 DEF PartRight
    <3>7. a[p.llt].key > pivot
      BY <3>0, <3>3, <3>4
    <3>8. /\ 1 <= p.leq /\ p.leq <= p.llt /\ p.llt <= (p.rgt - 1) + 1
          /\ p.rgt - 1 <= p.req - 1 /\ p.req - 1 <= n - 1
          /\ (p.req - 1) + 1 = p.req /\ (p.rgt - 1) + 1 = p.rgt
      BY <1>1, <3>0 DEF PartRight
    <3> HIDE DEF a
    <3> QED BY <3>1, <3>2, <3>5, <3>6, <3>7, <3>8 DEF PartRight
  <2> HIDE DEF y, it, a
  <2>2. y = [items |-> a, pivot |-> pivot, at |-> "right", leq |-> p.leq, llt |-> p.llt,
             rgt |-> p.rgt - 1, req |-> p.req - 1, maxLt |-> p.maxLt, minGt |-> p.minGt]
    <3>1. /\ DOMAIN y = {"items", "pivot", "at", "leq", "llt", "rgt", "req", "maxLt", "minGt"}
          /\ y.items = a /\ y.pivot = pivot /\ y.at = "right" /\ y.leq = p.leq /\ y.llt = p.llt
          /\ y.rgt = p.rgt - 1 /\ y.req = p.req - 1 /\ y.maxLt = p.maxLt /\ y.minGt = p.minGt
      BY ONLY <1>1, <1>4, <2>1
    <3>2. y = [c \in DOMAIN y |-> y[c]]
      BY ONLY <2>1
    <3> QED BY ONLY <3>1, <3>2
  <2>4. y \in PartStates(items, n, pivot) /\ y.rgt = p.rgt - 1 /\ y.llt = p.llt /\ y.at = "right"
    <3>1. p.llt + 1 \in Int /\ p.rgt - 1 \in Int /\ p.req - 1 \in Int
      BY <1>1
    <3> QED BY <1>1, <2>2, <2>3, <3>1, <2>6 DEF PartStates, D
  <2> QED BY <1>1, <1>4, <2>4 DEF ToScan, y
<1>8. CASE ~(p.llt > p.rgt) /\ ~(key < pivot) /\ key # pivot
  <2>0. p.rgt \in D /\ key \in Int
    BY <1>1, <1>2, <1>8 DEF PartRight, D
  <2>1. y = [p EXCEPT !.minGt = Least(p.minGt, key), !.rgt = p.rgt - 1]
    BY <1>1, <1>8 DEF ScanRight
  <2>9. Least(p.minGt, key) \in Int
    BY <1>1, <2>0, LeastIs
  <2>3. PartRight(it, n, pivot, "right", p.leq, p.llt, p.rgt - 1, p.req)
    <3>1. \A k \in p.rgt .. p.req : it[k].key > pivot
      <4> SUFFICES ASSUME NEW k \in p.rgt .. p.req PROVE it[k].key > pivot
        OBVIOUS
      <4>1. CASE k = p.rgt
        BY <1>8, <2>0, <4>1
      <4>2. CASE k # p.rgt
        <5>1. k \in p.rgt + 1 .. p.req
          BY <1>1, <4>2
        <5> QED BY <1>1, <5>1 DEF PartRight
      <4> QED BY <4>1, <4>2
    <3>2. /\ p.llt <= (p.rgt - 1) + 1 /\ p.rgt - 1 <= p.req /\ (p.rgt - 1) + 1 = p.rgt
          /\ p.llt <= p.rgt - 1 => p.llt <= p.rgt
      BY <1>1, <1>8 DEF PartRight
    <3> HIDE DEF it
    <3> QED BY <1>1, <3>1, <3>2 DEF PartRight
  <2> DEFINE gt == Least(p.minGt, key)
  <2> HIDE DEF y, it, gt
  <2>2. y = [items |-> p.items, pivot |-> pivot, at |-> "right", leq |-> p.leq, llt |-> p.llt,
             rgt |-> p.rgt - 1, req |-> p.req, maxLt |-> p.maxLt, minGt |-> gt]
    <3>1. /\ DOMAIN y = {"items", "pivot", "at", "leq", "llt", "rgt", "req", "maxLt", "minGt"}
          /\ y.items = p.items /\ y.pivot = pivot /\ y.at = "right" /\ y.leq = p.leq /\ y.llt = p.llt
          /\ y.rgt = p.rgt - 1 /\ y.req = p.req /\ y.maxLt = p.maxLt /\ y.minGt = gt
      BY ONLY <1>1, <1>4, <2>1 DEF gt
    <3>2. y = [c \in DOMAIN y |-> y[c]]
      BY ONLY <2>1
    <3> QED BY ONLY <3>1, <3>2
  <2>10. gt \in Int
    BY <2>9 DEF gt
  <2>4. y \in PartStates(items, n, pivot) /\ y.rgt = p.rgt - 1 /\ y.llt = p.llt /\ y.at = "right"
    <3>1. p.llt + 1 \in Int /\ p.rgt - 1 \in Int /\ p.req - 1 \in Int
      BY <1>1
    <3> QED BY <1>1, <2>2, <2>3, <3>1, <2>10 DEF it, PartStates, D
  <2> QED BY <1>1, <1>4, <2>4 DEF ToScan, y
<1> QED BY <1>5, <1>6, <1>7, <1>8

LEMMA SwapBothRight ==
  ASSUME NEW n \in Nat, NEW items, DOMAIN items = 0 .. n - 1, items = [k \in 0 .. n - 1 |-> items[k]],
         \A k \in 0 .. n - 1 : items[k].key \in Int, NEW pivot \in Int,
         NEW p \in PartStates(items, n, pivot), p.at = "swap"
  PROVE  SwapBoth(p) \in PartStates(items, n, pivot) /\ ToScan(SwapBoth(p)) < ToScan(p)
<1> DEFINE D == 0 .. n - 1
           it == p.items
           y == SwapBoth(p)
<1>1. /\ p = [items |-> p.items, pivot |-> p.pivot, at |-> p.at, leq |-> p.leq, llt |-> p.llt,
              rgt |-> p.rgt, req |-> p.req, maxLt |-> p.maxLt, minGt |-> p.minGt]
      /\ it \in Rearranged(items, D) /\ p.pivot = pivot /\ p.leq \in Int /\ p.llt \in Int
      /\ p.rgt \in Int /\ p.req \in Int /\ p.maxLt \in Int /\ p.minGt \in Int
      /\ PartRight(it, n, pivot, "swap", p.leq, p.llt, p.rgt, p.req)
  BY DEF PartStates
<1>2. DOMAIN it = D /\ it = [k \in D |-> it[k]] /\ \A k \in D : it[k].key \in Int
  <2> HIDE DEF it, D
  <2>1. it \in [D -> {items[k] : k \in D}]
    BY <1>1 DEF Rearranged, D
  <2>2. \A k \in D : it[k] \in {items[l] : l \in D}
    BY <2>1
  <2>3. \A l \in D : items[l].key \in Int
    BY DEF D
  <2> QED BY <2>1, <2>2, <2>3
<1>4. p.at = "swap"
  OBVIOUS
<1> HIDE DEF D
<1>5. y \in PartStates(items, n, pivot) /\ ToScan(y) < ToScan(p)
  <2> DEFINE a == Swap(it, p.llt, p.rgt)
  <2>0. p.rgt \in D /\ p.llt \in D /\ p.llt < p.rgt
    BY <1>1 DEF PartRight, D
  <2>1. y = [p EXCEPT !.items = a, !.llt = p.llt + 1, !.rgt = p.rgt - 1, !.at = "left"]
    BY <1>1 DEF SwapBoth
  <2>7. Swapped(a, it, D, p.llt, p.rgt)
    <3> HIDE DEF it
    <3> QED BY <1>2, <2>0, SwapIs
  <2>5. /\ \A k \in D : a[k] = IF k = p.rgt THEN it[p.llt] ELSE IF k = p.llt THEN it[p.rgt] ELSE it[k]
        /\ a \in Rearranged(it, D)
    <3> HIDE DEF a, it
    <3> QED BY <2>7 DEF Swapped
  <2>6. a \in Rearranged(items, D)
    <3> HIDE DEF a, it
    <3>1. D \in SUBSET D /\ D \subseteq DOMAIN items
      BY DEF D
    <3> QED BY <1>1, <2>5, <3>1, RearrangedTwice
  <2>3. PartRight(a, n, pivot, "left", p.leq, p.llt + 1, p.rgt - 1, p.req)
    <3>0. it[p.llt].key > pivot /\ it[p.rgt].key < pivot
      BY <1>1, <2>0 DEF PartRight
    <3>1. \A k \in p.leq .. p.llt : a[k].key < pivot
      <4> SUFFICES ASSUME NEW k \in p.leq .. p.llt PROVE a[k].key < pivot
        OBVIOUS
      <4>1. k \in D /\ k # p.rgt
        BY <1>1, <2>0 DEF PartRight, D
      <4>2. CASE k = p.llt
        <5>1. a[k] = it[p.rgt]
          BY <2>5, <4>1, <4>2
        <5> QED BY <3>0, <5>1
      <4>3. CASE k # p.llt
        <5>1. a[k] = it[k] /\ k \in p.leq .. p.llt - 1
          BY <1>1, <2>5, <4>1, <4>3
        <5> QED BY <1>1, <5>1 DEF PartRight
      <4> QED BY <4>2, <4>3
    <3>2. \A k \in p.rgt .. p.req : a[k].key > pivot
      <4> SUFFICES ASSUME NEW k \in p.rgt .. p.req PROVE a[k].key > pivot
        OBVIOUS
      <4>1. k \in D /\ k # p.llt
        BY <1>1, <2>0 DEF PartRight, D
      <4>2. CASE k = p.rgt
        <5>1. a[k] = it[p.llt]
          BY <2>5, <4>1, <4>2
        <5> QED BY <3>0, <5>1
      <4>3. CASE k # p.rgt
        <5>1. a[k] = it[k] /\ k \in p.rgt + 1 .. p.req
          BY <1>1, <2>5, <4>1, <4>3
        <5> QED BY <1>1, <5>1 DEF PartRight
      <4> QED BY <4>2, <4>3
    <3>3. ASSUME NEW k \in D, k < p.llt \/ k > p.rgt PROVE a[k] = it[k]
      <4>1. k # p.llt /\ k # p.rgt
        BY <1>1, <2>0, <3>3 DEF D
      <4> QED BY <2>5, <4>1
    <3>4. /\ \A k \in 0 .. p.leq - 1 : k \in D /\ k < p.llt
          /\ \A k \in p.req + 1 .. n - 1 : k \in D /\ k > p.rgt
      BY <1>1 DEF PartRight, D
    <3>5. \A k \in 0 .. p.leq - 1 : a[k].key = pivot
      BY <1>1, <3>3, <3>4 DEF PartRight
    <3>6. \A k \in p.req + 1 .. n - 1 : a[k].key = pivot
      BY <1>1, <3>3, <3>4 DEF PartRight
    <3>8. /\ 1 <= p.leq /\ p.leq <= p.llt + 1 /\ p.llt + 1 <= (p.rgt - 1) + 1
          /\ p.rgt - 1 <= p.req /\ p.req <= n - 1
          /\ (p.llt + 1) - 1 = p.llt /\ (p.rgt - 1) + 1 = p.rgt
      BY <1>1, <2>0 DEF PartRight
    <3> HIDE DEF a
    <3> QED BY <3>1, <3>2, <3>5, <3>6, <3>8 DEF PartRight
  <2> HIDE DEF y, it, a
  <2>2. y = [items |-> a, pivot |-> pivot, at |-> "left", leq |-> p.leq, llt |-> p.llt + 1,
             rgt |-> p.rgt - 1, req |-> p.req, maxLt |-> p.maxLt, minGt |-> p.minGt]
    <3>1. /\ DOMAIN y = {"items", "pivot", "at", "leq", "llt", "rgt", "req", "maxLt", "minGt"}
          /\ y.items = a /\ y.pivot = pivot /\ y.at = "left" /\ y.leq = p.leq /\ y.llt = p.llt + 1
          /\ y.rgt = p.rgt - 1 /\ y.req = p.req /\ y.maxLt = p.maxLt /\ y.minGt = p.minGt
      BY ONLY <1>1, <1>4, <2>1
    <3>2. y = [c \in DOMAIN y |-> y[c]]
      BY ONLY <2>1
    <3> QED BY ONLY <3>1, <3>2
  <2>4. y \in PartStates(items, n, pivot) /\ y.rgt = p.rgt - 1 /\ y.llt = p.llt + 1 /\ y.at = "left"
    <3>1. p.llt + 1 \in Int /\ p.rgt - 1 \in Int /\ p.req - 1 \in Int
      BY <1>1
    <3> QED BY <1>1, <2>2, <2>3, <3>1, <2>6 DEF PartStates, D
  <2>8. p.llt \in Int /\ p.rgt \in Int
    BY <1>1
  <2>9. ToScan(p) = 3 * (p.rgt - p.llt + 1) + 0
    BY ONLY <1>4 DEF ToScan
  <2>10. ToScan(y) = 3 * (y.rgt - y.llt + 1) + 2
    BY ONLY <2>4 DEF ToScan
  <2>11. ToScan(y) < ToScan(p)
    BY ONLY <2>4, <2>8, <2>9, <2>10
  <2> QED BY ONLY <2>4, <2>11
<1> QED BY <1>5

LEMMA ScanStepRight ==
  ASSUME NEW n \in Nat, NEW items, DOMAIN items = 0 .. n - 1, items = [k \in 0 .. n - 1 |-> items[k]],
         \A k \in 0 .. n - 1 : items[k].key \in Int, NEW pivot \in Int,
         NEW p \in PartStates(items, n, pivot)
  PROVE  /\ ScanStep(p) \in PartStates(items, n, pivot)
         /\ p.at # "done" => ToScan(ScanStep(p)) < ToScan(p)
         /\ p.at = "done" => ScanStep(p) = p
         /\ ToScan(p) \in Nat
<1>1. /\ p.at \in {"left", "right", "swap", "done"} /\ p.llt \in Int /\ p.rgt \in Int
      /\ p.llt <= p.rgt + 1
  BY DEF PartStates, PartRight
<1>2. p.at = "left" => ScanStep(p) = ScanLeft(p)
  BY DEF ScanStep
<1>3. p.at = "right" => ScanStep(p) = ScanRight(p)
  BY DEF ScanStep
<1>4. p.at = "swap" => ScanStep(p) = SwapBoth(p)
  BY DEF ScanStep
<1>5. p.at = "done" => ScanStep(p) = p
  BY DEF ScanStep
<1>6. ToScan(p) \in Nat
  BY <1>1 DEF ToScan
<1>7. CASE p.at = "left"
  BY <1>2, <1>6, <1>7, ScanLeftRight
<1>8. CASE p.at = "right"
  BY <1>3, <1>6, <1>8, ScanRightRight
<1>9. CASE p.at = "swap"
  BY <1>4, <1>6, <1>9, SwapBothRight
<1>10. CASE p.at = "done"
  BY <1>5, <1>6, <1>10
<1> QED BY <1>1, <1>7, <1>8, <1>9, <1>10

LEMMA Med3Is ==
  ASSUME NEW a, NEW i, NEW j, NEW k, a[i] \in Int, a[j] \in Int, a[k] \in Int
  PROVE  Med3(a, i, j, k) \in {i, j, k}
<1>1. CASE a[i] = a[j] \/ a[k] \in {a[i], a[j]}
  BY <1>1 DEF Med3
<1>2. CASE ~(a[i] = a[j] \/ a[k] \in {a[i], a[j]})
  <2>1. \E x \in {i, j, k} : \E y, z \in {i, j, k} : a[y] < a[x] /\ a[x] < a[z]
    BY <1>2
  <2>2. Med3(a, i, j, k)
          = CHOOSE x \in {i, j, k} : \E y, z \in {i, j, k} : a[y] < a[x] /\ a[x] < a[z]
    BY <1>2 DEF Med3
  <2> QED BY <2>1, <2>2
<1> QED BY <1>1, <1>2

LEMMA PivotAtIs ==
  ASSUME NEW n \in Nat, n > 2, NEW keys, \A k \in 0 .. n - 1 : keys[k] \in Int
  PROVE  PivotAt(keys, n) \in 0 .. n - 1
<1> DEFINE D == 0 .. n - 1
<1>1. \A i, j, k \in D : Med3(keys, i, j, k) \in D
  <2> HIDE DEF D
  <2> SUFFICES ASSUME NEW i \in D, NEW j \in D, NEW k \in D PROVE Med3(keys, i, j, k) \in D
    OBVIOUS
  <2>1. keys[i] \in Int /\ keys[j] \in Int /\ keys[k] \in Int
    BY DEF D
  <2>2. Med3(keys, i, j, k) \in {i, j, k}
    BY <2>1, Med3Is
  <2> QED BY <2>2
<1>2. /\ 0 \in D /\ n \div 8 \in D /\ n \div 4 \in D
      /\ n \div 2 - n \div 8 \in D /\ n \div 2 \in D /\ n \div 2 + n \div 8 \in D
      /\ n - 1 - n \div 4 \in D /\ n - 1 - n \div 8 \in D /\ n - 3 \in D
  OBVIOUS
<1> HIDE DEF D
<1>3. PivotAt(keys, n) \in D
  BY <1>1, <1>2 DEF PivotAt
<1> QED BY <1>3 DEF D

LEMMA ScanStartRight ==
  ASSUME NEW n \in Nat, n > 2, NEW items, DOMAIN items = 0 .. n - 1,
         items = [k \in 0 .. n - 1 |-> items[k]], \A k \in 0 .. n - 1 : items[k].key \in Int
  PROVE  \E k \in 0 .. n - 1 :
           /\ ScanStart(items, n) \in PartStates(items, n, items[k].key)
           /\ ToScan(ScanStart(items, n)) = 3 * n - 1
<1> DEFINE D == 0 .. n - 1
           keys == [k \in DOMAIN items |-> items[k].key]
           m == PivotAt(keys, n)
           it == Swap(items, 0, m)
           y == ScanStart(items, n)
<1>1. m \in D
  <2>1. \A k \in 0 .. n - 1 : keys[k] \in Int
    OBVIOUS
  <2> HIDE DEF keys
  <2> QED BY <2>1, PivotAtIs
<1> HIDE DEF m
<1>2. Swapped(it, items, D, 0, m)
  <2>1. 0 \in D /\ DOMAIN items = D
    OBVIOUS
  <2> HIDE DEF D
  <2> QED BY <1>1, <2>1, SwapIs
<1>3. it \in Rearranged(items, D) /\ it[0] = items[m]
  <2>1. 0 \in D
    OBVIOUS
  <2> HIDE DEF it, D
  <2> QED BY <1>2, <2>1 DEF Swapped
<1>4. y = [items |-> it, pivot |-> it[0].key, at |-> "left",
           leq |-> 1, llt |-> 1, rgt |-> n - 1, req |-> n - 1,
           maxLt |-> 0, minGt |-> NumChars ^ KeyWidth - 1]
  BY DEF ScanStart, m
<1>5. NumChars ^ KeyWidth - 1 \in Int
  <2>1. KeyWidth \in 0 .. KeyWidth
    BY KeyAssumption
  <2>2. NumChars ^ KeyWidth \in Nat
    BY <2>1, Powers
  <2> QED BY <2>2
<1>6. it[0].key = items[m].key
  BY <1>3
<1>7. PartRight(it, n, items[m].key, "left", 1, 1, n - 1, n - 1)
  <2>1. \A k \in 0 .. 1 - 1 : it[k].key = items[m].key
    BY <1>6
  <2> HIDE DEF it
  <2> QED BY <2>1 DEF PartRight
<1>8. y \in PartStates(items, n, items[m].key)
  <2> HIDE DEF y, it
  <2>1. /\ y.items = it /\ y.pivot = items[m].key /\ y.at = "left" /\ y.leq = 1 /\ y.llt = 1
        /\ y.rgt = n - 1 /\ y.req = n - 1
    BY <1>4, <1>6
  <2>2. y \in [items : Rearranged(items, 0 .. n - 1), pivot : {items[m].key},
               at : {"left", "right", "swap", "done"}, leq : Int, llt : Int, rgt : Int, req : Int,
               maxLt : Int, minGt : Int]
    BY <1>3, <1>4, <1>5, <1>6
  <2> QED BY <1>7, <2>1, <2>2 DEF PartStates
<1>9. ToScan(y) = 3 * n - 1
  <2>1. y.rgt = n - 1 /\ y.llt = 1 /\ y.at = "left"
    BY <1>4
  <2> HIDE DEF y
  <2> QED BY <2>1 DEF ToScan
<1> HIDE DEF y
<1> QED BY <1>1, <1>8, <1>9 DEF y

LEMMA ScannedRight ==
  ASSUME NEW size \in Nat, size > 2, NEW items, DOMAIN items = 0 .. size - 1,
         items = [k \in 0 .. size - 1 |-> items[k]], \A k \in 0 .. size - 1 : items[k].key \in Int
  PROVE  \E k \in 0 .. size - 1 :
           /\ Scanned(items, size) \in PartStates(items, size, items[k].key)
           /\ Scanned(items, size).at = "done"
<1>0. PICK m \in 0 .. size - 1 :
        /\ ScanStart(items, size) \in PartStates(items, size, items[m].key)
        /\ ToScan(ScanStart(items, size)) = 3 * size - 1
  BY ScanStartRight
<1> DEFINE n == 3 * size + 3
           base == ScanStart(items, size)
           T == PartStates(items, size, items[m].key)
           P == 1 .. n
           scan(x, i) == ScanStep(x)
           seq == [k \in 1 .. n |-> k]
           step == [k \in 1 .. n |-> [t \in T |-> scan(t, seq[k])]]
           iter == CHOOSE g : g = [U \in SUBSET (1 .. n) |->
                     IF U = {} THEN base ELSE scan(g[U \ {Max(U)}], seq[Max(U)])]
<1>1. Scanned(items, size) = iter[1 .. n]
  BY DEF Scanned, FoldLeft, MapThenFoldSet
<1>2. n \in Nat
  OBVIOUS
<1>3. \A t \in T : /\ scan(t, 1) \in T
                   /\ t.at # "done" => ToScan(scan(t, 1)) < ToScan(t)
                   /\ t.at = "done" => scan(t, 1) = t
                   /\ ToScan(t) \in Nat
  BY ScanStepRight
<1>4. base \in T
  BY <1>0
<1>5. \A t \in T, j \in P : scan(t, j) \in T
  BY <1>3
<1>6. \A k \in 1 .. n : seq[k] \in P
  OBVIOUS
<1>16. ToScan(base) = 3 * size - 1
  BY <1>0
<1>17. \A t \in T, j \in P : scan(t, j) = scan(t, 1)
  OBVIOUS
<1> HIDE DEF base
<1>7. /\ \A k \in 1 .. n, t \in T : step[k][t] = scan(t, seq[k])
      /\ \A k \in 1 .. n, t \in T : step[k][t] \in T
  <2> HIDE DEF scan, T, seq, P
  <2>1. \A k \in 1 .. n, t \in T : step[k][t] = scan(t, seq[k])
    OBVIOUS
  <2>2. \A k \in 1 .. n, t \in T : scan(t, seq[k]) \in T
    BY <1>5, <1>6
  <2> QED BY <2>1, <2>2
<1> HIDE DEF step
<1>8. PICK h \in [SUBSET (1 .. n) -> T] : FoldingLeft(h, n, base, step)
  <2>1. n \in Nat
    BY <1>2
  <2>2. \A k \in 1 .. n, t \in T : step[k][t] \in T
    BY <1>7
  <2> HIDE DEF T, scan, seq
  <2> QED BY ONLY <2>1, <1>4, <2>2, FoldLeftExists
<1>9. \A U \in SUBSET (1 .. n) : U # {} => Max(U) \in 1 .. n
  <2> SUFFICES ASSUME NEW U \in SUBSET (1 .. n), U # {} PROVE Max(U) \in 1 .. n
    OBVIOUS
  <2>1. IsFiniteSet(1 .. n)
    <3>1. n \in Int
      BY <1>2
    <3> QED BY ONLY <3>1, FS_Interval
  <2>2. IsFiniteSet(U)
    BY <2>1, FS_Subset
  <2>3. U \in SUBSET Int
    OBVIOUS
  <2> QED BY <2>2, <2>3, MaxIs
<1> HIDE DEF scan, seq, T
<1>10. h = [U \in SUBSET (1 .. n) |-> IF U = {} THEN base ELSE scan(h[U \ {Max(U)}], seq[Max(U)])]
  <2>1. ASSUME NEW U \in SUBSET (1 .. n), U # {}
        PROVE  h[U] = scan(h[U \ {Max(U)}], seq[Max(U)])
    <3>1. h[U \ {Max(U)}] \in T
      BY <1>8
    <3> QED BY <1>7, <1>8, <1>9, <2>1, <3>1 DEF FoldingLeft
  <2> QED BY <1>8, <2>1 DEF FoldingLeft
<1>11. iter = [U \in SUBSET (1 .. n) |-> IF U = {} THEN base ELSE scan(iter[U \ {Max(U)}], seq[Max(U)])]
  BY <1>10
<1> HIDE DEF iter
<1>12. PICK r \in [0 .. n -> T] : OneByOne(r, n, base, step, iter[1 .. n])
  <2>1. iter[{}] = base
    BY <1>11
  <2>2. ASSUME NEW U \in SUBSET (1 .. n), U # {}, iter[U \ {Max(U)}] \in T
        PROVE  iter[U] = step[Max(U)][iter[U \ {Max(U)}]]
    BY <1>7, <1>9, <1>11, <2>2
  <2>3. n \in Nat
    BY <1>2
  <2>4. \A k \in 1 .. n, t \in T : step[k][t] \in T
    BY <1>7
  <2>5. \A U \in SUBSET (1 .. n) : U # {} /\ iter[U \ {Max(U)}] \in T =>
          iter[U] = step[Max(U)][iter[U \ {Max(U)}]]
    BY <2>2
  <2> HIDE DEF n
  <2> QED BY ONLY <1>4, <2>1, <2>3, <2>4, <2>5, FoldLeftRuns
<1>13. iter[1 .. n] \in T /\ r[n] = iter[1 .. n] /\ r[0] = base
  BY <1>2, <1>12 DEF OneByOne
<1>14. ASSUME NEW k \in Nat, k + 1 <= n
      PROVE  r[k] \in T /\ k + 1 \in 1 .. n /\ r[k + 1] = scan(r[k], seq[k + 1])
  <2>1. k \in 0 .. n /\ k + 1 \in 1 .. n /\ (k + 1) - 1 = k
    BY <1>2, <1>14
  <2>2. r[k + 1] = step[k + 1][r[k]] /\ r[k] \in T
    BY <1>12, <2>1 DEF OneByOne
  <2> QED BY <1>7, <2>1, <2>2
<1>18. \A k \in Nat : k <= n => r[k].at = "done" \/ ToScan(r[k]) <= 3 * size - 1 - k
  <2> DEFINE Q == {k \in Nat : k <= n => r[k].at = "done" \/ ToScan(r[k]) <= 3 * size - 1 - k}
  <2>1. 0 \in Q
    BY <1>13, <1>16
  <2>2. ASSUME NEW k \in Q PROVE k + 1 \in Q
    <3> SUFFICES ASSUME k + 1 <= n
                 PROVE  r[k + 1].at = "done" \/ ToScan(r[k + 1]) <= 3 * size - 1 - (k + 1)
      OBVIOUS
    <3>1. k \in Nat /\ k <= n
      BY <1>2
    <3>2. r[k] \in T /\ k + 1 \in 1 .. n /\ r[k + 1] = scan(r[k], seq[k + 1])
      BY <1>14, <3>1
    <3>3. r[k + 1] = scan(r[k], 1)
      BY <1>6, <1>17, <3>2
    <3>4. r[k].at = "done" \/ ToScan(r[k]) <= 3 * size - 1 - k
      BY <3>1
    <3>5. r[k + 1] \in T
      BY <1>3, <3>2, <3>3
    <3>6. ToScan(r[k]) \in Int /\ ToScan(r[k + 1]) \in Int
      BY <1>3, <3>2, <3>5
    <3> QED BY <1>3, <3>1, <3>2, <3>3, <3>4, <3>6
  <2> HIDE DEF Q
  <2>3. Q = Nat
    <3>1. Q \in SUBSET Nat
      BY DEF Q
    <3> QED BY <2>1, <2>2, <3>1, NatInd
  <2> QED BY <2>3 DEF Q
<1>19. r[n].at = "done" /\ r[n] \in T
  <2>1. r[n] \in T
    BY <1>13
  <2>2. ToScan(r[n]) \in Nat
    BY <1>3, <2>1
  <2>3. n <= n
    BY <1>2
  <2>4. r[n].at = "done" \/ ToScan(r[n]) <= 3 * size - 1 - n
    BY <1>2, <1>18, <2>3
  <2>5. ~(ToScan(r[n]) <= 3 * size - 1 - n)
    BY <2>2
  <2> QED BY <2>1, <2>4, <2>5
<1> QED BY <1>1, <1>13, <1>19 DEF T

RangesSwapped(g, f, D, i, j, m) ==
  /\ g \in Rearranged(f, D)
  /\ \A k \in D : g[k] = IF k \in i .. i + m - 1 THEN f[j + k - i]
                         ELSE IF k \in j .. j + m - 1 THEN f[i + k - j] ELSE f[k]

LEMMA SwapRangesIs ==
  ASSUME NEW n \in Nat, NEW f, DOMAIN f = 0 .. n - 1, NEW i \in Nat, NEW j \in Nat, NEW m \in Nat,
         i + m <= j, j + m <= n
  PROVE  RangesSwapped(SwapRanges(f, i, j, m), f, 0 .. n - 1, i, j, m)
<1> DEFINE D == 0 .. n - 1
           g == SwapRanges(f, i, j, m)
           p == [k \in D |-> IF k \in i .. i + m - 1 THEN j + k - i
                             ELSE IF k \in j .. j + m - 1 THEN i + k - j ELSE k]
<1>1. g = [k \in D |-> IF k \in i .. i + m - 1 THEN f[j + k - i]
                       ELSE IF k \in j .. j + m - 1 THEN f[i + k - j] ELSE f[k]]
  BY DEF SwapRanges
<1>2. \A k \in D : p[k] \in D
  OBVIOUS
<1>3. \A k \in D : p[p[k]] = k
  <2> SUFFICES ASSUME NEW k \in D PROVE p[p[k]] = k
    OBVIOUS
  <2>1. CASE k \in i .. i + m - 1
    <3>1. p[k] = j + k - i /\ j + k - i \in j .. j + m - 1 /\ j + k - i \notin i .. i + m - 1
      BY <2>1
    <3>2. p[j + k - i] = i + (j + k - i) - j
      BY <1>2, <3>1
    <3> QED BY <3>1, <3>2
  <2>2. CASE k \in j .. j + m - 1
    <3>1. p[k] = i + k - j /\ i + k - j \in i .. i + m - 1
      BY <2>2
    <3>2. p[i + k - j] = j + (i + k - j) - i
      BY <1>2, <3>1
    <3> QED BY <3>1, <3>2
  <2>3. CASE k \notin i .. i + m - 1 /\ k \notin j .. j + m - 1
    <3>1. p[k] = k
      BY <2>3
    <3> QED BY <3>1
  <2> QED BY <2>1, <2>2, <2>3
<1>4. Bijective(p, D)
  <2>1. p \in [D -> D]
    BY <1>2
  <2> HIDE DEF p, D
  <2>2. \A k, l \in D : p[k] = p[l] => k = l
    BY <1>3
  <2>3. \A l \in D : \E k \in D : p[k] = l
    BY <1>2, <1>3
  <2> QED BY <2>1, <2>2, <2>3 DEF Bijective
<1>5. \A k \in D : g[k] = f[p[k]]
  BY <1>1
<1>6. g = [k \in D |-> g[k]]
  BY <1>1
<1> HIDE DEF g, p
<1>7. g \in [D -> {f[k] : k \in D}]
  <2>1. \A k \in D : g[k] \in {f[l] : l \in D}
    BY <1>2, <1>5
  <2> QED BY <1>6, <2>1
<1>8. Permuted(f, g, D)
  BY <1>4, <1>5 DEF Permuted
<1>9. g \in Rearranged(f, D)
  BY <1>7, <1>8 DEF Rearranged
<1> QED BY <1>1, <1>9 DEF RangesSwapped, g

Parted(r, items, n, pivot) ==
  /\ r.lt \in Nat /\ r.eq \in Nat \ {0} /\ r.gt \in Nat /\ r.lt + r.eq + r.gt = n
  /\ r.pivot = pivot
  /\ r.items \in Rearranged(items, 0 .. n - 1)
  /\ \A k \in 0 .. r.lt - 1 : r.items[k].key < pivot
  /\ \A k \in r.lt .. r.lt + r.eq - 1 : r.items[k].key = pivot
  /\ \A k \in r.lt + r.eq .. n - 1 : r.items[k].key > pivot

LEMMA PartsRight ==
  ASSUME NEW n \in Nat, NEW items, DOMAIN items = 0 .. n - 1, NEW pivot,
         NEW p \in PartStates(items, n, pivot), p.at = "done"
  PROVE  Parted(Parts(p, n), items, n, pivot)
<1> DEFINE D == 0 .. n - 1
           it == p.items
           a == p.leq
           b == p.llt
           d == p.req
           lt == b - a
           gt == d - (b - 1)
           right == n - 1 - d
           size1 == Least(a, lt)
           size2 == Least(right, gt)
           left == SwapRanges(it, 0, b - size1, size1)
           all == SwapRanges(left, b, n - size2, size2)
<1>1. /\ it \in Rearranged(items, D) /\ p.pivot = pivot /\ a \in Int /\ b \in Int
      /\ p.rgt \in Int /\ d \in Int
      /\ PartRight(it, n, pivot, "done", a, b, p.rgt, d)
  BY DEF PartStates
<1>2. 1 <= a /\ a <= b /\ p.rgt = b - 1 /\ b - 1 <= d /\ d <= n - 1
  BY <1>1 DEF PartRight
<1>3. /\ \A k \in 0 .. a - 1 : it[k].key = pivot
      /\ \A k \in a .. b - 1 : it[k].key < pivot
      /\ \A k \in b .. d : it[k].key > pivot
      /\ \A k \in d + 1 .. n - 1 : it[k].key = pivot
  BY <1>1, <1>2 DEF PartRight
<1>5. DOMAIN it = D
  BY <1>1 DEF Rearranged
<1>20. a \in Int /\ b \in Int /\ d \in Int /\ it \in Rearranged(items, D)
  BY <1>1
<1> HIDE DEF it, a, b, d
<1>4. /\ size1 \in {a, lt} /\ size1 <= a /\ size1 <= lt /\ size1 \in Int
      /\ size2 \in {right, gt} /\ size2 <= right /\ size2 <= gt /\ size2 \in Int
  <2>1. lt \in Int /\ right \in Int /\ gt \in Int
    BY <1>20
  <2> HIDE DEF lt, right, gt
  <2> QED BY <1>20, <2>1, LeastIs
<1> HIDE DEF size1, size2
<1>6. RangesSwapped(left, it, D, 0, b - size1, size1)
  <2>1. /\ 0 \in Nat /\ b - size1 \in Nat /\ size1 \in Nat /\ 0 + size1 <= b - size1
        /\ (b - size1) + size1 <= n
    BY <1>20, <1>2, <1>4
  <2> QED BY <1>5, <2>1, SwapRangesIs DEF D
<1> HIDE DEF left
<1>7. /\ left \in Rearranged(it, D) /\ DOMAIN left = D
      /\ \A k \in D : left[k] = IF k \in 0 .. 0 + size1 - 1 THEN it[(b - size1) + k - 0]
                                ELSE IF k \in b - size1 .. (b - size1) + size1 - 1
                                     THEN it[0 + k - (b - size1)] ELSE it[k]
  <2>1. left \in Rearranged(it, D)
    BY <1>6 DEF RangesSwapped
  <2>2. DOMAIN left = D
    BY <1>5, <2>1 DEF Rearranged
  <2> HIDE DEF D
  <2> QED BY <1>6, <2>1, <2>2 DEF RangesSwapped
<1>8. /\ \A k \in 0 .. lt - 1 : left[k].key < pivot
      /\ \A k \in lt .. b - 1 : left[k].key = pivot
      /\ \A k \in b .. n - 1 : left[k] = it[k]
  <2>1. ASSUME NEW k \in 0 .. lt - 1 PROVE left[k].key < pivot
    <3>1. k \in D
      BY <1>20, <1>2
    <3>2. CASE k < size1
      <4>1. left[k] = it[(b - size1) + k - 0]
        BY <1>20, <1>4, <1>7, <3>1, <3>2
      <4>2. (b - size1) + k - 0 \in a .. b - 1
        BY <1>20, <1>2, <1>4, <3>2
      <4> QED BY <1>3, <4>1, <4>2
    <3>3. CASE ~(k < size1)
      <4>1. size1 = a /\ k \in a .. b - 1 /\ k < b - size1
        BY <1>20, <1>2, <1>4, <3>3
      <4>2. left[k] = it[k]
        BY <1>20, <1>4, <1>7, <3>1, <3>3, <4>1
      <4> QED BY <1>3, <4>1, <4>2
    <3> QED BY <3>2, <3>3
  <2>2. ASSUME NEW k \in lt .. b - 1 PROVE left[k].key = pivot
    <3>1. k \in D /\ ~(k < size1)
      BY <1>20, <1>2, <1>4
    <3>2. CASE k >= b - size1
      <4>1. left[k] = it[0 + k - (b - size1)]
        BY <1>20, <1>4, <1>7, <3>1, <3>2
      <4>2. 0 + k - (b - size1) \in 0 .. a - 1
        BY <1>20, <1>2, <1>4, <3>2
      <4> QED BY <1>3, <4>1, <4>2
    <3>3. CASE ~(k >= b - size1)
      <4>1. left[k] = it[k]
        BY <1>20, <1>4, <1>7, <3>1, <3>3
      <4>2. k \in 0 .. a - 1
        BY <1>20, <1>2, <1>4, <3>3
      <4> QED BY <1>3, <4>1, <4>2
    <3> QED BY <3>2, <3>3
  <2>3. ASSUME NEW k \in b .. n - 1 PROVE left[k] = it[k]
    <3>1. k \in D /\ ~(k < size1) /\ ~(k <= b - 1)
      BY <1>20, <1>2, <1>4
    <3> QED BY <1>20, <1>4, <1>7, <3>1
  <2> QED BY <2>1, <2>2, <2>3
<1>9. RangesSwapped(all, left, D, b, n - size2, size2)
  <2>1. /\ b \in Nat /\ n - size2 \in Nat /\ size2 \in Nat /\ b + size2 <= n - size2
        /\ (n - size2) + size2 <= n
    BY <1>20, <1>2, <1>4
  <2> QED BY <1>7, <2>1, SwapRangesIs DEF D
<1> HIDE DEF all
<1>10. /\ all \in Rearranged(left, D)
       /\ \A k \in D : all[k] = IF k \in b .. b + size2 - 1 THEN left[(n - size2) + k - b]
                                ELSE IF k \in n - size2 .. (n - size2) + size2 - 1
                                     THEN left[b + k - (n - size2)] ELSE left[k]
  <2> HIDE DEF D
  <2> QED BY <1>9 DEF RangesSwapped
<1>11. /\ \A k \in 0 .. b - 1 : all[k] = left[k]
       /\ \A k \in b .. b + right - 1 : all[k].key = pivot
       /\ \A k \in b + right .. n - 1 : all[k].key > pivot
  <2>1. ASSUME NEW k \in 0 .. b - 1 PROVE all[k] = left[k]
    <3>1. k \in D /\ ~(k >= b) /\ ~(k >= n - size2)
      BY <1>20, <1>2, <1>4
    <3> QED BY <1>20, <1>4, <1>10, <3>1
  <2>2. ASSUME NEW k \in b .. b + right - 1 PROVE all[k].key = pivot
    <3>1. k \in D
      BY <1>20, <1>2
    <3>2. CASE k < b + size2
      <4>1. all[k] = left[(n - size2) + k - b]
        BY <1>20, <1>4, <1>10, <3>1, <3>2
      <4>2. (n - size2) + k - b \in d + 1 .. n - 1 /\ (n - size2) + k - b \in b .. n - 1
        BY <1>20, <1>2, <1>4, <3>2
      <4> QED BY <1>3, <1>8, <4>1, <4>2
    <3>3. CASE ~(k < b + size2)
      <4>1. size2 = gt /\ k \in d + 1 .. n - 1 /\ k < n - size2 /\ k \in b .. n - 1
        BY <1>20, <1>2, <1>4, <3>3
      <4>2. all[k] = left[k]
        BY <1>20, <1>4, <1>10, <3>1, <3>3, <4>1
      <4> QED BY <1>3, <1>8, <4>1, <4>2
    <3> QED BY <3>2, <3>3
  <2>3. ASSUME NEW k \in b + right .. n - 1 PROVE all[k].key > pivot
    <3>1. k \in D /\ ~(k < b + size2)
      BY <1>20, <1>2, <1>4
    <3>2. CASE k >= n - size2
      <4>1. all[k] = left[b + k - (n - size2)]
        BY <1>20, <1>4, <1>10, <3>1, <3>2
      <4>2. b + k - (n - size2) \in b .. d /\ b + k - (n - size2) \in b .. n - 1
        BY <1>20, <1>2, <1>4, <3>2
      <4> QED BY <1>3, <1>8, <4>1, <4>2
    <3>3. CASE ~(k >= n - size2)
      <4>1. all[k] = left[k]
        BY <1>20, <1>4, <1>10, <3>1, <3>3
      <4>2. k \in b .. d /\ k \in b .. n - 1
        BY <1>20, <1>2, <1>4, <3>3
      <4> QED BY <1>3, <1>8, <4>1, <4>2
    <3> QED BY <3>2, <3>3
  <2> QED BY <2>1, <2>2, <2>3
<1>12. all \in Rearranged(items, D)
  <2>1. D \in SUBSET D /\ D \subseteq DOMAIN items
    OBVIOUS
  <2>2. left \in Rearranged(items, D)
    <3> HIDE DEF D
    <3> QED BY <1>20, <1>7, <2>1, RearrangedTwice
  <2> HIDE DEF D
  <2> QED BY <1>10, <2>1, <2>2, RearrangedTwice
<1> DEFINE r == Parts(p, n)
<1>13. r.items = all /\ r.pivot = pivot /\ r.lt = lt /\ r.eq = a + right /\ r.gt = gt
  <2>1. p.rgt = b - 1 /\ p.pivot = pivot
    BY <1>1, <1>2 DEF b
  <2>2. p.req - p.rgt = gt
    BY <2>1 DEF d
  <2> HIDE DEF gt
  <2> QED BY <2>1, <2>2 DEF Parts, all, left, size1, size2, it, a, b, d, gt
<1>14. /\ lt \in Nat /\ a + right \in Nat \ {0} /\ gt \in Nat /\ lt + (a + right) + gt = n
       /\ lt + (a + right) = b + right
  BY <1>2, <1>20
<1>15. \A k \in lt .. b + right - 1 : all[k].key = pivot
  <2> SUFFICES ASSUME NEW k \in lt .. b + right - 1 PROVE all[k].key = pivot
    OBVIOUS
  <2>1. (k \in lt .. b - 1 /\ k \in 0 .. b - 1) \/ k \in b .. b + right - 1
    BY <1>2, <1>20
  <2> QED BY <1>8, <1>11, <2>1
<1>16. \A k \in 0 .. lt - 1 : all[k].key < pivot
  <2> SUFFICES ASSUME NEW k \in 0 .. lt - 1 PROVE all[k].key < pivot
    OBVIOUS
  <2>1. k \in 0 .. b - 1
    BY <1>2, <1>20
  <2> QED BY <1>8, <1>11, <2>1
<1> HIDE DEF r, right, lt, gt, D
<1>17. Parted(r, items, n, pivot)
  <2>1. \A k \in 0 .. r.lt - 1 : r.items[k].key < pivot
    BY <1>13, <1>16
  <2>2. r.lt + r.eq = b + right
    BY <1>13, <1>14
  <2>3. \A k \in r.lt .. r.lt + r.eq - 1 : r.items[k].key = pivot
    <3>1. r.lt + r.eq - 1 = b + right - 1
      <4>1. r.lt \in Int /\ r.eq \in Int /\ b \in Int /\ right \in Int
        BY <1>13, <1>14, <1>20 DEF right
      <4> QED BY <2>2, <4>1
    <3> QED BY <1>13, <1>15, <3>1
  <2>4. \A k \in r.lt + r.eq .. n - 1 : r.items[k].key > pivot
    BY <1>11, <1>13, <2>2
  <2>5. /\ r.lt \in Nat /\ r.eq \in Nat \ {0} /\ r.gt \in Nat /\ r.lt + r.eq + r.gt = n
        /\ r.pivot = pivot /\ r.items \in Rearranged(items, 0 .. n - 1)
    BY <1>12, <1>13, <1>14 DEF D
  <2> QED BY <2>1, <2>3, <2>4, <2>5 DEF Parted
<1> QED BY <1>17 DEF r

(* The constructor of MKQSStep. *)
LEMMA PartitionsRight ==
  ASSUME NEW n \in Nat, n > 2, NEW items, DOMAIN items = 0 .. n - 1,
         items = [k \in 0 .. n - 1 |-> items[k]], \A k \in 0 .. n - 1 : items[k].key \in Int,
         NEW r \in Partitions(items, n)
  PROVE  \E k \in 0 .. n - 1 : Parted(r, items, n, items[k].key)
<1>1. r = Parts(Scanned(items, n), n)
  BY DEF Partitions
<1>2. PICK k \in 0 .. n - 1 :
        /\ Scanned(items, n) \in PartStates(items, n, items[k].key)
        /\ Scanned(items, n).at = "done"
  BY ScannedRight
<1>3. Parted(r, items, n, items[k].key)
  BY <1>1, <1>2, PartsRight
<1> QED BY <1>3
-----------------------------------------------------------------------------
(* Items of work: a section, whether its strings are equal or the depth    *)
(* they share, the depths of which its cached keys are, and how large a    *)
(* cache it counts on.  They are told apart by what they come from.        *)
Covers(t) == Positions(t.sec)
Together(Q, i, j) == \E t \in Q : i \in Covers(t) /\ j \in Covers(t)

ItemTrue(V, D, array, cached, space, t) ==
  /\ t.sec.lo \in Int /\ t.sec.n \in Nat /\ t.sec.flip \in BOOLEAN /\ Covers(t) \subseteq D
  /\ \A i \in Covers(t) : array[t.sec.flip][i] = V[i]
  /\ t.done => \A i, j \in Covers(t) : V[i] = V[j]
  /\ ~t.done => Sharing(V, Covers(t), t.depth)
  /\ \A d \in t.cached : \A i \in Covers(t) : cached[i] = KeyAt(V[i], d)
  /\ t.room <= space

(* The strings on D are where the items of Q say, or home if none does,    *)
(* and in order except within an item.                                     *)
Truth(V, D, out, array, cached, space, Q) ==
  /\ \A i \in D : V[i] \in CStrings
  /\ \A t \in Q : ItemTrue(V, D, array, cached, space, t)
  /\ \A t, u \in Q : t # u => Covers(t) \cap Covers(u) = {}
  /\ \A i \in D : (\A t \in Q : i \notin Covers(t)) => array[out][i] = V[i]
  /\ \A i, j \in D : i < j /\ ~Together(Q, i, j) => AtMost(V[i], V[j])

(* What is known of the part of an item is known of it.                    *)
LEMMA CoversInterval ==
  ASSUME NEW D, NEW t, NEW V, NEW array, NEW cached, NEW space, ItemTrue(V, D, array, cached, space, t)
  PROVE  /\ t.sec.lo \in Int /\ t.sec.n \in Nat /\ Covers(t) \subseteq D
         /\ Covers(t) = t.sec.lo .. t.sec.lo + t.sec.n - 1
BY DEF ItemTrue, Covers, Positions

(* An item replaced by what its strings become, in their part of the       *)
(* arrays.                                                                 *)
LEMMA Refined ==
  ASSUME NEW D \in SUBSET Int, NEW out \in BOOLEAN,
         NEW V, DOMAIN V = D, NEW array, NEW cached, NEW space \in Int, NEW Q,
         Truth(V, D, out, array, cached, space, Q), NEW t \in Q,
         NEW W \in Rearranged(V, Covers(t)), NEW arr1, NEW cache1, NEW room1 \in Int, space <= room1,
         \A u \in Q : u.room \in Int,
         \A i \in D \ Covers(t) : \A side \in BOOLEAN : arr1[side][i] = array[side][i],
         \A i \in D \ Covers(t) : cache1[i] = cached[i],
         NEW R, Truth(W, Covers(t), out, arr1, cache1, room1, R)
  PROVE  Truth(W, D, out, arr1, cache1, room1, (Q \ {t}) \union R)
<1> DEFINE P == Covers(t)
           Q1 == (Q \ {t}) \union R
<1>1. ItemTrue(V, D, array, cached, space, t) /\ P \subseteq D /\ (\A i \in D : V[i] \in CStrings)
  BY DEF Truth, ItemTrue
<1>2. PICK lo \in Int, hi \in Int : P = lo .. hi
  BY <1>1, CoversInterval
<1>3. \A i \in D \ P : W[i] = V[i]
  BY DEF Rearranged
<1>4. \A i \in P : \E j \in P : W[i] = V[j]
  BY PermutedFrom DEF Rearranged
<1>5. \A i \in D : W[i] \in CStrings
  BY <1>1, <1>3, <1>4
<1>6. \A u \in Q \ {t} : Covers(u) \cap P = {} /\ ItemTrue(V, D, array, cached, space, u)
  BY DEF Truth
<1>7. ASSUME NEW u \in Q \ {t} PROVE ItemTrue(W, D, arr1, cache1, room1, u)
  <2> DEFINE C == Covers(u)
  <2>1. C \subseteq D \ P /\ \A i \in C : W[i] = V[i] /\ cache1[i] = cached[i]
    BY <1>3, <1>6, <1>7 DEF ItemTrue
  <2>2. \A i \in C : \A side \in BOOLEAN : arr1[side][i] = array[side][i]
    BY <2>1
  <2>4. ItemTrue(V, D, array, cached, space, u)
    BY <1>6, <1>7
  <2> HIDE DEF C, P
  <2>3. /\ u.sec.lo \in Int /\ u.sec.n \in Nat /\ u.sec.flip \in BOOLEAN /\ C \subseteq D
        /\ \A i \in C : array[u.sec.flip][i] = V[i]
        /\ u.done => \A i, j \in C : V[i] = V[j]
        /\ ~u.done => Sharing(V, C, u.depth)
        /\ \A d \in u.cached : \A i \in C : cached[i] = KeyAt(V[i], d)
        /\ u.room <= space
    BY <2>4 DEF ItemTrue, C
  <2>5. ~u.done => Sharing(W, C, u.depth)
    BY <2>1, <2>3 DEF Sharing
  <2>6. u.room <= room1
    BY <2>3
  <2>7. u.done => \A i, j \in C : W[i] = W[j]
    BY <2>1, <2>3
  <2>8. \A d \in u.cached : \A i \in C : cache1[i] = KeyAt(W[i], d)
    BY <2>1, <2>3
  <2>9. \A i \in C : arr1[u.sec.flip][i] = W[i]
    BY <2>1, <2>2, <2>3
  <2> QED BY <2>3, <2>5, <2>6, <2>7, <2>8, <2>9 DEF ItemTrue, C
<1>8. ASSUME NEW u \in R PROVE ItemTrue(W, D, arr1, cache1, room1, u) /\ Covers(u) \subseteq P
  <2>1. ItemTrue(W, P, arr1, cache1, room1, u)
    BY <1>8 DEF Truth
  <2> HIDE DEF P
  <2> QED BY <1>1, <2>1 DEF ItemTrue
<1>9. \A u, w \in Q1 : u # w => Covers(u) \cap Covers(w) = {}
  <2>1. \A u, w \in Q : u # w => Covers(u) \cap Covers(w) = {}
    BY DEF Truth
  <2>2. \A u, w \in R : u # w => Covers(u) \cap Covers(w) = {}
    BY DEF Truth
  <2> QED BY <1>6, <1>8, <2>1, <2>2
<1>10. ASSUME NEW i \in D, \A u \in Q1 : i \notin Covers(u) PROVE arr1[out][i] = W[i]
  <2>1. CASE i \in P
    BY <1>10, <2>1 DEF Truth
  <2>2. CASE i \notin P
    <3>1. \A u \in Q : i \notin Covers(u)
      BY <1>10, <2>2
    <3>2. array[out][i] = V[i]
      BY <1>10, <3>1 DEF Truth
    <3> QED BY <1>3, <1>10, <2>2, <3>2
  <2> QED BY <2>1, <2>2
<1>11. ASSUME NEW i \in D, NEW j \in D, i < j, ~Together(Q1, i, j) PROVE AtMost(W[i], W[j])
  <2>0. \A k, l \in D : k < l /\ ~Together(Q, k, l) => AtMost(V[k], V[l])
    BY DEF Truth
  <2>1. CASE i \in P /\ j \in P
    <3>1. ~Together(R, i, j)
      BY <1>11 DEF Together
    <3> QED BY <1>11, <2>1, <3>1 DEF Truth
  <2>2. CASE i \in P /\ j \notin P
    <3>1. PICK k \in P : W[i] = V[k]
      BY <1>4, <2>2
    <3>2. k < j
      BY <1>2, <1>11, <2>2
    <3>3. ~Together(Q, k, j)
      BY <1>6, <2>2 DEF Together
    <3> QED BY <1>1, <1>3, <1>11, <2>0, <2>2, <3>1, <3>2, <3>3
  <2>3. CASE i \notin P /\ j \in P
    <3>1. PICK k \in P : W[j] = V[k]
      BY <1>4, <2>3
    <3>2. i < k
      BY <1>2, <1>11, <2>3
    <3>3. ~Together(Q, i, k)
      BY <1>6, <2>3 DEF Together
    <3> QED BY <1>1, <1>3, <1>11, <2>0, <2>3, <3>1, <3>2, <3>3
  <2>4. CASE i \notin P /\ j \notin P
    <3>1. ~Together(Q, i, j)
      BY <1>11, <2>4 DEF Together
    <3> QED BY <1>3, <1>11, <2>0, <2>4, <3>1
  <2> QED BY <2>1, <2>2, <2>3, <2>4
<1> HIDE DEF P
<1> QED BY <1>5, <1>7, <1>8, <1>9, <1>10, <1>11 DEF Truth

(* Nothing else changed for the others: an item that ends.                 *)
LEMMA Settled ==
  ASSUME NEW D \in SUBSET Int, NEW W, NEW out \in BOOLEAN, NEW array, NEW cached, NEW space,
         \A i \in D : W[i] \in CStrings, \A i \in D : array[out][i] = W[i], OrderedOn(W, D)
  PROVE  Truth(W, D, out, array, cached, space, {})
BY DEF Truth, OrderedOn
(* A job that an item is given away as. *)
Hands(u, t) ==
  u.sec = t.sec /\ ~t.done /\ ~u.done /\ u.depth = t.depth /\ u.cached = {} /\ u.room = 0

(* Some items are given away, those of equal strings brought home.         *)
GivingAway(D, out, V, array, cached, space, Q, X, J, arr1) ==
  /\ D \in SUBSET Int /\ out \in BOOLEAN /\ space \in Nat
  /\ Truth(V, D, out, array, cached, space, Q) /\ X \in SUBSET Q
  /\ \A u \in J : \E t \in X : Hands(u, t)
  /\ \A u, w \in J, t \in X : Hands(u, t) /\ Hands(w, t) => u = w
  /\ \A t \in X : \/ Covers(t) = {}
                  \/ t.done /\ \A i \in Covers(t) : arr1[out][i] = array[t.sec.flip][i]
                  \/ \E u \in J : Hands(u, t)
  /\ \A i \in D : (\A t \in X : t.done => i \notin Covers(t))
       => \A side \in BOOLEAN : arr1[side][i] = array[side][i]

LEMMA GivenAway ==
  ASSUME NEW D, NEW out, NEW V, NEW array, NEW cached, NEW space, NEW Q, NEW X, NEW J, NEW arr1,
         GivingAway(D, out, V, array, cached, space, Q, X, J, arr1)
  PROVE  Truth(V, D, out, arr1, cached, space, (Q \ X) \union J)
<1> /\ D \in SUBSET Int /\ out \in BOOLEAN /\ space \in Nat
    /\ Truth(V, D, out, array, cached, space, Q) /\ X \in SUBSET Q
    /\ \A u \in J : \E t \in X : Hands(u, t)
    /\ \A u, w \in J, t \in X : Hands(u, t) /\ Hands(w, t) => u = w
    /\ \A t \in X : \/ Covers(t) = {}
                    \/ t.done /\ \A i \in Covers(t) : arr1[out][i] = array[t.sec.flip][i]
                    \/ \E u \in J : Hands(u, t)
    /\ \A i \in D : (\A t \in X : t.done => i \notin Covers(t))
         => \A side \in BOOLEAN : arr1[side][i] = array[side][i]
  BY DEF GivingAway
<1> DEFINE Q1 == (Q \ X) \union J
<1>0. /\ \A i \in D : V[i] \in CStrings
      /\ \A t \in Q : ItemTrue(V, D, array, cached, space, t)
      /\ \A t, u \in Q : t # u => Covers(t) \cap Covers(u) = {}
      /\ \A i \in D : (\A t \in Q : i \notin Covers(t)) => array[out][i] = V[i]
      /\ \A i, j \in D : i < j /\ ~Together(Q, i, j) => AtMost(V[i], V[j])
  BY DEF Truth
<1>1. ASSUME NEW u \in J PROVE \E t \in X : Hands(u, t) /\ Covers(u) = Covers(t) /\ t \in Q
  BY <1>1 DEF Hands, Covers
<1>2. ASSUME NEW u \in J PROVE ItemTrue(V, D, arr1, cached, space, u)
  <2>1. PICK t \in X : Hands(u, t) /\ Covers(u) = Covers(t) /\ t \in Q
    BY <1>1, <1>2
  <2>2. ItemTrue(V, D, array, cached, space, t)
    BY <1>0, <2>1
  <2>3. \A i \in Covers(t) : \A w \in X : w.done => i \notin Covers(w)
    BY <1>0, <2>1 DEF Hands
  <2>4. t.sec.flip \in BOOLEAN /\ Covers(t) \subseteq D
    BY <2>2 DEF ItemTrue
  <2>5. \A i \in Covers(t) : arr1[t.sec.flip][i] = array[t.sec.flip][i]
    BY <2>3, <2>4
  <2> QED BY ONLY <2>1, <2>2, <2>5, space \in Nat DEF ItemTrue, Hands
<1>3. ASSUME NEW u \in Q \ X PROVE ItemTrue(V, D, arr1, cached, space, u)
  <2>2. ItemTrue(V, D, array, cached, space, u)
    BY <1>0, <1>3
  <2>3. \A i \in Covers(u) : \A w \in X : w.done => i \notin Covers(w)
    BY <1>0, <1>3
  <2>4. u.sec.flip \in BOOLEAN /\ Covers(u) \subseteq D
    BY <2>2 DEF ItemTrue
  <2>5. \A i \in Covers(u) : arr1[u.sec.flip][i] = array[u.sec.flip][i]
    BY <2>3, <2>4
  <2> QED BY ONLY <2>2, <2>5 DEF ItemTrue
<1>4. ASSUME NEW u \in Q1, NEW w \in Q1, u # w PROVE Covers(u) \cap Covers(w) = {}
  <2>1. CASE u \in J /\ w \in J
    <3>1. PICK t \in X : Hands(u, t) /\ Covers(u) = Covers(t) /\ t \in Q
      BY <1>1, <2>1
    <3>2. PICK x \in X : Hands(w, x) /\ Covers(w) = Covers(x) /\ x \in Q
      BY <1>1, <2>1
    <3>3. t # x
      BY <1>4, <2>1, <3>1, <3>2
    <3> QED BY <1>0, <3>1, <3>2, <3>3
  <2>2. CASE u \in J /\ w \in Q \ X
    BY <1>0, <1>1, <2>2
  <2>3. CASE w \in J /\ u \in Q \ X
    BY <1>0, <1>1, <2>3
  <2>4. CASE w \in Q \ X /\ u \in Q \ X
    BY <1>0, <1>4, <2>4
  <2> QED BY <2>1, <2>2, <2>3, <2>4
<1>5. ASSUME NEW t \in Q, NEW i \in Covers(t)
      PROVE \/ \E u \in Q1 : Covers(u) = Covers(t)
            \/ t.done /\ t \in X /\ \A k \in Covers(t) : arr1[out][k] = array[t.sec.flip][k]
  <2>1. CASE t \in X
    <3>1. CASE \E u \in J : Hands(u, t)
      BY <3>1 DEF Hands, Covers
    <3>2. CASE t.done /\ \A k \in Covers(t) : arr1[out][k] = array[t.sec.flip][k]
      BY <2>1, <3>2
    <3> QED BY <1>5, <2>1, <3>1, <3>2
  <2> QED BY <1>5, <2>1
<1>6. ASSUME NEW i \in D, \A u \in Q1 : i \notin Covers(u) PROVE arr1[out][i] = V[i]
  <2>1. CASE \E t \in Q : i \in Covers(t)
    <3>1. PICK t \in Q : i \in Covers(t)
      BY <2>1
    <3>2. \A k \in Covers(t) : arr1[out][k] = array[t.sec.flip][k]
      BY <1>5, <1>6, <3>1
    <3>3. ItemTrue(V, D, array, cached, space, t)
      BY <1>0, <3>1
    <3> QED BY <3>1, <3>2, <3>3 DEF ItemTrue
  <2>2. CASE ~\E t \in Q : i \in Covers(t)
    <3>1. \A side \in BOOLEAN : arr1[side][i] = array[side][i]
      BY <1>6, <2>2
    <3> QED BY <1>0, <1>6, <2>2, <3>1
  <2> QED BY <2>1, <2>2
<1>7. ASSUME NEW i \in D, NEW j \in D, i < j, ~Together(Q1, i, j) PROVE AtMost(V[i], V[j])
  <2>1. CASE \E t \in Q : i \in Covers(t) /\ j \in Covers(t)
    <3>1. PICK t \in Q : i \in Covers(t) /\ j \in Covers(t)
      BY <2>1
    <3>2. t.done
      BY <1>5, <1>7, <3>1 DEF Together
    <3>3. V[i] = V[j]
      BY <1>0, <3>1, <3>2 DEF ItemTrue
    <3>4. V[i] \in CStrings
      BY <1>0
    <3> QED BY <3>3, <3>4, AtMostOrders
  <2>2. CASE ~\E t \in Q : i \in Covers(t) /\ j \in Covers(t)
    <3>1. ~Together(Q, i, j)
      BY <2>2 DEF Together
    <3> QED BY <1>0, <1>7, <3>1
  <2> QED BY <2>1, <2>2
<1> QED BY <1>0, <1>2, <1>3, <1>4, <1>6, <1>7 DEF Truth
-----------------------------------------------------------------------------
(* The place of every element by the number of those before it.            *)
ByRank(P, place, p, n) ==
  /\ Bijective(p, 1 .. n) /\ \A q \in 1 .. n : place[p[q]] = q
  /\ \A x, y \in 1 .. n : y \in P[x] <=> place[y] < place[x]

LEMMA Ranked ==
  ASSUME NEW n \in Nat, NEW P, DOMAIN P = 1 .. n,
         \A x \in 1 .. n : P[x] \in SUBSET (1 .. n) /\ x \notin P[x],
         \A x, y \in 1 .. n : y \in P[x] => P[y] \in SUBSET P[x],
         \A x, y \in 1 .. n : x = y \/ y \in P[x] \/ x \in P[y],
         NEW place, \A k \in 1 .. n : place[k] = Cardinality(P[k]) + 1,
         NEW p, p = [q \in 1 .. n |-> p[q]],
         \A q, k \in 1 .. n : place[k] = q => p[q] \in 1 .. n /\ place[p[q]] = q
  PROVE  ByRank(P, place, p, n)
<1>0. IsFiniteSet(1 .. n) /\ Cardinality(1 .. n) = n
  <2>1. 1 \in Int /\ n \in Int /\ (1 > n => n = 0) /\ n - 1 + 1 = n
    OBVIOUS
  <2> QED BY ONLY <2>1, FS_Interval
<1> DEFINE S == 1 .. n
<1>1. /\ \A x \in S : Cardinality(P[x]) \in 0 .. n - 1
      /\ \A x, y \in S : y \in P[x] <=> Cardinality(P[y]) < Cardinality(P[x])
      /\ \A x, y \in S : Cardinality(P[x]) = Cardinality(P[y]) => x = y
      /\ \A r \in 0 .. n - 1 : \E x \in S : Cardinality(P[x]) = r
  <2> HIDE DEF S
  <2>1. /\ \A x \in S : P[x] \in SUBSET S /\ x \notin P[x]
        /\ \A x, y \in S : y \in P[x] => P[y] \in SUBSET P[x]
        /\ \A x, y \in S : x = y \/ y \in P[x] \/ x \in P[y]
        /\ DOMAIN P = S /\ IsFiniteSet(S) /\ Cardinality(S) = n
    BY <1>0 DEF S
  <2> QED BY ONLY <2>1, RanksFill
<1>2. \A k \in S : place[k] \in S
  BY <1>1
<1>3. \A q \in S : \E k \in S : place[k] = q
  <2> SUFFICES ASSUME NEW q \in S PROVE \E k \in S : place[k] = q
    OBVIOUS
  <2>1. q - 1 \in 0 .. n - 1
    OBVIOUS
  <2>2. PICK k \in S : Cardinality(P[k]) = q - 1
    BY <1>1, <2>1
  <2> QED BY <2>2
<1>4. \A x, y \in S : place[x] = place[y] => x = y
  <2> SUFFICES ASSUME NEW x \in S, NEW y \in S, place[x] = place[y] PROVE x = y
    OBVIOUS
  <2>1. Cardinality(P[x]) + 1 = Cardinality(P[y]) + 1 /\ Cardinality(P[x]) \in Int /\ Cardinality(P[y]) \in Int
    BY <1>1
  <2> HIDE DEF S
  <2>2. Cardinality(P[x]) = Cardinality(P[y])
    BY ONLY <2>1
  <2> QED BY <1>1, <2>2
<1>5. \A x, y \in S : y \in P[x] <=> place[y] < place[x]
  <2> SUFFICES ASSUME NEW x \in S, NEW y \in S PROVE y \in P[x] <=> place[y] < place[x]
    OBVIOUS
  <2>1. place[x] = Cardinality(P[x]) + 1 /\ place[y] = Cardinality(P[y]) + 1 /\ Cardinality(P[x]) \in Int /\ Cardinality(P[y]) \in Int
    BY <1>1
  <2>2. y \in P[x] <=> Cardinality(P[y]) < Cardinality(P[x])
    BY <1>1
  <2> QED BY ONLY <2>1, <2>2
<1> HIDE DEF S
<1>6. \A q \in S : p[q] \in S /\ place[p[q]] = q
  <2> SUFFICES ASSUME NEW q \in S PROVE p[q] \in S /\ place[p[q]] = q
    OBVIOUS
  <2>1. \A k \in S : place[k] = q => p[q] \in S /\ place[p[q]] = q
    BY DEF S
  <2> QED BY <1>3, <2>1
<1>7. p \in [S -> S]
  <2>1. p = [q \in S |-> p[q]]
    BY DEF S
  <2> QED BY ONLY <1>6, <2>1
<1>8. \A i, j \in S : p[i] = p[j] => i = j
  BY ONLY <1>6
<1>9. \A j \in S : \E i \in S : p[i] = j
  <2> SUFFICES ASSUME NEW j \in S PROVE p[place[j]] = j /\ place[j] \in S
    OBVIOUS
  <2> QED BY <1>2, <1>4, <1>6
<1> QED BY <1>5, <1>6, <1>7, <1>8, <1>9 DEF ByRank, Bijective, S

(* What any other sorter is taken to do. *)
LEMMA SortedFromSorts ==
  ASSUME NEW n \in Nat, NEW seq, DOMAIN seq = 1 .. n, NEW depth, Sharing(seq, 1 .. n, depth)
  PROVE  /\ DOMAIN SortedFrom(depth, seq) = 1 .. n
         /\ Permuted(seq, SortedFrom(depth, seq), 1 .. n)
         /\ OrderedOn(SortedFrom(depth, seq), 1 .. n)
<1> DEFINE S == 1 .. n
           B(j, k) == IF j <= k THEN ~LessFrom(depth, seq[k], seq[j])
                                ELSE LessFrom(depth, seq[j], seq[k])
           before(j, k) == \/ j < k /\ AtMost(seq[j], seq[k])
                           \/ j > k /\ LessFrom(0, seq[j], seq[k])
           P == [k \in S |-> {j \in S : before(j, k)}]
           place == [k \in S |-> Cardinality({j \in S : B(j, k)})]
           at(q) == CHOOSE k \in S : place[k] = q
           p == [q \in S |-> at(q)]
<1>1. \A k \in S : seq[k] \in CStrings
  BY DEF Sharing
<1>2. \A j, k \in S : LessFrom(depth, seq[j], seq[k]) <=> LessFrom(0, seq[j], seq[k])
  <2> SUFFICES ASSUME NEW j \in S, NEW k \in S
               PROVE LessFrom(depth, seq[j], seq[k]) <=> LessFrom(0, seq[j], seq[k])
    OBVIOUS
  <2>1. Share(seq[j], seq[k], depth) /\ depth \in Nat
    BY DEF Sharing
  <2>2. seq[j] \in CStrings /\ seq[k] \in CStrings
    BY <1>1
  <2> HIDE DEF S
  <2> QED BY ONLY <2>1, <2>2, LessIs
<1>3. \A j, k \in S : LET a == seq[j] b == seq[k] IN
        /\ LessFrom(0, a, b) \/ LessFrom(0, b, a) \/ a = b
        /\ ~(LessFrom(0, a, b) /\ LessFrom(0, b, a)) /\ ~LessFrom(0, a, a)
  BY <1>1, LessOrders
<1>4. \A i, j, k \in S : LessFrom(0, seq[i], seq[j]) /\ LessFrom(0, seq[j], seq[k])
                            => LessFrom(0, seq[i], seq[k])
  BY <1>1, LessTransitive
<1>5. \A k \in S : P[k] \in SUBSET S /\ k \notin P[k]
  OBVIOUS
<1>6. ASSUME NEW x \in S, NEW y \in S, y \in P[x] PROVE P[y] \in SUBSET P[x]
  <2> SUFFICES ASSUME NEW z \in S, before(z, y) PROVE before(z, x)
    OBVIOUS
  <2>1. before(y, x)
    BY <1>6
  <2> QED BY <1>3, <1>4, <2>1 DEF AtMost
<1>7. \A x, y \in S : x = y \/ y \in P[x] \/ x \in P[y]
  <2> SUFFICES ASSUME NEW x \in S, NEW y \in S PROVE x = y \/ before(y, x) \/ before(x, y)
    OBVIOUS
  <2> QED BY <1>3 DEF AtMost
<1>8. \A k \in S : place[k] = Cardinality(P[k]) + 1
  <2> SUFFICES ASSUME NEW k \in S PROVE Cardinality({j \in S : B(j, k)}) = Cardinality(P[k]) + 1
    OBVIOUS
  <2>1. {j \in S : B(j, k)} = P[k] \union {k}
    <3>1. \A j \in S : B(j, k) <=> j = k \/ before(j, k)
      <4> SUFFICES ASSUME NEW j \in S PROVE B(j, k) <=> j = k \/ before(j, k)
        OBVIOUS
      <4>1. CASE j = k
        BY <1>2, <1>3, <4>1
      <4>2. CASE j < k
        BY <1>2, <4>2 DEF AtMost
      <4>3. CASE j > k
        BY <1>2, <4>3
      <4> QED BY <4>1, <4>2, <4>3
    <3> HIDE DEF B, before
    <3> QED BY <3>1
  <2>2. IsFiniteSet(S)
    BY ONLY n \in Nat, FS_Interval, 1 \in Int, n \in Int
  <2>3. IsFiniteSet(P[k])
    BY <1>5, <2>2, FS_Subset
  <2>4. k \notin P[k]
    BY <1>5
  <2> HIDE DEF P, B, S
  <2> QED BY ONLY <2>1, <2>3, <2>4, FS_AddElement
<1>9. /\ Bijective(p, S) /\ \A q \in S : place[p[q]] = q
      /\ \A x, y \in S : y \in P[x] <=> place[y] < place[x]
  <2>1. DOMAIN P = 1 .. n /\ p = [q \in 1 .. n |-> p[q]]
    <3>1. DOMAIN P = 1 .. n
      OBVIOUS
    <3>2. p = [q \in 1 .. n |-> p[q]]
      <4> HIDE DEF at, place, P
      <4> QED OBVIOUS
    <3> QED BY ONLY <3>1, <3>2
  <2>4. \A q, k \in 1 .. n : place[k] = q => p[q] \in 1 .. n /\ place[p[q]] = q
    <3> HIDE DEF place
    <3> QED OBVIOUS
  <2>2. n \in Nat
    OBVIOUS
  <2>3. \A x, y \in S : y \in P[x] => P[y] \in SUBSET P[x]
    BY <1>6
  <2> HIDE DEF P, place, p
  <2>5. ByRank(P, place, p, n)
    BY ONLY <1>5, <2>3, <1>7, <1>8, <2>1, <2>2, <2>4, Ranked
  <2> QED BY ONLY <2>5 DEF ByRank
<1>10. SortedFrom(depth, seq) = [q \in S |-> seq[p[q]]]
  <2>1. \A q \in S : p[q] = at(q)
    OBVIOUS
  <2>2. SortedFrom(depth, seq) = [q \in S |-> seq[at(q)]]
    BY DEF SortedFrom
  <2> HIDE DEF S, p, at
  <2> QED BY ONLY <2>1, <2>2
<1>11. ASSUME NEW i \in S, NEW j \in S, i < j PROVE AtMost(seq[p[i]], seq[p[j]])
  <2>0. \A x, y \in S : y \in P[x] => before(y, x)
    OBVIOUS
  <2> HIDE DEF p, place, P, S, before
  <2>1. p[i] \in S /\ p[j] \in S /\ place[p[i]] = i /\ place[p[j]] = j
    BY ONLY <1>9, i \in S, j \in S DEF Bijective
  <2>4. p[i] \in P[p[j]]
    BY ONLY <1>9, <1>11, <2>1
  <2>2. before(p[i], p[j])
    BY ONLY <2>0, <2>1, <2>4
  <2>3. seq[p[i]] \in CStrings /\ seq[p[j]] \in CStrings
    BY <1>1, <2>1
  <2> QED BY <2>2, <2>3, AtMostOrders DEF before
<1> HIDE DEF p, S
<1>12. Permuted(seq, [q \in S |-> seq[p[q]]], S)
  BY <1>9 DEF Permuted
<1>13. OrderedOn([q \in S |-> seq[p[q]]], S)
  BY <1>11 DEF OrderedOn
<1> QED BY <1>10, <1>12, <1>13 DEF S
(* A string that all below it do not exceed, and that exceeds none above,  *)
(* is where every sorter puts it.                                          *)
LEMMA FinalPlace ==
  ASSUME NEW n \in Nat, NEW seq, DOMAIN seq = 1 .. n, \A k \in 1 .. n : seq[k] \in CStrings,
         NEW f, \A i \in 0 .. n - 1 : f[i] = seq[i + 1],
         NEW V, Permuted(f, V, 0 .. n - 1), NEW i \in 0 .. n - 1,
         \A j \in 0 .. n - 1 : j < i => AtMost(V[j], V[i]),
         \A j \in 0 .. n - 1 : i < j => AtMost(V[i], V[j])
  PROVE  V[i] = SortedFrom(0, seq)[i + 1]
<1> DEFINE S == 1 .. n
           D == 0 .. n - 1
           s == SortedFrom(0, seq)
<1>1. Sharing(seq, S, 0)
  BY DEF Sharing, Share
<1>2. Permuted(seq, s, S) /\ OrderedOn(s, S)
  BY <1>1, SortedFromSorts
<1>3. PICK r : Bijective(r, S) /\ \A q \in S : s[q] = seq[r[q]]
  BY <1>2 DEF Permuted
<1>4. PICK p : Bijective(p, D) /\ \A k \in D : V[k] = f[p[k]]
  BY DEF Permuted
<1>5. \A k \in D : \E q \in S : r[q] = p[k] + 1
  <2> SUFFICES ASSUME NEW k \in D PROVE \E q \in S : r[q] = p[k] + 1
    OBVIOUS
  <2>0. p[k] \in D
    BY <1>4 DEF Bijective
  <2>1. p[k] + 1 \in S
    BY ONLY <2>0, n \in Nat
  <2> QED BY <1>3, <2>1 DEF Bijective
<1> DEFINE g == [k \in D |-> CHOOSE q \in S : r[q] = p[k] + 1]
<1>6. \A k \in D : g[k] \in S /\ r[g[k]] = p[k] + 1
  BY <1>5
<1> HIDE DEF g
<1>7. \A k, l \in D : g[k] = g[l] => k = l
  <2> SUFFICES ASSUME NEW k \in D, NEW l \in D, g[k] = g[l] PROVE k = l
    OBVIOUS
  <2>0. p[k] \in D /\ p[l] \in D
    BY <1>4 DEF Bijective
  <2>1. p[k] \in Int /\ p[l] \in Int /\ p[k] + 1 = p[l] + 1
    <3>1. r[g[k]] = p[k] + 1 /\ r[g[l]] = p[l] + 1
      BY <1>6
    <3> QED BY ONLY <2>0, <3>1, g[k] = g[l], n \in Nat
  <2>2. p[k] = p[l]
    BY ONLY <2>1
  <2> QED BY <1>4, <2>2 DEF Bijective
<1>8. \A k \in D : V[k] = s[g[k]]
  <2> SUFFICES ASSUME NEW k \in D PROVE V[k] = s[g[k]]
    OBVIOUS
  <2>1. V[k] = f[p[k]] /\ p[k] \in D
    BY <1>4 DEF Bijective
  <2>2. V[k] = seq[p[k] + 1]
    BY <2>1
  <2> QED BY <1>3, <1>6, <2>2
<1>9. \A q \in S : s[q] \in CStrings
  BY <1>3 DEF Bijective
<1>10. \A k \in D : V[k] \in CStrings
  BY <1>6, <1>8, <1>9
<1> HIDE DEF s
<1>20. /\ \A a \in CStrings : AtMost(a, a)
       /\ \A a, b \in CStrings : AtMost(a, b) \/ AtMost(b, a)
       /\ \A a, b \in CStrings : AtMost(a, b) /\ AtMost(b, a) => a = b
       /\ \A a, b, c \in CStrings : AtMost(a, b) /\ AtMost(b, c) => AtMost(a, c)
  BY AtMostOrders
<1>11. i + 1 \in S
  OBVIOUS
<1>12. AtMost(s[i + 1], V[i])
  <2> SUFFICES ASSUME ~AtMost(s[i + 1], V[i]) PROVE FALSE
    OBVIOUS
  <2>1. ASSUME NEW k \in 0 .. i PROVE g[k] \in 1 .. i
    <3>1. k \in D
      OBVIOUS
    <3>2. AtMost(V[k], V[i])
      <4>1. k = i \/ k < i
        OBVIOUS
      <4> HIDE DEF D
      <4> QED BY <1>10, <1>20, <3>1, <4>1 DEF D
    <3>3. AtMost(s[g[k]], V[i]) /\ g[k] \in S
      BY <1>6, <1>8, <3>1, <3>2
    <3>4. CASE g[k] > i
      <4>1. g[k] = i + 1 \/ i + 1 < g[k]
        BY <3>3, <3>4
      <4>2. AtMost(s[i + 1], s[g[k]])
        <5>1. CASE g[k] = i + 1
          BY <1>9, <1>11, <1>20, <5>1
        <5>2. CASE i + 1 < g[k]
          BY <1>2, <1>11, <3>3, <5>2 DEF OrderedOn
        <5> QED BY <4>1, <5>1, <5>2
      <4>3. s[i + 1] \in CStrings /\ s[g[k]] \in CStrings /\ V[i] \in CStrings
        BY <1>9, <1>10, <1>11, <3>3
      <4> QED BY ONLY <1>20, <3>3, <4>2, <4>3, ~AtMost(s[i + 1], V[i])
    <3> QED BY <3>3, <3>4
  <2> DEFINE h == [k \in 0 .. i |-> g[k]]
  <2>2. h \in [0 .. i -> 1 .. i]
    BY <2>1
  <2>3. \A k, l \in 0 .. i : k # l => h[k] # h[l]
    BY <1>7
  <2>4. /\ IsFiniteSet(0 .. i) /\ Cardinality(0 .. i) = i + 1
        /\ IsFiniteSet(1 .. i) /\ Cardinality(1 .. i) = i
    <3>1. 0 \in Int /\ 1 \in Int /\ i \in Int /\ ~(0 > i) /\ i - 0 + 1 = i + 1 /\ (1 > i => i = 0) /\ i - 1 + 1 = i
      OBVIOUS
    <3> QED BY ONLY <3>1, FS_Interval
  <2>5. Cardinality(1 .. i) < Cardinality(0 .. i)
    BY <2>4
  <2> HIDE DEF h
  <2> QED BY ONLY <2>2, <2>3, <2>4, <2>5, FS_PigeonHole
<1>13. AtMost(V[i], s[i + 1])
  <2> SUFFICES ASSUME ~AtMost(V[i], s[i + 1]) PROVE FALSE
    OBVIOUS
  <2>1. ASSUME NEW k \in i .. n - 1 PROVE g[k] \in i + 2 .. n
    <3>1. k \in D
      OBVIOUS
    <3>2. AtMost(V[i], V[k])
      <4>1. k = i \/ i < k
        OBVIOUS
      <4> HIDE DEF D
      <4> QED BY <1>10, <1>20, <3>1, <4>1 DEF D
    <3>3. AtMost(V[i], s[g[k]]) /\ g[k] \in S
      BY <1>6, <1>8, <3>1, <3>2
    <3>4. CASE g[k] <= i + 1
      <4>1. g[k] = i + 1 \/ g[k] < i + 1
        BY <3>3, <3>4
      <4>2. AtMost(s[g[k]], s[i + 1])
        <5>1. CASE g[k] = i + 1
          BY <1>9, <1>11, <1>20, <5>1
        <5>2. CASE g[k] < i + 1
          BY <1>2, <1>11, <3>3, <5>2 DEF OrderedOn
        <5> QED BY <4>1, <5>1, <5>2
      <4>3. s[i + 1] \in CStrings /\ s[g[k]] \in CStrings /\ V[i] \in CStrings
        BY <1>9, <1>10, <1>11, <3>3
      <4> QED BY ONLY <1>20, <3>3, <4>2, <4>3, ~AtMost(V[i], s[i + 1])
    <3> QED BY <3>3, <3>4
  <2> DEFINE h == [k \in i .. n - 1 |-> g[k]]
  <2>2. h \in [i .. n - 1 -> i + 2 .. n]
    BY <2>1
  <2>3. \A k, l \in i .. n - 1 : k # l => h[k] # h[l]
    BY <1>7
  <2>4. /\ IsFiniteSet(i .. n - 1) /\ Cardinality(i .. n - 1) = n - i
        /\ IsFiniteSet(i + 2 .. n) /\ Cardinality(i + 2 .. n) = n - i - 1
    <3>1. i \in Int /\ n - 1 \in Int /\ i + 2 \in Int /\ n \in Int /\ ~(i > n - 1) /\ n - 1 - i + 1 = n - i
          /\ (i + 2 > n => n - i - 1 = 0) /\ n - (i + 2) + 1 = n - i - 1
      OBVIOUS
    <3> QED BY ONLY <3>1, FS_Interval
  <2>5. Cardinality(i + 2 .. n) < Cardinality(i .. n - 1)
    BY <2>4
  <2> HIDE DEF h
  <2> QED BY ONLY <2>2, <2>3, <2>4, <2>5, FS_PigeonHole
<1>14. V[i] = s[i + 1]
  BY <1>9, <1>10, <1>11, <1>12, <1>13, <1>20
<1> QED BY <1>14 DEF s
-----------------------------------------------------------------------------
(* The distribution of a SeqSampleSortStep. *)
LEMMA Counts ==
  ASSUME NEW n \in Nat, NEW A \in SUBSET (1 .. n), NEW B \in SUBSET A
  PROVE  /\ IsFiniteSet(A) /\ Cardinality(A) \in 0 .. n /\ Cardinality(B) <= Cardinality(A)
         /\ Cardinality(1 .. n) = n /\ IsFiniteSet(1 .. n)
<1>0. IsFiniteSet(1 .. n) /\ Cardinality(1 .. n) = n
  <2>1. 1 \in Int /\ n \in Int /\ (1 > n => n = 0) /\ n - 1 + 1 = n
    OBVIOUS
  <2> QED BY ONLY <2>1, FS_Interval
<1>1. IsFiniteSet(A) /\ Cardinality(A) <= Cardinality(1 .. n)
  BY <1>0, FS_Subset
<1>2. Cardinality(B) <= Cardinality(A)
  BY <1>1, FS_Subset
<1>3. Cardinality(A) \in Nat
  BY <1>1, FS_CardinalityType
<1> QED BY <1>0, <1>1, <1>2, <1>3

LEMMA BktNumIs == BktNum \in Nat \ {0} /\ BktNum = 2 * NumSplitters + 1 /\ NumSplitters \in Nat \ {0}
BY SmallsortAssumption DEF BktNum

Dealt(d, bkt, strings, id, n) ==
  /\ bkt \in [0 .. BktNum -> 0 .. n] /\ bkt[0] = 0 /\ bkt[BktNum] = n
  /\ \A b, c \in 0 .. BktNum : b <= c => bkt[b] <= bkt[c]
  /\ d = [q \in 1 .. n |-> d[q]]
  /\ \E p : /\ Bijective(p, 1 .. n)
            /\ \A q \in 1 .. n :
                 d[q] = strings[p[q]] /\ bkt[id[p[q]]] < q /\ q <= bkt[id[p[q]] + 1]

LEMMA DistributedRight ==
  ASSUME NEW n \in Nat, NEW id \in [1 .. n -> 0 .. BktNum - 1], NEW strings
  PROVE  Dealt(Distributed(strings, id, BucketStarts(id)), BucketStarts(id), strings, id, n)
<1> DEFINE S == 1 .. n
           bkt == BucketStarts(id)
           less(b) == {k \in S : id[k] < b}
           same(k) == {j \in 1 .. k - 1 : id[j] = id[k]}
           P == [k \in S |-> {j \in S : id[j] < id[k] \/ (id[j] = id[k] /\ j > k)}]
           place == [k \in S |-> bkt[id[k] + 1] - Cardinality(same(k))]
           at(q) == CHOOSE k \in S : place[k] = q
           p == [q \in S |-> at(q)]
<1>0. BktNum \in Nat /\ \A k \in S : id[k] \in Nat /\ id[k] < BktNum /\ id[k] + 1 \in 0 .. BktNum /\ id[k] \in 0 .. BktNum
  BY BktNumIs
<1>1. bkt = [b \in 0 .. BktNum |-> Cardinality(less(b))]
  BY DEF BucketStarts
<1>2. \A b, c \in 0 .. BktNum : b <= c => less(b) \in SUBSET less(c)
  BY <1>0
<1>3. \A b, c \in 0 .. BktNum : b <= c => bkt[b] <= bkt[c]
  <2> SUFFICES ASSUME NEW b \in 0 .. BktNum, NEW c \in 0 .. BktNum, b <= c PROVE bkt[b] <= bkt[c]
    OBVIOUS
  <2>1. less(b) \in SUBSET less(c) /\ less(c) \in SUBSET (1 .. n)
    BY <1>2
  <2>2. bkt[b] = Cardinality(less(b)) /\ bkt[c] = Cardinality(less(c))
    BY <1>1
  <2> HIDE DEF less, bkt
  <2> QED BY ONLY <2>1, <2>2, Counts, n \in Nat
<1>4. bkt \in [0 .. BktNum -> 0 .. n]
  <2>1. \A b \in 0 .. BktNum : Cardinality(less(b)) \in 0 .. n
    <3> SUFFICES ASSUME NEW b \in 0 .. BktNum PROVE Cardinality(less(b)) \in 0 .. n
      OBVIOUS
    <3>1. less(b) \in SUBSET (1 .. n)
      OBVIOUS
    <3> HIDE DEF less
    <3> QED BY ONLY <3>1, Counts, n \in Nat
  <2> HIDE DEF less, bkt
  <2> QED BY ONLY <1>1, <2>1
<1>5. bkt[0] = 0
  <2>1. less(0) = {}
    BY <1>0
  <2>2. bkt[0] = Cardinality(less(0))
    BY <1>0, <1>1
  <2> HIDE DEF less, bkt
  <2> QED BY ONLY <2>1, <2>2, FS_EmptySet
<1>6. bkt[BktNum] = n
  <2>1. less(BktNum) = 1 .. n
    BY <1>0
  <2>2. bkt[BktNum] = Cardinality(less(BktNum))
    BY <1>0, <1>1
  <2>3. 1 .. n \in SUBSET (1 .. n)
    OBVIOUS
  <2> HIDE DEF less, bkt
  <2> QED BY ONLY <2>1, <2>2, <2>3, Counts, n \in Nat
<1>7. \A k \in S : P[k] \in SUBSET S /\ k \notin P[k]
  BY <1>0
<1>8. \A x, y \in S : y \in P[x] => P[y] \in SUBSET P[x]
  <2> SUFFICES ASSUME NEW x \in S, NEW y \in S, y \in P[x], NEW z \in P[y] PROVE z \in P[x]
    OBVIOUS
  <2>1. z \in S /\ id[z] \in Int /\ id[y] \in Int /\ id[x] \in Int
    BY <1>0
  <2>2. (id[y] < id[x] \/ (id[y] = id[x] /\ y > x)) /\ (id[z] < id[y] \/ (id[z] = id[y] /\ z > y))
    OBVIOUS
  <2>3. id[z] < id[x] \/ (id[z] = id[x] /\ z > x)
    <3> HIDE DEF P, place, bkt
    <3> QED BY ONLY <2>1, <2>2, x \in S, y \in S
  <2> QED BY <2>1, <2>3
<1>9. \A x, y \in S : x = y \/ y \in P[x] \/ x \in P[y]
  <2> SUFFICES ASSUME NEW x \in S, NEW y \in S PROVE x = y \/ y \in P[x] \/ x \in P[y]
    OBVIOUS
  <2>1. id[y] \in Int /\ id[x] \in Int
    BY <1>0
  <2> QED BY <2>1
<1>10. ASSUME NEW k \in S
       PROVE /\ place[k] = Cardinality(P[k]) + 1
             /\ bkt[id[k]] < place[k] /\ place[k] <= bkt[id[k] + 1]
  <2>0. id[k] \in Nat /\ id[k] \in 0 .. BktNum /\ id[k] + 1 \in 0 .. BktNum
    BY <1>0
  <2>1. less(id[k] + 1) = P[k] \union (same(k) \union {k})
    <3>1. \A j \in S : id[j] < id[k] + 1 <=> id[j] < id[k] \/ id[j] = id[k]
      <4> SUFFICES ASSUME NEW j \in S PROVE id[j] < id[k] + 1 <=> id[j] < id[k] \/ id[j] = id[k]
        OBVIOUS
      <4>1. id[j] \in Int /\ id[k] \in Int
        BY <1>0
      <4> HIDE DEF P, place, bkt
      <4> QED BY ONLY <4>1
    <3>2. \A j : j \in same(k) <=> j \in S /\ id[j] = id[k] /\ j < k
      OBVIOUS
    <3>3. \A j \in S : j < k \/ j = k \/ j > k
      OBVIOUS
    <3>4. \A j : j \in P[k] <=> j \in S /\ (id[j] < id[k] \/ (id[j] = id[k] /\ j > k))
      OBVIOUS
    <3> HIDE DEF S, P, same, place, bkt
    <3>5. \A j : j \in less(id[k] + 1) <=> j \in S /\ id[j] < id[k] + 1
      OBVIOUS
    <3> HIDE DEF less
    <3> QED BY ONLY <3>1, <3>2, <3>3, <3>4, <3>5, k \in S
  <2>2. P[k] \in SUBSET S /\ same(k) \in SUBSET S /\ less(id[k]) \in SUBSET P[k] /\ k \notin same(k)
    BY <1>0
  <2>3. P[k] \cap (same(k) \union {k}) = {}
    <3>1. \A j \in P[k] : j \notin same(k) /\ j # k
      BY <1>0
    <3> HIDE DEF P, same
    <3> QED BY <3>1
  <2>4. /\ IsFiniteSet(P[k]) /\ IsFiniteSet(same(k)) /\ Cardinality(P[k]) \in 0 .. n /\ Cardinality(same(k)) \in 0 .. n
        /\ Cardinality(less(id[k])) <= Cardinality(P[k]) /\ Cardinality(less(id[k])) \in 0 .. n
    <3>1. same(k) \in SUBSET same(k) /\ P[k] \in SUBSET (1 .. n) /\ same(k) \in SUBSET (1 .. n) /\ less(id[k]) \in SUBSET less(id[k])
          /\ less(id[k]) \in SUBSET (1 .. n) /\ less(id[k]) \in SUBSET P[k]
      BY <2>2
    <3> HIDE DEF P, same, less, place, bkt
    <3> QED BY ONLY <3>1, Counts, n \in Nat
  <2>5. IsFiniteSet(same(k) \union {k}) /\ Cardinality(same(k) \union {k}) = Cardinality(same(k)) + 1
    <3> HIDE DEF same
    <3> QED BY ONLY <2>2, <2>4, FS_AddElement
  <2>6. Cardinality(less(id[k] + 1)) = Cardinality(P[k]) + (Cardinality(same(k)) + 1)
    <3>1. /\ Cardinality(P[k] \union (same(k) \union {k}))
               = Cardinality(P[k]) + Cardinality(same(k) \union {k}) - Cardinality(P[k] \cap (same(k) \union {k}))
      <4> HIDE DEF P, same
      <4> QED BY ONLY <2>4, <2>5, FS_Union
    <3>2. Cardinality(P[k] \cap (same(k) \union {k})) = 0
      BY ONLY <2>3, FS_EmptySet
    <3> DEFINE a == Cardinality(P[k])
               b == Cardinality(same(k))
               c == Cardinality(same(k) \union {k})
               u == Cardinality(P[k] \union (same(k) \union {k}))
    <3>3. Cardinality(less(id[k] + 1)) = u
      BY ONLY <2>1
    <3>4. u = a + c - 0
      BY <3>1, <3>2
    <3>5. a \in 0 .. n /\ b \in 0 .. n /\ c = b + 1
      BY <2>4, <2>5
    <3> HIDE DEF a, b, c, u
    <3>6. u = a + (b + 1)
      BY ONLY <3>4, <3>5, n \in Nat
    <3> QED BY ONLY <3>3, <3>6 DEF a, b
  <2>7. place[k] = bkt[id[k] + 1] - Cardinality(same(k))
    OBVIOUS
  <2>8. bkt[id[k] + 1] = Cardinality(less(id[k] + 1)) /\ bkt[id[k]] = Cardinality(less(id[k]))
    BY <1>1, <2>0
  <2> HIDE DEF P, same, less, place, bkt
  <2> QED BY ONLY <2>4, <2>6, <2>7, <2>8, n \in Nat
<1>11. ByRank(P, place, p, n)
  <2>1. DOMAIN P = 1 .. n
    OBVIOUS
  <2>2. p = [q \in 1 .. n |-> p[q]]
    <3> HIDE DEF at, place, P
    <3> QED OBVIOUS
  <2>4. \A q, k \in 1 .. n : place[k] = q => p[q] \in 1 .. n /\ place[p[q]] = q
    <3> HIDE DEF place
    <3> QED OBVIOUS
  <2>5. \A k \in 1 .. n : place[k] = Cardinality(P[k]) + 1
    BY <1>10
  <2> HIDE DEF P, place, p, bkt
  <2> QED BY ONLY <1>7, <1>8, <1>9, <2>1, <2>2, <2>4, <2>5, n \in Nat, Ranked
<1>12. Distributed(strings, id, bkt) = [q \in S |-> strings[p[q]]]
  <2>0. DOMAIN id = S
    OBVIOUS
  <2>1. \A q \in S : p[q] = at(q)
    OBVIOUS
  <2>2. Distributed(strings, id, bkt) = [q \in S |-> strings[at(q)]]
    BY ONLY <2>0 DEF Distributed
  <2> HIDE DEF S, p, at
  <2> QED BY ONLY <2>1, <2>2
<1>13. \A q \in S : bkt[id[p[q]]] < q /\ q <= bkt[id[p[q]] + 1]
  <2> SUFFICES ASSUME NEW q \in S PROVE bkt[id[p[q]]] < q /\ q <= bkt[id[p[q]] + 1]
    OBVIOUS
  <2>1. p[q] \in S /\ place[p[q]] = q
    <3> HIDE DEF P, place, p
    <3> QED BY <1>11 DEF ByRank, Bijective
  <2> HIDE DEF place, p, P, bkt
  <2> QED BY <1>10, <2>1
<1>14. Bijective(p, S)
  <2> HIDE DEF P, place, p
  <2> QED BY <1>11 DEF ByRank
<1> HIDE DEF bkt, p, place, P
<1>15. LET d == [q \in S |-> strings[p[q]]]
       IN  d = [q \in 1 .. n |-> d[q]] /\ \A q \in S : d[q] = strings[p[q]]
  OBVIOUS
<1> DEFINE d == Distributed(strings, id, bkt)
<1>16. d = [q \in 1 .. n |-> d[q]] /\ \A q \in S : d[q] = strings[p[q]]
  <2> HIDE DEF d
  <2> QED BY ONLY <1>12, <1>15 DEF d
<1> HIDE DEF d
<1>17. Dealt(d, bkt, strings, id, n)
  BY ONLY <1>3, <1>4, <1>5, <1>6, <1>13, <1>14, <1>16 DEF Dealt
<1> QED BY <1>17 DEF d, bkt
(* The strings of a bucket are equal, or share its depth. *)
LEMMA BucketShares ==
  ASSUME NEW splitter \in [0 .. NumSplitters - 1 -> Keys],
         \A i, j \in 0 .. NumSplitters - 1 : i < j => splitter[i] <= splitter[j],
         NEW depth \in Nat, NEW s \in CStrings, NEW t \in CStrings, Share(s, t, depth),
         NEW b, BucketIn(splitter, KeyAt(s, depth)) = b, BucketIn(splitter, KeyAt(t, depth)) = b,
         NEW f, f.splitter = splitter, f.depth = depth
  PROVE  /\ b \in 0 .. BktNum - 1
         /\ EqualAndDone(f, b) => s = t
         /\ BucketDepth(f, b) \in Nat
         /\ ~EqualAndDone(f, b) => Share(s, t, BucketDepth(f, b))
<1> DEFINE n == NumSplitters
           x == KeyAt(s, depth)
           y == KeyAt(t, depth)
<1>1. n \in Nat \ {0} /\ BktNum = 2 * n + 1
  BY BktNumIs
<1>2. x \in Keys /\ y \in Keys
  BY KeyIsKey
<1>3. \A k \in Keys : k \in Int
  BY KeysAreNumbers
<1>4. splitter \in [0 .. n - 1 -> Int]
  BY <1>3
<1> HIDE DEF n, x, y
<1>5. PICK l \in 0 .. n : /\ \A i \in 0 .. n - 1 : splitter[i] < x <=> i < l
                          /\ \/ BucketIn(splitter, x) = 2 * l + 1 /\ l < n /\ splitter[l] = x
                             \/ BucketIn(splitter, x) = 2 * l /\ (l < n => x < splitter[l])
  <2>1. \A i, j \in 0 .. n - 1 : i < j => splitter[i] <= splitter[j]
    BY DEF n
  <2>2. x \in Int /\ n \in Nat
    BY <1>1, <1>2, <1>3
  <2> QED BY ONLY <1>4, <2>1, <2>2, BucketLies
<1>6. PICK m \in 0 .. n : /\ \A i \in 0 .. n - 1 : splitter[i] < y <=> i < m
                          /\ \/ BucketIn(splitter, y) = 2 * m + 1 /\ m < n /\ splitter[m] = y
                             \/ BucketIn(splitter, y) = 2 * m /\ (m < n => y < splitter[m])
  <2>1. \A i, j \in 0 .. n - 1 : i < j => splitter[i] <= splitter[j]
    BY DEF n
  <2>2. y \in Int /\ n \in Nat
    BY <1>1, <1>2, <1>3
  <2> QED BY ONLY <1>4, <2>1, <2>2, BucketLies
<1>7. BucketIn(splitter, x) = b /\ BucketIn(splitter, y) = b
  BY DEF x, y
<1>8. m = l /\ b \in 0 .. BktNum - 1
      /\ \/ b = 2 * l + 1 /\ l < n /\ splitter[l] = x /\ splitter[l] = y
         \/ b = 2 * l /\ (l < n => x < splitter[l] /\ y < splitter[l])
  BY <1>1, <1>5, <1>6, <1>7
<1>9. KeyWidth \in Nat
  BY KeyAssumption
<1>10. CASE b = 2 * l + 1
  <2>0. l < n /\ splitter[l] = x /\ splitter[l] = y
    <3>1. l \in Int
      OBVIOUS
    <3>2. b # 2 * l
      BY ONLY <1>10, <3>1
    <3> QED BY <1>8, <3>2
  <2>1. b % 2 = 1 /\ b \div 2 = l /\ l < n /\ splitter[l] = x /\ splitter[l] = y
    <3>1. l \in Int
      OBVIOUS
    <3>2. b % 2 = 1 /\ b \div 2 = l
      BY ONLY <1>10, <3>1
    <3> QED BY ONLY <2>0, <3>2
  <2>2. EqualAndDone(f, b) <=> Terminated(x)
    BY <2>1 DEF EqualAndDone
  <2>3. BucketDepth(f, b) = depth + KeyWidth
    BY <2>1 DEF BucketDepth
  <2>4. x = y
    BY <2>1
  <2>5. /\ ~Terminated(x) => Share(s, t, depth + KeyWidth)
        /\ Terminated(x) => s = t
    BY <2>4, KeysSame DEF x, y
  <2>6. BucketDepth(f, b) \in Nat
    BY <1>9, <2>3
  <2> QED BY <1>8, <2>2, <2>3, <2>5, <2>6
<1>11. CASE b = 2 * l
  <2>0. l < n => x < splitter[l] /\ y < splitter[l]
    <3>1. l \in Int
      OBVIOUS
    <3>2. b # 2 * l + 1
      BY ONLY <1>11, <3>1
    <3> QED BY <1>8, <3>2
  <2>1. b % 2 = 0 /\ b \div 2 = l /\ (l < n => x < splitter[l] /\ y < splitter[l])
    <3>1. l \in Int
      OBVIOUS
    <3>2. b % 2 = 0 /\ b \div 2 = l
      BY ONLY <1>11, <3>1
    <3> QED BY ONLY <2>0, <3>2
  <2>2. ~EqualAndDone(f, b)
    BY <2>1 DEF EqualAndDone
  <2>3. BucketDepth(f, b) = depth + SplitterLcpIn(splitter, l)
    BY <2>1 DEF BucketDepth
  <2>4. CASE l - 1 \in 0 .. n - 1 /\ l \in 0 .. n - 1
    <3>1. SplitterLcpIn(splitter, l) = KeyLcp(splitter[l - 1], splitter[l])
      BY <1>4, <2>4 DEF SplitterLcpIn
    <3>2. splitter[l - 1] < x /\ splitter[l - 1] < y
      BY <1>5, <1>6, <1>8, <2>4
    <3>3. splitter[l - 1] \in Keys /\ splitter[l] \in Keys
      BY <2>4 DEF n
    <3>4. x < splitter[l] /\ y < splitter[l]
      <4>1. l < n
        BY <1>1, <2>4
      <4> QED BY ONLY <2>0, <4>1
    <3>5. Share(s, t, depth + KeyLcp(splitter[l - 1], splitter[l]))
      BY <3>2, <3>3, <3>4, KeysBetween DEF x, y
    <3>6. KeyLcp(splitter[l - 1], splitter[l]) \in Nat
      BY <1>9, <3>3, KeyLcpIsPrefix
    <3> QED BY <1>8, <2>2, <2>3, <3>1, <3>5, <3>6
  <2>5. CASE ~(l - 1 \in 0 .. n - 1 /\ l \in 0 .. n - 1)
    <3>1. SplitterLcpIn(splitter, l) = 0
      BY <1>4, <2>5 DEF SplitterLcpIn
    <3>2. depth + 0 = depth
      OBVIOUS
    <3> QED BY <1>8, <2>2, <2>3, <3>1, <3>2
  <2> QED BY <2>4, <2>5
<1> QED BY <1>8, <1>10, <1>11

(* Where the strings of a frame are. *)
BucketsRight(W, lo, n, splitter, bkt, depth) ==
  /\ bkt \in [0 .. BktNum -> 0 .. n] /\ bkt[0] = 0 /\ bkt[BktNum] = n
  /\ \A b, c \in 0 .. BktNum : b <= c => bkt[b] <= bkt[c]
  /\ \A i \in lo .. lo + n - 1 :
       LET b == BucketIn(splitter, KeyAt(W[i], depth))
       IN  b \in 0 .. BktNum - 1 /\ lo + bkt[b] <= i /\ i < lo + bkt[b + 1]

LEMMA BucketExists ==
  ASSUME NEW splitter \in [0 .. NumSplitters - 1 -> Keys],
         \A i, j \in 0 .. NumSplitters - 1 : i < j => splitter[i] <= splitter[j],
         NEW depth \in Nat, NEW s \in CStrings
  PROVE  BucketIn(splitter, KeyAt(s, depth)) \in 0 .. BktNum - 1
<1>1. NumSplitters \in Nat \ {0} /\ BktNum = 2 * NumSplitters + 1
  BY BktNumIs
<1>2. KeyAt(s, depth) \in Int /\ splitter \in [0 .. NumSplitters - 1 -> Int]
  BY KeyIsKey, KeysAreNumbers
<1>3. \E l \in 0 .. NumSplitters :
        \/ BucketIn(splitter, KeyAt(s, depth)) = 2 * l + 1 /\ l < NumSplitters
        \/ BucketIn(splitter, KeyAt(s, depth)) = 2 * l
  <2>1. \A k \in Int : \E l \in 0 .. NumSplitters :
           \/ BucketIn(splitter, k) = 2 * l + 1 /\ l < NumSplitters
           \/ BucketIn(splitter, k) = 2 * l
    <3> SUFFICES ASSUME NEW k \in Int
                 PROVE \E l \in 0 .. NumSplitters :
                         \/ BucketIn(splitter, k) = 2 * l + 1 /\ l < NumSplitters
                         \/ BucketIn(splitter, k) = 2 * l
      OBVIOUS
    <3>1. NumSplitters \in Nat /\ splitter \in [0 .. NumSplitters - 1 -> Int]
      BY <1>1, <1>2
    <3>2. \E l \in 0 .. NumSplitters :
           /\ \A i \in 0 .. NumSplitters - 1 : splitter[i] < k <=> i < l
           /\ \/ BucketIn(splitter, k) = 2 * l + 1 /\ l < NumSplitters /\ splitter[l] = k
              \/ BucketIn(splitter, k) = 2 * l /\ (l < NumSplitters => k < splitter[l])
      BY ONLY <3>1, BucketLies, k \in Int,
              \A i, j \in 0 .. NumSplitters - 1 : i < j => splitter[i] <= splitter[j]
    <3> QED BY ONLY <3>2
  <2> QED BY <1>2, <2>1
<1> QED BY <1>1, <1>3

(* Keys are dealt to buckets, and strings to W. *)
Dealing(D, V, lo, n, depth, strings, keys, splitter, id, bkt, W) ==
  /\ D \in SUBSET Int /\ V = [i \in D |-> V[i]]
  /\ lo \in Int /\ n \in Nat /\ lo .. lo + n - 1 \subseteq D
  /\ Sharing(V, lo .. lo + n - 1, depth)
  /\ \A k \in 1 .. n : strings[k] = V[lo + k - 1]
  /\ keys = [k \in 1 .. n |-> KeyAt(strings[k], depth)]
  /\ splitter \in [0 .. NumSplitters - 1 -> Keys]
  /\ \A i, j \in 0 .. NumSplitters - 1 : i < j => splitter[i] <= splitter[j]
  /\ id = Classified(splitter, keys) /\ bkt = BucketStarts(id)
  /\ W = Put(V, lo, Distributed(strings, id, bkt))

DealtRight(D, V, lo, n, depth, strings, keys, splitter, id, bkt, W) ==
  /\ W \in Rearranged(V, lo .. lo + n - 1)
  /\ BucketsRight(W, lo, n, splitter, bkt, depth)
  /\ DOMAIN Distributed(strings, id, bkt) = 1 .. n

LEMMA SampleDealt ==
  ASSUME NEW D, NEW V, NEW lo, NEW n, NEW depth, NEW strings, NEW keys, NEW splitter, NEW id,
         NEW bkt, NEW W, Dealing(D, V, lo, n, depth, strings, keys, splitter, id, bkt, W)
  PROVE  DealtRight(D, V, lo, n, depth, strings, keys, splitter, id, bkt, W)
<1> SUFFICES /\ W \in Rearranged(V, lo .. lo + n - 1)
             /\ BucketsRight(W, lo, n, splitter, bkt, depth)
             /\ DOMAIN Distributed(strings, id, bkt) = 1 .. n
  BY DEF DealtRight
<1> /\ D \in SUBSET Int /\ V = [i \in D |-> V[i]]
    /\ lo \in Int /\ n \in Nat /\ lo .. lo + n - 1 \subseteq D
    /\ Sharing(V, lo .. lo + n - 1, depth)
    /\ \A k \in 1 .. n : strings[k] = V[lo + k - 1]
    /\ keys = [k \in 1 .. n |-> KeyAt(strings[k], depth)]
    /\ splitter \in [0 .. NumSplitters - 1 -> Keys]
    /\ \A i, j \in 0 .. NumSplitters - 1 : i < j => splitter[i] <= splitter[j]
    /\ id = Classified(splitter, keys) /\ bkt = BucketStarts(id)
    /\ W = Put(V, lo, Distributed(strings, id, bkt))
  BY DEF Dealing
<1> DEFINE P == lo .. lo + n - 1
           d == Distributed(strings, id, bkt)
<1>1. \A k \in 1 .. n : strings[k] \in CStrings /\ lo + k - 1 \in P
  <2> SUFFICES ASSUME NEW k \in 1 .. n PROVE strings[k] \in CStrings /\ lo + k - 1 \in P
    OBVIOUS
  <2>1. lo + k - 1 \in P
    OBVIOUS
  <2> QED BY <2>1 DEF Sharing
<1>2. depth \in Nat
  BY DEF Sharing
<1>3. \A k \in 1 .. n : id[k] = BucketIn(splitter, KeyAt(strings[k], depth))
  BY DEF Classified
<1>4. id \in [1 .. n -> 0 .. BktNum - 1]
  <2>1. \A k \in 1 .. n : id[k] \in 0 .. BktNum - 1
    <3> SUFFICES ASSUME NEW k \in 1 .. n PROVE id[k] \in 0 .. BktNum - 1
      OBVIOUS
    <3>1. strings[k] \in CStrings
      BY <1>1
    <3> QED BY <1>2, <1>3, <3>1, BucketExists
  <2>2. id = [k \in 1 .. n |-> id[k]]
    BY DEF Classified
  <2> QED BY ONLY <2>1, <2>2
<1>5. Dealt(d, bkt, strings, id, n)
  BY <1>4, DistributedRight
<1> HIDE DEF d
<1>6. /\ bkt \in [0 .. BktNum -> 0 .. n] /\ bkt[0] = 0 /\ bkt[BktNum] = n
      /\ \A b, c \in 0 .. BktNum : b <= c => bkt[b] <= bkt[c]
      /\ d = [q \in 1 .. n |-> d[q]]
  BY ONLY <1>5 DEF Dealt
<1>7. PICK p : /\ Bijective(p, 1 .. n)
               /\ \A q \in 1 .. n : d[q] = strings[p[q]] /\ bkt[id[p[q]]] < q /\ q <= bkt[id[p[q]] + 1]
  BY ONLY <1>5 DEF Dealt
<1>8. W = [i \in D |-> IF i - lo + 1 \in 1 .. n THEN d[i - lo + 1] ELSE V[i]]
  <2>1. DOMAIN d = 1 .. n /\ DOMAIN V = D
    BY <1>6
  <2>2. W = Put(V, lo, d)
    BY DEF d
  <2> QED BY ONLY <2>1, <2>2 DEF Put
<1>9. \A i \in P : i \in D /\ i - lo + 1 \in 1 .. n /\ W[i] = d[i - lo + 1]
  <2> SUFFICES ASSUME NEW i \in P PROVE i \in D /\ i - lo + 1 \in 1 .. n /\ W[i] = d[i - lo + 1]
    OBVIOUS
  <2>1. i \in D /\ i - lo + 1 \in 1 .. n
    OBVIOUS
  <2> HIDE DEF P
  <2> QED BY ONLY <1>8, <2>1
<1>10. \A i \in D \ P : W[i] = V[i]
  <2> SUFFICES ASSUME NEW i \in D \ P PROVE W[i] = V[i]
    OBVIOUS
  <2>1. i \in D /\ ~(i - lo + 1 \in 1 .. n)
    OBVIOUS
  <2> HIDE DEF P
  <2> QED BY ONLY <1>8, <2>1
<1> DEFINE g == [i \in P |-> lo + p[i - lo + 1] - 1]
<1>11. \A i \in P : g[i] \in P /\ g[i] - lo + 1 = p[i - lo + 1] /\ W[i] = V[g[i]]
  <2> SUFFICES ASSUME NEW i \in P PROVE g[i] \in P /\ g[i] - lo + 1 = p[i - lo + 1] /\ W[i] = V[g[i]]
    OBVIOUS
  <2> DEFINE q == i - lo + 1
  <2>1. q \in 1 .. n /\ W[i] = d[q]
    BY <1>9
  <2>2. p[q] \in 1 .. n
    BY <1>7, <2>1 DEF Bijective
  <2>3. W[i] = V[lo + p[q] - 1]
    BY <1>7, <2>1, <2>2
  <2>4. g[i] = lo + p[q] - 1
    OBVIOUS
  <2> HIDE DEF g, q
  <2>5. g[i] \in P /\ g[i] - lo + 1 = p[q]
    BY ONLY <2>2, <2>4, lo \in Int, n \in Nat
  <2> QED BY <2>3, <2>4, <2>5 DEF q
<1>12. Bijective(g, P)
  <2>1. \A i, j \in P : g[i] = g[j] => i = j
    <3> SUFFICES ASSUME NEW i \in P, NEW j \in P, g[i] = g[j] PROVE i = j
      OBVIOUS
    <3>1. p[i - lo + 1] = p[j - lo + 1]
      <4>1. g[i] - lo + 1 = p[i - lo + 1] /\ g[j] - lo + 1 = p[j - lo + 1]
        BY <1>11
      <4> HIDE DEF g
      <4> QED BY ONLY <4>1, g[i] = g[j]
    <3>2. i - lo + 1 = j - lo + 1
      BY <1>7, <1>9, <3>1 DEF Bijective
    <3> QED BY ONLY <3>2, i \in P, j \in P, lo \in Int, n \in Nat
  <2>2. \A j \in P : \E i \in P : g[i] = j
    <3> SUFFICES ASSUME NEW j \in P PROVE \E i \in P : g[i] = j
      OBVIOUS
    <3>1. PICK q \in 1 .. n : p[q] = j - lo + 1
      BY <1>7, <1>9 DEF Bijective
    <3>2. lo + q - 1 \in P /\ (lo + q - 1) - lo + 1 = q
      OBVIOUS
    <3>3. g[lo + q - 1] = lo + p[q] - 1
      BY <3>2
    <3>4. lo + (j - lo + 1) - 1 = j
      OBVIOUS
    <3> QED BY ONLY <3>1, <3>2, <3>3, <3>4
  <2>3. g \in [P -> P]
    <3>1. g = [i \in P |-> g[i]]
      OBVIOUS
    <3> HIDE DEF g
    <3> QED BY ONLY <1>11, <3>1
  <2> HIDE DEF g, P
  <2> QED BY <2>1, <2>2, <2>3 DEF Bijective
<1>13. W \in Rearranged(V, P)
  <2> HIDE DEF g, P
  <2>1. Permuted(V, W, P)
    BY <1>11, <1>12 DEF Permuted
  <2>2. W = [i \in D |-> W[i]]
    BY <1>8
  <2>3. \A i \in D : W[i] \in {V[j] : j \in D}
    <3> SUFFICES ASSUME NEW i \in D PROVE \E j \in D : W[i] = V[j]
      OBVIOUS
    <3>1. P \subseteq D
      BY DEF P
    <3> QED BY <1>10, <1>11, <3>1
  <2>4. DOMAIN V = D
    OBVIOUS
  <2>5. W \in [D -> {V[j] : j \in D}]
    BY <2>2, <2>3
  <2> QED BY <1>10, <2>1, <2>4, <2>5 DEF Rearranged
<1>14. ASSUME NEW i \in P
       PROVE LET b == BucketIn(splitter, KeyAt(W[i], depth))
             IN  b \in 0 .. BktNum - 1 /\ lo + bkt[b] <= i /\ i < lo + bkt[b + 1]
  <2> DEFINE q == i - lo + 1
             b == BucketIn(splitter, KeyAt(W[i], depth))
  <2>1. q \in 1 .. n /\ W[i] = d[q]
    BY <1>9
  <2>2. p[q] \in 1 .. n
    BY <1>7, <2>1 DEF Bijective
  <2>3. W[i] = strings[p[q]] /\ bkt[id[p[q]]] < q /\ q <= bkt[id[p[q]] + 1]
    BY <1>7, <2>1
  <2>4. b = id[p[q]]
    BY <1>3, <2>2, <2>3
  <2>5. b \in 0 .. BktNum - 1
    BY <1>4, <2>2, <2>4
  <2>6. b \in 0 .. BktNum /\ b + 1 \in 0 .. BktNum
    BY <2>5, BktNumIs
  <2>7. bkt[b] \in Int /\ bkt[b + 1] \in Int
    BY <1>6, <2>6
  <2>8. bkt[b] < q /\ q <= bkt[b + 1]
    BY <2>3, <2>4
  <2> HIDE DEF b
  <2>9. lo + bkt[b] <= i /\ i < lo + bkt[b + 1]
    BY ONLY <2>7, <2>8, lo \in Int, n \in Nat, i \in P
  <2> QED BY <2>5, <2>9 DEF b
<1>15. BucketsRight(W, lo, n, splitter, bkt, depth)
  BY ONLY <1>6, <1>14 DEF BucketsRight
<1>16. DOMAIN d = 1 .. n
  BY <1>6
<1> QED BY <1>13, <1>15, <1>16 DEF d
SameBucket(f, b, s, t) ==
  /\ EqualAndDone(f, b) => s = t
  /\ BucketDepth(f, b) \in Nat
  /\ ~EqualAndDone(f, b) => Share(s, t, BucketDepth(f, b))

LEMMA SameBucketShares ==
  ASSUME NEW f, NEW b, NEW s \in CStrings, NEW t \in CStrings,
         f.splitter \in [0 .. NumSplitters - 1 -> Keys],
         \A i, j \in 0 .. NumSplitters - 1 : i < j => f.splitter[i] <= f.splitter[j],
         f.depth \in Nat, Share(s, t, f.depth),
         BucketIn(f.splitter, KeyAt(s, f.depth)) = b, BucketIn(f.splitter, KeyAt(t, f.depth)) = b
  PROVE  SameBucket(f, b, s, t)
<1> DEFINE splitter == f.splitter
           depth == f.depth
<1>1. /\ splitter \in [0 .. NumSplitters - 1 -> Keys]
      /\ \A i, j \in 0 .. NumSplitters - 1 : i < j => splitter[i] <= splitter[j]
      /\ depth \in Nat /\ Share(s, t, depth) /\ f.splitter = splitter /\ f.depth = depth
      /\ BucketIn(splitter, KeyAt(s, depth)) = b /\ BucketIn(splitter, KeyAt(t, depth)) = b
      /\ s \in CStrings /\ t \in CStrings
  OBVIOUS
<1> HIDE DEF splitter, depth
<1> QED BY ONLY <1>1, BucketShares DEF SameBucket

-----------------------------------------------------------------------------
(* The items that the frames, the jobs and the job before its start hold.  *)
BucketItem(k, f, b) ==
  [kind |-> "ss", frame |-> k, part |-> b, sec |-> Bucket(f, b), done |-> EqualAndDone(f, b),
   depth |-> BucketDepth(f, b), cached |-> {}, room |-> Bucket(f, b).n]
PartItem(k, f, p) ==
  [kind |-> "ms", frame |-> k, part |-> p, sec |-> PartSection(f, p), done |-> PivotDone(f, p),
   depth |-> PartDepth(f, p), cached |-> {f.depth}, room |-> KeyCells * PartSection(f, p).n]
JobItem(c) ==
  [kind |-> "job", frame |-> c, part |-> 0, sec |-> c.sec, done |-> FALSE,
   depth |-> c.depth, cached |-> {}, room |-> 0]
WholeItem(sec) ==
  [kind |-> "all", frame |-> 0, part |-> 0, sec |-> sec, done |-> FALSE,
   depth |-> 0, cached |-> {}, room |-> 0]

BucketItems(k, f) == {BucketItem(k, f, b) : b \in f.idx .. BktNum - 1}
PartItems(k, f) == {PartItem(k, f, p) : p \in f.idx + 1 .. 3}

LEMMA BucketItemIs ==
  ASSUME NEW k, NEW f, NEW b
  PROVE  LET t == BucketItem(k, f, b)
         IN  /\ t.kind = "ss" /\ t.frame = k /\ t.part = b
             /\ t.sec = Bucket(f, b) /\ (t.done <=> EqualAndDone(f, b))
             /\ t.depth = BucketDepth(f, b) /\ t.cached = {} /\ t.room = Bucket(f, b).n
             /\ t.sec.lo = f.lo + f.bkt[b] /\ t.sec.n = f.bkt[b + 1] - f.bkt[b]
             /\ t.sec.flip = ~f.flip
             /\ Covers(t) = f.lo + f.bkt[b] .. f.lo + f.bkt[b] + (f.bkt[b + 1] - f.bkt[b]) - 1
<1> DEFINE t == BucketItem(k, f, b)
<1>1. /\ t.kind = "ss" /\ t.frame = k /\ t.part = b
      /\ t.sec = Bucket(f, b) /\ t.depth = BucketDepth(f, b) /\ t.cached = {}
      /\ t.room = Bucket(f, b).n
  BY DEF BucketItem
<1>2. t.done <=> EqualAndDone(f, b)
  BY DEF BucketItem
<1> HIDE DEF t
<1>3. /\ t.sec.lo = f.lo + f.bkt[b] /\ t.sec.n = f.bkt[b + 1] - f.bkt[b]
      /\ t.sec.flip = ~f.flip
  BY <1>1 DEF Bucket, Flip, Section
<1>4. Covers(t) = f.lo + f.bkt[b] .. f.lo + f.bkt[b] + (f.bkt[b + 1] - f.bkt[b]) - 1
  BY <1>3 DEF Covers, Positions
<1> QED BY <1>1, <1>2, <1>3, <1>4 DEF t

LEMMA PartItemIs ==
  ASSUME NEW k, NEW f, NEW p \in 1 .. 3
  PROVE  LET t == PartItem(k, f, p)
         IN  /\ t.kind = "ms" /\ t.frame = k /\ t.part = p
             /\ t.sec = PartSection(f, p) /\ (t.done <=> PivotDone(f, p))
             /\ t.depth = PartDepth(f, p) /\ t.cached = {f.depth}
             /\ t.room = KeyCells * PartSection(f, p).n
             /\ t.sec.flip = f.flip
             /\ t.sec.lo = IF p = 1 THEN f.lo + 0 ELSE IF p = 2 THEN f.lo + f.lt ELSE f.lo + (f.lt + f.eq)
             /\ t.sec.n = IF p = 1 THEN f.lt ELSE IF p = 2 THEN f.eq ELSE f.gt
             /\ Covers(t) = t.sec.lo .. t.sec.lo + t.sec.n - 1
<1> DEFINE t == PartItem(k, f, p)
<1>1. /\ t.kind = "ms" /\ t.frame = k /\ t.part = p
      /\ t.sec = PartSection(f, p) /\ t.depth = PartDepth(f, p) /\ t.cached = {f.depth}
      /\ t.room = KeyCells * PartSection(f, p).n
  BY DEF PartItem
<1>2. t.done <=> PivotDone(f, p)
  BY DEF PartItem
<1>0. p = 1 \/ p = 2 \/ p = 3
  OBVIOUS
<1> HIDE DEF t
<1>3. /\ t.sec.flip = f.flip
      /\ t.sec.lo = IF p = 1 THEN f.lo + 0 ELSE IF p = 2 THEN f.lo + f.lt ELSE f.lo + (f.lt + f.eq)
      /\ t.sec.n = IF p = 1 THEN f.lt ELSE IF p = 2 THEN f.eq ELSE f.gt
  <2>1. CASE p = 1
    BY <1>1, <2>1 DEF PartSection, Sub, Section
  <2>2. CASE p = 2
    BY <1>1, <2>2 DEF PartSection, Sub, Section
  <2>3. CASE p = 3
    BY <1>1, <2>3 DEF PartSection, Sub, Section
  <2> QED BY <1>0, <2>1, <2>2, <2>3
<1>4. Covers(t) = t.sec.lo .. t.sec.lo + t.sec.n - 1
  BY <1>3 DEF Covers, Positions
<1> QED BY <1>1, <1>2, <1>3, <1>4 DEF t

LEMMA JobItemIs ==
  ASSUME NEW c
  PROVE  LET t == JobItem(c)
         IN  /\ t.kind = "job" /\ t.frame = c /\ t.sec = c.sec /\ ~t.done /\ t.depth = c.depth
             /\ t.cached = {} /\ t.room = 0 /\ Covers(t) = Positions(c.sec)
BY DEF JobItem, Covers

(* The strings of a new frame of the sample sort. *)
LEMMA SampleTrue ==
  ASSUME NEW W, NEW f, f.lo \in Int, f.n \in Nat, f.flip \in BOOLEAN, f.idx = 0,
         NEW P, P = f.lo .. f.lo + f.n - 1, Sharing(W, P, f.depth),
         f.splitter \in [0 .. NumSplitters - 1 -> Keys],
         \A i, j \in 0 .. NumSplitters - 1 : i < j => f.splitter[i] <= f.splitter[j],
         BucketsRight(W, f.lo, f.n, f.splitter, f.bkt, f.depth),
         NEW array, \A i \in P : array[~f.flip][i] = W[i],
         NEW space \in Int, f.n <= space, NEW cached, NEW k, NEW out
  PROVE  Truth(W, P, out, array, cached, space, BucketItems(k, f))
<1> DEFINE spl == f.splitter
           bkt == f.bkt
           lo == f.lo
           in(i) == BucketIn(spl, KeyAt(W[i], f.depth))
           Q == BucketItems(k, f)
           item(b) == BucketItem(k, f, b)
<1>0. BktNum \in Nat \ {0}
  BY BktNumIs
<1>1. /\ bkt \in [0 .. BktNum -> 0 .. f.n]
      /\ \A b, c \in 0 .. BktNum : b <= c => bkt[b] <= bkt[c]
      /\ \A i \in P : in(i) \in 0 .. BktNum - 1 /\ lo + bkt[in(i)] <= i /\ i < lo + bkt[in(i) + 1]
  BY DEF BucketsRight
<1>2. f.depth \in Nat /\ (\A i \in P : W[i] \in CStrings)
      /\ \A i, j \in P : Share(W[i], W[j], f.depth)
  BY DEF Sharing
<1>3. \A t \in Q : \E b \in 0 .. BktNum - 1 : t = item(b)
  <2>1. f.idx .. BktNum - 1 = 0 .. BktNum - 1
    OBVIOUS
  <2> HIDE DEF item
  <2> QED BY <2>1 DEF BucketItems, item
<1>4. \A b \in 0 .. BktNum - 1 : item(b) \in Q
  <2>1. f.idx .. BktNum - 1 = 0 .. BktNum - 1
    OBVIOUS
  <2> HIDE DEF item
  <2> QED BY <2>1 DEF BucketItems, item
<1> HIDE DEF Q, item, in, spl
<1>5. ASSUME NEW b \in 0 .. BktNum - 1
      PROVE /\ bkt[b] \in Int /\ bkt[b + 1] \in Int /\ 0 <= bkt[b] /\ bkt[b] <= bkt[b + 1] /\ bkt[b + 1] <= f.n
            /\ item(b).sec.lo = lo + bkt[b] /\ item(b).sec.n = bkt[b + 1] - bkt[b]
            /\ item(b).sec.flip = ~f.flip /\ item(b).room = bkt[b + 1] - bkt[b]
            /\ Covers(item(b)) = {i \in P : lo + bkt[b] <= i /\ i < lo + bkt[b + 1]}
            /\ (item(b).done <=> EqualAndDone(f, b)) /\ item(b).depth = BucketDepth(f, b)
            /\ item(b).cached = {}
  <2>1. b \in 0 .. BktNum /\ b + 1 \in 0 .. BktNum /\ b <= b + 1
    BY <1>0
  <2>2. bkt[b] \in 0 .. f.n /\ bkt[b + 1] \in 0 .. f.n /\ bkt[b] <= bkt[b + 1]
    BY <1>1, <2>1
  <2>3. /\ item(b).sec.lo = lo + bkt[b] /\ item(b).sec.n = bkt[b + 1] - bkt[b]
        /\ item(b).sec.flip = ~f.flip
        /\ Covers(item(b)) = lo + bkt[b] .. lo + bkt[b] + (bkt[b + 1] - bkt[b]) - 1
        /\ (item(b).done <=> EqualAndDone(f, b)) /\ item(b).depth = BucketDepth(f, b)
        /\ item(b).cached = {} /\ item(b).room = item(b).sec.n
    <3>1. /\ item(b).sec = Bucket(f, b) /\ item(b).room = Bucket(f, b).n
      BY BucketItemIs DEF item
    <3> QED BY <3>1, BucketItemIs DEF item
  <2> HIDE DEF bkt, lo
  <2>4. lo + bkt[b] .. lo + bkt[b] + (bkt[b + 1] - bkt[b]) - 1
          = {i \in lo .. lo + f.n - 1 : lo + bkt[b] <= i /\ i < lo + bkt[b + 1]}
    <3>1. lo \in Int /\ f.n \in Nat
      BY DEF lo
    <3>2. \A i \in Int : i \in lo + bkt[b] .. lo + bkt[b] + (bkt[b + 1] - bkt[b]) - 1
            <=> i \in lo .. lo + f.n - 1 /\ lo + bkt[b] <= i /\ i < lo + bkt[b + 1]
      BY ONLY <2>2, <3>1
    <3> QED BY ONLY <2>2, <3>1, <3>2
  <2>5. P = lo .. lo + f.n - 1
    BY DEF lo
  <2> QED BY ONLY <2>2, <2>3, <2>4, <2>5, f.n \in Nat
<1>6. \A b, c \in 0 .. BktNum - 1 : b < c => bkt[b + 1] <= bkt[c]
  <2> SUFFICES ASSUME NEW b \in 0 .. BktNum - 1, NEW c \in 0 .. BktNum - 1, b < c
               PROVE bkt[b + 1] <= bkt[c]
    OBVIOUS
  <2>1. b + 1 \in 0 .. BktNum /\ c \in 0 .. BktNum /\ b + 1 <= c
    BY <1>0
  <2> QED BY <1>1, <2>1
<1>7. \A b, c \in 0 .. BktNum - 1 : b # c => Covers(item(b)) \cap Covers(item(c)) = {}
  <2>1. ASSUME NEW b \in 0 .. BktNum - 1, NEW c \in 0 .. BktNum - 1, b < c
        PROVE Covers(item(b)) \cap Covers(item(c)) = {}
    <3> SUFFICES ASSUME NEW i \in Covers(item(b)), i \in Covers(item(c)) PROVE FALSE
      OBVIOUS
    <3>1. i \in P /\ i < lo + bkt[b + 1] /\ lo + bkt[c] <= i
      BY <1>5
    <3>2. bkt[b + 1] <= bkt[c] /\ bkt[b + 1] \in Int /\ bkt[c] \in Int
      BY <1>5, <1>6, <2>1
    <3>3. i \in Int /\ lo \in Int
      BY <3>1
    <3> HIDE DEF bkt, lo
    <3> QED BY ONLY <3>1, <3>2, <3>3
  <2>2. \A b, c \in 0 .. BktNum - 1 : b < c \/ c < b \/ b = c
    BY <1>0
  <2> QED BY <2>1, <2>2
<1>8. ASSUME NEW i \in P
      PROVE /\ i \in Covers(item(in(i)))
            /\ \A b \in 0 .. BktNum - 1 : i \in Covers(item(b)) => b = in(i)
  <2>1. in(i) \in 0 .. BktNum - 1 /\ lo + bkt[in(i)] <= i /\ i < lo + bkt[in(i) + 1]
    BY <1>1
  <2>2. i \in Covers(item(in(i)))
    BY <1>5, <2>1
  <2> HIDE DEF bkt, lo
  <2> QED BY <1>7, <2>1, <2>2
<1>9. ASSUME NEW i \in P, NEW j \in P, NEW b, in(i) = b, in(j) = b
      PROVE /\ EqualAndDone(f, b) => W[i] = W[j]
            /\ BucketDepth(f, b) \in Nat
            /\ ~EqualAndDone(f, b) => Share(W[i], W[j], BucketDepth(f, b))
  <2>1. /\ W[i] \in CStrings /\ W[j] \in CStrings /\ f.depth \in Nat /\ Share(W[i], W[j], f.depth)
        /\ spl \in [0 .. NumSplitters - 1 -> Keys]
        /\ \A l, m \in 0 .. NumSplitters - 1 : l < m => spl[l] <= spl[m]
        /\ BucketIn(spl, KeyAt(W[i], f.depth)) = b /\ BucketIn(spl, KeyAt(W[j], f.depth)) = b
        /\ f.splitter = spl /\ f.depth = f.depth
    BY <1>2, <1>9 DEF in, spl
  <2>2. SameBucket(f, b, W[i], W[j])
    BY ONLY <2>1, SameBucketShares
  <2> QED BY ONLY <2>2 DEF SameBucket
<1>10. ASSUME NEW t \in Q PROVE ItemTrue(W, P, array, cached, space, t)
  <2>1. PICK b \in 0 .. BktNum - 1 : t = item(b)
    BY <1>3
  <2> DEFINE C == Covers(t)
  <2>2. /\ bkt[b] \in Int /\ bkt[b + 1] \in Int /\ 0 <= bkt[b] /\ bkt[b] <= bkt[b + 1] /\ bkt[b + 1] <= f.n
        /\ t.sec.lo = lo + bkt[b] /\ t.sec.n = bkt[b + 1] - bkt[b]
        /\ t.sec.flip = ~f.flip /\ t.room = bkt[b + 1] - bkt[b]
        /\ (t.done <=> EqualAndDone(f, b)) /\ t.depth = BucketDepth(f, b) /\ t.cached = {}
        /\ C \subseteq P
    BY <1>5, <2>1
  <2>3. t.sec.lo \in Int /\ t.sec.n \in Nat /\ t.sec.flip \in BOOLEAN /\ t.room <= space
    <3>1. lo \in Int
      OBVIOUS
    <3> HIDE DEF bkt, lo
    <3>2. t.sec.flip \in BOOLEAN
      BY <2>2
    <3>3. t.sec.lo \in Int /\ t.sec.n \in Nat /\ t.room <= space
      BY ONLY <2>2, <3>1, f.n \in Nat, space \in Int, f.n <= space
    <3> QED BY <3>2, <3>3
  <2>4. \A i \in C : in(i) = b
    BY <1>8, <2>1, <2>2
  <2>5. \A i \in C : array[t.sec.flip][i] = W[i]
    BY <2>2
  <2>6. t.done => \A i, j \in C : W[i] = W[j]
    BY <1>9, <2>2, <2>4
  <2>7. ~t.done => Sharing(W, C, t.depth)
    <3> SUFFICES ASSUME ~t.done PROVE Sharing(W, C, t.depth)
      OBVIOUS
    <3>1. \A i, j \in C : Share(W[i], W[j], t.depth)
      BY <1>9, <2>2, <2>4
    <3>2. \A i \in C : W[i] \in CStrings
      BY <1>2, <2>2
    <3>3. t.depth \in Nat
      <4>1. BucketDepth(f, b) \in Nat
        <5>1. KeyWidth \in Nat /\ \A x, y \in Keys : KeyLcp(x, y) \in Nat
          <6>1. KeyWidth \in Nat
            BY KeyAssumption
          <6> QED BY <6>1, KeyLcpIsPrefix
        <5>2. \A x \in DOMAIN f.splitter : f.splitter[x] \in Keys
          OBVIOUS
        <5>3. SplitterLcpIn(f.splitter, b \div 2) \in Nat
          BY ONLY <5>1, <5>2 DEF SplitterLcpIn
        <5> QED BY ONLY <1>2, <5>1, <5>3 DEF BucketDepth
      <4> QED BY <2>2, <4>1
    <3> QED BY <3>1, <3>2, <3>3 DEF Sharing
  <2> QED BY <2>2, <2>3, <2>5, <2>6, <2>7 DEF ItemTrue
<1>11. \A t, u \in Q : t # u => Covers(t) \cap Covers(u) = {}
  BY <1>3, <1>7
<1>12. \A i \in P : \E t \in Q : i \in Covers(t)
  BY <1>1, <1>4, <1>8
<1>13. ASSUME NEW i \in P, NEW j \in P, i < j, ~Together(Q, i, j) PROVE AtMost(W[i], W[j])
  <2> DEFINE b == in(i)
             c == in(j)
             x == KeyAt(W[i], f.depth)
             y == KeyAt(W[j], f.depth)
  <2>1. b \in 0 .. BktNum - 1 /\ c \in 0 .. BktNum - 1
    BY <1>1
  <2>2. b # c
    BY <1>4, <1>8, <1>13, <2>1 DEF Together
  <2>3. b < c
    <3> SUFFICES ASSUME c < b PROVE FALSE
      BY <1>0, <2>1, <2>2
    <3>1. bkt[c + 1] <= bkt[b] /\ bkt[c + 1] \in Int /\ bkt[b] \in Int
      BY <1>5, <1>6, <2>1
    <3>2. lo + bkt[b] <= i /\ j < lo + bkt[c + 1]
      BY <1>1
    <3>3. i \in Int /\ j \in Int /\ lo \in Int
      OBVIOUS
    <3> HIDE DEF bkt, lo, b, c
    <3> QED BY ONLY <1>13, <3>1, <3>2, <3>3
  <2>4. b = BucketIn(spl, x) /\ c = BucketIn(spl, y)
    BY DEF in
  <2>5. x \in Int /\ y \in Int
    <3>1. x \in Keys /\ y \in Keys
      BY <1>2, KeyIsKey
    <3> HIDE DEF x, y
    <3> QED BY <3>1, KeysAreNumbers
  <2>6. x < y
    <3> SUFFICES ASSUME y <= x PROVE FALSE
      BY <2>5
    <3>1. spl \in [0 .. NumSplitters - 1 -> Int] /\ NumSplitters \in Nat
      BY KeysAreNumbers, BktNumIs DEF spl
    <3>2. \A l, m \in 0 .. NumSplitters - 1 : l < m => spl[l] <= spl[m]
      BY DEF spl
    <3> HIDE DEF x, y, b, c
    <3>3. BucketIn(spl, y) <= BucketIn(spl, x)
      BY ONLY <2>5, <3>1, <3>2, y <= x, BucketMonotonic
    <3> QED BY ONLY <1>0, <2>1, <2>3, <2>4, <3>3
  <2>7. W[i] \in CStrings /\ W[j] \in CStrings /\ Share(W[i], W[j], f.depth)
    BY <1>2
  <2>8. LessFrom(0, W[i], W[j])
    BY ONLY <1>2, <2>5, <2>6, <2>7, KeysApart
  <2> QED BY ONLY <2>7, <2>8, AtMostOrders
<1>14. \A i \in P : (\A t \in Q : i \notin Covers(t)) => array[out][i] = W[i]
  BY <1>12
<1> QED BY ONLY <1>2, <1>10, <1>11, <1>13, <1>14 DEF Truth, Q
(* The strings of a new frame of the quicksort. *)
QuickDealt(V, W, keys, lo, n, depth, lt, eq, gt, pivot) ==
  /\ lt \in Nat /\ eq \in Nat \ {0} /\ gt \in Nat /\ lt + eq + gt = n
  /\ W \in Rearranged(V, lo .. lo + n - 1)
  /\ \A i \in lo .. lo + n - 1 : keys[i] = KeyAt(W[i], depth)
  /\ \A i \in lo .. lo + n - 1 : i < lo + lt => keys[i] < pivot
  /\ \A i \in lo .. lo + n - 1 : lo + lt <= i /\ i < lo + (lt + eq) => keys[i] = pivot
  /\ \A i \in lo .. lo + n - 1 : lo + (lt + eq) <= i => keys[i] > pivot

LEMMA QuickPartition ==
  ASSUME NEW D \in SUBSET Int, NEW V, V = [i \in D |-> V[i]],
         NEW lo \in Int, NEW n \in Nat, n > 2, lo .. lo + n - 1 \subseteq D,
         NEW depth, Sharing(V, lo .. lo + n - 1, depth),
         NEW items, items = [k \in 0 .. n - 1 |-> items[k]],
         \A k \in 0 .. n - 1 : items[k].string = V[lo + k] /\ items[k].key = KeyAt(V[lo + k], depth),
         NEW r \in Partitions(items, n),
         NEW W, W = Put(V, lo, [k \in 1 .. n |-> r.items[k - 1].string]),
         NEW cached, NEW keys, DOMAIN cached = D,
         keys = Put(cached, lo, [k \in 1 .. n |-> r.items[k - 1].key])
  PROVE  QuickDealt(V, W, keys, lo, n, depth, r.lt, r.eq, r.gt, r.pivot)
<1> DEFINE P == lo .. lo + n - 1
           Z == 0 .. n - 1
           it == r.items
<1>1. \A k \in Z : V[lo + k] \in CStrings /\ lo + k \in P
  <2> SUFFICES ASSUME NEW k \in Z PROVE V[lo + k] \in CStrings /\ lo + k \in P
    OBVIOUS
  <2>1. lo + k \in P
    OBVIOUS
  <2> QED BY <2>1 DEF Sharing
<1>2. depth \in Nat
  BY DEF Sharing
<1>3. \A k \in Z : items[k].key \in Int
  <2> SUFFICES ASSUME NEW k \in Z PROVE items[k].key \in Int
    OBVIOUS
  <2>1. items[k].key = KeyAt(V[lo + k], depth) /\ V[lo + k] \in CStrings
    BY <1>1
  <2>2. KeyAt(V[lo + k], depth) \in Keys
    BY <1>2, <2>1, KeyIsKey
  <2> QED BY <2>1, <2>2, KeysAreNumbers
<1>4. PICK k0 \in Z : Parted(r, items, n, items[k0].key)
  <2>1. DOMAIN items = 0 .. n - 1
    OBVIOUS
  <2> QED BY <1>3, <2>1, PartitionsRight
<1>5. /\ r.lt \in Nat /\ r.eq \in Nat \ {0} /\ r.gt \in Nat /\ r.lt + r.eq + r.gt = n
      /\ it \in Rearranged(items, Z)
      /\ \A k \in 0 .. r.lt - 1 : it[k].key < r.pivot
      /\ \A k \in r.lt .. r.lt + r.eq - 1 : it[k].key = r.pivot
      /\ \A k \in r.lt + r.eq .. n - 1 : it[k].key > r.pivot
  BY ONLY <1>4 DEF Parted
<1> HIDE DEF it
<1>6. PICK p : Bijective(p, Z) /\ \A k \in Z : it[k] = items[p[k]]
  BY ONLY <1>5 DEF Rearranged, Permuted
<1>7. \A k \in Z : it[k].string = V[lo + p[k]] /\ it[k].key = KeyAt(it[k].string, depth) /\ p[k] \in Z
  <2> SUFFICES ASSUME NEW k \in Z
               PROVE it[k].string = V[lo + p[k]] /\ it[k].key = KeyAt(it[k].string, depth) /\ p[k] \in Z
    OBVIOUS
  <2>1. p[k] \in Z /\ it[k] = items[p[k]]
    BY ONLY <1>6, k \in Z DEF Bijective
  <2>2. items[p[k]].string = V[lo + p[k]] /\ items[p[k]].key = KeyAt(V[lo + p[k]], depth)
    BY <2>1
  <2> QED BY ONLY <2>1, <2>2
<1>8. \A i \in P : i \in D /\ i - lo \in Z /\ W[i] = it[i - lo].string /\ keys[i] = it[i - lo].key
  <2> SUFFICES ASSUME NEW i \in P
               PROVE i \in D /\ i - lo \in Z /\ W[i] = it[i - lo].string /\ keys[i] = it[i - lo].key
    OBVIOUS
  <2>1. i \in D /\ i - lo \in Z /\ i - lo + 1 \in 1 .. n /\ (i - lo + 1) - 1 = i - lo
    OBVIOUS
  <2> DEFINE s1 == [k \in 1 .. n |-> it[k - 1].string]
             s2 == [k \in 1 .. n |-> it[k - 1].key]
  <2>2. s1[i - lo + 1] = it[i - lo].string /\ s2[i - lo + 1] = it[i - lo].key /\ DOMAIN s1 = 1 .. n /\ DOMAIN s2 = 1 .. n
    BY <2>1
  <2>3. W = Put(V, lo, s1) /\ keys = Put(cached, lo, s2) /\ DOMAIN V = D /\ DOMAIN cached = D
    BY DEF it
  <2> HIDE DEF s1, s2, P, Z
  <2>4. W[i] = s1[i - lo + 1] /\ keys[i] = s2[i - lo + 1]
    BY ONLY <2>1, <2>2, <2>3 DEF Put
  <2> QED BY ONLY <2>1, <2>2, <2>4
<1>9. \A i \in D \ P : W[i] = V[i]
  <2> SUFFICES ASSUME NEW i \in D \ P PROVE W[i] = V[i]
    OBVIOUS
  <2>1. i \in D /\ i - lo + 1 \notin 1 .. n
    OBVIOUS
  <2> QED BY <2>1 DEF Put
<1> DEFINE g == [i \in P |-> lo + p[i - lo]]
<1>10. \A i \in P : g[i] \in P /\ g[i] - lo = p[i - lo] /\ W[i] = V[g[i]]
  <2> SUFFICES ASSUME NEW i \in P PROVE g[i] \in P /\ g[i] - lo = p[i - lo] /\ W[i] = V[g[i]]
    OBVIOUS
  <2>1. g[i] = lo + p[i - lo] /\ i - lo \in Z
    BY <1>8
  <2>2. p[i - lo] \in Z
    BY <1>7, <2>1
  <2>3. W[i] = V[lo + p[i - lo]]
    BY <1>7, <1>8, <2>1
  <2> HIDE DEF g
  <2>4. g[i] \in P /\ g[i] - lo = p[i - lo]
    BY ONLY <2>1, <2>2, lo \in Int, n \in Nat
  <2> QED BY ONLY <2>1, <2>3, <2>4
<1>11. Bijective(g, P)
  <2>1. \A i, j \in P : g[i] = g[j] => i = j
    <3> SUFFICES ASSUME NEW i \in P, NEW j \in P, g[i] = g[j] PROVE i = j
      OBVIOUS
    <3>1. p[i - lo] = p[j - lo]
      <4>1. g[i] - lo = p[i - lo] /\ g[j] - lo = p[j - lo]
        BY <1>10
      <4> HIDE DEF g
      <4> QED BY ONLY <4>1, g[i] = g[j]
    <3>2. i - lo = j - lo
      BY <1>6, <1>8, <3>1 DEF Bijective
    <3> QED BY ONLY <3>2, i \in P, j \in P, lo \in Int, n \in Nat
  <2>2. \A j \in P : \E i \in P : g[i] = j
    <3> SUFFICES ASSUME NEW j \in P PROVE \E i \in P : g[i] = j
      OBVIOUS
    <3>1. PICK q \in Z : p[q] = j - lo
      BY <1>6, <1>8 DEF Bijective
    <3>2. lo + q \in P /\ (lo + q) - lo = q
      OBVIOUS
    <3>3. g[lo + q] = lo + p[q]
      BY <3>2
    <3>4. lo + (j - lo) = j
      OBVIOUS
    <3> QED BY ONLY <3>1, <3>2, <3>3, <3>4
  <2>3. g \in [P -> P]
    <3>1. g = [i \in P |-> g[i]]
      OBVIOUS
    <3> HIDE DEF g
    <3> QED BY ONLY <1>10, <3>1
  <2> HIDE DEF g, P
  <2> QED BY <2>1, <2>2, <2>3 DEF Bijective
<1>12. W \in Rearranged(V, P)
  <2> HIDE DEF g, P
  <2>1. Permuted(V, W, P)
    BY <1>10, <1>11 DEF Permuted
  <2>2. W = [i \in D |-> W[i]]
    BY DEF Put
  <2>3. \A i \in D : W[i] \in {V[j] : j \in D}
    <3> SUFFICES ASSUME NEW i \in D PROVE \E j \in D : W[i] = V[j]
      OBVIOUS
    <3>1. P \subseteq D
      BY DEF P
    <3> QED BY <1>9, <1>10, <3>1
  <2>4. DOMAIN V = D
    OBVIOUS
  <2>5. W \in [D -> {V[j] : j \in D}]
    BY ONLY <2>2, <2>3
  <2> QED BY <1>9, <2>1, <2>4, <2>5 DEF Rearranged
<1>13. \A i \in P : keys[i] = KeyAt(W[i], depth)
  BY <1>7, <1>8
<1>14. /\ \A i \in P : i < lo + r.lt => keys[i] < r.pivot
       /\ \A i \in P : lo + r.lt <= i /\ i < lo + (r.lt + r.eq) => keys[i] = r.pivot
       /\ \A i \in P : lo + (r.lt + r.eq) <= i => keys[i] > r.pivot
  <2> SUFFICES ASSUME NEW i \in P
               PROVE  /\ i < lo + r.lt => keys[i] < r.pivot
                      /\ lo + r.lt <= i /\ i < lo + (r.lt + r.eq) => keys[i] = r.pivot
                      /\ lo + (r.lt + r.eq) <= i => keys[i] > r.pivot
    OBVIOUS
  <2>1. i - lo \in Z /\ keys[i] = it[i - lo].key
    BY <1>8
  <2> DEFINE lt == r.lt
             eq == r.eq
             gt == r.gt
  <2>2. lt \in Nat /\ eq \in Nat /\ gt \in Nat
    BY <1>5
  <2> HIDE DEF lt, eq, gt
  <2>3. /\ i < lo + lt => i - lo \in 0 .. lt - 1
        /\ lo + lt <= i /\ i < lo + (lt + eq) => i - lo \in lt .. lt + eq - 1
        /\ lo + (lt + eq) <= i => i - lo \in lt + eq .. n - 1
    BY ONLY <2>1, <2>2, lo \in Int, n \in Nat, i \in P
  <2> QED BY ONLY <1>5, <2>1, <2>3 DEF lt, eq
<1> HIDE DEF g, P
<1> QED BY ONLY <1>5, <1>12, <1>13, <1>14 DEF QuickDealt, P
LEMMA QuickTrue ==
  ASSUME NEW V, NEW W, NEW f, f.lo \in Int, f.n \in Nat, f.flip \in BOOLEAN, f.idx = 0,
         NEW P, P = f.lo .. f.lo + f.n - 1, Sharing(V, P, f.depth),
         NEW cached, QuickDealt(V, W, cached, f.lo, f.n, f.depth, f.lt, f.eq, f.gt, f.pivot),
         NEW array, \A i \in P : array[f.flip][i] = W[i],
         NEW space \in Int, KeyCells * f.n <= space, NEW k, NEW out
  PROVE  Truth(W, P, out, array, cached, space, PartItems(k, f))
<1> DEFINE lo == f.lo
           lt == f.lt
           eq == f.eq
           gt == f.gt
           n == f.n
           depth == f.depth
           Q == PartItems(k, f)
           item(p) == PartItem(k, f, p)
           from(p) == IF p = 1 THEN lo ELSE IF p = 2 THEN lo + lt ELSE lo + (lt + eq)
           size(p) == IF p = 1 THEN lt ELSE IF p = 2 THEN eq ELSE gt
<1>1. /\ lt \in Nat /\ eq \in Nat \ {0} /\ gt \in Nat /\ lt + eq + gt = n
      /\ W \in Rearranged(V, P)
      /\ \A i \in P : cached[i] = KeyAt(W[i], depth)
      /\ \A i \in P : i < lo + lt => cached[i] < f.pivot
      /\ \A i \in P : lo + lt <= i /\ i < lo + (lt + eq) => cached[i] = f.pivot
      /\ \A i \in P : lo + (lt + eq) <= i => cached[i] > f.pivot
  BY DEF QuickDealt
<1>2. Sharing(W, P, depth)
  <2>1. Permuted(V, W, P)
    BY <1>1 DEF Rearranged
  <2> QED BY <2>1, SharingPermuted
<1>3. depth \in Nat /\ (\A i \in P : W[i] \in CStrings) /\ \A i, j \in P : Share(W[i], W[j], depth)
  BY <1>2 DEF Sharing
<1>4. Q = {item(1), item(2), item(3)}
  <2>1. f.idx + 1 .. 3 = {1, 2, 3}
    OBVIOUS
  <2> QED BY <2>1 DEF PartItems
<1>5. ASSUME NEW p \in 1 .. 3
      PROVE /\ item(p).sec.flip = f.flip /\ item(p).depth = PartDepth(f, p) /\ item(p).cached = {depth}
            /\ (item(p).done <=> PivotDone(f, p)) /\ item(p).part = p
            /\ item(p).sec.lo = from(p) /\ item(p).sec.n = size(p) /\ item(p).room = KeyCells * size(p)
            /\ Covers(item(p)) = from(p) .. from(p) + size(p) - 1
  <2>1. lo + 0 = lo
    OBVIOUS
  <2>2. /\ item(p).sec.flip = f.flip /\ item(p).depth = PartDepth(f, p) /\ item(p).cached = {depth}
        /\ (item(p).done <=> PivotDone(f, p)) /\ item(p).part = p
        /\ item(p).sec.lo = from(p) /\ item(p).sec.n = size(p)
        /\ Covers(item(p)) = item(p).sec.lo .. item(p).sec.lo + item(p).sec.n - 1
    BY <2>1, PartItemIs
  <2>3. item(p).room = KeyCells * item(p).sec.n
    <3>1. item(p).room = KeyCells * PartSection(f, p).n /\ item(p).sec = PartSection(f, p)
      BY PartItemIs
    <3> HIDE DEF item
    <3> QED BY ONLY <3>1
  <2> HIDE DEF item, from, size
  <2> QED BY ONLY <2>2, <2>3
<1> HIDE DEF item, Q
<1>6. \A p \in 1 .. 3 : \A i \in Int : i \in Covers(item(p)) <=> i \in P /\ from(p) <= i /\ i < from(p) + size(p)
  <2> SUFFICES ASSUME NEW p \in 1 .. 3, NEW i \in Int
               PROVE i \in Covers(item(p)) <=> i \in P /\ from(p) <= i /\ i < from(p) + size(p)
    OBVIOUS
  <2>1. Covers(item(p)) = from(p) .. from(p) + size(p) - 1
    BY <1>5
  <2>2. P = lo .. lo + n - 1 /\ lo \in Int /\ n \in Nat
    OBVIOUS
  <2>3. p = 1 \/ p = 2 \/ p = 3
    OBVIOUS
  <2> HIDE DEF lo, lt, eq, gt, n
  <2>4. from(p) \in Int /\ size(p) \in Nat /\ lo <= from(p) /\ from(p) + size(p) <= lo + n
    <3>1. CASE p = 1
      BY ONLY <1>1, <2>2, <3>1
    <3>2. CASE p = 2
      BY ONLY <1>1, <2>2, <3>2
    <3>3. CASE p = 3
      BY ONLY <1>1, <2>2, <3>3
    <3> QED BY <2>3, <3>1, <3>2, <3>3
  <2> HIDE DEF from, size
  <2> QED BY ONLY <2>1, <2>2, <2>4, i \in Int
<1>7. P \subseteq Int
  OBVIOUS
<1>8. \A p \in 1 .. 3 : /\ from(p) \in Int /\ size(p) \in Nat /\ size(p) <= n
                        /\ KeyCells * size(p) <= space
  <2> SUFFICES ASSUME NEW p \in 1 .. 3
               PROVE from(p) \in Int /\ size(p) \in Nat /\ size(p) <= n /\ KeyCells * size(p) <= space
    OBVIOUS
  <2>1. lo \in Int /\ n \in Nat /\ space \in Int /\ 4 * n <= space
    BY DEF KeyCells
  <2> HIDE DEF lo, lt, eq, gt, n
  <2>2. from(p) \in Int /\ size(p) \in Nat /\ size(p) <= n
    BY ONLY <1>1, <2>1
  <2> HIDE DEF from, size
  <2>3. 4 * size(p) <= space
    BY ONLY <2>1, <2>2
  <2> QED BY ONLY <2>2, <2>3 DEF KeyCells
<1>9. /\ \A i \in Covers(item(1)) : i \in P /\ KeyAt(W[i], depth) < f.pivot
      /\ \A i \in Covers(item(2)) : i \in P /\ KeyAt(W[i], depth) = f.pivot
      /\ \A i \in Covers(item(3)) : i \in P /\ KeyAt(W[i], depth) > f.pivot
  <2>0. \A p \in 1 .. 3 : Covers(item(p)) \subseteq Int
    <3> SUFFICES ASSUME NEW p \in 1 .. 3 PROVE Covers(item(p)) \subseteq Int
      OBVIOUS
    <3>1. Covers(item(p)) = from(p) .. from(p) + size(p) - 1
      BY <1>5
    <3> HIDE DEF from, size
    <3> QED BY ONLY <3>1
  <2> DEFINE C1 == Covers(item(1))
             C2 == Covers(item(2))
             C3 == Covers(item(3))
  <2>1. /\ \A i \in C1 : i \in P /\ lo <= i /\ i < lo + lt
        /\ \A i \in C2 : i \in P /\ lo + lt <= i /\ i < (lo + lt) + eq
        /\ \A i \in C3 : i \in P /\ lo + (lt + eq) <= i
    BY <1>6, <2>0
  <2>2. lo \in Int /\ P \subseteq Int
    OBVIOUS
  <2> HIDE DEF lo, lt, eq, gt, n, depth, C1, C2, C3
  <2>3. \A i \in C2 : i < lo + (lt + eq)
    BY ONLY <1>1, <2>1, <2>2
  <2>4. /\ \A i \in C1 : i \in P /\ KeyAt(W[i], depth) < f.pivot
        /\ \A i \in C2 : i \in P /\ KeyAt(W[i], depth) = f.pivot
        /\ \A i \in C3 : i \in P /\ KeyAt(W[i], depth) > f.pivot
    BY ONLY <1>1, <2>1, <2>3
  <2> QED BY <2>4 DEF C1, C2, C3, depth
<1>10. \A i \in P : \E p \in 1 .. 3 : i \in Covers(item(p))
  <2> SUFFICES ASSUME NEW i \in P PROVE \E p \in 1 .. 3 : from(p) <= i /\ i < from(p) + size(p)
    BY <1>6, <1>7
  <2>1. P = lo .. lo + n - 1 /\ lo \in Int /\ n \in Nat
    OBVIOUS
  <2> HIDE DEF lo, lt, eq, gt, n
  <2>2. \/ lo <= i /\ i < lo + lt
        \/ lo + lt <= i /\ i < lo + lt + eq
        \/ lo + (lt + eq) <= i /\ i < lo + (lt + eq) + gt
    BY ONLY <1>1, <2>1, i \in P
  <2>3. /\ from(1) = lo /\ size(1) = lt /\ from(2) = lo + lt /\ size(2) = eq
        /\ from(3) = lo + (lt + eq) /\ size(3) = gt /\ 1 \in 1 .. 3 /\ 2 \in 1 .. 3 /\ 3 \in 1 .. 3
    OBVIOUS
  <2> HIDE DEF from, size
  <2> QED BY ONLY <2>2, <2>3
<1>11. \A p, q \in 1 .. 3 : p # q => Covers(item(p)) \cap Covers(item(q)) = {}
  <2>1. ASSUME NEW p \in 1 .. 3, NEW q \in 1 .. 3, p < q
        PROVE Covers(item(p)) \cap Covers(item(q)) = {}
    <3> SUFFICES ASSUME NEW i, i \in Covers(item(p)), i \in Covers(item(q)) PROVE FALSE
      OBVIOUS
    <3>1. Covers(item(p)) = from(p) .. from(p) + size(p) - 1 /\ Covers(item(q)) = from(q) .. from(q) + size(q) - 1
      BY <1>5
    <3>2. from(p) \in Int /\ size(p) \in Nat /\ from(q) \in Int /\ size(q) \in Nat
      BY <1>8
    <3>3. lo \in Int
      OBVIOUS
    <3> HIDE DEF lo, lt, eq, gt, n
    <3>4. from(p) + size(p) <= from(q)
      <4>1. \/ p = 1 /\ q = 2
            \/ p = 1 /\ q = 3
            \/ p = 2 /\ q = 3
        BY <2>1
      <4> QED BY ONLY <1>1, <3>3, <4>1
    <3> HIDE DEF from, size
    <3> QED BY ONLY <3>1, <3>2, <3>4, i \in Covers(item(p)), i \in Covers(item(q))
  <2>2. \A p, q \in 1 .. 3 : p < q \/ q < p \/ p = q
    OBVIOUS
  <2> QED BY <2>1, <2>2
<1>12. ASSUME NEW p \in 1 .. 3 PROVE ItemTrue(W, P, array, cached, space, item(p))
  <2> DEFINE t == item(p)
             C == Covers(t)
  <2>1. /\ t.sec.flip = f.flip /\ t.depth = PartDepth(f, p) /\ t.cached = {depth}
        /\ (t.done <=> PivotDone(f, p)) /\ t.sec.lo = from(p) /\ t.sec.n = size(p)
        /\ t.room = KeyCells * size(p) /\ C = from(p) .. from(p) + size(p) - 1
    BY <1>5
  <2>2. C \subseteq P
    <3>1. C \subseteq Int
      BY <1>8, <2>1
    <3> QED BY <1>6, <3>1
  <2>3. t.sec.lo \in Int /\ t.sec.n \in Nat /\ t.sec.flip \in BOOLEAN /\ t.room <= space
    BY <1>8, <2>1
  <2>4. \A i \in C : array[t.sec.flip][i] = W[i]
    BY <2>1, <2>2
  <2>5. \A d \in t.cached : \A i \in C : cached[i] = KeyAt(W[i], d)
    BY <1>1, <2>1, <2>2
  <2>6. CASE p # 2
    <3>1. ~t.done /\ t.depth = depth
      BY <2>1, <2>6 DEF PivotDone, PartDepth
    <3>2. Sharing(W, C, t.depth)
      BY <1>3, <2>2, <3>1 DEF Sharing
    <3> QED BY <2>2, <2>3, <2>4, <2>5, <3>1, <3>2 DEF ItemTrue
  <2>7. CASE p = 2
    <3>1. t.done <=> Terminated(f.pivot)
      BY <2>1, <2>7 DEF PivotDone
    <3>2. t.depth = depth + KeyWidth
      BY <2>1, <2>7 DEF PartDepth
    <3>3. \A i \in C : KeyAt(W[i], depth) = f.pivot
      BY <1>9, <2>7
    <3>4. ASSUME NEW i \in C, NEW j \in C
          PROVE /\ Terminated(f.pivot) => W[i] = W[j]
                /\ ~Terminated(f.pivot) => Share(W[i], W[j], depth + KeyWidth)
      <4>1. /\ W[i] \in CStrings /\ W[j] \in CStrings /\ depth \in Nat /\ Share(W[i], W[j], depth)
            /\ KeyAt(W[i], depth) = KeyAt(W[j], depth) /\ KeyAt(W[i], depth) = f.pivot
        BY <1>3, <2>2, <3>3
      <4> HIDE DEF depth, C, t
      <4>2. /\ ~Terminated(KeyAt(W[i], depth)) => Share(W[i], W[j], depth + KeyWidth)
            /\ Terminated(KeyAt(W[i], depth)) => W[i] = W[j]
        BY ONLY <4>1, KeysSame
      <4> QED BY ONLY <4>1, <4>2
    <3>5. depth + KeyWidth \in Nat
      BY <1>3, KeyAssumption
    <3>6. ~t.done => Sharing(W, C, t.depth)
      BY <1>3, <2>2, <3>1, <3>2, <3>4, <3>5 DEF Sharing
    <3>7. t.done => \A i, j \in C : W[i] = W[j]
      BY <3>1, <3>4
    <3> QED BY <2>2, <2>3, <2>4, <2>5, <3>6, <3>7 DEF ItemTrue
  <2> QED BY <2>6, <2>7
<1>13. \A t \in Q : \E p \in 1 .. 3 : t = item(p)
  BY <1>4
<1>14. \A p \in 1 .. 3 : item(p) \in Q
  BY <1>4
<1>15. ASSUME NEW i \in P, NEW j \in P, i < j, ~Together(Q, i, j) PROVE AtMost(W[i], W[j])
  <2>1. PICK p \in 1 .. 3 : i \in Covers(item(p))
    BY <1>10
  <2>2. PICK q \in 1 .. 3 : j \in Covers(item(q))
    BY <1>10
  <2>3. p # q
    BY <1>14, <1>15, <2>1, <2>2 DEF Together
  <2>4. p < q
    <3> SUFFICES ASSUME q < p PROVE FALSE
      BY <2>3
    <3>1. from(p) <= i /\ j < from(q) + size(q) /\ i \in Int /\ j \in Int
      BY <1>6, <1>7, <2>1, <2>2
    <3>2. lo \in Int
      OBVIOUS
    <3>3. from(q) + size(q) <= from(p)
      <4>1. \/ q = 1 /\ p = 2
            \/ q = 1 /\ p = 3
            \/ q = 2 /\ p = 3
        OBVIOUS
      <4> HIDE DEF lo, lt, eq, gt, n
      <4> QED BY ONLY <1>1, <3>2, <4>1
    <3>4. from(p) \in Int /\ from(q) + size(q) \in Int
      BY <1>8
    <3> HIDE DEF from, size
    <3> QED BY ONLY <1>15, <3>1, <3>3, <3>4
  <2>5. KeyAt(W[i], depth) < KeyAt(W[j], depth)
    <3>1. KeyAt(W[i], depth) \in Int /\ KeyAt(W[j], depth) \in Int
      <4>1. KeyAt(W[i], depth) \in Keys /\ KeyAt(W[j], depth) \in Keys
        BY <1>3, KeyIsKey
      <4> QED BY <4>1, KeysAreNumbers
    <3>2. \/ p = 1 /\ q = 2
          \/ p = 1 /\ q = 3
          \/ p = 2 /\ q = 3
      BY <2>4
    <3>4. f.pivot \in Int
      <4>1. lo + lt \in P /\ lo + lt <= lo + lt /\ lo + lt < lo + (lt + eq)
        <5>1. lo \in Int /\ P = lo .. lo + n - 1
          OBVIOUS
        <5> HIDE DEF lo, lt, eq, gt, n
        <5> QED BY ONLY <1>1, <5>1
      <4>2. KeyAt(W[lo + lt], depth) = f.pivot
        BY <1>1, <4>1
      <4>3. KeyAt(W[lo + lt], depth) \in Keys
        BY <1>3, <4>1, KeyIsKey
      <4> QED BY <4>2, <4>3, KeysAreNumbers
    <3> HIDE DEF depth
    <3> QED BY <1>9, <2>1, <2>2, <3>1, <3>2, <3>4
  <2>7. W[i] \in CStrings /\ W[j] \in CStrings /\ Share(W[i], W[j], depth)
    BY <1>3
  <2>6. KeyAt(W[i], depth) # KeyAt(W[j], depth) /\ depth \in Nat
    <3>1. KeyAt(W[i], depth) \in Int
      <4>1. KeyAt(W[i], depth) \in Keys
        BY <1>3, KeyIsKey
      <4> QED BY <4>1, KeysAreNumbers
    <3> HIDE DEF depth
    <3> QED BY <1>3, <2>5, <3>1
  <2>8. LessFrom(0, W[i], W[j])
    <3> HIDE DEF depth
    <3> QED BY ONLY <2>5, <2>6, <2>7, KeysApart
  <2> QED BY ONLY <2>7, <2>8, AtMostOrders
<1>16. \A i \in P : (\A t \in Q : i \notin Covers(t)) => array[out][i] = W[i]
  BY <1>10, <1>14
<1>17. \A t, u \in Q : t # u => Covers(t) \cap Covers(u) = {}
  BY <1>11, <1>13
<1>18. \A t \in Q : ItemTrue(W, P, array, cached, space, t)
  BY <1>12, <1>13
<1> QED BY ONLY <1>3, <1>15, <1>16, <1>17, <1>18 DEF Truth, Q
-----------------------------------------------------------------------------
(* What is done to a section: its strings become others, of which R is     *)
(* left to do, and nothing else is touched.                                *)
Stored == CStrings \union {Moved}

Left(V, C, out, a, c, r, R) == \E W \in Rearranged(V, C) : Truth(W, C, out, a, c, r, R)

Worked(V, D, C, out, a, c, a1, c1, r1, R) ==
  /\ a1 \in [BOOLEAN -> [D -> Stored]] /\ c1 = [i \in D |-> c1[i]]
  /\ \A i \in D \ C : \A side \in BOOLEAN : a1[side][i] = a[side][i]
  /\ \A i \in D \ C : c1[i] = c[i]
  /\ Left(V, C, out, a1, c1, r1, R)

BroughtHome(a, b, D, P, out, flip) ==
  /\ b \in [BOOLEAN -> [D -> Stored]]
  /\ \A i \in D : i \in P => b[out][i] = a[flip][i]
  /\ \A i \in D \ P : \A side \in BOOLEAN : b[side][i] = a[side][i]

LEMMA CopiedBack ==
  ASSUME NEW D, NEW a \in [BOOLEAN -> [D -> Stored]], NEW sec, sec.flip \in BOOLEAN,
         NEW cls, cls.out \in BOOLEAN
  PROVE  BroughtHome(a, CopyBack(cls, a, sec), D, Positions(sec), cls.out, sec.flip)
<1> DEFINE home == CopyBack(cls, a, sec)
           P == Positions(sec)
<1>1. CASE sec.flip = cls.out
  <2>1. home = a
    BY <1>1 DEF CopyBack
  <2> HIDE DEF home
  <2>2. BroughtHome(a, home, D, P, cls.out, sec.flip)
    BY <1>1, <2>1 DEF BroughtHome
  <2> QED BY <2>2 DEF home
<1>2. CASE sec.flip # cls.out
  <2>1. home = [side \in BOOLEAN |-> [i \in DOMAIN a[side] |->
          IF i \notin P THEN a[side][i]
          ELSE IF side = cls.out THEN a[~side][i] ELSE Moved]]
    BY <1>2 DEF CopyBack
  <2> HIDE DEF home, P
  <2>2. (~TRUE) = FALSE /\ (~FALSE) = TRUE
    OBVIOUS
  <2>3. \/ cls.out = TRUE /\ sec.flip = FALSE
        \/ cls.out = FALSE /\ sec.flip = TRUE
    BY <1>2
  <2>4. DOMAIN a[TRUE] = D /\ DOMAIN a[FALSE] = D /\ TRUE \in BOOLEAN /\ FALSE \in BOOLEAN
    OBVIOUS
  <2>5. /\ home[TRUE] = [i \in D |-> IF i \notin P THEN a[TRUE][i]
                           ELSE IF TRUE = cls.out THEN a[FALSE][i] ELSE Moved]
        /\ home[FALSE] = [i \in D |-> IF i \notin P THEN a[FALSE][i]
                           ELSE IF FALSE = cls.out THEN a[TRUE][i] ELSE Moved]
    BY ONLY <2>1, <2>2, <2>4
  <2>6. \A i \in D : a[TRUE][i] \in Stored /\ a[FALSE][i] \in Stored /\ Moved \in Stored
    BY DEF Stored
  <2>7. home[TRUE] \in [D -> Stored] /\ home[FALSE] \in [D -> Stored]
    BY ONLY <2>5, <2>6
  <2>8. home = [side \in BOOLEAN |-> home[side]]
    BY ONLY <2>1
  <2>9. home \in [BOOLEAN -> [D -> Stored]]
    BY ONLY <2>7, <2>8
  <2>10. \A i \in D : i \in P => home[cls.out][i] = a[sec.flip][i]
    <3>1. \A i \in D : i \in P => (TRUE = cls.out => home[TRUE][i] = a[FALSE][i])
                                 /\ (FALSE = cls.out => home[FALSE][i] = a[TRUE][i])
      <4> SUFFICES ASSUME NEW i \in D, i \in P
                   PROVE  /\ TRUE = cls.out => home[TRUE][i] = a[FALSE][i]
                          /\ FALSE = cls.out => home[FALSE][i] = a[TRUE][i]
        OBVIOUS
      <4>1. /\ home[TRUE][i] = IF TRUE = cls.out THEN a[FALSE][i] ELSE Moved
            /\ home[FALSE][i] = IF FALSE = cls.out THEN a[TRUE][i] ELSE Moved
        BY ONLY <2>5, i \in D, i \in P, Zenon
      <4> QED BY ONLY <4>1, Zenon
    <3>2. ASSUME cls.out = TRUE /\ sec.flip = FALSE
          PROVE  \A i \in D : i \in P => home[cls.out][i] = a[sec.flip][i]
      BY <3>1, <3>2, Zenon
    <3>3. ASSUME cls.out = FALSE /\ sec.flip = TRUE
          PROVE  \A i \in D : i \in P => home[cls.out][i] = a[sec.flip][i]
      BY <3>1, <3>3, Zenon
    <3> QED BY <2>3, <3>2, <3>3, Zenon
  <2>11. \A i \in D \ P : \A side \in BOOLEAN : home[side][i] = a[side][i]
    <3>1. \A i \in D \ P : home[TRUE][i] = a[TRUE][i] /\ home[FALSE][i] = a[FALSE][i]
      BY ONLY <2>5
    <3> QED BY <3>1
  <2>12. BroughtHome(a, home, D, P, cls.out, sec.flip)
    BY ONLY <2>9, <2>10, <2>11 DEF BroughtHome
  <2> QED BY <2>12 DEF home, P
<1> QED BY <1>1, <1>2

(* Strings in order are done with when they are home.                      *)
LEMMA SettledPart ==
  ASSUME NEW D \in SUBSET Int, NEW V, V = [i \in D |-> V[i]], NEW C \in SUBSET D,
         \A i \in C : V[i] \in CStrings, NEW g, Permuted(V, g, C), OrderedOn(g, C),
         NEW out, NEW a, \A i \in C : a[out][i] = g[i], NEW c, NEW r
  PROVE  Left(V, C, out, a, c, r, {})
<1> DEFINE W == [i \in D |-> IF i \in C THEN g[i] ELSE V[i]]
<1>1. DOMAIN V = D
  OBVIOUS
<1>2. \A i \in C : \E j \in C : g[i] = V[j]
  BY PermutedFrom
<1>3. (\A i \in C : W[i] = g[i]) /\ (\A i \in D \ C : W[i] = V[i]) /\ W = [i \in D |-> W[i]]
  OBVIOUS
<1> HIDE DEF W
<1>4. \A i \in D : W[i] \in {V[j] : j \in D}
  <2> SUFFICES ASSUME NEW i \in D PROVE \E j \in D : W[i] = V[j]
    OBVIOUS
  <2> QED BY ONLY <1>2, <1>3, C \in SUBSET D, i \in D
<1>5. W \in [D -> {V[j] : j \in D}]
  BY ONLY <1>3, <1>4
<1>6. Permuted(V, W, C)
  BY <1>3, PermutedAgree
<1>7. W \in Rearranged(V, C)
  BY <1>1, <1>3, <1>5, <1>6 DEF Rearranged
<1>8. \A i \in C : W[i] \in CStrings
  BY <1>2, <1>3
<1>9. OrderedOn(W, C)
  BY <1>3 DEF OrderedOn
<1>10. Truth(W, C, out, a, c, r, {})
  BY <1>3, <1>8, <1>9 DEF Truth, OrderedOn
<1> QED BY <1>7, <1>10 DEF Left

(* A section of equal strings. *)
AllEqual(V, C) == \A i, j \in C : V[i] = V[j]

LEMMA EqualWorks ==
  ASSUME NEW D \in SUBSET Int, NEW V, V = [i \in D |-> V[i]], \A i \in D : V[i] \in CStrings,
         NEW a, NEW c, c = [i \in D |-> c[i]], NEW r,
         NEW t, ItemTrue(V, D, a, c, r, t), AllEqual(V, Covers(t)),
         NEW out, NEW a1, BroughtHome(a, a1, D, Covers(t), out, t.sec.flip), NEW r1
  PROVE  Worked(V, D, Covers(t), out, a, c, a1, c, r1, {})
<1> DEFINE C == Covers(t)
<1>1. /\ C \subseteq D /\ t.sec.flip \in BOOLEAN
      /\ \A i \in C : a[t.sec.flip][i] = V[i]
      /\ \A i, j \in C : V[i] = V[j]
  BY DEF ItemTrue, AllEqual
<1>4. BroughtHome(a, a1, D, C, out, t.sec.flip)
  OBVIOUS
<1> HIDE DEF C
<1>5. Permuted(V, V, C)
  BY PermutedSame
<1>6. OrderedOn(V, C)
  <2> SUFFICES ASSUME NEW i \in C, NEW j \in C PROVE AtMost(V[i], V[j])
    BY DEF OrderedOn
  <2>1. V[i] = V[j] /\ V[i] \in CStrings
    BY <1>1
  <2> QED BY <2>1, AtMostOrders
<1>7. \A i \in C : a1[out][i] = V[i]
  BY <1>1, <1>4 DEF BroughtHome
<1>8. \A i \in C : V[i] \in CStrings
  BY <1>1
<1>9. C \in SUBSET D
  BY <1>1
<1>10. Left(V, C, out, a1, c, r1, {})
  BY ONLY <1>5, <1>6, <1>7, <1>8, <1>9, SettledPart, D \in SUBSET Int, V = [i \in D |-> V[i]]
<1> QED BY <1>4, <1>10 DEF Worked, BroughtHome, C
-----------------------------------------------------------------------------
(* What every sorter leaves: the section in order, and home.               *)
LEMMA SorterWorks ==
  ASSUME NEW D \in SUBSET Int, NEW V, V = [i \in D |-> V[i]], \A i \in D : V[i] \in CStrings,
         NEW a, NEW c, NEW r, NEW t, ItemTrue(V, D, a, c, r, t), NEW out \in BOOLEAN,
         NEW home, BroughtHome(a, home, D, Covers(t), out, t.sec.flip),
         NEW g \in [D -> Stored], \A i \in D \ Covers(t) : g[i] = home[out][i],
         Permuted(home[out], g, Covers(t)), OrderedOn(g, Covers(t)),
         NEW a1, a1 = [home EXCEPT ![out] = g],
         NEW c1, c1 = [i \in D |-> c1[i]], \A i \in D \ Covers(t) : c1[i] = c[i], NEW r1
  PROVE  Worked(V, D, Covers(t), out, a, c, a1, c1, r1, {})
<1> DEFINE C == Covers(t)
<1>1. C \in SUBSET D /\ \A i \in C : a[t.sec.flip][i] = V[i]
  BY DEF ItemTrue
<1>2. /\ home \in [BOOLEAN -> [D -> Stored]]
      /\ \A i \in D : i \in C => home[out][i] = a[t.sec.flip][i]
      /\ \A i \in D \ C : \A side \in BOOLEAN : home[side][i] = a[side][i]
  BY DEF BroughtHome
<1> HIDE DEF C
<1>3. Permuted(home[out], g, C) /\ OrderedOn(g, C) /\ \A i \in D \ C : g[i] = home[out][i] /\ c1[i] = c[i]
  BY DEF C
<1>4. \A i \in C : V[i] = home[out][i] /\ g[i] = g[i]
  BY <1>1, <1>2
<1>5. Permuted(V, g, C)
  BY ONLY <1>3, <1>4, PermutedAgree
<1>6. \A i \in C : V[i] \in CStrings
  BY <1>1
<1>7. a1[out] = g /\ \A side \in BOOLEAN : side # out => a1[side] = home[side]
  BY <1>2
<1>8. a1 \in [BOOLEAN -> [D -> Stored]]
  BY <1>2
<1>9. \A i \in C : a1[out][i] = g[i]
  BY <1>7
<1>10. Left(V, C, out, a1, c1, r1, {})
  BY ONLY <1>1, <1>3, <1>5, <1>6, <1>9, SettledPart, D \in SUBSET Int, V = [i \in D |-> V[i]]
<1>11. \A i \in D \ C : \A side \in BOOLEAN : a1[side][i] = a[side][i]
  <2> SUFFICES ASSUME NEW i \in D \ C, NEW side \in BOOLEAN PROVE a1[side][i] = a[side][i]
    OBVIOUS
  <2>1. home[side][i] = a[side][i]
    BY <1>2
  <2>2. CASE side = out
    BY <2>1, <2>2, <1>3, <1>7
  <2>3. CASE side # out
    BY <2>1, <2>3, <1>7
  <2> QED BY <2>2, <2>3
<1> QED BY ONLY <1>3, <1>8, <1>10, <1>11, c1 = [i \in D |-> c1[i]] DEF Worked, C

-----------------------------------------------------------------------------
(* The steps of the job, as work on an item.  While it is not deleted its  *)
(* arrays are these.                                                       *)
Typed ==
  /\ input \in Inputs
  /\ arr \in [BOOLEAN -> [Index -> Stored]]
  /\ cache = [i \in Index |-> cache[i]] /\ room \in Nat
  /\ lcp = [i \in Index |-> lcp[i]] /\ chars = [i \in Index |-> chars[i]]

Arranged(V) ==
  /\ V = [i \in Index |-> V[i]]
  /\ Permuted([i \in Index |-> input.strings[i + 1]], V, Index)

Ready(V, t) ==
  /\ Typed /\ Arranged(V) /\ \A i \in Index : V[i] \in CStrings
  /\ ItemTrue(V, Index, arr, cache, room, t)

LcpsTyped == lcp' = [i \in Index |-> lcp'[i]] /\ chars' = [i \in Index |-> chars'[i]]

Advances(V, t, R) ==
  /\ Worked(V, Index, Covers(t), class.out, arr, cache, arr', cache', room', R)
  /\ LcpsTyped

LEMMA InputIs ==
  ASSUME input \in Inputs
  PROVE  /\ class.out \in BOOLEAN /\ input.flip \in BOOLEAN
         /\ Index \in SUBSET Int /\ Len(input.strings) \in Nat \ {0}
         /\ Index = 0 .. Len(input.strings) - 1
         /\ DOMAIN input.strings = 1 .. Len(input.strings)
         /\ \A k \in 1 .. Len(input.strings) : input.strings[k] \in CStrings
         /\ \A i \in Index : i + 1 \in 1 .. Len(input.strings)
<1> DEFINE n == Len(input.strings)
<1>1. /\ input.class \in PointerClasses /\ input.flip \in BOOLEAN /\ n > 0
      /\ input.strings \in Seq(Seq(1 .. NumChars - 1))
  BY SmallsortAssumption
<1>2. n \in Nat /\ DOMAIN input.strings = 1 .. n
  BY <1>1
<1>3. \A k \in 1 .. n : input.strings[k] \in CStrings
  BY <1>1, ElementOfSeq DEF CStrings
<1>4. Index = 0 .. n - 1
  BY DEF Index
<1>5. class.out \in BOOLEAN
  <2>1. StringShadowPtr.out = FALSE
    BY DEF StringShadowPtr
  <2>2. StringShadowOutPtr.out = TRUE
    BY DEF StringShadowOutPtr
  <2>3. StringShadowLcpPtr.out = FALSE
    BY DEF StringShadowLcpPtr
  <2>4. StringShadowLcpOutPtr.out = TRUE
    BY DEF StringShadowLcpOutPtr
  <2>5. StringShadowLcpCacheOutPtr.out = TRUE
    BY DEF StringShadowLcpCacheOutPtr
  <2>6. class \in {StringShadowPtr, StringShadowOutPtr, StringShadowLcpPtr,
                   StringShadowLcpOutPtr, StringShadowLcpCacheOutPtr}
    BY <1>1 DEF class, PointerClasses
  <2> QED BY ONLY <2>1, <2>2, <2>3, <2>4, <2>5, <2>6, Zenon
<1> HIDE DEF n
<1>6. Index \in SUBSET Int /\ n \in Nat \ {0} /\ \A i \in Index : i + 1 \in 1 .. n
  BY ONLY <1>1, <1>2, <1>4
<1> QED BY <1>1, <1>2, <1>3, <1>4, <1>5, <1>6 DEF n

(* The state that an insertion sort begins with. *)
HomeIs(home, V, t, L, C) ==
  /\ BroughtHome(arr, home.arr, Index, Covers(t), class.out, t.sec.flip)
  /\ home.st \in States(Index, Stored, L, C, {cache})
  /\ home.st.str = home.arr[class.out] /\ home.st.keys = cache
  /\ \A i \in Covers(t) : home.st.str[i] = V[i]
  /\ ~t.done => Sharing(home.st.str, Covers(t), t.depth)
  /\ Covers(t) \subseteq Index /\ t.sec.lo \in Int /\ t.sec.n \in Nat

LEMMA HomeReady ==
  ASSUME NEW V, NEW t, Ready(V, t)
  PROVE  HomeIs(Home(t.sec), V, t, Int \union {lcp[i] : i \in Index},
                Int \union {chars[i] : i \in Index})
<1> DEFINE sec == t.sec
           home == Home(sec)
           P == Covers(t)
           L == Int \union {lcp[i] : i \in Index}
           C == Int \union {chars[i] : i \in Index}
<1>1. /\ Typed /\ class.out \in BOOLEAN
      /\ P \subseteq Index /\ sec.lo \in Int /\ sec.n \in Nat /\ sec.flip \in BOOLEAN
      /\ \A i \in P : arr[sec.flip][i] = V[i]
      /\ ~t.done => Sharing(V, P, t.depth)
  BY InputIs DEF Ready, ItemTrue, Typed
<1>2. BroughtHome(arr, CopyBack(class, arr, sec), Index, Positions(sec), class.out, sec.flip)
  BY <1>1, CopiedBack DEF Typed
<1>3. home.arr = CopyBack(class, arr, sec) /\ P = Positions(sec)
  BY DEF Home, Covers
<1>4. BroughtHome(arr, home.arr, Index, P, class.out, sec.flip)
  BY ONLY <1>2, <1>3
<1>5. /\ home.st = [str |-> home.arr[class.out], lcp |-> lcp, chars |-> chars, keys |-> cache]
      /\ home.st.str = home.arr[class.out] /\ home.st.lcp = lcp /\ home.st.chars = chars
      /\ home.st.keys = cache
  BY DEF Home, Output
<1> HIDE DEF home, P, sec
<1>6. home.arr[class.out] \in [Index -> Stored]
  BY <1>1, <1>4 DEF BroughtHome
<1>7. lcp \in [Index -> L] /\ chars \in [Index -> C]
  BY <1>1 DEF Typed
<1> HIDE DEF L, C
<1>8. home.st \in States(Index, Stored, L, C, {cache})
  BY ONLY <1>5, <1>6, <1>7 DEF States
<1>9. \A i \in P : home.st.str[i] = V[i]
  BY <1>1, <1>4, <1>5 DEF BroughtHome
<1>10. ~t.done => Sharing(home.st.str, P, t.depth)
  BY <1>1, <1>9 DEF Sharing
<1>11. HomeIs(home, V, t, L, C)
  BY ONLY <1>1, <1>4, <1>5, <1>8, <1>9, <1>10 DEF HomeIs, P, sec
<1> QED BY <1>11 DEF home, sec, L, C

(* What it leaves. *)
LEMMA HomeWorks ==
  ASSUME NEW V, NEW t, Ready(V, t), NEW L, NEW C, NEW K, NEW s,
         SectionSorted(s, Home(t.sec).st, Covers(t), Index, Stored, L, C, K),
         s.keys = [i \in Index |-> s.keys[i]],
         \A i \in Index \ Covers(t) : s.keys[i] = cache[i], Becomes(Home(t.sec), s)
  PROVE  Advances(V, t, {})
<1> DEFINE home == Home(t.sec)
           P == Covers(t)
<1>1. /\ BroughtHome(arr, home.arr, Index, P, class.out, t.sec.flip)
      /\ home.st.str = home.arr[class.out] /\ P \subseteq Index
  BY HomeReady DEF HomeIs
<1>2. /\ s.str \in [Index -> Stored] /\ s.lcp \in [Index -> L] /\ s.chars \in [Index -> C]
      /\ s.str \in Rearranged(home.st.str, P) /\ OrderedOn(s.str, P)
  BY DEF SectionSorted, States
<1>3. /\ arr' = [home.arr EXCEPT ![class.out] = s.str]
      /\ lcp' = s.lcp /\ chars' = s.chars /\ cache' = s.keys
  BY DEF Becomes
<1>4. /\ class.out \in BOOLEAN /\ Index \in SUBSET Int /\ V = [i \in Index |-> V[i]]
      /\ (\A i \in Index : V[i] \in CStrings) /\ ItemTrue(V, Index, arr, cache, room, t)
  BY InputIs DEF Ready, Typed, Arranged
<1>5. \A i \in Index \ P : s.keys[i] = cache[i]
  OBVIOUS
<1> HIDE DEF home, P
<1>6. home.arr[class.out] \in [Index -> Stored]
  BY <1>1, <1>4 DEF BroughtHome
<1>7. (\A i \in Index \ P : s.str[i] = home.arr[class.out][i]) /\ Permuted(home.arr[class.out], s.str, P)
  BY <1>1, <1>2, <1>6 DEF Rearranged
<1>8. cache' = [i \in Index |-> cache'[i]] /\ \A i \in Index \ P : cache'[i] = cache[i]
  BY <1>3, <1>5
<1>9. Worked(V, Index, P, class.out, arr, cache, arr', cache', room', {})
  <2>1. BroughtHome(arr, home.arr, Index, Covers(t), class.out, t.sec.flip)
    BY <1>1 DEF P
  <2>2. /\ (\A i \in Index \ Covers(t) : s.str[i] = home.arr[class.out][i])
        /\ Permuted(home.arr[class.out], s.str, Covers(t)) /\ OrderedOn(s.str, Covers(t))
        /\ cache' = [i \in Index |-> cache'[i]] /\ \A i \in Index \ Covers(t) : cache'[i] = cache[i]
    BY <1>2, <1>7, <1>8 DEF P
  <2>3. s.str \in [Index -> Stored] /\ arr' = [home.arr EXCEPT ![class.out] = s.str]
    BY <1>2, <1>3
  <2>4. Worked(V, Index, Covers(t), class.out, arr, cache, arr', cache', room', {})
    BY ONLY <1>4, <2>1, <2>2, <2>3, SorterWorks
  <2> QED BY <2>4 DEF P
<1>10. LcpsTyped
  BY <1>2, <1>3 DEF LcpsTyped
<1> QED BY <1>9, <1>10 DEF Advances, P

LEMMA SortSectionWorks ==
  ASSUME NEW V, NEW t, Ready(V, t), ~t.done, SortSection(t.sec, t.depth)
  PROVE  Advances(V, t, {})
<1> DEFINE L == Int \union {lcp[i] : i \in Index}
           C == Int \union {chars[i] : i \in Index}
           st == Home(t.sec).st
           s == InsertionSort(input.set, class, st, t.sec, t.depth)
<1>1. /\ st \in States(Index, Stored, L, C, {cache})
      /\ Sharing(st.str, Covers(t), t.depth)
      /\ Covers(t) \subseteq Index /\ t.sec.lo \in Int /\ t.sec.n \in Nat
  BY HomeReady DEF HomeIs
<1>2. Covers(t) = Positions(t.sec) /\ Index \in SUBSET Int
  BY InputIs DEF Covers, Ready, Typed
<1>3. Int \subseteq L /\ Int \subseteq C
  OBVIOUS
<1>4. Becomes(Home(t.sec), s)
  BY DEF SortSection
<1> HIDE DEF L, C, st
<1>5. SectionSorted(s, st, Positions(t.sec), Index, Stored, L, C, {cache})
  BY ONLY <1>1, <1>2, <1>3, InsertionSortSorts
<1> HIDE DEF s
<1>6. s.keys = cache
  BY <1>5 DEF SectionSorted, States
<1>7. s.keys = [i \in Index |-> s.keys[i]] /\ \A i \in Index \ Covers(t) : s.keys[i] = cache[i]
  BY <1>6 DEF Ready, Typed
<1>8. SectionSorted(s, Home(t.sec).st, Covers(t), Index, Stored, L, C, {cache})
  BY <1>2, <1>5 DEF st
<1> QED BY ONLY <1>4, <1>7, <1>8, HomeWorks, Ready(V, t)

LEMMA SortCachedWorks ==
  ASSUME NEW V, NEW t, Ready(V, t), ~t.done, t.depth \in t.cached,
         SortCachedSection(t.sec, t.depth)
  PROVE  Advances(V, t, {})
<1> DEFINE L == Int \union {lcp[i] : i \in Index}
           C == Int \union {chars[i] : i \in Index}
           K == Int \union {cache[i] : i \in Index}
           st == Home(t.sec).st
           s == InsertionSortCache(input.set, class, st, t.sec, t.depth)
<1>1. /\ st \in States(Index, Stored, L, C, {cache})
      /\ Sharing(st.str, Covers(t), t.depth) /\ st.keys = cache
      /\ Covers(t) \subseteq Index /\ t.sec.lo \in Int /\ t.sec.n \in Nat
  BY HomeReady DEF HomeIs
<1>12. \A i \in Covers(t) : st.str[i] = V[i]
  BY HomeReady DEF HomeIs
<1>2. Covers(t) = Positions(t.sec) /\ Index \in SUBSET Int
  BY InputIs DEF Covers, Ready, Typed
<1>3. Int \subseteq L /\ Int \subseteq C
  OBVIOUS
<1>4. Becomes(Home(t.sec), s)
  BY DEF SortCachedSection
<1>5. cache \in [Index -> K]
  BY DEF Ready, Typed
<1> HIDE DEF L, C, st, K
<1>6. st \in States(Index, Stored, L, C, [Index -> K])
  BY <1>1, <1>5 DEF States
<1>7. KeysAre(st, Positions(t.sec), t.depth)
  BY <1>1, <1>2, <1>12 DEF KeysAre, Ready, ItemTrue
<1>8. SortsCached(s, st, Positions(t.sec), Index, Stored, L, C, K)
  <2>1. Sharing(st.str, Positions(t.sec), t.depth) /\ Positions(t.sec) \subseteq Index
    BY ONLY <1>1, <1>2
  <2>2. t.sec.lo \in Int /\ t.sec.n \in Nat /\ Index \in SUBSET Int
    BY ONLY <1>1, <1>2
  <2> QED BY ONLY <1>3, <1>6, <1>7, <2>1, <2>2, InsertionSortCacheSorts
<1> HIDE DEF s
<1>9. s.keys \in [Index -> K]
  BY <1>8 DEF SortsCached, SectionSorted, States
<1>10. s.keys = [i \in Index |-> s.keys[i]] /\ \A i \in Index \ Covers(t) : s.keys[i] = cache[i]
  BY <1>1, <1>2, <1>8, <1>9 DEF SortsCached
<1>11. SectionSorted(s, Home(t.sec).st, Covers(t), Index, Stored, L, C, [Index -> K])
  BY <1>2, <1>8 DEF st, SortsCached
<1> QED BY ONLY <1>4, <1>10, <1>11, HomeWorks, Ready(V, t)

LEMMA OverrideTyped ==
  ASSUME NEW D, NEW f, f = [i \in D |-> f[i]], NEW g, NEW cls
  PROVE  /\ SetLcp(cls, f, g) = [i \in D |-> SetLcp(cls, f, g)[i]]
         /\ SetCache(cls, f, g) = [i \in D |-> SetCache(cls, f, g)[i]]
<1>1. DOMAIN f = D
  OBVIOUS
<1>2. Override(f, g) = [i \in D |-> Override(f, g)[i]]
  BY <1>1 DEF Override
<1> QED BY <1>2 DEF SetLcp, SetCache

LEMMA ElsewhereWorks ==
  ASSUME NEW V, NEW t, Ready(V, t), ~t.done, SortElsewhere(t.sec, t.depth),
         cache' = cache
  PROVE  Advances(V, t, {})
<1> DEFINE sec == t.sec
           P == Covers(t)
           home == CopyBack(class, arr, sec)
           seq == Content(arr, sec)
           sorted == SortedFrom(t.depth, seq)
           h == home[class.out]
           g == Put(h, sec.lo, sorted)
           n == sec.n
<1>1. /\ Typed /\ class.out \in BOOLEAN /\ Index \in SUBSET Int
      /\ P \subseteq Index /\ sec.lo \in Int /\ n \in Nat /\ sec.flip \in BOOLEAN
      /\ \A i \in P : arr[sec.flip][i] = V[i]
      /\ Sharing(V, P, t.depth)
  BY InputIs DEF Ready, ItemTrue, Typed
<1>2. P = sec.lo .. sec.lo + n - 1 /\ P = Positions(sec)
  BY DEF Covers, Positions
<1>3. BroughtHome(arr, home, Index, P, class.out, sec.flip)
  <2>1. BroughtHome(arr, CopyBack(class, arr, sec), Index, Positions(sec), class.out, sec.flip)
    BY <1>1, CopiedBack DEF Typed
  <2> HIDE DEF P
  <2> QED BY <2>1, <1>2
<1>4. /\ arr' = [home EXCEPT ![class.out] = g]
      /\ lcp' = SetLcp(class, lcp, [i \in Positions(sec) \ {sec.lo} |->
                  LcpFrom(t.depth, sorted[i - sec.lo], sorted[i - sec.lo + 1])])
      /\ chars' = SetCache(class, chars, [i \in Positions(sec) \ {sec.lo} |->
                  GetChar(sorted[i - sec.lo + 1],
                          LcpFrom(t.depth, sorted[i - sec.lo], sorted[i - sec.lo + 1]))])
  <2>1. home \in [BOOLEAN -> [Index -> Stored]]
    BY <1>3 DEF BroughtHome
  <2> QED BY <1>1, <2>1 DEF SortElsewhere
<1>5. LcpsTyped
  <2> DEFINE at == [i \in Positions(sec) \ {sec.lo} |->
                      LcpFrom(t.depth, sorted[i - sec.lo], sorted[i - sec.lo + 1])]
             char == [i \in Positions(sec) \ {sec.lo} |->
                        GetChar(sorted[i - sec.lo + 1],
                                LcpFrom(t.depth, sorted[i - sec.lo], sorted[i - sec.lo + 1]))]
  <2>1. lcp' = SetLcp(class, lcp, at) /\ chars' = SetCache(class, chars, char)
    BY <1>4
  <2>2. lcp = [i \in Index |-> lcp[i]] /\ chars = [i \in Index |-> chars[i]]
    BY <1>1 DEF Typed
  <2> HIDE DEF at, char
  <2> QED BY ONLY <2>1, <2>2, OverrideTyped DEF LcpsTyped
<1>6. seq = [k \in 1 .. n |-> arr[sec.flip][sec.lo + k - 1]]
  BY DEF Content, Active
<1> HIDE DEF home, P
<1>7. h \in [Index -> Stored] /\ \A i \in P : h[i] = arr[sec.flip][i]
  BY <1>1, <1>3 DEF BroughtHome
<1> HIDE DEF seq, h, sec, n
<1>8. DOMAIN seq = 1 .. n /\ \A k \in 1 .. n : sec.lo + k - 1 \in P /\ seq[k] = V[sec.lo + k - 1]
  <2> DEFINE lo == sec.lo
             a == arr[sec.flip]
  <2>1. lo \in Int /\ n \in Nat /\ P = lo .. lo + n - 1
    BY <1>1, <1>2
  <2>2. seq = [k \in 1 .. n |-> a[lo + k - 1]]
    BY <1>6
  <2>3. \A i \in P : a[i] = V[i]
    BY <1>1
  <2> HIDE DEF lo, a
  <2>4. DOMAIN seq = 1 .. n
    BY ONLY <2>2
  <2>5. \A k \in 1 .. n : lo + k - 1 \in P
    BY ONLY <2>1
  <2>6. \A k \in 1 .. n : seq[k] = V[lo + k - 1]
    BY ONLY <2>2, <2>3, <2>5
  <2> QED BY ONLY <2>4, <2>5, <2>6 DEF lo
<1>9. Sharing(seq, 1 .. n, t.depth)
  BY <1>1, <1>8 DEF Sharing
<1>10. /\ DOMAIN sorted = 1 .. n /\ Permuted(seq, sorted, 1 .. n) /\ OrderedOn(sorted, 1 .. n)
  BY ONLY <1>1, <1>8, <1>9, SortedFromSorts
<1> HIDE DEF sorted
<1>11. DOMAIN h = Index
  BY <1>7
<1>12. /\ DOMAIN g = Index
       /\ \A i \in Index \ P : g[i] = h[i]
       /\ \A i \in P : i - sec.lo + 1 \in 1 .. n /\ g[i] = sorted[i - sec.lo + 1]
  BY ONLY <1>1, <1>2, <1>10, <1>11 DEF Put, g
<1>13. Permuted(h, g, P)
  <2>1. PICK p : Bijective(p, 1 .. n) /\ \A k \in 1 .. n : sorted[k] = seq[p[k]]
    BY <1>10 DEF Permuted
  <2> DEFINE lo == sec.lo
             q == [i \in P |-> lo + p[i - lo + 1] - 1]
  <2>2. /\ \A k \in 1 .. n : p[k] \in 1 .. n
        /\ \A j, k \in 1 .. n : p[j] = p[k] => j = k
        /\ \A j \in 1 .. n : \E k \in 1 .. n : p[k] = j
    BY <2>1 DEF Bijective
  <2> HIDE DEF lo
  <2>3. lo \in Int /\ P = lo .. lo + n - 1 /\ n \in Nat /\ lo = sec.lo
    BY <1>1, <1>2 DEF lo
  <2>4. \A i \in P : i - lo + 1 \in 1 .. n /\ lo + p[i - lo + 1] - 1 \in P
    <3> SUFFICES ASSUME NEW i \in P PROVE i - lo + 1 \in 1 .. n /\ lo + p[i - lo + 1] - 1 \in P
      OBVIOUS
    <3>1. i - lo + 1 \in 1 .. n
      BY ONLY <2>3, i \in P
    <3> DEFINE x == p[i - lo + 1]
    <3>2. x \in 1 .. n
      BY ONLY <2>2, <3>1
    <3> HIDE DEF x
    <3>3. lo + x - 1 \in P
      BY ONLY <2>3, <3>2
    <3> QED BY <3>1, <3>3 DEF x
  <2>5. q = [i \in P |-> q[i]] /\ \A i \in P : q[i] = lo + p[i - lo + 1] - 1
    OBVIOUS
  <2> HIDE DEF q
  <2>6. q \in [P -> P]
    BY ONLY <2>4, <2>5
  <2>7. ASSUME NEW i \in P, NEW j \in P, q[i] = q[j] PROVE i = j
    <3>1. i \in Int /\ j \in Int /\ i - lo + 1 \in 1 .. n /\ j - lo + 1 \in 1 .. n
      BY ONLY <2>3, <2>4, i \in P, j \in P
    <3>2. p[i - lo + 1] \in Int /\ p[j - lo + 1] \in Int /\ p[i - lo + 1] = p[j - lo + 1]
      <4> DEFINE x == p[i - lo + 1]
                 y == p[j - lo + 1]
      <4>1. x \in 1 .. n /\ y \in 1 .. n
        BY ONLY <2>2, <3>1
      <4>2. lo + x - 1 = lo + y - 1
        BY ONLY <2>5, <2>7, i \in P, j \in P
      <4> HIDE DEF x, y
      <4>3. x \in Int /\ y \in Int /\ x = y
        BY ONLY <2>3, <4>1, <4>2
      <4> QED BY <4>3 DEF x, y
    <3>3. i - lo + 1 = j - lo + 1
      BY ONLY <2>2, <3>1, <3>2
    <3> QED BY ONLY <3>1, <3>3, <2>3
  <2>8. ASSUME NEW j \in P PROVE \E i \in P : q[i] = j
    <3>1. j \in Int /\ j - lo + 1 \in 1 .. n
      BY ONLY <2>3, <2>4, j \in P
    <3>2. PICK k \in 1 .. n : p[k] = j - lo + 1
      BY ONLY <3>1, <2>2
    <3>3. lo + k - 1 \in P /\ (lo + k - 1) - lo + 1 = k
      BY ONLY <2>3, k \in 1 .. n
    <3>4. q[lo + k - 1] = lo + p[k] - 1
      BY ONLY <3>3, <2>5
    <3>5. q[lo + k - 1] = j
      BY ONLY <3>1, <3>2, <3>4, <2>3
    <3> QED BY <3>3, <3>5
  <2>9. ASSUME NEW i \in P PROVE g[i] = h[q[i]]
    <3>1. i - lo + 1 \in 1 .. n /\ q[i] = lo + p[i - lo + 1] - 1 /\ q[i] \in P
      BY ONLY <2>4, <2>5, i \in P
    <3>2. g[i] = seq[p[i - lo + 1]] /\ p[i - lo + 1] \in 1 .. n
      BY <1>12, <2>1, <2>2, <2>3, <3>1
    <3>3. seq[p[i - lo + 1]] = V[q[i]]
      BY <1>8, <2>3, <3>1, <3>2
    <3> QED BY <1>1, <1>7, <3>1, <3>2, <3>3 DEF P, sec
  <2>10. Bijective(q, P)
    BY ONLY <2>6, <2>7, <2>8 DEF Bijective
  <2> QED BY <2>9, <2>10 DEF Permuted
<1>14. OrderedOn(g, P)
  <2> SUFFICES ASSUME NEW i \in P, NEW j \in P, i < j PROVE AtMost(g[i], g[j])
    BY DEF OrderedOn
  <2>1. i - sec.lo + 1 < j - sec.lo + 1
    BY <1>1, <1>2
  <2> QED BY <1>10, <1>12, <2>1 DEF OrderedOn
<1>15. g \in [Index -> Stored]
  <2>1. \A i \in P : g[i] \in Stored
    <3>1. \A i \in P : \E j \in P : g[i] = h[j]
      BY <1>13, PermutedFrom
    <3> QED BY <3>1, <1>1, <1>7 DEF P, sec
  <2>2. \A i \in Index : g[i] \in Stored
    BY <2>1, <1>7, <1>12
  <2>3. g = [i \in Index |-> g[i]]
    BY <1>11 DEF Put
  <2> HIDE DEF g
  <2> QED BY ONLY <2>2, <2>3
<1>16. /\ V = [i \in Index |-> V[i]] /\ (\A i \in Index : V[i] \in CStrings)
       /\ ItemTrue(V, Index, arr, cache, room, t)
       /\ cache' = [i \in Index |-> cache'[i]] /\ \A i \in Index \ P : cache'[i] = cache[i]
  BY DEF Ready, Arranged, Typed
<1> HIDE DEF g
<1>17. Worked(V, Index, P, class.out, arr, cache, arr', cache', room', {})
  <2>1. /\ BroughtHome(arr, home, Index, Covers(t), class.out, t.sec.flip)
        /\ \A i \in Index \ Covers(t) : g[i] = home[class.out][i]
        /\ Permuted(home[class.out], g, Covers(t)) /\ OrderedOn(g, Covers(t))
        /\ \A i \in Index \ Covers(t) : cache'[i] = cache[i]
    BY <1>3, <1>12, <1>13, <1>14, <1>16 DEF P, h, sec
  <2>2. Worked(V, Index, Covers(t), class.out, arr, cache, arr', cache', room', {})
    BY ONLY <1>1, <1>4, <1>15, <1>16, <2>1, SorterWorks
  <2> QED BY <2>2 DEF P
<1> QED BY <1>5, <1>17 DEF Advances, P

LEMMA EqualDoneWorks ==
  ASSUME NEW V, NEW t, Ready(V, t), t.done, NEW v, EqualDone(t.sec, v), cache' = cache
  PROVE  Advances(V, t, {})
<1>1. /\ Typed /\ class.out \in BOOLEAN /\ Index \in SUBSET Int
      /\ V = [i \in Index |-> V[i]] /\ (\A i \in Index : V[i] \in CStrings)
      /\ ItemTrue(V, Index, arr, cache, room, t)
  BY InputIs DEF Ready, Typed, Arranged
<1>2. /\ arr' = CopyBack(class, arr, t.sec)
      /\ lcp' = SetLcp(class, lcp, [i \in Positions(t.sec) \ {t.sec.lo} |-> v])
      /\ chars' = SetCache(class, chars, [i \in Positions(t.sec) \ {t.sec.lo} |-> 0])
  BY DEF EqualDone, FillLcp, FillCache
<1>3. LcpsTyped
  BY <1>1, <1>2, OverrideTyped DEF LcpsTyped, Typed
<1>4. arr \in [BOOLEAN -> [Index -> Stored]] /\ cache = [i \in Index |-> cache[i]]
  BY <1>1 DEF Typed
<1>5. Worked(V, Index, Covers(t), class.out, arr, cache, arr', cache, room', {})
  <2>1. BroughtHome(arr, CopyBack(class, arr, t.sec), Index, Positions(t.sec), class.out, t.sec.flip)
    <3>1. t.sec.flip \in BOOLEAN
      BY <1>1 DEF ItemTrue
    <3> QED BY <1>1, <1>4, <3>1, CopiedBack
  <2>2. BroughtHome(arr, arr', Index, Covers(t), class.out, t.sec.flip)
    BY ONLY <2>1, <1>2 DEF Covers
  <2>3. AllEqual(V, Covers(t))
    BY <1>1 DEF ItemTrue, AllEqual
  <2> QED BY ONLY <1>1, <1>4, <2>2, <2>3, EqualWorks
<1>6. Worked(V, Index, Covers(t), class.out, arr, cache, arr', cache', room', {})
  BY ONLY <1>5, cache' = cache
<1> QED BY <1>3, <1>6 DEF Advances

(* An item without strings. *)
LEMMA EmptyWorks ==
  ASSUME NEW V, NEW t, Ready(V, t), Covers(t) = {}, UNCHANGED <<content, cache>>
  PROVE  Advances(V, t, {})
<1>1. /\ Typed /\ V = [i \in Index |-> V[i]]
  BY DEF Ready, Typed, Arranged
<1>2. arr' = arr /\ lcp' = lcp /\ chars' = chars /\ cache' = cache
  BY DEF content
<1>3. V \in Rearranged(V, {})
  <2>1. V = [i \in DOMAIN V |-> V[i]]
    BY <1>1
  <2> QED BY <2>1, RearrangedSame
<1>4. Truth(V, {}, class.out, arr', cache', room', {})
  BY DEF Truth
<1>5. Left(V, {}, class.out, arr', cache', room', {})
  BY <1>3, <1>4 DEF Left
<1>6. Worked(V, Index, {}, class.out, arr, cache, arr', cache', room', {})
  BY <1>1, <1>2, <1>5 DEF Worked, Typed
<1> QED BY <1>1, <1>2, <1>6 DEF Advances, LcpsTyped, Typed

-----------------------------------------------------------------------------
SampleFrame(f) ==
  /\ f = [lo |-> f.lo, n |-> f.n, flip |-> f.flip, depth |-> f.depth, splitter |-> f.splitter,
          bkt |-> f.bkt, idx |-> f.idx]
  /\ f.idx \in 0 .. BktNum

QuickFrame(f) ==
  /\ f = [lo |-> f.lo, n |-> f.n, flip |-> f.flip, depth |-> f.depth, lt |-> f.lt, eq |-> f.eq,
          gt |-> f.gt, pivot |-> f.pivot, lcpLt |-> f.lcpLt, lcpGt |-> f.lcpGt,
          charGt |-> f.charGt, idx |-> f.idx]
  /\ f.idx \in 0 .. 3

(* An array and the other one, both written.                               *)
BothPutIs(D, a, b, flip, lo, n, s) ==
  /\ b \in [BOOLEAN -> [D -> Stored]]
  /\ \A i \in D \ (lo .. lo + n - 1) : \A side \in BOOLEAN : b[side][i] = a[side][i]
  /\ b[~flip] = Put(a[~flip], lo, s)

LEMMA BothPut ==
  ASSUME NEW D \in SUBSET Int, NEW a \in [BOOLEAN -> [D -> Stored]], NEW flip \in BOOLEAN,
         NEW lo \in Int, NEW n \in Nat, NEW s, DOMAIN s = 1 .. n,
         NEW m, m = [k \in 1 .. n |-> Moved],
         NEW b, b = [a EXCEPT ![flip] = Put(@, lo, m), ![~flip] = Put(@, lo, s)],
         \A i \in lo .. lo + n - 1 : Put(a[~flip], lo, s)[i] \in Stored
  PROVE  BothPutIs(D, a, b, flip, lo, n, s)
<1> DEFINE P == lo .. lo + n - 1
           x == Put(a[flip], lo, m)
           y == Put(a[~flip], lo, s)
<1>1. a[flip] \in [D -> Stored] /\ a[~flip] \in [D -> Stored]
  <2>1. a[TRUE] \in [D -> Stored] /\ a[FALSE] \in [D -> Stored]
    OBVIOUS
  <2>2. flip = TRUE \/ flip = FALSE
    OBVIOUS
  <2> QED BY ONLY <2>1, <2>2, Zenon
<1>2. /\ DOMAIN a = BOOLEAN /\ b = [a EXCEPT ![flip] = x, ![~flip] = y]
  <2>1. DOMAIN a = BOOLEAN /\ TRUE \in BOOLEAN /\ FALSE \in BOOLEAN /\ TRUE # FALSE
    OBVIOUS
  <2>2. CASE flip = TRUE
    <3>1. b = [a EXCEPT ![TRUE] = Put(@, lo, m), ![FALSE] = Put(@, lo, s)]
      BY <2>2
    <3>2. b = [a EXCEPT ![TRUE] = Put(a[TRUE], lo, m), ![FALSE] = Put(a[FALSE], lo, s)]
      BY ONLY <2>1, <3>1
    <3> QED BY <2>1, <2>2, <3>2
  <2>3. CASE flip = FALSE
    <3>1. b = [a EXCEPT ![FALSE] = Put(@, lo, m), ![TRUE] = Put(@, lo, s)]
      BY <2>3
    <3>2. b = [a EXCEPT ![FALSE] = Put(a[FALSE], lo, m), ![TRUE] = Put(a[TRUE], lo, s)]
      BY ONLY <2>1, <3>1
    <3> QED BY <2>1, <2>3, <3>2
  <2> QED BY <2>2, <2>3
<1>3. /\ DOMAIN x = D /\ DOMAIN y = D
      /\ \A i \in D : x[i] = IF i - lo + 1 \in 1 .. n THEN m[i - lo + 1] ELSE a[flip][i]
      /\ \A i \in D : y[i] = IF i - lo + 1 \in 1 .. n THEN s[i - lo + 1] ELSE a[~flip][i]
  <2>1. DOMAIN a[flip] = D /\ DOMAIN a[~flip] = D /\ DOMAIN m = 1 .. n
    BY <1>1
  <2> QED BY ONLY <2>1, DOMAIN s = 1 .. n DEF Put
<1>4. x = [i \in D |-> x[i]] /\ y = [i \in D |-> y[i]]
  <2>1. DOMAIN a[flip] = D /\ DOMAIN a[~flip] = D
    BY <1>1
  <2> QED BY ONLY <2>1 DEF Put
<1>5. \A k \in 1 .. n : m[k] = Moved
  OBVIOUS
<1>6. \A i \in D : i \in P <=> i - lo + 1 \in 1 .. n
  OBVIOUS
<1>7. \A i \in P : y[i] \in Stored
  OBVIOUS
<1>8. Moved \in Stored /\ \A i \in D : a[flip][i] \in Stored /\ a[~flip][i] \in Stored
  BY <1>1 DEF Stored
<1> HIDE DEF x, y, P
<1>9. \A i \in D : x[i] \in Stored /\ y[i] \in Stored
  <2> SUFFICES ASSUME NEW i \in D PROVE x[i] \in Stored /\ y[i] \in Stored
    OBVIOUS
  <2>1. CASE i \in P
    BY ONLY <1>3, <1>5, <1>6, <1>7, <1>8, <2>1, i \in D
  <2>2. CASE i \notin P
    BY ONLY <1>3, <1>6, <1>8, <2>2, i \in D
  <2> QED BY <2>1, <2>2
<1>10. x \in [D -> Stored] /\ y \in [D -> Stored]
  BY ONLY <1>4, <1>9
<1>11. \A i \in D \ P : x[i] = a[flip][i] /\ y[i] = a[~flip][i]
  BY ONLY <1>3, <1>6
<1>12. b[flip] = x /\ b[~flip] = y /\ DOMAIN b = BOOLEAN /\ b = [side \in BOOLEAN |-> b[side]]
  <2>1. CASE flip = TRUE
    <3>1. b = [a EXCEPT ![TRUE] = x, ![FALSE] = y]
      BY <1>2, <2>1
    <3>2. b[TRUE] = x /\ b[FALSE] = y /\ DOMAIN b = BOOLEAN /\ b = [side \in BOOLEAN |-> b[side]]
      BY ONLY <1>2, <3>1
    <3> QED BY <3>2, <2>1
  <2>2. CASE flip = FALSE
    <3>1. b = [a EXCEPT ![FALSE] = x, ![TRUE] = y]
      BY <1>2, <2>2
    <3>2. b[FALSE] = x /\ b[TRUE] = y /\ DOMAIN b = BOOLEAN /\ b = [side \in BOOLEAN |-> b[side]]
      BY ONLY <1>2, <3>1
    <3> QED BY <3>2, <2>2
  <2> QED BY <2>1, <2>2
<1>13. \A side \in BOOLEAN : side = flip \/ side = ~flip
  OBVIOUS
<1>14. \A side \in BOOLEAN : b[side] \in [D -> Stored]
  BY ONLY <1>10, <1>12, <1>13, Zenon
<1>15. b \in [BOOLEAN -> [D -> Stored]]
  BY ONLY <1>12, <1>14
<1>16. \A i \in D \ P : \A side \in BOOLEAN : b[side][i] = a[side][i]
  BY ONLY <1>11, <1>12, <1>13, Zenon
<1> QED BY <1>12, <1>15, <1>16 DEF BothPutIs, P, y

SamplePushed(V, t, stack, k) ==
  \E f : /\ SampleFrame(f) /\ f.idx = 0 /\ ss' = Append(stack, f)
         /\ Advances(V, t, BucketItems(k, f))

LEMMA PushSampleWorks ==
  ASSUME NEW V, NEW t, Ready(V, t), ~t.done, NEW stack, PushSample(stack, t.sec, t.depth),
         UNCHANGED <<written, cache>>, room' \in Int, t.sec.n <= room', NEW k
  PROVE  SamplePushed(V, t, stack, k)
<1> DEFINE sec == t.sec
           lo == sec.lo
           n == sec.n
           depth == t.depth
           P == Covers(t)
           strings == Content(arr, sec)
           keys == [j \in 1 .. n |-> KeyAt(strings[j], depth)]
<1>1. /\ Typed /\ class.out \in BOOLEAN /\ Index \in SUBSET Int
      /\ P \subseteq Index /\ lo \in Int /\ n \in Nat /\ sec.flip \in BOOLEAN
      /\ \A i \in P : arr[sec.flip][i] = V[i]
      /\ Sharing(V, P, depth)
  BY InputIs DEF Ready, ItemTrue, Typed
<1>2. P = lo .. lo + n - 1
  BY DEF Covers, Positions
<1>3. PICK splitter \in [0 .. NumSplitters - 1 -> Range(keys)] :
        LET id == Classified(splitter, keys)
            bkt == BucketStarts(id)
        IN  /\ \A i, j \in DOMAIN splitter : i < j => splitter[i] <= splitter[j]
            /\ arr' = [arr EXCEPT
                 ![sec.flip] = Put(@, lo, [j \in 1 .. n |-> Moved]),
                 ![~sec.flip] = Put(@, lo, Distributed(strings, id, bkt))]
            /\ ss' = Append(stack, [lo |-> lo, n |-> n, flip |-> sec.flip,
                                    depth |-> depth, splitter |-> splitter,
                                    bkt |-> bkt, idx |-> 0])
  BY DEF PushSample
<1> DEFINE id == Classified(splitter, keys)
           bkt == BucketStarts(id)
           dealt == Distributed(strings, id, bkt)
           W == Put(V, lo, dealt)
           moved == [j \in 1 .. n |-> Moved]
           f == [lo |-> lo, n |-> n, flip |-> sec.flip, depth |-> depth, splitter |-> splitter,
                 bkt |-> bkt, idx |-> 0]
<1>4. /\ \A i, j \in DOMAIN splitter : i < j => splitter[i] <= splitter[j]
      /\ arr' = [arr EXCEPT ![sec.flip] = Put(@, lo, moved), ![~sec.flip] = Put(@, lo, dealt)]
      /\ ss' = Append(stack, f)
  BY <1>3
<1>5. strings = [j \in 1 .. n |-> arr[sec.flip][lo + j - 1]]
  BY DEF Content, Active
<1>6. /\ f.lo = lo /\ f.n = n /\ f.flip = sec.flip /\ f.depth = depth /\ f.splitter = splitter
      /\ f.bkt = bkt /\ f.idx = 0
      /\ f = [lo |-> f.lo, n |-> f.n, flip |-> f.flip, depth |-> f.depth, splitter |-> f.splitter,
              bkt |-> f.bkt, idx |-> f.idx]
  OBVIOUS
<1>7. keys = [j \in 1 .. n |-> KeyAt(strings[j], depth)]
  OBVIOUS
<1> HIDE DEF strings, f, moved, keys, P
<1>8. SampleFrame(f)
  BY <1>6, BktNumIs DEF SampleFrame
<1>9. \A j \in 1 .. n : lo + j - 1 \in P /\ strings[j] = V[lo + j - 1]
  BY ONLY <1>1, <1>2, <1>5
<1>10. splitter \in [0 .. NumSplitters - 1 -> Keys]
  <2>1. \A j \in 1 .. n : keys[j] \in Keys
    <3> SUFFICES ASSUME NEW j \in 1 .. n PROVE keys[j] \in Keys
      OBVIOUS
    <3>1. strings[j] \in CStrings /\ depth \in Nat
      BY <1>1, <1>9 DEF Sharing
    <3>2. KeyAt(strings[j], depth) \in Keys
      BY ONLY <3>1, KeyIsKey
    <3> QED BY <1>7, <3>2
  <2>2. DOMAIN keys = 1 .. n
    BY <1>7
  <2>3. Range(keys) \subseteq Keys
    BY <2>1, <2>2 DEF Range
  <2> QED BY <2>3
<1>11. \A i, j \in 0 .. NumSplitters - 1 : i < j => splitter[i] <= splitter[j]
  BY <1>4, <1>10
<1>12. V = [i \in Index |-> V[i]] /\ DOMAIN V = Index
  BY DEF Ready, Arranged
<1> HIDE DEF lo, n, depth, sec, W, id, bkt, dealt
<1>13. /\ W \in Rearranged(V, lo .. lo + n - 1)
       /\ BucketsRight(W, lo, n, splitter, bkt, depth)
       /\ DOMAIN dealt = 1 .. n
  <2>1. id = Classified(splitter, keys) /\ bkt = BucketStarts(id) /\ W = Put(V, lo, dealt)
        /\ dealt = Distributed(strings, id, bkt)
    BY DEF id, bkt, W, dealt
  <2>2. Sharing(V, lo .. lo + n - 1, depth) /\ lo .. lo + n - 1 \subseteq Index
    BY ONLY <1>1, <1>2
  <2>3. \A j \in 1 .. n : strings[j] = V[lo + j - 1]
    BY ONLY <1>9
  <2>4. Dealing(Index, V, lo, n, depth, strings, keys, splitter, id, bkt, W)
    BY ONLY <1>1, <1>7, <1>10, <1>11, <1>12, <2>1, <2>2, <2>3 DEF Dealing
  <2>5. DealtRight(Index, V, lo, n, depth, strings, keys, splitter, id, bkt, W)
    BY ONLY <2>4, SampleDealt
  <2> QED BY ONLY <2>1, <2>5 DEF DealtRight
<1>14. Permuted(V, W, P) /\ \A i \in Index \ P : W[i] = V[i]
  BY ONLY <1>2, <1>12, <1>13 DEF Rearranged
<1>15. Sharing(W, P, depth)
  BY ONLY <1>1, <1>14, SharingPermuted
<1>16. \A i \in P : Put(arr[~sec.flip], lo, dealt)[i] = W[i]
  <2>1. arr[~sec.flip] \in [Index -> Stored]
    <3>1. arr[TRUE] \in [Index -> Stored] /\ arr[FALSE] \in [Index -> Stored]
      BY <1>1 DEF Typed
    <3> QED BY ONLY <1>1, <3>1, Zenon
  <2>2. DOMAIN arr[~sec.flip] = Index
    BY ONLY <2>1
  <2>3. \A i \in P : i \in Index /\ i - lo + 1 \in 1 .. n
    BY ONLY <1>1, <1>2
  <2>4. DOMAIN V = Index /\ DOMAIN dealt = 1 .. n
    BY ONLY <1>12, <1>13
  <2> QED BY ONLY <2>2, <2>3, <2>4 DEF Put, W
<1>17. /\ arr' \in [BOOLEAN -> [Index -> Stored]]
       /\ \A i \in Index \ P : \A side \in BOOLEAN : arr'[side][i] = arr[side][i]
       /\ arr'[~sec.flip] = Put(arr[~sec.flip], lo, dealt)
  <2>1. \A i \in lo .. lo + n - 1 : Put(arr[~sec.flip], lo, dealt)[i] \in Stored
    BY <1>2, <1>15, <1>16 DEF Sharing, Stored
  <2>2. arr \in [BOOLEAN -> [Index -> Stored]]
    BY <1>1 DEF Typed
  <2>3. moved = [j \in 1 .. n |-> Moved] /\ DOMAIN dealt = 1 .. n
    BY <1>13 DEF moved
  <2> HIDE DEF moved
  <2>4. arr' = [arr EXCEPT ![sec.flip] = Put(@, lo, moved), ![~sec.flip] = Put(@, lo, dealt)]
    BY <1>4
  <2>5. BothPutIs(Index, arr, arr', sec.flip, lo, n, dealt)
    BY ONLY <1>1, <2>1, <2>2, <2>3, <2>4, BothPut
  <2> QED BY ONLY <1>2, <2>5 DEF BothPutIs
<1>18. \A i \in P : arr'[~sec.flip][i] = W[i]
  BY ONLY <1>16, <1>17
<1>19. Truth(W, P, class.out, arr', cache', room', BucketItems(k, f))
  <2>1. /\ f.lo \in Int /\ f.n \in Nat /\ f.flip \in BOOLEAN /\ f.idx = 0
        /\ P = f.lo .. f.lo + f.n - 1 /\ Sharing(W, P, f.depth)
        /\ f.splitter \in [0 .. NumSplitters - 1 -> Keys]
    BY ONLY <1>1, <1>2, <1>6, <1>10, <1>15
  <2>2. \A i, j \in 0 .. NumSplitters - 1 : i < j => f.splitter[i] <= f.splitter[j]
    BY ONLY <1>6, <1>11
  <2>3. BucketsRight(W, f.lo, f.n, f.splitter, f.bkt, f.depth) /\ f.n <= room' /\ room' \in Int
    BY <1>6, <1>13 DEF n, sec
  <2>4. \A i \in P : arr'[~f.flip][i] = W[i]
    BY ONLY <1>6, <1>18
  <2> QED BY ONLY <2>1, <2>2, <2>3, <2>4, SampleTrue
<1>20. Left(V, P, class.out, arr', cache', room', BucketItems(k, f))
  BY ONLY <1>2, <1>13, <1>19 DEF Left
<1>21. Worked(V, Index, P, class.out, arr, cache, arr', cache', room', BucketItems(k, f))
  BY <1>1, <1>17, <1>20 DEF Worked, Typed
<1>22. LcpsTyped
  BY <1>1 DEF LcpsTyped, Typed, written
<1> QED BY <1>4, <1>6, <1>8, <1>21, <1>22 DEF SamplePushed, Advances, P

QuickPushed(V, t, stack, k) ==
  \E f : /\ QuickFrame(f) /\ f.idx = 0 /\ ms' = Append(stack, f)
         /\ Advances(V, t, PartItems(k, f))

LEMMA PushQuickWorks ==
  ASSUME NEW V, NEW t, Ready(V, t), ~t.done, NEW stack, NEW dirty,
         PushQuick(stack, t.sec, t.depth, dirty), dirty \/ t.depth \in t.cached, t.sec.n > 2,
         UNCHANGED written, room' \in Int, KeyCells * t.sec.n <= room', NEW k
  PROVE  QuickPushed(V, t, stack, k)
<1> DEFINE sec == t.sec
           lo == sec.lo
           n == sec.n
           depth == t.depth
           P == Covers(t)
           items == [j \in 0 .. n - 1 |->
                       [string |-> Active(arr, sec)[lo + j],
                        key |-> IF dirty THEN KeyAt(Active(arr, sec)[lo + j], depth)
                                ELSE cache[lo + j]]]
<1>1. /\ Typed /\ class.out \in BOOLEAN /\ Index \in SUBSET Int
      /\ P \subseteq Index /\ lo \in Int /\ n \in Nat /\ sec.flip \in BOOLEAN
      /\ \A i \in P : arr[sec.flip][i] = V[i]
      /\ Sharing(V, P, depth)
  BY InputIs DEF Ready, ItemTrue, Typed
<1>2. P = lo .. lo + n - 1
  BY DEF Covers, Positions
<1>3. dirty \/ \A i \in P : cache[i] = KeyAt(V[i], depth)
  BY DEF Ready, ItemTrue
<1>4. PICK r \in Partitions(items, n) :
        /\ arr' = [arr EXCEPT ![sec.flip] = Put(@, lo, [j \in 1 .. n |-> r.items[j - 1].string])]
        /\ cache' = Put(cache, lo, [j \in 1 .. n |-> r.items[j - 1].key])
        /\ ms' = Append(stack,
             [lo |-> lo, n |-> n, flip |-> sec.flip, depth |-> depth,
              lt |-> r.lt, eq |-> r.eq, gt |-> r.gt, pivot |-> r.pivot, lcpLt |-> r.lcpLt,
              lcpGt |-> r.lcpGt, charGt |-> r.charGt, idx |-> 0])
  BY DEF PushQuick
<1> DEFINE strs == [j \in 1 .. n |-> r.items[j - 1].string]
           W == Put(V, lo, strs)
           f == [lo |-> lo, n |-> n, flip |-> sec.flip, depth |-> depth,
                 lt |-> r.lt, eq |-> r.eq, gt |-> r.gt, pivot |-> r.pivot, lcpLt |-> r.lcpLt,
                 lcpGt |-> r.lcpGt, charGt |-> r.charGt, idx |-> 0]
<1>5. /\ f.lo = lo /\ f.n = n /\ f.flip = sec.flip /\ f.depth = depth /\ f.lt = r.lt
      /\ f.eq = r.eq /\ f.gt = r.gt /\ f.pivot = r.pivot /\ f.idx = 0
      /\ f = [lo |-> f.lo, n |-> f.n, flip |-> f.flip, depth |-> f.depth, lt |-> f.lt, eq |-> f.eq,
              gt |-> f.gt, pivot |-> f.pivot, lcpLt |-> f.lcpLt, lcpGt |-> f.lcpGt,
              charGt |-> f.charGt, idx |-> f.idx]
      /\ ms' = Append(stack, f)
  BY <1>4
<1>6. /\ items = [j \in 0 .. n - 1 |-> items[j]]
      /\ \A j \in 0 .. n - 1 :
           /\ items[j].string = arr[sec.flip][lo + j]
           /\ items[j].key = IF dirty THEN KeyAt(arr[sec.flip][lo + j], depth) ELSE cache[lo + j]
  BY DEF Active
<1> HIDE DEF items, f, P
<1>7. QuickFrame(f)
  BY <1>5 DEF QuickFrame
<1>8. \A j \in 0 .. n - 1 :
        items[j].string = V[lo + j] /\ items[j].key = KeyAt(V[lo + j], depth)
  <2> SUFFICES ASSUME NEW j \in 0 .. n - 1
               PROVE  items[j].string = V[lo + j] /\ items[j].key = KeyAt(V[lo + j], depth)
    OBVIOUS
  <2>1. lo + j \in P
    BY ONLY <1>1, <1>2, j \in 0 .. n - 1
  <2>2. arr[sec.flip][lo + j] = V[lo + j]
    BY ONLY <1>1, <2>1
  <2>3. CASE dirty
    BY <1>6, <2>2, <2>3
  <2>4. CASE ~dirty
    <3>1. cache[lo + j] = KeyAt(V[lo + j], depth)
      BY <1>3, <2>1, <2>4
    <3> QED BY <1>6, <2>2, <2>4, <3>1
  <2> QED BY <2>3, <2>4
<1>9. V = [i \in Index |-> V[i]] /\ DOMAIN V = Index /\ DOMAIN cache = Index
  BY DEF Ready, Arranged, Typed
<1>10. n > 2 /\ room' \in Int /\ KeyCells * n <= room'
  OBVIOUS
<1> HIDE DEF lo, n, depth, sec, W, strs
<1>11. QuickDealt(V, W, cache', lo, n, depth, r.lt, r.eq, r.gt, r.pivot)
  <2>1. Sharing(V, lo .. lo + n - 1, depth) /\ lo .. lo + n - 1 \subseteq Index
    BY ONLY <1>1, <1>2
  <2>2. /\ W = Put(V, lo, [j \in 1 .. n |-> r.items[j - 1].string])
        /\ cache' = Put(cache, lo, [j \in 1 .. n |-> r.items[j - 1].key])
    BY <1>4 DEF W, strs, n, lo, sec
  <2> QED BY ONLY <1>1, <1>6, <1>8, <1>9, <1>10, <2>1, <2>2, QuickPartition
<1>12. W \in Rearranged(V, P) /\ P \in SUBSET Index
  BY ONLY <1>1, <1>2, <1>11 DEF QuickDealt
<1>13. Permuted(V, W, P)
  BY ONLY <1>12 DEF Rearranged
<1>14. Sharing(W, P, depth)
  BY ONLY <1>1, <1>13, SharingPermuted
<1> DEFINE x == Put(arr[sec.flip], lo, strs)
<1>15. arr[sec.flip] \in [Index -> Stored] /\ DOMAIN arr[sec.flip] = Index /\ DOMAIN strs = 1 .. n
  BY <1>1 DEF Typed, strs
<1>16. /\ \A i \in Index : x[i] = IF i - lo + 1 \in 1 .. n THEN strs[i - lo + 1] ELSE arr[sec.flip][i]
       /\ \A i \in Index : W[i] = IF i - lo + 1 \in 1 .. n THEN strs[i - lo + 1] ELSE V[i]
       /\ x = [i \in Index |-> x[i]]
  BY ONLY <1>9, <1>15 DEF Put, W
<1>17. \A i \in Index : i \in P <=> i - lo + 1 \in 1 .. n
  BY ONLY <1>1, <1>2
<1> HIDE DEF x
<1>18. /\ \A i \in P : x[i] = W[i]
       /\ \A i \in Index \ P : x[i] = arr[sec.flip][i]
  BY ONLY <1>12, <1>16, <1>17
<1>19. x \in [Index -> Stored]
  <2>1. \A i \in P : x[i] \in Stored
    BY <1>14, <1>18 DEF Sharing, Stored
  <2>2. \A i \in Index : x[i] \in Stored
    BY ONLY <1>15, <1>18, <2>1
  <2> QED BY ONLY <1>16, <2>2
<1>20. /\ arr' \in [BOOLEAN -> [Index -> Stored]]
       /\ arr'[sec.flip] = x
       /\ \A side \in BOOLEAN : side # sec.flip => arr'[side] = arr[side]
  <2>1. arr' = [arr EXCEPT ![sec.flip] = x]
    BY <1>4 DEF x, strs, lo, n, sec
  <2>2. arr \in [BOOLEAN -> [Index -> Stored]]
    BY <1>1 DEF Typed
  <2> QED BY ONLY <1>1, <1>19, <2>1, <2>2
<1>21. \A i \in Index \ P : \A side \in BOOLEAN : arr'[side][i] = arr[side][i]
  <2> SUFFICES ASSUME NEW i \in Index \ P, NEW side \in BOOLEAN PROVE arr'[side][i] = arr[side][i]
    OBVIOUS
  <2>1. CASE side = sec.flip
    BY <1>18, <1>20, <2>1
  <2>2. CASE side # sec.flip
    BY <1>20, <2>2
  <2> QED BY <2>1, <2>2
<1>22. cache' = [i \in Index |-> cache'[i]] /\ \A i \in Index \ P : cache'[i] = cache[i]
  <2> DEFINE ks == [j \in 1 .. n |-> r.items[j - 1].key]
  <2>1. cache' = Put(cache, lo, ks)
    BY <1>4 DEF lo, n, sec
  <2>2. DOMAIN ks = 1 .. n
    OBVIOUS
  <2> HIDE DEF ks
  <2> QED BY ONLY <1>9, <1>17, <2>1, <2>2 DEF Put
<1>23. Truth(W, P, class.out, arr', cache', room', PartItems(k, f))
  <2>1. /\ f.lo \in Int /\ f.n \in Nat /\ f.flip \in BOOLEAN /\ f.idx = 0
        /\ P = f.lo .. f.lo + f.n - 1 /\ Sharing(V, P, f.depth)
    BY ONLY <1>1, <1>2, <1>5
  <2>2. QuickDealt(V, W, cache', f.lo, f.n, f.depth, f.lt, f.eq, f.gt, f.pivot)
    BY ONLY <1>5, <1>11
  <2>3. KeyCells * f.n <= room' /\ room' \in Int
    BY ONLY <1>5, <1>10
  <2>4. \A i \in P : arr'[f.flip][i] = W[i]
    BY ONLY <1>5, <1>18, <1>20
  <2> QED BY ONLY <2>1, <2>2, <2>3, <2>4, QuickTrue
<1>24. Left(V, P, class.out, arr', cache', room', PartItems(k, f))
  BY ONLY <1>12, <1>23 DEF Left
<1>25. Worked(V, Index, P, class.out, arr, cache, arr', cache', room', PartItems(k, f))
  BY <1>20, <1>21, <1>22, <1>24 DEF Worked
<1>26. LcpsTyped
  BY <1>1 DEF LcpsTyped, Typed, written
<1> QED BY <1>5, <1>7, <1>25, <1>26 DEF QuickPushed, Advances, P

-----------------------------------------------------------------------------
(* What the items say of the arrays, of some arrangement of the strings.   *)
Kept(a, c, r, Q) ==
  \E V : Arranged(V) /\ Truth(V, Index, class.out, a, c, r, Q)

StillTyped ==
  /\ arr' \in [BOOLEAN -> [Index -> Stored]]
  /\ cache' = [i \in Index |-> cache'[i]] /\ LcpsTyped

LEMMA ReadyIs ==
  ASSUME NEW V, Typed, Arranged(V), NEW Q, Truth(V, Index, class.out, arr, cache, room, Q),
         NEW t \in Q
  PROVE  Ready(V, t)
BY DEF Ready, Truth

(* An item worked on is replaced by what is left of it. *)
LEMMA WorkKept ==
  ASSUME NEW V, Typed, Arranged(V), NEW Q, Truth(V, Index, class.out, arr, cache, room, Q),
         NEW t \in Q, \A u \in Q : u.room \in Int,
         NEW R, Advances(V, t, R), room' \in Int, room <= room'
  PROVE  Kept(arr', cache', room', (Q \ {t}) \union R) /\ StillTyped
<1> DEFINE C == Covers(t)
<1>1. /\ arr' \in [BOOLEAN -> [Index -> Stored]]
      /\ cache' = [i \in Index |-> cache'[i]] /\ LcpsTyped
      /\ \A i \in Index \ C : \A side \in BOOLEAN : arr'[side][i] = arr[side][i]
      /\ \A i \in Index \ C : cache'[i] = cache[i]
  BY DEF Advances, Worked
<1>2. PICK W \in Rearranged(V, C) : Truth(W, C, class.out, arr', cache', room', R)
  BY DEF Advances, Worked, Left
<1>3. /\ Index \in SUBSET Int /\ class.out \in BOOLEAN
      /\ V = [i \in Index |-> V[i]] /\ DOMAIN V = Index /\ room \in Int
      /\ Permuted([i \in Index |-> input.strings[i + 1]], V, Index)
  BY InputIs DEF Typed, Arranged
<1>4. C \subseteq Index
  BY DEF Truth, ItemTrue
<1>5. Truth(W, Index, class.out, arr', cache', room', (Q \ {t}) \union R)
  BY <1>1, <1>2, <1>3, Refined
<1>6. Permuted(V, W, C) /\ (\A i \in Index \ C : W[i] = V[i]) /\ W = [i \in Index |-> W[i]]
  BY <1>2, <1>3 DEF Rearranged
<1>7. Permuted(V, W, Index)
  BY <1>4, <1>6, PermutedPart
<1>8. Permuted([i \in Index |-> input.strings[i + 1]], W, Index)
  <2> DEFINE given == [i \in Index |-> input.strings[i + 1]]
  <2>1. Permuted(given, V, Index)
    BY <1>3
  <2> HIDE DEF given
  <2>2. Permuted(given, W, Index)
    BY ONLY <1>7, <2>1, PermutedTwice
  <2> QED BY <2>2 DEF given
<1>9. Arranged(W)
  BY <1>6, <1>8 DEF Arranged
<1> QED BY <1>1, <1>5, <1>9 DEF Kept, StillTyped

-----------------------------------------------------------------------------
(* The two stacks. *)
FrameOk(kind, f) == IF kind = "ss" THEN SampleFrame(f) ELSE QuickFrame(f)
FrameEnd(kind) == IF kind = "ss" THEN BktNum ELSE 3
FrameItems(kind, k, f) == IF kind = "ss" THEN BucketItems(k, f) ELSE PartItems(k, f)
NextItem(kind, k, f) == IF kind = "ss" THEN BucketItem(k, f, f.idx) ELSE PartItem(k, f, f.idx + 1)

IsStack(kind, s) ==
  /\ \E S : s \in Seq(S)
  /\ \A k \in 1 .. Len(s) : FrameOk(kind, s[k])

StackItems(kind, s, front) == UNION {FrameItems(kind, k, s[k]) : k \in front + 1 .. Len(s)}

LEMMA FrameItemIs ==
  ASSUME NEW kind \in {"ss", "ms"}, NEW k, NEW f, NEW u \in FrameItems(kind, k, f)
  PROVE  u.kind = kind /\ u.frame = k
<1>1. CASE kind = "ss"
  <2>1. PICK b \in f.idx .. BktNum - 1 : u = BucketItem(k, f, b)
    BY <1>1 DEF FrameItems, BucketItems
  <2> QED BY <1>1, <2>1 DEF BucketItem
<1>2. CASE kind = "ms"
  <2>1. PICK p \in f.idx + 1 .. 3 : u = PartItem(k, f, p)
    BY <1>2 DEF FrameItems, PartItems
  <2> QED BY <1>2, <2>1 DEF PartItem
<1> QED BY <1>1, <1>2

(* A frame goes on to its next bucket or part. *)
LEMMA FrameAdvances ==
  ASSUME NEW kind \in {"ss", "ms"}, NEW k, NEW f, FrameOk(kind, f), f.idx < FrameEnd(kind),
         NEW g, g = [f EXCEPT !.idx = @ + 1]
  PROVE  /\ FrameOk(kind, g)
         /\ NextItem(kind, k, f) \in FrameItems(kind, k, f)
         /\ FrameItems(kind, k, g) = FrameItems(kind, k, f) \ {NextItem(kind, k, f)}
<1>0. BktNum \in Nat
  BY BktNumIs
<1>1. CASE kind = "ss"
  <2>1. /\ f = [lo |-> f.lo, n |-> f.n, flip |-> f.flip, depth |-> f.depth, splitter |-> f.splitter,
                bkt |-> f.bkt, idx |-> f.idx]
        /\ f.idx \in 0 .. BktNum /\ f.idx < BktNum
    BY <1>1 DEF FrameOk, SampleFrame, FrameEnd
  <2>2. /\ g.lo = f.lo /\ g.n = f.n /\ g.flip = f.flip /\ g.depth = f.depth
        /\ g.splitter = f.splitter /\ g.bkt = f.bkt /\ g.idx = f.idx + 1
        /\ g = [lo |-> g.lo, n |-> g.n, flip |-> g.flip, depth |-> g.depth, splitter |-> g.splitter,
                bkt |-> g.bkt, idx |-> g.idx]
    BY ONLY <2>1, g = [f EXCEPT !.idx = @ + 1]
  <2>3. FrameOk(kind, g)
    BY <1>0, <1>1, <2>1, <2>2 DEF FrameOk, SampleFrame
  <2>4. \A b : BucketItem(k, g, b) = BucketItem(k, f, b)
    BY <2>2 DEF BucketItem, Bucket, Flip, EqualAndDone, BucketDepth
  <2> DEFINE item(b) == BucketItem(k, f, b)
  <2>5. \A b : item(b).part = b
    BY DEF BucketItem
  <2> HIDE DEF item
  <2>6. /\ BucketItems(k, f) = {item(b) : b \in f.idx .. BktNum - 1}
        /\ BucketItems(k, g) = {item(b) : b \in f.idx + 1 .. BktNum - 1}
    BY <2>2, <2>4 DEF BucketItems, item
  <2>7. f.idx \in Int /\ f.idx \in f.idx .. BktNum - 1
        /\ f.idx + 1 .. BktNum - 1 = (f.idx .. BktNum - 1) \ {f.idx}
    BY ONLY <1>0, <2>1
  <2>8. BucketItems(k, g) = BucketItems(k, f) \ {item(f.idx)} /\ item(f.idx) \in BucketItems(k, f)
    BY ONLY <2>5, <2>6, <2>7
  <2> QED BY <1>1, <2>3, <2>8 DEF FrameItems, NextItem, item
<1>2. CASE kind = "ms"
  <2>1. /\ f = [lo |-> f.lo, n |-> f.n, flip |-> f.flip, depth |-> f.depth, lt |-> f.lt, eq |-> f.eq,
                gt |-> f.gt, pivot |-> f.pivot, lcpLt |-> f.lcpLt, lcpGt |-> f.lcpGt,
                charGt |-> f.charGt, idx |-> f.idx]
        /\ f.idx \in 0 .. 3 /\ f.idx < 3
    BY <1>2 DEF FrameOk, QuickFrame, FrameEnd
  <2>2. /\ g.lo = f.lo /\ g.n = f.n /\ g.flip = f.flip /\ g.depth = f.depth
        /\ g.lt = f.lt /\ g.eq = f.eq /\ g.gt = f.gt /\ g.pivot = f.pivot /\ g.idx = f.idx + 1
        /\ g = [lo |-> g.lo, n |-> g.n, flip |-> g.flip, depth |-> g.depth, lt |-> g.lt, eq |-> g.eq,
                gt |-> g.gt, pivot |-> g.pivot, lcpLt |-> g.lcpLt, lcpGt |-> g.lcpGt,
                charGt |-> g.charGt, idx |-> g.idx]
    BY ONLY <2>1, g = [f EXCEPT !.idx = @ + 1]
  <2>3. FrameOk(kind, g)
    BY <1>2, <2>1, <2>2 DEF FrameOk, QuickFrame
  <2>4. \A p : PartItem(k, g, p) = PartItem(k, f, p)
    <3>1. \A p : PartSection(g, p) = PartSection(f, p)
      BY <2>2 DEF PartSection, Sub, Section
    <3> QED BY <2>2, <3>1 DEF PartItem, PivotDone, PartDepth
  <2> DEFINE item(p) == PartItem(k, f, p)
  <2>5. \A p : item(p).part = p
    BY DEF PartItem
  <2> HIDE DEF item
  <2>6. /\ PartItems(k, f) = {item(p) : p \in f.idx + 1 .. 3}
        /\ PartItems(k, g) = {item(p) : p \in f.idx + 2 .. 3}
    <3>1. g.idx + 1 = f.idx + 2
      BY <2>1, <2>2
    <3> QED BY <3>1, <2>4 DEF PartItems, item
  <2>7. f.idx + 1 \in f.idx + 1 .. 3 /\ f.idx + 2 .. 3 = (f.idx + 1 .. 3) \ {f.idx + 1}
    BY ONLY <2>1
  <2>8. PartItems(k, g) = PartItems(k, f) \ {item(f.idx + 1)} /\ item(f.idx + 1) \in PartItems(k, f)
    BY ONLY <2>5, <2>6, <2>7
  <2> QED BY <1>2, <2>3, <2>8 DEF FrameItems, NextItem, item
<1> QED BY <1>1, <1>2

(* Their frames, one changed, added or taken off.                          *)
StackBecomes(kind, e, n) == IsStack(kind, e) /\ Len(e) = n

LEMMA StackLen ==
  ASSUME NEW kind, NEW s, IsStack(kind, s)
  PROVE  Len(s) \in Nat
<1>1. PICK S : s \in Seq(S)
  BY DEF IsStack
<1> QED BY <1>1

FrameChanged(kind, s, k, g) ==
  /\ StackBecomes(kind, [s EXCEPT ![k] = g], Len(s))
  /\ \A j \in 1 .. Len(s) : [s EXCEPT ![k] = g][j] = IF j = k THEN g ELSE s[j]

LEMMA StackExcept ==
  ASSUME NEW kind, NEW s, IsStack(kind, s), NEW k \in 1 .. Len(s), NEW g, FrameOk(kind, g)
  PROVE  FrameChanged(kind, s, k, g)
<1> DEFINE e == [s EXCEPT ![k] = g]
<1>1. PICK S : s \in Seq(S)
  BY DEF IsStack
<1>2. s \in Seq(S \union {g}) /\ g \in S \union {g}
  BY <1>1
<1>3. /\ e \in Seq(S \union {g}) /\ Len(e) = Len(s)
      /\ \A j \in 1 .. Len(s) : e[j] = IF j = k THEN g ELSE s[j]
  BY ONLY <1>2, k \in 1 .. Len(s), ExceptSeq
<1> HIDE DEF e
<1>4. \A j \in 1 .. Len(e) : FrameOk(kind, e[j])
  BY <1>3 DEF IsStack
<1>5. StackBecomes(kind, e, Len(s))
  BY <1>3, <1>4 DEF StackBecomes, IsStack
<1> QED BY <1>3, <1>5 DEF e, FrameChanged

LEMMA StackAppend ==
  ASSUME NEW kind, NEW s, IsStack(kind, s), NEW g, FrameOk(kind, g)
  PROVE  /\ StackBecomes(kind, Append(s, g), Len(s) + 1)
         /\ \A j \in 1 .. Len(s) : Append(s, g)[j] = s[j]
         /\ Append(s, g)[Len(s) + 1] = g
<1> DEFINE e == Append(s, g)
<1>1. PICK S : s \in Seq(S)
  BY DEF IsStack
<1>2. s \in Seq(S \union {g}) /\ g \in S \union {g} /\ Len(s) \in Nat
  BY <1>1
<1>3. /\ e \in Seq(S \union {g}) /\ Len(e) = Len(s) + 1
      /\ \A j \in 1 .. Len(s) : e[j] = s[j]
      /\ e[Len(s) + 1] = g
  BY ONLY <1>2, AppendProperties
<1> HIDE DEF e
<1>4. \A j \in 1 .. Len(s) + 1 : j \in 1 .. Len(s) \/ j = Len(s) + 1
  BY <1>2
<1>5. \A j \in 1 .. Len(e) : FrameOk(kind, e[j])
  BY <1>3, <1>4 DEF IsStack
<1>6. StackBecomes(kind, e, Len(s) + 1)
  BY <1>3, <1>5 DEF StackBecomes, IsStack
<1> QED BY <1>3, <1>6 DEF e

LEMMA StackFront ==
  ASSUME NEW kind, NEW s, IsStack(kind, s), Len(s) > 0
  PROVE  /\ StackBecomes(kind, Front(s), Len(s) - 1)
         /\ \A j \in 1 .. Len(s) - 1 : Front(s)[j] = s[j]
<1> DEFINE e == Front(s)
<1>1. PICK S : s \in Seq(S)
  BY DEF IsStack
<1>2. Len(s) \in Nat /\ Len(s) - 1 \in Nat /\ e = SubSeq(s, 1, Len(s) - 1)
  BY <1>1 DEF Front
<1> DEFINE n == Len(s) - 1
<1> HIDE DEF e, n
<1>3. /\ e \in Seq(S) /\ Len(e) = n
      /\ \A j \in 1 .. n : e[j] = s[j]
  <2>1. 1 \in Int /\ n \in Int /\ n >= 0 /\ e = SubSeq(s, 1, n)
    BY <1>2 DEF n
  <2>2. \A j \in 1 .. n : s[j] \in S
    BY <1>1 DEF n
  <2>3. /\ SubSeq(s, 1, n) \in Seq(S)
        /\ Len(SubSeq(s, 1, n)) = IF 1 <= n THEN n - 1 + 1 ELSE 0
        /\ \A j \in 1 .. n - 1 + 1 : SubSeq(s, 1, n)[j] = s[1 + j - 1]
    BY ONLY <2>1, <2>2, SubSeqProperties
  <2>4. n - 1 + 1 = n /\ (\A j \in 1 .. n : 1 + j - 1 = j)
    BY <2>1
  <2>5. 1 <= n \/ n = 0
    BY <2>1
  <2>6. Len(e) = n
    BY <2>1, <2>3, <2>4, <2>5
  <2>7. \A j \in 1 .. n : e[j] = s[j]
    BY <2>1, <2>3, <2>4
  <2> QED BY <2>1, <2>3, <2>6, <2>7
<1>4. \A j \in 1 .. Len(e) : FrameOk(kind, e[j])
  <2>1. \A j \in 1 .. n : j \in 1 .. Len(s)
    BY <1>1, <1>2 DEF n
  <2> QED BY <1>3, <2>1 DEF IsStack
<1>5. StackBecomes(kind, e, n)
  BY <1>3, <1>4 DEF StackBecomes, IsStack
<1> QED BY <1>3, <1>5 DEF e, n

(* What is left on the stack when its top goes on by one.                  *)
TopAdvanced(kind, s, front, t) ==
  /\ StackBecomes(kind, Advanced(s), Len(s))
  /\ t \in StackItems(kind, s, front)
  /\ StackItems(kind, Advanced(s), front) = StackItems(kind, s, front) \ {t}

LEMMA StackAdvances ==
  ASSUME NEW kind \in {"ss", "ms"}, NEW s, IsStack(kind, s), NEW front \in Nat, front < Len(s),
         s[Len(s)].idx < FrameEnd(kind)
  PROVE  TopAdvanced(kind, s, front, NextItem(kind, Len(s), s[Len(s)]))
<1> DEFINE n == Len(s)
           f == s[n]
           g == [f EXCEPT !.idx = @ + 1]
           e == Advanced(s)
           t == NextItem(kind, n, f)
<1>1. n \in Nat /\ n \in 1 .. n
  BY StackLen
<1>2. FrameOk(kind, f) /\ f.idx < FrameEnd(kind)
  BY <1>1 DEF IsStack
<1>3. n \in DOMAIN s
  <2>1. PICK S : s \in Seq(S)
    BY DEF IsStack
  <2> QED BY <1>1, <2>1
<1>4. e = [s EXCEPT ![n] = g]
  BY <1>3 DEF Advanced
<1>5. g = [f EXCEPT !.idx = @ + 1]
  OBVIOUS
<1> HIDE DEF n, f, g, e, t
<1>6. /\ FrameOk(kind, g) /\ NextItem(kind, n, f) \in FrameItems(kind, n, f)
      /\ FrameItems(kind, n, g) = FrameItems(kind, n, f) \ {NextItem(kind, n, f)}
  BY ONLY <1>2, <1>5, kind \in {"ss", "ms"}, FrameAdvances
<1>7. StackBecomes(kind, e, n) /\ \A j \in 1 .. n : e[j] = IF j = n THEN g ELSE s[j]
  <2>1. n \in 1 .. Len(s)
    BY <1>1 DEF n
  <2>2. FrameChanged(kind, s, n, g)
    BY ONLY IsStack(kind, s), <2>1, <1>6, StackExcept
  <2> QED BY <1>4, <2>2 DEF FrameChanged, n
<1>8. /\ StackItems(kind, s, front) = UNION {FrameItems(kind, j, s[j]) : j \in front + 1 .. n}
      /\ StackItems(kind, e, front) = UNION {FrameItems(kind, j, e[j]) : j \in front + 1 .. n}
  BY <1>7 DEF StackItems, StackBecomes, n
<1>9. n \in front + 1 .. n /\ s[n] = f /\ \A j \in front + 1 .. n : j \in 1 .. n
  BY <1>1 DEF n, f
<1>10. \A j \in front + 1 .. n : \A u \in FrameItems(kind, j, s[j]) : u.frame = j
  BY FrameItemIs
<1>11. t \in FrameItems(kind, n, f) /\ FrameItems(kind, n, g) = FrameItems(kind, n, f) \ {t}
       /\ t.frame = n
  BY <1>6, FrameItemIs DEF t
<1>12. t \in StackItems(kind, s, front)
  BY ONLY <1>8, <1>9, <1>11
<1>13. ASSUME NEW u \in StackItems(kind, e, front) PROVE u \in StackItems(kind, s, front) \ {t}
  <2>1. PICK j \in front + 1 .. n : u \in FrameItems(kind, j, e[j])
    BY <1>8
  <2>2. CASE j = n
    BY <1>7, <1>8, <1>9, <1>11, <2>1, <2>2
  <2>3. CASE j # n
    <3>1. u \in FrameItems(kind, j, s[j])
      BY <1>7, <1>9, <2>1, <2>3
    <3>2. u.frame = j
      BY <1>10, <3>1
    <3> QED BY <1>8, <1>11, <2>3, <3>1, <3>2
  <2> QED BY <2>2, <2>3
<1>14. ASSUME NEW u \in StackItems(kind, s, front), u # t PROVE u \in StackItems(kind, e, front)
  <2>1. PICK j \in front + 1 .. n : u \in FrameItems(kind, j, s[j])
    BY <1>8
  <2>2. u \in FrameItems(kind, j, e[j])
    BY <1>7, <1>9, <1>11, <1>14, <2>1
  <2> QED BY <1>8, <2>2
<1>15. StackItems(kind, e, front) = StackItems(kind, s, front) \ {t}
  BY <1>13, <1>14
<1> QED BY <1>7, <1>12, <1>15 DEF TopAdvanced, n, f, e, t

(* A frame is pushed. *)
TopAdded(kind, s, front, g) ==
  /\ StackBecomes(kind, Append(s, g), Len(s) + 1)
  /\ StackItems(kind, Append(s, g), front)
       = StackItems(kind, s, front) \union FrameItems(kind, Len(s) + 1, g)

LEMMA StackAdds ==
  ASSUME NEW kind, NEW s, IsStack(kind, s), NEW front \in Nat, front <= Len(s),
         NEW g, FrameOk(kind, g)
  PROVE  TopAdded(kind, s, front, g)
<1> DEFINE n == Len(s)
           e == Append(s, g)
<1>1. n \in Nat
  BY StackLen
<1>2. /\ StackBecomes(kind, e, n + 1)
      /\ \A j \in 1 .. n : e[j] = s[j]
      /\ e[n + 1] = g
  BY StackAppend
<1> HIDE DEF n, e
<1>3. /\ StackItems(kind, s, front) = UNION {FrameItems(kind, j, s[j]) : j \in front + 1 .. n}
      /\ StackItems(kind, e, front) = UNION {FrameItems(kind, j, e[j]) : j \in front + 1 .. n + 1}
  BY <1>2 DEF StackItems, StackBecomes, n
<1>4. /\ \A j \in front + 1 .. n + 1 : (j \in 1 .. n /\ j \in front + 1 .. n) \/ j = n + 1
      /\ n + 1 \in front + 1 .. n + 1
      /\ \A j \in front + 1 .. n : j \in 1 .. n /\ j \in front + 1 .. n + 1
  BY <1>1 DEF n
<1>5. ASSUME NEW u
      PROVE  u \in StackItems(kind, e, front)
               <=> u \in StackItems(kind, s, front) \union FrameItems(kind, n + 1, g)
  <2>1. ASSUME u \in StackItems(kind, e, front)
        PROVE  u \in StackItems(kind, s, front) \union FrameItems(kind, n + 1, g)
    <3>1. PICK j \in front + 1 .. n + 1 : u \in FrameItems(kind, j, e[j])
      BY <1>3, <2>1
    <3> QED BY <1>2, <1>3, <1>4, <3>1
  <2>2. ASSUME u \in StackItems(kind, s, front) PROVE u \in StackItems(kind, e, front)
    <3>1. PICK j \in front + 1 .. n : u \in FrameItems(kind, j, s[j])
      BY <1>3, <2>2
    <3>2. u \in FrameItems(kind, j, e[j]) /\ j \in front + 1 .. n + 1
      BY <1>2, <1>4, <3>1
    <3> QED BY <1>3, <3>2
  <2>3. ASSUME u \in FrameItems(kind, n + 1, g) PROVE u \in StackItems(kind, e, front)
    BY <1>2, <1>3, <1>4, <2>3
  <2> QED BY <2>1, <2>2, <2>3
<1>6. StackItems(kind, e, front) = StackItems(kind, s, front) \union FrameItems(kind, n + 1, g)
  BY <1>5
<1> QED BY <1>2, <1>6 DEF TopAdded, n, e

(* A frame without items goes. *)
TopGone(kind, s, front) ==
  /\ StackBecomes(kind, Front(s), Len(s) - 1)
  /\ StackItems(kind, Front(s), front) = StackItems(kind, s, front)

LEMMA StackGoes ==
  ASSUME NEW kind, NEW s, IsStack(kind, s), NEW front \in Nat, front < Len(s),
         FrameItems(kind, Len(s), s[Len(s)]) = {}
  PROVE  TopGone(kind, s, front)
<1> DEFINE n == Len(s)
           e == Front(s)
<1>1. n \in Nat /\ n > 0
  BY StackLen
<1>2. StackBecomes(kind, e, n - 1) /\ \A j \in 1 .. n - 1 : e[j] = s[j]
  BY <1>1, StackFront
<1> HIDE DEF n, e
<1>3. /\ StackItems(kind, s, front) = UNION {FrameItems(kind, j, s[j]) : j \in front + 1 .. n}
      /\ StackItems(kind, e, front) = UNION {FrameItems(kind, j, e[j]) : j \in front + 1 .. n - 1}
  BY <1>2 DEF StackItems, StackBecomes, n
<1>4. /\ \A j \in front + 1 .. n : (j \in 1 .. n - 1 /\ j \in front + 1 .. n - 1) \/ j = n
      /\ \A j \in front + 1 .. n - 1 : j \in 1 .. n - 1 /\ j \in front + 1 .. n
      /\ FrameItems(kind, n, s[n]) = {}
  BY <1>1 DEF n
<1>5. ASSUME NEW u PROVE u \in StackItems(kind, e, front) <=> u \in StackItems(kind, s, front)
  <2>1. ASSUME u \in StackItems(kind, e, front) PROVE u \in StackItems(kind, s, front)
    <3>1. PICK j \in front + 1 .. n - 1 : u \in FrameItems(kind, j, e[j])
      BY <1>3, <2>1
    <3> QED BY <1>2, <1>3, <1>4, <3>1
  <2>2. ASSUME u \in StackItems(kind, s, front) PROVE u \in StackItems(kind, e, front)
    <3>1. PICK j \in front + 1 .. n : u \in FrameItems(kind, j, s[j])
      BY <1>3, <2>2
    <3>2. u \in FrameItems(kind, j, e[j]) /\ j \in front + 1 .. n - 1
      BY <1>2, <1>4, <3>1
    <3> QED BY <1>3, <3>2
  <2> QED BY <2>1, <2>2
<1>6. StackItems(kind, e, front) = StackItems(kind, s, front)
  BY <1>5
<1> QED BY <1>2, <1>6 DEF TopGone, n, e

(* A frame that is at its end has no items. *)
LEMMA FrameEnds ==
  ASSUME NEW kind \in {"ss", "ms"}, NEW k, NEW f, f.idx = FrameEnd(kind)
  PROVE  FrameItems(kind, k, f) = {}
<1>1. CASE kind = "ss"
  <2>1. f.idx = BktNum /\ FrameItems(kind, k, f) = BucketItems(k, f)
    BY <1>1 DEF FrameEnd, FrameItems
  <2>2. BktNum .. BktNum - 1 = {}
    BY BktNumIs
  <2> QED BY <2>1, <2>2 DEF BucketItems
<1>2. CASE kind = "ms"
  <2>1. f.idx = 3 /\ FrameItems(kind, k, f) = PartItems(k, f)
    BY <1>2 DEF FrameEnd, FrameItems
  <2>2. 3 + 1 .. 3 = {}
    OBVIOUS
  <2> QED BY <2>1, <2>2 DEF PartItems
<1> QED BY <1>1, <1>2

(* The bottom frame of the sample sort is passed over. *)
SamplePassed(s, front) ==
  /\ StackBecomes("ss", [s EXCEPT ![front + 1].idx = BktNum], Len(s))
  /\ StackItems("ss", [s EXCEPT ![front + 1].idx = BktNum], front + 1)
       = StackItems("ss", s, front) \ BucketItems(front + 1, s[front + 1])
  /\ BucketItems(front + 1, s[front + 1]) \subseteq StackItems("ss", s, front)

LEMMA PassSample ==
  ASSUME NEW s, IsStack("ss", s), NEW front \in Nat, front < Len(s)
  PROVE  SamplePassed(s, front)
<1> DEFINE n == Len(s)
           k == front + 1
           f == s[k]
           g == [f EXCEPT !.idx = BktNum]
           e == [s EXCEPT ![k].idx = BktNum]
<1>1. n \in Nat
  BY StackLen
<1>2. k \in 1 .. n /\ k \in Nat
  BY <1>1
<1>3. k \in DOMAIN s
  <2>1. PICK S : s \in Seq(S)
    BY DEF IsStack
  <2> QED BY <1>2, <2>1
<1>4. e = [s EXCEPT ![k] = g]
  BY <1>3
<1>5. FrameOk("ss", f)
  BY <1>2 DEF IsStack
<1>6. FrameOk("ss", g)
  <2>1. SampleFrame(f)
    BY <1>5 DEF FrameOk
  <2>2. /\ f = [lo |-> f.lo, n |-> f.n, flip |-> f.flip, depth |-> f.depth, splitter |-> f.splitter,
                bkt |-> f.bkt, idx |-> f.idx]
        /\ g = [f EXCEPT !.idx = BktNum]
    BY <2>1 DEF SampleFrame
  <2> HIDE DEF f, g
  <2>3. g = [lo |-> f.lo, n |-> f.n, flip |-> f.flip, depth |-> f.depth, splitter |-> f.splitter,
             bkt |-> f.bkt, idx |-> BktNum]
    BY ONLY <2>2
  <2>4. /\ g.lo = f.lo /\ g.n = f.n /\ g.flip = f.flip /\ g.depth = f.depth
        /\ g.splitter = f.splitter /\ g.bkt = f.bkt /\ g.idx = BktNum
    BY ONLY <2>3
  <2>5. BktNum \in 0 .. BktNum
    BY BktNumIs
  <2>6. SampleFrame(g)
    BY <2>3, <2>4, <2>5 DEF SampleFrame
  <2> QED BY <2>6 DEF FrameOk
<1> HIDE DEF n, f, g, e
<1>7. StackBecomes("ss", e, n) /\ \A j \in 1 .. n : e[j] = IF j = k THEN g ELSE s[j]
  <2>1. k \in 1 .. Len(s)
    BY <1>2 DEF n
  <2>2. FrameChanged("ss", s, k, g)
    BY ONLY IsStack("ss", s), <2>1, <1>6, StackExcept
  <2> QED BY <1>4, <2>2 DEF FrameChanged, n
<1>8. /\ StackItems("ss", s, front) = UNION {BucketItems(j, s[j]) : j \in k .. n}
      /\ StackItems("ss", e, k) = UNION {BucketItems(j, e[j]) : j \in k + 1 .. n}
  BY <1>7 DEF StackItems, StackBecomes, n, FrameItems
<1>9. /\ \A j \in k .. n : j = k \/ (j # k /\ j \in k + 1 .. n)
      /\ \A j \in k + 1 .. n : j \in k .. n /\ j # k /\ j \in 1 .. n
      /\ k \in k .. n
  BY <1>1, <1>2
<1> HIDE DEF k
<1>10. \A j \in k + 1 .. n : e[j] = s[j]
  BY <1>7, <1>9
<1>11. \A j : \A u \in BucketItems(j, s[j]) : u.frame = j
  BY BucketItemIs DEF BucketItems
<1>12. BucketItems(k, f) \subseteq StackItems("ss", s, front)
  BY <1>8, <1>9 DEF f
<1>13. ASSUME NEW u
       PROVE  u \in StackItems("ss", e, k) <=> u \in StackItems("ss", s, front) \ BucketItems(k, f)
  <2>1. ASSUME u \in StackItems("ss", e, k)
        PROVE  u \in StackItems("ss", s, front) \ BucketItems(k, f)
    <3>1. PICK j \in k + 1 .. n : u \in BucketItems(j, s[j])
      BY <1>8, <1>10, <2>1
    <3>2. u.frame = j /\ j # k /\ j \in k .. n
      BY <1>9, <1>11, <3>1
    <3> QED BY <1>8, <1>11, <3>1, <3>2 DEF f
  <2>2. ASSUME u \in StackItems("ss", s, front) \ BucketItems(k, f)
        PROVE  u \in StackItems("ss", e, k)
    <3>1. PICK j \in k .. n : u \in BucketItems(j, s[j])
      BY <1>8, <2>2
    <3>2. j \in k + 1 .. n
      BY <1>9, <2>2, <3>1 DEF f
    <3> QED BY <1>8, <1>10, <3>1, <3>2
  <2> QED BY <2>1, <2>2
<1>14. StackItems("ss", e, k) = StackItems("ss", s, front) \ BucketItems(k, f)
  BY <1>13
<1> QED BY <1>7, <1>12, <1>14 DEF SamplePassed, n, e, k, f

(* A batch of frames of the quicksort. *)
BatchItems(m, batch) == UNION {PartItems(k, m[k]) : k \in batch}

QuickPassed(m, front, to) ==
  /\ StackItems("ms", m, to) = StackItems("ms", m, front) \ BatchItems(m, front + 1 .. to)
  /\ BatchItems(m, front + 1 .. to) \subseteq StackItems("ms", m, front)

LEMMA PassQuick ==
  ASSUME NEW m, IsStack("ms", m), NEW front \in Nat, NEW to \in Nat, front <= to, to <= Len(m)
  PROVE  QuickPassed(m, front, to)
<1> DEFINE n == Len(m)
<1>1. n \in Nat /\ to <= n
  BY StackLen
<1> HIDE DEF n
<1>2. /\ StackItems("ms", m, front) = UNION {PartItems(j, m[j]) : j \in front + 1 .. n}
      /\ StackItems("ms", m, to) = UNION {PartItems(j, m[j]) : j \in to + 1 .. n}
  BY DEF StackItems, FrameItems, n
<1>3. /\ \A j \in front + 1 .. n : j \in front + 1 .. to \/ j \in to + 1 .. n
      /\ \A j \in to + 1 .. n : j \notin front + 1 .. to /\ j \in front + 1 .. n
      /\ \A j \in front + 1 .. to : j \in front + 1 .. n
  BY <1>1
<1>4. \A j : \A u \in PartItems(j, m[j]) : u.frame = j
  BY DEF PartItems, PartItem
<1> DEFINE A == front + 1 .. n
           B == to + 1 .. n
           C == front + 1 .. to
<1>5. /\ StackItems("ms", m, front) = UNION {PartItems(j, m[j]) : j \in A}
      /\ StackItems("ms", m, to) = UNION {PartItems(j, m[j]) : j \in B}
      /\ BatchItems(m, C) = UNION {PartItems(j, m[j]) : j \in C}
  BY <1>2 DEF BatchItems
<1>6. (\A j \in A : j \in B \/ j \in C) /\ (\A j \in B : j \notin C /\ j \in A) /\ (\A j \in C : j \in A)
  BY <1>3
<1> HIDE DEF A, B, C
<1>7. BatchItems(m, C) \subseteq StackItems("ms", m, front)
  BY <1>5, <1>6
<1>8. ASSUME NEW u
      PROVE  u \in StackItems("ms", m, to) <=> u \in StackItems("ms", m, front) \ BatchItems(m, C)
  <2>1. ASSUME u \in StackItems("ms", m, to)
        PROVE  u \in StackItems("ms", m, front) \ BatchItems(m, C)
    <3>1. PICK j \in B : u \in PartItems(j, m[j])
      BY <1>5, <2>1
    <3>2. u.frame = j /\ j \notin C /\ j \in A
      BY <1>4, <1>6, <3>1
    <3>3. u \in StackItems("ms", m, front)
      BY <1>5, <3>1, <3>2
    <3>4. ASSUME u \in BatchItems(m, C) PROVE FALSE
      <4>1. PICK i \in C : u \in PartItems(i, m[i])
        BY <1>5, <3>4
      <4> QED BY <1>4, <3>2, <4>1
    <3> QED BY <3>3, <3>4
  <2>2. ASSUME u \in StackItems("ms", m, front) \ BatchItems(m, C)
        PROVE  u \in StackItems("ms", m, to)
    BY <1>5, <1>6, <2>2
  <2> QED BY <2>1, <2>2
<1>9. StackItems("ms", m, to) = StackItems("ms", m, front) \ BatchItems(m, C)
  BY <1>8
<1> QED BY <1>7, <1>9 DEF QuickPassed, C

-----------------------------------------------------------------------------
(* Everything the job has still to do. *)
JobItems(J) == {JobItem(c) : c \in J}
WholeItems(at) ==
  {t \in {WholeItem(Section(0, Len(input.strings), input.flip))} : at = "start"}
AllItems(s, sf, m, mf, J, at) ==
  StackItems("ss", s, sf) \union StackItems("ms", m, mf) \union JobItems(J) \union WholeItems(at)

LEMMA ItemKinds ==
  ASSUME NEW s, NEW sf, NEW m, NEW mf, NEW J, NEW at
  PROVE  /\ \A t \in StackItems("ss", s, sf) : t.kind = "ss"
         /\ \A t \in StackItems("ms", m, mf) : t.kind = "ms"
         /\ \A t \in JobItems(J) : t.kind = "job" /\ t.room = 0 /\ t.frame \in J
         /\ \A t \in WholeItems(at) : t.kind = "all" /\ t.room = 0
<1>1. ASSUME NEW kind \in {"ss", "ms"}, NEW e, NEW front, NEW t \in StackItems(kind, e, front)
      PROVE  t.kind = kind
  <2>1. PICK k \in front + 1 .. Len(e) : t \in FrameItems(kind, k, e[k])
    BY <1>1 DEF StackItems
  <2> QED BY <2>1, FrameItemIs
<1>2. \A t \in JobItems(J) : t.kind = "job" /\ t.room = 0 /\ t.frame \in J
  BY JobItemIs DEF JobItems
<1>3. \A t \in WholeItems(at) : t.kind = "all" /\ t.room = 0
  BY DEF WholeItems, WholeItem
<1> QED BY <1>1, <1>2, <1>3

(* How large a cache they count on is a number.                            *)
LEMMA RoomsAre ==
  ASSUME NEW V, NEW s, NEW sf, NEW m, NEW mf, NEW J, NEW at, NEW D, NEW out, NEW a, NEW c, NEW r,
         Truth(V, D, out, a, c, r, AllItems(s, sf, m, mf, J, at))
  PROVE  \A u \in AllItems(s, sf, m, mf, J, at) : u.room \in Int
<1> SUFFICES ASSUME NEW u \in AllItems(s, sf, m, mf, J, at) PROVE u.room \in Int
  OBVIOUS
<1>1. u.sec.n \in Nat
  BY DEF Truth, ItemTrue
<1>2. CASE u \in StackItems("ss", s, sf)
  <2>1. PICK k \in sf + 1 .. Len(s) : u \in BucketItems(k, s[k])
    BY <1>2 DEF StackItems, FrameItems
  <2>2. PICK b : u = BucketItem(k, s[k], b)
    BY <2>1 DEF BucketItems
  <2>3. u.room = u.sec.n
    BY <2>2, BucketItemIs
  <2> QED BY <1>1, <2>3
<1>3. CASE u \in StackItems("ms", m, mf)
  <2>1. PICK k \in mf + 1 .. Len(m) : u \in PartItems(k, m[k])
    BY <1>3 DEF StackItems, FrameItems
  <2>2. PICK p : u = PartItem(k, m[k], p)
    BY <2>1 DEF PartItems
  <2>3. u.room = KeyCells * u.sec.n
    BY <2>2 DEF PartItem
  <2> QED BY <1>1, <2>3 DEF KeyCells
<1>4. CASE u \in JobItems(J) \union WholeItems(at)
  BY <1>4, ItemKinds
<1> QED BY <1>2, <1>3, <1>4 DEF AllItems

-----------------------------------------------------------------------------
(* Sections of equal strings are brought home one after the other.         *)
Apart(done) ==
  /\ IsFiniteSet(done) /\ \A d \in done : d.sec.flip \in BOOLEAN
  /\ \A d, e \in done : d # e => Positions(d.sec) \cap Positions(e.sec) = {}

AllHome(a, b, U) ==
  /\ \A d \in U : \A i \in Index : i \in Positions(d.sec) => b[class.out][i] = a[d.sec.flip][i]
  /\ \A i \in Index : (\A d \in U : i \notin Positions(d.sec))
       => \A side \in BOOLEAN : b[side][i] = a[side][i]

Copies(a, sec) ==
  a \in [BOOLEAN -> [Index -> Stored]] /\ sec.flip \in BOOLEAN /\ class.out \in BOOLEAN
CopiesHome(a, sec) ==
  BroughtHome(a, CopyBack(class, a, sec), Index, Positions(sec), class.out, sec.flip)

LEMMA CopiedHome ==
  ASSUME NEW a, NEW sec, Copies(a, sec)
  PROVE  CopiesHome(a, sec)
<1>1. a \in [BOOLEAN -> [Index -> Stored]] /\ sec.flip \in BOOLEAN /\ class.out \in BOOLEAN
  BY DEF Copies
<1>2. BroughtHome(a, CopyBack(class, a, sec), Index, Positions(sec), class.out, sec.flip)
  BY <1>1, CopiedBack
<1> QED BY <1>2 DEF CopiesHome

LEMMA EqualFinished ==
  ASSUME Typed, NEW done, Apart(done), FinishEqual(done)
  PROVE  arr' \in [BOOLEAN -> [Index -> Stored]] /\ LcpsTyped /\ AllHome(arr, arr', done)
<1> DEFINE op(w, d) == [arr |-> CopyBack(class, w.arr, d.sec),
                        lcp |-> FillLcp(class, w.lcp, d.sec, d.lcp),
                        chars |-> FillCache(class, w.chars, d.sec)]
           base == [arr |-> arr, lcp |-> lcp, chars |-> chars]
           iter == CHOOSE h : h = [s \in SUBSET done |-> IF s = {} THEN base
                                                         ELSE op(h[s \ {Pick(s)}], Pick(s))]
           L == {lcp[i] : i \in Index} \union {d.lcp : d \in done}
           C == {chars[i] : i \in Index} \union {0}
           A == [BOOLEAN -> [Index -> Stored]]
           T == [arr : A, lcp : [Index -> L], chars : [Index -> C]]
           step == [d \in done |-> [w \in T |-> op(w, d)]]
           pick == [s \in SUBSET done |-> Pick(s)]
<1>1. arr' = iter[done].arr /\ lcp' = iter[done].lcp /\ chars' = iter[done].chars
  BY DEF FinishEqual, FoldSet, MapThenFoldSet, Pick, LcpsBecome
<1>2. base \in T
  <2>1. arr \in A /\ lcp \in [Index -> L] /\ chars \in [Index -> C]
    BY DEF Typed
  <2> HIDE DEF A, L, C
  <2> QED BY <2>1
<1>3. class.out \in BOOLEAN /\ IsFiniteSet(done) /\ \A d \in done : d.sec.flip \in BOOLEAN
  BY InputIs DEF Typed, Apart
<1>4. ASSUME NEW w \in T, NEW d \in done
      PROVE  /\ op(w, d) \in T /\ op(w, d).arr = CopyBack(class, w.arr, d.sec)
             /\ BroughtHome(w.arr, op(w, d).arr, Index, Positions(d.sec), class.out, d.sec.flip)
  <2>1. w.arr \in A /\ w.lcp \in [Index -> L] /\ w.chars \in [Index -> C]
    <3> HIDE DEF A, L, C
    <3> QED BY <1>4
  <2>2. BroughtHome(w.arr, CopyBack(class, w.arr, d.sec), Index, Positions(d.sec), class.out,
                    d.sec.flip)
    <3>1. Copies(w.arr, d.sec)
      BY <1>3, <1>4, <2>1 DEF Copies
    <3>2. CopiesHome(w.arr, d.sec)
      BY ONLY <3>1, CopiedHome
    <3> QED BY <3>2 DEF CopiesHome
  <2>3. CopyBack(class, w.arr, d.sec) \in A
    BY <2>2 DEF BroughtHome
  <2>4. FillLcp(class, w.lcp, d.sec, d.lcp) \in [Index -> L]
    <3> DEFINE g == [i \in Positions(d.sec) \ {d.sec.lo} |-> d.lcp]
    <3>1. \A i \in DOMAIN g : g[i] \in L
      OBVIOUS
    <3> HIDE DEF g, L
    <3>2. SetLcp(class, w.lcp, g) \in [Index -> L]
      BY ONLY <2>1, <3>1, SetTyped
    <3> QED BY <3>2 DEF FillLcp, g
  <2>5. FillCache(class, w.chars, d.sec) \in [Index -> C]
    <3> DEFINE g == [i \in Positions(d.sec) \ {d.sec.lo} |-> 0]
    <3>1. \A i \in DOMAIN g : g[i] \in C
      OBVIOUS
    <3> HIDE DEF g, C
    <3>2. SetCache(class, w.chars, g) \in [Index -> C]
      BY ONLY <2>1, <3>1, SetTyped
    <3> QED BY <3>2 DEF FillCache, g
  <2>6. op(w, d).arr = CopyBack(class, w.arr, d.sec)
    OBVIOUS
  <2>7. op(w, d) \in T
    <3> HIDE DEF A, L, C
    <3> QED BY ONLY <2>3, <2>4, <2>5
  <2>8. BroughtHome(w.arr, op(w, d).arr, Index, Positions(d.sec), class.out, d.sec.flip)
    BY ONLY <2>2, <2>6
  <2> QED BY ONLY <2>6, <2>7, <2>8
<1>5. \A d \in done, w \in T : step[d][w] = op(w, d) /\ step[d][w] \in T
  <2> HIDE DEF op, T
  <2>1. \A d \in done, w \in T : step[d][w] = op(w, d)
    OBVIOUS
  <2> QED BY <1>4, <2>1
<1> HIDE DEF step
<1>6. \A s \in SUBSET done : pick[s] = Pick(s) /\ (s # {} => Pick(s) \in s)
  BY DEF Pick
<1> HIDE DEF pick
<1>7. PICK h \in [SUBSET done -> T] : Folding(h, done, base, pick, step)
  <2>1. \A s \in SUBSET done : s # {} => pick[s] \in s
    BY <1>6
  <2>2. \A d \in done, w \in T : step[d][w] \in T
    BY <1>5
  <2> HIDE DEF T, base
  <2> QED BY ONLY <1>2, <1>3, <2>1, <2>2, FoldExists
<1> HIDE DEF op, T, base
<1>8. h = [s \in SUBSET done |-> IF s = {} THEN base ELSE op(h[s \ {Pick(s)}], Pick(s))]
  <2>1. ASSUME NEW s \in SUBSET done, s # {} PROVE h[s] = op(h[s \ {Pick(s)}], Pick(s))
    <3>1. h[s \ {Pick(s)}] \in T /\ Pick(s) \in done
      BY <1>6, <1>7, <2>1
    <3> QED BY <1>5, <1>6, <1>7, <2>1, <3>1 DEF Folding
  <2> QED BY <1>7, <2>1 DEF Folding
<1>9. iter = [s \in SUBSET done |-> IF s = {} THEN base ELSE op(iter[s \ {Pick(s)}], Pick(s))]
  BY <1>8
<1> HIDE DEF iter
<1> DEFINE P == {s \in SUBSET done : iter[s] \in T /\ AllHome(arr, iter[s].arr, s)}
<1>10. done \in P
  <2>1. ASSUME NEW s \in SUBSET done, \A x \in s : s \ {x} \in P PROVE s \in P
    <3>1. CASE s = {}
      <4>1. iter[s] = base /\ iter[s] \in T
        BY <1>2, <1>9, <3>1
      <4>2. iter[s].arr = arr
        BY <4>1 DEF base
      <4> QED BY <3>1, <4>1, <4>2 DEF AllHome
    <3>2. CASE s # {}
      <4> DEFINE d == Pick(s)
                 r == s \ {d}
      <4>1. d \in s /\ d \in done /\ r \in P /\ r \in SUBSET done
        BY <1>6, <2>1, <3>2
      <4>2. iter[s] = op(iter[r], d)
        BY <1>9, <3>2
      <4> HIDE DEF d
      <4> DEFINE w == iter[r]
                 x == iter[s]
      <4>3. w \in T /\ AllHome(arr, w.arr, r)
        BY <4>1
      <4>4. x = op(w, d)
        BY <4>2
      <4> HIDE DEF w, x
      <4>5. x \in T /\ BroughtHome(w.arr, x.arr, Index, Positions(d.sec), class.out, d.sec.flip)
        BY <1>4, <4>1, <4>3, <4>4
      <4>6. \A e \in r : Positions(d.sec) \cap Positions(e.sec) = {}
        BY <4>1 DEF Apart
      <4>7. AllHome(arr, x.arr, s)
        <5>1. ASSUME NEW e \in s, NEW i \in Index, i \in Positions(e.sec)
              PROVE  x.arr[class.out][i] = arr[e.sec.flip][i]
          <6>1. CASE e = d
            <7>1. \A u \in r : i \notin Positions(u.sec)
              BY <4>6, <5>1, <6>1
            <7>2. w.arr[d.sec.flip][i] = arr[d.sec.flip][i]
              BY <1>3, <4>1, <4>3, <7>1 DEF AllHome
            <7>3. x.arr[class.out][i] = w.arr[d.sec.flip][i]
              BY <4>5, <5>1, <6>1 DEF BroughtHome
            <7> QED BY <6>1, <7>2, <7>3
          <6>2. CASE e # d
            <7>1. e \in r /\ i \notin Positions(d.sec)
              BY <4>6, <5>1, <6>2
            <7>2. w.arr[class.out][i] = arr[e.sec.flip][i]
              BY <4>3, <5>1, <7>1 DEF AllHome
            <7>3. x.arr[class.out][i] = w.arr[class.out][i]
              BY <1>3, <4>5, <7>1 DEF BroughtHome
            <7> QED BY <7>2, <7>3
          <6> QED BY <6>1, <6>2
        <5>2. ASSUME NEW i \in Index, \A e \in s : i \notin Positions(e.sec), NEW side \in BOOLEAN
              PROVE  x.arr[side][i] = arr[side][i]
          <6>1. w.arr[side][i] = arr[side][i]
            BY <4>3, <5>2 DEF AllHome
          <6>2. x.arr[side][i] = w.arr[side][i]
            BY <4>1, <4>5, <5>2 DEF BroughtHome
          <6> QED BY <6>1, <6>2
        <5> QED BY <5>1, <5>2 DEF AllHome
      <4>8. iter[s] \in T /\ AllHome(arr, iter[s].arr, s)
        BY ONLY <4>5, <4>7 DEF x
      <4> QED BY <4>8
    <3> QED BY <3>1, <3>2
  <2>2. \A s \in SUBSET done : (\A x \in s : s \ {x} \in P) => s \in P
    BY <2>1
  <2> HIDE DEF P
  <2> QED BY <1>3, <2>2, SetInd
<1>11. iter[done] \in T /\ AllHome(arr, iter[done].arr, done)
  BY <1>10
<1>12. /\ iter[done].arr \in A /\ iter[done].lcp \in [Index -> L]
       /\ iter[done].chars \in [Index -> C]
  <2> HIDE DEF A, L, C
  <2> QED BY <1>11 DEF T
<1>13. lcp' = [i \in Index |-> lcp'[i]] /\ chars' = [i \in Index |-> chars'[i]]
  <2> HIDE DEF L, C
  <2> QED BY <1>1, <1>12
<1> QED BY <1>1, <1>11, <1>12, <1>13 DEF LcpsTyped

-----------------------------------------------------------------------------
LEMMA ImageFinite ==
  ASSUME NEW S, IsFiniteSet(S), NEW f
  PROVE  IsFiniteSet({f[x] : x \in S})
<1> DEFINE T == {f[x] : x \in S}
           g == [x \in S |-> f[x]]
<1>1. g \in Surjection(S, T)
  BY DEF Surjection
<1> HIDE DEF g, T
<1>2. IsFiniteSet(T)
  BY ONLY <1>1, IsFiniteSet(S), FS_Surjection
<1> QED BY <1>2 DEF T

(* What items are given away as.                                           *)
GivenOf(X) == {[sec |-> t.sec, depth |-> t.depth] : t \in {u \in X : u.sec.n > 0 /\ ~u.done}}
DoneOf(X, v) == {[sec |-> t.sec, lcp |-> v[t]] : t \in {u \in X : u.sec.n > 0 /\ u.done}}

GivenFinite(X, v) == IsFiniteSet(GivenOf(X)) /\ IsFiniteSet(DoneOf(X, v))

LEMMA GivenAreFinite ==
  ASSUME NEW X, IsFiniteSet(X), NEW v
  PROVE  GivenFinite(X, v)
<1> DEFINE A == {u \in X : u.sec.n > 0 /\ ~u.done}
           B == {u \in X : u.sec.n > 0 /\ u.done}
           f == [t \in A |-> [sec |-> t.sec, depth |-> t.depth]]
           g == [t \in B |-> [sec |-> t.sec, lcp |-> v[t]]]
<1>1. IsFiniteSet(A) /\ IsFiniteSet(B)
  <2>1. A \in SUBSET X /\ B \in SUBSET X
    OBVIOUS
  <2> HIDE DEF A, B
  <2> QED BY <2>1, FS_Subset
<1>2. GivenOf(X) = {f[t] : t \in A} /\ DoneOf(X, v) = {g[t] : t \in B}
  <2>1. GivenOf(X) = {[sec |-> t.sec, depth |-> t.depth] : t \in A}
    BY DEF GivenOf
  <2>2. DoneOf(X, v) = {[sec |-> t.sec, lcp |-> v[t]] : t \in B}
    BY DEF DoneOf
  <2> HIDE DEF A, B
  <2>3. \A t \in A : f[t] = [sec |-> t.sec, depth |-> t.depth]
    OBVIOUS
  <2>4. \A t \in B : g[t] = [sec |-> t.sec, lcp |-> v[t]]
    OBVIOUS
  <2> HIDE DEF f, g
  <2>5. GivenOf(X) = {f[t] : t \in A}
    BY <2>1, <2>3
  <2>6. DoneOf(X, v) = {g[t] : t \in B}
    BY <2>2, <2>4
  <2> QED BY <2>5, <2>6
<1> HIDE DEF f, g, A, B
<1>3. IsFiniteSet({f[t] : t \in A}) /\ IsFiniteSet({g[t] : t \in B})
  BY <1>1, ImageFinite
<1> QED BY <1>2, <1>3 DEF GivenFinite

(* What they are of. *)
LEMMA GivenFrom ==
  ASSUME NEW X, NEW v
  PROVE  /\ \A c \in GivenOf(X) : \E t \in X :
              t.sec.n > 0 /\ ~t.done /\ c = [sec |-> t.sec, depth |-> t.depth]
         /\ \A d \in DoneOf(X, v) : \E t \in X : t.sec.n > 0 /\ t.done /\ d.sec = t.sec
                                              /\ d = [sec |-> t.sec, lcp |-> v[t]]
         /\ \A t \in X : t.sec.n > 0 /\ ~t.done => [sec |-> t.sec, depth |-> t.depth] \in GivenOf(X)
         /\ \A t \in X : t.sec.n > 0 /\ t.done => \E d \in DoneOf(X, v) : d.sec = t.sec
<1>1. \A t \in X : t.sec.n > 0 /\ t.done =>
        [sec |-> t.sec, lcp |-> v[t]] \in DoneOf(X, v) /\ [sec |-> t.sec, lcp |-> v[t]].sec = t.sec
  BY DEF DoneOf
<1>2. \A t \in X : t.sec.n > 0 /\ t.done => \E d \in DoneOf(X, v) : d.sec = t.sec
  BY <1>1
<1>3. \A d \in DoneOf(X, v) : \E t \in X : t.sec.n > 0 /\ t.done /\ d = [sec |-> t.sec, lcp |-> v[t]]
  BY DEF DoneOf
<1>4. \A d \in DoneOf(X, v) : \E t \in X : t.sec.n > 0 /\ t.done /\ d.sec = t.sec
                                        /\ d = [sec |-> t.sec, lcp |-> v[t]]
  BY <1>3
<1>5. \A c \in GivenOf(X) : \E t \in X :
        t.sec.n > 0 /\ ~t.done /\ c = [sec |-> t.sec, depth |-> t.depth]
  BY DEF GivenOf
<1>6. \A t \in X : t.sec.n > 0 /\ ~t.done => [sec |-> t.sec, depth |-> t.depth] \in GivenOf(X)
  BY DEF GivenOf
<1> QED BY <1>2, <1>4, <1>5, <1>6

(* Items given away, and what the rest finds. *)
Gives(V, Q, X, v) ==
  /\ Typed /\ Arranged(V) /\ Truth(V, Index, class.out, arr, cache, room, Q)
  /\ X \in SUBSET Q /\ IsFiniteSet(X) /\ FinishEqual(DoneOf(X, v)) /\ UNCHANGED caches

GivenKept(Q, X) ==
  /\ Kept(arr', cache', room', (Q \ X) \union JobItems(GivenOf(X)))
  /\ StillTyped /\ room' = room /\ IsFiniteSet(GivenOf(X))

LEMMA GivesKeep ==
  ASSUME NEW V, NEW Q, NEW X, NEW v, Gives(V, Q, X, v)
  PROVE  GivenKept(Q, X)
<1> DEFINE given == GivenOf(X)
           done == DoneOf(X, v)
           J == JobItems(given)
<1>1. /\ Typed /\ Arranged(V) /\ Truth(V, Index, class.out, arr, cache, room, Q)
      /\ X \in SUBSET Q /\ IsFiniteSet(X) /\ FinishEqual(done)
      /\ cache' = cache /\ room' = room
  BY DEF Gives, caches
<1>2. IsFiniteSet(given) /\ IsFiniteSet(done)
  BY <1>1, GivenAreFinite DEF GivenFinite
<1>3. /\ \A t \in Q : ItemTrue(V, Index, arr, cache, room, t)
      /\ \A t, u \in Q : t # u => Covers(t) \cap Covers(u) = {}
  BY <1>1 DEF Truth
<1>4. \A c \in given : \E t \in X : t.sec.n > 0 /\ ~t.done /\ c = [sec |-> t.sec, depth |-> t.depth]
  BY GivenFrom
<1>5. \A d \in done : \E t \in X : t.sec.n > 0 /\ t.done /\ d.sec = t.sec
                                  /\ d = [sec |-> t.sec, lcp |-> v[t]]
  BY GivenFrom
<1>6. \A t \in X : t.sec.n > 0 /\ ~t.done => [sec |-> t.sec, depth |-> t.depth] \in given
  BY GivenFrom
<1>7. \A t \in X : t.sec.n > 0 /\ t.done => \E d \in done : d.sec = t.sec
  BY GivenFrom
<1> HIDE DEF given, done
<1>8. Apart(done)
  <2>1. \A d \in done : d.sec.flip \in BOOLEAN
    <3> SUFFICES ASSUME NEW d \in done PROVE d.sec.flip \in BOOLEAN
      OBVIOUS
    <3>1. PICK t \in X : d.sec = t.sec
      BY <1>5
    <3> QED BY <1>1, <1>3, <3>1 DEF ItemTrue
  <2>2. ASSUME NEW d \in done, NEW e \in done, d # e
        PROVE  Positions(d.sec) \cap Positions(e.sec) = {}
    <3>1. PICK t \in X : d = [sec |-> t.sec, lcp |-> v[t]] /\ d.sec = t.sec
      BY <1>5
    <3>2. PICK u \in X : e = [sec |-> u.sec, lcp |-> v[u]] /\ e.sec = u.sec
      BY <1>5
    <3>3. t # u
      BY <2>2, <3>1, <3>2
    <3>4. Covers(t) \cap Covers(u) = {}
      BY <1>1, <1>3, <3>3
    <3> QED BY <3>1, <3>2, <3>4 DEF Covers
  <2> QED BY <1>2, <2>1, <2>2 DEF Apart
<1>9. arr' \in [BOOLEAN -> [Index -> Stored]] /\ LcpsTyped /\ AllHome(arr, arr', done)
  BY <1>1, <1>8, EqualFinished
<1>10. /\ class.out \in BOOLEAN /\ Index \in SUBSET Int /\ room \in Nat
  BY <1>1, InputIs DEF Typed
<1>11. ASSUME NEW t \in X PROVE Covers(t) \subseteq Index /\ t.sec.n \in Nat
  BY <1>1, <1>3 DEF ItemTrue
<1>12. \A u \in J : \E c \in given : u = JobItem(c)
  BY DEF JobItems
<1>13. \A u \in J : \E t \in X : Hands(u, t)
  <2> SUFFICES ASSUME NEW u \in J PROVE \E t \in X : Hands(u, t)
    OBVIOUS
  <2>1. PICK c \in given : u = JobItem(c)
    BY <1>12
  <2>2. PICK t \in X : ~t.done /\ c = [sec |-> t.sec, depth |-> t.depth]
    BY <1>4
  <2>3. u.sec = c.sec /\ ~u.done /\ u.depth = c.depth /\ u.cached = {} /\ u.room = 0
    BY <2>1, JobItemIs
  <2>4. c.sec = t.sec /\ c.depth = t.depth
    BY <2>2
  <2> QED BY <2>2, <2>3, <2>4 DEF Hands
<1>14. \A u, w \in J, t \in X : Hands(u, t) /\ Hands(w, t) => u = w
  <2> SUFFICES ASSUME NEW u \in J, NEW w \in J, NEW t \in X, Hands(u, t), Hands(w, t) PROVE u = w
    OBVIOUS
  <2>1. PICK c \in given : u = JobItem(c)
    BY <1>12
  <2>2. PICK d \in given : w = JobItem(d)
    BY <1>12
  <2>3. c = [sec |-> c.sec, depth |-> c.depth] /\ d = [sec |-> d.sec, depth |-> d.depth]
    BY <1>4
  <2>4. u.sec = c.sec /\ u.depth = c.depth /\ w.sec = d.sec /\ w.depth = d.depth
    BY <2>1, <2>2, JobItemIs
  <2>5. c.sec = t.sec /\ c.depth = t.depth /\ d.sec = t.sec /\ d.depth = t.depth
    BY <2>4 DEF Hands
  <2>6. c = d
    BY <2>3, <2>5
  <2> QED BY <2>1, <2>2, <2>6
<1>15. \A t \in X : \/ Covers(t) = {}
                    \/ t.done /\ \A i \in Covers(t) : arr'[class.out][i] = arr[t.sec.flip][i]
                    \/ \E u \in J : Hands(u, t)
  <2> SUFFICES ASSUME NEW t \in X
               PROVE  \/ Covers(t) = {}
                      \/ t.done /\ \A i \in Covers(t) : arr'[class.out][i] = arr[t.sec.flip][i]
                      \/ \E u \in J : Hands(u, t)
    OBVIOUS
  <2>1. CASE ~(t.sec.n > 0)
    <3>1. t.sec.lo \in Int /\ t.sec.n = 0
      BY <1>1, <1>3, <2>1 DEF ItemTrue
    <3> QED BY <3>1 DEF Covers, Positions
  <2>2. CASE t.sec.n > 0 /\ t.done
    <3>1. PICK d \in done : d.sec = t.sec
      BY <1>7, <2>2
    <3>2. \A i \in Covers(t) : i \in Index /\ i \in Positions(d.sec)
      BY <1>11, <3>1 DEF Covers
    <3>3. \A i \in Covers(t) : arr'[class.out][i] = arr[d.sec.flip][i]
      BY <1>9, <3>2 DEF AllHome
    <3> QED BY <2>2, <3>1, <3>3
  <2>3. CASE t.sec.n > 0 /\ ~t.done
    <3> DEFINE c == [sec |-> t.sec, depth |-> t.depth]
    <3>1. c \in given /\ c.sec = t.sec /\ c.depth = t.depth
      BY <1>6, <2>3
    <3> HIDE DEF c
    <3>2. JobItem(c) \in J
      BY <3>1 DEF JobItems
    <3>3. Hands(JobItem(c), t)
      BY <2>3, <3>1, JobItemIs DEF Hands
    <3> QED BY <3>2, <3>3
  <2> QED BY <2>1, <2>2, <2>3
<1>16. \A i \in Index : (\A t \in X : t.done => i \notin Covers(t))
         => \A side \in BOOLEAN : arr'[side][i] = arr[side][i]
  <2> SUFFICES ASSUME NEW i \in Index, \A t \in X : t.done => i \notin Covers(t)
               PROVE  \A side \in BOOLEAN : arr'[side][i] = arr[side][i]
    OBVIOUS
  <2>1. \A d \in done : i \notin Positions(d.sec)
    BY <1>5 DEF Covers
  <2> QED BY <1>9, <2>1 DEF AllHome
<1> HIDE DEF J
<1>17. Truth(V, Index, class.out, arr', cache, room, (Q \ X) \union J)
  <2>1. GivingAway(Index, class.out, V, arr, cache, room, Q, X, J, arr')
    BY <1>1, <1>10, <1>13, <1>14, <1>15, <1>16 DEF GivingAway
  <2> QED BY ONLY <2>1, GivenAway
<1>18. Kept(arr', cache', room', (Q \ X) \union J)
  <2>1. Truth(V, Index, class.out, arr', cache', room', (Q \ X) \union J)
    BY ONLY <1>1, <1>17
  <2> QED BY <1>1, <2>1 DEF Kept
<1>19. StillTyped
  BY <1>1, <1>9 DEF StillTyped, Typed
<1> QED BY <1>1, <1>2, <1>18, <1>19 DEF GivenKept, J, given

(* They are new jobs. *)
LEMMA GivenNew ==
  ASSUME NEW V, NEW Q, NEW D, NEW out, NEW a, NEW c, NEW r, Truth(V, D, out, a, c, r, Q),
         NEW X \in SUBSET Q, \A t \in X : t.kind # "job", NEW J, JobItems(J) \subseteq Q
  PROVE  J \cap GivenOf(X) = {}
<1> SUFFICES ASSUME NEW j \in J, j \in GivenOf(X) PROVE FALSE
  OBVIOUS
<1>1. PICK t \in X : t.sec.n > 0 /\ j = [sec |-> t.sec, depth |-> t.depth]
  BY DEF GivenOf
<1>2. JobItem(j) \in Q /\ JobItem(j).kind = "job" /\ Covers(JobItem(j)) = Positions(j.sec)
  BY JobItemIs DEF JobItems
<1>3. t \in Q /\ t # JobItem(j)
  BY <1>2
<1>4. Covers(t) = Covers(JobItem(j))
  BY <1>1, <1>2 DEF Covers
<1>5. t.sec.lo \in Int /\ t.sec.n \in Nat
  BY <1>3 DEF Truth, ItemTrue
<1>6. t.sec.lo \in Covers(t)
  BY <1>1, <1>5 DEF Covers, Positions
<1> QED BY <1>2, <1>3, <1>4, <1>6 DEF Truth

-----------------------------------------------------------------------------
(* The invariant.  The places of the frames on the stacks: *)
InRun == {"ss", "ssAsk", "ms", "msAsk", "finish"}

Stacks ==
  /\ IsStack("ss", ss) /\ IsStack("ms", ms)
  /\ ssFront \in Nat /\ ssFront <= Len(ss) /\ msFront \in Nat /\ msFront <= Len(ms)
  /\ Len(ss) > ssFront => msFront = 0
  /\ pc \in {"ss", "ssAsk"} => Len(ms) = msFront
  /\ pc \in {"finish", "returned", "alldone", "deleted"} => Len(ss) = ssFront /\ Len(ms) = msFront
  /\ Len(input.strings) < SmallThreshold => ss = <<>>
  /\ pc = "start" => ss = <<>> /\ ms = <<>>

Handles ==
  /\ pc \in InRun \union {"start", "returned", "alldone", "deleted"}
  /\ IsFiniteSet(subs)
  /\ HandlesExact

Alive ==
  /\ input \in Inputs
  /\ pc # "deleted" => Typed /\ told = 0
  /\ pc = "start" => room = 0 /\ subs = {}

Items == AllItems(ss, ssFront, ms, msFront, subs, pc)
ItemsNext == AllItems(ss', ssFront', ms', msFront', subs', pc')

Consistent == Kept(arr, cache, room, Items)

JobInv == Stacks /\ Handles /\ Alive /\ Consistent

LEMMA ConsistentNext ==
  ASSUME Kept(arr', cache', room', ItemsNext), input' = input
  PROVE  Consistent'
BY DEF Consistent, ItemsNext, Items, Kept, Arranged, Index, class, AllItems, WholeItems

(* What the items are true of. *)
Holds(V) ==
  /\ Arranged(V)
  /\ Truth(V, Index, class.out, arr, cache, room, Items)
  /\ \A u \in Items : u.room \in Int

LEMMA HoldsIs ==
  ASSUME JobInv
  PROVE  \E V : Holds(V)
<1>1. PICK V : Arranged(V) /\ Truth(V, Index, class.out, arr, cache, room, Items)
  BY DEF JobInv, Consistent, Kept
<1>2. \A u \in Items : u.room \in Int
  BY <1>1, RoomsAre DEF Items
<1> QED BY <1>1, <1>2 DEF Holds

(* An item may be begun. *)
LEMMA ItemReady ==
  ASSUME NEW V, Holds(V), Typed, NEW t \in Items
  PROVE  Ready(V, t)
BY ReadyIs DEF Holds

(* It has been worked on. *)
LEMMA ItemWorked ==
  ASSUME NEW V, Holds(V), Typed, NEW t \in Items, NEW R, Advances(V, t, R),
         room' \in Int, room <= room'
  PROVE  Kept(arr', cache', room', (Items \ {t}) \union R) /\ StillTyped
<1>1. /\ Arranged(V) /\ Truth(V, Index, class.out, arr, cache, room, Items)
      /\ \A u \in Items : u.room \in Int
  BY DEF Holds
<1> QED BY <1>1, WorkKept

(* A step of run(). *)
LEMMA HandlesKept ==
  ASSUME Handles, UNCHANGED jobs, pc \in InRun, pc' \in InRun
  PROVE  Handles'
<1>1. subs' = subs /\ substeps' = substeps
  BY DEF jobs
<1>2. /\ pc \notin {"alldone", "deleted"} /\ pc # "start"
      /\ pc' \notin {"alldone", "deleted"} /\ pc' # "start"
      /\ pc \in {"ss", "ssAsk", "ms", "msAsk", "finish"}
      /\ pc' \in {"ss", "ssAsk", "ms", "msAsk", "finish"}
  BY DEF InRun
<1>3. HandlesExact'
  BY <1>1, <1>2 DEF Handles, HandlesExact
<1> QED BY <1>1, <1>3 DEF Handles

LEMMA RunStep ==
  ASSUME JobInv, UNCHANGED <<input, jobs, told>>, pc \in InRun, pc' \in InRun, room' \in Nat,
         StillTyped, Kept(arr', cache', room', ItemsNext), Stacks'
  PROVE  JobInv'
<1>1. Handles'
  <2>1. Handles
    BY DEF JobInv
  <2> QED BY <2>1, HandlesKept
<1>2. Consistent'
  BY ConsistentNext
<1>3. Alive'
  <2>1. input' = input /\ told' = told /\ pc # "deleted" /\ pc' # "deleted" /\ pc' # "start"
    BY DEF InRun
  <2>2. Typed /\ told = 0
    BY <2>1 DEF JobInv, Alive
  <2>3. Typed'
    BY <2>1, <2>2 DEF Typed, StillTyped, LcpsTyped, Index
  <2> QED BY <2>1, <2>2, <2>3 DEF Alive, Typed
<1> QED BY <1>1, <1>2, <1>3 DEF JobInv

(* What is known while the job runs. *)
LEMMA InRunIs ==
  ASSUME JobInv, pc \in InRun
  PROVE  /\ Typed /\ told = 0 /\ Stacks /\ Handles /\ pc # "start" /\ room \in Nat
         /\ input \in Inputs
BY DEF JobInv, Alive, Typed, InRun

(* The items when one is taken from a stack, and when some are put there.  *)
LEMMA ItemsLess ==
  ASSUME NEW s, NEW sf, NEW m, NEW mf, NEW J, NEW at, at # "start", NEW at1, at1 # "start", NEW t
  PROVE  /\ TopAdvanced("ss", s, sf, t) =>
              /\ t \in AllItems(s, sf, m, mf, J, at)
              /\ AllItems(Advanced(s), sf, m, mf, J, at1) = AllItems(s, sf, m, mf, J, at) \ {t}
         /\ TopAdvanced("ms", m, mf, t) =>
              /\ t \in AllItems(s, sf, m, mf, J, at)
              /\ AllItems(s, sf, Advanced(m), mf, J, at1) = AllItems(s, sf, m, mf, J, at) \ {t}
<1>1. WholeItems(at) = {} /\ WholeItems(at1) = {}
  BY DEF WholeItems
<1>2. ASSUME TopAdvanced("ss", s, sf, t)
      PROVE  /\ t \in AllItems(s, sf, m, mf, J, at)
             /\ AllItems(Advanced(s), sf, m, mf, J, at1) = AllItems(s, sf, m, mf, J, at) \ {t}
  <2>1. /\ t \in StackItems("ss", s, sf)
        /\ StackItems("ss", Advanced(s), sf) = StackItems("ss", s, sf) \ {t}
    BY <1>2 DEF TopAdvanced
  <2>2. t \notin StackItems("ms", m, mf) /\ t \notin JobItems(J)
    BY <2>1, ItemKinds
  <2> QED BY <1>1, <1>2, <2>1, <2>2 DEF AllItems
<1>3. ASSUME TopAdvanced("ms", m, mf, t)
      PROVE  /\ t \in AllItems(s, sf, m, mf, J, at)
             /\ AllItems(s, sf, Advanced(m), mf, J, at1) = AllItems(s, sf, m, mf, J, at) \ {t}
  <2>1. /\ t \in StackItems("ms", m, mf)
        /\ StackItems("ms", Advanced(m), mf) = StackItems("ms", m, mf) \ {t}
    BY <1>3 DEF TopAdvanced
  <2>2. t \notin StackItems("ss", s, sf) /\ t \notin JobItems(J)
    BY <2>1, ItemKinds
  <2> QED BY <1>1, <1>3, <2>1, <2>2 DEF AllItems
<1> QED BY <1>2, <1>3

SampleAdded(s, sf, m, mf, J, at, at1, f) ==
  AllItems(Append(s, f), sf, m, mf, J, at1)
    = AllItems(s, sf, m, mf, J, at) \union BucketItems(Len(s) + 1, f)
QuickAdded(s, sf, m, mf, J, at, at1, f) ==
  AllItems(s, sf, Append(m, f), mf, J, at1)
    = AllItems(s, sf, m, mf, J, at) \union PartItems(Len(m) + 1, f)

LEMMA SampleItemsMore ==
  ASSUME NEW s, NEW sf, NEW m, NEW mf, NEW J, NEW at, at # "start", NEW at1, at1 # "start",
         NEW f, TopAdded("ss", s, sf, f)
  PROVE  SampleAdded(s, sf, m, mf, J, at, at1, f)
<1>1. WholeItems(at) = {} /\ WholeItems(at1) = {}
  BY DEF WholeItems
<1> QED BY <1>1 DEF AllItems, TopAdded, FrameItems, SampleAdded

LEMMA QuickItemsMore ==
  ASSUME NEW s, NEW sf, NEW m, NEW mf, NEW J, NEW at, at # "start", NEW at1, at1 # "start",
         NEW f, TopAdded("ms", m, mf, f)
  PROVE  QuickAdded(s, sf, m, mf, J, at, at1, f)
<1>1. WholeItems(at) = {} /\ WholeItems(at1) = {}
  BY DEF WholeItems
<1> QED BY <1>1 DEF AllItems, TopAdded, FrameItems, QuickAdded

-----------------------------------------------------------------------------
(* The loop of sort_sample_sort.  The next bucket is an item; when it has  *)
(* been dealt with, the others are left.                                   *)
NextBucket == BucketItem(Len(ss), Last(ss), Last(ss).idx)

LEMMA BucketIs ==
  ASSUME JobInv, AtBucket
  PROVE  /\ TopAdvanced("ss", ss, ssFront, NextBucket) /\ NextBucket \in Items
         /\ NextBucket.sec = NextSection /\ NextBucket.depth = NextDepth
         /\ (NextBucket.done <=> NextDone) /\ NextBucket.cached = {}
         /\ \A at : at # "start" =>
              AllItems(Advanced(ss), ssFront, ms, msFront, subs, at) = Items \ {NextBucket}
         /\ IsStack("ss", Advanced(ss)) /\ Len(Advanced(ss)) = Len(ss)
         /\ Len(ss) \in Nat /\ ss # <<>> /\ msFront = 0 /\ Len(ms) = 0 /\ IsStack("ms", ms)
<1>1. /\ pc = "ss" /\ Len(ss) > ssFront /\ Last(ss).idx < BktNum
  BY DEF AtBucket
<1>2. Stacks /\ pc \in InRun
  BY <1>1 DEF JobInv, InRun
<1>3. /\ IsStack("ss", ss) /\ IsStack("ms", ms) /\ ssFront \in Nat
      /\ msFront = 0 /\ Len(ms) = 0
  BY <1>1, <1>2 DEF Stacks
<1>4. Len(ss) \in Nat
  BY <1>3, StackLen
<1>5. ss # <<>>
  BY <1>1, <1>3
<1>6. Last(ss) = ss[Len(ss)]
  BY DEF Last
<1>7. TopAdvanced("ss", ss, ssFront, NextBucket)
  <2>1. ss[Len(ss)].idx < FrameEnd("ss") /\ ssFront < Len(ss)
    BY <1>1, <1>3, <1>4, <1>6 DEF FrameEnd
  <2>2. TopAdvanced("ss", ss, ssFront, NextItem("ss", Len(ss), ss[Len(ss)]))
    BY <1>3, <2>1, StackAdvances
  <2> QED BY <1>6, <2>2 DEF NextItem, NextBucket
<1>8. IsStack("ss", Advanced(ss)) /\ Len(Advanced(ss)) = Len(ss)
  BY <1>7 DEF TopAdvanced, StackBecomes
<1>9. /\ NextBucket.sec = NextSection /\ NextBucket.depth = NextDepth
      /\ (NextBucket.done <=> NextDone) /\ NextBucket.cached = {}
  BY BucketItemIs DEF NextBucket, NextSection, NextDepth, NextDone
<1>10. pc # "start"
  BY <1>1
<1>11. NextBucket \in Items
  BY <1>7, <1>10, ItemsLess DEF Items
<1>12. \A at : at # "start" =>
         AllItems(Advanced(ss), ssFront, ms, msFront, subs, at) = Items \ {NextBucket}
  BY <1>7, <1>10, ItemsLess DEF Items
<1> QED BY <1>3, <1>4, <1>5, <1>7, <1>8, <1>9, <1>11, <1>12

(* The stacks after it. *)
LEMMA SampleStacks ==
  ASSUME Stacks, pc = "ss", Len(ss) > ssFront, ss # <<>>, pc' = "ssAsk",
         UNCHANGED <<input, ssFront, quick>>, NEW k, StackBecomes("ss", ss', k), ssFront <= k
  PROVE  Stacks'
<1>1. /\ input' = input /\ ssFront' = ssFront /\ ms' = ms /\ msFront' = msFront
      /\ IsStack("ss", ss') /\ Len(ss') = k
  BY DEF quick, StackBecomes
<1>2. msFront = 0 /\ Len(ms) = msFront
      /\ ~(Len(input.strings) < SmallThreshold)
  <2>1. ~(Len(input.strings) < SmallThreshold)
    BY DEF Stacks
  <2> QED BY <2>1 DEF Stacks
<1> QED BY <1>1, <1>2 DEF Stacks

(* A bucket that is done with at once. *)
LEMMA BucketWorked ==
  ASSUME JobInv, AtBucket, NEW V, Holds(V), Advances(V, NextBucket, {}),
         UNCHANGED <<input, room, ssFront, quick, jobs, told>>, ss' = Advanced(ss), pc' = "ssAsk"
  PROVE  JobInv'
<1>1. /\ input' = input /\ room' = room /\ ssFront' = ssFront /\ ms' = ms /\ msFront' = msFront
      /\ subs' = subs
  BY DEF quick, jobs
<1>2. pc = "ss" /\ Len(ss) > ssFront /\ pc \in InRun /\ pc' \in InRun /\ pc' # "start"
  BY DEF AtBucket, InRun
<1>3. Typed /\ Stacks /\ room \in Nat
  BY <1>2, InRunIs
<1>4. NextBucket \in Items /\ IsStack("ss", ss') /\ Len(ss') = Len(ss) /\ ss # <<>> /\ Len(ss) \in Nat
  BY BucketIs
<1>5. Kept(arr', cache', room', (Items \ {NextBucket}) \union {}) /\ StillTyped
  BY <1>1, <1>3, <1>4, ItemWorked
<1>6. ItemsNext = (Items \ {NextBucket}) \union {}
  <2>1. AllItems(Advanced(ss), ssFront, ms, msFront, subs, pc') = Items \ {NextBucket}
    BY <1>2, BucketIs
  <2> QED BY <1>1, <2>1 DEF ItemsNext
<1>7. Kept(arr', cache', room', ItemsNext)
  BY ONLY <1>5, <1>6
<1>8. Stacks'
  <2>1. StackBecomes("ss", ss', Len(ss)) /\ ssFront <= Len(ss)
    BY <1>3, <1>4 DEF StackBecomes, Stacks
  <2> QED BY <1>2, <1>3, <1>4, <2>1, SampleStacks
<1> QED BY <1>1, <1>2, <1>3, <1>5, <1>7, <1>8, RunStep

LEMMA SkipBucketKeeps ==
  ASSUME JobInv, SkipBucket
  PROVE  JobInv'
<1>1. /\ AtBucket /\ NextSection.n = 0 /\ ss' = Advanced(ss) /\ pc' = "ssAsk"
      /\ UNCHANGED <<input, ssFront, quick, jobs, told>> /\ UNCHANGED <<content, cache>>
      /\ room' = room
  BY DEF SkipBucket, caches
<1>2. PICK V : Holds(V)
  BY HoldsIs
<1>3. Ready(V, NextBucket)
  <2>1. Typed
    BY <1>1, InRunIs DEF AtBucket, InRun
  <2> QED BY <1>1, <1>2, <2>1, BucketIs, ItemReady
<1>4. Covers(NextBucket) = {}
  <2>1. NextBucket.sec.n = 0 /\ NextBucket.sec.lo \in Int
    BY <1>1, <1>3, BucketIs DEF Ready, ItemTrue
  <2> QED BY <2>1 DEF Covers, Positions
<1>5. Advances(V, NextBucket, {})
  BY <1>1, <1>3, <1>4, EmptyWorks
<1> QED BY <1>1, <1>2, <1>5, BucketWorked

LEMMA EqualBucketKeeps ==
  ASSUME JobInv, EqualBucket
  PROVE  JobInv'
<1> DEFINE v == Last(ss).depth + KeyDepth(Last(ss).splitter[Last(ss).idx \div 2])
<1>1. /\ AtBucket /\ NextDone /\ ss' = Advanced(ss) /\ pc' = "ssAsk"
      /\ EqualDone(NextSection, v)
      /\ UNCHANGED <<input, ssFront, quick, jobs, told>> /\ cache' = cache
      /\ room' = room
  BY DEF EqualBucket, caches
<1> HIDE DEF v
<1>2. PICK V : Holds(V)
  BY HoldsIs
<1>3. Ready(V, NextBucket)
  <2>1. Typed
    BY <1>1, InRunIs DEF AtBucket, InRun
  <2> QED BY <1>1, <1>2, <2>1, BucketIs, ItemReady
<1>4. NextBucket.done /\ EqualDone(NextBucket.sec, v)
  BY <1>1, BucketIs
<1>5. Advances(V, NextBucket, {})
  BY <1>1, <1>3, <1>4, EqualDoneWorks
<1> QED BY <1>1, <1>2, <1>5, BucketWorked

LEMMA LargeBucketKeeps ==
  ASSUME JobInv, LargeBucket
  PROVE  JobInv'
<1>1. /\ AtBucket /\ ~NextDone /\ PushSample(Advanced(ss), NextSection, NextDepth)
      /\ pc' = "ssAsk" /\ NextSection.n >= SmallThreshold
      /\ UNCHANGED <<input, ssFront, quick, jobs, told>> /\ UNCHANGED <<written, cache>>
      /\ room' = room /\ ssFront' = ssFront /\ ms' = ms /\ msFront' = msFront /\ subs' = subs
  BY DEF LargeBucket, caches, quick, jobs
<1>2. PICK V : Holds(V)
  BY HoldsIs
<1>3. pc = "ss" /\ Len(ss) > ssFront /\ pc \in InRun /\ pc' \in InRun /\ pc' # "start" /\ pc # "start"
  BY <1>1 DEF AtBucket, InRun
<1>4. Typed /\ Stacks /\ room \in Nat
  BY <1>3, InRunIs
<1>5. /\ NextBucket \in Items /\ ~NextBucket.done
      /\ PushSample(Advanced(ss), NextBucket.sec, NextBucket.depth)
      /\ IsStack("ss", Advanced(ss)) /\ Len(Advanced(ss)) = Len(ss) /\ ss # <<>> /\ Len(ss) \in Nat
  BY <1>1, BucketIs
<1>6. Ready(V, NextBucket)
  BY <1>2, <1>4, <1>5, ItemReady
<1>7. NextBucket.sec.n <= room'
  <2>1. NextBucket.room <= room
    BY <1>6 DEF Ready, ItemTrue
  <2>2. NextBucket.room = NextBucket.sec.n
    BY BucketItemIs DEF NextBucket
  <2> QED BY <1>1, <2>1, <2>2
<1>8. SamplePushed(V, NextBucket, Advanced(ss), Len(ss) + 1)
  BY <1>1, <1>4, <1>5, <1>6, <1>7, PushSampleWorks
<1>9. PICK f : /\ SampleFrame(f) /\ ss' = Append(Advanced(ss), f)
               /\ Advances(V, NextBucket, BucketItems(Len(ss) + 1, f))
  BY <1>8 DEF SamplePushed
<1>10. /\ Kept(arr', cache', room', (Items \ {NextBucket}) \union BucketItems(Len(ss) + 1, f))
       /\ StillTyped
  BY <1>1, <1>2, <1>4, <1>5, <1>9, ItemWorked
<1>11. TopAdded("ss", Advanced(ss), ssFront, f)
  <2>1. ssFront \in Nat /\ ssFront <= Len(Advanced(ss))
    BY <1>4, <1>5 DEF Stacks
  <2>2. FrameOk("ss", f)
    BY <1>9 DEF FrameOk
  <2> QED BY <1>5, <2>1, <2>2, StackAdds
<1>12. ItemsNext = (Items \ {NextBucket}) \union BucketItems(Len(ss) + 1, f)
  <2>1. AllItems(Advanced(ss), ssFront, ms, msFront, subs, "ss") = Items \ {NextBucket}
    BY <1>1, BucketIs
  <2>2. AllItems(Append(Advanced(ss), f), ssFront, ms, msFront, subs, pc')
          = AllItems(Advanced(ss), ssFront, ms, msFront, subs, "ss")
              \union BucketItems(Len(Advanced(ss)) + 1, f)
    <3>1. SampleAdded(Advanced(ss), ssFront, ms, msFront, subs, "ss", pc', f)
      BY <1>3, <1>11, SampleItemsMore
    <3> QED BY <3>1 DEF SampleAdded
  <2> QED BY <1>1, <1>5, <1>9, <2>1, <2>2 DEF ItemsNext
<1>13. Kept(arr', cache', room', ItemsNext)
  BY ONLY <1>10, <1>12
<1>14. Stacks'
  <2>1. StackBecomes("ss", ss', Len(ss) + 1) /\ ssFront <= Len(ss) + 1
    BY <1>4, <1>5, <1>9, <1>11 DEF TopAdded, Stacks
  <2> QED BY <1>1, <1>3, <1>4, <1>5, <2>1, SampleStacks
<1> QED BY <1>1, <1>3, <1>4, <1>10, <1>13, <1>14, RunStep

(* sort_mkqs_cache sorts the section of an item, or makes a frame of it.   *)
LEMMA GreaterRoom ==
  ASSUME NEW r \in Nat, NEW n \in Nat
  PROVE  Max({r, KeyCells * n}) \in Nat /\ r <= Max({r, KeyCells * n})
           /\ KeyCells * n <= Max({r, KeyCells * n})
<1> DEFINE k == KeyCells * n
           S == {r, k}
<1>1. k \in Nat
  BY DEF KeyCells
<1> HIDE DEF k
<1>2. S \in SUBSET Int /\ S # {} /\ r \in S /\ k \in S
  BY <1>1
<1>3. IsFiniteSet(S)
  <2>1. IsFiniteSet({r}) /\ S = {r} \union {k}
    BY FS_Singleton
  <2> QED BY <2>1, FS_AddElement
<1> HIDE DEF S
<1>4. Max(S) \in S /\ r <= Max(S) /\ k <= Max(S)
  BY <1>2, <1>3, MaxIs
<1>5. Max(S) \in Nat
  BY <1>1, <1>4 DEF S
<1> QED BY <1>4, <1>5 DEF S, k

LEMMA MkqsWorks ==
  ASSUME NEW V, NEW t, Ready(V, t), ~t.done, NEW return, SortMkqs(t.sec, t.depth, return)
  PROVE  \/ /\ Advances(V, t, {}) /\ pc' = return /\ room' = room /\ ms' = ms
         \/ /\ QuickPushed(V, t, ms, Len(ms) + 1) /\ pc' = "ms" /\ room' \in Nat /\ room <= room'
<1>1. t.sec.n \in Nat /\ room \in Nat
  BY DEF Ready, ItemTrue, Typed
<1>2. CASE SortSection(t.sec, t.depth) /\ pc' = return /\ UNCHANGED <<room, ms>>
  <2>1. Advances(V, t, {})
    BY <1>2, SortSectionWorks
  <2> QED BY <1>2, <2>1
<1>3. CASE /\ t.sec.n >= InsThreshold /\ room' = Max({room, KeyCells * t.sec.n})
           /\ PushQuick(ms, t.sec, t.depth, TRUE) /\ pc' = "ms" /\ UNCHANGED written
  <2>1. room' \in Nat /\ room <= room' /\ KeyCells * t.sec.n <= room'
    BY <1>1, <1>3, GreaterRoom
  <2>2. t.sec.n > 2 /\ room' \in Int
    BY <1>1, <1>3, <2>1, SmallsortAssumption
  <2> DEFINE k == Len(ms) + 1
             dirty == TRUE
  <2>3. dirty \/ t.depth \in t.cached
    OBVIOUS
  <2>4. PushQuick(ms, t.sec, t.depth, dirty) /\ UNCHANGED written
    BY <1>3
  <2> HIDE DEF k, dirty
  <2>5. QuickPushed(V, t, ms, k)
    BY ONLY Ready(V, t), ~t.done, <2>1, <2>2, <2>3, <2>4, PushQuickWorks
  <2> QED BY <1>3, <2>1, <2>5 DEF k
<1> QED BY <1>2, <1>3 DEF SortMkqs

LEMMA SmallBucketKeeps ==
  ASSUME JobInv, SmallBucket
  PROVE  JobInv'
<1>1. /\ AtBucket /\ ~NextDone /\ ss' = Advanced(ss) /\ NextSection.n \in 1 .. SmallThreshold - 1
      /\ SortMkqs(NextSection, NextDepth, "ssAsk")
      /\ UNCHANGED <<input, ssFront, msFront, jobs, told>>
      /\ ssFront' = ssFront /\ msFront' = msFront /\ subs' = subs /\ input' = input
  BY DEF SmallBucket, jobs
<1>2. PICK V : Holds(V)
  BY HoldsIs
<1>3. pc = "ss" /\ Len(ss) > ssFront /\ pc \in InRun /\ pc # "start"
  BY <1>1 DEF AtBucket, InRun
<1>4. Typed /\ Stacks /\ room \in Nat
  BY <1>3, InRunIs
<1>5. /\ NextBucket \in Items /\ ~NextBucket.done
      /\ SortMkqs(NextBucket.sec, NextBucket.depth, "ssAsk")
      /\ IsStack("ss", Advanced(ss)) /\ Len(Advanced(ss)) = Len(ss) /\ ss # <<>> /\ Len(ss) \in Nat
      /\ msFront = 0 /\ Len(ms) = 0 /\ IsStack("ms", ms)
  BY <1>1, BucketIs
<1>6. Ready(V, NextBucket)
  BY <1>2, <1>4, <1>5, ItemReady
<1>7. CASE Advances(V, NextBucket, {}) /\ pc' = "ssAsk" /\ room' = room /\ ms' = ms
  <2>1. UNCHANGED <<input, room, ssFront, quick, jobs, told>>
    BY <1>1, <1>7 DEF quick
  <2> QED BY <1>1, <1>2, <1>7, <2>1, BucketWorked
<1>8. CASE /\ QuickPushed(V, NextBucket, ms, Len(ms) + 1) /\ pc' = "ms"
           /\ room' \in Nat /\ room <= room'
  <2>1. PICK f : /\ QuickFrame(f) /\ ms' = Append(ms, f)
                 /\ Advances(V, NextBucket, PartItems(Len(ms) + 1, f))
    BY <1>8 DEF QuickPushed
  <2>2. /\ Kept(arr', cache', room', (Items \ {NextBucket}) \union PartItems(Len(ms) + 1, f))
        /\ StillTyped
    BY <1>2, <1>4, <1>5, <1>8, <2>1, ItemWorked
  <2>3. TopAdded("ms", ms, msFront, f)
    <3>1. FrameOk("ms", f)
      BY <2>1 DEF FrameOk
    <3> QED BY <1>5, <3>1, StackAdds
  <2>4. ItemsNext = (Items \ {NextBucket}) \union PartItems(Len(ms) + 1, f)
    <3>1. AllItems(Advanced(ss), ssFront, ms, msFront, subs, "ss") = Items \ {NextBucket}
      BY <1>1, BucketIs
    <3>2. QuickAdded(Advanced(ss), ssFront, ms, msFront, subs, "ss", "ms", f)
      BY <2>3, QuickItemsMore
    <3> QED BY <1>1, <1>8, <2>1, <3>1, <3>2 DEF ItemsNext, QuickAdded
  <2>5. Kept(arr', cache', room', ItemsNext)
    BY ONLY <2>2, <2>4
  <2>6. Stacks'
    <3>1. IsStack("ms", ms') /\ Len(ms') = 1
      BY <1>5, <2>1, <2>3 DEF TopAdded, StackBecomes
    <3>2. ~(Len(input.strings) < SmallThreshold)
      BY <1>4, <1>5 DEF Stacks
    <3>3. ssFront \in Nat /\ ssFront <= Len(ss) /\ IsStack("ss", ss') /\ Len(ss') = Len(ss)
      BY <1>1, <1>4, <1>5 DEF Stacks
    <3> QED BY <1>1, <1>5, <1>8, <3>1, <3>2, <3>3 DEF Stacks
  <2>7. pc' \in InRun
    BY <1>8 DEF InRun
  <2> QED BY <1>1, <1>3, <1>8, <2>2, <2>5, <2>6, <2>7, RunStep
<1>9. \/ Advances(V, NextBucket, {}) /\ pc' = "ssAsk" /\ room' = room /\ ms' = ms
      \/ /\ QuickPushed(V, NextBucket, ms, Len(ms) + 1) /\ pc' = "ms"
         /\ room' \in Nat /\ room <= room'
  BY <1>5, <1>6, MkqsWorks
<1> QED BY <1>7, <1>8, <1>9

(* A step of run() that leaves the strings alone. *)
LEMMA QuietStep ==
  ASSUME JobInv, UNCHANGED <<input, arr, caches, jobs, told>>, pc \in InRun, pc' \in InRun,
         LcpsTyped, ItemsNext = Items, Stacks'
  PROVE  JobInv'
<1>1. arr' = arr /\ cache' = cache /\ room' = room
  BY DEF caches
<1>2. Typed /\ room \in Nat
  BY InRunIs
<1>3. Kept(arr', cache', room', ItemsNext)
  <2>1. Kept(arr, cache, room, Items)
    BY DEF JobInv, Consistent
  <2> QED BY ONLY <1>1, <2>1, ItemsNext = Items
<1>4. StillTyped
  BY <1>1, <1>2 DEF StillTyped, Typed
<1> QED BY <1>1, <1>2, <1>3, <1>4, RunStep

LEMMA SampleLcpTyped ==
  ASSUME Typed, NEW f, LcpsBecome(SampleLcp(f, Lcps))
  PROVE  LcpsTyped
<1> DEFINE w == Lcps
<1>1. PICK g, h : SampleLcp(f, w) = [lcp |-> SetLcp(class, w.lcp, g), chars |-> SetCache(class, w.chars, h)]
  BY DEF SampleLcp
<1>2. w.lcp = lcp /\ w.chars = chars
  BY DEF Lcps
<1> HIDE DEF w
<1>3. lcp' = SetLcp(class, lcp, g) /\ chars' = SetCache(class, chars, h)
  BY <1>1, <1>2 DEF LcpsBecome, w
<1> QED BY <1>3, OverrideTyped DEF LcpsTyped, Typed

LEMMA PopSampleKeeps ==
  ASSUME JobInv, PopSample
  PROVE  JobInv'
<1>1. /\ pc = "ss" /\ Len(ss) > ssFront /\ Last(ss).idx = BktNum
      /\ LcpsBecome(SampleLcp(Last(ss), Lcps))
      /\ ss' = Front(ss) /\ pc' = "ssAsk"
      /\ UNCHANGED <<input, arr, caches, ssFront, quick, jobs, told>>
      /\ ssFront' = ssFront /\ ms' = ms /\ msFront' = msFront /\ subs' = subs
  BY DEF PopSample, quick, jobs
<1>2. pc \in InRun /\ pc' \in InRun
  BY <1>1 DEF InRun
<1>3. Typed /\ Stacks
  BY <1>2, InRunIs
<1>4. IsStack("ss", ss) /\ ssFront \in Nat
  BY <1>3 DEF Stacks
<1>5. Len(ss) \in Nat
  BY <1>4, StackLen
<1>6. TopGone("ss", ss, ssFront)
  <2>1. ss[Len(ss)].idx = FrameEnd("ss")
    BY <1>1 DEF Last, FrameEnd
  <2>2. FrameItems("ss", Len(ss), ss[Len(ss)]) = {}
    BY <2>1, FrameEnds
  <2> QED BY <1>1, <1>4, <1>5, <2>2, StackGoes
<1>7. /\ StackItems("ss", ss', ssFront) = StackItems("ss", ss, ssFront)
      /\ StackBecomes("ss", ss', Len(ss) - 1)
  BY <1>1, <1>6 DEF TopGone
<1>8. ItemsNext = Items
  BY <1>1, <1>7 DEF ItemsNext, Items, AllItems, WholeItems
<1>9. LcpsTyped
  BY <1>1, <1>3, SampleLcpTyped
<1>10. Stacks'
  <2>1. ssFront <= Len(ss) - 1 /\ ss # <<>>
    BY <1>1, <1>4, <1>5
  <2> QED BY <1>1, <1>3, <1>7, <2>1, SampleStacks
<1> QED BY <1>1, <1>2, <1>8, <1>9, <1>10, QuietStep

(* Steps that only go on. *)
LEMMA SamePlace ==
  ASSUME JobInv, UNCHANGED <<input, content, caches, sample, quick, jobs, told>>,
         pc \in InRun, pc' \in InRun, pc' \in {"ss", "ssAsk"} => Len(ms) = msFront,
         pc' = "finish" => Len(ss) = ssFront /\ Len(ms) = msFront
  PROVE  JobInv'
<1>1. /\ arr' = arr /\ lcp' = lcp /\ chars' = chars /\ ss' = ss /\ ssFront' = ssFront
      /\ ms' = ms /\ msFront' = msFront /\ subs' = subs /\ input' = input
  BY DEF content, sample, quick, jobs
<1>2. /\ pc # "start" /\ pc' # "start" /\ pc' \notin {"returned", "alldone", "deleted"}
  BY DEF InRun
<1>3. Typed /\ Stacks
  BY InRunIs
<1>4. ItemsNext = Items
  BY <1>1, <1>2 DEF ItemsNext, Items, AllItems, WholeItems
<1>5. LcpsTyped
  BY <1>1, <1>3 DEF LcpsTyped, Typed
<1>6. Stacks'
  BY <1>1, <1>2, <1>3 DEF Stacks
<1> QED BY <1>1, <1>4, <1>5, <1>6, QuietStep

LEMMA SampleEndsKeeps ==
  ASSUME JobInv, SampleEnds
  PROVE  JobInv'
<1>1. pc = "ss" /\ pc' = "finish" /\ Len(ss) = ssFront
  BY DEF SampleEnds
<1>2. pc \in InRun /\ pc' \in InRun
  BY <1>1 DEF InRun
<1>3. Len(ms) = msFront
  BY <1>1, <1>2, InRunIs DEF Stacks
<1> QED BY <1>1, <1>2, <1>3, SamePlace DEF SampleEnds

LEMMA NobodyIdleKeeps ==
  ASSUME JobInv, NobodyIdle
  PROVE  JobInv'
<1>1. /\ pc \in {"ssAsk", "msAsk"} /\ pc' = IF pc = "ssAsk" THEN "ss" ELSE "ms"
  BY DEF NobodyIdle, GoOn
<1>2. pc \in InRun /\ pc' \in InRun /\ pc' # "finish"
  BY <1>1 DEF InRun
<1>3. pc' \in {"ss", "ssAsk"} => Len(ms) = msFront
  BY <1>1, <1>2, InRunIs DEF Stacks
<1> QED BY <1>1, <1>2, <1>3, SamePlace DEF NobodyIdle

LEMMA QuickEndsKeeps ==
  ASSUME JobInv, QuickEnds
  PROVE  JobInv'
<1>1. /\ pc = "ms" /\ Len(ms) = msFront
      /\ pc' = IF Len(input.strings) >= SmallThreshold THEN "ssAsk" ELSE "finish"
  BY DEF QuickEnds
<1>2. pc \in InRun /\ pc' \in InRun
  BY <1>1 DEF InRun
<1>3. Stacks /\ input \in Inputs
  BY <1>2, InRunIs
<1>4. pc' = "finish" => Len(ss) = ssFront
  <2> SUFFICES ASSUME pc' = "finish" PROVE Len(ss) = ssFront
    OBVIOUS
  <2>1. Len(input.strings) \in Nat /\ SmallThreshold \in Nat
    BY <1>3, InputIs, SmallsortAssumption
  <2>2. Len(input.strings) < SmallThreshold
    BY <1>1, <2>1
  <2>3. ss = <<>> /\ ssFront \in Nat /\ ssFront <= Len(ss)
    BY <1>3, <2>2 DEF Stacks
  <2>4. Len(ss) = 0
    BY <2>3
  <2> QED BY <2>3, <2>4
<1> QED BY <1>1, <1>2, <1>4, SamePlace DEF QuickEnds

-----------------------------------------------------------------------------
(* The loop of sort_mkqs_cache. *)
NextPart == PartItem(Len(ms), Last(ms), Part)

LEMMA PartIs ==
  ASSUME JobInv, AtPart
  PROVE  /\ TopAdvanced("ms", ms, msFront, NextPart) /\ NextPart \in Items
         /\ NextPart.sec = ThisSection /\ NextPart.depth = ThisDepth
         /\ (NextPart.done <=> ThisDone)
         /\ (Part # 2 => NextPart.depth \in NextPart.cached)
         /\ NextPart.room = KeyCells * NextPart.sec.n
         /\ \A at : at # "start" =>
              AllItems(ss, ssFront, Advanced(ms), msFront, subs, at) = Items \ {NextPart}
         /\ IsStack("ms", Advanced(ms)) /\ Len(Advanced(ms)) = Len(ms) /\ Len(ms) \in Nat
<1>1. /\ pc = "ms" /\ Len(ms) > msFront /\ Last(ms).idx < 3
  BY DEF AtPart
<1>2. Stacks /\ pc \in InRun
  BY <1>1 DEF JobInv, InRun
<1>3. IsStack("ms", ms) /\ msFront \in Nat
  BY <1>2 DEF Stacks
<1>4. Len(ms) \in Nat
  BY <1>3, StackLen
<1>5. Last(ms) = ms[Len(ms)]
  BY DEF Last
<1>6. Part \in 1 .. 3
  <2>1. Len(ms) \in 1 .. Len(ms)
    BY <1>1, <1>3, <1>4
  <2>2. QuickFrame(Last(ms))
    BY <1>3, <1>5, <2>1 DEF IsStack, FrameOk
  <2> QED BY <1>1, <2>2 DEF QuickFrame, Part
<1>7. TopAdvanced("ms", ms, msFront, NextPart)
  <2>1. ms[Len(ms)].idx < FrameEnd("ms") /\ msFront < Len(ms)
    BY <1>1, <1>3, <1>4, <1>5 DEF FrameEnd
  <2>2. TopAdvanced("ms", ms, msFront, NextItem("ms", Len(ms), ms[Len(ms)]))
    BY <1>3, <2>1, StackAdvances
  <2> QED BY <1>5, <2>2 DEF NextItem, NextPart, Part
<1>8. IsStack("ms", Advanced(ms)) /\ Len(Advanced(ms)) = Len(ms)
  BY <1>7 DEF TopAdvanced, StackBecomes
<1>9. /\ NextPart.sec = ThisSection /\ NextPart.depth = ThisDepth
      /\ (NextPart.done <=> ThisDone) /\ NextPart.cached = {Last(ms).depth}
      /\ NextPart.room = KeyCells * NextPart.sec.n
  <2> HIDE DEF Part
  <2> QED BY <1>6, PartItemIs DEF NextPart, ThisSection, ThisDepth, ThisDone
<1>10. Part # 2 => NextPart.depth \in NextPart.cached
  BY <1>9 DEF ThisDepth, PartDepth
<1>11. pc # "start"
  BY <1>1
<1>12. NextPart \in Items
  BY <1>7, <1>11, ItemsLess DEF Items
<1>13. \A at : at # "start" =>
         AllItems(ss, ssFront, Advanced(ms), msFront, subs, at) = Items \ {NextPart}
  BY <1>7, <1>11, ItemsLess DEF Items
<1> QED BY <1>4, <1>7, <1>8, <1>9, <1>10, <1>12, <1>13

LEMMA QuickStacks ==
  ASSUME Stacks, pc = "ms", Len(ms) > msFront, pc' = "msAsk",
         UNCHANGED <<input, msFront, sample>>, NEW k, StackBecomes("ms", ms', k), msFront <= k
  PROVE  Stacks'
<1>1. /\ input' = input /\ msFront' = msFront /\ ss' = ss /\ ssFront' = ssFront
      /\ IsStack("ms", ms') /\ Len(ms') = k
  BY DEF sample, StackBecomes
<1> QED BY <1>1 DEF Stacks

LEMMA PartWorked ==
  ASSUME JobInv, AtPart, NEW V, Holds(V), Advances(V, NextPart, {}),
         UNCHANGED <<input, room, sample, msFront, jobs, told>>, ms' = Advanced(ms), pc' = "msAsk"
  PROVE  JobInv'
<1>1. /\ input' = input /\ room' = room /\ ssFront' = ssFront /\ ss' = ss /\ msFront' = msFront
      /\ subs' = subs
  BY DEF sample, jobs
<1>2. pc = "ms" /\ Len(ms) > msFront /\ pc \in InRun /\ pc' \in InRun /\ pc' # "start"
  BY DEF AtPart, InRun
<1>3. Typed /\ Stacks /\ room \in Nat
  BY <1>2, InRunIs
<1>4. NextPart \in Items /\ IsStack("ms", ms') /\ Len(ms') = Len(ms) /\ Len(ms) \in Nat
  BY PartIs
<1>5. Kept(arr', cache', room', (Items \ {NextPart}) \union {}) /\ StillTyped
  BY <1>1, <1>3, <1>4, ItemWorked
<1>6. ItemsNext = (Items \ {NextPart}) \union {}
  <2>1. AllItems(ss, ssFront, Advanced(ms), msFront, subs, pc') = Items \ {NextPart}
    BY <1>2, PartIs
  <2> QED BY <1>1, <2>1 DEF ItemsNext
<1>7. Kept(arr', cache', room', ItemsNext)
  BY ONLY <1>5, <1>6
<1>8. Stacks'
  <2>1. StackBecomes("ms", ms', Len(ms)) /\ msFront <= Len(ms)
    BY <1>3, <1>4 DEF StackBecomes, Stacks
  <2> QED BY <1>2, <1>3, <2>1, QuickStacks
<1> QED BY <1>1, <1>2, <1>3, <1>5, <1>7, <1>8, RunStep

(* The item is ready. *)
LEMMA PartReady ==
  ASSUME JobInv, AtPart, NEW V, Holds(V)
  PROVE  Ready(V, NextPart)
<1>1. Typed
  BY InRunIs DEF AtPart, InRun
<1> QED BY <1>1, PartIs, ItemReady

LEMMA SkipPartKeeps ==
  ASSUME JobInv, SkipPart
  PROVE  JobInv'
<1>1. /\ AtPart /\ ThisSection.n = 0 /\ ms' = Advanced(ms) /\ pc' = "msAsk"
      /\ UNCHANGED <<input, sample, msFront, jobs, told>> /\ UNCHANGED <<content, cache>>
      /\ room' = room
  BY DEF SkipPart, caches
<1>2. PICK V : Holds(V)
  BY HoldsIs
<1>3. Ready(V, NextPart)
  BY <1>1, <1>2, PartReady
<1>4. Covers(NextPart) = {}
  <2>1. NextPart.sec.n = 0 /\ NextPart.sec.lo \in Int
    BY <1>1, <1>3, PartIs DEF Ready, ItemTrue
  <2> QED BY <2>1 DEF Covers, Positions
<1>5. Advances(V, NextPart, {})
  BY <1>1, <1>3, <1>4, EmptyWorks
<1> QED BY <1>1, <1>2, <1>5, PartWorked

LEMMA EqualPartKeeps ==
  ASSUME JobInv, EqualPart
  PROVE  JobInv'
<1> DEFINE v == Last(ms).depth + KeyDepth(Last(ms).pivot)
<1>1. /\ AtPart /\ ThisDone /\ ms' = Advanced(ms) /\ pc' = "msAsk"
      /\ EqualDone(ThisSection, v)
      /\ UNCHANGED <<input, sample, msFront, jobs, told>> /\ cache' = cache
      /\ room' = room
  BY DEF EqualPart, caches
<1> HIDE DEF v
<1>2. PICK V : Holds(V)
  BY HoldsIs
<1>3. Ready(V, NextPart)
  BY <1>1, <1>2, PartReady
<1>4. NextPart.done /\ EqualDone(NextPart.sec, v)
  BY <1>1, PartIs
<1>5. Advances(V, NextPart, {})
  BY <1>1, <1>3, <1>4, EqualDoneWorks
<1> QED BY <1>1, <1>2, <1>5, PartWorked

LEMMA SmallPartKeeps ==
  ASSUME JobInv, SmallPart
  PROVE  JobInv'
<1>1. /\ AtPart /\ ~ThisDone /\ ms' = Advanced(ms) /\ pc' = "msAsk"
      /\ \/ Part = 2 /\ SortSection(ThisSection, ThisDepth)
         \/ Part # 2 /\ SortCachedSection(ThisSection, ThisDepth)
      /\ UNCHANGED <<input, room, sample, msFront, jobs, told>>
  BY DEF SmallPart
<1>2. PICK V : Holds(V)
  BY HoldsIs
<1>3. Ready(V, NextPart) /\ ~NextPart.done
  BY <1>1, <1>2, PartReady, PartIs
<1>4. CASE SortSection(ThisSection, ThisDepth)
  <2>1. SortSection(NextPart.sec, NextPart.depth)
    BY <1>1, <1>4, PartIs
  <2>2. Advances(V, NextPart, {})
    BY <1>3, <2>1, SortSectionWorks
  <2> QED BY <1>1, <1>2, <2>2, PartWorked
<1>5. CASE Part # 2 /\ SortCachedSection(ThisSection, ThisDepth)
  <2>1. SortCachedSection(NextPart.sec, NextPart.depth) /\ NextPart.depth \in NextPart.cached
    BY <1>1, <1>5, PartIs
  <2>2. Advances(V, NextPart, {})
    BY <1>3, <2>1, SortCachedWorks
  <2> QED BY <1>1, <1>2, <2>2, PartWorked
<1> QED BY <1>1, <1>4, <1>5

LEMMA LargePartKeeps ==
  ASSUME JobInv, LargePart
  PROVE  JobInv'
<1>1. /\ AtPart /\ ~ThisDone /\ ThisSection.n >= InsThreshold /\ pc' = "msAsk"
      /\ PushQuick(Advanced(ms), ThisSection, ThisDepth, Part = 2)
      /\ UNCHANGED <<input, msFront, sample, jobs, told>> /\ UNCHANGED written
      /\ room' = room /\ msFront' = msFront /\ ss' = ss /\ ssFront' = ssFront /\ subs' = subs
  BY DEF LargePart, sample, jobs
<1>2. PICK V : Holds(V)
  BY HoldsIs
<1>3. pc = "ms" /\ Len(ms) > msFront /\ pc \in InRun /\ pc' \in InRun /\ pc' # "start" /\ pc # "start"
  BY <1>1 DEF AtPart, InRun
<1>4. Typed /\ Stacks /\ room \in Nat
  BY <1>3, InRunIs
<1>5. /\ NextPart \in Items /\ ~NextPart.done
      /\ PushQuick(Advanced(ms), NextPart.sec, NextPart.depth, Part = 2)
      /\ (Part # 2 => NextPart.depth \in NextPart.cached)
      /\ NextPart.sec.n >= InsThreshold
      /\ IsStack("ms", Advanced(ms)) /\ Len(Advanced(ms)) = Len(ms) /\ Len(ms) \in Nat
  BY <1>1, PartIs
<1>6. Ready(V, NextPart)
  BY <1>1, <1>2, PartReady
<1>7. KeyCells * NextPart.sec.n <= room' /\ room' \in Int /\ NextPart.sec.n > 2
  <2>1. NextPart.room <= room /\ NextPart.sec.n \in Nat
    BY <1>6 DEF Ready, ItemTrue
  <2>2. NextPart.room = KeyCells * NextPart.sec.n
    BY <1>1, PartIs
  <2>3. KeyCells * NextPart.sec.n <= room'
    BY ONLY <1>1, <2>1, <2>2
  <2> QED BY <1>1, <1>4, <1>5, <2>1, <2>3, SmallsortAssumption
<1>8. QuickPushed(V, NextPart, Advanced(ms), Len(ms) + 1)
  <2> DEFINE dirty == Part = 2
             stack == Advanced(ms)
             k == Len(ms) + 1
  <2>1. PushQuick(stack, NextPart.sec, NextPart.depth, dirty)
    BY <1>5
  <2>2. dirty \/ NextPart.depth \in NextPart.cached
    BY <1>5
  <2>3. UNCHANGED written /\ ~NextPart.done
    BY <1>1, <1>5
  <2> HIDE DEF dirty, stack, k
  <2>4. QuickPushed(V, NextPart, stack, k)
    BY ONLY <1>6, <1>7, <2>1, <2>2, <2>3, PushQuickWorks
  <2> QED BY <2>4 DEF stack, k
<1>9. PICK f : /\ QuickFrame(f) /\ ms' = Append(Advanced(ms), f)
               /\ Advances(V, NextPart, PartItems(Len(ms) + 1, f))
  BY <1>8 DEF QuickPushed
<1>10. /\ Kept(arr', cache', room', (Items \ {NextPart}) \union PartItems(Len(ms) + 1, f))
       /\ StillTyped
  BY <1>1, <1>2, <1>4, <1>5, <1>9, ItemWorked
<1>11. TopAdded("ms", Advanced(ms), msFront, f)
  <2>1. msFront \in Nat /\ msFront <= Len(Advanced(ms))
    BY <1>4, <1>5 DEF Stacks
  <2>2. FrameOk("ms", f)
    BY <1>9 DEF FrameOk
  <2> QED BY <1>5, <2>1, <2>2, StackAdds
<1>12. ItemsNext = (Items \ {NextPart}) \union PartItems(Len(ms) + 1, f)
  <2>1. AllItems(ss, ssFront, Advanced(ms), msFront, subs, "ms") = Items \ {NextPart}
    BY <1>1, PartIs
  <2>2. QuickAdded(ss, ssFront, Advanced(ms), msFront, subs, "ms", pc', f)
    BY <1>3, <1>11, QuickItemsMore
  <2> QED BY <1>1, <1>5, <1>9, <2>1, <2>2 DEF ItemsNext, QuickAdded
<1>13. Kept(arr', cache', room', ItemsNext)
  BY ONLY <1>10, <1>12
<1>14. Stacks'
  <2>1. StackBecomes("ms", ms', Len(ms) + 1) /\ msFront <= Len(ms) + 1
    BY <1>4, <1>5, <1>9, <1>11 DEF TopAdded, Stacks
  <2> QED BY <1>1, <1>3, <1>4, <1>5, <2>1, QuickStacks
<1> QED BY <1>1, <1>3, <1>4, <1>10, <1>13, <1>14, RunStep

LEMMA QuickLcpTyped ==
  ASSUME Typed, NEW f, LcpsBecome(QuickLcp(f, Lcps))
  PROVE  LcpsTyped
<1> DEFINE w == Lcps
<1>1. PICK g, h : QuickLcp(f, w) = [lcp |-> SetLcp(class, w.lcp, g), chars |-> SetCache(class, w.chars, h)]
  BY DEF QuickLcp
<1>2. w.lcp = lcp /\ w.chars = chars
  BY DEF Lcps
<1> HIDE DEF w
<1>3. lcp' = SetLcp(class, lcp, g) /\ chars' = SetCache(class, chars, h)
  BY <1>1, <1>2 DEF LcpsBecome, w
<1> QED BY <1>3, OverrideTyped DEF LcpsTyped, Typed

LEMMA PopQuickKeeps ==
  ASSUME JobInv, PopQuick
  PROVE  JobInv'
<1>1. /\ pc = "ms" /\ Len(ms) > msFront /\ Last(ms).idx = 3
      /\ LcpsBecome(QuickLcp(Last(ms), Lcps))
      /\ ms' = Front(ms) /\ pc' = "msAsk"
      /\ UNCHANGED <<input, arr, caches, sample, msFront, jobs, told>>
      /\ ssFront' = ssFront /\ ss' = ss /\ msFront' = msFront /\ subs' = subs
  BY DEF PopQuick, sample, jobs
<1>2. pc \in InRun /\ pc' \in InRun
  BY <1>1 DEF InRun
<1>3. Typed /\ Stacks
  BY <1>2, InRunIs
<1>4. IsStack("ms", ms) /\ msFront \in Nat
  BY <1>3 DEF Stacks
<1>5. Len(ms) \in Nat
  BY <1>4, StackLen
<1>6. TopGone("ms", ms, msFront)
  <2>1. ms[Len(ms)].idx = FrameEnd("ms")
    BY <1>1 DEF Last, FrameEnd
  <2>2. FrameItems("ms", Len(ms), ms[Len(ms)]) = {}
    BY <2>1, FrameEnds
  <2> QED BY <1>1, <1>4, <1>5, <2>2, StackGoes
<1>7. /\ StackItems("ms", ms', msFront) = StackItems("ms", ms, msFront)
      /\ StackBecomes("ms", ms', Len(ms) - 1)
  BY <1>1, <1>6 DEF TopGone
<1>8. ItemsNext = Items
  BY <1>1, <1>7 DEF ItemsNext, Items, AllItems, WholeItems
<1>9. LcpsTyped
  BY <1>1, <1>3, QuickLcpTyped
<1>10. Stacks'
  <2>1. msFront <= Len(ms) - 1
    BY <1>1, <1>4, <1>5
  <2> QED BY <1>1, <1>3, <1>7, <2>1, QuickStacks
<1> QED BY <1>1, <1>2, <1>8, <1>9, <1>10, QuietStep

-----------------------------------------------------------------------------
(* A step that ends neither the start nor the life of the job.             *)
LEMMA AnyStep ==
  ASSUME JobInv, input' = input, told' = told, pc # "deleted", pc' \notin {"start", "deleted"},
         room' \in Nat, StillTyped, Kept(arr', cache', room', ItemsNext), Stacks', Handles'
  PROVE  JobInv'
<1>1. Consistent'
  BY ConsistentNext
<1>2. Alive'
  <2>1. Typed /\ told = 0
    BY DEF JobInv, Alive
  <2>2. Typed'
    BY <2>1 DEF Typed, StillTyped, LcpsTyped, Index
  <2> QED BY <2>1, <2>2 DEF Alive, Typed
<1> QED BY <1>1, <1>2 DEF JobInv

LEMMA StartKeeps ==
  ASSUME JobInv, Start
  PROVE  JobInv'
<1> DEFINE whole == Section(0, Len(input.strings), input.flip)
           t == WholeItem(whole)
<1>1. /\ pc = "start" /\ substeps' = substeps + 1
      /\ \/ /\ whole.n >= SmallThreshold /\ room' = whole.n /\ PushSample(ss, whole, 0)
            /\ pc' = "ss" /\ UNCHANGED <<written, cache, ms>>
         \/ /\ whole.n < SmallThreshold /\ SortMkqs(whole, 0, "finish") /\ UNCHANGED ss
      /\ UNCHANGED <<input, ssFront, msFront, subs, told>>
  BY DEF Start
<1>2. /\ Typed /\ Stacks /\ Handles /\ room = 0 /\ subs = {} /\ input \in Inputs /\ told = 0
  BY <1>1 DEF JobInv, Alive
<1>3. /\ ss = <<>> /\ ms = <<>> /\ IsStack("ss", ss) /\ IsStack("ms", ms)
      /\ ssFront = 0 /\ msFront = 0 /\ Len(ss) = 0 /\ Len(ms) = 0
  <2>1. ss = <<>> /\ ms = <<>>
    BY <1>1, <1>2 DEF Stacks
  <2>2. Len(ss) = 0 /\ Len(ms) = 0
    BY <2>1
  <2> QED BY <1>2, <2>1, <2>2 DEF Stacks
<1>4. \A e, kind : Len(e) = 0 => StackItems(kind, e, 0) = {}
  <2> SUFFICES ASSUME NEW e, NEW kind, Len(e) = 0 PROVE StackItems(kind, e, 0) = {}
    OBVIOUS
  <2>1. 0 + 1 .. Len(e) = {}
    OBVIOUS
  <2> QED BY <2>1 DEF StackItems
<1>5. Items = {t}
  <2>1. WholeItems(pc) = {t}
    BY <1>1 DEF WholeItems
  <2>2. JobItems(subs) = {}
    BY <1>2 DEF JobItems
  <2>3. StackItems("ss", ss, ssFront) = {} /\ StackItems("ms", ms, msFront) = {}
    BY <1>3, <1>4
  <2> QED BY <2>1, <2>2, <2>3 DEF Items, AllItems
<1>6. t.sec = whole /\ t.depth = 0 /\ ~t.done /\ whole.n = Len(input.strings) /\ whole.n \in Nat
  BY <1>2, InputIs DEF WholeItem, Section
<1>7. PICK V : Holds(V)
  BY HoldsIs
<1>8. t \in Items
  BY <1>5
<1> HIDE DEF t
<1>9. Ready(V, t)
  BY <1>2, <1>7, <1>8, ItemReady
<1>10. subs' = {} /\ ssFront' = 0 /\ msFront' = 0
  BY <1>1, <1>2, <1>3
<1>11. \A at : at # "start" => WholeItems(at) = {}
  BY DEF WholeItems
<1>12. JobItems(subs') = {}
  BY <1>10 DEF JobItems
<1>13. ASSUME pc' \in {"ss", "ms", "finish"} PROVE Handles'
  <2>1. substeps = Cardinality(subs) /\ Cardinality(subs) \in Nat
    BY <1>1, <1>2, FS_CardinalityType DEF Handles, HandlesExact
  <2> QED BY <1>1, <1>2, <1>13, <2>1 DEF Handles, HandlesExact, InRun
<1>14. CASE /\ whole.n >= SmallThreshold /\ room' = whole.n /\ PushSample(ss, whole, 0)
            /\ pc' = "ss" /\ UNCHANGED <<written, cache, ms>>
  <2>1. room' \in Int /\ t.sec.n <= room' /\ room <= room' /\ room' \in Nat
    BY <1>2, <1>6, <1>14
  <2>2. PushSample(ss, t.sec, t.depth)
    BY <1>6, <1>14
  <2>3. SamplePushed(V, t, ss, 1)
    BY <1>6, <1>9, <1>14, <2>1, <2>2, PushSampleWorks
  <2>4. PICK f : SampleFrame(f) /\ ss' = Append(ss, f) /\ Advances(V, t, BucketItems(1, f))
    BY <2>3 DEF SamplePushed
  <2>5. Kept(arr', cache', room', (Items \ {t}) \union BucketItems(1, f)) /\ StillTyped
    BY <1>2, <1>7, <1>8, <2>1, <2>4, ItemWorked
  <2>6. TopAdded("ss", ss, 0, f)
    <3>1. FrameOk("ss", f)
      BY <2>4 DEF FrameOk
    <3> QED BY <1>3, <3>1, StackAdds
  <2>7. ItemsNext = (Items \ {t}) \union BucketItems(1, f)
    <3>1. StackItems("ss", ss', ssFront') = BucketItems(1, f)
      <4>1. StackItems("ss", Append(ss, f), 0)
              = StackItems("ss", ss, 0) \union FrameItems("ss", Len(ss) + 1, f)
        BY ONLY <2>6 DEF TopAdded
      <4>2. StackItems("ss", ss, 0) = {}
        BY ONLY <1>3, <1>4
      <4>3. Len(ss) + 1 = 1
        BY ONLY <1>3
      <4>4. FrameItems("ss", 1, f) = BucketItems(1, f)
        BY DEF FrameItems
      <4>5. {} \union BucketItems(1, f) = BucketItems(1, f)
        OBVIOUS
      <4>6. StackItems("ss", Append(ss, f), 0) = BucketItems(1, f)
        BY ONLY <4>1, <4>2, <4>3, <4>4, <4>5
      <4> QED BY ONLY <1>10, <2>4, <4>6
    <3>2. StackItems("ms", ms', msFront') = {}
      BY <1>3, <1>4, <1>10, <1>14
    <3> QED BY <1>5, <1>11, <1>12, <1>14, <3>1, <3>2 DEF ItemsNext, AllItems
  <2>8. Kept(arr', cache', room', ItemsNext)
    BY ONLY <2>5, <2>7
  <2>9. Stacks'
    <3>1. IsStack("ss", ss') /\ Len(ss') = 1
      BY <1>3, <2>4, <2>6 DEF TopAdded, StackBecomes
    <3>2. ~(Len(input'.strings) < SmallThreshold)
      BY <1>1, <1>6, <1>14, SmallsortAssumption
    <3>3. IsStack("ms", ms') /\ Len(ms') = 0
      BY <1>3, <1>14
    <3> QED BY <1>10, <1>14, <3>1, <3>2, <3>3 DEF Stacks
  <2>10. Handles'
    BY <1>13, <1>14
  <2> QED BY <1>1, <1>14, <2>1, <2>5, <2>8, <2>9, <2>10, AnyStep
<1>15. CASE whole.n < SmallThreshold /\ SortMkqs(whole, 0, "finish") /\ UNCHANGED ss
  <2>1. SortMkqs(t.sec, t.depth, "finish")
    BY <1>6, <1>15
  <2>2. \/ /\ Advances(V, t, {}) /\ pc' = "finish" /\ room' = room /\ ms' = ms
        \/ /\ QuickPushed(V, t, ms, Len(ms) + 1) /\ pc' = "ms" /\ room' \in Nat /\ room <= room'
    BY <1>6, <1>9, <2>1, MkqsWorks
  <2>3. CASE Advances(V, t, {}) /\ pc' = "finish" /\ room' = room /\ ms' = ms
    <3>1. Kept(arr', cache', room', (Items \ {t}) \union {}) /\ StillTyped /\ room' \in Nat
      BY <1>2, <1>7, <1>8, <2>3, ItemWorked
    <3>2. ItemsNext = (Items \ {t}) \union {}
      <4>1. StackItems("ss", ss', ssFront') = {} /\ StackItems("ms", ms', msFront') = {}
        BY <1>3, <1>4, <1>10, <1>15, <2>3
      <4> QED BY <1>5, <1>11, <1>12, <2>3, <4>1 DEF ItemsNext, AllItems
    <3>3. Kept(arr', cache', room', ItemsNext)
      BY ONLY <3>1, <3>2
    <3>4. Stacks'
      BY <1>3, <1>10, <1>15, <2>3 DEF Stacks
    <3>5. Handles'
      BY <1>13, <2>3
    <3> QED BY <1>1, <2>3, <3>1, <3>3, <3>4, <3>5, AnyStep
  <2>4. CASE QuickPushed(V, t, ms, Len(ms) + 1) /\ pc' = "ms" /\ room' \in Nat /\ room <= room'
    <3>1. PICK f : QuickFrame(f) /\ ms' = Append(ms, f) /\ Advances(V, t, PartItems(1, f))
      BY <1>3, <2>4 DEF QuickPushed
    <3>2. Kept(arr', cache', room', (Items \ {t}) \union PartItems(1, f)) /\ StillTyped
      BY <1>2, <1>7, <1>8, <2>4, <3>1, ItemWorked
    <3>3. TopAdded("ms", ms, 0, f)
      <4>1. FrameOk("ms", f)
        BY <3>1 DEF FrameOk
      <4> QED BY <1>3, <4>1, StackAdds
    <3>4. ItemsNext = (Items \ {t}) \union PartItems(1, f)
      <4>1. StackItems("ms", ms', msFront') = PartItems(1, f)
        <5>1. StackItems("ms", Append(ms, f), 0)
                = StackItems("ms", ms, 0) \union FrameItems("ms", Len(ms) + 1, f)
          BY ONLY <3>3 DEF TopAdded
        <5>2. StackItems("ms", ms, 0) = {}
          BY ONLY <1>3, <1>4
        <5>3. Len(ms) + 1 = 1
          BY ONLY <1>3
        <5>4. FrameItems("ms", 1, f) = PartItems(1, f)
          BY DEF FrameItems
        <5>5. {} \union PartItems(1, f) = PartItems(1, f)
          OBVIOUS
        <5>6. StackItems("ms", Append(ms, f), 0) = PartItems(1, f)
          BY ONLY <5>1, <5>2, <5>3, <5>4, <5>5
        <5> QED BY ONLY <1>10, <3>1, <5>6
      <4>2. StackItems("ss", ss', ssFront') = {}
        BY <1>3, <1>4, <1>10, <1>15
      <4> QED BY <1>5, <1>11, <1>12, <2>4, <4>1, <4>2 DEF ItemsNext, AllItems
    <3>5. Kept(arr', cache', room', ItemsNext)
      BY ONLY <3>2, <3>4
    <3>6. Stacks'
      <4>1. IsStack("ms", ms') /\ Len(ms') = 1
        BY <1>3, <3>1, <3>3 DEF TopAdded, StackBecomes
      <4> QED BY <1>3, <1>10, <1>15, <2>4, <4>1 DEF Stacks
    <3>7. Handles'
      BY <1>13, <2>4
    <3> QED BY <1>1, <2>4, <3>2, <3>5, <3>6, <3>7, AnyStep
  <2> QED BY <2>2, <2>3, <2>4
<1> QED BY <1>1, <1>14, <1>15

-----------------------------------------------------------------------------
(* Work is given away. *)
LEMMA GiveHandles ==
  ASSUME Handles, pc \in InRun, pc' \in InRun, NEW J, IsFiniteSet(J), subs \cap J = {}, Give(J)
  PROVE  Handles'
<1>1. IsFiniteSet(subs) /\ substeps = Cardinality(subs) + 1 /\ subs' = subs \union J
        /\ substeps' = substeps + Cardinality(J)
  BY DEF Handles, HandlesExact, InRun, Give
<1>2. /\ IsFiniteSet(subs \union J)
      /\ Cardinality(subs \union J)
           = Cardinality(subs) + Cardinality(J) - Cardinality(subs \cap J)
  BY <1>1, FS_Union
<1>3. Cardinality(subs \cap J) = 0
  BY FS_EmptySet
<1>4. Cardinality(subs) \in Nat /\ Cardinality(J) \in Nat
  BY <1>1, FS_CardinalityType
<1>5. substeps' = Cardinality(subs') + 1 /\ substeps' # 0
  BY <1>1, <1>2, <1>3, <1>4
<1> QED BY <1>1, <1>2, <1>5 DEF Handles, HandlesExact, InRun

GoesOn(X, v) ==
  /\ pc \in {"ssAsk", "msAsk"} /\ GoOn /\ UNCHANGED <<input, caches, told>>
  /\ X \in SUBSET Items /\ IsFiniteSet(X) /\ \A t \in X : t.kind # "job"
  /\ Give(GivenOf(X)) /\ FinishEqual(DoneOf(X, v))

LEMMA GiveKeeps ==
  ASSUME JobInv, NEW X, NEW v, GoesOn(X, v), Stacks',
         ItemsNext = (Items \ X) \union JobItems(subs' \ subs)
  PROVE  JobInv'
<1>1. PICK V : Holds(V)
  BY HoldsIs
<1>2. pc \in InRun /\ pc' \in InRun \ {"start", "deleted"} /\ pc # "deleted"
  BY DEF GoesOn, GoOn, InRun
<1>3. Typed /\ Handles /\ room \in Nat
  BY <1>2, InRunIs
<1>4. Gives(V, Items, X, v)
  BY <1>1, <1>3 DEF Gives, Holds, GoesOn
<1>5. GivenKept(Items, X)
  BY <1>4, GivesKeep
<1>6. subs \cap GivenOf(X) = {}
  <2>1. JobItems(subs) \subseteq Items
    BY DEF Items, AllItems
  <2> QED BY <1>1, <2>1, GivenNew DEF Holds, GoesOn
<1>7. Handles'
  BY <1>2, <1>3, <1>5, <1>6, GiveHandles DEF GivenKept, GoesOn
<1>8. subs' \ subs = GivenOf(X)
  <2>1. subs' = subs \union GivenOf(X)
    BY DEF GoesOn, Give
  <2> QED BY ONLY <2>1, <1>6
<1>9. Kept(arr', cache', room', ItemsNext) /\ StillTyped /\ room' \in Nat
  BY <1>3, <1>5, <1>8 DEF GivenKept
<1>10. input' = input /\ told' = told
  BY DEF GoesOn
<1> QED BY <1>2, <1>7, <1>9, <1>10, AnyStep

LEMMA JobItemsMore ==
  ASSUME NEW J, NEW J1, J \subseteq J1
  PROVE  JobItems(J1) = JobItems(J) \union JobItems(J1 \ J)
BY DEF JobItems

(* What sample_sort_free_work gives away are the items of the frame. *)
LEMMA SampleGiven ==
  ASSUME NEW k, NEW f
  PROVE  GivenOf(BucketItems(k, f))
           = {[sec |-> Bucket(f, b), depth |-> BucketDepth(f, b)] :
                b \in {c \in {b \in f.idx .. BktNum - 1 : Bucket(f, b).n > 0} : ~EqualAndDone(f, c)}}
<1> DEFINE X == BucketItems(k, f)
           R == {b \in f.idx .. BktNum - 1 : Bucket(f, b).n > 0}
           S == {[sec |-> Bucket(f, b), depth |-> BucketDepth(f, b)] :
                   b \in {c \in R : ~EqualAndDone(f, c)}}
<1>1. ASSUME NEW c \in GivenOf(X) PROVE c \in S
  <2>1. PICK t \in X : t.sec.n > 0 /\ ~t.done /\ c = [sec |-> t.sec, depth |-> t.depth]
    BY <1>1, GivenFrom
  <2>2. PICK b \in f.idx .. BktNum - 1 : t = BucketItem(k, f, b)
    BY <2>1 DEF BucketItems
  <2>3. t.sec = Bucket(f, b) /\ (t.done <=> EqualAndDone(f, b)) /\ t.depth = BucketDepth(f, b)
    BY <2>2, BucketItemIs
  <2>4. b \in {x \in R : ~EqualAndDone(f, x)}
    BY <2>1, <2>3
  <2>5. c = [sec |-> Bucket(f, b), depth |-> BucketDepth(f, b)]
    BY <2>1, <2>3
  <2> QED BY <2>4, <2>5
<1>2. ASSUME NEW c \in S PROVE c \in GivenOf(X)
  <2>1. PICK b \in {x \in R : ~EqualAndDone(f, x)} :
          c = [sec |-> Bucket(f, b), depth |-> BucketDepth(f, b)]
    BY <1>2
  <2>2. PICK t : t = BucketItem(k, f, b)
    OBVIOUS
  <2>3. t \in X
    BY <2>1, <2>2 DEF BucketItems
  <2>4. t.sec = Bucket(f, b) /\ (t.done <=> EqualAndDone(f, b)) /\ t.depth = BucketDepth(f, b)
    BY <2>2, BucketItemIs
  <2>5. t.sec.n > 0 /\ ~t.done
    BY <2>1, <2>4
  <2>6. [sec |-> t.sec, depth |-> t.depth] \in GivenOf(X)
    BY <2>3, <2>5, GivenFrom
  <2> QED BY <2>1, <2>4, <2>6
<1> QED BY <1>1, <1>2

LEMMA SampleDone ==
  ASSUME NEW k, NEW f, NEW v, \A b \in f.idx .. BktNum - 1 :
           v[BucketItem(k, f, b)] = f.depth + KeyDepth(f.splitter[b \div 2])
  PROVE  DoneOf(BucketItems(k, f), v)
           = {[sec |-> Bucket(f, b), lcp |-> f.depth + KeyDepth(f.splitter[b \div 2])] :
                b \in {c \in {b \in f.idx .. BktNum - 1 : Bucket(f, b).n > 0} : EqualAndDone(f, c)}}
<1> DEFINE X == BucketItems(k, f)
           R == {b \in f.idx .. BktNum - 1 : Bucket(f, b).n > 0}
           at(b) == f.depth + KeyDepth(f.splitter[b \div 2])
           S == {[sec |-> Bucket(f, b), lcp |-> at(b)] : b \in {c \in R : EqualAndDone(f, c)}}
<1>1. ASSUME NEW c \in DoneOf(X, v) PROVE c \in S
  <2>1. PICK t \in X : t.sec.n > 0 /\ t.done /\ c = [sec |-> t.sec, lcp |-> v[t]]
    BY <1>1 DEF DoneOf
  <2>2. PICK b \in f.idx .. BktNum - 1 : t = BucketItem(k, f, b)
    BY <2>1 DEF BucketItems
  <2>3. t.sec = Bucket(f, b) /\ (t.done <=> EqualAndDone(f, b)) /\ v[t] = at(b)
    BY <2>2, BucketItemIs
  <2>4. b \in {x \in R : EqualAndDone(f, x)}
    BY <2>1, <2>3
  <2>5. c = [sec |-> Bucket(f, b), lcp |-> at(b)]
    BY <2>1, <2>3
  <2> QED BY <2>4, <2>5
<1>2. ASSUME NEW c \in S PROVE c \in DoneOf(X, v)
  <2>1. PICK b \in {x \in R : EqualAndDone(f, x)} : c = [sec |-> Bucket(f, b), lcp |-> at(b)]
    BY <1>2
  <2>2. PICK t : t = BucketItem(k, f, b)
    OBVIOUS
  <2>3. t \in X
    BY <2>1, <2>2 DEF BucketItems
  <2>4. t.sec = Bucket(f, b) /\ (t.done <=> EqualAndDone(f, b)) /\ v[t] = at(b)
    BY <2>1, <2>2, BucketItemIs
  <2>5. t.sec.n > 0 /\ t.done
    BY <2>1, <2>4
  <2>6. c = [sec |-> t.sec, lcp |-> v[t]]
    BY <2>1, <2>4
  <2> QED BY <2>3, <2>5, <2>6 DEF DoneOf
<1> QED BY <1>1, <1>2

LEMMA FreeSampleKeeps ==
  ASSUME JobInv, FreeSample
  PROVE  JobInv'
<1> DEFINE f == ss[ssFront + 1]
           X == BucketItems(ssFront + 1, f)
           v == [t \in X |-> f.depth + KeyDepth(f.splitter[t.part \div 2])]
<1>1. /\ pc \in {"ssAsk", "msAsk"} /\ GoOn /\ Len(ss) > ssFront
      /\ ss' = [ss EXCEPT ![ssFront + 1].idx = BktNum] /\ ssFront' = ssFront + 1
      /\ UNCHANGED <<input, caches, ms, msFront, told>>
  BY DEF FreeSample, quick
<1>2. \A b \in f.idx .. BktNum - 1 :
        v[BucketItem(ssFront + 1, f, b)] = f.depth + KeyDepth(f.splitter[b \div 2])
  <2> SUFFICES ASSUME NEW b \in f.idx .. BktNum - 1
               PROVE  v[BucketItem(ssFront + 1, f, b)] = f.depth + KeyDepth(f.splitter[b \div 2])
    OBVIOUS
  <2>1. BucketItem(ssFront + 1, f, b) \in X /\ BucketItem(ssFront + 1, f, b).part = b
    BY BucketItemIs DEF BucketItems
  <2> QED BY <2>1
<1>3. Give(GivenOf(X))
  BY SampleGiven DEF FreeSample
<1> HIDE DEF v
<1>4. FinishEqual(DoneOf(X, v))
  <2>1. DoneOf(X, v)
          = {[sec |-> Bucket(f, b), lcp |-> f.depth + KeyDepth(f.splitter[b \div 2])] :
               b \in {c \in {b \in f.idx .. BktNum - 1 : Bucket(f, b).n > 0} : EqualAndDone(f, c)}}
    BY ONLY <1>2, SampleDone
  <2>2. FinishEqual({[sec |-> Bucket(f, b), lcp |-> f.depth + KeyDepth(f.splitter[b \div 2])] :
               b \in {c \in {b \in f.idx .. BktNum - 1 : Bucket(f, b).n > 0} : EqualAndDone(f, c)}})
    BY DEF FreeSample
  <2> QED BY ONLY <2>1, <2>2
<1>5. /\ Stacks /\ IsStack("ss", ss) /\ ssFront \in Nat /\ ssFront < Len(ss) /\ Len(ss) \in Nat
      /\ SampleFrame(f)
  <2>1. pc \in InRun
    BY <1>1 DEF InRun
  <2>2. Stacks
    BY <2>1, InRunIs
  <2>3. IsStack("ss", ss) /\ ssFront \in Nat /\ Len(ss) \in Nat
    BY <2>2, StackLen DEF Stacks
  <2>4. ssFront < Len(ss) /\ ssFront + 1 \in 1 .. Len(ss)
    BY <1>1, <2>3
  <2> QED BY <2>2, <2>3, <2>4 DEF IsStack, FrameOk
<1>6. SamplePassed(ss, ssFront)
  BY <1>5, PassSample
<1>7. IsFiniteSet(X)
  <2>1. f.idx \in Int /\ BktNum - 1 \in Int
    BY <1>5, BktNumIs DEF SampleFrame
  <2>2. IsFiniteSet(f.idx .. BktNum - 1)
    BY ONLY <2>1, FS_Interval
  <2> DEFINE g == [b \in f.idx .. BktNum - 1 |-> BucketItem(ssFront + 1, f, b)]
  <2>3. X = {g[b] : b \in f.idx .. BktNum - 1}
    BY DEF BucketItems
  <2> HIDE DEF g
  <2>4. IsFiniteSet({g[b] : b \in f.idx .. BktNum - 1})
    BY <2>2, ImageFinite
  <2> QED BY <2>3, <2>4
<1>8. \A t \in X : t.kind = "ss"
  BY BucketItemIs DEF BucketItems
<1> HIDE DEF X
<1>9. X \subseteq StackItems("ss", ss, ssFront)
        /\ StackItems("ss", ss', ssFront') = StackItems("ss", ss, ssFront) \ X
        /\ StackBecomes("ss", ss', Len(ss))
  BY <1>1, <1>6 DEF SamplePassed, X
<1>10. X \subseteq Items
  BY <1>9 DEF Items, AllItems
<1>11. GoesOn(X, v)
  BY <1>1, <1>3, <1>4, <1>7, <1>8, <1>10 DEF GoesOn
<1>12. Stacks'
  <2>1. IsStack("ss", ss') /\ Len(ss') = Len(ss)
    BY <1>9 DEF StackBecomes
  <2>2. msFront' = msFront /\ ms' = ms /\ pc' \in {"ss", "ms"} /\ input' = input
          /\ (pc' = "ss" => pc = "ssAsk")
    BY <1>1 DEF GoOn
  <2>3. ~(Len(input.strings) < SmallThreshold)
    BY <1>5, <1>1 DEF Stacks
  <2> QED BY <1>1, <1>5, <2>1, <2>2, <2>3 DEF Stacks
<1>13. ItemsNext = (Items \ X) \union JobItems(subs' \ subs)
  <2> DEFINE A == StackItems("ss", ss, ssFront)
             B == StackItems("ms", ms, msFront)
             C == JobItems(subs)
             E == JobItems(subs' \ subs)
  <2>1. WholeItems(pc) = {} /\ WholeItems(pc') = {}
    BY <1>1 DEF WholeItems, GoOn
  <2>2. JobItems(subs') = C \union E
    BY <1>11, JobItemsMore DEF GoesOn, Give
  <2>3. ms' = ms /\ msFront' = msFront
    BY <1>1
  <2>4. Items = A \union B \union C
    BY <2>1 DEF Items, AllItems
  <2>5. ItemsNext = (A \ X) \union B \union (C \union E)
    BY <1>9, <2>1, <2>2, <2>3 DEF ItemsNext, AllItems
  <2>6. B \cap X = {} /\ C \cap X = {}
    BY <1>8, ItemKinds
  <2> QED BY ONLY <2>4, <2>5, <2>6
<1> QED BY <1>11, <1>12, <1>13, GiveKeeps

(* The same of mkqs_free_work. *)
QuickRestOf(m, batch) ==
  {x \in batch \X (1 .. 3) : x[2] > m[x[1]].idx /\ PartSection(m[x[1]], x[2]).n > 0}
QuickLengthAt(m, k) == m[k].depth + KeyDepth(m[k].pivot)

LEMMA BatchItemIs ==
  ASSUME NEW m, NEW batch, \A k \in batch : m[k].idx \in Nat
  PROVE  /\ \A t \in BatchItems(m, batch) : \E k \in batch, p \in 1 .. 3 :
              p > m[k].idx /\ t = PartItem(k, m[k], p)
         /\ \A k \in batch, p \in 1 .. 3 : p > m[k].idx => PartItem(k, m[k], p) \in BatchItems(m, batch)
<1>1. ASSUME NEW t \in BatchItems(m, batch)
      PROVE  \E k \in batch, p \in 1 .. 3 : p > m[k].idx /\ t = PartItem(k, m[k], p)
  <2>1. PICK k \in batch : t \in PartItems(k, m[k])
    BY DEF BatchItems
  <2>2. PICK p \in m[k].idx + 1 .. 3 : t = PartItem(k, m[k], p)
    BY <2>1 DEF PartItems
  <2>3. m[k].idx \in Nat
    BY <2>1
  <2>4. p \in 1 .. 3 /\ p > m[k].idx
    BY <2>3, <2>2
  <2> QED BY <2>1, <2>2, <2>4
<1>2. ASSUME NEW k \in batch, NEW p \in 1 .. 3, p > m[k].idx
      PROVE  PartItem(k, m[k], p) \in BatchItems(m, batch)
  <2>1. m[k].idx \in Nat
    OBVIOUS
  <2>2. p \in m[k].idx + 1 .. 3
    BY <1>2, <2>1
  <2>3. PartItem(k, m[k], p) \in PartItems(k, m[k])
    BY <2>2 DEF PartItems
  <2> QED BY <2>3 DEF BatchItems
<1> QED BY <1>1, <1>2

LEMMA QuickGiven ==
  ASSUME NEW m, NEW batch, \A k \in batch : m[k].idx \in Nat
  PROVE  GivenOf(BatchItems(m, batch))
           = {[sec |-> PartSection(m[x[1]], x[2]), depth |-> PartDepth(m[x[1]], x[2])] :
                x \in {y \in QuickRestOf(m, batch) : ~PivotDone(m[y[1]], y[2])}}
<1> DEFINE X == BatchItems(m, batch)
           R == {y \in QuickRestOf(m, batch) : ~PivotDone(m[y[1]], y[2])}
           S == {[sec |-> PartSection(m[x[1]], x[2]), depth |-> PartDepth(m[x[1]], x[2])] : x \in R}
<1>1. ASSUME NEW c \in GivenOf(X) PROVE c \in S
  <2>1. PICK t \in X : t.sec.n > 0 /\ ~t.done /\ c = [sec |-> t.sec, depth |-> t.depth]
    BY <1>1, GivenFrom
  <2>2. PICK k \in batch, p \in 1 .. 3 : p > m[k].idx /\ t = PartItem(k, m[k], p)
    BY <2>1, BatchItemIs
  <2>3. /\ t.sec = PartSection(m[k], p) /\ (t.done <=> PivotDone(m[k], p))
        /\ t.depth = PartDepth(m[k], p)
    BY <2>2, PartItemIs
  <2>4. PICK x : x = <<k, p>>
    OBVIOUS
  <2>5. x \in batch \X (1 .. 3) /\ x[1] = k /\ x[2] = p
    BY <2>2, <2>4
  <2>6. x \in R
    BY <2>1, <2>2, <2>3, <2>5 DEF QuickRestOf
  <2>7. c = [sec |-> PartSection(m[x[1]], x[2]), depth |-> PartDepth(m[x[1]], x[2])]
    BY <2>1, <2>3, <2>5
  <2> QED BY <2>6, <2>7
<1>2. ASSUME NEW c \in S PROVE c \in GivenOf(X)
  <2>1. PICK x \in R :
          c = [sec |-> PartSection(m[x[1]], x[2]), depth |-> PartDepth(m[x[1]], x[2])]
    BY <1>2
  <2>2. PICK k, p : k = x[1] /\ p = x[2]
    OBVIOUS
  <2>3. /\ k \in batch /\ p \in 1 .. 3 /\ p > m[k].idx /\ PartSection(m[k], p).n > 0
        /\ ~PivotDone(m[k], p)
    BY <2>1, <2>2 DEF QuickRestOf
  <2>4. PICK t : t = PartItem(k, m[k], p)
    OBVIOUS
  <2>5. t \in X
    BY <2>3, <2>4, BatchItemIs
  <2>6. /\ t.sec = PartSection(m[k], p) /\ (t.done <=> PivotDone(m[k], p))
        /\ t.depth = PartDepth(m[k], p)
    BY <2>3, <2>4, PartItemIs
  <2>7. t.sec.n > 0 /\ ~t.done
    BY <2>3, <2>6
  <2>8. [sec |-> t.sec, depth |-> t.depth] \in GivenOf(X)
    BY <2>5, <2>7, GivenFrom
  <2> QED BY <2>1, <2>2, <2>6, <2>8
<1> QED BY <1>1, <1>2

LEMMA QuickDone ==
  ASSUME NEW m, NEW batch, \A k \in batch : m[k].idx \in Nat,
         NEW v, \A t \in BatchItems(m, batch) : v[t] = QuickLengthAt(m, t.frame)
  PROVE  DoneOf(BatchItems(m, batch), v)
           = {[sec |-> PartSection(m[x[1]], x[2]), lcp |-> QuickLengthAt(m, x[1])] :
                x \in {y \in QuickRestOf(m, batch) : PivotDone(m[y[1]], y[2])}}
<1> DEFINE X == BatchItems(m, batch)
           R == {y \in QuickRestOf(m, batch) : PivotDone(m[y[1]], y[2])}
           S == {[sec |-> PartSection(m[x[1]], x[2]), lcp |-> QuickLengthAt(m, x[1])] : x \in R}
<1>1. ASSUME NEW c \in DoneOf(X, v) PROVE c \in S
  <2>1. PICK t \in X : t.sec.n > 0 /\ t.done /\ c = [sec |-> t.sec, lcp |-> v[t]]
    BY <1>1 DEF DoneOf
  <2>2. PICK k \in batch, p \in 1 .. 3 : p > m[k].idx /\ t = PartItem(k, m[k], p)
    BY <2>1, BatchItemIs
  <2>3. t.sec = PartSection(m[k], p) /\ (t.done <=> PivotDone(m[k], p)) /\ t.frame = k
    BY <2>2, PartItemIs
  <2>4. v[t] = QuickLengthAt(m, k)
    BY <2>1, <2>3
  <2>5. PICK x : x = <<k, p>>
    OBVIOUS
  <2>6. x \in batch \X (1 .. 3) /\ x[1] = k /\ x[2] = p
    BY <2>2, <2>5
  <2>7. x \in R
    BY <2>1, <2>2, <2>3, <2>6 DEF QuickRestOf
  <2>8. c = [sec |-> PartSection(m[x[1]], x[2]), lcp |-> QuickLengthAt(m, x[1])]
    BY <2>1, <2>3, <2>4, <2>6
  <2> QED BY <2>7, <2>8
<1>2. ASSUME NEW c \in S PROVE c \in DoneOf(X, v)
  <2>1. PICK x \in R : c = [sec |-> PartSection(m[x[1]], x[2]), lcp |-> QuickLengthAt(m, x[1])]
    BY <1>2
  <2>2. PICK k, p : k = x[1] /\ p = x[2]
    OBVIOUS
  <2>3. /\ k \in batch /\ p \in 1 .. 3 /\ p > m[k].idx /\ PartSection(m[k], p).n > 0
        /\ PivotDone(m[k], p)
    BY <2>1, <2>2 DEF QuickRestOf
  <2>4. PICK t : t = PartItem(k, m[k], p)
    OBVIOUS
  <2>5. t \in X
    BY <2>3, <2>4, BatchItemIs
  <2>6. t.sec = PartSection(m[k], p) /\ (t.done <=> PivotDone(m[k], p)) /\ t.frame = k
    BY <2>3, <2>4, PartItemIs
  <2>7. t.sec.n > 0 /\ t.done /\ v[t] = QuickLengthAt(m, k)
    BY <2>3, <2>5, <2>6
  <2>8. c = [sec |-> t.sec, lcp |-> v[t]]
    BY <2>1, <2>2, <2>6, <2>7
  <2> QED BY <2>5, <2>7, <2>8 DEF DoneOf
<1> QED BY <1>1, <1>2

LEMMA BatchFinite ==
  ASSUME NEW m, NEW batch, IsFiniteSet(batch), \A k \in batch : m[k].idx \in Nat
  PROVE  IsFiniteSet(BatchItems(m, batch))
<1> DEFINE g == [k \in batch |-> PartItems(k, m[k])]
           S == {g[k] : k \in batch}
<1>1. ASSUME NEW k \in batch PROVE IsFiniteSet(PartItems(k, m[k]))
  <2> DEFINE h == [p \in m[k].idx + 1 .. 3 |-> PartItem(k, m[k], p)]
  <2>1. m[k].idx + 1 \in Int /\ 3 \in Int
    OBVIOUS
  <2>2. IsFiniteSet(m[k].idx + 1 .. 3)
    BY ONLY <2>1, FS_Interval
  <2>3. PartItems(k, m[k]) = {h[p] : p \in m[k].idx + 1 .. 3}
    BY DEF PartItems
  <2> HIDE DEF h
  <2>4. IsFiniteSet({h[p] : p \in m[k].idx + 1 .. 3})
    BY <2>2, ImageFinite
  <2> QED BY <2>3, <2>4
<1>2. BatchItems(m, batch) = UNION S
  BY DEF BatchItems
<1>3. \A T \in S : IsFiniteSet(T)
  BY <1>1
<1> HIDE DEF g
<1>4. IsFiniteSet(S)
  BY ImageFinite
<1> QED BY <1>2, <1>3, <1>4, FS_UNION

LEMMA FreeQuickKeeps ==
  ASSUME JobInv, FreeQuick
  PROVE  JobInv'
<1> DEFINE to == Min({msFront + FreeBatch, Len(ms)})
           batch == msFront + 1 .. to
           X == BatchItems(ms, batch)
           v == [t \in X |-> QuickLengthAt(ms, t.frame)]
<1>1. /\ pc \in {"ssAsk", "msAsk"} /\ GoOn /\ Len(ss) = ssFront
      /\ msFront' = msFront + Cardinality(batch)
      /\ UNCHANGED <<input, caches, ss, ssFront, ms, told>>
  BY DEF FreeQuick, sample
<1>2. /\ Stacks /\ IsStack("ms", ms) /\ msFront \in Nat /\ msFront <= Len(ms) /\ Len(ms) \in Nat
  <2>1. pc \in InRun
    BY <1>1 DEF InRun
  <2>2. Stacks
    BY <2>1, InRunIs
  <2> QED BY <2>2, StackLen DEF Stacks
<1>3. to \in Nat /\ msFront <= to /\ to <= Len(ms)
  <2> DEFINE a == msFront + FreeBatch
  <2>1. a \in Nat /\ msFront <= a /\ Len(ms) \in Nat /\ msFront <= Len(ms)
    BY <1>2, SmallsortAssumption
  <2> HIDE DEF a
  <2>2. \E x \in {a, Len(ms)} : \A y \in {a, Len(ms)} : x <= y
    BY <2>1
  <2>3. to \in {a, Len(ms)} /\ \A y \in {a, Len(ms)} : to <= y
    BY <2>2 DEF Min, a
  <2> QED BY <2>1, <2>3
<1> HIDE DEF to
<1>4. batch \subseteq 1 .. Len(ms)
  BY <1>2, <1>3
<1>5. \A k \in batch : ms[k].idx \in Nat
  <2> SUFFICES ASSUME NEW k \in batch PROVE ms[k].idx \in Nat
    OBVIOUS
  <2>1. k \in 1 .. Len(ms)
    BY ONLY <1>4, k \in batch
  <2>2. QuickFrame(ms[k])
    BY ONLY <1>2, <2>1 DEF IsStack, FrameOk
  <2>3. ms[k].idx \in 0 .. 3
    BY ONLY <2>2 DEF QuickFrame
  <2> QED BY ONLY <2>3
<1>6. IsFiniteSet(batch) /\ Cardinality(batch) = to - msFront
  <2>1. msFront + 1 \in Int /\ to \in Int
    BY <1>2, <1>3
  <2>2. /\ IsFiniteSet(batch)
        /\ Cardinality(batch) = IF msFront + 1 > to THEN 0 ELSE to - (msFront + 1) + 1
    BY ONLY <2>1, FS_Interval
  <2> QED BY <1>2, <1>3, <2>2
<1> HIDE DEF batch
<1>7. msFront' = to
  BY <1>1, <1>2, <1>3, <1>6 DEF batch
<1>8. \A t \in X : v[t] = QuickLengthAt(ms, t.frame)
  OBVIOUS
<1> HIDE DEF v
<1>9. Give(GivenOf(X))
  <2>1. Give({[sec |-> PartSection(ms[x[1]], x[2]), depth |-> PartDepth(ms[x[1]], x[2])] :
                x \in {y \in QuickRestOf(ms, batch) : ~PivotDone(ms[y[1]], y[2])}})
    BY DEF FreeQuick, QuickRestOf, batch, to
  <2> QED BY <1>5, <2>1, QuickGiven
<1>10. FinishEqual(DoneOf(X, v))
  <2>1. DoneOf(X, v) = {[sec |-> PartSection(ms[x[1]], x[2]), lcp |-> QuickLengthAt(ms, x[1])] :
                x \in {y \in QuickRestOf(ms, batch) : PivotDone(ms[y[1]], y[2])}}
    BY ONLY <1>5, <1>8, QuickDone
  <2>2. FinishEqual({[sec |-> PartSection(ms[x[1]], x[2]), lcp |-> QuickLengthAt(ms, x[1])] :
                x \in {y \in QuickRestOf(ms, batch) : PivotDone(ms[y[1]], y[2])}})
    BY DEF FreeQuick, QuickRestOf, batch, to, QuickLengthAt
  <2> QED BY ONLY <2>1, <2>2
<1>11. IsFiniteSet(X)
  BY <1>5, <1>6, BatchFinite
<1>12. QuickPassed(ms, msFront, to)
  BY <1>2, <1>3, PassQuick
<1>13. \A t \in X : t.kind = "ms"
  <2> SUFFICES ASSUME NEW t \in X PROVE t.kind = "ms"
    OBVIOUS
  <2>1. PICK k \in batch, p \in 1 .. 3 : p > ms[k].idx /\ t = PartItem(k, ms[k], p)
    BY ONLY <1>5, t \in X, BatchItemIs
  <2> QED BY ONLY <2>1, PartItemIs
<1>14. X \subseteq StackItems("ms", ms, msFront)
        /\ StackItems("ms", ms', msFront') = StackItems("ms", ms, msFront) \ X
  BY <1>1, <1>7, <1>12 DEF QuickPassed, batch
<1> HIDE DEF X
<1>15. X \subseteq Items
  BY <1>14 DEF Items, AllItems
<1>16. GoesOn(X, v)
  BY <1>1, <1>9, <1>10, <1>11, <1>13, <1>15 DEF GoesOn
<1>17. Stacks'
  <2>1. (pc' = "ss" => pc = "ssAsk") /\ pc' \in {"ss", "ms"}
    BY <1>1 DEF GoOn
  <2>2. pc' = "ss" => Len(ms) = to
    BY <1>2, <1>3, <2>1 DEF Stacks
  <2>3. input' = input /\ ss' = ss /\ ssFront' = ssFront /\ ms' = ms
    BY <1>1
  <2> QED BY <1>1, <1>2, <1>3, <1>7, <2>1, <2>2, <2>3 DEF Stacks
<1>18. ItemsNext = (Items \ X) \union JobItems(subs' \ subs)
  <2> DEFINE A == StackItems("ss", ss, ssFront)
             B == StackItems("ms", ms, msFront)
             C == JobItems(subs)
             E == JobItems(subs' \ subs)
  <2>1. WholeItems(pc) = {} /\ WholeItems(pc') = {}
    BY <1>1 DEF WholeItems, GoOn
  <2>2. JobItems(subs') = C \union E
    BY <1>16, JobItemsMore DEF GoesOn, Give
  <2>3. ss' = ss /\ ssFront' = ssFront
    BY <1>1
  <2>4. Items = A \union B \union C
    BY <2>1 DEF Items, AllItems
  <2>5. ItemsNext = A \union (B \ X) \union (C \union E)
    BY <1>14, <2>1, <2>2, <2>3 DEF ItemsNext, AllItems
  <2>6. A \cap X = {} /\ C \cap X = {}
    BY <1>13, ItemKinds
  <2> QED BY ONLY <2>4, <2>5, <2>6
<1> QED BY <1>16, <1>17, <1>18, GiveKeeps

-----------------------------------------------------------------------------
(* The ends. *)
LEMMA NothingOnStack ==
  ASSUME NEW kind, NEW s, IsStack(kind, s), NEW front, front = Len(s)
  PROVE  StackItems(kind, s, front) = {}
<1>1. Len(s) \in Nat
  BY StackLen
<1>2. front + 1 .. Len(s) = {}
  BY <1>1
<1> QED BY <1>2 DEF StackItems

(* Items that count on no cache. *)
LEMMA NoRoomNeeded ==
  ASSUME NEW a, NEW c, NEW r, NEW Q, Kept(a, c, r, Q), \A t \in Q : t.room = 0
  PROVE  Kept(a, c, 0, Q)
<1>1. PICK V : Arranged(V) /\ Truth(V, Index, class.out, a, c, r, Q)
  BY DEF Kept
<1>2. ASSUME NEW t \in Q PROVE ItemTrue(V, Index, a, c, 0, t)
  <2>1. ItemTrue(V, Index, a, c, r, t)
    BY <1>1 DEF Truth
  <2>2. t.room <= 0
    <3>1. t.room = 0
      OBVIOUS
    <3> QED BY ONLY <3>1
  <2> QED BY ONLY <2>1, <2>2 DEF ItemTrue
<1>3. Truth(V, Index, class.out, a, c, 0, Q)
  BY <1>1, <1>2 DEF Truth
<1> QED BY <1>1, <1>3 DEF Kept

LEMMA FinishKeeps ==
  ASSUME JobInv, Finish
  PROVE  JobInv'
<1>1. /\ pc = "finish" /\ room' = 0 /\ substeps' = substeps - 1
      /\ pc' = (IF substeps = 1 THEN "alldone" ELSE "returned")
      /\ UNCHANGED <<input, arr, lcp, chars, cache, ss, ssFront, ms, msFront, subs, told>>
  BY DEF Finish, content, sample, quick
<1>2. pc \in InRun /\ pc # "deleted"
  BY <1>1 DEF InRun
<1>3. Typed /\ Stacks /\ Handles
  BY <1>2, InRunIs
<1>4. StackItems("ss", ss, ssFront) = {} /\ StackItems("ms", ms, msFront) = {}
  BY <1>1, <1>3, NothingOnStack DEF Stacks
<1>5. Items = JobItems(subs)
  BY <1>1, <1>4 DEF Items, AllItems, WholeItems
<1>6. pc' \in {"alldone", "returned"}
  BY <1>1
<1>7. ItemsNext = JobItems(subs)
  <2>1. WholeItems(pc') = {}
    BY <1>6 DEF WholeItems
  <2>2. StackItems("ss", ss', ssFront') = {} /\ StackItems("ms", ms', msFront') = {}
    BY <1>1, <1>4
  <2> QED BY <1>1, <2>1, <2>2 DEF ItemsNext, AllItems
<1>8. Kept(arr', cache', room', ItemsNext)
  <2>1. Kept(arr, cache, room, JobItems(subs))
    BY <1>5 DEF JobInv, Consistent
  <2>2. \A t \in JobItems(subs) : t.room = 0
    BY JobItemIs DEF JobItems
  <2>3. Kept(arr, cache, 0, JobItems(subs))
    BY <2>1, <2>2, NoRoomNeeded
  <2>4. arr' = arr /\ cache' = cache /\ room' = 0
    BY <1>1
  <2> QED BY ONLY <2>3, <2>4, <1>7
<1>9. StillTyped
  BY <1>1, <1>3 DEF StillTyped, Typed, LcpsTyped
<1>10. Stacks'
  BY <1>1, <1>3, <1>6 DEF Stacks
<1>11. Handles'
  <2>1. substeps = Cardinality(subs) + 1 /\ Cardinality(subs) \in Nat
    BY <1>1, <1>3, FS_CardinalityType DEF Handles, HandlesExact
  <2> QED BY <1>1, <1>3, <1>6, <2>1 DEF Handles, HandlesExact, InRun
<1> QED BY <1>1, <1>2, <1>6, <1>8, <1>9, <1>10, <1>11, AnyStep

LEMMA JobItemsLess ==
  ASSUME NEW J, NEW c
  PROVE  JobItems(J \ {c}) = JobItems(J) \ {JobItem(c)}
<1>1. \A d \in J : JobItem(d) = JobItem(c) => d = c
  BY JobItemIs
<1> QED BY <1>1 DEF JobItems

LEMMA SubstepDoneKeeps ==
  ASSUME JobInv, NEW c \in subs, SubstepDone(c)
  PROVE  JobInv'
<1> DEFINE t == JobItem(c)
<1>1. /\ SortElsewhere(c.sec, c.depth) /\ subs' = subs \ {c} /\ substeps' = substeps - 1
      /\ pc' = (IF substeps = 1 THEN "alldone" ELSE pc)
      /\ UNCHANGED <<input, cache, room, ss, ssFront, ms, msFront, told>>
  BY DEF SubstepDone, caches, sample, quick
<1>2. Handles /\ Stacks /\ IsFiniteSet(subs)
  BY DEF JobInv, Handles
<1>3. /\ IsFiniteSet(subs \ {c}) /\ Cardinality(subs \ {c}) = Cardinality(subs) - 1
      /\ Cardinality(subs) \in Nat /\ Cardinality(subs \ {c}) \in Nat /\ Cardinality(subs) > 0
  <2>1. IsFiniteSet(subs \ {c}) /\ Cardinality(subs \ {c}) = Cardinality(subs) - 1
    BY <1>2, FS_RemoveElement
  <2>2. Cardinality(subs) \in Nat /\ Cardinality(subs \ {c}) \in Nat
    BY <1>2, <2>1, FS_CardinalityType
  <2> QED BY <2>1, <2>2
<1>4. substeps = Cardinality(subs) + (IF pc \in InRun THEN 1 ELSE 0)
        /\ (pc \in {"alldone", "deleted"} => substeps = 0)
  BY <1>2 DEF Handles, HandlesExact, InRun
<1>5. pc \in InRun \union {"returned"}
  <2>1. pc \notin {"alldone", "deleted"}
    BY <1>3, <1>4 DEF InRun
  <2>2. pc # "start"
    BY DEF JobInv, Alive
  <2> QED BY <1>2, <2>1, <2>2 DEF Handles
<1>6. IF pc \in InRun THEN pc' = pc ELSE pc = "returned" /\ pc' \in {"returned", "alldone"}
  <2>1. pc \in InRun => substeps # 1
    BY <1>3, <1>4
  <2> QED BY <1>1, <1>5, <2>1
<1>7. Typed /\ pc \notin {"deleted", "start"} /\ pc' \notin {"deleted", "start"} /\ room \in Nat
  <2>1. pc \notin {"deleted", "start"} /\ pc' \notin {"deleted", "start"}
    BY <1>5, <1>6 DEF InRun
  <2> QED BY <2>1 DEF JobInv, Alive, Typed
<1>8. PICK V : Holds(V)
  BY HoldsIs
<1>9. t \in JobItems(subs) /\ t \in Items
  BY DEF JobItems, Items, AllItems
<1>10. t.sec = c.sec /\ t.depth = c.depth /\ ~t.done /\ t.kind = "job"
  BY JobItemIs
<1> HIDE DEF t
<1>11. Advances(V, t, {})
  <2>1. Ready(V, t)
    BY <1>7, <1>8, <1>9, ItemReady
  <2>2. SortElsewhere(t.sec, t.depth) /\ cache' = cache
    BY <1>1, <1>10
  <2> QED BY <1>10, <2>1, <2>2, ElsewhereWorks
<1>12. Kept(arr', cache', room', (Items \ {t}) \union {}) /\ StillTyped /\ room' \in Nat
  <2>1. room' \in Int /\ room <= room' /\ room' \in Nat
    BY <1>1, <1>7
  <2> QED BY <1>7, <1>8, <1>9, <1>11, <2>1, ItemWorked
<1>13. ItemsNext = (Items \ {t}) \union {}
  <2> DEFINE A == StackItems("ss", ss, ssFront)
             B == StackItems("ms", ms, msFront)
             C == JobItems(subs)
  <2>1. WholeItems(pc) = {} /\ WholeItems(pc') = {}
    BY <1>7 DEF WholeItems
  <2>2. JobItems(subs') = C \ {t}
    BY <1>1, JobItemsLess DEF t
  <2>3. ss' = ss /\ ssFront' = ssFront /\ ms' = ms /\ msFront' = msFront
    BY <1>1
  <2>4. Items = A \union B \union C
    BY <2>1 DEF Items, AllItems
  <2>5. ItemsNext = A \union B \union (C \ {t})
    BY <2>1, <2>2, <2>3 DEF ItemsNext, AllItems
  <2>6. t \notin A /\ t \notin B
    BY <1>10, ItemKinds
  <2> QED BY ONLY <2>4, <2>5, <2>6
<1>14. Kept(arr', cache', room', ItemsNext)
  BY ONLY <1>12, <1>13
<1>15. Stacks'
  <2>1. /\ input' = input /\ ss' = ss /\ ssFront' = ssFront /\ ms' = ms /\ msFront' = msFront
    BY <1>1
  <2>2. (pc' \in {"ss", "ssAsk"} => pc' = pc) /\ (pc' = "finish" => pc' = pc)
          /\ (pc' \in {"returned", "alldone"} => pc = "returned")
    BY <1>6 DEF InRun
  <2> QED BY <1>2, <1>7, <2>1, <2>2 DEF Stacks
<1>16. Handles'
  <2>1. pc \in InRun => substeps' = Cardinality(subs') + 1 /\ substeps' # 0
    BY <1>1, <1>3, <1>4
  <2>2. pc \notin InRun => substeps' = Cardinality(subs') /\ (substeps' = 0 <=> pc' = "alldone")
    BY <1>1, <1>3, <1>4, <1>6
  <2>3. IsFiniteSet(subs')
    BY <1>1, <1>3
  <2>4. pc' \in InRun <=> pc \in InRun
    BY <1>5, <1>6 DEF InRun
  <2>5. CASE pc \in InRun
    <3>1. pc' \in InRun /\ pc' \notin {"alldone", "deleted", "start"}
      BY <2>4, <2>5 DEF InRun
    <3> QED BY <2>1, <2>3, <2>5, <3>1 DEF Handles, HandlesExact, InRun
  <2>6. CASE pc \notin InRun
    <3>1. pc' \notin InRun /\ pc' \in {"returned", "alldone"}
      BY <1>6, <2>4, <2>6
    <3>2. Cardinality(subs') + 0 = Cardinality(subs')
      BY <1>1, <1>3
    <3>3. substeps' = Cardinality(subs') /\ (substeps' = 0 <=> pc' = "alldone")
      BY <2>2, <2>6
    <3>4. HandlesExact'
      BY ONLY <3>1, <3>2, <3>3 DEF HandlesExact, InRun
    <3> QED BY <2>3, <3>1, <3>4 DEF Handles
  <2> QED BY <2>5, <2>6
<1> QED BY <1>1, <1>7, <1>12, <1>14, <1>15, <1>16, AnyStep

LEMMA AllDoneKeeps ==
  ASSUME JobInv, AllDone
  PROVE  JobInv'
<1>1. /\ pc = "alldone" /\ pc' = "deleted"
      /\ ss' = <<>> /\ ssFront' = 0 /\ ms' = <<>> /\ msFront' = 0
      /\ UNCHANGED <<input, arr, cache, room, subs, substeps>>
  BY DEF AllDone, caches, jobs
<1>2. Stacks /\ Handles /\ IsFiniteSet(subs) /\ substeps = Cardinality(subs) /\ substeps = 0
  <2>1. Stacks /\ Handles
    BY DEF JobInv
  <2>2. pc \notin {"ss", "ssAsk", "ms", "msAsk", "finish"} /\ pc \in {"alldone", "deleted"}
    BY <1>1
  <2>3. IsFiniteSet(subs) /\ HandlesExact
    BY <2>1 DEF Handles
  <2>4. substeps = Cardinality(subs) + 0 /\ substeps = 0
    BY <2>2, <2>3 DEF HandlesExact
  <2>5. Cardinality(subs) \in Nat
    BY <2>3, FS_CardinalityType
  <2> QED BY ONLY <2>1, <2>3, <2>4, <2>5
<1>3. subs = {}
  BY <1>2, FS_EmptySet
<1>4. Items = {}
  <2>1. StackItems("ss", ss, ssFront) = {} /\ StackItems("ms", ms, msFront) = {}
    BY <1>1, <1>2, NothingOnStack DEF Stacks
  <2>2. JobItems(subs) = {} /\ WholeItems(pc) = {}
    BY <1>1, <1>3 DEF JobItems, WholeItems
  <2> QED BY <2>1, <2>2 DEF Items, AllItems
<1>5. \A kind : IsStack(kind, <<>>) /\ Len(<<>>) = 0
  <2>1. Len(<<>>) = 0 /\ <<>> \in Seq(Nat)
    OBVIOUS
  <2>2. 1 .. Len(<<>>) = {}
    BY <2>1
  <2> QED BY <2>1, <2>2 DEF IsStack
<1>6. ItemsNext = {}
  <2>1. StackItems("ss", ss', ssFront') = {} /\ StackItems("ms", ms', msFront') = {}
    BY <1>1, <1>5, NothingOnStack
  <2>2. JobItems(subs') = {} /\ WholeItems(pc') = {}
    BY <1>1, <1>3 DEF JobItems, WholeItems
  <2> QED BY <2>1, <2>2 DEF ItemsNext, AllItems
<1>7. Consistent'
  <2>1. Kept(arr, cache, room, {})
    BY <1>4 DEF JobInv, Consistent
  <2>2. arr' = arr /\ cache' = cache /\ room' = room
    BY <1>1
  <2>3. Kept(arr', cache', room', ItemsNext)
    BY ONLY <2>1, <2>2, <1>6
  <2>4. input' = input
    BY <1>1
  <2> QED BY <2>3, <2>4, ConsistentNext
<1>8. Stacks'
  BY <1>1, <1>5 DEF Stacks
<1>9. Handles'
  BY <1>1, <1>2 DEF Handles, HandlesExact
<1>10. Alive'
  BY <1>1 DEF JobInv, Alive
<1> QED BY <1>7, <1>8, <1>9, <1>10 DEF JobInv

LEMMA InitKeeps ==
  ASSUME Init
  PROVE  JobInv
<1> DEFINE whole == Section(0, Len(input.strings), input.flip)
           V == [i \in Index |-> input.strings[i + 1]]
           t == WholeItem(whole)
<1>1. /\ input \in Inputs
      /\ arr = [side \in BOOLEAN |->
                  [i \in Index |-> IF side = input.flip THEN input.strings[i + 1] ELSE Moved]]
      /\ lcp = [i \in Index |-> Untouched] /\ chars = [i \in Index |-> Untouched]
      /\ cache = [i \in Index |-> 0] /\ room = 0
      /\ ss = <<>> /\ ssFront = 0 /\ ms = <<>> /\ msFront = 0
      /\ subs = {} /\ substeps = 0 /\ pc = "start" /\ told = 0
  BY DEF Init
<1>2. /\ input.flip \in BOOLEAN /\ Len(input.strings) \in Nat \ {0}
      /\ Index = 0 .. Len(input.strings) - 1
      /\ \A i \in Index : input.strings[i + 1] \in CStrings
  BY <1>1, InputIs
<1>3. Stacks
  <2>1. Len(<<>>) = 0 /\ <<>> \in Seq(Nat)
    OBVIOUS
  <2>2. 1 .. Len(<<>>) = {}
    BY <2>1
  <2>3. \A kind : IsStack(kind, <<>>)
    BY <2>1, <2>2 DEF IsStack
  <2> QED BY <1>1, <2>1, <2>3 DEF Stacks
<1>4. Handles
  BY <1>1, FS_EmptySet DEF Handles, HandlesExact
<1>5. Alive
  <2>1. arr \in [BOOLEAN -> [Index -> Stored]]
    BY <1>1, <1>2 DEF Stored
  <2>2. cache = [i \in Index |-> cache[i]] /\ lcp = [i \in Index |-> lcp[i]]
          /\ chars = [i \in Index |-> chars[i]]
    BY <1>1
  <2>3. Typed
    BY <1>1, <2>1, <2>2 DEF Typed
  <2> QED BY <1>1, <2>3 DEF Alive
<1>6. Items = {t}
  <2>1. StackItems("ss", ss, ssFront) = {} /\ StackItems("ms", ms, msFront) = {}
    <3>1. Len(<<>>) = 0
      OBVIOUS
    <3> QED BY <1>1, <1>3, <3>1, NothingOnStack DEF Stacks
  <2>2. JobItems(subs) = {} /\ WholeItems(pc) = {t}
    BY <1>1 DEF JobItems, WholeItems
  <2> QED BY <2>1, <2>2 DEF Items, AllItems
<1>7. /\ t.sec.lo = 0 /\ t.sec.n = Len(input.strings) /\ t.sec.flip = input.flip /\ ~t.done
      /\ t.depth = 0 /\ t.cached = {} /\ t.room = 0
  BY DEF WholeItem, Section
<1>8. Covers(t) = Index
  <2>1. Covers(t) = 0 .. 0 + Len(input.strings) - 1
    BY <1>7 DEF Covers, Positions
  <2> QED BY <1>2, <2>1
<1>9. Arranged(V)
  BY PermutedSame DEF Arranged
<1>10. \A i \in Index : V[i] \in CStrings
  BY <1>2
<1>11. \A i \in Index : arr[input.flip][i] = V[i]
  BY <1>1, <1>2
<1> HIDE DEF t, V
<1>12. ItemTrue(V, Index, arr, cache, room, t)
  <2>1. Sharing(V, Index, 0)
    <3>1. 0 .. 0 - 1 = {} /\ 0 \in Nat
      OBVIOUS
    <3> QED BY <1>10, <3>1 DEF Sharing, Share
  <2>2. t.sec.lo \in Int /\ t.sec.n \in Nat /\ t.sec.flip \in BOOLEAN /\ Covers(t) \subseteq Index
    BY <1>2, <1>7, <1>8
  <2>3. \A i \in Covers(t) : arr[t.sec.flip][i] = V[i]
    BY ONLY <1>7, <1>8, <1>11
  <2>4. t.room <= room
    BY <1>1, <1>7
  <2>5. Sharing(V, Covers(t), t.depth)
    BY ONLY <2>1, <1>7, <1>8
  <2>6. \A d \in t.cached : \A i \in Covers(t) : cache[i] = KeyAt(V[i], d)
    BY <1>7
  <2> QED BY ONLY <1>7, <2>2, <2>3, <2>4, <2>5, <2>6 DEF ItemTrue
<1>13. Truth(V, Index, class.out, arr, cache, room, {t})
  <2>1. \A i, j \in Index : Together({t}, i, j)
    BY <1>8 DEF Together
  <2>2. \A i \in Index : ~ \A u \in {t} : i \notin Covers(u)
    BY <1>8
  <2> QED BY <1>10, <1>12, <2>1, <2>2 DEF Truth
<1>14. Consistent
  BY <1>6, <1>9, <1>13 DEF Consistent, Kept
<1> QED BY <1>3, <1>4, <1>5, <1>14 DEF JobInv

(* Nothing happens. *)
LEMMA StutterKeeps ==
  ASSUME JobInv, UNCHANGED vars
  PROVE  JobInv'
<1>1. /\ input' = input /\ arr' = arr /\ lcp' = lcp /\ chars' = chars /\ cache' = cache /\ room' = room
      /\ ss' = ss /\ ssFront' = ssFront /\ ms' = ms /\ msFront' = msFront /\ subs' = subs
      /\ substeps' = substeps /\ pc' = pc /\ told' = told
  BY DEF vars
<1>2. Stacks' /\ Handles'
  BY <1>1 DEF JobInv, Stacks, Handles, HandlesExact
<1>3. Alive'
  BY <1>1 DEF JobInv, Alive, Typed, Index
<1>4. Consistent'
  <2>1. Kept(arr, cache, room, Items)
    BY DEF JobInv, Consistent
  <2>2. ItemsNext = Items
    BY <1>1 DEF ItemsNext, Items
  <2>3. Kept(arr', cache', room', ItemsNext)
    BY ONLY <1>1, <2>1, <2>2
  <2> QED BY <1>1, <2>3, ConsistentNext
<1> QED BY <1>2, <1>3, <1>4 DEF JobInv

LEMMA NextKeeps ==
  ASSUME JobInv, [Next]_vars
  PROVE  JobInv'
<1>1. CASE Run
  <2>1. CASE Start \/ Finish \/ NobodyIdle \/ FreeSample \/ FreeQuick
    BY <2>1, StartKeeps, FinishKeeps, NobodyIdleKeeps, FreeSampleKeeps, FreeQuickKeeps
  <2>2. CASE SkipBucket \/ EqualBucket \/ SmallBucket \/ LargeBucket \/ PopSample \/ SampleEnds
    BY <2>2, SkipBucketKeeps, EqualBucketKeeps, SmallBucketKeeps, LargeBucketKeeps,
       PopSampleKeeps, SampleEndsKeeps
  <2>3. CASE SkipPart \/ EqualPart \/ SmallPart \/ LargePart \/ PopQuick \/ QuickEnds
    BY <2>3, SkipPartKeeps, EqualPartKeeps, SmallPartKeeps, LargePartKeeps, PopQuickKeeps,
       QuickEndsKeeps
  <2> QED BY <1>1, <2>1, <2>2, <2>3 DEF Run
<1>2. CASE \E c \in subs : SubstepDone(c)
  BY <1>2, SubstepDoneKeeps
<1>3. CASE AllDone
  BY <1>3, AllDoneKeeps
<1>4. CASE UNCHANGED vars
  BY <1>4, StutterKeeps
<1> QED BY <1>1, <1>2, <1>3, <1>4 DEF Next

(* Whatever the job has done, and whatever it has given away: some         *)
(* arrangement of its strings is held by the arrays exactly as its frames, *)
(* its jobs and the job itself before its start say, each string by one of *)
(* them or in its place in the output, and the handles, the places of the  *)
(* frames and the arrays go with them.                                     *)
THEOREM JobInvCorrect == Spec => []JobInv
<1>1. Init => JobInv
  BY InitKeeps
<1>2. JobInv /\ [Next]_vars => JobInv'
  BY NextKeeps
<1> QED BY <1>1, <1>2, PTL DEF Spec

(* m_substep_working counts the jobs and the job itself, so that whoever   *)
(* brings it to zero is the last: for any number of jobs given away and    *)
(* any order in which they end.                                            *)
THEOREM HandlesExactCorrect == Spec => []HandlesExact
<1>1. JobInv => HandlesExact
  BY DEF JobInv, Handles
<1> QED BY <1>1, JobInvCorrect, PTL

-----------------------------------------------------------------------------
(* What the invariant says of the items, in the words of the model. *)
LEMMA ItemsAre ==
  /\ \A x \in SampleRest : BucketItem(x[1], ss[x[1]], x[2]) \in Items
  /\ (\A k \in msFront + 1 .. Len(ms) : ms[k].idx \in Nat) =>
       \A x \in QuickRest : PartItem(x[1], ms[x[1]], x[2]) \in Items
  /\ \A c \in subs : JobItem(c) \in Items
<1>1. ASSUME NEW x \in SampleRest PROVE BucketItem(x[1], ss[x[1]], x[2]) \in Items
  <2>1. /\ x[1] \in ssFront + 1 .. Len(ss) /\ x[2] \in 0 .. BktNum - 1 /\ x[2] >= ss[x[1]].idx
    BY DEF SampleRest
  <2>2. x[2] \in ss[x[1]].idx .. BktNum - 1
    BY <2>1
  <2>3. BucketItem(x[1], ss[x[1]], x[2]) \in FrameItems("ss", x[1], ss[x[1]])
    BY <2>2 DEF FrameItems, BucketItems
  <2> QED BY <2>1, <2>3 DEF Items, AllItems, StackItems
<1>2. ASSUME \A k \in msFront + 1 .. Len(ms) : ms[k].idx \in Nat, NEW x \in QuickRest
      PROVE  PartItem(x[1], ms[x[1]], x[2]) \in Items
  <2>1. /\ x[1] \in msFront + 1 .. Len(ms) /\ x[2] \in 1 .. 3 /\ x[2] > ms[x[1]].idx
    BY DEF QuickRest
  <2>2. ms[x[1]].idx \in Nat
    BY <1>2, <2>1
  <2>3. x[2] \in ms[x[1]].idx + 1 .. 3
    BY <2>1, <2>2
  <2>4. PartItem(x[1], ms[x[1]], x[2]) \in FrameItems("ms", x[1], ms[x[1]])
    BY <2>3 DEF FrameItems, PartItems
  <2> QED BY <2>1, <2>4 DEF Items, AllItems, StackItems
<1>3. \A c \in subs : JobItem(c) \in Items
  BY DEF Items, AllItems, JobItems
<1> QED BY <1>1, <1>2, <1>3

LEMMA FramesIdx ==
  ASSUME JobInv
  PROVE  /\ \A k \in msFront + 1 .. Len(ms) : ms[k].idx \in Nat
         /\ \A k \in ssFront + 1 .. Len(ss) : ss[k].idx \in Int
<1>1. /\ IsStack("ss", ss) /\ IsStack("ms", ms) /\ ssFront \in Nat /\ msFront \in Nat
      /\ Len(ss) \in Nat /\ Len(ms) \in Nat
  BY StackLen DEF JobInv, Stacks
<1>2. ASSUME NEW k \in msFront + 1 .. Len(ms) PROVE ms[k].idx \in Nat
  <2>1. k \in 1 .. Len(ms)
    BY <1>1
  <2>2. QuickFrame(ms[k])
    BY ONLY <1>1, <2>1 DEF IsStack, FrameOk
  <2> QED BY ONLY <2>2 DEF QuickFrame
<1>3. ASSUME NEW k \in ssFront + 1 .. Len(ss) PROVE ss[k].idx \in Int
  <2>1. k \in 1 .. Len(ss)
    BY <1>1
  <2>2. SampleFrame(ss[k])
    BY ONLY <1>1, <2>1 DEF IsStack, FrameOk
  <2> QED BY ONLY <2>2 DEF SampleFrame
<1> QED BY <1>2, <1>3

(* The strings of a section share a prefix that none of them ends within. *)
PrefixShared(sec, depth) ==
  LET first == arr[sec.flip][sec.lo]
  IN  \A i \in Positions(sec) :
        /\ LcpFrom(0, first, arr[sec.flip][i]) >= depth
        /\ Len(arr[sec.flip][i]) >= depth

LEMMA ItemShares ==
  ASSUME NEW V, Holds(V), NEW t \in Items, ~t.done
  PROVE  PrefixShared(t.sec, t.depth)
<1>1. ItemTrue(V, Index, arr, cache, room, t)
  BY DEF Holds, Truth
<1>2. /\ Covers(t) = t.sec.lo .. t.sec.lo + t.sec.n - 1 /\ t.sec.lo \in Int /\ t.sec.n \in Nat
  BY <1>1, CoversInterval
<1>3. Sharing(V, Covers(t), t.depth) /\ \A i \in Covers(t) : arr[t.sec.flip][i] = V[i]
  BY ONLY <1>1, ~t.done DEF ItemTrue
<1> SUFFICES ASSUME NEW i \in Positions(t.sec)
             PROVE  /\ LcpFrom(0, arr[t.sec.flip][t.sec.lo], arr[t.sec.flip][i]) >= t.depth
                    /\ Len(arr[t.sec.flip][i]) >= t.depth
  BY DEF PrefixShared
<1> DEFINE lo == t.sec.lo
           n == t.sec.n
           d == t.depth
<1>4. i \in Covers(t)
  BY DEF Covers
<1>5. lo \in Covers(t)
  <2>1. Covers(t) = lo .. lo + n - 1 /\ lo \in Int /\ n \in Nat
    BY <1>2
  <2> HIDE DEF lo, n
  <2>2. i \in lo .. lo + n - 1
    BY ONLY <2>1, <1>4
  <2>3. lo \in lo .. lo + n - 1
    BY ONLY <2>1, <2>2
  <2> QED BY ONLY <2>1, <2>3
<1> HIDE DEF lo, n, d
<1>6. /\ arr[t.sec.flip][lo] = V[lo] /\ arr[t.sec.flip][i] = V[i]
      /\ V[lo] \in CStrings /\ V[i] \in CStrings /\ d \in Nat /\ Share(V[lo], V[i], d)
  BY <1>3, <1>4, <1>5 DEF Sharing, d
<1>7. LcpFrom(0, V[lo], V[i]) >= d /\ d <= Len(V[i]) /\ Len(V[i]) \in Nat
  BY ONLY <1>6, ShareLcp DEF CStrings
<1>8. Len(V[i]) >= d
  BY ONLY <1>6, <1>7
<1> QED BY ONLY <1>6, <1>7, <1>8 DEF lo, d

(* For every recursion that the two loops can build up and every part of   *)
(* it given away: the depth, the cached keys and the size of the cache     *)
(* that a frame or a job counts on are right, and no quicksort frame is    *)
(* left, or passed over, while the sample sort has one.                    *)
THEOREM FramesSoundCorrect == Spec => []FramesSound
<1>1. ASSUME JobInv PROVE FramesSound
  <2>1. PICK V : Holds(V)
    BY <1>1, HoldsIs
  <2>2. ASSUME NEW x \in SampleRest
        PROVE  /\ ~EqualAndDone(ss[x[1]], x[2])
                    => PrefixShared(Bucket(ss[x[1]], x[2]), BucketDepth(ss[x[1]], x[2]))
               /\ Bucket(ss[x[1]], x[2]).n <= room
    <3>1. PICK t \in Items : t = BucketItem(x[1], ss[x[1]], x[2])
      BY ItemsAre
    <3>2. /\ t.sec = Bucket(ss[x[1]], x[2]) /\ (t.done <=> EqualAndDone(ss[x[1]], x[2]))
          /\ t.depth = BucketDepth(ss[x[1]], x[2]) /\ t.room = Bucket(ss[x[1]], x[2]).n
      BY <3>1, BucketItemIs
    <3>3. t.room <= room
      BY <2>1, <3>1 DEF Holds, Truth, ItemTrue
    <3>4. ~t.done => PrefixShared(t.sec, t.depth)
      BY <2>1, <3>1, ItemShares
    <3> QED BY ONLY <3>2, <3>3, <3>4
  <2>3. ASSUME NEW x \in QuickRest
        PROVE  /\ ~PivotDone(ms[x[1]], x[2])
                    => PrefixShared(PartSection(ms[x[1]], x[2]), PartDepth(ms[x[1]], x[2]))
               /\ \A i \in Positions(PartSection(ms[x[1]], x[2])) :
                    cache[i] = KeyAt(arr[ms[x[1]].flip][i], ms[x[1]].depth)
               /\ KeyCells * PartSection(ms[x[1]], x[2]).n <= room
    <3> DEFINE f == ms[x[1]]
               p == x[2]
    <3>1. PICK t \in Items : t = PartItem(x[1], f, p)
      BY <1>1, ItemsAre, FramesIdx
    <3>2. p \in 1 .. 3
      BY DEF QuickRest
    <3>3. /\ t.sec = PartSection(f, p) /\ (t.done <=> PivotDone(f, p))
          /\ t.depth = PartDepth(f, p) /\ t.room = KeyCells * PartSection(f, p).n
          /\ t.cached = {f.depth} /\ t.sec.flip = f.flip
      BY <3>1, <3>2, PartItemIs
    <3> HIDE DEF f, p
    <3>4. ItemTrue(V, Index, arr, cache, room, t)
      BY <2>1, <3>1 DEF Holds, Truth
    <3>5. t.room <= room
      BY <3>4 DEF ItemTrue
    <3>6. ~t.done => PrefixShared(t.sec, t.depth)
      BY <2>1, <3>1, ItemShares
    <3>7. \A i \in Positions(PartSection(f, p)) : cache[i] = KeyAt(arr[f.flip][i], f.depth)
      <4>1. \A d \in t.cached : \A i \in Covers(t) : cache[i] = KeyAt(V[i], d)
        BY <3>4 DEF ItemTrue
      <4>2. \A i \in Covers(t) : arr[t.sec.flip][i] = V[i]
        BY <3>4 DEF ItemTrue
      <4>3. \A i \in Covers(t) : cache[i] = KeyAt(V[i], f.depth)
        BY <3>3, <4>1
      <4> QED BY ONLY <3>3, <4>2, <4>3 DEF Covers
    <3>8. KeyCells * PartSection(f, p).n <= room
      BY ONLY <3>3, <3>5
    <3>9. ~PivotDone(f, p) => PrefixShared(PartSection(f, p), PartDepth(f, p))
      BY ONLY <3>3, <3>6
    <3> QED BY ONLY <3>7, <3>8, <3>9 DEF f, p
  <2>4. ASSUME NEW c \in subs PROVE PrefixShared(c.sec, c.depth)
    <3>1. JobItem(c) \in Items /\ JobItem(c).sec = c.sec /\ ~JobItem(c).done /\ JobItem(c).depth = c.depth
      BY ItemsAre, JobItemIs
    <3>2. PrefixShared(JobItem(c).sec, JobItem(c).depth)
      BY <2>1, <3>1, ItemShares
    <3> QED BY ONLY <3>1, <3>2
  <2>5. pc = "ss" /\ Len(ss) > ssFront => ms = <<>> /\ msFront = 0
    <3> SUFFICES ASSUME pc = "ss", Len(ss) > ssFront PROVE ms = <<>> /\ msFront = 0
      OBVIOUS
    <3>1. msFront = 0 /\ Len(ms) = 0 /\ IsStack("ms", ms)
      BY <1>1 DEF JobInv, Stacks
    <3>2. PICK S : ms \in Seq(S)
      BY <3>1 DEF IsStack
    <3> QED BY <3>1, <3>2, EmptySeq
  <2> QED BY ONLY <2>2, <2>3, <2>4, <2>5 DEF FramesSound, PrefixShared
<1> QED BY <1>1, JobInvCorrect, PTL

(* A string that nothing is left to be done with is where it is to be.     *)
LEMMA HomeForGood ==
  ASSUME NEW V, Holds(V), input \in Inputs, NEW i \in Index, \A t \in Items : i \notin Covers(t)
  PROVE  Output(class, arr)[i] = Sorted[i + 1]
<1> DEFINE n == Len(input.strings)
           seq == input.strings
           h == [k \in Index |-> input.strings[k + 1]]
<1>1. /\ n \in Nat /\ DOMAIN seq = 1 .. n /\ \A k \in 1 .. n : seq[k] \in CStrings
      /\ Index = 0 .. n - 1
  BY InputIs
<1>2. \A k \in 0 .. n - 1 : h[k] = seq[k + 1]
  BY <1>1
<1>3. Permuted(h, V, 0 .. n - 1)
  BY <1>1 DEF Holds, Arranged
<1>4. \A j \in Index : /\ j < i => AtMost(V[j], V[i])
                       /\ i < j => AtMost(V[i], V[j])
  <2>1. \A j \in Index : ~Together(Items, i, j) /\ ~Together(Items, j, i)
    BY DEF Together
  <2> QED BY <2>1 DEF Holds, Truth
<1>5. arr[class.out][i] = V[i]
  BY DEF Holds, Truth
<1> HIDE DEF n, seq, h
<1>6. V[i] = SortedFrom(0, seq)[i + 1]
  <2>1. i \in 0 .. n - 1
    BY <1>1
  <2>2. \A j \in 0 .. n - 1 : j < i => AtMost(V[j], V[i])
    BY ONLY <1>1, <1>4
  <2>3. \A j \in 0 .. n - 1 : i < j => AtMost(V[i], V[j])
    BY ONLY <1>1, <1>4
  <2> QED BY ONLY <1>1, <1>2, <1>3, <2>1, <2>2, <2>3, FinalPlace
<1> QED BY <1>5, <1>6 DEF Output, Sorted, seq

(* How the model names an item. *)
Named(t) == <<t.kind, IF t.kind = "job" THEN t.frame ELSE <<t.frame, t.part>>, t.sec>>

LEMMA PendingIs ==
  ASSUME JobInv, pc # "start"
  PROVE  /\ \A x \in Pending : \E t \in Items : x = Named(t)
         /\ \A t \in Items : Named(t) \in Pending
<1>1. ASSUME NEW x \in Pending PROVE \E t \in Items : x = Named(t)
  <2>1. CASE \E y \in SampleRest : x = <<"ss", y, Bucket(ss[y[1]], y[2])>>
    <3>1. PICK y \in SampleRest : x = <<"ss", y, Bucket(ss[y[1]], y[2])>>
      BY <2>1
    <3>2. PICK t \in Items : t = BucketItem(y[1], ss[y[1]], y[2])
      BY ItemsAre
    <3>3. t.kind = "ss" /\ t.frame = y[1] /\ t.part = y[2] /\ t.sec = Bucket(ss[y[1]], y[2])
      BY <3>2, BucketItemIs
    <3>4. y = <<y[1], y[2]>>
      BY DEF SampleRest
    <3> QED BY <3>1, <3>2, <3>3, <3>4 DEF Named
  <2>2. CASE \E y \in QuickRest : x = <<"ms", y, PartSection(ms[y[1]], y[2])>>
    <3>1. PICK y \in QuickRest : x = <<"ms", y, PartSection(ms[y[1]], y[2])>>
      BY <2>2
    <3>2. PICK t \in Items : t = PartItem(y[1], ms[y[1]], y[2])
      BY ItemsAre, FramesIdx
    <3>3. y[2] \in 1 .. 3 /\ y = <<y[1], y[2]>>
      BY DEF QuickRest
    <3>4. t.kind = "ms" /\ t.frame = y[1] /\ t.part = y[2] /\ t.sec = PartSection(ms[y[1]], y[2])
      BY <3>2, <3>3, PartItemIs
    <3> QED BY <3>1, <3>2, <3>3, <3>4 DEF Named
  <2>3. CASE \E c \in subs : x = <<"job", c, c.sec>>
    <3>1. PICK c \in subs : x = <<"job", c, c.sec>>
      BY <2>3
    <3>2. JobItem(c) \in Items /\ JobItem(c).kind = "job" /\ JobItem(c).frame = c
            /\ JobItem(c).sec = c.sec
      BY ItemsAre, JobItemIs
    <3> QED BY <3>1, <3>2 DEF Named
  <2> QED BY <2>1, <2>2, <2>3 DEF Pending
<1>2. ASSUME NEW t \in Items PROVE Named(t) \in Pending
  <2>1. WholeItems(pc) = {}
    BY DEF WholeItems
  <2>2. CASE t \in StackItems("ss", ss, ssFront)
    <3>1. PICK k \in ssFront + 1 .. Len(ss) : t \in BucketItems(k, ss[k])
      BY <2>2 DEF StackItems, FrameItems
    <3>2. PICK b \in ss[k].idx .. BktNum - 1 : t = BucketItem(k, ss[k], b)
      BY <3>1 DEF BucketItems
    <3>3. t.kind = "ss" /\ t.frame = k /\ t.part = b /\ t.sec = Bucket(ss[k], b)
      BY <3>2, BucketItemIs
    <3>4. PICK y : y = <<k, b>>
      OBVIOUS
    <3>5. y[1] = k /\ y[2] = b
      BY <3>4
    <3>6. y \in SampleRest
      <4>1. ss[k].idx \in 0 .. BktNum
        <5>1. IsStack("ss", ss) /\ ssFront \in Nat /\ Len(ss) \in Nat
          BY StackLen DEF JobInv, Stacks
        <5>2. k \in 1 .. Len(ss)
          BY <5>1
        <5>3. SampleFrame(ss[k])
          BY ONLY <5>1, <5>2 DEF IsStack, FrameOk
        <5> QED BY ONLY <5>3 DEF SampleFrame
      <4>2. b \in 0 .. BktNum - 1 /\ b >= ss[k].idx
        BY <4>1, BktNumIs
      <4>3. y \in (ssFront + 1 .. Len(ss)) \X (0 .. BktNum - 1)
        BY <3>4, <4>2
      <4> QED BY <3>5, <4>2, <4>3 DEF SampleRest
    <3>7. Named(t) = <<"ss", y, Bucket(ss[y[1]], y[2])>>
      BY <3>3, <3>4, <3>5 DEF Named
    <3> QED BY <3>6, <3>7 DEF Pending
  <2>3. CASE t \in StackItems("ms", ms, msFront)
    <3>1. PICK k \in msFront + 1 .. Len(ms) : t \in PartItems(k, ms[k])
      BY <2>3 DEF StackItems, FrameItems
    <3>2. PICK p \in ms[k].idx + 1 .. 3 : t = PartItem(k, ms[k], p)
      BY <3>1 DEF PartItems
    <3>3. ms[k].idx \in Nat
      BY FramesIdx
    <3>4. p \in 1 .. 3 /\ p > ms[k].idx
      BY <3>3
    <3>5. t.kind = "ms" /\ t.frame = k /\ t.part = p /\ t.sec = PartSection(ms[k], p)
      BY <3>2, <3>4, PartItemIs
    <3>6. PICK y : y = <<k, p>>
      OBVIOUS
    <3>7. y[1] = k /\ y[2] = p
      BY <3>6
    <3>8. y \in (msFront + 1 .. Len(ms)) \X (1 .. 3)
      BY <3>4, <3>6
    <3>9. y \in QuickRest
      BY <3>4, <3>7, <3>8 DEF QuickRest
    <3>10. Named(t) = <<"ms", y, PartSection(ms[y[1]], y[2])>>
      BY <3>5, <3>6, <3>7 DEF Named
    <3> QED BY <3>9, <3>10 DEF Pending
  <2>4. CASE t \in JobItems(subs)
    <3>1. PICK c \in subs : t = JobItem(c)
      BY <2>4 DEF JobItems
    <3>2. t.kind = "job" /\ t.frame = c /\ t.sec = c.sec
      BY <3>1, JobItemIs
    <3>3. Named(t) = <<"job", c, c.sec>>
      BY <3>2 DEF Named
    <3> QED BY <3>3 DEF Pending
  <2> QED BY <2>1, <2>2, <2>3, <2>4 DEF Items, AllItems
<1> QED BY <1>1, <1>2

(* Of every set of strings, and however it is shared out among frames and  *)
(* jobs: a string belongs to exactly one of them, which finds it in its    *)
(* array, or it is in its final place and belongs to none.                 *)
THEOREM OwnedOnceCorrect == Spec => []OwnedOnce
<1>1. ASSUME JobInv PROVE OwnedOnce
  <2> SUFFICES ASSUME pc # "start", NEW i \in Index
               PROVE  LET owners == {x \in Pending : i \in Positions(x[3])}
                      IN  \/ owners = {} /\ Output(class, arr)[i] = Sorted[i + 1]
                          \/ \E x \in owners : owners = {x} /\ Active(arr, x[3])[i] # Moved
    BY DEF OwnedOnce
  <2> DEFINE owners == {x \in Pending : i \in Positions(x[3])}
  <2>1. PICK V : Holds(V)
    BY <1>1, HoldsIs
  <2>2. input \in Inputs
    BY <1>1 DEF JobInv, Alive
  <2>3. \A t : Named(t)[3] = t.sec
    BY DEF Named
  <2>4. \A x \in owners : \E t \in Items : x = Named(t) /\ i \in Covers(t)
    BY <1>1, <2>3, PendingIs DEF Covers
  <2>5. CASE \A t \in Items : i \notin Covers(t)
    <3>1. owners = {}
      BY <2>4, <2>5
    <3>2. Output(class, arr)[i] = Sorted[i + 1]
      BY <2>1, <2>2, <2>5, HomeForGood
    <3> QED BY <3>1, <3>2
  <2>6. CASE \E t \in Items : i \in Covers(t)
    <3>1. PICK t \in Items : i \in Covers(t)
      BY <2>6
    <3>2. Named(t) \in owners
      BY <1>1, <2>3, <3>1, PendingIs DEF Covers
    <3>3. \A u \in Items : i \in Covers(u) => u = t
      BY <2>1, <3>1 DEF Holds, Truth
    <3>4. owners = {Named(t)}
      BY <2>4, <3>2, <3>3
    <3>5. arr[t.sec.flip][i] = V[i] /\ V[i] \in CStrings
      BY <2>1, <3>1 DEF Holds, Truth, ItemTrue
    <3>6. V[i] # Moved
      BY <3>5, SmallsortAssumption DEF CStrings
    <3>7. Active(arr, Named(t)[3])[i] # Moved
      BY <2>3, <3>5, <3>6 DEF Active
    <3> QED BY <3>2, <3>4, <3>7
  <2> QED BY <2>5, <2>6
<1> QED BY <1>1, JobInvCorrect, PTL

(* When the parent step is notified, the output array holds the strings    *)
(* of the input, all of them, in order: every string of every position.    *)
THEOREM JobSorts == Spec => [](told > 0 => \A i \in Index : Output(class, arr)[i] = Sorted[i + 1])
<1>1. ASSUME JobInv, told > 0 PROVE \A i \in Index : Output(class, arr)[i] = Sorted[i + 1]
  <2>1. PICK V : Holds(V)
    BY <1>1, HoldsIs
  <2>2. input \in Inputs
    BY <1>1 DEF JobInv, Alive
  <2>3. pc = "deleted"
    BY <1>1 DEF JobInv, Alive
  <2>4. Items = {}
    <3>1. Stacks /\ IsFiniteSet(subs) /\ HandlesExact
      BY <1>1 DEF JobInv, Handles
    <3>2. StackItems("ss", ss, ssFront) = {} /\ StackItems("ms", ms, msFront) = {}
      BY <2>3, <3>1, NothingOnStack DEF Stacks
    <3>3. subs = {}
      <4>1. substeps = Cardinality(subs) + 0 /\ substeps = 0
        BY <2>3, <3>1 DEF HandlesExact
      <4>2. Cardinality(subs) \in Nat
        BY <3>1, FS_CardinalityType
      <4>3. Cardinality(subs) = 0
        BY ONLY <4>1, <4>2
      <4> QED BY <3>1, <4>3, FS_EmptySet
    <3>4. JobItems(subs) = {} /\ WholeItems(pc) = {}
      BY <2>3, <3>3 DEF JobItems, WholeItems
    <3> QED BY <3>2, <3>4 DEF Items, AllItems
  <2> QED BY <2>1, <2>2, <2>4, HomeForGood
<1> QED BY <1>1, JobInvCorrect, PTL
=============================================================================
