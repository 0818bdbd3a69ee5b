-------------------------------- MODULE Sums --------------------------------
(***************************************************************************)
(* Facts about numbers, about sums over finite sets (SumFunctionOnSet) and *)
(* other folds, about functions defined by recursion over numbers, and     *)
(* the induction they rest on: what is to be shown for every number,       *)
(* or every subset, is a set of numbers, or of subsets, and a least        *)
(* element outside of it contradicts the step.                             *)
(***************************************************************************)
EXTENDS Integers, FiniteSetsExt, Functions, FiniteSetTheorems, WellFoundedInduction, TLAPS

(* A set of numbers with zero and every successor has all of them. *)
LEMMA NatInd ==
  ASSUME NEW P \in SUBSET Nat, 0 \in P, \A n \in P : n + 1 \in P
  PROVE  P = Nat
<1> SUFFICES ASSUME Nat \ P # {} PROVE FALSE
  OBVIOUS
<1>1. PICK n \in Nat \ P : \A m \in Nat \ P : ~ (<<m, n>> \in OpToRel(<, Nat))
  <2> HIDE DEF OpToRel, IsWellFoundedOn
  <2>1. Nat \ P \subseteq Nat
    OBVIOUS
  <2> QED BY <2>1, NatLessThanWellFounded, WFMin
<1>2. n - 1 \in Nat \ P
  OBVIOUS
<1>3. <<n - 1, n>> \in OpToRel(<, Nat)
  BY DEF OpToRel
<1> QED BY <1>1, <1>2, <1>3

(* A family of sets that has every subset of a finite set S as soon as it  *)
(* has those with one element less has S.                                  *)
LEMMA SetInd ==
  ASSUME NEW S, IsFiniteSet(S), NEW P,
         \A T \in SUBSET S : (\A x \in T : T \ {x} \in P) => T \in P
  PROVE  S \in P
<1> DEFINE N == {n \in Nat : \A T \in SUBSET S : Cardinality(T) = n => T \in P}
<1>1. 0 \in N
  <2> SUFFICES ASSUME NEW T \in SUBSET S, Cardinality(T) = 0 PROVE T \in P
    OBVIOUS
  <2> QED BY FS_Subset, FS_EmptySet
<1>2. \A n \in N : n + 1 \in N
  <2> SUFFICES ASSUME NEW n \in N, NEW T \in SUBSET S, Cardinality(T) = n + 1 PROVE T \in P
    OBVIOUS
  <2>1. IsFiniteSet(T) /\ n \in Nat
    BY FS_Subset
  <2>2. ASSUME NEW x \in T PROVE T \ {x} \in P
    <3>1. Cardinality(T \ {x}) = Cardinality(T) - 1
      BY <2>1, FS_RemoveElement
    <3>2. T \ {x} \in SUBSET S /\ Cardinality(T \ {x}) = n
      BY <2>1, <3>1
    <3> QED BY <3>2
  <2> QED BY <2>2
<1>3. N = Nat
  <2> HIDE DEF N
  <2>1. N \in SUBSET Nat
    BY DEF N
  <2> QED BY <1>1, <1>2, <2>1, NatInd
<1>4. Cardinality(S) \in Nat /\ S \in SUBSET S
  BY FS_CardinalityType
<1> QED BY <1>3, <1>4

LEMMA Quotient ==
  \A n \in Nat, m \in Nat \ {0} :
    n \div m \in Nat /\ (n \div m) * m <= n /\ n < (n \div m) * m + m
  OBVIOUS

LEMMA Multiples ==
  ASSUME NEW p \in Nat, NEW q \in Nat, NEW s \in Nat, p < q
  PROVE  (p + 1) * s <= q * s
  OBVIOUS

(* What makes a number the quotient. *)
LEMMA QuotientIs ==
  ASSUME NEW n \in Nat, NEW m \in Nat \ {0}, NEW k \in Nat, k * m <= n, n < k * m + m
  PROVE  n \div m = k
<1> DEFINE q == n \div m
           a == q * m
           b == k * m
<1>1. q \in Nat /\ a \in Nat /\ a <= n /\ n < a + m /\ b \in Nat /\ b <= n /\ n < b + m
  BY Quotient
<1>2. (q + 1) * m = a + m /\ (k + 1) * m = b + m
  BY <1>1
<1>3. q < k => (q + 1) * m <= b
  BY <1>1, Multiples
<1>4. k < q => (k + 1) * m <= a
  BY <1>1, Multiples
<1> HIDE DEF q, a, b
<1>5. q = k
  BY <1>1, <1>2, <1>3, <1>4
<1> QED BY <1>5 DEF q

(* Division is monotonic. *)
LEMMA QuotientMonotonic ==
  ASSUME NEW n \in Nat, NEW k \in Nat, NEW m \in Nat \ {0}, n <= k
  PROVE  n \div m <= k \div m
<1> DEFINE q == n \div m
           r == k \div m
           a == q * m
           b == r * m
<1>1. /\ q \in Nat /\ r \in Nat /\ a \in Nat /\ b \in Nat
      /\ a <= n /\ k < b + m
  BY Quotient
<1>2. (r + 1) * m = b + m
  BY <1>1
<1>3. r < q => (r + 1) * m <= a
  BY <1>1, Multiples
<1> HIDE DEF q, r, a, b
<1>4. q <= r
  BY <1>1, <1>2, <1>3
<1> QED BY <1>4 DEF q, r

(* To divide twice is to divide by the product. *)
LEMMA QuotientTwice ==
  ASSUME NEW n \in Nat, NEW m \in Nat \ {0}, NEW c \in Nat \ {0}
  PROVE  (n \div m) \div c = n \div (c * m)
<1> DEFINE q == n \div m
           r == q \div c
<1>1. q \in Nat /\ q * m <= n /\ n < q * m + m
  BY Quotient
<1>2. r \in Nat /\ r * c <= q /\ q < r * c + c
  BY <1>1, Quotient
<1> HIDE DEF q, r
<1>3. c * m \in Nat \ {0} /\ r * c \in Nat /\ (r * c) * m = r * (c * m)
  BY <1>2
<1>4. (r * c) * m <= q * m
  <2>1. CASE r * c = q
    BY <1>1, <2>1
  <2>2. CASE r * c < q
    <3>1. (r * c + 1) * m <= q * m
      BY <1>1, <1>3, <2>2, Multiples
    <3>2. (r * c + 1) * m = (r * c) * m + m
      BY <1>3
    <3>3. (r * c) * m \in Nat /\ q * m \in Nat
      BY <1>1, <1>3
    <3> QED BY <3>1, <3>2, <3>3
  <2> QED BY <1>1, <1>2, <1>3, <2>1, <2>2
<1>5. q * m + m <= (r * c) * m + c * m
  <2>1. r * c + c \in Nat
    BY <1>3
  <2>2. (q + 1) * m <= (r * c + c) * m
    BY <1>1, <1>2, <2>1, Multiples
  <2>3. (q + 1) * m = q * m + m
    BY <1>1
  <2>4. (r * c + c) * m = (r * c) * m + c * m
    BY <1>3
  <2> QED BY <2>2, <2>3, <2>4
<1>6. r * (c * m) <= n /\ n < r * (c * m) + c * m
  <2>1. q * m \in Nat /\ (r * c) * m \in Nat /\ c * m \in Nat
    BY <1>1, <1>3
  <2> QED BY <1>1, <1>3, <1>4, <1>5, <2>1
<1>7. n \div (c * m) = r
  BY <1>2, <1>3, <1>6, QuotientIs
<1> QED BY <1>7 DEF q, r

(* A set of the numbers below n that has with every number all below it. *)
LEMMA InitialSegment ==
  ASSUME NEW n \in Nat, NEW S \in SUBSET (0 .. n - 1), \A i \in S : 0 .. i \subseteq S
  PROVE  S = 0 .. Cardinality(S) - 1 /\ Cardinality(S) \in 0 .. n
<1> DEFINE Q == {k \in Nat : k <= n => \E m \in 0 .. k : S \cap (0 .. k - 1) = 0 .. m - 1}
<1>1. 0 \in Q
  OBVIOUS
<1>2. \A k \in Q : k + 1 \in Q
  <2> SUFFICES ASSUME NEW k \in Nat, k + 1 <= n, NEW m \in 0 .. k,
                      S \cap (0 .. k - 1) = 0 .. m - 1
               PROVE  \E l \in 0 .. k + 1 : S \cap (0 .. k + 1 - 1) = 0 .. l - 1
    OBVIOUS
  <2>1. CASE k \in S
    <3>1. S \cap (0 .. k + 1 - 1) = 0 .. (k + 1) - 1
      BY <2>1
    <3> QED BY <3>1
  <2>2. CASE k \notin S
    <3>1. S \cap (0 .. k + 1 - 1) = 0 .. m - 1
      BY <2>2
    <3> QED BY <3>1
  <2> QED BY <2>1, <2>2
<1>3. Q = Nat
  <2> HIDE DEF Q
  <2>1. Q \in SUBSET Nat
    BY DEF Q
  <2> QED BY <1>1, <1>2, <2>1, NatInd
<1>4. PICK m \in 0 .. n : S \cap (0 .. n - 1) = 0 .. m - 1
  <2>1. n \in Q
    <3> HIDE DEF Q
    <3> QED BY <1>3
  <2> QED BY <2>1
<1>5. S = 0 .. m - 1
  BY <1>4
<1>6. Cardinality(0 .. m - 1) = m
  BY <1>4, FS_Interval
<1> QED BY <1>4, <1>5, <1>6

(* The elements of a finite set in a strict order, P[x] being those before *)
(* x: their numbers of predecessors are all different, and all numbers     *)
(* below that of the elements.                                             *)
LEMMA RanksFill ==
  ASSUME NEW S, IsFiniteSet(S), NEW P, DOMAIN P = S,
         \A x \in S : P[x] \in SUBSET S /\ x \notin P[x],
         \A x, y \in S : y \in P[x] => P[y] \in SUBSET P[x],
         \A x, y \in S : x = y \/ y \in P[x] \/ x \in P[y]
  PROVE  /\ \A x \in S : Cardinality(P[x]) \in 0 .. Cardinality(S) - 1
         /\ \A x, y \in S : y \in P[x] <=> Cardinality(P[y]) < Cardinality(P[x])
         /\ \A x, y \in S : Cardinality(P[x]) = Cardinality(P[y]) => x = y
         /\ \A r \in 0 .. Cardinality(S) - 1 : \E x \in S : Cardinality(P[x]) = r
<1>0. Cardinality(S) \in Nat
  BY FS_CardinalityType
<1>1. ASSUME NEW T \in SUBSET S, NEW U \in SUBSET T, NEW x \in T, x \notin U
      PROVE  Cardinality(U) \in Nat /\ Cardinality(T) \in Nat /\ Cardinality(U) < Cardinality(T)
  <2>1. IsFiniteSet(T) /\ IsFiniteSet(U)
    BY FS_Subset
  <2>2. Cardinality(T) \in Nat /\ Cardinality(U) \in Nat
    BY <2>1, FS_CardinalityType
  <2>3. Cardinality(U) <= Cardinality(T) /\ (Cardinality(T) = Cardinality(U) => T = U)
    BY <2>1, FS_Subset
  <2> QED BY <1>1, <2>2, <2>3
<1>2. \A x \in S : Cardinality(P[x]) \in 0 .. Cardinality(S) - 1
  <2> SUFFICES ASSUME NEW x \in S PROVE Cardinality(P[x]) \in 0 .. Cardinality(S) - 1
    OBVIOUS
  <2>1. Cardinality(P[x]) \in Nat /\ Cardinality(P[x]) < Cardinality(S)
    BY <1>1
  <2> QED BY <1>0, <2>1
<1>3. \A x, y \in S : y \in P[x] => Cardinality(P[y]) < Cardinality(P[x])
  <2> SUFFICES ASSUME NEW x \in S, NEW y \in S, y \in P[x]
               PROVE  Cardinality(P[y]) < Cardinality(P[x])
    OBVIOUS
  <2> QED BY <1>1
<1>4. \A x, y \in S : /\ y \in P[x] <=> Cardinality(P[y]) < Cardinality(P[x])
                      /\ Cardinality(P[x]) = Cardinality(P[y]) => x = y
  <2> SUFFICES ASSUME NEW x \in S, NEW y \in S
               PROVE  /\ y \in P[x] <=> Cardinality(P[y]) < Cardinality(P[x])
                      /\ Cardinality(P[x]) = Cardinality(P[y]) => x = y
    OBVIOUS
  <2>1. Cardinality(P[x]) \in Int /\ Cardinality(P[y]) \in Int
    BY <1>2
  <2>2. /\ y \in P[x] => Cardinality(P[y]) < Cardinality(P[x])
        /\ x \in P[y] => Cardinality(P[x]) < Cardinality(P[y])
    BY <1>3
  <2> QED BY <2>1, <2>2
<1>5. \A r \in 0 .. Cardinality(S) - 1 : \E x \in S : Cardinality(P[x]) = r
  <2> DEFINE f == [x \in S |-> Cardinality(P[x])]
             T == 0 .. Cardinality(S) - 1
  <2>1. f \in [S -> T] /\ \A x, y \in S : f[x] = f[y] => x = y
    BY <1>2, <1>4
  <2>2. IsFiniteSet(T) /\ Cardinality(T) = Cardinality(S)
    BY <1>0, FS_Interval
  <2> HIDE DEF f, T
  <2>3. f \in Injection(S, T)
    BY <2>1 DEF Injection, IsInjective
  <2>4. f \in Surjection(S, T)
    BY <2>2, <2>3, FS_Injection
  <2>5. \A r \in T : \E x \in S : f[x] = r
    BY <2>4 DEF Surjection
  <2> QED BY <2>5 DEF f, T
<1> QED BY <1>2, <1>4, <1>5

-----------------------------------------------------------------------------
(* An element of a set that the folds take first. *)
Pick(T) == CHOOSE x \in T : TRUE

(* A function on the subsets of S that sums as the folds do. *)
SumsUp(g, f, S) ==
  g = [T \in SUBSET S |-> IF T = {} THEN 0 ELSE f[Pick(T)] + g[T \ {Pick(T)}]]

(* The sum over a finite set is defined by its recursion.                  *)
LEMMA SumExists ==
  ASSUME NEW S, IsFiniteSet(S), NEW f, \A x \in S : f[x] \in Int
  PROVE  \E g : SumsUp(g, f, S)
<1> DEFINE Up(g, n) == \A T \in SUBSET S : Cardinality(T) <= n =>
                         g[T] = IF T = {} THEN 0 ELSE f[Pick(T)] + g[T \ {Pick(T)}]
           N == {n \in Nat : \E g \in [SUBSET S -> Int] : Up(g, n)}
<1>0. ASSUME NEW T \in SUBSET S
      PROVE  /\ IsFiniteSet(T) /\ Cardinality(T) \in Nat
             /\ T # {} => /\ Pick(T) \in T /\ f[Pick(T)] \in Int
                          /\ T \ {Pick(T)} \in SUBSET S
                          /\ Cardinality(T \ {Pick(T)}) = Cardinality(T) - 1
             /\ Cardinality(T) = 0 <=> T = {}
  <2>1. IsFiniteSet(T) /\ Cardinality(T) \in Nat /\ (Cardinality(T) = 0 <=> T = {})
    BY FS_Subset, FS_CardinalityType, FS_EmptySet
  <2>2. T # {} => Pick(T) \in T
    BY DEF Pick
  <2>3. T # {} => Cardinality(T \ {Pick(T)}) = Cardinality(T) - 1
    BY <2>1, <2>2, FS_RemoveElement
  <2> QED BY <2>1, <2>2, <2>3
<1>1. 0 \in N
  <2>1. [T \in SUBSET S |-> 0] \in [SUBSET S -> Int]
    OBVIOUS
  <2>2. Up([T \in SUBSET S |-> 0], 0)
    <3> SUFFICES ASSUME NEW T \in SUBSET S, Cardinality(T) <= 0 PROVE T = {}
      OBVIOUS
    <3>1. Cardinality(T) \in Nat /\ (Cardinality(T) = 0 <=> T = {})
      BY <1>0
    <3> QED BY <3>1
  <2> QED BY <2>1, <2>2
<1>2. \A n \in N : n + 1 \in N
  <2> SUFFICES ASSUME NEW n \in N PROVE n + 1 \in N
    OBVIOUS
  <2>1. PICK g \in [SUBSET S -> Int] : Up(g, n)
    OBVIOUS
  <2>2. n \in Nat
    OBVIOUS
  <2> DEFINE h == [T \in SUBSET S |->
                     IF Cardinality(T) <= n THEN g[T]
                     ELSE IF T = {} THEN 0 ELSE f[Pick(T)] + g[T \ {Pick(T)}]]
  <2>3. h \in [SUBSET S -> Int]
    <3> SUFFICES ASSUME NEW T \in SUBSET S
                 PROVE  (IF Cardinality(T) <= n THEN g[T]
                         ELSE IF T = {} THEN 0 ELSE f[Pick(T)] + g[T \ {Pick(T)}]) \in Int
      OBVIOUS
    <3> QED BY <1>0
  <2>4. Up(h, n + 1)
    <3> SUFFICES ASSUME NEW T \in SUBSET S, Cardinality(T) <= n + 1
                 PROVE  h[T] = IF T = {} THEN 0 ELSE f[Pick(T)] + h[T \ {Pick(T)}]
      OBVIOUS
    <3>1. CASE T = {}
      BY <1>0, <2>1, <2>2, <3>1
    <3>2. CASE T # {}
      <4>1. h[T \ {Pick(T)}] = g[T \ {Pick(T)}]
        BY <1>0, <2>2, <3>2
      <4>2. h[T] = f[Pick(T)] + g[T \ {Pick(T)}]
        BY <1>0, <2>1, <2>2, <3>2
      <4> QED BY <3>2, <4>1, <4>2
    <3> QED BY <3>1, <3>2
  <2>5. n + 1 \in Nat
    BY <2>2
  <2> HIDE DEF h, Up
  <2> QED BY <2>3, <2>4, <2>5
<1>3. N = Nat
  <2> HIDE DEF N
  <2>1. N \in SUBSET Nat
    BY DEF N
  <2> QED BY <1>1, <1>2, <2>1, NatInd
<1>4. Cardinality(S) \in N
  BY <1>3, FS_CardinalityType
<1>5. PICK g \in [SUBSET S -> Int] : Up(g, Cardinality(S))
  BY <1>4
<1>6. ASSUME NEW T \in SUBSET S
      PROVE  g[T] = IF T = {} THEN 0 ELSE f[Pick(T)] + g[T \ {Pick(T)}]
  BY <1>5, FS_Subset
<1> QED BY <1>5, <1>6 DEF SumsUp

LEMMA SumUnfold ==
  ASSUME NEW S, IsFiniteSet(S), NEW f, \A x \in S : f[x] \in Int
  PROVE  \E g : SumsUp(g, f, S) /\ SumFunctionOnSet(f, S) = g[S]
<1> DEFINE it == CHOOSE g : SumsUp(g, f, S)
<1>1. SumsUp(it, f, S)
  BY SumExists
<1>2. SumFunctionOnSet(f, S) = it[S]
  BY DEF SumFunctionOnSet, FoldFunctionOnSet, MapThenFoldSet, SumsUp, Pick
<1> QED BY <1>1, <1>2

(* Such functions agree wherever what they sum does. *)
LEMMA SumsUpAgree ==
  ASSUME NEW S, IsFiniteSet(S), NEW f, NEW g, SumsUp(g, f, S),
         NEW T \in SUBSET S, NEW e, NEW h, SumsUp(h, e, T),
         \A x \in T : e[x] = f[x]
  PROVE  h[T] = g[T]
<1> DEFINE P == {U \in SUBSET T : h[U] = g[U]}
<1>1. \A U \in SUBSET T : (\A x \in U : U \ {x} \in P) => U \in P
  <2> SUFFICES ASSUME NEW U \in SUBSET T, \A x \in U : U \ {x} \in P PROVE h[U] = g[U]
    OBVIOUS
  <2>1. CASE U = {}
    BY <2>1 DEF SumsUp
  <2>2. CASE U # {}
    <3>1. Pick(U) \in U
      BY <2>2 DEF Pick
    <3>2. g[U] = f[Pick(U)] + g[U \ {Pick(U)}] /\ h[U] = e[Pick(U)] + h[U \ {Pick(U)}]
      BY <2>2 DEF SumsUp
    <3> QED BY <3>1, <3>2
  <2> QED BY <2>1, <2>2
<1>2. IsFiniteSet(T)
  BY FS_Subset
<1> HIDE DEF P
<1>3. T \in P
  BY <1>1, <1>2, SetInd
<1> QED BY <1>3 DEF P

(* One of them gives the sums over all subsets. *)
LEMMA SumUpTo ==
  ASSUME NEW S, IsFiniteSet(S), NEW f, \A x \in S : f[x] \in Int
  PROVE  \E g : SumsUp(g, f, S) /\ \A T \in SUBSET S : SumFunctionOnSet(f, T) = g[T]
<1>1. PICK g : SumsUp(g, f, S)
  BY SumUnfold
<1>2. ASSUME NEW T \in SUBSET S PROVE SumFunctionOnSet(f, T) = g[T]
  <2>1. IsFiniteSet(T) /\ \A x \in T : f[x] \in Int
    BY FS_Subset
  <2>2. PICK h : SumsUp(h, f, T) /\ SumFunctionOnSet(f, T) = h[T]
    BY <2>1, SumUnfold
  <2> QED BY <1>1, <2>2, SumsUpAgree
<1> QED BY <1>1, <1>2

-----------------------------------------------------------------------------
(* What the sum over a finite set is: nothing, or any one of its elements  *)
(* and the sum of the others.                                              *)
LEMMA SumEmpty ==
  ASSUME NEW f
  PROVE  SumFunctionOnSet(f, {}) = 0
<1>1. IsFiniteSet({})
  BY FS_EmptySet
<1>2. PICK g : SumsUp(g, f, {}) /\ SumFunctionOnSet(f, {}) = g[{}]
  BY <1>1, SumUnfold
<1> QED BY <1>2 DEF SumsUp

LEMMA SumInt ==
  ASSUME NEW S, IsFiniteSet(S), NEW f, \A x \in S : f[x] \in Int
  PROVE  SumFunctionOnSet(f, S) \in Int
<1>1. PICK g : SumsUp(g, f, S) /\ SumFunctionOnSet(f, S) = g[S]
  BY SumUnfold
<1> DEFINE P == {T \in SUBSET S : g[T] \in Int}
<1>2. \A T \in SUBSET S : (\A x \in T : T \ {x} \in P) => T \in P
  <2> SUFFICES ASSUME NEW T \in SUBSET S, \A x \in T : T \ {x} \in P PROVE g[T] \in Int
    OBVIOUS
  <2>1. CASE T = {}
    BY <1>1, <2>1 DEF SumsUp
  <2>2. CASE T # {}
    <3>1. Pick(T) \in T
      BY <2>2 DEF Pick
    <3>2. g[T] = f[Pick(T)] + g[T \ {Pick(T)}]
      BY <1>1, <2>2 DEF SumsUp
    <3> QED BY <3>1, <3>2
  <2> QED BY <2>1, <2>2
<1> HIDE DEF P
<1>3. S \in P
  BY <1>2, SetInd
<1> QED BY <1>1, <1>3 DEF P

LEMMA SumStep ==
  ASSUME NEW S, IsFiniteSet(S), NEW f, \A x \in S : f[x] \in Int, NEW x \in S
  PROVE  SumFunctionOnSet(f, S) = f[x] + SumFunctionOnSet(f, S \ {x})
<1>1. PICK g : SumsUp(g, f, S) /\ \A T \in SUBSET S : SumFunctionOnSet(f, T) = g[T]
  BY SumUpTo
<1> DEFINE P == {T \in SUBSET S : \A y \in T : g[T] = f[y] + g[T \ {y}]}
<1>2. \A T \in SUBSET S : g[T] \in Int
  BY <1>1, SumInt, FS_Subset
<1>3. \A T \in SUBSET S : (\A y \in T : T \ {y} \in P) => T \in P
  <2> SUFFICES ASSUME NEW T \in SUBSET S, \A y \in T : T \ {y} \in P, NEW y \in T
               PROVE  g[T] = f[y] + g[T \ {y}]
    OBVIOUS
  <2> DEFINE z == Pick(T)
             R == (T \ {y}) \ {z}
  <2>1. z \in T
    BY DEF Pick
  <2>2. g[T] = f[z] + g[T \ {z}]
    BY <1>1, <2>1 DEF SumsUp
  <2>3. CASE y = z
    BY <2>2, <2>3
  <2>4. CASE y # z
    <3>1. R = (T \ {z}) \ {y} /\ y \in T \ {z} /\ z \in T \ {y}
      BY <2>1, <2>4
    <3>2. g[T \ {z}] = f[y] + g[R]
      BY <2>1, <3>1
    <3>3. g[T \ {y}] = f[z] + g[R]
      BY <2>1, <3>1
    <3>4. f[y] \in Int /\ f[z] \in Int /\ g[R] \in Int
      BY <1>2, <2>1
    <3> HIDE DEF z, R
    <3> QED BY <2>2, <3>2, <3>3, <3>4
  <2> QED BY <2>3, <2>4
<1>4. S \in P
  <2> HIDE DEF P
  <2> QED BY <1>3, SetInd
<1> QED BY <1>1, <1>4

-----------------------------------------------------------------------------
(* The sum depends on what the function is on the set alone. *)
LEMMA SumExt ==
  ASSUME NEW S, IsFiniteSet(S), NEW f, \A x \in S : f[x] \in Int,
         NEW e, \A x \in S : e[x] = f[x]
  PROVE  SumFunctionOnSet(e, S) = SumFunctionOnSet(f, S)
<1>1. PICK g : SumsUp(g, f, S) /\ SumFunctionOnSet(f, S) = g[S]
  BY SumUnfold
<1>2. PICK h : SumsUp(h, e, S) /\ SumFunctionOnSet(e, S) = h[S]
  BY SumUnfold
<1> QED BY <1>1, <1>2, SumsUpAgree

(* A change of one summand changes the sum by as much. *)
LEMMA SumUpdate ==
  ASSUME NEW S, IsFiniteSet(S), NEW f, \A x \in S : f[x] \in Int,
         NEW y \in S, NEW e, e[y] \in Int, \A x \in S \ {y} : e[x] = f[x]
  PROVE  SumFunctionOnSet(e, S) = SumFunctionOnSet(f, S) + e[y] - f[y]
<1>1. IsFiniteSet(S \ {y}) /\ \A x \in S : e[x] \in Int
  BY FS_RemoveElement
<1>2. SumFunctionOnSet(e, S \ {y}) = SumFunctionOnSet(f, S \ {y})
  BY <1>1, SumExt
<1>3. SumFunctionOnSet(f, S) = f[y] + SumFunctionOnSet(f, S \ {y})
  BY SumStep
<1>4. SumFunctionOnSet(e, S) = e[y] + SumFunctionOnSet(e, S \ {y})
  BY <1>1, SumStep
<1>5. f[y] \in Int /\ SumFunctionOnSet(f, S \ {y}) \in Int
  BY <1>1, SumInt
<1> QED BY <1>2, <1>3, <1>4, <1>5

LEMMA SumExcept ==
  ASSUME NEW S, IsFiniteSet(S), NEW f \in [S -> Int], NEW y \in S, NEW n \in Int
  PROVE  SumFunctionOnSet([f EXCEPT ![y] = n], S) = SumFunctionOnSet(f, S) + n - f[y]
<1> DEFINE e == [f EXCEPT ![y] = n]
<1>1. e[y] = n /\ \A x \in S \ {y} : e[x] = f[x]
  OBVIOUS
<1>2. \A x \in S : f[x] \in Int
  OBVIOUS
<1> HIDE DEF e
<1>3. SumFunctionOnSet(e, S) = SumFunctionOnSet(f, S) + e[y] - f[y]
  BY <1>1, <1>2, SumUpdate
<1> QED BY <1>1, <1>3 DEF e

LEMMA SumZero ==
  ASSUME NEW S, IsFiniteSet(S), NEW f, \A x \in S : f[x] = 0
  PROVE  SumFunctionOnSet(f, S) = 0
<1> DEFINE P == {T \in SUBSET S : SumFunctionOnSet(f, T) = 0}
<1>1. \A T \in SUBSET S : (\A x \in T : T \ {x} \in P) => T \in P
  <2> SUFFICES ASSUME NEW T \in SUBSET S, \A x \in T : T \ {x} \in P
               PROVE  SumFunctionOnSet(f, T) = 0
    OBVIOUS
  <2>1. CASE T = {}
    BY <2>1, SumEmpty
  <2>2. CASE T # {}
    <3>1. PICK x \in T : TRUE
      BY <2>2
    <3>2. IsFiniteSet(T) /\ \A y \in T : f[y] \in Int
      BY FS_Subset
    <3>3. SumFunctionOnSet(f, T) = f[x] + SumFunctionOnSet(f, T \ {x})
      BY <3>2, SumStep
    <3> QED BY <3>3
  <2> QED BY <2>1, <2>2
<1> HIDE DEF P
<1>2. S \in P
  BY <1>1, SetInd
<1> QED BY <1>2 DEF P

LEMMA SumUnion ==
  ASSUME NEW S, IsFiniteSet(S), NEW U, IsFiniteSet(U), S \cap U = {},
         NEW f, \A x \in S \union U : f[x] \in Int
  PROVE  SumFunctionOnSet(f, S \union U) = SumFunctionOnSet(f, S) + SumFunctionOnSet(f, U)
<1> DEFINE P == {T \in SUBSET S : SumFunctionOnSet(f, T \union U)
                                    = SumFunctionOnSet(f, T) + SumFunctionOnSet(f, U)}
<1>0. SumFunctionOnSet(f, U) \in Int
  BY SumInt
<1>1. \A T \in SUBSET S : (\A x \in T : T \ {x} \in P) => T \in P
  <2> SUFFICES ASSUME NEW T \in SUBSET S, \A x \in T : T \ {x} \in P
               PROVE  SumFunctionOnSet(f, T \union U)
                        = SumFunctionOnSet(f, T) + SumFunctionOnSet(f, U)
    OBVIOUS
  <2>1. CASE T = {}
    <3>1. T \union U = U
      BY <2>1
    <3> QED BY <1>0, <2>1, <3>1, SumEmpty
  <2>2. CASE T # {}
    <3>1. PICK x \in T : TRUE
      BY <2>2
    <3>2. IsFiniteSet(T) /\ IsFiniteSet(T \union U) /\ IsFiniteSet(T \ {x})
      BY FS_Subset, FS_Union
    <3>3. SumFunctionOnSet(f, T) = f[x] + SumFunctionOnSet(f, T \ {x})
      BY <3>2, SumStep
    <3>4. (T \union U) \ {x} = (T \ {x}) \union U
      OBVIOUS
    <3>5. SumFunctionOnSet(f, T \union U) = f[x] + SumFunctionOnSet(f, (T \union U) \ {x})
      BY <3>2, SumStep
    <3>6. SumFunctionOnSet(f, (T \ {x}) \union U)
            = SumFunctionOnSet(f, T \ {x}) + SumFunctionOnSet(f, U)
      BY <3>1
    <3>7. f[x] \in Int /\ SumFunctionOnSet(f, T \ {x}) \in Int
      BY <3>2, SumInt
    <3>8. SumFunctionOnSet(f, T \union U)
            = f[x] + (SumFunctionOnSet(f, T \ {x}) + SumFunctionOnSet(f, U))
      BY <3>4, <3>5, <3>6
    <3> HIDE DEF P
    <3> QED BY <1>0, <3>3, <3>7, <3>8
  <2> QED BY <2>1, <2>2
<1> HIDE DEF P
<1>2. S \in P
  BY <1>1, SetInd
<1> QED BY <1>2 DEF P

(* Where no summand is smaller, the sum is not. *)
LEMMA SumMonotone ==
  ASSUME NEW S, IsFiniteSet(S), NEW f, \A x \in S : f[x] \in Int,
         NEW e, \A x \in S : e[x] \in Int /\ f[x] <= e[x]
  PROVE  SumFunctionOnSet(f, S) <= SumFunctionOnSet(e, S)
<1> DEFINE P == {T \in SUBSET S : SumFunctionOnSet(f, T) <= SumFunctionOnSet(e, T)}
<1>1. \A T \in SUBSET S : (\A x \in T : T \ {x} \in P) => T \in P
  <2> SUFFICES ASSUME NEW T \in SUBSET S, \A x \in T : T \ {x} \in P
               PROVE  SumFunctionOnSet(f, T) <= SumFunctionOnSet(e, T)
    OBVIOUS
  <2>1. CASE T = {}
    BY <2>1, SumEmpty
  <2>2. CASE T # {}
    <3>1. PICK x \in T : TRUE
      BY <2>2
    <3>2. IsFiniteSet(T) /\ IsFiniteSet(T \ {x})
      BY FS_Subset
    <3>3. SumFunctionOnSet(f, T) = f[x] + SumFunctionOnSet(f, T \ {x})
      BY <3>2, SumStep
    <3>4. SumFunctionOnSet(e, T) = e[x] + SumFunctionOnSet(e, T \ {x})
      BY <3>2, SumStep
    <3>5. SumFunctionOnSet(f, T \ {x}) <= SumFunctionOnSet(e, T \ {x})
      BY <3>1
    <3>6. /\ f[x] \in Int /\ SumFunctionOnSet(f, T \ {x}) \in Int
          /\ e[x] \in Int /\ SumFunctionOnSet(e, T \ {x}) \in Int
      BY <3>2, SumInt
    <3> QED BY <3>3, <3>4, <3>5, <3>6
  <2> QED BY <2>1, <2>2
<1> HIDE DEF P
<1>2. S \in P
  BY <1>1, SetInd
<1> QED BY <1>2 DEF P

(* Numbers that are not negative add up to more in a larger set. *)
LEMMA SumSubset ==
  ASSUME NEW S, IsFiniteSet(S), NEW T \in SUBSET S, NEW f, \A x \in S : f[x] \in Nat
  PROVE  0 <= SumFunctionOnSet(f, T) /\ SumFunctionOnSet(f, T) <= SumFunctionOnSet(f, S)
<1>1. ASSUME NEW R \in SUBSET S
      PROVE  SumFunctionOnSet(f, R) \in Int /\ 0 <= SumFunctionOnSet(f, R)
  <2> DEFINE z == [x \in R |-> 0]
  <2>1. IsFiniteSet(R)
    BY FS_Subset
  <2>2. SumFunctionOnSet(z, R) = 0
    BY <2>1, SumZero
  <2>3. \A x \in R : z[x] \in Int /\ f[x] \in Int /\ z[x] <= f[x]
    OBVIOUS
  <2> HIDE DEF z
  <2>4. SumFunctionOnSet(z, R) <= SumFunctionOnSet(f, R)
    BY <2>1, <2>3, SumMonotone
  <2> QED BY <2>1, <2>2, <2>3, <2>4, SumInt
<1>2. IsFiniteSet(T) /\ IsFiniteSet(S \ T) /\ T \union (S \ T) = S /\ T \cap (S \ T) = {}
  BY FS_Subset
<1>3. SumFunctionOnSet(f, S) = SumFunctionOnSet(f, T) + SumFunctionOnSet(f, S \ T)
  BY <1>2, SumUnion
<1> QED BY <1>1, <1>3

(* The number of elements of a set that the sets F[x] divide among them. *)
LEMMA SumPartition ==
  ASSUME NEW S, IsFiniteSet(S), NEW F, S \subseteq DOMAIN F,
         \A x \in S : IsFiniteSet(F[x]), \A x, y \in S : x # y => F[x] \cap F[y] = {},
         NEW c, \A x \in S : c[x] = Cardinality(F[x]),
         NEW U, \A k : k \in U <=> \E x \in S : k \in F[x]
  PROVE  IsFiniteSet(U) /\ SumFunctionOnSet(c, S) = Cardinality(U)
<1> DEFINE all(T) == UNION {F[x] : x \in T}
           P == {T \in SUBSET S : /\ IsFiniteSet(all(T))
                                  /\ SumFunctionOnSet(c, T) = Cardinality(all(T))}
<1>0. \A x \in S : c[x] \in Int
  BY FS_CardinalityType
<1>1. \A T \in SUBSET S : (\A x \in T : T \ {x} \in P) => T \in P
  <2> SUFFICES ASSUME NEW T \in SUBSET S, \A x \in T : T \ {x} \in P
               PROVE  T \in P
    OBVIOUS
  <2>1. CASE T = {}
    <3>1. all(T) = {}
      BY <2>1
    <3> HIDE DEF all
    <3> QED BY <2>1, <3>1, SumEmpty, FS_EmptySet
  <2>2. CASE T # {}
    <3>1. PICK x \in T : TRUE
      BY <2>2
    <3>2. IsFiniteSet(T) /\ IsFiniteSet(T \ {x})
      BY FS_Subset
    <3>3. SumFunctionOnSet(c, T) = c[x] + SumFunctionOnSet(c, T \ {x})
      BY <1>0, <3>2, SumStep
    <3>4. all(T) = F[x] \union all(T \ {x}) /\ F[x] \cap all(T \ {x}) = {}
      OBVIOUS
    <3>5. IsFiniteSet(all(T \ {x})) /\ SumFunctionOnSet(c, T \ {x}) = Cardinality(all(T \ {x}))
      BY <3>1
    <3>6. IsFiniteSet(F[x])
      OBVIOUS
    <3> HIDE DEF all, P
    <3>7. IsFiniteSet(F[x] \union all(T \ {x}))
      BY <3>5, <3>6, FS_Union
    <3>8. IsFiniteSet(F[x]) /\ IsFiniteSet(all(T))
      BY <3>4, <3>6, <3>7
    <3>9. Cardinality(all(T)) = Cardinality(F[x]) + Cardinality(all(T \ {x}))
                                  - Cardinality(F[x] \cap all(T \ {x}))
      BY <3>4, <3>5, <3>8, FS_Union
    <3>10. Cardinality(F[x] \cap all(T \ {x})) = 0
      BY <3>4, FS_EmptySet
    <3>11. Cardinality(F[x]) \in Int /\ Cardinality(all(T \ {x})) \in Int
      BY <3>5, <3>8, FS_CardinalityType
    <3>12. SumFunctionOnSet(c, T) = Cardinality(all(T))
      BY <3>3, <3>5, <3>9, <3>10, <3>11
    <3> QED BY <3>8, <3>12 DEF P
  <2> QED BY <2>1, <2>2
<1>2. all(S) = U
  OBVIOUS
<1> HIDE DEF P
<1>3. S \in P
  BY <1>1, SetInd
<1> QED BY <1>2, <1>3 DEF P

-----------------------------------------------------------------------------
(* A fold over a finite set S, whose elements pick chooses: it stays where *)
(* all its steps stay.  A step is a function here, of the element and what *)
(* has been folded so far.                                                 *)
Folding(h, S, base, pick, step) ==
  \A U \in SUBSET S : h[U] = IF U = {} THEN base ELSE step[pick[U]][h[U \ {pick[U]}]]

LEMMA FoldExists ==
  ASSUME NEW S, IsFiniteSet(S), NEW T, NEW base \in T,
         NEW pick, \A U \in SUBSET S : U # {} => pick[U] \in U,
         NEW step, \A x \in S, t \in T : step[x][t] \in T
  PROVE  \E h \in [SUBSET S -> T] : Folding(h, S, base, pick, step)
<1> DEFINE Up(g, n) == \A U \in SUBSET S : Cardinality(U) <= n =>
                         g[U] = IF U = {} THEN base ELSE step[pick[U]][g[U \ {pick[U]}]]
           N == {n \in Nat : \E g \in [SUBSET S -> T] : Up(g, n)}
<1>0. ASSUME NEW U \in SUBSET S
      PROVE  /\ IsFiniteSet(U) /\ Cardinality(U) \in Nat
             /\ U # {} => /\ pick[U] \in U /\ pick[U] \in S
                          /\ U \ {pick[U]} \in SUBSET S
                          /\ Cardinality(U \ {pick[U]}) = Cardinality(U) - 1
             /\ Cardinality(U) = 0 <=> U = {}
  <2>1. IsFiniteSet(U) /\ Cardinality(U) \in Nat /\ (Cardinality(U) = 0 <=> U = {})
    BY FS_Subset, FS_CardinalityType, FS_EmptySet
  <2>2. U # {} => Cardinality(U \ {pick[U]}) = Cardinality(U) - 1
    BY <2>1, FS_RemoveElement
  <2> QED BY <2>1, <2>2
<1>1. 0 \in N
  <2>1. [U \in SUBSET S |-> base] \in [SUBSET S -> T]
    OBVIOUS
  <2>2. Up([U \in SUBSET S |-> base], 0)
    <3> SUFFICES ASSUME NEW U \in SUBSET S, Cardinality(U) <= 0 PROVE U = {}
      OBVIOUS
    <3>1. Cardinality(U) \in Nat /\ (Cardinality(U) = 0 <=> U = {})
      BY <1>0
    <3> QED BY <3>1
  <2> QED BY <2>1, <2>2
<1>2. \A n \in N : n + 1 \in N
  <2> SUFFICES ASSUME NEW n \in N PROVE n + 1 \in N
    OBVIOUS
  <2>1. PICK g \in [SUBSET S -> T] : Up(g, n)
    OBVIOUS
  <2>2. n \in Nat
    OBVIOUS
  <2> DEFINE h == [U \in SUBSET S |->
                     IF Cardinality(U) <= n THEN g[U]
                     ELSE IF U = {} THEN base ELSE step[pick[U]][g[U \ {pick[U]}]]]
  <2>3. h \in [SUBSET S -> T]
    <3> SUFFICES ASSUME NEW U \in SUBSET S
                 PROVE  (IF Cardinality(U) <= n THEN g[U]
                         ELSE IF U = {} THEN base ELSE step[pick[U]][g[U \ {pick[U]}]]) \in T
      OBVIOUS
    <3> QED BY <1>0
  <2>4. Up(h, n + 1)
    <3> SUFFICES ASSUME NEW U \in SUBSET S, Cardinality(U) <= n + 1
                 PROVE  h[U] = IF U = {} THEN base ELSE step[pick[U]][h[U \ {pick[U]}]]
      OBVIOUS
    <3>1. CASE U = {}
      BY <1>0, <2>1, <2>2, <3>1
    <3>2. CASE U # {}
      <4>1. h[U \ {pick[U]}] = g[U \ {pick[U]}]
        <5>1. /\ U \ {pick[U]} \in SUBSET S /\ Cardinality(U) \in Nat
              /\ Cardinality(U \ {pick[U]}) = Cardinality(U) - 1
          BY <1>0, <3>2
        <5>2. Cardinality(U \ {pick[U]}) <= n
          BY <2>2, <5>1
        <5> QED BY <5>1, <5>2
      <4>2. h[U] = step[pick[U]][g[U \ {pick[U]}]]
        BY <1>0, <2>1, <2>2, <3>2
      <4> QED BY <3>2, <4>1, <4>2
    <3> QED BY <3>1, <3>2
  <2>5. n + 1 \in Nat
    BY <2>2
  <2>6. \E f \in [SUBSET S -> T] : Up(f, n + 1)
    <3> HIDE DEF h, Up
    <3> WITNESS h \in [SUBSET S -> T]
    <3> QED BY <2>4
  <2> HIDE DEF Up
  <2> QED BY <2>5, <2>6
<1>3. N = Nat
  <2> HIDE DEF N
  <2>1. N \in SUBSET Nat
    BY DEF N
  <2> QED BY <1>1, <1>2, <2>1, NatInd
<1>4. Cardinality(S) \in N
  BY <1>3, FS_CardinalityType
<1>5. PICK h \in [SUBSET S -> T] : Up(h, Cardinality(S))
  BY <1>4
<1>6. ASSUME NEW U \in SUBSET S
      PROVE  h[U] = IF U = {} THEN base ELSE step[pick[U]][h[U \ {pick[U]}]]
  <2>1. Cardinality(U) <= Cardinality(S)
    BY FS_Subset
  <2> QED BY <1>5, <2>1
<1>7. Folding(h, S, base, pick, step)
  BY <1>6 DEF Folding
<1> QED BY <1>7

LEMMA MaxIs ==
  ASSUME NEW S \in SUBSET Int, IsFiniteSet(S), S # {}
  PROVE  Max(S) \in S /\ \A x \in S : x <= Max(S)
<1> DEFINE P == {U \in SUBSET S : U = {} \/ \E x \in U : \A y \in U : x >= y}
<1>1. ASSUME NEW U \in SUBSET S, \A x \in U : U \ {x} \in P PROVE U \in P
  <2>1. CASE U = {}
    BY <2>1
  <2>2. CASE U # {}
    <3>1. PICK x \in U : TRUE
      BY <2>2
    <3>2. U \ {x} \in P
      BY <1>1, <3>1
    <3>3. CASE U \ {x} = {}
      <4>1. x \in Int /\ \A y \in U : y = x
        BY <3>3
      <4>2. \A y \in U : x >= y
        BY <4>1
      <4> QED BY <3>1, <4>2
    <3>4. CASE \E z \in U \ {x} : \A y \in U \ {x} : z >= y
      <4>1. PICK z \in U \ {x} : \A y \in U \ {x} : z >= y
        BY <3>4
      <4>2. x \in Int /\ z \in Int /\ U \in SUBSET Int
        OBVIOUS
      <4>3. CASE x >= z
        <5>1. \A y \in U : x >= y
          BY <4>1, <4>2, <4>3
        <5> QED BY <3>1, <5>1
      <4>4. CASE z >= x
        <5>1. \A y \in U : z >= y
          BY <4>1, <4>2, <4>4
        <5> QED BY <4>1, <5>1
      <4> QED BY <4>2, <4>3, <4>4
    <3> QED BY <3>2, <3>3, <3>4
  <2> QED BY <2>1, <2>2
<1>2. S \in P
  <2> HIDE DEF P
  <2> QED BY <1>1, SetInd
<1>3. \E x \in S : \A y \in S : x >= y
  BY <1>2
<1>4. Max(S) \in S /\ \A y \in S : Max(S) >= y
  BY <1>3 DEF Max
<1> QED BY <1>4

(* The same of the folds over the places of a sequence, the highest last.  *)
FoldingLeft(h, n, base, step) ==
  \A U \in SUBSET (1 .. n) :
    h[U] = IF U = {} THEN base ELSE step[Max(U)][h[U \ {Max(U)}]]

LEMMA FoldLeftExists ==
  ASSUME NEW n \in Nat, NEW T, NEW base \in T,
         NEW step, \A k \in 1 .. n, t \in T : step[k][t] \in T
  PROVE  \E h \in [SUBSET (1 .. n) -> T] : FoldingLeft(h, n, base, step)
<1> DEFINE pick == [U \in SUBSET (1 .. n) |-> Max(U)]
<1>1. IsFiniteSet(1 .. n)
  <2>1. n \in Int
    OBVIOUS
  <2> QED BY ONLY <2>1, FS_Interval
<1>2. ASSUME NEW U \in SUBSET (1 .. n), U # {} PROVE pick[U] \in U /\ pick[U] = Max(U)
  <2>1. IsFiniteSet(U)
    BY <1>1, FS_Subset
  <2>3. U \in SUBSET Int
    OBVIOUS
  <2>2. Max(U) \in U
    BY <1>2, <2>1, <2>3, MaxIs
  <2> QED BY <2>2
<1> HIDE DEF pick
<1>4. \A U \in SUBSET (1 .. n) : U # {} => pick[U] \in U
  BY <1>2
<1>3. PICK h \in [SUBSET (1 .. n) -> T] : \A U \in SUBSET (1 .. n) :
        h[U] = IF U = {} THEN base ELSE step[pick[U]][h[U \ {pick[U]}]]
  <2> DEFINE S == 1 .. n
  <2> HIDE DEF S
  <2>1. /\ IsFiniteSet(S) /\ \A U \in SUBSET S : U # {} => pick[U] \in U
        /\ \A k \in S, t \in T : step[k][t] \in T
    BY <1>1, <1>4 DEF S
  <2>2. \E h \in [SUBSET S -> T] : Folding(h, S, base, pick, step)
    BY <2>1, FoldExists
  <2> QED BY <2>2 DEF S, Folding
<1> WITNESS h \in [SUBSET (1 .. n) -> T]
<1> QED BY <1>2, <1>3 DEF FoldingLeft

(* It goes from the first place to the last, one step for each.            *)
OneByOne(r, n, base, step, end) ==
  r[0] = base /\ r[n] = end /\ \A k \in 1 .. n : r[k] = step[k][r[k - 1]]

LEMMA FoldLeftRuns ==
  ASSUME NEW n \in Nat, NEW T, NEW base \in T,
         NEW step, \A k \in 1 .. n, t \in T : step[k][t] \in T,
         NEW g, g[{}] = base,
         \A U \in SUBSET (1 .. n) : U # {} /\ g[U \ {Max(U)}] \in T =>
           g[U] = step[Max(U)][g[U \ {Max(U)}]]
  PROVE  \E r \in [0 .. n -> T] : OneByOne(r, n, base, step, g[1 .. n])
<1> DEFINE r == [k \in 0 .. n |-> g[1 .. k]]
           P == {k \in Nat : k <= n => g[1 .. k] \in T}
<1>1. ASSUME NEW k \in 1 .. n PROVE Max(1 .. k) = k /\ (1 .. k) \ {k} = 1 .. k - 1
  <2>1. k \in 1 .. k /\ \A y \in 1 .. k : k >= y
    OBVIOUS
  <2>2. \A x \in 1 .. k : (\A y \in 1 .. k : x >= y) => x = k
    OBVIOUS
  <2>3. Max(1 .. k) = k
    BY <2>1, <2>2 DEF Max
  <2> QED BY <2>3
<1>2. ASSUME NEW k \in 1 .. n, g[1 .. k - 1] \in T
      PROVE  g[1 .. k] = step[k][g[1 .. k - 1]] /\ g[1 .. k] \in T
  <2>1. 1 .. k \in SUBSET (1 .. n) /\ 1 .. k # {}
    OBVIOUS
  <2>2. g[1 .. k] = step[k][g[1 .. k - 1]]
    BY <1>1, <1>2, <2>1
  <2> QED BY <1>2, <2>2
<1>3. P = Nat
  <2>1. 0 \in P
    OBVIOUS
  <2>2. ASSUME NEW k \in P PROVE k + 1 \in P
    <3> SUFFICES ASSUME k + 1 <= n PROVE g[1 .. k + 1] \in T
      BY <2>2
    <3>1. k + 1 \in 1 .. n /\ (k + 1) - 1 = k /\ g[1 .. k] \in T
      BY <2>2
    <3> QED BY <1>2, <3>1
  <2>3. P \in SUBSET Nat
    OBVIOUS
  <2> HIDE DEF P
  <2> QED BY <2>1, <2>2, <2>3, NatInd
<1>4. \A k \in 0 .. n : g[1 .. k] \in T
  BY <1>3
<1>5. r \in [0 .. n -> T]
  BY <1>4
<1>6. r[0] = base /\ r[n] = g[1 .. n]
  <2>1. 1 .. 0 = {}
    OBVIOUS
  <2> QED BY <2>1
<1>7. ASSUME NEW k \in 1 .. n PROVE r[k] = step[k][r[k - 1]]
  <2>1. k - 1 \in 0 .. n /\ k \in 0 .. n
    OBVIOUS
  <2> QED BY <1>2, <1>4, <2>1
<1> HIDE DEF r
<1> WITNESS r \in [0 .. n -> T]
<1> QED BY <1>6, <1>7 DEF OneByOne

(* Steps taken one by one exist, and so do steps that go down.             *)
LEMMA StepsExist ==
  ASSUME NEW n \in Nat, NEW T, NEW base \in T,
         NEW step, \A k \in 1 .. n, t \in T : step[k][t] \in T
  PROVE  \E r \in [0 .. n -> T], end \in T : OneByOne(r, n, base, step, end)
<1>1. PICK h \in [SUBSET (1 .. n) -> T] : FoldingLeft(h, n, base, step)
  BY FoldLeftExists
<1>2. h[{}] = base
  BY <1>1 DEF FoldingLeft
<1>3. \A U \in SUBSET (1 .. n) : U # {} /\ h[U \ {Max(U)}] \in T =>
        h[U] = step[Max(U)][h[U \ {Max(U)}]]
  BY <1>1 DEF FoldingLeft
<1>4. \E r \in [0 .. n -> T] : OneByOne(r, n, base, step, h[1 .. n])
  BY <1>2, <1>3, FoldLeftRuns
<1> QED BY <1>1, <1>4

Descending(h, lo, hi, base, step) ==
  h[hi] = base /\ \A i \in lo .. hi - 1 : h[i] = step[i][h[i + 1]]

LEMMA DescendingExists ==
  ASSUME NEW lo \in Int, NEW hi \in Int, lo <= hi, NEW T, NEW base \in T,
         NEW step, \A i \in lo .. hi - 1, t \in T : step[i][t] \in T
  PROVE  \E h \in [lo .. hi -> T] : Descending(h, lo, hi, base, step)
<1> DEFINE n == hi - lo
           up == [k \in 1 .. n |-> step[hi - k]]
<1>1. n \in Nat
  OBVIOUS
<1>2. \A k \in 1 .. n, t \in T : up[k][t] \in T
  OBVIOUS
<1> HIDE DEF up
<1>3. PICK r \in [0 .. n -> T], end \in T : OneByOne(r, n, base, up, end)
  <2> HIDE DEF n
  <2> QED BY <1>1, <1>2, StepsExist
<1> DEFINE h == [i \in lo .. hi |-> r[hi - i]]
<1>4. h \in [lo .. hi -> T]
  BY <1>3
<1>5. h[hi] = base
  BY <1>3 DEF OneByOne
<1>6. ASSUME NEW i \in lo .. hi - 1 PROVE h[i] = step[i][h[i + 1]]
  <2>1. hi - i \in 1 .. n /\ (hi - i) - 1 = hi - (i + 1) /\ hi - (hi - i) = i
    OBVIOUS
  <2>2. r[hi - i] = up[hi - i][r[(hi - i) - 1]]
    BY <1>3, <2>1 DEF OneByOne
  <2>3. up[hi - i] = step[i]
    BY <2>1 DEF up
  <2> QED BY <2>1, <2>2, <2>3
<1> HIDE DEF h
<1>7. Descending(h, lo, hi, base, step)
  BY <1>5, <1>6 DEF Descending
<1> QED BY <1>4, <1>7
=============================================================================
