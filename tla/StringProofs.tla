---------------------------- MODULE StringProofs ----------------------------
(***************************************************************************)
(* Facts about keys, strings and insertion sorts, for every key width and  *)
(* alphabet: that a key is its characters, that what two keys share is     *)
(* shared by all between them, and how the classifiers' buckets lie to the *)
(* splitters; that the order of strings is one, what two of them share, and *)
(* that keys at a depth they share order them as they are ordered; what    *)
(* rearranging strings means, and that the insertion sorts rearrange them  *)
(* into their order, with the right LCPs where these are kept.             *)
(***************************************************************************)
EXTENDS InsertionSorts, Sums, SequenceTheorems

LEMMA Powers == \A n \in 0 .. KeyWidth : NumChars ^ n \in Nat \ {0}
<1> DEFINE P == {n \in Nat : n <= KeyWidth => NumChars ^ n \in Nat \ {0}}
<1>1. 0 \in P
  BY PowerAssumption
<1>2. \A n \in P : n + 1 \in P
  <2> SUFFICES ASSUME NEW n \in Nat, n + 1 <= KeyWidth, NumChars ^ n \in Nat \ {0}
               PROVE  NumChars ^ (n + 1) \in Nat \ {0}
    BY KeyAssumption
  <2>1. n \in 0 .. KeyWidth - 1 /\ NumChars \in Nat \ {0}
    BY KeyAssumption
  <2>2. NumChars ^ (n + 1) = NumChars * NumChars ^ n
    BY <2>1, PowerAssumption
  <2> DEFINE c == NumChars ^ n
  <2>3. NumChars * c \in Nat \ {0}
    <3>1. c \in Nat \ {0}
      OBVIOUS
    <3> HIDE DEF c
    <3> QED BY <2>1, <3>1
  <2> QED BY <2>2, <2>3
<1>3. P = Nat
  <2> HIDE DEF P
  <2>1. P \in SUBSET Nat
    BY DEF P
  <2> QED BY <1>1, <1>2, <2>1, NatInd
<1> QED BY <1>3, KeyAssumption

(* What is left of a key when all but its first d characters are dropped.  *)
Prefix(a, d) == a \div NumChars ^ (KeyWidth - d)

LEMMA PrefixStep ==
  ASSUME NEW a \in Nat, NEW d \in Place
  PROVE  /\ Prefix(a, d) \in Nat /\ Prefix(a, d + 1) \in Nat
         /\ CharAt(a, d) \in 0 .. NumChars - 1
         /\ Prefix(a, d + 1) = NumChars * Prefix(a, d) + CharAt(a, d)
<1> DEFINE e == KeyWidth - 1 - d
           m == NumChars ^ e
           q == a \div m
<1>1. e \in 0 .. KeyWidth - 1 /\ KeyWidth - (d + 1) = e /\ KeyWidth - d = e + 1
  BY KeyAssumption DEF Place
<1>2. m \in Nat \ {0} /\ NumChars ^ (e + 1) = NumChars * m /\ NumChars \in Nat \ {0}
  <2> HIDE DEF e
  <2> QED BY <1>1, Powers, PowerAssumption, KeyAssumption
<1>3. Prefix(a, d + 1) = q /\ CharAt(a, d) = q % NumChars
  BY <1>1 DEF Prefix, CharAt
<1>4. q \in Nat /\ Prefix(a, d) = q \div NumChars
  <2> HIDE DEF e
  <2>1. q \in Nat
    BY <1>2, Quotient
  <2>2. q \div NumChars = a \div (NumChars * m)
    <3> HIDE DEF m
    <3> QED BY <1>2, QuotientTwice
  <2> QED BY <1>1, <1>2, <2>1, <2>2 DEF Prefix
<1> HIDE DEF q
<1> QED BY <1>2, <1>3, <1>4

(* Keys share their first d characters if and only if they share that.     *)
LEMMA PrefixIsChars ==
  ASSUME NEW a \in Nat, NEW b \in Nat, a < NumChars ^ KeyWidth, b < NumChars ^ KeyWidth
  PROVE  \A d \in 0 .. KeyWidth :
           Prefix(a, d) = Prefix(b, d) <=> \A e \in 0 .. d - 1 : CharAt(a, e) = CharAt(b, e)
<1> DEFINE Same(d) == \A e \in 0 .. d - 1 : CharAt(a, e) = CharAt(b, e)
           P == {d \in Nat : d <= KeyWidth => (Prefix(a, d) = Prefix(b, d) <=> Same(d))}
<1>1. 0 \in P
  <2>1. NumChars ^ KeyWidth \in Nat \ {0} /\ KeyWidth - 0 = KeyWidth
    BY Powers, KeyAssumption
  <2>2. \A n \in Nat : n < NumChars ^ KeyWidth => Prefix(n, 0) = 0
    BY <2>1, QuotientIs DEF Prefix
  <2>3. Prefix(a, 0) = 0 /\ Prefix(b, 0) = 0
    BY <2>2
  <2>4. Same(0)
    OBVIOUS
  <2> QED BY <2>3, <2>4
<1>2. \A d \in P : d + 1 \in P
  <2> SUFFICES ASSUME NEW d \in Nat, d + 1 <= KeyWidth, Prefix(a, d) = Prefix(b, d) <=> Same(d)
               PROVE  Prefix(a, d + 1) = Prefix(b, d + 1) <=> Same(d + 1)
    BY KeyAssumption
  <2>1. d \in Place
    BY KeyAssumption DEF Place
  <2>2. Same(d + 1) <=> Same(d) /\ CharAt(a, d) = CharAt(b, d)
    OBVIOUS
  <2>3. Prefix(a, d + 1) = Prefix(b, d + 1) <=>
          Prefix(a, d) = Prefix(b, d) /\ CharAt(a, d) = CharAt(b, d)
    <3>1. ASSUME NEW q \in Nat, NEW r \in 0 .. NumChars - 1,
                 NEW k \in Nat, NEW l \in 0 .. NumChars - 1,
                 NumChars * q + r = NumChars * k + l
          PROVE  q = k /\ r = l
      <4> DEFINE x == q * NumChars
                 y == k * NumChars
                 z == NumChars * q + r
      <4>1. NumChars \in Nat \ {0}
        BY KeyAssumption
      <4>2. x \in Nat /\ y \in Nat /\ z = x + r /\ z = y + l
        BY <3>1, <4>1
      <4>3. z \in Nat /\ x <= z /\ z < x + NumChars /\ y <= z /\ z < y + NumChars
        <5> HIDE DEF x, y, z
        <5> QED BY <4>1, <4>2
      <4> HIDE DEF z
      <4>4. z \div NumChars = q /\ z \div NumChars = k
        BY <4>1, <4>3, QuotientIs
      <4> QED BY <4>2, <4>4
    <3> DEFINE q == Prefix(a, d)
               k == Prefix(b, d)
               r == CharAt(a, d)
               l == CharAt(b, d)
    <3>2. /\ q \in Nat /\ r \in 0 .. NumChars - 1 /\ Prefix(a, d + 1) = NumChars * q + r
          /\ k \in Nat /\ l \in 0 .. NumChars - 1 /\ Prefix(b, d + 1) = NumChars * k + l
      BY <2>1, PrefixStep
    <3> HIDE DEF q, k, r, l
    <3>3. NumChars * q + r = NumChars * k + l => q = k /\ r = l
      BY <3>1, <3>2
    <3> QED BY <3>2, <3>3 DEF q, k, r, l
  <2> QED BY <2>2, <2>3
<1>3. P = Nat
  <2> HIDE DEF P
  <2>1. P \in SUBSET Nat
    BY DEF P
  <2> QED BY <1>1, <1>2, <2>1, NatInd
<1> QED BY <1>3, KeyAssumption

-----------------------------------------------------------------------------
LEMMA KeysAreNumbers == \A a \in Keys : a \in Nat /\ a < NumChars ^ KeyWidth
<1>1. NumChars ^ KeyWidth \in Nat
  BY Powers, KeyAssumption
<1> QED BY <1>1 DEF Keys

(* The number of characters two keys share. *)
LEMMA KeyLcpIsPrefix ==
  ASSUME NEW a \in Keys, NEW b \in Keys
  PROVE  /\ KeyLcp(a, b) \in 0 .. KeyWidth
         /\ \A d \in 0 .. KeyWidth : d <= KeyLcp(a, b) <=> Prefix(a, d) = Prefix(b, d)
<1> DEFINE D == {d \in Place : \A e \in 0 .. d : CharAt(a, e) = CharAt(b, e)}
<1>1. D = 0 .. Cardinality(D) - 1 /\ Cardinality(D) \in 0 .. KeyWidth
  <2>1. D \in SUBSET (0 .. KeyWidth - 1)
    BY DEF Place
  <2>2. ASSUME NEW d \in D, NEW c \in 0 .. d PROVE c \in D
    <3>1. d \in 0 .. KeyWidth - 1 /\ c \in 0 .. KeyWidth - 1
      BY KeyAssumption DEF Place
    <3> QED BY <3>1, KeyAssumption DEF Place
  <2> HIDE DEF D
  <2> QED BY <2>1, <2>2, InitialSegment, KeyAssumption
<1>2. KeyLcp(a, b) = Cardinality(D)
  BY DEF KeyLcp
<1>3. ASSUME NEW d \in 0 .. KeyWidth
      PROVE  d <= Cardinality(D) <=> \A e \in 0 .. d - 1 : CharAt(a, e) = CharAt(b, e)
  <2>1. CASE d = 0
    BY <1>1, <2>1
  <2>2. CASE d > 0
    <3>1. d - 1 \in Place
      BY <2>2, KeyAssumption DEF Place
    <3>2. d - 1 \in D <=> \A e \in 0 .. d - 1 : CharAt(a, e) = CharAt(b, e)
      BY <3>1
    <3> HIDE DEF D
    <3>3. d - 1 \in D <=> d <= Cardinality(D)
      BY <1>1, <2>2, KeyAssumption
    <3> QED BY <3>2, <3>3
  <2> QED BY <2>1, <2>2, KeyAssumption
<1> HIDE DEF D
<1> QED BY <1>1, <1>2, <1>3, PrefixIsChars, KeysAreNumbers

(* Keys that share all characters are the same. *)
LEMMA KeyLcpFull ==
  ASSUME NEW a \in Keys, NEW b \in Keys, KeyLcp(a, b) = KeyWidth
  PROVE  a = b
<1>1. KeyWidth \in 0 .. KeyWidth /\ KeyWidth - KeyWidth = 0
  BY KeyAssumption
<1>2. Prefix(a, KeyWidth) = Prefix(b, KeyWidth)
  BY <1>1, KeyLcpIsPrefix
<1>3. \A n \in Nat : Prefix(n, KeyWidth) = n
  BY <1>1, PowerAssumption DEF Prefix
<1> QED BY <1>2, <1>3, KeysAreNumbers

(* What two keys share is shared by all between them. *)
LEMMA KeyLcpBetween ==
  ASSUME NEW x \in Keys, NEW y \in Keys, NEW s \in Keys, NEW t \in Keys,
         x <= s, s <= y, x <= t, t <= y
  PROVE  KeyLcp(x, y) <= KeyLcp(s, t)
<1> DEFINE l == KeyLcp(x, y)
           m == NumChars ^ (KeyWidth - l)
<1>1. l \in 0 .. KeyWidth /\ Prefix(x, l) = Prefix(y, l)
  BY KeyLcpIsPrefix
<1>2. m \in Nat \ {0}
  <2>1. KeyWidth - l \in 0 .. KeyWidth
    BY <1>1, KeyAssumption
  <2> QED BY <2>1, Powers
<1>3. /\ x \div m \in Nat /\ y \div m \in Nat /\ s \div m \in Nat /\ t \div m \in Nat
      /\ x \div m = y \div m
  BY <1>1, <1>2, KeysAreNumbers, Quotient DEF Prefix
<1> HIDE DEF m
<1>4. /\ x \div m <= s \div m /\ s \div m <= y \div m
      /\ x \div m <= t \div m /\ t \div m <= y \div m
  BY <1>2, KeysAreNumbers, QuotientMonotonic
<1>5. s \div m = t \div m
  BY <1>3, <1>4
<1>6. Prefix(s, l) = Prefix(t, l)
  BY <1>5 DEF Prefix, m
<1> HIDE DEF l
<1>7. l <= KeyLcp(s, t)
  BY <1>1, <1>6, KeyLcpIsPrefix
<1> QED BY <1>7 DEF l

(* A key that holds a terminator has it behind its depth. *)
LEMMA KeyDepthTerminates ==
  ASSUME NEW a, Terminated(a)
  PROVE  KeyDepth(a) \in Place /\ CharAt(a, KeyDepth(a)) = 0
<1> DEFINE D == {d \in Place : \E e \in d .. KeyWidth - 1 : CharAt(a, e) # 0}
<1>1. D = 0 .. Cardinality(D) - 1 /\ Cardinality(D) \in 0 .. KeyWidth
  <2>1. D \in SUBSET (0 .. KeyWidth - 1)
    BY DEF Place
  <2>2. ASSUME NEW d \in D, NEW c \in 0 .. d PROVE c \in D
    <3>1. d \in 0 .. KeyWidth - 1 /\ c \in 0 .. KeyWidth - 1
      BY KeyAssumption DEF Place
    <3> QED BY <3>1, KeyAssumption DEF Place
  <2> HIDE DEF D
  <2> QED BY <2>1, <2>2, InitialSegment, KeyAssumption
<1>2. KeyDepth(a) = Cardinality(D)
  BY DEF KeyDepth
<1>3. KeyWidth - 1 \notin D /\ KeyWidth - 1 \in Place
  BY KeyAssumption DEF Terminated, Place
<1>4. \A d \in Place : d \notin D => CharAt(a, d) = 0
  BY KeyAssumption DEF Place
<1> HIDE DEF D
<1>5. Cardinality(D) \in Place /\ Cardinality(D) \notin D
  BY <1>1, <1>3, KeyAssumption DEF Place
<1> QED BY <1>2, <1>4, <1>5

-----------------------------------------------------------------------------
(* The bucket of a key lies between the splitters it says. *)
LEMMA BucketLies ==
  ASSUME NEW n \in Nat, NEW spl \in [0 .. n - 1 -> Int],
         \A i, j \in 0 .. n - 1 : i < j => spl[i] <= spl[j], NEW k \in Int
  PROVE  \E l \in 0 .. n :
           /\ \A i \in 0 .. n - 1 : spl[i] < k <=> i < l
           /\ \/ BucketIn(spl, k) = 2 * l + 1 /\ l < n /\ spl[l] = k
              \/ BucketIn(spl, k) = 2 * l /\ (l < n => k < spl[l])
<1> DEFINE L == {i \in DOMAIN spl : spl[i] < k}
           l == Cardinality(L)
<1>1. L = 0 .. l - 1 /\ l \in 0 .. n
  <2>1. L \in SUBSET (0 .. n - 1)
    OBVIOUS
  <2>2. ASSUME NEW i \in L, NEW j \in 0 .. i PROVE j \in L
    <3>1. i \in 0 .. n - 1 /\ spl[i] < k /\ j \in 0 .. n - 1
      OBVIOUS
    <3>2. spl[j] <= spl[i] /\ spl[j] \in Int /\ spl[i] \in Int
      BY <3>1
    <3> QED BY <3>1, <3>2
  <2> HIDE DEF L
  <2> QED BY <2>1, <2>2, InitialSegment
<1>2. \A i \in 0 .. n - 1 : spl[i] < k <=> i \in L
  OBVIOUS
<1>3. BucketIn(spl, k) = IF l \in DOMAIN spl /\ spl[l] = k THEN 2 * l + 1 ELSE 2 * l
  BY DEF BucketIn
<1> HIDE DEF L, l
<1>4. \A i \in 0 .. n - 1 : spl[i] < k <=> i < l
  BY <1>1, <1>2
<1>5. l \in DOMAIN spl <=> l < n
  BY <1>1
<1>6. l < n => spl[l] \in Int /\ ~(spl[l] < k)
  BY <1>1, <1>4
<1>7. \/ BucketIn(spl, k) = 2 * l + 1 /\ l < n /\ spl[l] = k
      \/ BucketIn(spl, k) = 2 * l /\ (l < n => k < spl[l])
  BY <1>3, <1>5, <1>6
<1> QED BY <1>1, <1>4, <1>7

(* Greater keys are in no lower bucket. *)
LEMMA BucketMonotonic ==
  ASSUME NEW n \in Nat, NEW spl \in [0 .. n - 1 -> Int],
         \A i, j \in 0 .. n - 1 : i < j => spl[i] <= spl[j],
         NEW k \in Int, NEW m \in Int, k <= m
  PROVE  BucketIn(spl, k) <= BucketIn(spl, m)
<1>1. PICK l \in 0 .. n :
        /\ \A i \in 0 .. n - 1 : spl[i] < k <=> i < l
        /\ \/ BucketIn(spl, k) = 2 * l + 1 /\ l < n /\ spl[l] = k
           \/ BucketIn(spl, k) = 2 * l /\ (l < n => k < spl[l])
  BY BucketLies
<1>2. PICK r \in 0 .. n :
        /\ \A i \in 0 .. n - 1 : spl[i] < m <=> i < r
        /\ \/ BucketIn(spl, m) = 2 * r + 1 /\ r < n /\ spl[r] = m
           \/ BucketIn(spl, m) = 2 * r /\ (r < n => m < spl[r])
  BY BucketLies
<1>3. l <= r
  <2> SUFFICES ASSUME r < l PROVE FALSE
    OBVIOUS
  <2>1. r \in 0 .. n - 1 /\ spl[r] \in Int
    OBVIOUS
  <2> QED BY <1>1, <1>2, <2>1
<1>4. CASE l = r
  <2>1. l < n => spl[l] \in Int
    OBVIOUS
  <2> QED BY <1>1, <1>2, <1>4, <2>1
<1> QED BY <1>1, <1>2, <1>3, <1>4

-----------------------------------------------------------------------------
(* Strings hold no terminator. *)
CStrings == Seq(1 .. NumChars - 1)

LEMMA CharsOf ==
  ASSUME NEW s \in CStrings, NEW i \in Nat
  PROVE  /\ Len(s) \in Nat
         /\ GetChar(s, i) \in 0 .. NumChars - 1
         /\ GetChar(s, i) = 0 <=> IsEnd(s, i)
         /\ ~IsEnd(s, i) => GetChar(s, i) = s[i + 1] /\ i + 1 \in 1 .. Len(s)
<1>1. Len(s) \in Nat /\ DOMAIN s = 1 .. Len(s)
  BY DEF CStrings
<1>2. CASE IsEnd(s, i)
  BY <1>1, <1>2, KeyAssumption DEF GetChar
<1>3. CASE ~IsEnd(s, i)
  <2>1. i + 1 \in 1 .. Len(s)
    BY <1>1, <1>3 DEF IsEnd
  <2>2. s[i + 1] \in 1 .. NumChars - 1
    <3> DEFINE C == 1 .. NumChars - 1
    <3>1. s \in Seq(C)
      BY DEF CStrings
    <3> HIDE DEF C
    <3>2. s[i + 1] \in C
      BY <2>1, <3>1
    <3> QED BY <3>2 DEF C
  <2> QED BY <1>1, <1>3, <2>1, <2>2, KeyAssumption DEF GetChar
<1> QED BY <1>2, <1>3

LEMMA CharTypes ==
  /\ \A s \in CStrings : Len(s) \in Nat
  /\ \A s \in CStrings, i \in Nat : GetChar(s, i) \in Int
<1>1. ASSUME NEW s \in CStrings PROVE Len(s) \in Nat
  BY DEF CStrings
<1>2. ASSUME NEW s \in CStrings, NEW i \in Nat PROVE GetChar(s, i) \in Int
  <2>1. GetChar(s, i) \in 0 .. NumChars - 1
    BY CharsOf
  <2> QED BY <2>1
<1> QED BY <1>1, <1>2

(* Two strings have their first d characters in common. *)
Share(s, t, d) == \A k \in 0 .. d - 1 : IsEqual(s, k, t, k)

(* LcpFrom is where they stop to have them, from depth on. *)
LEMMA LcpFromIs ==
  ASSUME NEW s \in CStrings, NEW t \in CStrings, NEW depth \in Nat
  PROVE  /\ LcpFrom(depth, s, t) \in Nat /\ LcpFrom(depth, s, t) >= depth
         /\ \A j \in depth .. LcpFrom(depth, s, t) - 1 : IsEqual(s, j, t, j)
         /\ ~IsEqual(s, LcpFrom(depth, s, t), t, LcpFrom(depth, s, t))
<1> DEFINE D == {k \in depth .. Len(s) - 1 : \A j \in depth .. k : IsEqual(s, j, t, j)}
           B == {i \in 0 .. Len(s) - 1 : depth + i \in D}
           h == depth + Cardinality(D)
<1>0. Len(s) \in Nat
  BY DEF CStrings
<1>1. B = 0 .. Cardinality(B) - 1 /\ Cardinality(B) \in 0 .. Len(s)
  <2>1. B \in SUBSET (0 .. Len(s) - 1)
    OBVIOUS
  <2>2. ASSUME NEW i \in B, NEW j \in 0 .. i PROVE j \in B
    BY <1>0
  <2> HIDE DEF B
  <2> QED BY <1>0, <2>1, <2>2, InitialSegment
<1>2. \A k \in Int : k \in D <=> k - depth \in B
  BY <1>0
<1>3. D \in SUBSET Int
  BY <1>0
<1> DEFINE c == Cardinality(B)
<1>4. D = depth .. depth + c - 1 /\ c \in Nat
  <2> HIDE DEF D, B
  <2>1. c \in Nat /\ B = 0 .. c - 1
    BY <1>0, <1>1
  <2> HIDE DEF c
  <2>2. \A k \in Int : k \in D <=> k \in depth .. depth + c - 1
    BY <1>2, <2>1
  <2>3. D \subseteq depth .. depth + c - 1 /\ depth .. depth + c - 1 \subseteq D
    BY <1>3, <2>1, <2>2
  <2> QED BY <2>1, <2>3
<1>5. Cardinality(D) = c
  <2> HIDE DEF D, c
  <2>1. depth + c - 1 \in Int
    BY <1>4
  <2>2. Cardinality(depth .. depth + c - 1) = c
    BY <1>4, <2>1, FS_Interval
  <2> QED BY <1>4, <2>2
<1>6. LcpFrom(depth, s, t) = h /\ h \in Nat /\ h >= depth /\ D = depth .. h - 1
  <2>1. LcpFrom(depth, s, t) = h
    BY DEF LcpFrom
  <2> HIDE DEF D, c
  <2>2. h = depth + c
    BY <1>5
  <2> QED BY <1>4, <2>1, <2>2
<1>7. \A j \in depth .. h - 1 : IsEqual(s, j, t, j)
  <2> SUFFICES ASSUME NEW j \in depth .. h - 1 PROVE IsEqual(s, j, t, j)
    OBVIOUS
  <2>1. j \in D
    BY <1>6
  <2> QED BY <2>1
<1>8. ~IsEqual(s, h, t, h)
  <2> SUFFICES ASSUME IsEqual(s, h, t, h) PROVE FALSE
    OBVIOUS
  <2>1. h < Len(s)
    BY <1>0, <1>6 DEF IsEqual, IsEnd
  <2>2. \A j \in depth .. h : IsEqual(s, j, t, j)
    BY <1>6, <1>7
  <2>3. h \in D
    BY <1>0, <1>6, <2>1, <2>2
  <2> HIDE DEF D, h
  <2> QED BY <1>6, <2>3
<1> HIDE DEF D, h
<1> QED BY <1>6, <1>7, <1>8

(* It is the only such place. *)
LEMMA LcpFromOnly ==
  ASSUME NEW s \in CStrings, NEW t \in CStrings, NEW depth \in Nat,
         NEW h \in Nat, h >= depth, \A j \in depth .. h - 1 : IsEqual(s, j, t, j),
         ~IsEqual(s, h, t, h)
  PROVE  LcpFrom(depth, s, t) = h
<1> DEFINE l == LcpFrom(depth, s, t)
<1>1. /\ l \in Nat /\ l >= depth /\ \A j \in depth .. l - 1 : IsEqual(s, j, t, j)
      /\ ~IsEqual(s, l, t, l)
  BY LcpFromIs
<1> HIDE DEF l
<1>2. ~(l < h)
  <2> SUFFICES ASSUME l < h PROVE FALSE
    OBVIOUS
  <2>1. l \in depth .. h - 1
    BY <1>1
  <2> QED BY <1>1, <2>1
<1>3. ~(h < l)
  <2> SUFFICES ASSUME h < l PROVE FALSE
    OBVIOUS
  <2>1. h \in depth .. l - 1
    BY <1>1
  <2> QED BY <1>1, <2>1
<1> QED BY <1>1, <1>2, <1>3 DEF l

LEMMA ShareLcp ==
  ASSUME NEW s \in CStrings, NEW t \in CStrings, NEW d \in Nat
  PROVE  /\ Share(s, t, d) <=> LcpFrom(0, s, t) >= d
         /\ Share(s, t, d) => d <= Len(s) /\ d <= Len(t) /\ Share(t, s, d)
<1>1. /\ LcpFrom(0, s, t) \in Nat
      /\ \A j \in 0 .. LcpFrom(0, s, t) - 1 : IsEqual(s, j, t, j)
      /\ ~IsEqual(s, LcpFrom(0, s, t), t, LcpFrom(0, s, t))
  BY LcpFromIs
<1> DEFINE h == LcpFrom(0, s, t)
<1> HIDE DEF h
<1>2. Share(s, t, d) <=> h >= d
  <2>1. ASSUME h >= d PROVE Share(s, t, d)
    <3>1. \A k \in 0 .. d - 1 : k \in 0 .. h - 1
      BY <1>1, <2>1 DEF h
    <3> QED BY <1>1, <3>1 DEF Share, h
  <2>2. ASSUME h < d PROVE ~Share(s, t, d)
    <3>1. h \in 0 .. d - 1
      BY <1>1, <2>2 DEF h
    <3> QED BY <1>1, <3>1 DEF Share, h
  <2> QED BY <1>1, <2>1, <2>2 DEF h
<1>3. ASSUME Share(s, t, d) PROVE d <= Len(s) /\ d <= Len(t)
  <2>0. Len(s) \in Nat /\ Len(t) \in Nat
    BY CharsOf
  <2>1. CASE d = 0
    BY <2>0, <2>1
  <2>2. CASE d > 0
    <3>1. d - 1 \in 0 .. d - 1
      BY <2>2
    <3>2. IsEqual(s, d - 1, t, d - 1)
      BY <1>3, <3>1 DEF Share
    <3> QED BY <2>0, <2>2, <3>2 DEF IsEqual, IsEnd
  <2> QED BY <2>1, <2>2
<1>4. Share(s, t, d) => Share(t, s, d)
  BY DEF Share, IsEqual
<1> QED BY <1>2, <1>3, <1>4 DEF h

LEMMA ShareSame ==
  ASSUME NEW s \in CStrings, NEW t \in CStrings, NEW u \in CStrings, NEW d \in Nat
  PROVE  /\ d <= Len(s) => Share(s, s, d)
         /\ Share(s, t, d) /\ Share(t, u, d) => Share(s, u, d)
         /\ \A e \in 0 .. d : Share(s, t, d) => Share(s, t, e)
<1>0. Len(s) \in Nat
  BY CharsOf
<1>1. d <= Len(s) => Share(s, s, d)
  BY <1>0 DEF Share, IsEqual, IsEnd
<1>2. Share(s, t, d) /\ Share(t, u, d) => Share(s, u, d)
  BY DEF Share, IsEqual
<1>3. \A e \in 0 .. d : Share(s, t, d) => Share(s, t, e)
  BY DEF Share
<1> QED BY <1>1, <1>2, <1>3

(* That s is before t, said without LCPs. *)
LEMMA LessIs ==
  ASSUME NEW s \in CStrings, NEW t \in CStrings, NEW d \in Nat, Share(s, t, d)
  PROVE  /\ LcpFrom(d, s, t) = LcpFrom(0, s, t)
         /\ LessFrom(d, s, t) <=> LessFrom(0, s, t)
         /\ LessFrom(0, s, t) <=> \E h \in Nat : Share(s, t, h) /\ GetChar(s, h) < GetChar(t, h)
<1> DEFINE h == LcpFrom(0, s, t)
<1>1. /\ h \in Nat /\ \A j \in 0 .. h - 1 : IsEqual(s, j, t, j)
      /\ ~IsEqual(s, h, t, h)
  BY LcpFromIs
<1>2. h >= d
  BY ShareLcp
<1>3. LcpFrom(d, s, t) = h
  <2> HIDE DEF h
  <2>1. \A j \in d .. h - 1 : IsEqual(s, j, t, j)
    BY <1>1
  <2> QED BY <1>1, <1>2, <2>1, LcpFromOnly
<1>4. LessFrom(d, s, t) <=> LessFrom(0, s, t)
  BY <1>3 DEF LessFrom
<1>5. LessFrom(0, s, t) <=> GetChar(s, h) < GetChar(t, h)
  BY DEF LessFrom
<1>6. Share(s, t, h)
  BY <1>1 DEF Share
<1>7. ASSUME NEW i \in Nat, Share(s, t, i), GetChar(s, i) < GetChar(t, i) PROVE i = h
  <2>1. GetChar(s, i) \in Int /\ GetChar(t, i) \in Int
    BY CharTypes
  <2>2. ~IsEqual(s, i, t, i)
    BY <1>7, <2>1 DEF IsEqual
  <2>3. \A j \in 0 .. i - 1 : IsEqual(s, j, t, j)
    BY <1>7 DEF Share
  <2> HIDE DEF h
  <2>4. LcpFrom(0, s, t) = i
    BY <2>2, <2>3, LcpFromOnly
  <2> QED BY <2>4 DEF h
<1> HIDE DEF h
<1> QED BY <1>1, <1>3, <1>4, <1>5, <1>6, <1>7 DEF h

(* It orders all strings. *)
LEMMA LessOrders ==
  ASSUME NEW s \in CStrings, NEW t \in CStrings
  PROVE  /\ LessFrom(0, s, t) \/ LessFrom(0, t, s) \/ s = t
         /\ ~(LessFrom(0, s, t) /\ LessFrom(0, t, s))
         /\ ~LessFrom(0, s, s)
         /\ LcpFrom(0, s, t) = LcpFrom(0, t, s)
<1> DEFINE h == LcpFrom(0, s, t)
<1>1. /\ h \in Nat /\ \A j \in 0 .. h - 1 : IsEqual(s, j, t, j)
      /\ ~IsEqual(s, h, t, h)
  BY LcpFromIs
<1>2. LcpFrom(0, t, s) = h
  <2> HIDE DEF h
  <2>1. /\ \A j \in 0 .. h - 1 : IsEqual(t, j, s, j)
        /\ ~IsEqual(t, h, s, h)
    BY <1>1 DEF IsEqual
  <2> QED BY <1>1, <2>1, LcpFromOnly
<1>3. /\ LessFrom(0, s, t) <=> GetChar(s, h) < GetChar(t, h)
      /\ LessFrom(0, t, s) <=> GetChar(t, h) < GetChar(s, h)
      /\ ~LessFrom(0, s, s)
  <2>1. \A i \in Nat : GetChar(s, i) \in Int
    BY CharsOf
  <2>2. LcpFrom(0, s, s) \in Nat
    BY LcpFromIs
  <2> QED BY <1>2, <2>1, <2>2 DEF LessFrom
<1>4. /\ GetChar(s, h) \in Int /\ GetChar(t, h) \in Int /\ Len(s) \in Nat /\ Len(t) \in Nat
      /\ GetChar(s, h) = 0 => IsEnd(s, h)
      /\ GetChar(t, h) = 0 => IsEnd(t, h)
      /\ IsEnd(s, h) => GetChar(s, h) = 0
      /\ IsEnd(t, h) => GetChar(t, h) = 0
  <2> HIDE DEF h
  <2>1. GetChar(s, h) \in Int /\ GetChar(t, h) \in Int /\ Len(s) \in Nat /\ Len(t) \in Nat
    BY <1>1, CharTypes
  <2>2. GetChar(s, h) = 0 <=> IsEnd(s, h)
    BY <1>1, CharsOf
  <2>3. GetChar(t, h) = 0 <=> IsEnd(t, h)
    BY <1>1, CharsOf
  <2> QED BY <2>1, <2>2, <2>3
<1>5. ASSUME GetChar(s, h) = GetChar(t, h) PROVE s = t
  <2>1. IsEnd(s, h) /\ IsEnd(t, h)
    BY <1>1, <1>4, <1>5 DEF IsEqual
  <2>2. Share(s, t, h)
    BY <1>1 DEF Share
  <2>3. h <= Len(s) /\ h <= Len(t)
    BY <1>1, <2>2, ShareLcp
  <2>4. Len(s) = h /\ Len(t) = h
    BY <1>1, <1>4, <2>1, <2>3 DEF IsEnd
  <2>5. ASSUME NEW k \in 1 .. h PROVE s[k] = t[k]
    <3>1. k - 1 \in 0 .. h - 1
      BY <1>1
    <3>2. IsEqual(s, k - 1, t, k - 1)
      BY <1>1, <3>1
    <3>3. s[(k - 1) + 1] = t[(k - 1) + 1]
      BY <3>2 DEF IsEqual, GetChar
    <3> QED BY <1>1, <3>3
  <2> QED
    <3> HIDE DEF h
    <3>1. s \in Seq(1 .. NumChars - 1) /\ t \in Seq(1 .. NumChars - 1)
      BY DEF CStrings
    <3> QED BY <2>4, <2>5, <3>1
<1> QED BY <1>2, <1>3, <1>4, <1>5

LEMMA LessTransitive ==
  ASSUME NEW s \in CStrings, NEW t \in CStrings, NEW u \in CStrings,
         LessFrom(0, s, t), LessFrom(0, t, u)
  PROVE  LessFrom(0, s, u)
<1>1. /\ \A x, y \in CStrings : Share(x, y, 0)
      /\ \A x, y \in CStrings : LessFrom(0, x, y) <=>
           \E h \in Nat : Share(x, y, h) /\ GetChar(x, h) < GetChar(y, h)
  <2>1. \A x, y \in CStrings : Share(x, y, 0)
    BY DEF Share
  <2> QED BY <2>1, LessIs
<1>2. PICK h \in Nat : Share(s, t, h) /\ GetChar(s, h) < GetChar(t, h)
  BY <1>1
<1>3. PICK i \in Nat : Share(t, u, i) /\ GetChar(t, i) < GetChar(u, i)
  BY <1>1
<1>4. \A x \in CStrings, k \in Nat : GetChar(x, k) \in Int
  BY CharsOf
<1>5. CASE h < i
  <2>1. Share(t, u, h)
    BY <1>3, <1>5, ShareSame
  <2>2. Share(s, u, h)
    BY <1>2, <2>1, ShareSame
  <2>3. GetChar(t, h) = GetChar(u, h)
    BY <1>3, <1>5 DEF Share, IsEqual
  <2> QED BY <1>1, <1>2, <2>2, <2>3
<1>6. CASE i < h
  <2>1. Share(s, t, i)
    BY <1>2, <1>6, ShareSame
  <2>2. Share(s, u, i)
    BY <1>3, <2>1, ShareSame
  <2>3. GetChar(s, i) = GetChar(t, i)
    BY <1>2, <1>6 DEF Share, IsEqual
  <2> QED BY <1>1, <1>3, <2>2, <2>3
<1>7. CASE h = i
  <2>1. Share(s, u, h)
    BY <1>2, <1>3, <1>7, ShareSame
  <2>2. GetChar(s, h) < GetChar(u, h)
    BY <1>2, <1>3, <1>4, <1>7
  <2> QED BY <1>1, <2>1, <2>2
<1> QED BY <1>5, <1>6, <1>7

(* The characters of the key of a string are the string's. *)
LEMMA DigitOf ==
  ASSUME NEW q \in Nat, NEW n \in Nat \ {0}, NEW r \in Nat, NEW g \in 0 .. n - 1,
         q = r * n + g
  PROVE  q % n = g
<1> DEFINE x == r * n
           k == q \div n
           y == k * n
<1>1. x \in Nat /\ q = x + g
  OBVIOUS
<1>2. x <= q /\ q < x + n
  <2> HIDE DEF x
  <2> QED BY <1>1
<1>3. k = r
  BY <1>2, QuotientIs
<1>4. q % n = q - y
  OBVIOUS
<1>5. y = x
  BY <1>3
<1> HIDE DEF x, y
<1> QED BY <1>1, <1>4, <1>5

LEMMA KeyIsSum ==
  ASSUME NEW s \in CStrings, NEW d \in Nat
  PROVE  KeyAt(s, d) = SumFunctionOnSet(
           [e \in Place |-> GetChar(s, d + e) * NumChars ^ (KeyWidth - 1 - e)], Place)
<1> DEFINE f == [e \in Place |-> GetChar(s, d + e) * NumChars ^ (KeyWidth - 1 - e)]
           it == CHOOSE g : g = [T \in SUBSET Place |->
                   IF T = {} THEN 0
                   ELSE GetChar(s, d + Pick(T)) * NumChars ^ (KeyWidth - 1 - Pick(T))
                          + g[T \ {Pick(T)}]]
<1>1. IsFiniteSet(Place) /\ Place = 0 .. KeyWidth - 1
  <2>1. 0 \in Int /\ KeyWidth - 1 \in Int
    BY KeyAssumption
  <2>2. IsFiniteSet(0 .. KeyWidth - 1)
    BY ONLY <2>1, FS_Interval
  <2> QED BY <2>2 DEF Place
<1>2. ASSUME NEW e \in Place PROVE f[e] \in Int
  <2>1. d + e \in Nat /\ KeyWidth - 1 - e \in 0 .. KeyWidth
    BY <1>1, KeyAssumption
  <2>2. GetChar(s, d + e) \in Int
    BY <2>1, CharTypes
  <2>3. NumChars ^ (KeyWidth - 1 - e) \in Int
    BY <2>1, Powers
  <2> QED BY <2>2, <2>3
<1>3. ASSUME NEW T \in SUBSET Place, T # {}
      PROVE  f[Pick(T)] = GetChar(s, d + Pick(T)) * NumChars ^ (KeyWidth - 1 - Pick(T))
  <2>1. Pick(T) \in T
    BY <1>3 DEF Pick
  <2> QED BY <2>1
<1>4. ASSUME NEW g PROVE
        [T \in SUBSET Place |->
                   IF T = {} THEN 0
                   ELSE GetChar(s, d + Pick(T)) * NumChars ^ (KeyWidth - 1 - Pick(T))
                          + g[T \ {Pick(T)}]]
        = [T \in SUBSET Place |-> IF T = {} THEN 0 ELSE f[Pick(T)] + g[T \ {Pick(T)}]]
  <2> HIDE DEF f
  <2> QED BY <1>3
<1>5. \A g : g = [T \in SUBSET Place |->
                   IF T = {} THEN 0
                   ELSE GetChar(s, d + Pick(T)) * NumChars ^ (KeyWidth - 1 - Pick(T))
                          + g[T \ {Pick(T)}]] <=> SumsUp(g, f, Place)
  <2> HIDE DEF f
  <2> QED BY <1>4 DEF SumsUp
<1>6. SumsUp(it, f, Place)
  <2> HIDE DEF f
  <2>1. \E g : SumsUp(g, f, Place)
    BY <1>1, <1>2, SumExists
  <2> QED BY <1>5, <2>1
<1>7. KeyAt(s, d) = it[Place]
  <2>1. KeyAt(s, d) =
          MapThenSumSet(LAMBDA e : GetChar(s, d + e) * NumChars ^ (KeyWidth - 1 - e), Place)
    BY DEF KeyAt, GetUint, Place
  <2> QED BY <2>1 DEF MapThenSumSet, MapThenFoldSet, Pick
<1>8. SumFunctionOnSet(f, Place) = it[Place]
  <2>1. PICK g : SumsUp(g, f, Place) /\ SumFunctionOnSet(f, Place) = g[Place]
    <3> HIDE DEF f
    <3> QED BY <1>1, <1>2, SumUnfold
  <2>2. g[Place] = it[Place]
    <3> HIDE DEF f, it
    <3> QED BY <1>1, <1>6, <2>1, SumsUpAgree
  <2> QED BY <2>1, <2>2
<1> QED BY <1>7, <1>8

LEMMA KeyDigits ==
  ASSUME NEW s \in CStrings, NEW d \in Nat
  PROVE  /\ KeyAt(s, d) \in Nat /\ KeyAt(s, d) < NumChars ^ KeyWidth
         /\ \A e \in Place : CharAt(KeyAt(s, d), e) = GetChar(s, d + e)
<1> DEFINE f == [e \in Place |-> GetChar(s, d + e) * NumChars ^ (KeyWidth - 1 - e)]
           T(e) == SumFunctionOnSet(f, e .. KeyWidth - 1)
           K == KeyAt(s, d)
<1>0. KeyWidth \in Nat \ {0} /\ NumChars \in Nat \ {0, 1} /\ Place = 0 .. KeyWidth - 1
  BY KeyAssumption DEF Place
<1>1. ASSUME NEW e \in Place
      PROVE  /\ e \in Nat /\ e < KeyWidth /\ KeyWidth - 1 - e \in 0 .. KeyWidth - 1
             /\ KeyWidth - (e + 1) = KeyWidth - 1 - e
             /\ GetChar(s, d + e) \in 0 .. NumChars - 1
             /\ NumChars ^ (KeyWidth - 1 - e) \in Nat \ {0}
             /\ NumChars ^ (KeyWidth - e) = NumChars * NumChars ^ (KeyWidth - 1 - e)
             /\ f[e] = GetChar(s, d + e) * NumChars ^ (KeyWidth - 1 - e) /\ f[e] \in Nat
  <2>1. /\ e \in Nat /\ e < KeyWidth /\ KeyWidth - 1 - e \in 0 .. KeyWidth - 1
        /\ KeyWidth - (e + 1) = KeyWidth - 1 - e
        /\ (KeyWidth - 1 - e) + 1 = KeyWidth - e /\ KeyWidth - 1 - e \in 0 .. KeyWidth
    BY <1>0
  <2>2. GetChar(s, d + e) \in 0 .. NumChars - 1
    <3>1. d + e \in Nat
      BY <2>1
    <3> QED BY <3>1, CharsOf
  <2>3. /\ NumChars ^ (KeyWidth - 1 - e) \in Nat \ {0}
        /\ NumChars ^ (KeyWidth - e) = NumChars * NumChars ^ (KeyWidth - 1 - e)
    <3> DEFINE k == KeyWidth - 1 - e
    <3>1. k \in 0 .. KeyWidth - 1 /\ k \in 0 .. KeyWidth /\ k + 1 = KeyWidth - e
      BY <2>1
    <3> HIDE DEF k
    <3>2. NumChars ^ k \in Nat \ {0} /\ NumChars ^ (k + 1) = NumChars * NumChars ^ k
      BY <3>1, Powers, PowerAssumption
    <3> QED BY <3>1, <3>2 DEF k
  <2>4. f[e] = GetChar(s, d + e) * NumChars ^ (KeyWidth - 1 - e)
    OBVIOUS
  <2>5. f[e] \in Nat
    <3> DEFINE c == GetChar(s, d + e)
               m == NumChars ^ (KeyWidth - 1 - e)
    <3>1. c \in Nat /\ m \in Nat /\ f[e] = c * m
      BY <1>0, <2>2, <2>3, <2>4
    <3> HIDE DEF c, m, f
    <3> QED BY <3>1
  <2> QED BY <2>1, <2>2, <2>3, <2>4, <2>5
<1> HIDE DEF f
<1>2. T(KeyWidth) = 0
  <2>1. KeyWidth .. KeyWidth - 1 = {}
    BY <1>0
  <2> QED BY <2>1, SumEmpty
<1>3. ASSUME NEW e \in Place PROVE T(e) = f[e] + T(e + 1)
  <2> DEFINE S == e .. KeyWidth - 1
  <2>1. e \in Int /\ KeyWidth - 1 \in Int
    BY <1>0, <1>1
  <2>2. IsFiniteSet(S)
    BY ONLY <2>1, FS_Interval
  <2>6. e \in Nat /\ e < KeyWidth
    BY <1>1
  <2>3. \A x \in S : f[x] \in Int
    <3>1. \A x \in S : x \in Place
      BY <1>0, <2>6
    <3>2. \A x \in Place : f[x] \in Int
      BY <1>1
    <3> QED BY <3>1, <3>2
  <2>4. e \in S /\ S \ {e} = (e + 1) .. KeyWidth - 1
    <3>1. e \in S
      BY <1>0, <2>6
    <3>2. S \ {e} = (e + 1) .. KeyWidth - 1
      BY <1>0, <2>6
    <3> QED BY <3>1, <3>2
  <2> HIDE DEF S
  <2>5. SumFunctionOnSet(f, S) = f[e] + SumFunctionOnSet(f, S \ {e})
    BY <2>2, <2>3, <2>4, SumStep
  <2> QED BY <2>4, <2>5 DEF S
<1> HIDE DEF T
(* What follows place e is less than what one there counts. *)
<1>4. \A e \in 0 .. KeyWidth : T(e) \in Nat /\ T(e) < NumChars ^ (KeyWidth - e)
  <2> DEFINE P == {k \in Nat : k <= KeyWidth =>
                     T(KeyWidth - k) \in Nat /\ T(KeyWidth - k) < NumChars ^ k}
  <2>1. 0 \in P
    BY <1>0, <1>2, PowerAssumption
  <2>2. ASSUME NEW k \in P PROVE k + 1 \in P
    <3> SUFFICES ASSUME k + 1 <= KeyWidth
                 PROVE  T(KeyWidth - (k + 1)) \in Nat /\ T(KeyWidth - (k + 1)) < NumChars ^ (k + 1)
      OBVIOUS
    <3> DEFINE e == KeyWidth - (k + 1)
    <3>1. /\ e \in Place /\ e + 1 = KeyWidth - k /\ KeyWidth - 1 - e = k /\ KeyWidth - e = k + 1
          /\ k \in Nat /\ T(KeyWidth - k) \in Nat /\ T(KeyWidth - k) < NumChars ^ k
      BY <1>0
    <3> HIDE DEF e
    <3> DEFINE c == GetChar(s, d + e)
               m == NumChars ^ k
               t == T(e + 1)
    <3>2. /\ c \in 0 .. NumChars - 1 /\ m \in Nat \ {0} /\ NumChars ^ (k + 1) = NumChars * m
          /\ T(e) = c * m + t /\ t \in Nat /\ t < m
      BY <1>1, <1>3, <3>1
    <3> HIDE DEF c, m, t
    <3>3. c * m \in Nat /\ (c + 1) * m <= NumChars * m /\ (c + 1) * m = c * m + m
      <4>1. c + 1 \in Nat /\ c + 1 <= NumChars /\ m \in Nat
        BY <1>0, <3>2
      <4>2. c * m \in Nat /\ (c + 1) * m = c * m + m
        BY <1>0, <3>2
      <4>3. CASE c + 1 = NumChars
        BY <1>0, <4>1, <4>2, <4>3
      <4>4. CASE c + 1 < NumChars
        <5>1. c < NumChars /\ c \in Nat /\ NumChars \in Nat
          BY <1>0, <3>2
        <5> QED BY <4>1, <4>2, <5>1, Multiples
      <4> QED BY <1>0, <4>1, <4>3, <4>4
    <3> DEFINE x == c * m
               y == NumChars * m
    <3>4. x \in Nat /\ y \in Int /\ x + m <= y /\ T(e) = x + t
      BY <1>0, <3>2, <3>3
    <3> HIDE DEF x
    <3>5. T(e) \in Nat /\ T(e) < y
      <4> HIDE DEF y
      <4> QED BY <3>2, <3>4
    <3> QED BY <3>2, <3>5 DEF e
  <2>3. P = Nat
    <3> HIDE DEF P
    <3>1. P \in SUBSET Nat
      BY DEF P
    <3> QED BY <2>1, <2>2, <3>1, NatInd
  <2> SUFFICES ASSUME NEW e \in 0 .. KeyWidth
               PROVE  T(e) \in Nat /\ T(e) < NumChars ^ (KeyWidth - e)
    OBVIOUS
  <2>4. KeyWidth - e \in Nat /\ KeyWidth - e <= KeyWidth /\ KeyWidth - (KeyWidth - e) = e
    BY <1>0
  <2>5. KeyWidth - e \in P
    <3> HIDE DEF P
    <3> QED BY <2>3, <2>4
  <2>6. T(KeyWidth - (KeyWidth - e)) \in Nat
        /\ T(KeyWidth - (KeyWidth - e)) < NumChars ^ (KeyWidth - e)
    BY <2>4, <2>5
  <2> QED BY <2>4, <2>6
<1>5. K = T(0)
  BY <1>0, KeyIsSum DEF T, f
<1> HIDE DEF K
(* What precedes it counts that much several times.                        *)
<1>6. \A e \in 0 .. KeyWidth : \E r \in Nat : K = r * NumChars ^ (KeyWidth - e) + T(e)
  <2> DEFINE P == {e \in Nat : e <= KeyWidth =>
                     \E r \in Nat : K = r * NumChars ^ (KeyWidth - e) + T(e)}
  <2>1. 0 \in P
    <3>1. T(0) \in Nat /\ NumChars ^ KeyWidth \in Nat /\ KeyWidth - 0 = KeyWidth
      BY <1>0, <1>4, Powers
    <3>2. K = 0 * NumChars ^ KeyWidth + T(0)
      BY <1>5, <3>1
    <3> QED BY <3>1, <3>2
  <2>2. ASSUME NEW e \in P PROVE e + 1 \in P
    <3> SUFFICES ASSUME e + 1 <= KeyWidth
                 PROVE  \E r \in Nat : K = r * NumChars ^ (KeyWidth - (e + 1)) + T(e + 1)
      OBVIOUS
    <3>1. e \in Place /\ e + 1 \in 0 .. KeyWidth
      BY <1>0
    <3>2. PICK r \in Nat : K = r * NumChars ^ (KeyWidth - e) + T(e)
      BY <1>0
    <3> DEFINE c == GetChar(s, d + e)
               m == NumChars ^ (KeyWidth - (e + 1))
               t == T(e + 1)
    <3>3. /\ c \in Nat /\ m \in Nat /\ t \in Nat /\ NumChars \in Nat
          /\ NumChars ^ (KeyWidth - e) = NumChars * m /\ T(e) = c * m + t
      BY <1>0, <1>1, <1>3, <1>4, <3>1
    <3> HIDE DEF c, m, t
    <3>4. K = (r * NumChars + c) * m + t
      <4>1. r * (NumChars * m) = (r * NumChars) * m /\ r * NumChars \in Nat
        BY <3>3
      <4> DEFINE y == r * NumChars
      <4>2. y \in Nat /\ K = y * m + (c * m + t)
        BY <3>2, <3>3, <4>1
      <4> HIDE DEF y
      <4>3. K = (y + c) * m + t
        BY <3>3, <4>2
      <4> QED BY <4>3 DEF y
    <3>5. r * NumChars + c \in Nat
      BY <3>3
    <3> QED BY <3>4, <3>5 DEF m, t
  <2>3. P = Nat
    <3> HIDE DEF P
    <3>1. P \in SUBSET Nat
      BY DEF P
    <3> QED BY <2>1, <2>2, <3>1, NatInd
  <2>4. \A e \in 0 .. KeyWidth : e \in P /\ e <= KeyWidth
    <3> HIDE DEF P
    <3> QED BY <1>0, <2>3
  <2> QED BY <2>4
<1>7. K \in Nat /\ K < NumChars ^ KeyWidth
  <2>1. 0 \in 0 .. KeyWidth /\ KeyWidth - 0 = KeyWidth
    BY <1>0
  <2> QED BY <1>4, <1>5, <2>1
<1>8. ASSUME NEW e \in Place PROVE CharAt(K, e) = GetChar(s, d + e)
  <2>1. e \in 0 .. KeyWidth /\ e + 1 \in 0 .. KeyWidth
    BY <1>0
  <2>2. PICK r \in Nat : K = r * NumChars ^ (KeyWidth - e) + T(e)
    BY <1>6, <2>1
  <2> DEFINE c == GetChar(s, d + e)
             m == NumChars ^ (KeyWidth - 1 - e)
             t == T(e + 1)
             y == r * NumChars
  <2>3. /\ c \in 0 .. NumChars - 1 /\ m \in Nat \ {0} /\ t \in Nat /\ t < m
        /\ NumChars ^ (KeyWidth - e) = NumChars * m /\ T(e) = c * m + t
    BY <1>0, <1>1, <1>3, <1>4, <2>1
  <2>4. CharAt(K, e) = (K \div m) % NumChars
    BY DEF CharAt
  <2> HIDE DEF c, m, t
  <2>5. y \in Nat /\ r * (NumChars * m) = y * m
    BY <1>0, <2>3
  <2>6. K = y * m + (c * m + t)
    BY <2>2, <2>3, <2>5
  <2> HIDE DEF y
  <2>7. K = (y + c) * m + t /\ y + c \in Nat
    BY <1>0, <2>3, <2>5, <2>6
  <2>8. K \div m = y + c
    <3> DEFINE b == y + c
               z == b * m
    <3>1. z \in Nat /\ K = z + t
      BY <2>3, <2>7
    <3>2. z <= K /\ K < z + m
      <4> HIDE DEF z
      <4> QED BY <2>3, <3>1
    <3>3. b \in Nat /\ b * m <= K /\ K < b * m + m
      BY <2>7, <3>2
    <3> HIDE DEF b
    <3>4. K \div m = b
      BY <1>7, <2>3, <3>3, QuotientIs
    <3> QED BY <3>4 DEF b
  <2>9. (y + c) % NumChars = c
    <3>1. y + c \in Nat /\ y + c = r * NumChars + c /\ NumChars \in Nat \ {0}
      BY <1>0, <2>7 DEF y
    <3> QED BY <2>3, <3>1, DigitOf
  <2> QED BY <2>4, <2>8, <2>9 DEF c
<1> QED BY <1>7, <1>8 DEF K

(* Different keys have the characters before their LCP in common, none of  *)
(* them a terminator, and are in the order of the next ones.               *)
LEMMA KeysDiffer ==
  ASSUME NEW a \in Keys, NEW b \in Keys, a # b
  PROVE  /\ KeyLcp(a, b) \in Place
         /\ \A e \in 0 .. KeyLcp(a, b) - 1 :
              CharAt(a, e) = CharAt(b, e) /\ CharAt(a, e) # 0
         /\ CharAt(a, KeyLcp(a, b)) # CharAt(b, KeyLcp(a, b))
         /\ a < b => CharAt(a, KeyLcp(a, b)) < CharAt(b, KeyLcp(a, b))
<1> DEFINE l == KeyLcp(a, b)
<1>0. /\ KeyWidth \in Nat \ {0} /\ Place = 0 .. KeyWidth - 1
      /\ a \in Nat /\ b \in Nat /\ a < NumChars ^ KeyWidth /\ b < NumChars ^ KeyWidth
  BY KeyAssumption, KeysAreNumbers DEF Place
<1>1. l \in 0 .. KeyWidth /\ \A d \in 0 .. KeyWidth : d <= l <=> Prefix(a, d) = Prefix(b, d)
  BY KeyLcpIsPrefix
<1>2. l \in Place
  BY <1>0, <1>1, KeyLcpFull
<1> HIDE DEF l
<1>3. \A e \in 0 .. l - 1 : CharAt(a, e) = CharAt(b, e)
  <2>1. Prefix(a, l) = Prefix(b, l)
    BY <1>0, <1>1
  <2> QED BY <1>0, <1>1, <2>1, PrefixIsChars
<1>4. /\ CharAt(a, l) # CharAt(b, l)
      /\ a < b => CharAt(a, l) < CharAt(b, l)
  <2>1. Prefix(a, l) = Prefix(b, l) /\ Prefix(a, l + 1) # Prefix(b, l + 1)
    <3>1. l + 1 \in 0 .. KeyWidth /\ ~(l + 1 <= l) /\ l \in 0 .. KeyWidth
      BY <1>0, <1>2
    <3> QED BY <1>1, <3>1
  <2> DEFINE p == NumChars * Prefix(a, l)
             x == CharAt(a, l)
             y == CharAt(b, l)
             v == Prefix(a, l + 1)
             w == Prefix(b, l + 1)
  <2>2. x \in Int /\ y \in Int /\ p \in Int /\ v = p + x /\ w = p + y
    <3>1. /\ Prefix(a, l) \in Nat /\ CharAt(a, l) \in 0 .. NumChars - 1
          /\ Prefix(a, l + 1) = NumChars * Prefix(a, l) + CharAt(a, l)
      BY <1>0, <1>2, PrefixStep
    <3>2. /\ CharAt(b, l) \in 0 .. NumChars - 1
          /\ Prefix(b, l + 1) = NumChars * Prefix(b, l) + CharAt(b, l)
      BY <1>0, <1>2, PrefixStep
    <3> QED BY <2>1, <3>1, <3>2, KeyAssumption
  <2>3. a < b => v <= w
    <3>1. NumChars ^ (KeyWidth - (l + 1)) \in Nat \ {0}
      <4>1. KeyWidth - (l + 1) \in 0 .. KeyWidth
        BY <1>0, <1>2
      <4> QED BY <4>1, Powers
    <3> QED BY <1>0, <3>1, QuotientMonotonic DEF Prefix
  <2> HIDE DEF p, x, y, v, w
  <2>4. x # y /\ (a < b => x < y)
    <3>1. v # w
      BY <2>1 DEF v, w
    <3> QED BY <2>2, <2>3, <3>1
  <2> QED BY <2>4 DEF x, y
<1>5. ASSUME NEW e \in 0 .. l - 1, CharAt(a, e) = 0 PROVE FALSE
  <2>1. e \in Place /\ e < l /\ l \in Place
    BY <1>0, <1>2
  <2>2. CharAt(a, l) = 0
    BY <1>5, <2>1 DEF Keys
  <2>3. CharAt(b, e) = 0
    BY <1>3, <1>5
  <2>4. CharAt(b, l) = 0
    BY <2>1, <2>3 DEF Keys
  <2> QED BY <1>4, <2>2, <2>4
<1> QED BY <1>2, <1>3, <1>4, <1>5 DEF l

LEMMA KeyIsKey ==
  ASSUME NEW s \in CStrings, NEW d \in Nat
  PROVE  KeyAt(s, d) \in Keys
<1> DEFINE K == KeyAt(s, d)
<1>1. /\ K \in Nat /\ K < NumChars ^ KeyWidth
      /\ \A e \in Place : CharAt(K, e) = GetChar(s, d + e)
  BY KeyDigits
<1>2. KeyWidth \in Nat \ {0} /\ Place = 0 .. KeyWidth - 1 /\ NumChars ^ KeyWidth \in Nat
  BY KeyAssumption, Powers DEF Place
<1> HIDE DEF K
<1>3. ASSUME NEW i \in Place, NEW j \in Place, i < j, CharAt(K, i) = 0
      PROVE  CharAt(K, j) = 0
  <2>1. d + i \in Nat /\ d + j \in Nat /\ d + i <= d + j
    BY <1>2, <1>3
  <2>2. GetChar(s, d + i) = 0
    BY <1>1, <1>3
  <2>3. Len(s) \in Nat /\ (IsEnd(s, d + i) <=> GetChar(s, d + i) = 0)
    BY <2>1, CharsOf
  <2>4. IsEnd(s, d + i)
    BY <2>2, <2>3
  <2>5. IsEnd(s, d + j)
    BY <2>1, <2>3, <2>4 DEF IsEnd
  <2>6. GetChar(s, d + j) = 0
    BY <2>5 DEF GetChar
  <2> QED BY <1>1, <2>6
<1>4. K \in 0 .. NumChars ^ KeyWidth - 1
  BY <1>1, <1>2
<1>5. K \in Keys
  BY <1>3, <1>4 DEF Keys
<1> QED BY <1>5 DEF K

(* Strings with their first d characters in common, by their next keys.    *)
LEMMA KeysApart ==
  ASSUME NEW s \in CStrings, NEW t \in CStrings, NEW d \in Nat, Share(s, t, d),
         KeyAt(s, d) # KeyAt(t, d)
  PROVE  /\ LcpFrom(0, s, t) = d + KeyLcp(KeyAt(s, d), KeyAt(t, d))
         /\ KeyAt(s, d) < KeyAt(t, d) => LessFrom(0, s, t)
<1> DEFINE a == KeyAt(s, d)
           b == KeyAt(t, d)
           l == KeyLcp(a, b)
<1>0. a \in Keys /\ b \in Keys
  BY KeyIsKey
<1>1. /\ \A e \in Place : CharAt(a, e) = GetChar(s, d + e)
      /\ \A e \in Place : CharAt(b, e) = GetChar(t, d + e)
  BY KeyDigits
<1> HIDE DEF a, b
<1>2. /\ l \in Place
      /\ \A e \in 0 .. l - 1 : CharAt(a, e) = CharAt(b, e) /\ CharAt(a, e) # 0
      /\ CharAt(a, l) # CharAt(b, l)
      /\ a < b => CharAt(a, l) < CharAt(b, l)
  <2>1. a # b
    BY DEF a, b
  <2> QED BY <1>0, <2>1, KeysDiffer
<1> HIDE DEF l
<1>3. l \in Nat /\ \A e \in 0 .. l - 1 : e \in Place
  BY <1>2, KeyAssumption DEF Place
<1>4. ASSUME NEW k \in 0 .. d + l - 1 PROVE IsEqual(s, k, t, k)
  <2>1. CASE k < d
    BY <2>1 DEF Share
  <2>2. CASE k >= d
    <3> DEFINE e == k - d
    <3>1. e \in 0 .. l - 1 /\ k = d + e /\ k \in Nat
      BY <1>3, <2>2
    <3> HIDE DEF e
    <3>2. GetChar(s, k) = GetChar(t, k) /\ GetChar(s, k) # 0
      BY <1>1, <1>2, <1>3, <3>1
    <3>3. (GetChar(s, k) = 0 <=> IsEnd(s, k)) /\ (GetChar(t, k) = 0 <=> IsEnd(t, k))
      BY <3>1, CharsOf
    <3> QED BY <3>2, <3>3 DEF IsEqual
  <2> QED BY <1>3, <2>1, <2>2
<1>5. GetChar(s, d + l) # GetChar(t, d + l) /\ (a < b => GetChar(s, d + l) < GetChar(t, d + l))
  BY <1>1, <1>2
<1>6. LcpFrom(0, s, t) = d + l
  <2> DEFINE h == d + l
  <2>1. ~IsEqual(s, h, t, h) /\ h \in Nat /\ h >= 0
    BY <1>3, <1>5 DEF IsEqual
  <2>2. \A k \in 0 .. h - 1 : IsEqual(s, k, t, k)
    <3> SUFFICES ASSUME NEW k \in 0 .. h - 1 PROVE IsEqual(s, k, t, k)
      OBVIOUS
    <3>1. k \in 0 .. d + l - 1
      BY <1>3
    <3> QED BY <1>4, <3>1
  <2> HIDE DEF h
  <2>3. LcpFrom(0, s, t) = h
    BY <2>1, <2>2, LcpFromOnly
  <2> QED BY <2>3 DEF h
<1>7. a < b => LessFrom(0, s, t)
  BY <1>5, <1>6 DEF LessFrom
<1> QED BY <1>6, <1>7 DEF l, a, b

LEMMA KeysSame ==
  ASSUME NEW s \in CStrings, NEW t \in CStrings, NEW d \in Nat, Share(s, t, d),
         KeyAt(s, d) = KeyAt(t, d)
  PROVE  /\ ~Terminated(KeyAt(s, d)) => Share(s, t, d + KeyWidth)
         /\ Terminated(KeyAt(s, d)) => s = t
<1> DEFINE a == KeyAt(s, d)
           w == d + KeyWidth - 1
<1>0. KeyWidth \in Nat \ {0} /\ Place = 0 .. KeyWidth - 1 /\ w \in Nat
  BY KeyAssumption DEF Place
<1>1. /\ \A e \in Place : CharAt(a, e) = GetChar(s, d + e)
      /\ \A e \in Place : CharAt(a, e) = GetChar(t, d + e)
  BY KeyDigits
<1>2. \A k \in d .. w : GetChar(s, k) = GetChar(t, k)
  <2> SUFFICES ASSUME NEW k \in d .. w PROVE GetChar(s, k) = GetChar(t, k)
    OBVIOUS
  <2>1. k - d \in Place /\ d + (k - d) = k
    BY <1>0
  <2> QED BY <1>1, <2>1
<1>3. Terminated(a) <=> GetChar(s, w) = 0
  <2>1. KeyWidth - 1 \in Place /\ d + (KeyWidth - 1) = w
    BY <1>0
  <2> QED BY <1>1, <2>1 DEF Terminated
<1> HIDE DEF w
<1>4. /\ IsEnd(s, w) <=> GetChar(s, w) = 0
      /\ IsEnd(t, w) <=> GetChar(s, w) = 0
      /\ Len(s) \in Nat /\ Len(t) \in Nat
  <2>1. GetChar(s, w) = GetChar(t, w)
    BY <1>0, <1>2 DEF w
  <2>2. /\ IsEnd(s, w) <=> GetChar(s, w) = 0
        /\ IsEnd(t, w) <=> GetChar(t, w) = 0
    BY <1>0, CharsOf
  <2> QED BY <2>1, <2>2, CharTypes
<1>5. ASSUME ~Terminated(a) PROVE Share(s, t, d + KeyWidth)
  <2> SUFFICES \A k \in 0 .. (d + KeyWidth) - 1 : IsEqual(s, k, t, k)
    BY DEF Share
  <2> SUFFICES ASSUME NEW k \in 0 .. (d + KeyWidth) - 1 PROVE IsEqual(s, k, t, k)
    OBVIOUS
  <2>1. ~IsEnd(s, k) /\ ~IsEnd(t, k)
    BY <1>0, <1>3, <1>4, <1>5 DEF IsEnd, w
  <2>2. CASE k < d
    BY <2>2 DEF Share
  <2>3. CASE k >= d
    BY <1>0, <1>2, <2>1, <2>3 DEF IsEqual, w
  <2> QED BY <1>0, <2>2, <2>3
<1>6. ASSUME Terminated(a) PROVE s = t
  <2>1. IsEnd(s, w) /\ IsEnd(t, w)
    BY <1>3, <1>4, <1>6
  <2>2. \A k \in Nat : k >= d => GetChar(s, k) = GetChar(t, k)
    <3> SUFFICES ASSUME NEW k \in Nat, k >= d PROVE GetChar(s, k) = GetChar(t, k)
      OBVIOUS
    <3>1. CASE k <= w
      BY <1>0, <1>2, <3>1
    <3>2. CASE k > w
      <4>1. IsEnd(s, k) /\ IsEnd(t, k)
        BY <1>0, <1>4, <2>1, <3>2 DEF IsEnd
      <4> QED BY <4>1 DEF GetChar
    <3> QED BY <1>0, <3>1, <3>2
  <2>3. LcpFrom(0, s, t) >= d /\ LcpFrom(0, s, t) \in Nat
    BY ShareLcp, LcpFromIs
  <2>4. GetChar(s, LcpFrom(0, s, t)) = GetChar(t, LcpFrom(0, s, t))
    BY <2>2, <2>3
  <2>5. GetChar(s, LcpFrom(0, s, t)) \in Int
    BY <2>3, CharTypes
  <2>6. ~LessFrom(0, s, t) /\ ~LessFrom(0, t, s)
    BY <2>4, <2>5, LessOrders DEF LessFrom
  <2> QED BY <2>6, LessOrders
<1> QED BY <1>5, <1>6

(* Strings between two keys have in common what these have.                *)
LEMMA KeysBetween ==
  ASSUME NEW s \in CStrings, NEW t \in CStrings, NEW d \in Nat, Share(s, t, d),
         NEW x \in Keys, NEW y \in Keys,
         x < KeyAt(s, d), KeyAt(s, d) < y, x < KeyAt(t, d), KeyAt(t, d) < y
  PROVE  Share(s, t, d + KeyLcp(x, y))
<1> DEFINE a == KeyAt(s, d)
           b == KeyAt(t, d)
           h == KeyLcp(x, y)
<1>1. a \in Keys /\ b \in Keys /\ x \in Int /\ y \in Int
  BY KeyIsKey, KeysAreNumbers
<1> HIDE DEF a, b
<1>2. a \in Int /\ b \in Int
  BY <1>1, KeysAreNumbers
<1>3. x < a /\ a < y /\ x < b /\ b < y
  BY DEF a, b
<1>4. h <= KeyLcp(a, b) /\ h <= KeyLcp(x, a)
  <2>1. x <= a /\ a <= y /\ x <= b /\ b <= y /\ x <= x /\ x <= y
    BY <1>1, <1>2, <1>3
  <2> QED BY <1>1, <2>1, KeyLcpBetween
<1>5. h \in Nat /\ h <= KeyWidth /\ KeyLcp(a, b) \in Nat /\ KeyLcp(x, a) \in Nat
  <2>1. h \in 0 .. KeyWidth /\ KeyLcp(a, b) \in 0 .. KeyWidth /\ KeyLcp(x, a) \in 0 .. KeyWidth
    BY <1>1, KeyLcpIsPrefix
  <2> QED BY <2>1, KeyAssumption
<1> HIDE DEF h
<1>6. CASE a # b
  <2>1. LcpFrom(0, s, t) = d + KeyLcp(a, b)
    BY <1>6, KeysApart DEF a, b
  <2>2. LcpFrom(0, s, t) >= d + h /\ d + h \in Nat
    BY <1>4, <1>5, <2>1
  <2>3. Share(s, t, d + h)
    BY <2>2, ShareLcp
  <2> QED BY <2>3 DEF h
<1>7. CASE a = b
  <2>1. \A e \in Place : CharAt(a, e) = GetChar(s, d + e) /\ CharAt(a, e) = GetChar(t, d + e)
    BY <1>7, KeyDigits DEF a, b
  <2>2. \A e \in 0 .. h - 1 : CharAt(a, e) # 0 /\ e \in Place
    <3>1. x # a
      BY <1>1, <1>3
    <3>2. \A e \in 0 .. KeyLcp(x, a) - 1 : CharAt(x, e) = CharAt(a, e) /\ CharAt(x, e) # 0
      BY <1>1, <3>1, KeysDiffer
    <3> QED BY <1>4, <1>5, <3>2, KeyAssumption DEF Place
  <2> SUFFICES \A k \in 0 .. (d + h) - 1 : IsEqual(s, k, t, k)
    BY DEF Share, h
  <2> SUFFICES ASSUME NEW k \in 0 .. (d + h) - 1 PROVE IsEqual(s, k, t, k)
    OBVIOUS
  <2>3. CASE k < d
    BY <2>3 DEF Share
  <2>4. CASE k >= d
    <3> DEFINE e == k - d
    <3>1. e \in 0 .. h - 1 /\ k = d + e /\ k \in Nat
      BY <1>5, <2>4
    <3> HIDE DEF e
    <3>2. GetChar(s, k) = GetChar(t, k) /\ GetChar(s, k) # 0
      BY <2>1, <2>2, <3>1
    <3>3. (GetChar(s, k) = 0 <=> IsEnd(s, k)) /\ (GetChar(t, k) = 0 <=> IsEnd(t, k))
      BY <3>1, CharsOf
    <3> QED BY <3>2, <3>3 DEF IsEqual
  <2> QED BY <1>5, <2>3, <2>4
<1> QED BY <1>6, <1>7

-----------------------------------------------------------------------------
(* The values of f on D are those of g on D in another order.              *)
Bijective(p, D) ==
  /\ p \in [D -> D]
  /\ \A i, j \in D : p[i] = p[j] => i = j
  /\ \A j \in D : \E i \in D : p[i] = j

Permuted(f, g, D) == \E p : Bijective(p, D) /\ \A i \in D : g[i] = f[p[i]]

LEMMA PermutedSame ==
  ASSUME NEW D, NEW f, NEW g, \A i \in D : g[i] = f[i]
  PROVE  Permuted(f, g, D)
<1> DEFINE p == [i \in D |-> i]
<1>1. Bijective(p, D)
  BY DEF Bijective
<1>2. \A i \in D : g[i] = f[p[i]]
  OBVIOUS
<1> HIDE DEF p
<1> QED BY <1>1, <1>2 DEF Permuted

LEMMA PermutedTwice ==
  ASSUME NEW D, NEW f, NEW g, NEW h, Permuted(f, g, D), Permuted(g, h, D)
  PROVE  Permuted(f, h, D)
<1>1. PICK p : Bijective(p, D) /\ \A i \in D : g[i] = f[p[i]]
  BY DEF Permuted
<1>2. PICK q : Bijective(q, D) /\ \A i \in D : h[i] = g[q[i]]
  BY DEF Permuted
<1> DEFINE r == [i \in D |-> p[q[i]]]
<1>3. Bijective(r, D)
  <2>1. r \in [D -> D]
    BY <1>1, <1>2 DEF Bijective
  <2>2. ASSUME NEW i \in D, NEW j \in D, r[i] = r[j] PROVE i = j
    <3>1. q[i] \in D /\ q[j] \in D /\ p[q[i]] = p[q[j]]
      BY <1>2, <2>2 DEF Bijective
    <3>2. q[i] = q[j]
      BY <1>1, <3>1 DEF Bijective
    <3> QED BY <1>2, <3>2 DEF Bijective
  <2>3. ASSUME NEW j \in D PROVE \E i \in D : r[i] = j
    <3>1. PICK k \in D : p[k] = j
      BY <1>1 DEF Bijective
    <3>2. PICK i \in D : q[i] = k
      BY <1>2 DEF Bijective
    <3> QED BY <3>1, <3>2
  <2> HIDE DEF r
  <2> QED BY <2>1, <2>2, <2>3 DEF Bijective
<1>4. \A i \in D : h[i] = f[r[i]]
  BY <1>1, <1>2 DEF Bijective
<1> HIDE DEF r
<1> QED BY <1>3, <1>4 DEF Permuted

(* Of a part, when the rest is as it was. *)
LEMMA PermutedPart ==
  ASSUME NEW D, NEW E \in SUBSET D, NEW f, NEW g, Permuted(f, g, E),
         \A i \in D \ E : g[i] = f[i]
  PROVE  Permuted(f, g, D)
<1>1. PICK p : Bijective(p, E) /\ \A i \in E : g[i] = f[p[i]]
  BY DEF Permuted
<1> DEFINE q == [i \in D |-> IF i \in E THEN p[i] ELSE i]
<1>2. \A i \in E : p[i] \in E
  BY <1>1 DEF Bijective
<1>3. Bijective(q, D)
  <2>1. q \in [D -> D]
    BY <1>2
  <2>2. \A i, j \in D : q[i] = q[j] => i = j
    <3> SUFFICES ASSUME NEW i \in D, NEW j \in D, q[i] = q[j] PROVE i = j
      OBVIOUS
    <3>1. CASE i \in E /\ j \in E
      BY <1>1, <3>1 DEF Bijective
    <3>2. CASE i \in E /\ j \notin E
      BY <1>2, <3>2
    <3>3. CASE i \notin E /\ j \in E
      BY <1>2, <3>3
    <3>4. CASE i \notin E /\ j \notin E
      BY <3>4
    <3> QED BY <3>1, <3>2, <3>3, <3>4
  <2>3. \A j \in D : \E i \in D : q[i] = j
    <3> SUFFICES ASSUME NEW j \in D PROVE \E i \in D : q[i] = j
      OBVIOUS
    <3>1. CASE j \in E
      <4>1. PICK i \in E : p[i] = j
        BY <1>1, <3>1 DEF Bijective
      <4> QED BY <4>1
    <3>2. CASE j \notin E
      BY <3>2
    <3> QED BY <3>1, <3>2
  <2> HIDE DEF q
  <2> QED BY <2>1, <2>2, <2>3 DEF Bijective
<1>4. \A i \in D : g[i] = f[q[i]]
  BY <1>1
<1> HIDE DEF q
<1> QED BY <1>3, <1>4 DEF Permuted

(* What holds of all values of f on D holds of those of g.                 *)
LEMMA PermutedFrom ==
  ASSUME NEW D, NEW f, NEW g, Permuted(f, g, D)
  PROVE  \A i \in D : \E j \in D : g[i] = f[j]
BY DEF Permuted, Bijective

(* The values depend on nothing else. *)
LEMMA PermutedAgree ==
  ASSUME NEW D, NEW f, NEW g, Permuted(f, g, D), NEW e, NEW h,
         \A i \in D : e[i] = f[i] /\ h[i] = g[i]
  PROVE  Permuted(e, h, D)
<1>1. PICK p : Bijective(p, D) /\ \A i \in D : g[i] = f[p[i]]
  BY DEF Permuted
<1>2. \A i \in D : h[i] = e[p[i]]
  BY <1>1 DEF Bijective
<1> QED BY <1>1, <1>2 DEF Permuted

(* A value moved down past others. *)
LEMMA MoveDownPermutes ==
  ASSUME NEW D \in SUBSET Int, NEW f, DOMAIN f = D, NEW i \in Int, NEW j \in Int, i <= j,
         i .. j \subseteq D
  PROVE  /\ DOMAIN MoveDown(f, i, j) = D
         /\ \A k \in D \ (i .. j) : MoveDown(f, i, j)[k] = f[k]
         /\ Permuted(f, MoveDown(f, i, j), i .. j)
<1> DEFINE p == [k \in i .. j |-> IF k = i THEN j ELSE k - 1]
<1>1. Bijective(p, i .. j)
  <2>1. p \in [i .. j -> i .. j]
    OBVIOUS
  <2>2. \A k, l \in i .. j : p[k] = p[l] => k = l
    OBVIOUS
  <2>3. \A l \in i .. j : \E k \in i .. j : p[k] = l
    <3> SUFFICES ASSUME NEW l \in i .. j PROVE \E k \in i .. j : p[k] = l
      OBVIOUS
    <3>1. CASE l = j
      <4>1. i \in i .. j /\ p[i] = l
        BY <3>1
      <4> QED BY <4>1
    <3>2. CASE l < j
      <4>1. l + 1 \in i .. j /\ p[l + 1] = l
        BY <3>2
      <4> QED BY <4>1
    <3> QED BY <3>1, <3>2
  <2> HIDE DEF p
  <2> QED BY <2>1, <2>2, <2>3 DEF Bijective
<1>2. DOMAIN MoveDown(f, i, j) = D
  BY DEF MoveDown
<1>3. \A k \in D \ (i .. j) : MoveDown(f, i, j)[k] = f[k]
  BY DEF MoveDown
<1>4. \A k \in i .. j : MoveDown(f, i, j)[k] = f[p[k]]
  BY DEF MoveDown
<1>5. Permuted(f, MoveDown(f, i, j), i .. j)
  <2> HIDE DEF p
  <2> QED BY <1>1, <1>4 DEF Permuted
<1> QED BY <1>2, <1>3, <1>5


-----------------------------------------------------------------------------
(* The order that all sorters go for. *)
AtMost(s, t) == ~LessFrom(0, t, s)
OrderedOn(f, D) == \A i, j \in D : i < j => AtMost(f[i], f[j])

LEMMA AtMostOrders ==
  /\ \A s \in CStrings : AtMost(s, s)
  /\ \A s, t \in CStrings : AtMost(s, t) \/ AtMost(t, s)
  /\ \A s, t \in CStrings : AtMost(s, t) /\ AtMost(t, s) => s = t
  /\ \A s, t \in CStrings : LessFrom(0, s, t) => AtMost(s, t)
  /\ \A s, t, u \in CStrings : AtMost(s, t) /\ AtMost(t, u) => AtMost(s, u)
<1>1. ASSUME NEW s \in CStrings, NEW t \in CStrings
      PROVE  /\ AtMost(s, s)
             /\ AtMost(s, t) \/ AtMost(t, s)
             /\ AtMost(s, t) /\ AtMost(t, s) => s = t
             /\ LessFrom(0, s, t) => AtMost(s, t)
             /\ AtMost(s, t) => LessFrom(0, s, t) \/ s = t
  BY LessOrders DEF AtMost
<1>2. ASSUME NEW s \in CStrings, NEW t \in CStrings, NEW u \in CStrings,
             AtMost(s, t), AtMost(t, u)
      PROVE  AtMost(s, u)
  <2>1. LessFrom(0, s, t) \/ s = t
    BY <1>1, <1>2
  <2>2. LessFrom(0, t, u) \/ t = u
    BY <1>1, <1>2
  <2>3. LessFrom(0, s, t) /\ LessFrom(0, t, u) => LessFrom(0, s, u)
    BY LessTransitive
  <2> QED BY <1>1, <1>2, <2>1, <2>2, <2>3
<1> QED BY <1>1, <1>2

(* IsLeq at the end of what two strings share. *)
LEMMA IsLeqIs ==
  ASSUME NEW s \in CStrings, NEW t \in CStrings, NEW d \in Nat, Share(s, t, d)
  PROVE  IsLeq(s, LcpFrom(d, s, t), t, LcpFrom(d, s, t)) <=> AtMost(s, t)
<1> DEFINE h == LcpFrom(0, s, t)
<1>1. LcpFrom(d, s, t) = h /\ LcpFrom(0, t, s) = h /\ h \in Nat
  BY LessIs, LessOrders, LcpFromIs
<1>2. AtMost(s, t) <=> ~(GetChar(t, h) < GetChar(s, h))
  BY <1>1 DEF AtMost, LessFrom
<1> HIDE DEF h
<1>3. /\ GetChar(s, h) \in 0 .. NumChars - 1 /\ GetChar(t, h) \in 0 .. NumChars - 1
      /\ GetChar(s, h) = 0 <=> IsEnd(s, h)
      /\ GetChar(t, h) = 0 <=> IsEnd(t, h)
  <2>1. GetChar(s, h) \in 0 .. NumChars - 1 /\ (GetChar(s, h) = 0 <=> IsEnd(s, h))
    BY <1>1, CharsOf
  <2>2. GetChar(t, h) \in 0 .. NumChars - 1 /\ (GetChar(t, h) = 0 <=> IsEnd(t, h))
    BY <1>1, CharsOf
  <2> QED BY <2>1, <2>2
<1>4. CASE IsEnd(s, h)
  BY <1>1, <1>2, <1>3, <1>4, KeyAssumption DEF IsLeq
<1>5. CASE ~IsEnd(s, h)
  BY <1>1, <1>2, <1>3, <1>5, KeyAssumption DEF IsLeq
<1> QED BY <1>4, <1>5

(* A string put below those that are greater. *)
LEMMA InsertedOrder ==
  ASSUME NEW D \in SUBSET Int, NEW f, DOMAIN f = D,
         NEW lo \in Int, NEW i \in Int, NEW j \in Int, lo <= i, i <= j, lo .. j \subseteq D,
         \A k \in lo .. j : f[k] \in CStrings, OrderedOn(f, lo .. j - 1),
         \A k \in i .. j - 1 : AtMost(f[j], f[k]),
         i > lo => AtMost(f[i - 1], f[j])
  PROVE  OrderedOn(MoveDown(f, i, j), lo .. j)
<1> DEFINE g == MoveDown(f, i, j)
<1>1. \A k \in lo .. j : g[k] = IF k = i THEN f[j] ELSE IF k \in i + 1 .. j THEN f[k - 1] ELSE f[k]
  BY DEF MoveDown
<1> HIDE DEF g
<1> SUFFICES ASSUME NEW a \in lo .. j, NEW b \in lo .. j, a < b PROVE AtMost(g[a], g[b])
  BY DEF OrderedOn, g
<1>2. \A k, l \in lo .. j - 1 : k < l => AtMost(f[k], f[l])
  BY DEF OrderedOn
<1>3. CASE b = i
  <2>1. g[b] = f[j] /\ g[a] = f[a] /\ i > lo /\ a <= i - 1 /\ i - 1 \in lo .. j - 1 /\ a \in lo .. j - 1
    BY <1>1, <1>3
  <2>2. CASE a = i - 1
    BY <2>1, <2>2
  <2>3. CASE a < i - 1
    <3>1. AtMost(f[a], f[i - 1]) /\ AtMost(f[i - 1], f[j])
      BY <1>2, <2>1, <2>3
    <3>2. f[a] \in CStrings /\ f[i - 1] \in CStrings /\ f[j] \in CStrings
      BY <2>1
    <3> QED BY <2>1, <3>1, <3>2, AtMostOrders
  <2> QED BY <2>1, <2>2, <2>3
<1>4. CASE a = i
  <2>1. g[a] = f[j] /\ g[b] = f[b - 1] /\ b - 1 \in i .. j - 1
    BY <1>1, <1>4
  <2> QED BY <2>1
<1>5. CASE a # i /\ b # i
  <2> DEFINE k == IF a < i THEN a ELSE a - 1
             l == IF b < i THEN b ELSE b - 1
  <2>1. k \in lo .. j - 1 /\ l \in lo .. j - 1 /\ k < l
    BY <1>5
  <2>2. g[a] = f[k] /\ g[b] = f[l]
    BY <1>1, <1>5
  <2> HIDE DEF k, l
  <2> QED BY <1>2, <2>1, <2>2
<1> QED BY <1>3, <1>4, <1>5

(* The place that the insertion sorts choose. *)
LEMMA MaxPlace ==
  ASSUME NEW lo \in Int, NEW j \in Int, lo <= j, NEW B \in SUBSET (lo + 1 .. j)
  PROVE  /\ Max({lo} \union B) \in lo .. j
         /\ Max({lo} \union B) > lo => Max({lo} \union B) \in B
         /\ \A k \in Max({lo} \union B) + 1 .. j : k \notin B
<1> DEFINE S == {lo} \union B
<1>1. S \in SUBSET (lo .. j)
  OBVIOUS
<1>2. IsFiniteSet(S)
  <2>1. IsFiniteSet(lo .. j)
    BY ONLY lo \in Int, j \in Int, FS_Interval
  <2> QED BY <1>1, <2>1, FS_Subset
<1>3. S # {} /\ S \in SUBSET Int
  OBVIOUS
<1> HIDE DEF S
<1>4. Max(S) \in S /\ \A x \in S : x <= Max(S)
  BY <1>2, <1>3, MaxIs
<1> DEFINE m == Max(S)
<1>5. m \in S /\ m \in lo .. j /\ \A x \in S : x <= m
  BY <1>1, <1>4
<1> HIDE DEF m
<1>6. /\ m \in lo .. j
      /\ m > lo => m \in B
      /\ \A k \in m + 1 .. j : k \notin B
  <2>1. m > lo => m \in B
    BY <1>5 DEF S
  <2>2. ASSUME NEW k \in m + 1 .. j, k \in B PROVE FALSE
    <3>1. k <= m
      BY <1>5, <2>2 DEF S
    <3> QED BY <1>5, <3>1
  <2> QED BY <1>5, <2>1, <2>2
<1> QED BY <1>6 DEF m, S


-----------------------------------------------------------------------------
(* The functions that have the values of f on D in another order, and are  *)
(* f elsewhere.                                                            *)
Rearranged(f, D) ==
  {g \in [DOMAIN f -> {f[i] : i \in DOMAIN f}] :
     (\A i \in DOMAIN f \ D : g[i] = f[i]) /\ Permuted(f, g, D)}

LEMMA RearrangedSame ==
  ASSUME NEW f, f = [i \in DOMAIN f |-> f[i]], NEW D
  PROVE  f \in Rearranged(f, D)
<1>1. Permuted(f, f, D)
  BY PermutedSame
<1>2. f \in [DOMAIN f -> {f[i] : i \in DOMAIN f}]
  OBVIOUS
<1> QED BY <1>1, <1>2 DEF Rearranged

LEMMA RearrangedMoves ==
  ASSUME NEW f, DOMAIN f \in SUBSET Int, NEW lo \in Int, NEW hi \in Int, lo .. hi \subseteq DOMAIN f,
         NEW g \in Rearranged(f, lo .. hi), NEW i \in lo .. hi, NEW j \in lo .. hi, i <= j
  PROVE  MoveDown(g, i, j) \in Rearranged(f, lo .. hi)
<1> DEFINE D == DOMAIN f
           h == MoveDown(g, i, j)
<1>1. /\ g \in [D -> {f[k] : k \in D}] /\ DOMAIN g = D
      /\ \A k \in D \ (lo .. hi) : g[k] = f[k]
      /\ Permuted(f, g, lo .. hi)
  BY DEF Rearranged
<1>2. /\ i \in Int /\ j \in Int /\ D \in SUBSET Int
      /\ i .. j \subseteq D /\ i .. j \subseteq lo .. hi
  OBVIOUS
<1>3. /\ DOMAIN h = D
      /\ \A k \in D \ (i .. j) : h[k] = g[k]
      /\ Permuted(g, h, i .. j)
  <2>1. DOMAIN g = D
    BY <1>1
  <2>2. i \in Int /\ j \in Int /\ D \in SUBSET Int /\ i .. j \subseteq D /\ i <= j
    BY <1>2
  <2> HIDE DEF D
  <2> QED BY ONLY <2>1, <2>2, MoveDownPermutes
<1>4. h \in [D -> {f[k] : k \in D}]
  <2>1. h = [k \in D |-> IF k = i THEN g[j] ELSE IF k \in i + 1 .. j THEN g[k - 1] ELSE g[k]]
    BY <1>1 DEF MoveDown
  <2>2. ASSUME NEW k \in D PROVE h[k] \in {f[l] : l \in D}
    <3>1. \A l \in D : g[l] \in {f[m] : m \in D}
      BY <1>1
    <3>2. CASE k = i
      BY <1>2, <2>1, <3>1, <3>2
    <3>3. CASE k \in i + 1 .. j
      <4>1. k - 1 \in D /\ h[k] = g[k - 1]
        BY <1>2, <2>1, <3>3
      <4> QED BY <3>1, <4>1
    <3>4. CASE k # i /\ k \notin i + 1 .. j
      BY <2>1, <3>1, <3>4
    <3> QED BY <3>2, <3>3, <3>4
  <2> HIDE DEF h
  <2>3. h = [k \in D |-> h[k]]
    BY <2>1
  <2> QED BY <2>2, <2>3
<1> HIDE DEF h
<1>5. \A k \in D \ (lo .. hi) : h[k] = f[k]
  BY <1>1, <1>2, <1>3
<1>6. Permuted(g, h, lo .. hi)
  <2>1. \A k \in (lo .. hi) \ (i .. j) : h[k] = g[k]
    BY <1>3
  <2> QED BY <1>2, <1>3, <2>1, PermutedPart
<1>7. Permuted(f, h, lo .. hi)
  BY <1>1, <1>6, PermutedTwice
<1>8. h \in Rearranged(f, lo .. hi)
  BY <1>4, <1>5, <1>7 DEF Rearranged
<1> QED BY <1>8 DEF h

LEMMA RearrangedTwice ==
  ASSUME NEW f, NEW D, D \subseteq DOMAIN f, NEW g \in Rearranged(f, D),
         NEW E \in SUBSET D, NEW h \in Rearranged(g, E)
  PROVE  h \in Rearranged(f, D)
<1> DEFINE X == DOMAIN f
<1>1. /\ g \in [X -> {f[k] : k \in X}] /\ DOMAIN g = X
      /\ \A k \in X \ D : g[k] = f[k]
      /\ Permuted(f, g, D)
  BY DEF Rearranged
<1>2. /\ h \in [X -> {g[k] : k \in X}]
      /\ \A k \in X \ E : h[k] = g[k]
      /\ Permuted(g, h, E)
  BY <1>1 DEF Rearranged
<1>3. {g[k] : k \in X} \subseteq {f[k] : k \in X}
  BY <1>1
<1>4. h \in [X -> {f[k] : k \in X}]
  BY <1>2, <1>3
<1>5. \A k \in X \ D : h[k] = f[k]
  BY <1>1, <1>2
<1>6. Permuted(g, h, D)
  <2>1. \A k \in D \ E : h[k] = g[k]
    BY <1>2
  <2> QED BY <1>2, <2>1, PermutedPart
<1>7. Permuted(f, h, D)
  BY <1>1, <1>6, PermutedTwice
<1> QED BY <1>4, <1>5, <1>7 DEF Rearranged

(* Strings that share their first depth characters. *)
Sharing(f, D, depth) ==
  /\ depth \in Nat
  /\ \A i \in D : f[i] \in CStrings
  /\ \A i, j \in D : Share(f[i], f[j], depth)

-----------------------------------------------------------------------------
(* Insertion sort of strings. *)
LEMMA InssortSorts ==
  ASSUME NEW str, DOMAIN str \in SUBSET Int, str = [i \in DOMAIN str |-> str[i]],
         NEW sec, sec.lo \in Int, sec.n \in Nat, Positions(sec) \subseteq DOMAIN str, NEW depth
  PROVE  /\ InssortGeneric(str, sec, depth) \in Rearranged(str, Positions(sec))
         /\ Sharing(str, Positions(sec), depth)
              => OrderedOn(InssortGeneric(str, sec, depth), Positions(sec))
<1> DEFINE lo == sec.lo
           n == sec.n
           hi == lo + n - 1
           P == lo .. hi
           T == Rearranged(str, P)
           leq(f, j, s) == LET h == LcpFrom(depth, s, f[j]) IN IsLeq(s, h, f[j], h)
           B(f, j) == {i \in lo + 1 .. j : leq(f, j, f[i - 1])}
           insert(f, j) == MoveDown(f, Max({lo} \union B(f, j)), j)
           seq == [k \in 1 .. n |-> lo + k - 1]
           step == [k \in 1 .. n |-> [t \in T |-> insert(t, seq[k])]]
           iter == CHOOSE g : g = [U \in SUBSET (1 .. n) |->
                     IF U = {} THEN str ELSE insert(g[U \ {Max(U)}], seq[Max(U)])]
<1>1. InssortGeneric(str, sec, depth) = iter[1 .. n]
  BY DEF InssortGeneric, ForEach, FoldLeft, MapThenFoldSet, PlaceOf
<1>2. Positions(sec) = P /\ lo \in Int /\ n \in Nat /\ P \subseteq DOMAIN str
  BY DEF Positions
<1>3. str \in T
  BY RearrangedSame
<1>4. ASSUME NEW t \in T, NEW j \in P
      PROVE  /\ Max({lo} \union B(t, j)) \in lo .. j
             /\ Max({lo} \union B(t, j)) > lo => Max({lo} \union B(t, j)) \in B(t, j)
             /\ \A k \in Max({lo} \union B(t, j)) + 1 .. j : k \notin B(t, j)
             /\ insert(t, j) \in T
  <2> DEFINE C == B(t, j)
             m == Max({lo} \union C)
  <2>1. C \in SUBSET (lo + 1 .. j) /\ lo <= j /\ j \in Int
    OBVIOUS
  <2> HIDE DEF C, B
  <2>2. /\ m \in lo .. j /\ (m > lo => m \in C) /\ \A k \in m + 1 .. j : k \notin C
    BY <1>2, <2>1, MaxPlace
  <2> HIDE DEF m
  <2>3. m \in lo .. hi /\ m <= j
    BY <1>2, <2>2
  <2>4. MoveDown(t, m, j) \in T
    BY <1>2, <2>3, RearrangedMoves
  <2> QED BY <2>2, <2>4 DEF m, C
<1>5. \A k \in 1 .. n : seq[k] \in P
  BY <1>2
<1>6. /\ \A k \in 1 .. n, t \in T : step[k][t] = insert(t, seq[k])
      /\ \A k \in 1 .. n, t \in T : step[k][t] \in T
  <2> HIDE DEF insert, T, seq, P
  <2>1. \A k \in 1 .. n, t \in T : step[k][t] = insert(t, seq[k])
    OBVIOUS
  <2>2. \A k \in 1 .. n, t \in T : insert(t, seq[k]) \in T
    BY <1>4, <1>5
  <2> QED BY <2>1, <2>2
<1> HIDE DEF step
<1>7. PICK h \in [SUBSET (1 .. n) -> T] : FoldingLeft(h, n, str, step)
  <2>1. n \in Nat
    BY <1>2
  <2>2. \A k \in 1 .. n, t \in T : step[k][t] \in T
    BY <1>6
  <2> HIDE DEF T, lo, n, insert, seq
  <2> QED BY ONLY <2>1, <1>3, <2>2, FoldLeftExists
<1>8. \A U \in SUBSET (1 .. n) : U # {} => Max(U) \in 1 .. n
  <2> SUFFICES ASSUME NEW U \in SUBSET (1 .. n), U # {} PROVE Max(U) \in 1 .. n
    OBVIOUS
  <2>1. IsFiniteSet(1 .. n)
    BY ONLY 1 \in Int, n \in Int, FS_Interval
  <2>2. IsFiniteSet(U)
    BY <2>1, FS_Subset
  <2>3. U \in SUBSET Int
    OBVIOUS
  <2> QED BY <2>2, <2>3, MaxIs
<1> HIDE DEF insert, seq, T
<1>9. h = [U \in SUBSET (1 .. n) |-> IF U = {} THEN str ELSE insert(h[U \ {Max(U)}], seq[Max(U)])]
  <2>1. ASSUME NEW U \in SUBSET (1 .. n), U # {}
        PROVE  h[U] = insert(h[U \ {Max(U)}], seq[Max(U)])
    <3>1. h[U \ {Max(U)}] \in T
      BY <1>7
    <3> QED BY <1>6, <1>7, <1>8, <2>1, <3>1 DEF FoldingLeft
  <2> QED BY <1>7, <2>1 DEF FoldingLeft
<1>10. iter = [U \in SUBSET (1 .. n) |-> IF U = {} THEN str ELSE insert(iter[U \ {Max(U)}], seq[Max(U)])]
  BY <1>9
<1> HIDE DEF iter
<1>11. PICK r \in [0 .. n -> T] : OneByOne(r, n, str, step, iter[1 .. n])
  <2>1. iter[{}] = str
    BY <1>10
  <2>2. ASSUME NEW U \in SUBSET (1 .. n), U # {}, iter[U \ {Max(U)}] \in T
        PROVE  iter[U] = step[Max(U)][iter[U \ {Max(U)}]]
    BY <1>6, <1>8, <1>10, <2>2
  <2>3. n \in Nat
    BY <1>2
  <2>4. \A k \in 1 .. n, t \in T : step[k][t] \in T
    BY <1>6
  <2>5. \A U \in SUBSET (1 .. n) : U # {} /\ iter[U \ {Max(U)}] \in T =>
          iter[U] = step[Max(U)][iter[U \ {Max(U)}]]
    BY <2>2
  <2> HIDE DEF n
  <2> QED BY ONLY <1>3, <2>1, <2>3, <2>4, <2>5, FoldLeftRuns
<1>12. iter[1 .. n] \in T /\ r[n] = iter[1 .. n]
  BY <1>2, <1>11 DEF OneByOne
<1>13. ASSUME Sharing(str, P, depth)
       PROVE  OrderedOn(iter[1 .. n], P)
  <2> DEFINE Q == {k \in Nat : k <= n => OrderedOn(r[k], lo .. lo + k - 1)}
  <2>0. r[0] = str /\ \A k \in 1 .. n : r[k] = step[k][r[k - 1]]
    BY <1>11 DEF OneByOne
  <2>1. 0 \in Q
    BY <1>2 DEF OrderedOn
  <2>2. ASSUME NEW k \in Q PROVE k + 1 \in Q
    <3> SUFFICES ASSUME k + 1 <= n PROVE OrderedOn(r[k + 1], lo .. lo + (k + 1) - 1)
      OBVIOUS
    <3> DEFINE t == r[k]
               j == lo + k
    <3>0. k \in Nat /\ n \in Nat /\ lo \in Int
      BY <1>2
    <3>1. /\ t \in T /\ j \in P /\ j \in Int /\ lo <= j /\ j <= hi
          /\ k + 1 \in 1 .. n /\ seq[k + 1] = j
      <4>1. k + 1 \in 1 .. n /\ k \in 0 .. n
        BY <3>0
      <4>2. j \in P /\ j \in Int /\ lo <= j /\ j <= hi
        BY <3>0
      <4>3. seq[k + 1] = j
        BY <3>0, <4>1 DEF seq
      <4> QED BY <1>11, <4>1, <4>2, <4>3
    <3>2. r[k + 1] = insert(t, j)
      <4>1. (k + 1) - 1 = k
        BY <3>0
      <4>2. r[k + 1] = step[k + 1][t]
        BY <2>0, <3>1, <4>1
      <4> HIDE DEF t
      <4>3. step[k + 1][t] = insert(t, seq[k + 1])
        BY <1>6, <3>1
      <4> QED BY <3>1, <4>2, <4>3
    <3>3. OrderedOn(t, lo .. j - 1)
      <4>1. lo + k - 1 = j - 1
        BY <3>0
      <4>2. k <= n
        BY <3>0
      <4> QED BY <2>2, <4>1, <4>2
    <3> HIDE DEF t
    <3>4. /\ DOMAIN t = DOMAIN str
          /\ \A i \in P : \E l \in P : t[i] = str[l]
      <4>1. DOMAIN t = DOMAIN str /\ Permuted(str, t, P)
        BY <3>1 DEF T, Rearranged
      <4> HIDE DEF P
      <4> QED BY <4>1, PermutedFrom
    <3>5. \A i \in P : t[i] \in CStrings
      BY <1>13, <3>4 DEF Sharing
    <3>6. \A i, l \in P : Share(t[i], t[l], depth)
      BY <1>13, <3>4 DEF Sharing
    <3> DEFINE i == Max({lo} \union B(t, j))
    <3>7. /\ i \in lo .. j /\ i \in Int /\ lo <= i /\ i <= j
          /\ i > lo => i \in B(t, j)
          /\ \A m \in i + 1 .. j : m \notin B(t, j)
          /\ insert(t, j) = MoveDown(t, i, j)
      <4>1. i \in lo .. j
        BY <1>4, <3>1
      <4>2. i \in Int /\ lo <= i /\ i <= j
        BY <4>1
      <4>3. insert(t, j) = MoveDown(t, i, j)
        BY DEF insert
      <4> HIDE DEF i
      <4>4. (i > lo => i \in B(t, j)) /\ \A m \in i + 1 .. j : m \notin B(t, j)
        BY <1>4, <3>1 DEF i
      <4> QED BY <4>1, <4>2, <4>3, <4>4
    <3> HIDE DEF i, j
    <3>8. ASSUME NEW m \in lo + 1 .. j
          PROVE  m \in B(t, j) <=> AtMost(t[m - 1], t[j])
      <4>1. m - 1 \in P /\ j \in P
        BY <1>2, <3>1
      <4>2. leq(t, j, t[m - 1]) <=> AtMost(t[m - 1], t[j])
        BY <1>13, <3>5, <3>6, <4>1, IsLeqIs DEF Sharing
      <4> QED BY <4>2
    <3> HIDE DEF B
    <3>9. ASSUME NEW m \in i .. j - 1 PROVE AtMost(t[j], t[m])
      <4>1. m + 1 \in i + 1 .. j /\ m + 1 \in lo + 1 .. j /\ m \in P /\ j \in P
        <5>1. m \in Int /\ i <= m /\ m <= j - 1
          BY <3>1, <3>7
        <5>2. j \in P
          BY <3>1
        <5>3. m + 1 \in i + 1 .. j /\ m + 1 \in lo + 1 .. j
          BY <3>0, <3>1, <3>7, <5>1
        <5>4. m \in lo .. hi
          BY <3>0, <3>1, <3>7, <5>1
        <5> QED BY <5>2, <5>3, <5>4
      <4>2. ~AtMost(t[m], t[j])
        <5>1. m + 1 - 1 = m
          BY <4>1
        <5>2. m + 1 \notin B(t, j)
          BY <3>7, <4>1
        <5> QED BY ONLY <3>8, <4>1, <5>1, <5>2
      <4> QED BY <3>5, <4>1, <4>2, AtMostOrders
    <3>10. i > lo => AtMost(t[i - 1], t[j])
      <4>1. i > lo => i \in lo + 1 .. j
        BY <1>2, <3>1, <3>7
      <4> QED BY <3>7, <3>8, <4>1
    <3>11. lo .. j \subseteq P /\ i \in Int /\ j \in Int
      BY <1>2, <3>1, <3>7
    <3>12. OrderedOn(MoveDown(t, i, j), lo .. j)
      <4>1. \A m \in lo .. j : t[m] \in CStrings
        BY <3>5, <3>11
      <4>2. lo .. j \subseteq DOMAIN str /\ lo <= i /\ i <= j
        BY <1>2, <3>7, <3>11
      <4>3. \A m \in i .. j - 1 : AtMost(t[j], t[m])
        BY <3>9
      <4> QED BY <1>2, <3>3, <3>4, <3>10, <3>11, <4>1, <4>2, <4>3, InsertedOrder
    <3>13. lo + (k + 1) - 1 = j
      BY <1>2 DEF j
    <3> QED BY <3>2, <3>7, <3>12, <3>13
  <2> HIDE DEF Q
  <2>3. Q = Nat
    <3>1. Q \in SUBSET Nat
      BY DEF Q
    <3> QED BY <2>1, <2>2, <3>1, NatInd
  <2>4. OrderedOn(r[n], lo .. lo + n - 1)
    <3>1. n \in Q /\ n <= n
      BY <1>2, <2>3
    <3> QED BY <3>1 DEF Q
  <2> QED BY <1>12, <2>4
<1> QED BY <1>1, <1>2, <1>12, <1>13 DEF T


-----------------------------------------------------------------------------
(* Of three strings, two differ from the third where they do not from each *)
(* other.                                                                  *)
LEMMA LcpTriangle ==
  ASSUME NEW s \in CStrings, NEW t \in CStrings, NEW u \in CStrings,
         LcpFrom(0, s, t) < LcpFrom(0, t, u)
  PROVE  /\ LcpFrom(0, s, u) = LcpFrom(0, s, t)
         /\ AtMost(s, t) <=> AtMost(s, u)
         /\ AtMost(t, s) <=> AtMost(u, s)
<1> DEFINE h == LcpFrom(0, s, t)
           m == LcpFrom(0, t, u)
           l == LcpFrom(0, s, u)
<1>1. h \in Nat /\ m \in Nat /\ l \in Nat
  BY LcpFromIs
<1>2. LcpFrom(0, t, s) = h /\ LcpFrom(0, u, s) = l
  BY LessOrders
<1>3. IsEqual(t, h, u, h)
  <2>1. \A j \in 0 .. m - 1 : IsEqual(t, j, u, j)
    BY LcpFromIs
  <2>2. h \in 0 .. m - 1
    BY <1>1
  <2> QED BY <2>1, <2>2
<1> HIDE DEF h, m, l
<1>4. h < m
  BY DEF h, m
<1>5. Share(s, t, h) /\ Share(t, u, h) /\ Share(t, u, h + 1) /\ Share(u, t, h + 1)
  <2>1. Share(s, t, h)
    BY <1>1, ShareLcp DEF h
  <2>2. Share(t, u, h)
    BY <1>1, <1>4, ShareLcp DEF m
  <2>3. Share(t, u, h + 1)
    <3>1. h + 1 \in Nat /\ m >= h + 1
      BY <1>1, <1>4
    <3> QED BY <3>1, ShareLcp DEF m
  <2>4. Share(u, t, h + 1)
    <3>1. h + 1 \in Nat
      BY <1>1
    <3> QED BY <2>3, <3>1, ShareLcp
  <2> QED BY <2>1, <2>2, <2>3, <2>4
<1>6. l >= h
  <2>1. Share(s, u, h)
    BY <1>1, <1>5, ShareSame
  <2> QED BY <1>1, <2>1, ShareLcp DEF l
<1>7. ~(l >= h + 1)
  <2> SUFFICES ASSUME l >= h + 1 PROVE FALSE
    OBVIOUS
  <2>0. h + 1 \in Nat
    BY <1>1
  <2>1. Share(s, u, h + 1)
    BY <2>0, ShareLcp DEF l
  <2>2. Share(s, t, h + 1)
    BY <1>5, <2>0, <2>1, ShareSame
  <2>3. h >= h + 1
    BY <2>0, <2>2, ShareLcp DEF h
  <2> QED BY <1>1, <2>3
<1>8. l = h
  BY <1>1, <1>6, <1>7
<1>9. GetChar(t, h) = GetChar(u, h)
  BY <1>3 DEF IsEqual
<1>10. AtMost(s, t) <=> AtMost(s, u)
  BY <1>2, <1>8, <1>9 DEF AtMost, LessFrom
<1>11. AtMost(t, s) <=> AtMost(u, s)
  BY <1>8, <1>9 DEF AtMost, LessFrom, h, l
<1> QED BY <1>8, <1>10, <1>11 DEF h, l

(* IsLess where two strings stop to be equal. *)
LEMMA IsLessIs ==
  ASSUME NEW set, NEW s \in CStrings, NEW t \in CStrings
  PROVE  LET h == LcpFrom(0, s, t)
         IN  /\ IsLess(set, s, h, t, h) => AtMost(s, t)
             /\ ~IsLess(set, s, h, t, h) => AtMost(t, s)
<1> DEFINE h == LcpFrom(0, s, t)
<1>1. LcpFrom(0, t, s) = h /\ h \in Nat
  BY LessOrders, LcpFromIs
<1>2. AtMost(s, t) <=> ~(GetChar(t, h) < GetChar(s, h))
  BY <1>1 DEF AtMost, LessFrom
<1>3. AtMost(t, s) <=> ~(GetChar(s, h) < GetChar(t, h))
  BY DEF AtMost, LessFrom
<1> HIDE DEF h
<1>4. GetChar(s, h) \in 0 .. NumChars - 1 /\ (GetChar(s, h) = 0 <=> IsEnd(s, h))
  BY <1>1, CharsOf
<1>5. GetChar(t, h) \in 0 .. NumChars - 1 /\ (GetChar(t, h) = 0 <=> IsEnd(t, h))
  BY <1>1, CharsOf
<1>6. CASE IsEnd(s, h)
  <2>1. GetChar(s, h) = 0
    BY <1>4, <1>6
  <2>2. AtMost(s, t)
    BY <1>2, <1>5, <2>1, KeyAssumption
  <2>3. ~IsLess(set, s, h, t, h) => IsEnd(t, h) \/ ~(GetChar(s, h) < GetChar(t, h))
    BY DEF IsLess
  <2>4. IsEnd(t, h) => GetChar(t, h) = 0
    BY <1>5
  <2>5. ~IsLess(set, s, h, t, h) => ~(GetChar(s, h) < GetChar(t, h))
    BY <2>1, <2>3, <2>4
  <2> QED BY <1>3, <2>2, <2>5 DEF h
<1>7. CASE ~IsEnd(s, h)
  <2>1. IsLess(set, s, h, t, h) <=> ~IsEnd(t, h) /\ GetChar(s, h) < GetChar(t, h)
    BY <1>7 DEF IsLess
  <2>2. IsLess(set, s, h, t, h) => ~(GetChar(t, h) < GetChar(s, h))
    BY <1>4, <1>5, <2>1, KeyAssumption
  <2>3. IsEnd(t, h) => ~(GetChar(s, h) < GetChar(t, h))
    <3>1. IsEnd(t, h) => GetChar(t, h) = 0
      BY <1>5
    <3> QED BY <1>4, <3>1, KeyAssumption
  <2>4. ~IsLess(set, s, h, t, h) => ~(GetChar(s, h) < GetChar(t, h))
    BY <2>1, <2>3
  <2> QED BY <1>2, <1>3, <2>2, <2>4 DEF h
<1> QED BY <1>6, <1>7

(* What the LCP insertion sort finds out on its way down.                  *)
NewLcpFound(f, st, lo, j, depth) ==
  /\ \A i \in lo .. j : f[i] \in Nat
  /\ f[j] = depth
  /\ \A i \in lo .. j - 1 :
       f[i] = IF st.lcp[i + 1] = f[i + 1]
              THEN LcpFrom(f[i + 1], st.str[j], st.str[i]) ELSE f[i + 1]

LEMMA NewLcpIs ==
  ASSUME NEW st, NEW lo \in Int, NEW j \in Int, lo <= j, NEW depth \in Nat,
         \A i \in lo .. j : st.str[i] \in CStrings
  PROVE  NewLcpFound(NewLcp(st, lo, j, depth), st, lo, j, depth)
<1> DEFINE f == NewLcp(st, lo, j, depth)
           step == [i \in lo .. j - 1 |-> [t \in Nat |->
                     IF st.lcp[i + 1] = t THEN LcpFrom(t, st.str[j], st.str[i]) ELSE t]]
<1>1. \A i \in lo .. j - 1, t \in Nat :
        /\ step[i][t] = IF st.lcp[i + 1] = t THEN LcpFrom(t, st.str[j], st.str[i]) ELSE t
        /\ step[i][t] \in Nat
  <2> SUFFICES ASSUME NEW i \in lo .. j - 1, NEW t \in Nat
               PROVE  /\ step[i][t] = IF st.lcp[i + 1] = t
                                      THEN LcpFrom(t, st.str[j], st.str[i]) ELSE t
                      /\ step[i][t] \in Nat
    OBVIOUS
  <2>1. st.str[i] \in CStrings /\ st.str[j] \in CStrings
    OBVIOUS
  <2>2. LcpFrom(t, st.str[j], st.str[i]) \in Nat
    BY <2>1, LcpFromIs
  <2> QED BY <2>2
<1> HIDE DEF step
<1>2. \A i \in lo .. j - 1, t \in Nat : step[i][t] \in Nat
  BY <1>1
<1>3. PICK h \in [lo .. j -> Nat] : Descending(h, lo, j, depth, step)
  BY <1>2, DescendingExists
<1>4. h = [i \in lo .. j |-> IF i = j THEN depth
             ELSE LET prev == h[i + 1]
                  IN  IF st.lcp[i + 1] = prev THEN LcpFrom(prev, st.str[j], st.str[i]) ELSE prev]
  <2>1. ASSUME NEW i \in lo .. j, i # j
        PROVE  h[i] = IF st.lcp[i + 1] = h[i + 1]
                      THEN LcpFrom(h[i + 1], st.str[j], st.str[i]) ELSE h[i + 1]
    <3>1. i \in lo .. j - 1 /\ i + 1 \in lo .. j
      BY <2>1
    <3>2. h[i] = step[i][h[i + 1]] /\ h[i + 1] \in Nat
      BY <1>3, <3>1 DEF Descending
    <3> QED BY <1>1, <3>1, <3>2
  <2> QED BY <1>3, <2>1 DEF Descending
<1>5. f = [i \in lo .. j |-> IF i = j THEN depth
             ELSE LET prev == f[i + 1]
                  IN  IF st.lcp[i + 1] = prev THEN LcpFrom(prev, st.str[j], st.str[i]) ELSE prev]
  BY <1>4 DEF NewLcp
<1> HIDE DEF f
<1>6. f[j] = depth
  BY <1>5
<1>7. ASSUME NEW i \in lo .. j - 1
      PROVE  f[i] = IF st.lcp[i + 1] = f[i + 1]
                    THEN LcpFrom(f[i + 1], st.str[j], st.str[i]) ELSE f[i + 1]
  <2>1. i \in lo .. j /\ i # j
    OBVIOUS
  <2> QED BY <1>5, <2>1
<1>8. \A i \in lo .. j : f[i] \in Nat
  <2> DEFINE Q == {k \in Nat : k <= j - lo => f[j - k] \in Nat}
  <2>1. 0 \in Q
    <3>1. j - 0 = j
      OBVIOUS
    <3> QED BY <1>6, <3>1
  <2>2. ASSUME NEW k \in Q PROVE k + 1 \in Q
    <3> SUFFICES ASSUME k + 1 <= j - lo PROVE f[j - (k + 1)] \in Nat
      OBVIOUS
    <3> DEFINE i == j - (k + 1)
    <3>1. i \in lo .. j - 1 /\ i + 1 = j - k /\ k <= j - lo
      OBVIOUS
    <3>2. f[i + 1] \in Nat
      BY <2>2, <3>1
    <3>3. f[i] = step[i][f[i + 1]]
      BY <1>1, <1>7, <3>1, <3>2
    <3> HIDE DEF i
    <3>4. f[i] \in Nat
      BY <1>2, <3>1, <3>2, <3>3
    <3> QED BY <3>4 DEF i
  <2> HIDE DEF Q
  <2>3. Q = Nat
    <3>1. Q \in SUBSET Nat
      BY DEF Q
    <3> QED BY <2>1, <2>2, <3>1, NatInd
  <2> SUFFICES ASSUME NEW i \in lo .. j PROVE f[i] \in Nat
    OBVIOUS
  <2>4. j - i \in Q /\ j - i <= j - lo /\ j - (j - i) = i
    BY <2>3
  <2> QED BY <2>4 DEF Q
<1> QED BY <1>6, <1>7, <1>8 DEF f, NewLcpFound


-----------------------------------------------------------------------------
(* LCP insertion sort.  Before position j is inserted the strings below it *)
(* are in order and their LCPs are right; the entry of position j is the   *)
(* depth, as a bound.                                                      *)
LcpStates(f, sec, L, C, keys) ==
  [str : Rearranged(f, Positions(sec)), lcp : [DOMAIN f -> L], chars : [DOMAIN f -> C],
   keys : {keys}]

LcpsRight(x, lo, j) == \A k \in lo + 1 .. j - 1 : x.lcp[k] = LcpFrom(0, x.str[k - 1], x.str[k])

Inserted(x, sec, j, depth) ==
  /\ OrderedOn(x.str, sec.lo .. j - 1)
  /\ LcpsRight(x, sec.lo, j)
  /\ j \in Positions(sec) /\ j > sec.lo => x.lcp[j] = depth

LEMMA InsertLcpSorts ==
  ASSUME NEW f, DOMAIN f \in SUBSET Int, NEW sec, sec.lo \in Int, sec.n \in Nat,
         Positions(sec) \subseteq DOMAIN f, NEW depth, Sharing(f, Positions(sec), depth),
         NEW L, Int \subseteq L, NEW C, Int \subseteq C, NEW keys, NEW set,
         NEW x \in LcpStates(f, sec, L, C, keys), NEW j \in Positions(sec)
  PROVE  /\ InsertLcp(set, x, sec, j, depth) \in LcpStates(f, sec, L, C, keys)
         /\ Inserted(x, sec, j, depth)
              => Inserted(InsertLcp(set, x, sec, j, depth), sec, j + 1, depth)
<1> DEFINE D == DOMAIN f
           lo == sec.lo
           hi == sec.lo + sec.n - 1
           P == Positions(sec)
           str == x.str
           oldLcp == x.lcp
           new == str[j]
           newLcp == NewLcp(x, lo, j, depth)
           found(i) == LcpFrom(newLcp[i], new, str[i - 1])
           equal(i) == i > lo /\ oldLcp[i] = newLcp[i]
           breaks(i) == \/ oldLcp[i] < newLcp[i]
                        \/ equal(i) /\ ~IsLess(set, new, found(i), str[i - 1], found(i))
           B == {k \in lo + 1 .. j : breaks(k)}
           i == Max({lo} \union B)
           y == InsertLcp(set, x, sec, j, depth)
<1>1. /\ P = lo .. hi /\ P \subseteq D /\ D \in SUBSET Int /\ depth \in Nat
      /\ lo \in Int /\ hi \in Int /\ j \in P /\ j \in Int /\ lo <= j /\ j <= hi
  BY DEF Positions, Sharing
<1>2. /\ x = [str |-> str, lcp |-> oldLcp, chars |-> x.chars, keys |-> keys]
      /\ str \in Rearranged(f, P) /\ oldLcp \in [D -> L] /\ x.chars \in [D -> C]
  BY DEF LcpStates
<1>3. DOMAIN str = D /\ DOMAIN oldLcp = D /\ DOMAIN x.chars = D /\ Permuted(f, str, P)
  BY <1>2 DEF Rearranged
<1>4. \A k \in P : \E l \in P : str[k] = f[l]
  <2> HIDE DEF P, str, D
  <2> QED BY <1>3, PermutedFrom
<1>5. /\ \A k \in P : str[k] \in CStrings
      /\ \A k, l \in P : Share(str[k], str[l], depth)
  BY <1>4 DEF Sharing
<1>6. /\ \A k \in lo .. j : newLcp[k] \in Nat
      /\ newLcp[j] = depth
      /\ \A k \in lo .. j - 1 :
           newLcp[k] = IF oldLcp[k + 1] = newLcp[k + 1]
                       THEN LcpFrom(newLcp[k + 1], new, str[k]) ELSE newLcp[k + 1]
  <2>1. \A k \in lo .. j : x.str[k] \in CStrings
    BY <1>1, <1>5
  <2>2. NewLcpFound(newLcp, x, lo, j, depth)
    <3> HIDE DEF lo
    <3> QED BY ONLY <1>1, <2>1, NewLcpIs
  <2> HIDE DEF newLcp
  <2> QED BY <2>2 DEF NewLcpFound
<1>7. y = [str |-> MoveDown(str, i, j),
           lcp |-> [k \in D |-> IF k = i /\ equal(i) THEN found(i)
                                ELSE IF k = i + 1 /\ k <= hi THEN newLcp[i]
                                ELSE IF k \in i + 2 .. Min({j + 1, hi}) THEN oldLcp[k - 1]
                                ELSE oldLcp[k]],
           chars |-> [k \in D |-> IF k = i /\ equal(i) THEN GetChar(new, found(i))
                                  ELSE IF k = i + 1 /\ k <= hi
                                       THEN GetChar(MoveDown(str, i, j)[k], newLcp[i])
                                  ELSE IF k \in i + 2 .. j THEN x.chars[k - 1]
                                  ELSE x.chars[k]],
           keys |-> keys]
  <2> DEFINE newStr == MoveDown(str, i, j)
             lcps == [k \in DOMAIN oldLcp |->
                        IF k = i /\ equal(i) THEN found(i)
                        ELSE IF k = i + 1 /\ k <= hi THEN newLcp[i]
                        ELSE IF k \in i + 2 .. Min({j + 1, hi}) THEN oldLcp[k - 1]
                        ELSE oldLcp[k]]
             newChars == [k \in DOMAIN x.chars |->
                        IF k = i /\ equal(i) THEN GetChar(new, found(i))
                        ELSE IF k = i + 1 /\ k <= hi THEN GetChar(MoveDown(str, i, j)[k], newLcp[i])
                        ELSE IF k \in i + 2 .. j THEN x.chars[k - 1]
                        ELSE x.chars[k]]
  <2>1. y = [x EXCEPT !.str = newStr, !.lcp = lcps, !.chars = newChars]
    BY DEF InsertLcp
  <2> HIDE DEF newStr, lcps, newChars, y
  <2>2. y = [str |-> newStr, lcp |-> lcps, chars |-> newChars, keys |-> keys]
    <3>1. x = [str |-> str, lcp |-> oldLcp, chars |-> x.chars, keys |-> keys]
      BY <1>2
    <3> HIDE DEF str, oldLcp
    <3>2. /\ DOMAIN y = {"str", "lcp", "chars", "keys"}
          /\ y.str = newStr /\ y.lcp = lcps /\ y.chars = newChars /\ y.keys = keys
      BY ONLY <2>1, <3>1
    <3>3. y = [a \in DOMAIN y |-> y[a]]
      BY ONLY <2>1
    <3> QED BY ONLY <3>2, <3>3
  <2> QED BY <1>3, <2>2 DEF newStr, lcps, newChars
<1> HIDE DEF newLcp, y
<1>8. i \in lo .. j /\ (i > lo => i \in B) /\ \A k \in i + 1 .. j : k \notin B
  <2> DEFINE E == B
  <2>1. E \in SUBSET (lo + 1 .. j)
    OBVIOUS
  <2> HIDE DEF E, lo
  <2>2. /\ Max({lo} \union E) \in lo .. j
        /\ Max({lo} \union E) > lo => Max({lo} \union E) \in E
        /\ \A k \in Max({lo} \union E) + 1 .. j : k \notin E
    BY <1>1, <2>1, MaxPlace
  <2> QED BY <2>2 DEF E
<1>9. i > lo => breaks(i)
  BY <1>8
<1>10. \A k \in i + 1 .. j : ~breaks(k)
  <2> SUFFICES ASSUME NEW k \in i + 1 .. j PROVE ~breaks(k)
    OBVIOUS
  <2>1. k \notin B
    BY <1>8
  <2>2. k \in lo + 1 .. j
    <3> HIDE DEF i, B
    <3> QED BY <1>1, <1>8
  <2> QED BY <2>1, <2>2
<1>11. i \in Int /\ lo <= i /\ i <= j /\ i \in P /\ i \in D
  <2> HIDE DEF i, B
  <2> QED BY <1>1, <1>8
<1> HIDE DEF i, B
<1>12. equal(i) => found(i) \in Nat
  <2> SUFFICES ASSUME equal(i) PROVE found(i) \in Nat
    OBVIOUS
  <2>1. i - 1 \in P /\ i \in lo .. j
    BY <1>1, <1>11
  <2> QED BY <1>1, <1>5, <1>6, <2>1, LcpFromIs
<1>13. y \in LcpStates(f, sec, L, C, keys)
  <2>1. MoveDown(str, i, j) \in Rearranged(f, P)
    <3> HIDE DEF str, P, D
    <3>1. f = f /\ DOMAIN f \in SUBSET Int /\ lo .. hi \subseteq DOMAIN f
      BY <1>1 DEF D
    <3>2. str \in Rearranged(f, lo .. hi) /\ i \in lo .. hi /\ j \in lo .. hi
      BY <1>1, <1>2, <1>11
    <3> HIDE DEF lo, hi
    <3>3. MoveDown(str, i, j) \in Rearranged(f, lo .. hi)
      BY <1>1, <1>11, <3>1, <3>2, RearrangedMoves
    <3> QED BY <1>1, <3>3
  <2>2. ASSUME NEW k \in D PROVE y.lcp[k] \in L
    <3>1. newLcp[i] \in L /\ (equal(i) => found(i) \in L)
      BY <1>1, <1>6, <1>11, <1>12
    <3>2. k \in i + 2 .. Min({j + 1, hi}) => k - 1 \in D
      <4> SUFFICES ASSUME k \in i + 2 .. Min({j + 1, hi}) PROVE k - 1 \in D
        OBVIOUS
      <4>1. Min({j + 1, hi}) <= hi
        BY <1>1 DEF Min
      <4>2. Min({j + 1, hi}) \in Int
        BY <1>1 DEF Min
      <4> QED BY <1>1, <1>11, <4>1, <4>2
    <3>3. oldLcp[k] \in L /\ (k - 1 \in D => oldLcp[k - 1] \in L)
      BY <1>2
    <3>4. y.lcp[k] = IF k = i /\ equal(i) THEN found(i)
                     ELSE IF k = i + 1 /\ k <= hi THEN newLcp[i]
                     ELSE IF k \in i + 2 .. Min({j + 1, hi}) THEN oldLcp[k - 1]
                     ELSE oldLcp[k]
      BY <1>7
    <3> HIDE DEF found, equal
    <3> QED BY <3>1, <3>2, <3>3, <3>4
  <2>3. ASSUME NEW k \in D PROVE y.chars[k] \in C
    <3>1. equal(i) => GetChar(new, found(i)) \in C
      BY <1>5, <1>1, <1>12, CharTypes
    <3>2. k = i + 1 /\ k <= hi => GetChar(MoveDown(str, i, j)[k], newLcp[i]) \in C
      <4> SUFFICES ASSUME k = i + 1, k <= hi
                   PROVE  GetChar(MoveDown(str, i, j)[k], newLcp[i]) \in C
        OBVIOUS
      <4>1. k \in P
        BY <1>1, <1>11
      <4>2. MoveDown(str, i, j)[k] \in CStrings
        <5>1. Permuted(f, MoveDown(str, i, j), P)
          BY <2>1 DEF Rearranged
        <5>2. \E l \in P : MoveDown(str, i, j)[k] = f[l]
          <6> HIDE DEF P, str
          <6> QED BY <4>1, <5>1, PermutedFrom
        <5> QED BY <5>2 DEF Sharing
      <4>3. newLcp[i] \in Nat
        BY <1>6, <1>11, <1>1
      <4> QED BY <4>2, <4>3, CharTypes
    <3>3. x.chars[k] \in C /\ (k \in i + 2 .. j => x.chars[k - 1] \in C)
      <4>1. k \in i + 2 .. j => k - 1 \in D
        BY <1>1, <1>11
      <4> QED BY <1>2, <4>1
    <3>4. y.chars[k] = IF k = i /\ equal(i) THEN GetChar(new, found(i))
                       ELSE IF k = i + 1 /\ k <= hi
                            THEN GetChar(MoveDown(str, i, j)[k], newLcp[i])
                       ELSE IF k \in i + 2 .. j THEN x.chars[k - 1]
                       ELSE x.chars[k]
      BY <1>7
    <3> HIDE DEF found, equal, new, str
    <3> QED BY <3>1, <3>2, <3>3, <3>4
  <2>4. y.lcp \in [D -> L]
    <3>1. y.lcp = [k \in D |-> y.lcp[k]]
      BY <1>7
    <3> QED BY <2>2, <3>1
  <2>5. y.chars \in [D -> C]
    <3>1. y.chars = [k \in D |-> y.chars[k]]
      BY <1>7
    <3> QED BY <2>3, <3>1
  <2>6. y = [str |-> MoveDown(str, i, j), lcp |-> y.lcp, chars |-> y.chars, keys |-> keys]
    BY <1>7
  <2> QED BY <2>1, <2>4, <2>5, <2>6 DEF LcpStates
<1>14. ASSUME Inserted(x, sec, j, depth)
       PROVE  Inserted(y, sec, j + 1, depth)
  <2> DEFINE l(k) == LcpFrom(0, new, str[k])
  <2>1. /\ \A a, b \in lo .. j - 1 : a < b => AtMost(str[a], str[b])
        /\ \A k \in lo + 1 .. j - 1 : oldLcp[k] = LcpFrom(0, str[k - 1], str[k])
        /\ j > lo => oldLcp[j] = depth
    BY <1>1, <1>14 DEF Inserted, OrderedOn, LcpsRight
  <2>2. \A k \in lo .. j - 1 : k \in P /\ str[k] \in CStrings /\ l(k) \in Nat /\ l(k) >= depth
    <3> SUFFICES ASSUME NEW k \in lo .. j - 1
                 PROVE  k \in P /\ str[k] \in CStrings /\ l(k) \in Nat /\ l(k) >= depth
      OBVIOUS
    <3>1. k \in P
      BY <1>1
    <3>2. str[k] \in CStrings /\ new \in CStrings /\ Share(new, str[k], depth)
      BY <1>1, <1>5, <3>1
    <3>3. l(k) \in Nat /\ l(k) >= depth
      BY <1>1, <3>2, LcpFromIs, ShareLcp
    <3> QED BY <3>1, <3>2, <3>3
  <2>3. new \in CStrings
    BY <1>1, <1>5
  (* One position further down, if the LCPs are equal above it. *)
  <2>4. ASSUME NEW k \in lo + 1 .. j, k < j => newLcp[k] = l(k), oldLcp[k] = newLcp[k]
        PROVE  found(k) = l(k - 1)
    <3>1. k - 1 \in lo .. j - 1 /\ k \in lo .. j
      BY <1>1
    <3>2. newLcp[k] \in Nat
      BY <1>6, <3>1
    <3>3. Share(new, str[k - 1], newLcp[k])
      <4>1. CASE k = j
        BY <1>1, <1>5, <1>6, <2>2, <3>1, <4>1
      <4>2. CASE k < j
        <5>1. k \in lo + 1 .. j - 1 /\ k \in lo .. j - 1
          BY <1>1, <4>2
        <5>2. l(k) = newLcp[k] /\ LcpFrom(0, str[k - 1], str[k]) = newLcp[k]
          BY <2>1, <2>4, <4>2, <5>1
        <5>3. str[k] \in CStrings /\ str[k - 1] \in CStrings
          BY <2>2, <3>1, <5>1
        <5>4. LcpFrom(0, str[k], str[k - 1]) = newLcp[k]
          BY <5>2, <5>3, LessOrders
        <5>5. Share(new, str[k], newLcp[k]) /\ Share(str[k], str[k - 1], newLcp[k])
          BY <2>3, <3>2, <5>2, <5>3, <5>4, ShareLcp
        <5> QED BY <2>3, <3>2, <5>3, <5>5, ShareSame
      <4> QED BY <1>1, <4>1, <4>2
    <3> QED BY <2>2, <2>3, <3>1, <3>2, <3>3, LessIs
  (* As long as it goes on, the LCPs are those of the new string, which is *)
  (* less.                                                                 *)
  <2>5. ASSUME NEW k \in i + 1 .. j, k < j => newLcp[k] = l(k) /\ AtMost(new, str[k])
        PROVE  newLcp[k - 1] = l(k - 1) /\ AtMost(new, str[k - 1])
    <3>1. k \in lo + 1 .. j /\ k - 1 \in lo .. j - 1 /\ k \in lo .. j /\ (k - 1) + 1 = k
      BY <1>1, <1>11
    <3>2. /\ ~(oldLcp[k] < newLcp[k])
          /\ equal(k) => IsLess(set, new, found(k), str[k - 1], found(k))
      BY <1>10
    <3>3. newLcp[k] \in Nat
      BY <1>6, <3>1
    <3>4. newLcp[k - 1] = IF oldLcp[k] = newLcp[k] THEN found(k) ELSE newLcp[k]
      BY <1>6, <3>1
    <3>5. CASE oldLcp[k] = newLcp[k]
      <4>1. found(k) = l(k - 1)
        BY <2>4, <2>5, <3>1, <3>5
      <4>2. equal(k)
        BY <1>1, <3>1, <3>5
      <4>3. IsLess(set, new, l(k - 1), str[k - 1], l(k - 1))
        BY <3>2, <4>1, <4>2
      <4>4. AtMost(new, str[k - 1])
        BY <2>2, <2>3, <3>1, <4>3, IsLessIs
      <4> QED BY <3>4, <3>5, <4>1, <4>4
    <3>6. CASE oldLcp[k] # newLcp[k]
      <4>1. k # j
        BY <1>1, <1>6, <2>1, <3>1, <3>6
      <4>2. k \in lo + 1 .. j - 1 /\ k \in lo .. j - 1 /\ k < j
        BY <1>1, <3>1, <4>1
      <4>3. /\ newLcp[k] = l(k) /\ AtMost(new, str[k])
            /\ oldLcp[k] = LcpFrom(0, str[k - 1], str[k])
            /\ str[k] \in CStrings /\ str[k - 1] \in CStrings
        BY <2>1, <2>2, <2>5, <3>1, <4>2
      <4>4. oldLcp[k] \in Nat /\ oldLcp[k] = LcpFrom(0, str[k], str[k - 1])
        BY <4>3, LcpFromIs, LessOrders
      <4>5. LcpFrom(0, new, str[k]) < LcpFrom(0, str[k], str[k - 1])
        BY <3>2, <3>3, <3>6, <4>3, <4>4
      <4>6. l(k - 1) = l(k) /\ AtMost(new, str[k - 1])
        BY <2>3, <4>3, <4>5, LcpTriangle
      <4> QED BY <3>4, <3>6, <4>3, <4>6
    <3> QED BY <3>5, <3>6
  <2>6. ASSUME NEW k \in i .. j - 1
        PROVE  newLcp[k] = l(k) /\ AtMost(new, str[k])
    <3> DEFINE Q == {m \in Nat : (j - 1) - m >= i =>
                       newLcp[(j - 1) - m] = l((j - 1) - m) /\ AtMost(new, str[(j - 1) - m])}
    <3>0. i \in Int /\ j \in Int
      BY <1>11, <1>1
    <3>1. 0 \in Q
      <4> SUFFICES ASSUME (j - 1) - 0 >= i
                   PROVE  newLcp[(j - 1) - 0] = l((j - 1) - 0) /\ AtMost(new, str[(j - 1) - 0])
        OBVIOUS
      <4>1. j \in i + 1 .. j /\ (j - 1) - 0 = j - 1 /\ ~(j < j)
        BY <3>0
      <4> HIDE DEF l, str, new
      <4>2. newLcp[j - 1] = l(j - 1) /\ AtMost(new, str[j - 1])
        BY <2>5, <4>1
      <4> QED BY <4>1, <4>2
    <3>2. ASSUME NEW m \in Q PROVE m + 1 \in Q
      <4> DEFINE a == (j - 1) - m
      <4>0. m \in Nat
        OBVIOUS
      <4>1. (j - 1) - (m + 1) = a - 1
        BY <3>0, <4>0
      <4> SUFFICES ASSUME a - 1 >= i
                   PROVE  newLcp[a - 1] = l(a - 1) /\ AtMost(new, str[a - 1])
        BY <4>0, <4>1
      <4>2. a \in i + 1 .. j /\ a >= i
        BY <3>0, <4>0
      <4> HIDE DEF a, l, str, new
      <4>3. newLcp[a] = l(a) /\ AtMost(new, str[a])
        BY <3>2, <4>2 DEF a
      <4> QED BY <2>5, <4>2, <4>3
    <3> HIDE DEF Q
    <3>3. Q = Nat
      <4>1. Q \in SUBSET Nat
        BY DEF Q
      <4> QED BY <3>1, <3>2, <4>1, NatInd
    <3>4. (j - 1) - k \in Nat /\ (j - 1) - ((j - 1) - k) = k /\ k >= i
      BY <3>0
    <3>5. (j - 1) - k \in Q
      BY <3>3, <3>4
    <3> HIDE DEF l, str, new
    <3> QED BY <3>4, <3>5 DEF Q
  (* Where it stops. *)
  <2>7. ASSUME i > lo
        PROVE  /\ AtMost(str[i - 1], new)
               /\ IF equal(i) THEN found(i) = l(i - 1) ELSE i < j /\ oldLcp[i] = l(i - 1)
    <3>1. i \in lo + 1 .. j /\ i - 1 \in lo .. j - 1
      BY <1>1, <1>11, <2>7
    <3>2. i < j => i \in i .. j - 1
      BY <1>1, <1>11
    <3>3. CASE equal(i)
      <4>1. found(i) = l(i - 1)
        BY <2>4, <2>6, <3>1, <3>2, <3>3
      <4>2. newLcp[i] \in Nat /\ oldLcp[i] = newLcp[i]
        BY <1>6, <1>1, <1>11, <3>3
      <4>3. ~IsLess(set, new, l(i - 1), str[i - 1], l(i - 1))
        BY <1>9, <2>7, <4>1, <4>2
      <4>4. AtMost(str[i - 1], new)
        BY <2>2, <2>3, <3>1, <4>3, IsLessIs
      <4> QED BY <3>3, <4>1, <4>4
    <3>4. CASE ~equal(i)
      <4>1. oldLcp[i] < newLcp[i] /\ oldLcp[i] # newLcp[i]
        BY <1>9, <2>7, <3>4
      <4>2. i # j
        BY <1>6, <2>1, <2>7, <4>1
      <4>3. i \in i .. j - 1 /\ i \in lo + 1 .. j - 1 /\ i \in lo .. j - 1 /\ i < j
        BY <1>1, <1>11, <3>1, <4>2
      <4>4. /\ newLcp[i] = l(i) /\ oldLcp[i] = LcpFrom(0, str[i - 1], str[i])
            /\ AtMost(str[i - 1], str[i])
            /\ str[i] \in CStrings /\ str[i - 1] \in CStrings
        <5>1. i - 1 < i
          BY <1>11
        <5> QED BY <2>1, <2>2, <2>6, <3>1, <4>3, <5>1
      <4>5. l(i) = LcpFrom(0, str[i], new)
        BY <2>3, <4>4, LessOrders
      <4>6. LcpFrom(0, str[i - 1], str[i]) < LcpFrom(0, str[i], new)
        BY <4>1, <4>4, <4>5
      <4>7. LcpFrom(0, str[i - 1], new) = oldLcp[i] /\ AtMost(str[i - 1], new)
        BY <2>3, <4>4, <4>6, LcpTriangle
      <4>8. l(i - 1) = LcpFrom(0, str[i - 1], new)
        BY <2>3, <4>4, LessOrders
      <4> QED BY <3>4, <4>3, <4>7, <4>8
    <3> QED BY <3>3, <3>4
  <2> HIDE DEF l
  <2> DEFINE g == y.str
  <2>8. /\ g = MoveDown(str, i, j)
        /\ \A k \in D : y.lcp[k] = IF k = i /\ equal(i) THEN found(i)
                                   ELSE IF k = i + 1 /\ k <= hi THEN newLcp[i]
                                   ELSE IF k \in i + 2 .. Min({j + 1, hi}) THEN oldLcp[k - 1]
                                   ELSE oldLcp[k]
    BY <1>7
  <2>9. OrderedOn(g, lo .. j)
    <3>1. lo .. j \subseteq D /\ \A k \in lo .. j : str[k] \in CStrings
      BY <1>1, <1>5
    <3>2. OrderedOn(str, lo .. j - 1)
      BY <2>1 DEF OrderedOn
    <3>3. \A k \in i .. j - 1 : AtMost(str[j], str[k])
      BY <2>6
    <3>4. i > lo => AtMost(str[i - 1], str[j])
      BY <2>7
    <3> HIDE DEF str, new, D, lo, g
    <3> QED BY <1>1, <1>3, <1>11, <2>8, <3>1, <3>2, <3>3, <3>4, InsertedOrder
  <2>10. \A k \in lo .. j : g[k] = IF k = i THEN new ELSE IF k \in i + 1 .. j THEN str[k - 1] ELSE str[k]
    <3>1. lo .. j \subseteq D
      BY <1>1
    <3> QED BY <1>3, <2>8, <3>1 DEF MoveDown
  <2> HIDE DEF g, found, equal, str, new, oldLcp
  <2>11. Min({j + 1, hi}) = (IF hi <= j THEN hi ELSE j + 1)
    <3> HIDE DEF hi
    <3>1. CASE hi <= j
      <4>1. hi \in {j + 1, hi} /\ \A z \in {j + 1, hi} : hi <= z
        BY <1>1, <3>1
      <4>2. \A w \in {j + 1, hi} : (\A z \in {j + 1, hi} : w <= z) => w = hi
        BY <1>1, <3>1
      <4> QED BY <3>1, <4>1, <4>2 DEF Min
    <3>2. CASE ~(hi <= j)
      <4>1. j + 1 \in {j + 1, hi} /\ \A z \in {j + 1, hi} : j + 1 <= z
        BY <1>1, <3>2
      <4>2. \A w \in {j + 1, hi} : (\A z \in {j + 1, hi} : w <= z) => w = j + 1
        BY <1>1, <3>2
      <4> QED BY <3>2, <4>1, <4>2 DEF Min
    <3> QED BY <3>1, <3>2
  <2>12. ASSUME NEW k \in lo + 1 .. j PROVE y.lcp[k] = LcpFrom(0, g[k - 1], g[k])
    <3>0. k \in Int /\ lo + 1 <= k /\ k <= j /\ k <= hi /\ k \in D /\ k - 1 \in lo .. j /\ k \in lo .. j
      BY <1>1
    <3>1. CASE k < i
      <4>1. g[k] = str[k] /\ g[k - 1] = str[k - 1] /\ y.lcp[k] = oldLcp[k]
        BY <1>11, <2>8, <2>10, <3>0, <3>1
      <4>2. k \in lo + 1 .. j - 1
        BY <1>11, <1>1, <3>0, <3>1
      <4> QED BY <2>1, <4>1, <4>2
    <3>2. CASE k = i
      <4>1. g[k] = new /\ g[k - 1] = str[i - 1]
        BY <1>11, <2>10, <3>0, <3>2
      <4>2. y.lcp[k] = IF equal(i) THEN found(i) ELSE oldLcp[i]
        BY <1>11, <2>8, <3>0, <3>2
      <4>3. y.lcp[k] = l(i - 1)
        BY <1>1, <1>11, <2>7, <3>0, <3>2, <4>2
      <4>4. i - 1 \in lo .. j - 1
        BY <1>1, <1>11, <3>0, <3>2
      <4>5. l(i - 1) = LcpFrom(0, str[i - 1], new)
        BY <2>2, <2>3, <4>4, LessOrders DEF l
      <4> QED BY <4>1, <4>3, <4>5
    <3>3. CASE k = i + 1
      <4>1. g[k] = str[i] /\ g[k - 1] = new
        BY <1>11, <2>10, <3>0, <3>3
      <4>2. y.lcp[k] = newLcp[i]
        BY <1>11, <2>8, <3>0, <3>3
      <4>3. i \in i .. j - 1
        BY <1>1, <1>11, <3>0, <3>3
      <4> QED BY <2>6, <4>1, <4>2, <4>3 DEF l
    <3>4. CASE k > i + 1
      <4>1. g[k] = str[k - 1] /\ g[k - 1] = str[k - 2]
        <5>1. k \in i + 1 .. j /\ k - 1 \in i + 1 .. j /\ (k - 1) - 1 = k - 2 /\ k # i /\ k - 1 # i
          BY <1>11, <3>0, <3>4
        <5> QED BY <2>10, <3>0, <5>1
      <4>2. y.lcp[k] = oldLcp[k - 1]
        <5>1. k \in i + 2 .. Min({j + 1, hi}) /\ k # i /\ k # i + 1
          BY <1>1, <1>11, <2>11, <3>0, <3>4
        <5> QED BY <2>8, <3>0, <5>1
      <4>3. k - 1 \in lo + 1 .. j - 1 /\ (k - 1) - 1 = k - 2
        BY <1>11, <1>1, <3>0, <3>4
      <4> QED BY <2>1, <4>1, <4>2, <4>3
    <3> QED BY <1>11, <3>0, <3>1, <3>2, <3>3, <3>4
  <2>13. j + 1 \in P => y.lcp[j + 1] = depth
    <3> SUFFICES ASSUME j + 1 \in P PROVE y.lcp[j + 1] = depth
      OBVIOUS
    <3>0. j + 1 \in D /\ j + 1 <= hi
      BY <1>1
    <3>1. CASE i = j
      <4>1. y.lcp[j + 1] = newLcp[j]
        BY <1>1, <1>11, <2>8, <3>0, <3>1
      <4> QED BY <1>6, <4>1
    <3>2. CASE i < j
      <4>1. j + 1 \in i + 2 .. Min({j + 1, hi}) /\ j + 1 # i /\ j + 1 # i + 1 /\ (j + 1) - 1 = j
        BY <1>1, <1>11, <2>11, <3>0, <3>2
      <4>2. y.lcp[j + 1] = oldLcp[j]
        BY <2>8, <3>0, <4>1
      <4> QED BY <1>1, <1>11, <2>1, <3>2, <4>2
    <3> QED BY <1>1, <1>11, <3>1, <3>2
  <2>14. (j + 1) - 1 = j
    BY <1>1
  <2> QED BY <2>9, <2>12, <2>13, <2>14 DEF Inserted, LcpsRight, g
<1> QED BY <1>13, <1>14 DEF y


LEMMA LcpInsertionSortSorts ==
  ASSUME NEW f, DOMAIN f \in SUBSET Int, NEW sec, sec.lo \in Int, sec.n \in Nat,
         Positions(sec) \subseteq DOMAIN f, NEW depth, Sharing(f, Positions(sec), depth),
         NEW L, Int \subseteq L, NEW C, Int \subseteq C, NEW keys, NEW set,
         NEW st \in LcpStates(f, sec, L, C, keys)
  PROVE  /\ LcpInsertionSort(set, st, sec, depth) \in LcpStates(f, sec, L, C, keys)
         /\ OrderedOn(LcpInsertionSort(set, st, sec, depth).str, Positions(sec))
         /\ LcpsRight(LcpInsertionSort(set, st, sec, depth), sec.lo, sec.lo + sec.n)
<1> DEFINE lo == sec.lo
           n == sec.n
           P == Positions(sec)
           T == LcpStates(f, sec, L, C, keys)
           insert(x, j) == InsertLcp(set, x, sec, j, depth)
           seq == [k \in 1 .. n |-> lo + k - 1]
           step == [k \in 1 .. n |-> [t \in T |-> insert(t, seq[k])]]
           iter == CHOOSE g : g = [U \in SUBSET (1 .. n) |->
                     IF U = {} THEN st ELSE insert(g[U \ {Max(U)}], seq[Max(U)])]
<1>1. LcpInsertionSort(set, st, sec, depth) = IF n <= 1 THEN st ELSE iter[1 .. n]
  BY DEF LcpInsertionSort, ForEach, FoldLeft, MapThenFoldSet
<1>2. lo \in Int /\ n \in Nat
  OBVIOUS
<1>3. st \in T
  OBVIOUS
<1>4. \A t \in T, j \in P : insert(t, j) \in T
  BY InsertLcpSorts
<1>5. \A k \in 1 .. n : seq[k] \in P
  BY <1>2 DEF Positions
<1>6. /\ \A k \in 1 .. n, t \in T : step[k][t] = insert(t, seq[k])
      /\ \A k \in 1 .. n, t \in T : step[k][t] \in T
  <2> HIDE DEF insert, T, seq, P
  <2>1. \A k \in 1 .. n, t \in T : step[k][t] = insert(t, seq[k])
    OBVIOUS
  <2>2. \A k \in 1 .. n, t \in T : insert(t, seq[k]) \in T
    BY <1>4, <1>5
  <2> QED BY <2>1, <2>2
<1> HIDE DEF step
<1>7. PICK h \in [SUBSET (1 .. n) -> T] : FoldingLeft(h, n, st, step)
  <2>1. n \in Nat
    BY <1>2
  <2>2. \A k \in 1 .. n, t \in T : step[k][t] \in T
    BY <1>6
  <2> HIDE DEF T, lo, n, insert, seq
  <2> QED BY ONLY <2>1, <1>3, <2>2, FoldLeftExists
<1>8. \A U \in SUBSET (1 .. n) : U # {} => Max(U) \in 1 .. n
  <2> SUFFICES ASSUME NEW U \in SUBSET (1 .. n), U # {} PROVE Max(U) \in 1 .. n
    OBVIOUS
  <2>1. IsFiniteSet(1 .. n)
    <3>1. n \in Int
      BY <1>2
    <3> QED BY ONLY <3>1, FS_Interval
  <2>2. IsFiniteSet(U)
    BY <2>1, FS_Subset
  <2>3. U \in SUBSET Int
    OBVIOUS
  <2> QED BY <2>2, <2>3, MaxIs
<1> HIDE DEF insert, seq, T
<1>9. h = [U \in SUBSET (1 .. n) |-> IF U = {} THEN st ELSE insert(h[U \ {Max(U)}], seq[Max(U)])]
  <2>1. ASSUME NEW U \in SUBSET (1 .. n), U # {}
        PROVE  h[U] = insert(h[U \ {Max(U)}], seq[Max(U)])
    <3>1. h[U \ {Max(U)}] \in T
      BY <1>7
    <3> QED BY <1>6, <1>7, <1>8, <2>1, <3>1 DEF FoldingLeft
  <2> QED BY <1>7, <2>1 DEF FoldingLeft
<1>10. iter = [U \in SUBSET (1 .. n) |-> IF U = {} THEN st ELSE insert(iter[U \ {Max(U)}], seq[Max(U)])]
  BY <1>9
<1> HIDE DEF iter
<1>11. PICK r \in [0 .. n -> T] : OneByOne(r, n, st, step, iter[1 .. n])
  <2>1. iter[{}] = st
    BY <1>10
  <2>2. ASSUME NEW U \in SUBSET (1 .. n), U # {}, iter[U \ {Max(U)}] \in T
        PROVE  iter[U] = step[Max(U)][iter[U \ {Max(U)}]]
    BY <1>6, <1>8, <1>10, <2>2
  <2>3. n \in Nat
    BY <1>2
  <2>4. \A k \in 1 .. n, t \in T : step[k][t] \in T
    BY <1>6
  <2>5. \A U \in SUBSET (1 .. n) : U # {} /\ iter[U \ {Max(U)}] \in T =>
          iter[U] = step[Max(U)][iter[U \ {Max(U)}]]
    BY <2>2
  <2> HIDE DEF n
  <2> QED BY ONLY <1>3, <2>1, <2>3, <2>4, <2>5, FoldLeftRuns
<1>12. iter[1 .. n] \in T /\ r[n] = iter[1 .. n] /\ r[0] = st
  BY <1>2, <1>11 DEF OneByOne
<1>13. ASSUME NEW k \in Nat, k + 1 <= n
      PROVE  r[k] \in T /\ k + 1 \in 1 .. n /\ r[k + 1] = insert(r[k], seq[k + 1])
  <2>1. k \in 0 .. n /\ k + 1 \in 1 .. n /\ (k + 1) - 1 = k
    BY <1>2, <1>13
  <2>2. r[k + 1] = step[k + 1][r[k]] /\ r[k] \in T
    BY <1>11, <2>1 DEF OneByOne
  <2> QED BY <1>6, <2>1, <2>2
<1>14. \A k \in Nat : k <= n => Inserted(r[k], sec, lo + k, depth)
  <2> DEFINE Q == {k \in Nat : k <= n => Inserted(r[k], sec, lo + k, depth)}
  <2>1. 0 \in Q
    <3>1. Inserted(st, sec, lo, depth)
      BY <1>2 DEF Inserted, OrderedOn, LcpsRight
    <3>2. lo + 0 = lo
      BY <1>2
    <3> QED BY <1>12, <3>1, <3>2
  <2>2. ASSUME NEW k \in Q PROVE k + 1 \in Q
    <3> SUFFICES ASSUME k + 1 <= n PROVE Inserted(r[k + 1], sec, lo + (k + 1), depth)
      OBVIOUS
    <3>1. k \in Nat /\ k <= n /\ lo + (k + 1) = (lo + k) + 1
      BY <1>2
    <3>2. Inserted(r[k], sec, lo + k, depth)
      BY <2>2, <3>1
    <3>3. r[k] \in T /\ r[k + 1] = insert(r[k], lo + k)
      <4>1. r[k] \in T /\ k + 1 \in 1 .. n /\ r[k + 1] = insert(r[k], seq[k + 1])
        BY <1>13, <3>1
      <4>2. seq[k + 1] = lo + k
        BY <1>2, <3>1, <4>1 DEF seq
      <4> QED BY <4>1, <4>2
    <3>4. lo + k \in P
      BY <1>2, <3>1 DEF Positions
    <3>5. Inserted(insert(r[k], lo + k), sec, (lo + k) + 1, depth)
      BY <3>2, <3>3, <3>4, InsertLcpSorts DEF insert, T
    <3> QED BY <3>1, <3>3, <3>5
  <2> HIDE DEF Q
  <2>3. Q = Nat
    <3>1. Q \in SUBSET Nat
      BY DEF Q
    <3> QED BY <2>1, <2>2, <3>1, NatInd
  <2> QED BY <2>3 DEF Q
<1>15. Inserted(iter[1 .. n], sec, lo + n, depth)
  <2>1. n <= n
    BY <1>2
  <2> QED BY <1>2, <1>12, <1>14, <2>1
<1>16. OrderedOn(iter[1 .. n].str, P) /\ LcpsRight(iter[1 .. n], lo, lo + n)
  BY <1>15 DEF Inserted, Positions
<1>17. ASSUME n <= 1 PROVE OrderedOn(st.str, P) /\ LcpsRight(st, lo, lo + n)
  BY <1>2, <1>17 DEF OrderedOn, LcpsRight, Positions
<1> QED BY <1>1, <1>3, <1>12, <1>16, <1>17 DEF T

-----------------------------------------------------------------------------
(* insertion_sort(): every kind of it sorts.                               *)
States(D, V, L, C, K) == [str : [D -> V], lcp : [D -> L], chars : [D -> C], keys : K]

SectionSorted(r, st, P, D, V, L, C, K) ==
  /\ r \in States(D, V, L, C, K)
  /\ r.str \in Rearranged(st.str, P)
  /\ OrderedOn(r.str, P)

LEMMA SharingPermuted ==
  ASSUME NEW D, NEW f, NEW g, Permuted(f, g, D), NEW depth, Sharing(f, D, depth)
  PROVE  Sharing(g, D, depth)
<1>1. \A i \in D : \E j \in D : g[i] = f[j]
  BY PermutedFrom
<1> QED BY <1>1 DEF Sharing

LEMMA InsertionSortSorts ==
  ASSUME NEW D \in SUBSET Int, NEW sec, sec.lo \in Int, sec.n \in Nat, Positions(sec) \subseteq D,
         NEW V, NEW L, Int \subseteq L, NEW C, Int \subseteq C, NEW keys, NEW set, NEW cls,
         NEW st \in States(D, V, L, C, {keys}), NEW depth, Sharing(st.str, Positions(sec), depth)
  PROVE  SectionSorted(InsertionSort(set, cls, st, sec, depth), st, Positions(sec), D, V, L, C, {keys})
<1> DEFINE f == st.str
           P == Positions(sec)
           sorted == LcpInsertionSort(set, st, sec, depth)
           r == InsertionSort(set, cls, st, sec, depth)
<1>1. /\ st = [str |-> f, lcp |-> st.lcp, chars |-> st.chars, keys |-> keys]
      /\ f \in [D -> V] /\ DOMAIN f = D /\ st.lcp \in [D -> L] /\ st.chars \in [D -> C]
      /\ f = [i \in DOMAIN f |-> f[i]]
  BY DEF States
<1>2. st \in LcpStates(f, sec, L, C, keys)
  <2>1. f \in Rearranged(f, P)
    <3> HIDE DEF f, P
    <3> QED BY <1>1, RearrangedSame
  <2> HIDE DEF f, P
  <2>2. st = [str |-> f, lcp |-> st.lcp, chars |-> st.chars, keys |-> keys]
    BY <1>1
  <2> QED BY <1>1, <2>1, <2>2 DEF LcpStates, P
<1>3. sorted \in LcpStates(f, sec, L, C, keys) /\ OrderedOn(sorted.str, P)
  <2> HIDE DEF f
  <2>1. Sharing(f, Positions(sec), depth)
    BY DEF f
  <2>2. DOMAIN f \in SUBSET Int /\ Positions(sec) \subseteq DOMAIN f
    BY <1>1
  <2> QED BY <1>2, <2>1, <2>2, LcpInsertionSortSorts
<1>4. InssortGeneric(f, sec, depth) \in Rearranged(f, P) /\ OrderedOn(InssortGeneric(f, sec, depth), P)
  <2> HIDE DEF f
  <2>1. Sharing(f, Positions(sec), depth)
    BY DEF f
  <2>2. DOMAIN f \in SUBSET Int /\ Positions(sec) \subseteq DOMAIN f
    BY <1>1
  <2> QED BY <1>1, <2>1, <2>2, InssortSorts
<1>5. \A g \in Rearranged(f, P) : g \in [D -> V]
  <2>1. {f[i] : i \in D} \subseteq V
    BY <1>1
  <2> QED BY <1>1, <2>1 DEF Rearranged
<1> HIDE DEF sorted
<1>6. /\ sorted = [str |-> sorted.str, lcp |-> sorted.lcp, chars |-> sorted.chars, keys |-> keys]
      /\ sorted.str \in Rearranged(f, P)
      /\ sorted.lcp \in [D -> L] /\ sorted.chars \in [D -> C]
  BY <1>1, <1>3 DEF LcpStates
<1>7. CASE ~cls.lcp
  <2> DEFINE g == IF UseLcpInssort THEN sorted.str ELSE InssortGeneric(f, sec, depth)
  <2>1. r = [st EXCEPT !.str = g]
    BY <1>7 DEF InsertionSort, sorted
  <2>2. g \in Rearranged(f, P) /\ OrderedOn(g, P)
    BY <1>3, <1>4, <1>6
  <2> HIDE DEF g, r
  <2>3. r.str = g /\ r \in States(D, V, L, C, {keys})
    <3>1. g \in [D -> V]
      BY <1>5, <2>2
    <3>2. DOMAIN r = {"str", "lcp", "chars", "keys"}
          /\ r.str = g /\ r.lcp = st.lcp /\ r.chars = st.chars /\ r.keys = keys
      <4>1. st = [str |-> f, lcp |-> st.lcp, chars |-> st.chars, keys |-> keys]
        BY <1>1
      <4> HIDE DEF f
      <4> QED BY ONLY <2>1, <4>1
    <3>3. r = [a \in DOMAIN r |-> r[a]]
      BY ONLY <2>1
    <3>4. r = [str |-> g, lcp |-> st.lcp, chars |-> st.chars, keys |-> keys]
      BY ONLY <3>2, <3>3
    <3> QED BY <1>1, <3>1, <3>4 DEF States
  <2>4. r \in States(D, V, L, C, {keys}) /\ r.str \in Rearranged(f, P) /\ OrderedOn(r.str, P)
    BY <2>2, <2>3
  <2> QED BY <2>4 DEF r, SectionSorted
<1>8. CASE cls.lcp
  <2> DEFINE c == IF cls.cache THEN sorted.chars ELSE st.chars
  <2>1. r = [sorted EXCEPT !.chars = c]
    BY <1>8 DEF InsertionSort, sorted
  <2>2. c \in [D -> C]
    BY <1>1, <1>6
  <2> HIDE DEF c, r
  <2>3. r.str = sorted.str /\ r \in States(D, V, L, C, {keys})
    <3>1. sorted.str \in [D -> V]
      BY <1>5, <1>6
    <3>2. DOMAIN r = {"str", "lcp", "chars", "keys"}
          /\ r.str = sorted.str /\ r.lcp = sorted.lcp /\ r.chars = c /\ r.keys = keys
      <4>1. sorted = [str |-> sorted.str, lcp |-> sorted.lcp, chars |-> sorted.chars, keys |-> keys]
        BY <1>6
      <4> QED BY ONLY <2>1, <4>1
    <3>3. r = [a \in DOMAIN r |-> r[a]]
      BY ONLY <2>1
    <3>4. r = [str |-> sorted.str, lcp |-> sorted.lcp, chars |-> c, keys |-> keys]
      BY ONLY <3>2, <3>3
    <3> QED BY <1>6, <2>2, <3>1, <3>4 DEF States
  <2>4. r \in States(D, V, L, C, {keys}) /\ r.str \in Rearranged(f, P) /\ OrderedOn(r.str, P)
    BY <1>3, <1>6, <2>3
  <2> QED BY <2>4 DEF r, SectionSorted
<1> QED BY <1>7, <1>8


-----------------------------------------------------------------------------
(* insertion_sort_cache_block: the strings and their keys move together.   *)
KeyedStrings(x, D) == [i \in D |-> <<x.str[i], x.keys[i]>>]
KeysInOrder(keys, D) == \A i, j \in D : i < j => keys[i] <= keys[j]

BothMoved(x, y, D, i, j) ==
  /\ D \in SUBSET Int /\ DOMAIN x.str = D /\ DOMAIN x.keys = D
  /\ i \in Int /\ j \in Int /\ i <= j /\ i .. j \subseteq D
  /\ y.str = MoveDown(x.str, i, j) /\ y.keys = MoveDown(x.keys, i, j)

LEMMA PairsMove ==
  ASSUME NEW D, NEW x, NEW i, NEW j, NEW y, BothMoved(x, y, D, i, j)
  PROVE  KeyedStrings(y, D) = MoveDown(KeyedStrings(x, D), i, j)
<1>0. /\ D \in SUBSET Int /\ DOMAIN x.str = D /\ DOMAIN x.keys = D
      /\ i \in Int /\ j \in Int /\ i <= j /\ i .. j \subseteq D
      /\ y.str = MoveDown(x.str, i, j) /\ y.keys = MoveDown(x.keys, i, j)
  BY DEF BothMoved
<1> DEFINE a == x.str
           b == x.keys
           p == [k \in D |-> <<a[k], b[k]>>]
<1>1. MoveDown(p, i, j) = [k \in D |-> IF k = i THEN p[j] ELSE IF k \in i + 1 .. j THEN p[k - 1] ELSE p[k]]
  BY DEF MoveDown
<1>2. ASSUME NEW k \in D
      PROVE  <<MoveDown(a, i, j)[k], MoveDown(b, i, j)[k]>>
               = IF k = i THEN p[j] ELSE IF k \in i + 1 .. j THEN p[k - 1] ELSE p[k]
  <2>1. j \in D /\ (k \in i + 1 .. j => k - 1 \in D)
    BY <1>0
  <2>2. CASE k = i
    BY <1>0, <2>1, <2>2 DEF MoveDown
  <2>3. CASE k # i /\ k \in i + 1 .. j
    BY <1>0, <2>1, <2>3 DEF MoveDown
  <2>4. CASE k # i /\ k \notin i + 1 .. j
    BY <1>0, <2>4 DEF MoveDown
  <2> QED BY <2>2, <2>3, <2>4
<1> HIDE DEF p
<1>3. KeyedStrings(y, D) = [k \in D |-> <<MoveDown(a, i, j)[k], MoveDown(b, i, j)[k]>>]
  BY <1>0 DEF KeyedStrings
<1>4. KeyedStrings(x, D) = p
  BY DEF KeyedStrings, p
<1> QED BY <1>1, <1>2, <1>3, <1>4

(* A key put below those that are greater. *)
LEMMA InsertedKeys ==
  ASSUME NEW D \in SUBSET Int, NEW f, DOMAIN f = D,
         NEW lo \in Int, NEW i \in Int, NEW j \in Int, lo <= i, i <= j, lo .. j \subseteq D,
         \A k \in lo .. j : f[k] \in Int, KeysInOrder(f, lo .. j - 1),
         \A k \in i .. j - 1 : f[j] <= f[k],
         i > lo => f[i - 1] <= f[j]
  PROVE  KeysInOrder(MoveDown(f, i, j), lo .. j)
<1> DEFINE g == MoveDown(f, i, j)
<1>1. \A k \in lo .. j : g[k] = IF k = i THEN f[j] ELSE IF k \in i + 1 .. j THEN f[k - 1] ELSE f[k]
  BY DEF MoveDown
<1> HIDE DEF g
<1> SUFFICES ASSUME NEW a \in lo .. j, NEW b \in lo .. j, a < b PROVE g[a] <= g[b]
  BY DEF KeysInOrder, g
<1>2. \A k, l \in lo .. j - 1 : k < l => f[k] <= f[l]
  BY DEF KeysInOrder
<1>3. CASE b = i
  <2>1. g[b] = f[j] /\ g[a] = f[a] /\ i > lo /\ a <= i - 1 /\ i - 1 \in lo .. j - 1 /\ a \in lo .. j - 1
    BY <1>1, <1>3
  <2>2. CASE a = i - 1
    BY <2>1, <2>2
  <2>3. CASE a < i - 1
    <3>1. f[a] <= f[i - 1] /\ f[i - 1] <= f[j]
      BY <1>2, <2>1, <2>3
    <3>2. f[a] \in Int /\ f[i - 1] \in Int /\ f[j] \in Int
      BY <2>1
    <3>3. f[a] <= f[j]
      BY ONLY <3>1, <3>2
    <3> QED BY <2>1, <3>3
  <2> QED BY <2>1, <2>2, <2>3
<1>4. CASE a = i
  <2>1. g[a] = f[j] /\ g[b] = f[b - 1] /\ b - 1 \in i .. j - 1
    BY <1>1, <1>4
  <2> QED BY <2>1
<1>5. CASE a # i /\ b # i
  <2> DEFINE k == IF a < i THEN a ELSE a - 1
             l == IF b < i THEN b ELSE b - 1
  <2>1. k \in lo .. j - 1 /\ l \in lo .. j - 1 /\ k < l
    BY <1>5
  <2>2. g[a] = f[k] /\ g[b] = f[l]
    BY <1>1, <1>5
  <2> HIDE DEF k, l
  <2> QED BY <1>2, <2>1, <2>2
<1> QED BY <1>3, <1>4, <1>5

BlockStates(st, P, D, V, K) ==
  {x \in [str : [D -> V], lcp : {st.lcp}, chars : {st.chars}, keys : [D -> K]] :
     KeyedStrings(x, D) \in Rearranged(KeyedStrings(st, D), P)}

LEMMA BlockSorts ==
  ASSUME NEW D \in SUBSET Int, NEW sec, sec.lo \in Int, sec.n \in Nat, Positions(sec) \subseteq D,
         NEW V, NEW K, NEW L, NEW C, NEW st \in States(D, V, L, C, [D -> K]),
         \A k \in Positions(sec) : st.keys[k] \in Int
  PROVE  /\ InsertionSortCacheBlock(st, sec) \in BlockStates(st, Positions(sec), D, V, K)
         /\ KeysInOrder(InsertionSortCacheBlock(st, sec).keys, Positions(sec))
<1> DEFINE lo == sec.lo
           n == sec.n
           hi == lo + n - 1
           P == Positions(sec)
           T == BlockStates(st, P, D, V, K)
           B(x, j) == {i \in lo + 1 .. j : x.keys[i - 1] <= x.keys[j]}
           place(x, j) == Max({lo} \union B(x, j))
           insert(x, j) == [x EXCEPT !.str = MoveDown(@, place(x, j), j),
                                     !.keys = MoveDown(@, place(x, j), j)]
           seq == [k \in 1 .. n |-> lo + k - 1]
           step == [k \in 1 .. n |-> [t \in T |-> insert(t, seq[k])]]
           iter == CHOOSE g : g = [U \in SUBSET (1 .. n) |->
                     IF U = {} THEN st ELSE insert(g[U \ {Max(U)}], seq[Max(U)])]
<1>1. InsertionSortCacheBlock(st, sec) = iter[1 .. n]
  BY DEF InsertionSortCacheBlock, ForEach, FoldLeft, MapThenFoldSet, PlaceOf
<1>2. lo \in Int /\ n \in Nat /\ P = lo .. hi /\ hi \in Int
  BY DEF Positions
<1>3. st \in T
  <2>1. KeyedStrings(st, D) \in Rearranged(KeyedStrings(st, D), P)
    <3>1. KeyedStrings(st, D) = [i \in DOMAIN KeyedStrings(st, D) |-> KeyedStrings(st, D)[i]]
      BY DEF KeyedStrings
    <3> HIDE DEF P
    <3> QED BY <3>1, RearrangedSame
  <2>2. st \in [str : [D -> V], lcp : {st.lcp}, chars : {st.chars}, keys : [D -> K]]
    BY DEF States
  <2> QED BY <2>1, <2>2 DEF BlockStates
<1>17. ASSUME NEW t \in T, NEW j \in P
       PROVE  /\ t = [str |-> t.str, lcp |-> st.lcp, chars |-> st.chars, keys |-> t.keys]
              /\ t.str \in [D -> V] /\ t.keys \in [D -> K]
              /\ DOMAIN t.str = D /\ DOMAIN t.keys = D
              /\ KeyedStrings(t, D) \in Rearranged(KeyedStrings(st, D), P)
              /\ j \in Int /\ lo <= j /\ j <= hi
              /\ place(t, j) \in lo .. j /\ place(t, j) \in Int /\ place(t, j) \in P
              /\ place(t, j) > lo => place(t, j) \in B(t, j)
              /\ \A k \in place(t, j) + 1 .. j : k \notin B(t, j)
  <2> DEFINE E == B(t, j)
             m == Max({lo} \union E)
  <2>1. E \in SUBSET (lo + 1 .. j) /\ lo <= j /\ j \in Int /\ j <= hi
    BY <1>2
  <2> HIDE DEF E, B, lo, hi, P
  <2>2. /\ m \in lo .. j /\ (m > lo => m \in E) /\ \A k \in m + 1 .. j : k \notin E
    BY <1>2, <2>1, MaxPlace
  <2> HIDE DEF m
  <2>3. m \in Int /\ m \in P
    BY <1>2, <2>1, <2>2
  <2>4. /\ t = [str |-> t.str, lcp |-> st.lcp, chars |-> st.chars, keys |-> t.keys]
        /\ t.str \in [D -> V] /\ t.keys \in [D -> K]
        /\ DOMAIN t.str = D /\ DOMAIN t.keys = D
        /\ KeyedStrings(t, D) \in Rearranged(KeyedStrings(st, D), P)
    BY DEF BlockStates
  <2> QED BY <2>1, <2>2, <2>3, <2>4 DEF m, E
<1>18. ASSUME NEW t \in T, NEW j \in P
       PROVE  insert(t, j) = [str |-> MoveDown(t.str, place(t, j), j), lcp |-> st.lcp,
                              chars |-> st.chars, keys |-> MoveDown(t.keys, place(t, j), j)]
  <2> DEFINE y == insert(t, j)
             a == MoveDown(t.str, place(t, j), j)
             b == MoveDown(t.keys, place(t, j), j)
  <2>1. t = [str |-> t.str, lcp |-> st.lcp, chars |-> st.chars, keys |-> t.keys]
    BY <1>17
  <2>2. y = [t EXCEPT !.str = a, !.keys = b]
    OBVIOUS
  <2> HIDE DEF a, b, y
  <2>3. /\ DOMAIN y = {"str", "lcp", "chars", "keys"}
        /\ y.str = a /\ y.lcp = st.lcp /\ y.chars = st.chars /\ y.keys = b
    BY ONLY <2>1, <2>2
  <2>4. y = [c \in DOMAIN y |-> y[c]]
    BY ONLY <2>2
  <2>5. y = [str |-> a, lcp |-> st.lcp, chars |-> st.chars, keys |-> b]
    BY ONLY <2>3, <2>4
  <2> QED BY <2>5 DEF a, b, y
<1> HIDE DEF place, insert
<1>4. \A t \in T, j \in P : insert(t, j) \in T
  <2> SUFFICES ASSUME NEW t \in T, NEW j \in P PROVE insert(t, j) \in T
    OBVIOUS
  <2> DEFINE y == insert(t, j)
             i == place(t, j)
  <2>1. y = [str |-> MoveDown(t.str, i, j), lcp |-> st.lcp, chars |-> st.chars,
             keys |-> MoveDown(t.keys, i, j)]
    BY <1>18
  <2>2. /\ t.str \in [D -> V] /\ t.keys \in [D -> K] /\ DOMAIN t.str = D /\ DOMAIN t.keys = D
        /\ KeyedStrings(t, D) \in Rearranged(KeyedStrings(st, D), P)
        /\ j \in Int /\ lo <= j /\ j <= hi
        /\ i \in Int /\ lo <= i /\ i <= j /\ i \in P
    BY <1>17
  <2> HIDE DEF y, i, T
  <2>3. i .. j \subseteq D
    BY <1>2, <2>2
  <2>4. KeyedStrings(y, D) = MoveDown(KeyedStrings(t, D), i, j)
    <3>1. y.str = MoveDown(t.str, i, j) /\ y.keys = MoveDown(t.keys, i, j)
      BY <2>1
    <3>2. /\ DOMAIN t.str = D /\ DOMAIN t.keys = D /\ D \in SUBSET Int
          /\ i \in Int /\ j \in Int /\ i <= j
      BY <2>2
    <3>3. BothMoved(t, y, D, i, j)
      BY ONLY <2>3, <3>1, <3>2 DEF BothMoved
    <3> QED BY ONLY <3>3, PairsMove
  <2>5. MoveDown(KeyedStrings(t, D), i, j) \in Rearranged(KeyedStrings(st, D), P)
    <3> DEFINE f == KeyedStrings(st, D)
               g == KeyedStrings(t, D)
    <3>1. DOMAIN f = D
      BY ONLY DEF KeyedStrings, f
    <3> HIDE DEF f, g
    <3>2. g \in Rearranged(f, lo .. hi) /\ i \in lo .. hi /\ j \in lo .. hi /\ i <= j
      BY <1>2, <2>2 DEF f, g
    <3>3. lo .. hi \subseteq DOMAIN f /\ DOMAIN f \in SUBSET Int
      BY <1>2, <3>1
    <3>4. MoveDown(g, i, j) \in Rearranged(f, lo .. hi)
      <4> HIDE DEF lo, hi
      <4> QED BY <1>2, <3>2, <3>3, RearrangedMoves
    <3> QED BY <1>2, <3>4 DEF f, g
  <2>6. ASSUME NEW a, NEW W, a \in [D -> W] PROVE MoveDown(a, i, j) \in [D -> W]
    <3>1. MoveDown(a, i, j) = [k \in D |-> IF k = i THEN a[j] ELSE IF k \in i + 1 .. j THEN a[k - 1] ELSE a[k]]
      BY <2>6 DEF MoveDown
    <3>2. j \in D /\ \A k \in i + 1 .. j : k - 1 \in D
      BY <2>2, <2>3
    <3> QED BY <2>6, <3>1, <3>2
  <2>7. MoveDown(t.str, i, j) \in [D -> V] /\ MoveDown(t.keys, i, j) \in [D -> K]
    BY <2>2, <2>6
  <2>8. y \in T
    BY <2>1, <2>4, <2>5, <2>7 DEF T, BlockStates
  <2> QED BY <2>8 DEF y
<1>5. \A k \in 1 .. n : seq[k] \in P
  BY <1>2
<1>6. /\ \A k \in 1 .. n, t \in T : step[k][t] = insert(t, seq[k])
      /\ \A k \in 1 .. n, t \in T : step[k][t] \in T
  <2> HIDE DEF insert, T, seq, P
  <2>1. \A k \in 1 .. n, t \in T : step[k][t] = insert(t, seq[k])
    OBVIOUS
  <2>2. \A k \in 1 .. n, t \in T : insert(t, seq[k]) \in T
    BY <1>4, <1>5
  <2> QED BY <2>1, <2>2
<1> HIDE DEF step
<1>7. PICK h \in [SUBSET (1 .. n) -> T] : FoldingLeft(h, n, st, step)
  <2>1. n \in Nat
    BY <1>2
  <2>2. \A k \in 1 .. n, t \in T : step[k][t] \in T
    BY <1>6
  <2> HIDE DEF T, lo, n, insert, seq
  <2> QED BY ONLY <2>1, <1>3, <2>2, FoldLeftExists
<1>8. \A U \in SUBSET (1 .. n) : U # {} => Max(U) \in 1 .. n
  <2> SUFFICES ASSUME NEW U \in SUBSET (1 .. n), U # {} PROVE Max(U) \in 1 .. n
    OBVIOUS
  <2>1. IsFiniteSet(1 .. n)
    <3>1. n \in Int
      BY <1>2
    <3> QED BY ONLY <3>1, FS_Interval
  <2>2. IsFiniteSet(U)
    BY <2>1, FS_Subset
  <2>3. U \in SUBSET Int
    OBVIOUS
  <2> QED BY <2>2, <2>3, MaxIs
<1> HIDE DEF insert, seq, T
<1>9. h = [U \in SUBSET (1 .. n) |-> IF U = {} THEN st ELSE insert(h[U \ {Max(U)}], seq[Max(U)])]
  <2>1. ASSUME NEW U \in SUBSET (1 .. n), U # {}
        PROVE  h[U] = insert(h[U \ {Max(U)}], seq[Max(U)])
    <3>1. h[U \ {Max(U)}] \in T
      BY <1>7
    <3> QED BY <1>6, <1>7, <1>8, <2>1, <3>1 DEF FoldingLeft
  <2> QED BY <1>7, <2>1 DEF FoldingLeft
<1>10. iter = [U \in SUBSET (1 .. n) |-> IF U = {} THEN st ELSE insert(iter[U \ {Max(U)}], seq[Max(U)])]
  BY <1>9
<1> HIDE DEF iter
<1>11. PICK r \in [0 .. n -> T] : OneByOne(r, n, st, step, iter[1 .. n])
  <2>1. iter[{}] = st
    BY <1>10
  <2>2. ASSUME NEW U \in SUBSET (1 .. n), U # {}, iter[U \ {Max(U)}] \in T
        PROVE  iter[U] = step[Max(U)][iter[U \ {Max(U)}]]
    BY <1>6, <1>8, <1>10, <2>2
  <2>3. n \in Nat
    BY <1>2
  <2>4. \A k \in 1 .. n, t \in T : step[k][t] \in T
    BY <1>6
  <2>5. \A U \in SUBSET (1 .. n) : U # {} /\ iter[U \ {Max(U)}] \in T =>
          iter[U] = step[Max(U)][iter[U \ {Max(U)}]]
    BY <2>2
  <2> HIDE DEF n
  <2> QED BY ONLY <1>3, <2>1, <2>3, <2>4, <2>5, FoldLeftRuns
<1>12. iter[1 .. n] \in T /\ r[n] = iter[1 .. n] /\ r[0] = st
  BY <1>2, <1>11 DEF OneByOne
<1>13. ASSUME NEW k \in Nat, k + 1 <= n
      PROVE  r[k] \in T /\ k + 1 \in 1 .. n /\ r[k + 1] = insert(r[k], seq[k + 1])
  <2>0. n \in Nat
    BY <1>2
  <2> HIDE DEF n
  <2>1. k \in 0 .. n /\ k + 1 \in 1 .. n /\ (k + 1) - 1 = k
    BY ONLY <2>0, k \in Nat, k + 1 <= n
  <2>2. r[k + 1] = step[k + 1][r[k]] /\ r[k] \in T
    BY <1>11, <2>1 DEF OneByOne
  <2> QED BY <1>6, <2>1, <2>2
<1>14. \A k \in Nat : k <= n => KeysInOrder(r[k].keys, lo .. lo + k - 1)
  <2> DEFINE Q == {k \in Nat : k <= n => KeysInOrder(r[k].keys, lo .. lo + k - 1)}
  <2>1. 0 \in Q
    BY <1>2 DEF KeysInOrder
  <2>2. ASSUME NEW k \in Q PROVE k + 1 \in Q
    <3> SUFFICES ASSUME k + 1 <= n PROVE KeysInOrder(r[k + 1].keys, lo .. lo + (k + 1) - 1)
      OBVIOUS
    <3> DEFINE t == r[k]
               j == lo + k
               i == place(t, j)
    <3>1. k \in Nat /\ k <= n /\ lo + (k + 1) - 1 = j /\ lo + k - 1 = j - 1
      BY <1>2
    <3>2. KeysInOrder(t.keys, lo .. j - 1)
      BY <2>2, <3>1
    <3>3. t \in T /\ r[k + 1] = insert(t, j) /\ j \in P
      <4>1. t \in T /\ k + 1 \in 1 .. n /\ r[k + 1] = insert(t, seq[k + 1])
        BY <1>13, <3>1
      <4>2. seq[k + 1] = j
        BY <1>2, <3>1, <4>1 DEF seq
      <4>3. j \in P
        BY <1>2, <3>1
      <4> QED BY <4>1, <4>2, <4>3
    <3> HIDE DEF t, j
    <3>4. r[k + 1].keys = MoveDown(t.keys, i, j)
      <4>1. insert(t, j) = [str |-> MoveDown(t.str, i, j), lcp |-> st.lcp, chars |-> st.chars,
                            keys |-> MoveDown(t.keys, i, j)]
        BY <1>18, <3>3
      <4> QED BY <3>3, <4>1
    <3>5. /\ DOMAIN t.keys = D /\ KeyedStrings(t, D) \in Rearranged(KeyedStrings(st, D), P)
          /\ j \in Int /\ lo <= j /\ j <= hi /\ i \in Int /\ lo <= i /\ i <= j
          /\ i > lo => i \in B(t, j)
          /\ \A m \in i + 1 .. j : m \notin B(t, j)
      <4> HIDE DEF B, lo, hi, P
      <4> QED BY <1>2, <1>17, <3>3
    <3> HIDE DEF i
    <3>6. \A m \in P : t.keys[m] \in Int
      <4> SUFFICES ASSUME NEW m \in P PROVE t.keys[m] \in Int
        OBVIOUS
      <4>1. Permuted(KeyedStrings(st, D), KeyedStrings(t, D), P)
        BY <3>5 DEF Rearranged
      <4>2. PICK l \in P : KeyedStrings(t, D)[m] = KeyedStrings(st, D)[l]
        <5> HIDE DEF P
        <5> QED BY <4>1, PermutedFrom
      <4>3. t.keys[m] = st.keys[l]
        BY <4>2 DEF KeyedStrings
      <4> QED BY <4>3
    <3>7. \A m \in lo .. j : m \in P /\ m \in D
      BY <1>2, <3>5
    <3>8. ASSUME NEW m \in i .. j - 1 PROVE t.keys[j] <= t.keys[m]
      <4>1. m + 1 \in i + 1 .. j /\ m + 1 \in lo + 1 .. j /\ (m + 1) - 1 = m /\ m \in P /\ j \in P
        BY <1>2, <3>3, <3>5
      <4>2. ~(t.keys[m] <= t.keys[j])
        BY <3>5, <4>1
      <4>3. t.keys[m] \in Int /\ t.keys[j] \in Int
        BY <3>6, <4>1
      <4> QED BY <4>2, <4>3
    <3>9. i > lo => t.keys[i - 1] <= t.keys[j]
      BY <3>5
    <3>10. KeysInOrder(MoveDown(t.keys, i, j), lo .. j)
      <4> DEFINE f == t.keys
      <4>1. /\ DOMAIN f = D /\ lo .. j \subseteq D /\ \A m \in lo .. j : f[m] \in Int
            /\ KeysInOrder(f, lo .. j - 1) /\ (\A m \in i .. j - 1 : f[j] <= f[m])
            /\ i > lo => f[i - 1] <= f[j]
        BY <3>2, <3>5, <3>6, <3>7, <3>8, <3>9
      <4> HIDE DEF f, lo, hi
      <4>2. KeysInOrder(MoveDown(f, i, j), lo .. j)
        BY <1>2, <3>5, <4>1, InsertedKeys
      <4> QED BY <4>2 DEF f
    <3> QED BY <3>1, <3>4, <3>10
  <2> HIDE DEF Q
  <2>3. Q = Nat
    <3>1. Q \in SUBSET Nat
      BY DEF Q
    <3> QED BY <2>1, <2>2, <3>1, NatInd
  <2> QED BY <2>3 DEF Q
<1>15. KeysInOrder(iter[1 .. n].keys, P)
  <2>1. n <= n
    BY <1>2
  <2> QED BY <1>2, <1>12, <1>14, <2>1
<1> QED BY <1>1, <1>12, <1>15 DEF T


-----------------------------------------------------------------------------
(* insertion_sort_cache: groups of equal keys are sorted on.               *)
PairsMoved(x, y, D, P) ==
  /\ y.str \in Rearranged(x.str, P)
  /\ \A i \in D \ P : y.str[i] = x.str[i] /\ y.keys[i] = x.keys[i]
  /\ \A i \in P : \E j \in P : y.str[i] = x.str[j] /\ y.keys[i] = x.keys[j]

LEMMA PairsRearranged ==
  ASSUME NEW D, NEW P \in SUBSET D, NEW V, NEW x, NEW y, DOMAIN x.str = D, y.str \in [D -> V],
         KeyedStrings(y, D) \in Rearranged(KeyedStrings(x, D), P)
  PROVE  PairsMoved(x, y, D, P)
<1> DEFINE a == KeyedStrings(x, D)
           b == KeyedStrings(y, D)
<1>1. /\ DOMAIN a = D /\ DOMAIN b = D
      /\ \A i \in D : a[i] = <<x.str[i], x.keys[i]>> /\ b[i] = <<y.str[i], y.keys[i]>>
  BY DEF KeyedStrings
<1>2. /\ b \in [D -> {a[i] : i \in D}]
      /\ \A i \in D \ P : b[i] = a[i]
      /\ Permuted(a, b, P)
  BY <1>1 DEF Rearranged
<1> HIDE DEF a, b
<1>3. PICK p : Bijective(p, P) /\ \A i \in P : b[i] = a[p[i]]
  BY <1>2 DEF Permuted
<1>4. \A i \in P : p[i] \in P
  BY <1>3 DEF Bijective
<1>5. ASSUME NEW i \in P PROVE y.str[i] = x.str[p[i]] /\ y.keys[i] = x.keys[p[i]]
  BY <1>1, <1>3, <1>4
<1>6. ASSUME NEW i \in D \ P PROVE y.str[i] = x.str[i] /\ y.keys[i] = x.keys[i]
  BY <1>1, <1>2
<1>7. Permuted(x.str, y.str, P)
  <2>1. \A i \in P : y.str[i] = x.str[p[i]]
    BY <1>5
  <2> QED BY <1>3, <2>1 DEF Permuted
<1>8. y.str \in [D -> {x.str[i] : i \in D}]
  <2>1. \A i \in D : y.str[i] \in {x.str[k] : k \in D}
    BY <1>4, <1>5, <1>6
  <2> QED BY <2>1
<1>9. y.str \in Rearranged(x.str, P)
  BY <1>6, <1>7, <1>8 DEF Rearranged
<1> QED BY <1>4, <1>5, <1>6, <1>9 DEF PairsMoved

LEMMA SetTyped ==
  ASSUME NEW D, NEW L, NEW a \in [D -> L], NEW g, \A i \in DOMAIN g : g[i] \in L, NEW cls
  PROVE  SetLcp(cls, a, g) \in [D -> L] /\ SetCache(cls, a, g) \in [D -> L]
<1>1. Override(a, g) \in [D -> L]
  BY DEF Override
<1> QED BY <1>1 DEF SetLcp, SetCache

(* Positions of equal keys are next to each other. *)
LEMMA GroupIs ==
  ASSUME NEW lo \in Int, NEW hi \in Int, NEW keys, \A k \in lo .. hi : keys[k] \in Int,
         KeysInOrder(keys, lo .. hi), NEW i \in lo .. hi
  PROVE  LET G == {k \in lo .. hi : k >= i /\ keys[k] = keys[i]}
         IN  /\ i .. i + Cardinality(G) - 1 = G
             /\ Cardinality(G) \in Nat
<1> DEFINE G == {k \in lo .. hi : k >= i /\ keys[k] = keys[i]}
           m == Max(G)
<1>1. i \in G /\ G \in SUBSET Int
  OBVIOUS
<1>2. IsFiniteSet(G)
  <2>1. IsFiniteSet(lo .. hi)
    BY ONLY lo \in Int, hi \in Int, FS_Interval
  <2>2. G \in SUBSET (lo .. hi)
    OBVIOUS
  <2> HIDE DEF G
  <2> QED BY <2>1, <2>2, FS_Subset
<1>3. m \in G /\ \A x \in G : x <= m
  <2> HIDE DEF G
  <2> QED BY <1>1, <1>2, MaxIs
<1> HIDE DEF m
<1>4. G = i .. m
  <2>1. ASSUME NEW k \in G PROVE k \in i .. m
    BY <1>3, <2>1
  <2>2. ASSUME NEW k \in i .. m PROVE k \in G
    <3>1. k \in lo .. hi /\ m \in lo .. hi /\ keys[m] = keys[i] /\ k >= i /\ k <= m
      BY <1>3
    <3>2. keys[i] <= keys[k] /\ keys[k] <= keys[m]
      BY <3>1 DEF KeysInOrder
    <3>3. keys[i] \in Int /\ keys[k] \in Int
      BY <3>1
    <3> QED BY <3>1, <3>2, <3>3
  <2> QED BY <2>1, <2>2
<1>5. Cardinality(G) = m - i + 1
  <2>1. i \in Int /\ m \in Int /\ i <= m
    BY <1>1, <1>3
  <2>2. Cardinality(i .. m) = m - i + 1
    BY ONLY <2>1, FS_Interval
  <2> QED BY <1>4, <2>2
<1>6. m \in Int /\ i <= m
  BY <1>1, <1>3
<1> HIDE DEF G
<1>7. i .. i + Cardinality(G) - 1 = G /\ Cardinality(G) \in Nat
  BY <1>4, <1>5, <1>6
<1> QED BY <1>7 DEF G

KeysAre(st, P, depth) == \A k \in P : st.keys[k] = KeyAt(st.str[k], depth)

SortsCached(r, st, P, D, V, L, C, K) ==
  /\ SectionSorted(r, st, P, D, V, L, C, [D -> K])
  /\ \A k \in D \ P : r.keys[k] = st.keys[k]

LEMMA InsertionSortCacheSorts ==
  ASSUME NEW D \in SUBSET Int, NEW sec, sec.lo \in Int, sec.n \in Nat, Positions(sec) \subseteq D,
         NEW V, NEW L, Int \subseteq L, NEW C, Int \subseteq C, NEW K, NEW set, NEW cls,
         NEW st \in States(D, V, L, C, [D -> K]), NEW depth, Sharing(st.str, Positions(sec), depth),
         KeysAre(st, Positions(sec), depth)
  PROVE  SortsCached(InsertionSortCache(set, cls, st, sec, depth), st, Positions(sec), D, V, L, C, K)
<1> SUFFICES /\ SectionSorted(InsertionSortCache(set, cls, st, sec, depth), st, Positions(sec),
                      D, V, L, C, [D -> K])
             /\ \A k \in D \ Positions(sec) :
                  InsertionSortCache(set, cls, st, sec, depth).keys[k] = st.keys[k]
  BY DEF SortsCached
<1> \A k \in Positions(sec) : st.keys[k] = KeyAt(st.str[k], depth)
  BY DEF KeysAre
<1> DEFINE lo == sec.lo
           n == sec.n
           hi == lo + n - 1
           P == Positions(sec)
           block == InsertionSortCacheBlock(st, sec)
           keys == block.keys
           starts == {i \in P : i = lo \/ keys[i - 1] # keys[i]}
           G(i) == {k \in P : k >= i /\ keys[k] = keys[i]}
           group(i) == Section(i, Cardinality(G(i)), sec.flip)
           between == starts \ {lo}
           rlcp(i) == KeyLcp(keys[i - 1], keys[i])
           lcps == SetLcp(cls, block.lcp, [i \in between |-> depth + rlcp(i)])
           newChars == SetCache(cls, block.chars, [i \in between |-> CharAt(keys[i], rlcp(i))])
           marked == MarkGroups(cls, block, sec, depth)
           sort(x, i) == SortGroup(set, cls, x, sec, i, depth)
           T == {x \in States(D, V, L, C, {keys}) :
                   /\ x.str \in Rearranged(block.str, P)
                   /\ \A i \in P : KeyAt(x.str[i], depth) = keys[i]}
           seq == [k \in 1 .. n |-> lo + k - 1]
           step == [k \in 1 .. n |-> [t \in T |-> sort(t, seq[k])]]
           iter == CHOOSE g : g = [U \in SUBSET (1 .. n) |->
                     IF U = {} THEN marked ELSE sort(g[U \ {Max(U)}], seq[Max(U)])]
<1>1. InsertionSortCache(set, cls, st, sec, depth) = IF n <= 1 THEN st ELSE iter[1 .. n]
  <2> HIDE DEF block, marked, sort
  <2> QED BY DEF InsertionSortCache, ForEach, FoldLeft, MapThenFoldSet, block, marked, sort
<1>2. lo \in Int /\ n \in Nat /\ P = lo .. hi /\ hi \in Int /\ P \subseteq D /\ depth \in Nat
  BY DEF Positions, Sharing
<1>3. /\ st = [str |-> st.str, lcp |-> st.lcp, chars |-> st.chars, keys |-> st.keys]
      /\ st.str \in [D -> V] /\ st.lcp \in [D -> L] /\ st.chars \in [D -> C] /\ st.keys \in [D -> K]
      /\ DOMAIN st.str = D /\ st.str = [i \in D |-> st.str[i]]
  BY DEF States
<1>4. \A k \in P : st.str[k] \in CStrings
  BY DEF Sharing
<1>5. \A k \in P : st.keys[k] \in Keys /\ st.keys[k] \in Nat
  <2> SUFFICES ASSUME NEW k \in P PROVE st.keys[k] \in Keys /\ st.keys[k] \in Nat
    OBVIOUS
  <2>1. KeyAt(st.str[k], depth) \in Keys
    BY <1>2, <1>4, KeyIsKey
  <2> QED BY <2>1, KeysAreNumbers
<1>6. block \in BlockStates(st, P, D, V, K) /\ KeysInOrder(keys, P)
  <2>1. \A k \in P : st.keys[k] \in Int
    BY <1>5
  <2> QED BY <2>1, BlockSorts
<1> HIDE DEF block
<1>7. /\ block = [str |-> block.str, lcp |-> st.lcp, chars |-> st.chars, keys |-> keys]
      /\ block.str \in [D -> V] /\ keys \in [D -> K] /\ DOMAIN block.str = D
      /\ block.str = [i \in D |-> block.str[i]]
      /\ KeyedStrings(block, D) \in Rearranged(KeyedStrings(st, D), P)
  BY <1>6 DEF BlockStates
<1>8. /\ block.str \in Rearranged(st.str, P)
      /\ \A i \in D \ P : block.str[i] = st.str[i] /\ keys[i] = st.keys[i]
      /\ \A i \in P : \E j \in P : block.str[i] = st.str[j] /\ keys[i] = st.keys[j]
  <2> DEFINE E == P
  <2>1. E \in SUBSET D /\ KeyedStrings(block, D) \in Rearranged(KeyedStrings(st, D), E)
    BY <1>2, <1>7
  <2>2. DOMAIN st.str = D /\ block.str \in [D -> V]
    BY <1>3, <1>7
  <2> HIDE DEF E
  <2>3. PairsMoved(st, block, D, E)
    BY ONLY <2>1, <2>2, PairsRearranged
  <2> QED BY <2>3 DEF E, PairsMoved
<1>9. /\ \A i \in P : keys[i] = KeyAt(block.str[i], depth) /\ keys[i] \in Keys /\ keys[i] \in Nat
      /\ Sharing(block.str, P, depth)
  <2>1. \A i \in P : keys[i] = KeyAt(block.str[i], depth) /\ keys[i] \in Keys /\ keys[i] \in Nat
    BY <1>5, <1>8
  <2>2. Permuted(st.str, block.str, P)
    BY <1>8 DEF Rearranged
  <2> HIDE DEF P
  <2>3. Sharing(st.str, P, depth)
    BY DEF P
  <2> QED BY <2>1, <2>2, <2>3, SharingPermuted
<1>10. \A i \in between : depth + rlcp(i) \in L /\ CharAt(keys[i], rlcp(i)) \in C
  <2> SUFFICES ASSUME NEW i \in between PROVE depth + rlcp(i) \in L /\ CharAt(keys[i], rlcp(i)) \in C
    OBVIOUS
  <2>1. i \in P /\ i - 1 \in P /\ keys[i - 1] # keys[i]
    BY <1>2
  <2>2. rlcp(i) \in Place
    BY <1>9, <2>1, KeysDiffer
  <2>3. CharAt(keys[i], rlcp(i)) \in 0 .. NumChars - 1
    BY <1>9, <2>1, <2>2, PrefixStep
  <2>4. rlcp(i) \in Nat
    BY <2>2, KeyAssumption DEF Place
  <2> HIDE DEF rlcp, keys
  <2>5. depth + rlcp(i) \in Int /\ CharAt(keys[i], rlcp(i)) \in Int
    BY <1>2, <2>3, <2>4, KeyAssumption
  <2> QED BY <2>5
<1>11. marked = [str |-> block.str, lcp |-> lcps, chars |-> newChars, keys |-> keys]
  <2> DEFINE y == marked
  <2>1. y = [block EXCEPT !.lcp = lcps, !.chars = newChars]
    BY DEF MarkGroups, GroupStarts
  <2>2. block = [str |-> block.str, lcp |-> st.lcp, chars |-> st.chars, keys |-> keys]
    BY <1>7
  <2> HIDE DEF y, lcps, newChars, keys
  <2>3. /\ DOMAIN y = {"str", "lcp", "chars", "keys"}
        /\ y.str = block.str /\ y.lcp = lcps /\ y.chars = newChars /\ y.keys = keys
    BY ONLY <2>1, <2>2
  <2>4. y = [a \in DOMAIN y |-> y[a]]
    BY ONLY <2>1
  <2>5. y = [str |-> block.str, lcp |-> lcps, chars |-> newChars, keys |-> keys]
    BY ONLY <2>3, <2>4
  <2> QED BY <2>5 DEF y
<1> HIDE DEF marked
<1>12. marked \in T
  <2>1. lcps \in [D -> L]
    <3> DEFINE g == [i \in between |-> depth + rlcp(i)]
    <3>1. \A i \in DOMAIN g : g[i] \in L
      BY <1>10
    <3>2. block.lcp \in [D -> L]
      BY <1>3, <1>7
    <3> HIDE DEF g
    <3>3. SetLcp(cls, block.lcp, g) \in [D -> L]
      BY <3>1, <3>2, SetTyped
    <3> QED BY <3>3 DEF g
  <2>2. newChars \in [D -> C]
    <3> DEFINE g == [i \in between |-> CharAt(keys[i], rlcp(i))]
    <3>1. \A i \in DOMAIN g : g[i] \in C
      BY <1>10
    <3>2. block.chars \in [D -> C]
      BY <1>3, <1>7
    <3> HIDE DEF g
    <3>3. SetCache(cls, block.chars, g) \in [D -> C]
      BY <3>1, <3>2, SetTyped
    <3> QED BY <3>3 DEF g
  <2>3. block.str \in Rearranged(block.str, P)
    <3> HIDE DEF P
    <3> QED BY <1>7, RearrangedSame
  <2>4. marked.str = block.str
    BY <1>11
  <2> HIDE DEF lcps, newChars, P
  <2>5. marked \in States(D, V, L, C, {keys})
    BY <1>7, <1>11, <2>1, <2>2 DEF States
  <2> QED BY <1>9, <2>3, <2>4, <2>5
<1>13. ASSUME NEW i \in P
       PROVE  /\ Positions(group(i)) = G(i) /\ group(i).lo = i /\ group(i).n \in Nat
              /\ group(i).n = 1 => G(i) = {i}
  <2> DEFINE H == {k \in lo .. hi : k >= i /\ keys[k] = keys[i]}
  <2>1. H = G(i)
    BY <1>2
  <2>2. /\ i .. i + Cardinality(H) - 1 = H
        /\ Cardinality(H) \in Nat
    <3>1. \A k \in lo .. hi : keys[k] \in Int
      BY <1>2, <1>9
    <3>2. KeysInOrder(keys, lo .. hi)
      BY <1>2, <1>6
    <3>3. i \in lo .. hi
      BY <1>2
    <3>4. lo \in Int /\ hi \in Int
      BY <1>2
    <3> HIDE DEF keys, lo, hi, P
    <3> QED BY ONLY <3>1, <3>2, <3>3, <3>4, GroupIs
  <2>3. /\ group(i).lo = i /\ group(i).n = Cardinality(H)
        /\ Positions(group(i)) = i .. i + Cardinality(H) - 1
    BY <2>1 DEF Section, Positions
  <2>4. Cardinality(H) = 1 => i .. i + Cardinality(H) - 1 = {i}
    <3>1. i \in Int
      BY <1>2
    <3>2. i .. i + 1 - 1 = {i}
      BY ONLY <3>1
    <3> HIDE DEF H
    <3> QED BY <3>2
  <2> HIDE DEF H, G
  <2> QED BY <2>1, <2>2, <2>3, <2>4
<1>14. \A i \in P : G(i) \subseteq P /\ G(i) \subseteq D
  BY <1>2
<1>15. ASSUME NEW x \in T
       PROVE  /\ x = [str |-> x.str, lcp |-> x.lcp, chars |-> x.chars, keys |-> keys]
              /\ x.keys = keys /\ DOMAIN x.str = D /\ x.str = [i \in D |-> x.str[i]]
              /\ x.str \in [D -> V] /\ x.lcp \in [D -> L] /\ x.chars \in [D -> C]
              /\ x.str \in Rearranged(block.str, P)
              /\ \A i \in P : KeyAt(x.str[i], depth) = keys[i]
              /\ Sharing(x.str, P, depth)
  <2>1. /\ x.str \in Rearranged(block.str, P) /\ x \in States(D, V, L, C, {keys})
        /\ \A i \in P : KeyAt(x.str[i], depth) = keys[i]
    OBVIOUS
  <2>2. Permuted(block.str, x.str, P)
    BY <2>1 DEF Rearranged
  <2> HIDE DEF P, T, keys
  <2>3. Sharing(x.str, P, depth)
    BY <1>9, <2>2, SharingPermuted
  <2>4. /\ x = [str |-> x.str, lcp |-> x.lcp, chars |-> x.chars, keys |-> keys]
        /\ x.keys = keys /\ DOMAIN x.str = D /\ x.str = [i \in D |-> x.str[i]]
        /\ x.str \in [D -> V] /\ x.lcp \in [D -> L] /\ x.chars \in [D -> C]
    BY <2>1 DEF States
  <2> QED BY <2>1, <2>3, <2>4
<1>16. ASSUME NEW x \in T, NEW i \in P
       PROVE  /\ Terminated(keys[i]) => OrderedOn(x.str, G(i))
              /\ ~Terminated(keys[i]) => Sharing(x.str, G(i), depth + KeyWidth)
  <2>6. ASSUME NEW a \in G(i), NEW b \in G(i)
        PROVE  /\ Terminated(keys[i]) => AtMost(x.str[a], x.str[b])
               /\ ~Terminated(keys[i]) => Share(x.str[a], x.str[b], depth + KeyWidth)
               /\ x.str[a] \in CStrings
               /\ depth + KeyWidth \in Nat
    <3>1. a \in P /\ b \in P /\ keys[a] = keys[i] /\ keys[b] = keys[i]
      OBVIOUS
    <3>2. /\ x.str[a] \in CStrings /\ x.str[b] \in CStrings /\ Share(x.str[a], x.str[b], depth)
          /\ KeyAt(x.str[a], depth) = keys[i] /\ KeyAt(x.str[b], depth) = keys[i]
      <4> HIDE DEF T, P, keys
      <4> QED BY <1>15, <3>1 DEF Sharing
    <3>3. /\ ~Terminated(keys[i]) => Share(x.str[a], x.str[b], depth + KeyWidth)
          /\ Terminated(keys[i]) => x.str[a] = x.str[b]
      <4>1. KeyAt(x.str[a], depth) = KeyAt(x.str[b], depth)
        BY <3>2
      <4> HIDE DEF keys
      <4> QED BY <1>2, <3>2, <4>1, KeysSame
    <3>4. AtMost(x.str[a], x.str[a])
      BY <3>2, AtMostOrders
    <3>5. depth + KeyWidth \in Nat
      BY <1>2, KeyAssumption
    <3> QED BY <3>2, <3>3, <3>4, <3>5
  <2>7. depth + KeyWidth \in Nat
    BY <1>2, KeyAssumption
  <2> DEFINE H == G(i)
  <2>8. /\ \A a, b \in H : Terminated(keys[i]) => AtMost(x.str[a], x.str[b])
        /\ \A a, b \in H : ~Terminated(keys[i]) => Share(x.str[a], x.str[b], depth + KeyWidth)
        /\ \A a \in H : x.str[a] \in CStrings
    BY <2>6
  <2> HIDE DEF H, keys
  <2>9. Terminated(keys[i]) => OrderedOn(x.str, H)
    BY <2>8 DEF OrderedOn
  <2>10. ~Terminated(keys[i]) => Sharing(x.str, H, depth + KeyWidth)
    BY <2>7, <2>8 DEF Sharing
  <2> QED BY <2>9, <2>10 DEF H
<1>18. ASSUME NEW x \in T, NEW i \in P
       PROVE  /\ i \notin starts \/ group(i).n = 1 => sort(x, i) = x
              /\ ~(i \notin starts \/ group(i).n = 1) /\ Terminated(keys[i]) =>
                   sort(x, i) = [x EXCEPT !.lcp = FillLcp(cls, x.lcp, group(i), depth + KeyDepth(keys[i])),
                                          !.chars = FillCache(cls, x.chars, group(i))]
              /\ ~(i \notin starts \/ group(i).n = 1) /\ ~Terminated(keys[i]) =>
                   sort(x, i) = InsertionSort(set, cls, x, group(i), depth + KeyWidth)
  <2>1. x.keys = keys
    BY <1>15
  <2>2. group(i) = Group(x.keys, sec, i) /\ starts = GroupStarts(x.keys, sec)
    BY <2>1 DEF Group, GroupStarts
  <2> HIDE DEF starts, group, keys
  <2> QED BY <2>1, <2>2 DEF SortGroup
<1> HIDE DEF T, keys, starts, sort
<1>17. ASSUME NEW x \in T, NEW i \in P
       PROVE  /\ sort(x, i) \in States(D, V, L, C, {keys})
              /\ sort(x, i).str \in Rearranged(x.str, G(i))
              /\ i \in starts => OrderedOn(sort(x, i).str, G(i))
  <2> DEFINE g == group(i)
  <2>1. /\ x = [str |-> x.str, lcp |-> x.lcp, chars |-> x.chars, keys |-> keys]
        /\ x.keys = keys /\ DOMAIN x.str = D /\ x.str = [k \in D |-> x.str[k]]
        /\ x.str \in [D -> V] /\ x.lcp \in [D -> L] /\ x.chars \in [D -> C]
    BY <1>15
  <2>2. x \in States(D, V, L, C, {keys})
    BY DEF T
  <2>3. x.str \in Rearranged(x.str, G(i))
    <3> HIDE DEF G
    <3> QED BY <2>1, RearrangedSame
  <2>4. CASE i \notin starts \/ g.n = 1
    <3>1. sort(x, i) = x
      BY <1>18, <2>4
    <3>2. i \in starts => OrderedOn(x.str, G(i))
      <4> SUFFICES ASSUME i \in starts PROVE OrderedOn(x.str, G(i))
        OBVIOUS
      <4>1. G(i) = {i}
        BY <1>13, <2>4
      <4>2. i \in Int
        BY <1>2
      <4> HIDE DEF G
      <4> QED BY <4>1, <4>2 DEF OrderedOn
    <3> HIDE DEF sort, G
    <3> QED BY <2>2, <2>3, <3>1, <3>2
  <2>5. CASE ~(i \notin starts \/ g.n = 1) /\ Terminated(keys[i])
    <3> DEFINE y == sort(x, i)
               a == FillLcp(cls, x.lcp, g, depth + KeyDepth(keys[i]))
               b == FillCache(cls, x.chars, g)
    <3>1. y = [x EXCEPT !.lcp = a, !.chars = b]
      BY <1>18, <2>5
    <3>2. a \in [D -> L]
      <4>1. KeyDepth(keys[i]) \in Nat
        BY <2>5, KeyDepthTerminates, KeyAssumption DEF Place
      <4>2. depth + KeyDepth(keys[i]) \in L
        BY <1>2, <4>1
      <4> DEFINE v == depth + KeyDepth(keys[i])
                 h == [k \in Positions(g) \ {g.lo} |-> v]
      <4>3. \A k \in DOMAIN h : h[k] \in L
        BY <4>2
      <4> HIDE DEF h
      <4>4. SetLcp(cls, x.lcp, h) \in [D -> L]
        BY <2>1, <4>3, SetTyped
      <4> QED BY <4>4 DEF h, FillLcp
    <3>3. b \in [D -> C]
      <4> DEFINE h == [k \in Positions(g) \ {g.lo} |-> 0]
      <4>1. \A k \in DOMAIN h : h[k] \in C
        OBVIOUS
      <4> HIDE DEF h
      <4>2. SetCache(cls, x.chars, h) \in [D -> C]
        BY <2>1, <4>1, SetTyped
      <4> QED BY <4>2 DEF h, FillCache
    <3> HIDE DEF y, a, b
    <3>4. y = [str |-> x.str, lcp |-> a, chars |-> b, keys |-> keys]
      <4>1. /\ DOMAIN y = {"str", "lcp", "chars", "keys"}
            /\ y.str = x.str /\ y.lcp = a /\ y.chars = b /\ y.keys = keys
        BY ONLY <2>1, <3>1
      <4>2. y = [c \in DOMAIN y |-> y[c]]
        BY ONLY <3>1
      <4> QED BY ONLY <4>1, <4>2
    <3>5. y \in States(D, V, L, C, {keys}) /\ y.str = x.str
      BY <2>1, <3>2, <3>3, <3>4 DEF States
    <3>6. OrderedOn(x.str, G(i))
      BY <1>16, <2>5
    <3>7. y.str \in Rearranged(x.str, G(i)) /\ OrderedOn(y.str, G(i))
      BY <2>3, <3>5, <3>6
    <3> QED BY <3>5, <3>7 DEF y
  <2>6. CASE ~(i \notin starts \/ g.n = 1) /\ ~Terminated(keys[i])
    <3> DEFINE y == sort(x, i)
    <3>1. y = InsertionSort(set, cls, x, g, depth + KeyWidth)
      BY <1>18, <2>6
    <3>2. Sharing(x.str, G(i), depth + KeyWidth)
      BY <1>16, <2>6
    <3>3. Positions(g) = G(i) /\ g.lo \in Int /\ g.n \in Nat /\ Positions(g) \subseteq D
      BY <1>2, <1>13, <1>14
    <3> HIDE DEF y, g, G, P
    <3>4. SectionSorted(y, x, G(i), D, V, L, C, {keys})
      BY <2>2, <3>1, <3>2, <3>3, InsertionSortSorts
    <3>5. /\ y \in States(D, V, L, C, {keys})
          /\ y.str \in Rearranged(x.str, G(i)) /\ OrderedOn(y.str, G(i))
      BY <3>4 DEF SectionSorted
    <3> QED BY <3>5 DEF y
  <2> HIDE DEF sort, G, g
  <2> QED BY <2>4, <2>5, <2>6
<1> HIDE DEF sort
<1>19. \A x \in T, i \in P : sort(x, i) \in T
  <2> SUFFICES ASSUME NEW x \in T, NEW i \in P PROVE sort(x, i) \in T
    OBVIOUS
  <2> DEFINE y == sort(x, i)
  <2>1. y \in States(D, V, L, C, {keys}) /\ y.str \in Rearranged(x.str, G(i))
    BY <1>17
  <2>2. /\ x.str \in Rearranged(block.str, P) /\ DOMAIN x.str = D
        /\ \A k \in P : KeyAt(x.str[k], depth) = keys[k]
    BY <1>15
  <2>3. y.str \in Rearranged(block.str, P)
    <3> DEFINE f == block.str
               E == G(i)
    <3>1. P \subseteq DOMAIN f /\ E \in SUBSET P /\ x.str \in Rearranged(f, P)
          /\ y.str \in Rearranged(x.str, E)
      BY <1>2, <1>7, <1>14, <2>1, <2>2
    <3> HIDE DEF f, E, P, y
    <3>2. y.str \in Rearranged(f, P)
      BY <3>1, RearrangedTwice
    <3> QED BY <3>2 DEF f
  <2>4. ASSUME NEW k \in P PROVE KeyAt(y.str[k], depth) = keys[k]
    <3>1. /\ \A l \in D \ G(i) : y.str[l] = x.str[l]
          /\ Permuted(x.str, y.str, G(i))
      <4> HIDE DEF G, y
      <4> QED BY <2>1, <2>2 DEF Rearranged
    <3>2. CASE k \in G(i)
      <4>1. PICK l \in G(i) : y.str[k] = x.str[l]
        <5> HIDE DEF G, y
        <5> QED BY <3>1, <3>2, PermutedFrom
      <4>2. l \in P /\ keys[l] = keys[i] /\ keys[k] = keys[i]
        BY <3>2
      <4> QED BY <2>2, <4>1, <4>2
    <3>3. CASE k \notin G(i)
      <4>1. k \in D
        BY <1>2
      <4>2. y.str[k] = x.str[k]
        <5> HIDE DEF G, y
        <5> QED BY <3>1, <3>3, <4>1
      <4> QED BY <2>2, <4>2
    <3> QED BY <3>2, <3>3
  <2> HIDE DEF y
  <2>5. y \in T
    BY <2>1, <2>3, <2>4 DEF T
  <2> QED BY <2>5 DEF y
<1>20. \A k \in 1 .. n : seq[k] \in P
  BY <1>2
<1>21. /\ \A k \in 1 .. n, t \in T : step[k][t] = sort(t, seq[k])
      /\ \A k \in 1 .. n, t \in T : step[k][t] \in T
  <2> HIDE DEF sort, T, seq, P
  <2>1. \A k \in 1 .. n, t \in T : step[k][t] = sort(t, seq[k])
    OBVIOUS
  <2>2. \A k \in 1 .. n, t \in T : sort(t, seq[k]) \in T
    BY <1>19, <1>20
  <2> QED BY <2>1, <2>2
<1> HIDE DEF step
<1>22. PICK h \in [SUBSET (1 .. n) -> T] : FoldingLeft(h, n, marked, step)
  <2>1. n \in Nat
    BY <1>2
  <2>2. \A k \in 1 .. n, t \in T : step[k][t] \in T
    BY <1>21
  <2> HIDE DEF T, lo, n, sort, seq
  <2> QED BY ONLY <2>1, <1>12, <2>2, FoldLeftExists
<1>23. \A U \in SUBSET (1 .. n) : U # {} => Max(U) \in 1 .. n
  <2> SUFFICES ASSUME NEW U \in SUBSET (1 .. n), U # {} PROVE Max(U) \in 1 .. n
    OBVIOUS
  <2>1. IsFiniteSet(1 .. n)
    <3>1. n \in Int
      BY <1>2
    <3> QED BY ONLY <3>1, FS_Interval
  <2>2. IsFiniteSet(U)
    BY <2>1, FS_Subset
  <2>3. U \in SUBSET Int
    OBVIOUS
  <2> QED BY <2>2, <2>3, MaxIs
<1> HIDE DEF sort, seq, T
<1>24. h = [U \in SUBSET (1 .. n) |-> IF U = {} THEN marked ELSE sort(h[U \ {Max(U)}], seq[Max(U)])]
  <2>1. ASSUME NEW U \in SUBSET (1 .. n), U # {}
        PROVE  h[U] = sort(h[U \ {Max(U)}], seq[Max(U)])
    <3>1. h[U \ {Max(U)}] \in T
      BY <1>22
    <3> QED BY <1>21, <1>22, <1>23, <2>1, <3>1 DEF FoldingLeft
  <2> QED BY <1>22, <2>1 DEF FoldingLeft
<1>25. iter = [U \in SUBSET (1 .. n) |-> IF U = {} THEN marked ELSE sort(iter[U \ {Max(U)}], seq[Max(U)])]
  BY <1>24
<1> HIDE DEF iter
<1>26. PICK r \in [0 .. n -> T] : OneByOne(r, n, marked, step, iter[1 .. n])
  <2>1. iter[{}] = marked
    BY <1>25
  <2>2. ASSUME NEW U \in SUBSET (1 .. n), U # {}, iter[U \ {Max(U)}] \in T
        PROVE  iter[U] = step[Max(U)][iter[U \ {Max(U)}]]
    <3> DEFINE m == Max(U)
               u == iter[U \ {m}]
    <3>1. m \in 1 .. n /\ U \ {m} \in SUBSET (1 .. n) /\ u \in T
      BY <1>23, <2>2
    <3>2. iter[U] = sort(u, seq[m])
      <4> HIDE DEF m
      <4>1. iter[U] = IF U = {} THEN marked ELSE sort(iter[U \ {Max(U)}], seq[Max(U)])
        BY <1>25
      <4> QED BY <2>2, <4>1 DEF m
    <3> HIDE DEF m, u
    <3>3. step[m][u] = sort(u, seq[m])
      BY <1>21, <3>1
    <3> QED BY <3>2, <3>3 DEF m, u
  <2>3. n \in Nat
    BY <1>2
  <2>4. \A k \in 1 .. n, t \in T : step[k][t] \in T
    BY <1>21
  <2>5. \A U \in SUBSET (1 .. n) : U # {} /\ iter[U \ {Max(U)}] \in T =>
          iter[U] = step[Max(U)][iter[U \ {Max(U)}]]
    BY <2>2
  <2> HIDE DEF n
  <2> QED BY ONLY <1>12, <2>1, <2>3, <2>4, <2>5, FoldLeftRuns
<1>27. iter[1 .. n] \in T /\ r[n] = iter[1 .. n] /\ r[0] = marked
  BY <1>2, <1>26 DEF OneByOne
<1>28. ASSUME NEW k \in Nat, k + 1 <= n
      PROVE  r[k] \in T /\ k + 1 \in 1 .. n /\ r[k + 1] = sort(r[k], seq[k + 1])
  <2>1. k \in 0 .. n /\ k + 1 \in 1 .. n /\ (k + 1) - 1 = k
    BY <1>2, <1>28
  <2>2. r[k + 1] = step[k + 1][r[k]] /\ r[k] \in T
    BY <1>26, <2>1 DEF OneByOne
  <2> QED BY <1>21, <2>1, <2>2
<1>29. \A k \in Nat : k <= n =>
         \A s \in starts : s < lo + k => OrderedOn(r[k].str, G(s))
  <2> DEFINE Q == {k \in Nat : k <= n => \A s \in starts : s < lo + k => OrderedOn(r[k].str, G(s))}
  <2>0. \A s \in starts : s \in P /\ s \in Int /\ lo <= s
    BY <1>2 DEF starts
  <2>1. 0 \in Q
    <3>1. \A s \in starts : ~(s < lo + 0)
      BY <1>2, <2>0
    <3> QED BY <3>1
  <2>2. ASSUME NEW k \in Q PROVE k + 1 \in Q
    <3> SUFFICES ASSUME k + 1 <= n, NEW s \in starts, s < lo + (k + 1)
                 PROVE  OrderedOn(r[k + 1].str, G(s))
      OBVIOUS
    <3> DEFINE x == r[k]
               i == lo + k
               y == sort(x, i)
    <3>1. k \in Nat /\ k <= n /\ i \in Int /\ i \in P
      BY <1>2
    <3>2. x \in T /\ r[k + 1] = y
      <4>1. r[k] \in T /\ k + 1 \in 1 .. n /\ r[k + 1] = sort(r[k], seq[k + 1])
        BY <1>28, <3>1
      <4>2. seq[k + 1] = i
        BY <1>2, <3>1, <4>1 DEF seq
      <4> QED BY <4>1, <4>2
    <3>3. \A u \in starts : u < i => OrderedOn(x.str, G(u))
      BY <2>2, <3>1
    <3> HIDE DEF x
    <3>4. y.str \in Rearranged(x.str, G(i)) /\ (i \in starts => OrderedOn(y.str, G(i)))
      BY <1>17, <3>1, <3>2
    <3>5. DOMAIN x.str = D
      BY <1>15, <3>2
    <3> HIDE DEF y
    <3>6. CASE s = i
      BY <3>2, <3>4, <3>6
    <3>7. CASE s < i
      <4>1. OrderedOn(x.str, G(s))
        BY <3>3, <3>7
      <4>2. CASE i \in starts
        <5>1. G(s) \cap G(i) = {}
          <6>1. s \in P /\ i \in P /\ s < i /\ lo <= s /\ s \in Int /\ i \in Int
            BY <2>0, <3>1, <3>7
          <6>2. keys[i - 1] # keys[i] /\ i - 1 \in P
            <7>1. i # lo
              BY <1>2, <6>1
            <7>2. i - 1 \in P
              BY <1>2, <6>1
            <7> QED BY <4>2, <7>1, <7>2 DEF starts
          <6>3. keys[s] # keys[i]
            <7> SUFFICES ASSUME keys[s] = keys[i] PROVE FALSE
              OBVIOUS
            <7>1. keys[s] <= keys[i - 1] /\ keys[i - 1] <= keys[i]
              <8>1. i - 1 < i /\ (s < i - 1 \/ s = i - 1)
                BY <6>1
              <8>2. keys[i - 1] <= keys[i]
                BY <1>6, <6>1, <6>2, <8>1 DEF KeysInOrder
              <8>3. keys[s] \in Int
                BY <1>9, <6>1
              <8>4. s < i - 1 => keys[s] <= keys[i - 1]
                BY <1>6, <6>1, <6>2 DEF KeysInOrder
              <8> QED BY <8>1, <8>2, <8>3, <8>4
            <7>2. keys[s] \in Int /\ keys[i] \in Int /\ keys[i - 1] \in Int
              BY <1>9, <6>1, <6>2
            <7> QED BY <6>2, <7>1, <7>2
          <6> QED BY <6>3
        <5>2. \A k2 \in G(s) : y.str[k2] = x.str[k2]
          <6>1. \A k2 \in D \ G(i) : y.str[k2] = x.str[k2]
            BY <3>4, <3>5 DEF Rearranged
          <6>2. G(s) \subseteq D \ G(i)
            BY <1>14, <2>0, <5>1
          <6> HIDE DEF G
          <6> QED BY <6>1, <6>2
        <5> HIDE DEF G
        <5>3. OrderedOn(y.str, G(s))
          BY <4>1, <5>2 DEF OrderedOn
        <5> QED BY <3>2, <5>3
      <4>3. CASE i \notin starts
        <5>1. y = x
          BY <1>18, <3>1, <3>2, <4>3 DEF y
        <5> QED BY <3>2, <4>1, <5>1
      <4> QED BY <4>2, <4>3
    <3>8. s \in Int /\ s <= i
      BY <1>2, <2>0, <3>1
    <3> QED BY <3>1, <3>6, <3>7, <3>8
  <2> HIDE DEF Q
  <2>3. Q = Nat
    <3>1. Q \in SUBSET Nat
      BY DEF Q
    <3> QED BY <2>1, <2>2, <3>1, NatInd
  <2> QED BY <2>3 DEF Q
<1> DEFINE z == iter[1 .. n]
<1>30. /\ z \in T /\ \A s \in starts : OrderedOn(z.str, G(s))
  <2>1. \A s \in starts : s < lo + n
    BY <1>2 DEF starts
  <2>2. n <= n
    BY <1>2
  <2> QED BY <1>2, <1>27, <1>29, <2>1, <2>2
<1> HIDE DEF z
<1>31. /\ z \in States(D, V, L, C, {keys}) /\ z.str \in Rearranged(block.str, P)
       /\ \A i \in P : KeyAt(z.str[i], depth) = keys[i]
       /\ Sharing(z.str, P, depth) /\ z.keys = keys
  BY <1>15, <1>30 DEF T
<1>32. OrderedOn(z.str, P)
  <2> SUFFICES ASSUME NEW a \in P, NEW b \in P, a < b PROVE AtMost(z.str[a], z.str[b])
    BY DEF OrderedOn
  <2>0. a \in Int /\ b \in Int
    BY <1>2
  <2>1. /\ z.str[a] \in CStrings /\ z.str[b] \in CStrings /\ Share(z.str[a], z.str[b], depth)
        /\ KeyAt(z.str[a], depth) = keys[a] /\ KeyAt(z.str[b], depth) = keys[b]
    <3> HIDE DEF P
    <3> QED BY <1>31 DEF Sharing
  <2>2. keys[a] <= keys[b] /\ keys[a] \in Int /\ keys[b] \in Int
    BY <1>6, <1>9 DEF KeysInOrder
  <2>3. CASE keys[a] # keys[b]
    <3>1. KeyAt(z.str[a], depth) < KeyAt(z.str[b], depth)
      BY <2>1, <2>2, <2>3
    <3>2. LessFrom(0, z.str[a], z.str[b])
      BY <1>2, <2>1, <2>3, <3>1, KeysApart
    <3> QED BY <2>1, <3>2, AtMostOrders
  <2>4. CASE keys[a] = keys[b]
    <3> DEFINE E == {k \in P : keys[k] = keys[a]}
               N == {x - lo : x \in E}
    <3>1. \E s \in E : \A k \in E : s <= k
      <4>1. a - lo \in N /\ N \in SUBSET Nat
        BY <1>2, <2>0
      <4>2. \E m \in N : \A k \in N : m <= k
        <5> HIDE DEF N
        <5>0. N # {}
          BY <4>1
        <5> SUFFICES ASSUME ~\E m \in N : \A k \in N : m <= k PROVE FALSE
          OBVIOUS
        <5> DEFINE R == {m \in Nat : \A k \in N : k >= m}
        <5>1. 0 \in R
          BY <4>1
        <5>2. ASSUME NEW m \in R PROVE m + 1 \in R
          <6>1. m \notin N
            BY <5>2
          <6> SUFFICES ASSUME NEW k \in N PROVE k >= m + 1
            OBVIOUS
          <6>2. k \in Nat /\ k >= m /\ k # m /\ m \in Nat
            BY <4>1, <6>1
          <6> QED BY <6>2
        <5>3. R = Nat
          <6>1. R \in SUBSET Nat
            OBVIOUS
          <6> HIDE DEF R
          <6> QED BY <5>1, <5>2, <6>1, NatInd
        <5>4. a - lo + 1 \in R /\ a - lo \in Nat
          BY <4>1, <5>3
        <5>5. a - lo >= a - lo + 1
          BY <4>1, <5>4 DEF R
        <5> QED BY <5>4, <5>5
      <4>3. PICK m \in N : \A k \in N : m <= k
        BY <4>2
      <4>4. PICK s \in E : m = s - lo
        OBVIOUS
      <4>5. \A k \in E : s <= k
        <5> SUFFICES ASSUME NEW k \in E PROVE s <= k
          OBVIOUS
        <5>1. k - lo \in N
          OBVIOUS
        <5>2. s - lo <= k - lo
          BY <4>3, <4>4, <5>1
        <5>3. s \in Int /\ k \in Int
          BY <1>2
        <5> QED BY <1>2, <5>2, <5>3
      <4> QED BY <4>5
    <3>2. PICK s \in E : \A k \in E : s <= k
      BY <3>1
    <3>3. s \in P /\ keys[s] = keys[a] /\ s \in Int
      BY <1>2
    <3>4. s \in starts
      <4>1. CASE s = lo
        BY <3>3, <4>1 DEF starts
      <4>2. CASE s # lo
        <5>1. s - 1 \in P /\ ~(s <= s - 1)
          BY <1>2, <3>3, <4>2
        <5>2. s - 1 \notin E
          BY <3>2, <5>1
        <5> QED BY <3>3, <5>1, <5>2 DEF starts
      <4> QED BY <4>1, <4>2
    <3>5. a \in G(s) /\ b \in G(s)
      BY <2>4, <3>2, <3>3
    <3>6. OrderedOn(z.str, G(s))
      BY <1>30, <3>4
    <3> HIDE DEF G
    <3> QED BY <3>5, <3>6 DEF OrderedOn
  <2> QED BY <2>3, <2>4
<1>33. SectionSorted(z, st, P, D, V, L, C, [D -> K])
  <2>1. z \in States(D, V, L, C, [D -> K])
    BY <1>7, <1>31 DEF States
  <2>2. z.str \in Rearranged(st.str, P)
    <3> DEFINE f == st.str
               g == block.str
    <3>1. P \subseteq DOMAIN f /\ P \in SUBSET P /\ g \in Rearranged(f, P) /\ z.str \in Rearranged(g, P)
      BY <1>2, <1>3, <1>8, <1>31
    <3> HIDE DEF f, g, P
    <3>2. z.str \in Rearranged(f, P)
      BY <3>1, RearrangedTwice
    <3> QED BY <3>2 DEF f
  <2> QED BY <1>32, <2>1, <2>2 DEF SectionSorted
<1>34. ASSUME n <= 1 PROVE SectionSorted(st, st, P, D, V, L, C, [D -> K])
  <2>1. OrderedOn(st.str, P)
    BY <1>2, <1>34 DEF OrderedOn
  <2>2. st.str \in Rearranged(st.str, P)
    <3> HIDE DEF P
    <3> QED BY <1>3, RearrangedSame
  <2> QED BY <2>1, <2>2 DEF SectionSorted
<1>35. CASE n <= 1
  BY <1>1, <1>34, <1>35
<1>36. CASE ~(n <= 1)
  <2>1. InsertionSortCache(set, cls, st, sec, depth) = z
    BY <1>1, <1>36 DEF z
  <2>2. \A k \in D \ P : z.keys[k] = st.keys[k]
    BY <1>8, <1>31
  <2> QED BY <1>33, <2>1, <2>2
<1> QED BY <1>35, <1>36
=============================================================================
