----------------------------- MODULE StringKeys -----------------------------
(***************************************************************************)
(* The key_type of the sample sorters: the next KeyWidth characters of a   *)
(* string packed into one integer, the first character in the most         *)
(* significant place, zero from the string's terminator on.  The source    *)
(* has KeyWidth = 8 characters of 8 bits; both numbers are parameters.     *)
(***************************************************************************)
EXTENDS Integers, FiniteSets

CONSTANTS
  KeyWidth,    \* characters per key, sizeof(key_type)
  NumChars     \* size of the alphabet, the terminator 0 included

ASSUME KeyAssumption == KeyWidth \in Nat \ {0} /\ NumChars \in Nat \ {0, 1}

(* What `^' means, as far as keys have need of it: true of all numbers.    *)
ASSUME PowerAssumption ==
  /\ NumChars ^ 0 = 1
  /\ \A n \in 0 .. KeyWidth - 1 : NumChars ^ (n + 1) = NumChars * NumChars ^ n

Place == 0 .. KeyWidth - 1

(* getCharAtDepth: the d-th character of a key. *)
CharAt(a, d) == (a \div NumChars ^ (KeyWidth - 1 - d)) % NumChars

(* What get_uint64 can return: nothing follows a terminator. *)
Keys ==
  {a \in 0 .. NumChars ^ KeyWidth - 1 :
     \A d, e \in Place : d < e /\ CharAt(a, d) = 0 => CharAt(a, e) = 0}

(* lcpKeyType: the number of leading characters two keys share. *)
KeyLcp(a, b) ==
  Cardinality({d \in Place : \A e \in 0 .. d : CharAt(a, e) = CharAt(b, e)})

(* lcpKeyDepth: the number of characters before the trailing zeros. *)
KeyDepth(a) ==
  Cardinality({d \in Place : \E e \in d .. KeyWidth - 1 : CharAt(a, e) # 0})

(* The 0x80 marker of a splitter: the key holds a terminator, so strings   *)
(* that share it are equal.                                                *)
Terminated(a) == CharAt(a, KeyWidth - 1) = 0

(* The classifiers, for a splitter array spl that is indexed from zero:    *)
(* less-than buckets are even, equal buckets odd, equal splitters have     *)
(* empty buckets but for the first.                                        *)
BucketIn(spl, key) ==
  LET less == Cardinality({i \in DOMAIN spl : spl[i] < key})
  IN  IF less \in DOMAIN spl /\ spl[less] = key THEN 2 * less + 1 ELSE 2 * less

(* splitter_lcp, with its sentinels before the first and after the last.   *)
SplitterLcpIn(spl, i) ==
  IF i - 1 \in DOMAIN spl /\ i \in DOMAIN spl THEN KeyLcp(spl[i - 1], spl[i]) ELSE 0
=============================================================================
