----------------------------- MODULE StringPtr -----------------------------
(***************************************************************************)
(* The string pointer classes of the sorters (tools/stringptr.hpp).  Each  *)
(* is a view of a section of two string arrays, the original one (FALSE)   *)
(* and the shadow (TRUE), one of which is active; some write the result to *)
(* an output array, some keep an LCP array and some the character behind   *)
(* each LCP.  The output array of the sorter's callers is the shadow.      *)
(*                                                                         *)
(* Sections hold absolute positions, so that sub() and flip() of pointers  *)
(* to parts of one array are sections of one function.                     *)
(***************************************************************************)
EXTENDS Integers, Sequences

(* What is left in a slot that a string was moved from: a null pointer,    *)
(* anything, or the string again, by the kind of set; nobody may use it.   *)
CONSTANT Moved

StringShadowPtr            == [out |-> FALSE, lcp |-> FALSE, cache |-> FALSE]
StringShadowOutPtr         == [out |-> TRUE,  lcp |-> FALSE, cache |-> FALSE]
StringShadowLcpPtr         == [out |-> FALSE, lcp |-> TRUE,  cache |-> FALSE]
StringShadowLcpOutPtr      == [out |-> TRUE,  lcp |-> TRUE,  cache |-> FALSE]
StringShadowLcpCacheOutPtr == [out |-> TRUE,  lcp |-> TRUE,  cache |-> TRUE]

PointerClasses ==
  {StringShadowPtr, StringShadowOutPtr, StringShadowLcpPtr,
   StringShadowLcpOutPtr, StringShadowLcpCacheOutPtr}

(* A pointer of n strings from position lo on, flipped or not. *)
Section(lo, n, flip) == [lo |-> lo, n |-> n, flip |-> flip]
Positions(sec) == sec.lo .. sec.lo + sec.n - 1

Sub(sec, offset, n) == Section(sec.lo + offset, n, sec.flip)
Flip(sec, offset, n) == Section(sec.lo + offset, n, ~sec.flip)

(* active(), and its strings in their order. *)
Active(arr, sec) == arr[sec.flip]
Content(arr, sec) == [k \in 1 .. sec.n |-> Active(arr, sec)[sec.lo + k - 1]]

(* output(): the original array where there is no other. *)
Output(class, arr) == arr[class.out]

(* f with the sequence seq at position lo, and f where g does not say more. *)
Put(f, lo, seq) ==
  [i \in DOMAIN f |-> IF i - lo + 1 \in DOMAIN seq THEN seq[i - lo + 1] ELSE f[i]]
Override(f, g) == [i \in DOMAIN f |-> IF i \in DOMAIN g THEN g[i] ELSE f[i]]

(* Mistake: flipped strings are brought home to the original array always. *)
CopyBackToOriginal(class, arr, sec) ==
  IF ~sec.flip THEN arr
  ELSE [side \in BOOLEAN |-> [i \in DOMAIN arr[side] |->
          IF i \notin Positions(sec) THEN arr[side][i]
          ELSE IF side THEN Moved ELSE arr[TRUE][i]]]

(* copy_back(): the strings are moved to the output array, unless that is  *)
(* where they are.                                                         *)
CopyBack(class, arr, sec) ==
  IF sec.flip = class.out THEN arr
  ELSE [side \in BOOLEAN |-> [i \in DOMAIN arr[side] |->
          IF i \notin Positions(sec) THEN arr[side][i]
          ELSE IF side = class.out THEN arr[~side][i] ELSE Moved]]

(* set_lcp() and set_cache() at the positions that some function names; of *)
(* a class without the array they do nothing.                              *)
SetLcp(class, lcp, f) == IF class.lcp THEN Override(lcp, f) ELSE lcp
SetCache(class, chars, f) == IF class.cache THEN Override(chars, f) ELSE chars

(* fill_lcp() of equal strings, which leaves the first entries alone and   *)
(* has the terminator behind every LCP.                                    *)
FillLcp(class, lcp, sec, v) ==
  SetLcp(class, lcp, [i \in Positions(sec) \ {sec.lo} |-> v])

FillCache(class, chars, sec) ==
  SetCache(class, chars, [i \in Positions(sec) \ {sec.lo} |-> 0])
=============================================================================
