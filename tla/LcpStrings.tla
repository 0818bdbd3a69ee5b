----------------------------- MODULE LcpStrings -----------------------------
(***************************************************************************)
(* Sorted strings with their LCPs and the characters behind them, as the   *)
(* callers of the sorters hold them (LcpCacheStringPtr in                  *)
(* tools/stringptr.hpp), and the functions that use and check the LCPs.    *)
(* A pointer is the arrays from where it points on, three or, without      *)
(* characters (LcpStringPtr), two.                                         *)
(***************************************************************************)
EXTENDS StringSet

LcpCacheStringPtr(strings, lcps, cachedChars) ==
  [strings |-> strings, lcps |-> lcps, cachedChars |-> cachedChars]

LcpStringPtr(strings, lcps) == [strings |-> strings, lcps |-> lcps]

(* operator ++: the first entries are done with. *)
Increment(ptr) == [a \in DOMAIN ptr |-> Tail(ptr[a])]

(* sub(), and subNoCache(), which drops the characters. *)
SubArray(ptr, offset, n) == [a \in DOMAIN ptr |-> SubSeq(ptr[a], offset + 1, offset + n)]

SubNoCache(ptr, offset, n) ==
  LET part == SubArray(ptr, offset, n) IN LcpStringPtr(part.strings, part.lcps)

(* setFirst() of a string that is not the first of all, or is.             *)
SetFirst(ptr, s, lcp) ==
  [strings |-> <<s>> \o Tail(ptr.strings), lcps |-> <<lcp>> \o Tail(ptr.lcps),
   cachedChars |-> <<GetChar(s, lcp)>> \o Tail(ptr.cachedChars)]

(* calculateCache() *)
CalculateCache(ptr) ==
  [ptr EXCEPT !.cachedChars =
     [k \in DOMAIN ptr.strings |-> GetChar(ptr.strings[k], ptr.lcps[k])]]

(* verify_lcp(), and verify_lcp_cache(), which checks the characters too,  *)
(* without the constants that stand for "not checked".                     *)
VerifyLcp(ptr, expectedFirst) ==
  /\ ptr.lcps[1] = expectedFirst
  /\ \A k \in DOMAIN ptr.strings \ {1} :
       ptr.lcps[k] = LcpFrom(0, ptr.strings[k - 1], ptr.strings[k])

VerifyLcpCache(ptr, expectedFirst) ==
  /\ VerifyLcp(ptr, expectedFirst)
  /\ \A k \in DOMAIN ptr.strings :
       ptr.cachedChars[k] = GetChar(ptr.strings[k], ptr.lcps[k])

(* Mistake: only one of the two ends is known to share h characters.       *)
NextProbeByLeft(ptr, searched, x) ==
  LET m == (x.l + x.r) \div 2
      probe == Scmp(searched, ptr.strings[m + 1], x.hl)
  IN  IF probe.leq THEN [x EXCEPT !.r = m, !.hr = probe.lcp]
                   ELSE [x EXCEPT !.l = m, !.hl = probe.lcp]

(* An iteration of binarySearch(): strings[l] < searched <= strings[r],    *)
(* which share hl and hr characters with it; the middle one shares what    *)
(* both of them do.                                                        *)
NextProbe(ptr, searched, x) ==
  LET m == (x.l + x.r) \div 2
      probe == Scmp(searched, ptr.strings[m + 1], Min({x.hl, x.hr}))
  IN  IF probe.leq THEN [x EXCEPT !.r = m, !.hr = probe.lcp]
                   ELSE [x EXCEPT !.l = m, !.hl = probe.lcp]

(* binarySearch(), of at least one string. *)
BinarySearch(ptr, searched) ==
  LET size == Len(ptr.strings)
      first == Scmp(searched, ptr.strings[1], 0)
      last == Scmp(searched, ptr.strings[size], 0)
      probes[n \in 0 .. size] ==
        IF n = 0 THEN [l |-> 0, r |-> size - 1, hl |-> first.lcp, hr |-> last.lcp]
        ELSE LET x == probes[n - 1]
             IN  IF x.r - x.l > 1 THEN NextProbe(ptr, searched, x) ELSE x
  IN  IF first.leq THEN 0 ELSE IF ~last.leq THEN size ELSE probes[size].r
=============================================================================
