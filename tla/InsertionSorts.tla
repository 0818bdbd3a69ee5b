--------------------------- MODULE InsertionSorts ---------------------------
(***************************************************************************)
(* The insertion sorts that end every recursion of the sorters: of strings *)
(* by their characters (sequential/inssort.hpp), of strings with an array  *)
(* of the LCPs found so far (sequential/bingmann-lcp_inssort.hpp), and of  *)
(* strings with cached keys (insertion_sort_cache in                       *)
(* parallel/bingmann-parallel_sample_sort.hpp).  Each works in place on a  *)
(* section of the arrays.                                                  *)
(***************************************************************************)
EXTENDS StringSet, StringPtr, SequencesExt

CONSTANT UseLcpInssort   \* use_lcp_inssort

(* A step for each of the positions of a section from the first to the     *)
(* last, the outer loop of an insertion sort.                              *)
ForEach(op(_, _), st, sec) ==
  FoldLeft(op, st, [k \in 1 .. sec.n |-> sec.lo + k - 1])

(* f with its value at j moved to i <= j, and what lies between moved up. *)
MoveDown(f, i, j) ==
  [k \in DOMAIN f |-> IF k = i THEN f[j] ELSE IF k \in i + 1 .. j THEN f[k - 1] ELSE f[k]]

(* The place of f[j] among the values from lo on: above the last of them   *)
(* at which the inner loop breaks.                                         *)
PlaceOf(f, lo, j, breaks(_)) == Max({lo} \union {i \in lo + 1 .. j : breaks(f[i - 1])})

(* inssort() and inssort_generic(): a string goes below all those that     *)
(* precede it and are greater.                                             *)
InssortGeneric(str, sec, depth) ==
  LET insert(f, j) ==
        LET leq(s) == LET h == LcpFrom(depth, s, f[j]) IN IsLeq(s, h, f[j], h)
        IN  MoveDown(f, PlaceOf(f, sec.lo, j, leq), j)
  IN  ForEach(insert, str, sec)

(* insertion_sort_cache_block: strings in the order of their cached keys.  *)
InsertionSortCacheBlock(st, sec) ==
  LET insert(x, j) ==
        LET leq(key) == key <= x.keys[j]
            i == PlaceOf(x.keys, sec.lo, j, leq)
        IN  [x EXCEPT !.str = MoveDown(@, i, j), !.keys = MoveDown(@, i, j)]
  IN  ForEach(insert, st, sec)

-----------------------------------------------------------------------------
(* newLcp[i] is new_lcp when f[j] is compared with the string before       *)
(* position i: characters are compared, at position i + 1, only if that    *)
(* string's LCP with its successor was the same.                           *)
NewLcp(st, lo, j, depth) ==
  LET newLcp[i \in lo .. j] ==
        IF i = j THEN depth
        ELSE LET prev == newLcp[i + 1]
             IN  IF st.lcp[i + 1] = prev THEN LcpFrom(prev, st.str[j], st.str[i]) ELSE prev
  IN  newLcp

(* A string is inserted at the first position where the LCP goes down      *)
(* (case 1), or where the strings must be compared (case 2) and it is not  *)
(* less.  The LCPs of the strings it passed move with them; those on its   *)
(* both sides are what was found, and nothing is written behind the last   *)
(* string nor, without a comparison there, to the entry of the first.      *)
InsertLcp(set, st, sec, j, depth) ==
  LET new == st.str[j]
      newLcp == NewLcp(st, sec.lo, j, depth)
      found(i) == LcpFrom(newLcp[i], new, st.str[i - 1])
      equal(i) == i > sec.lo /\ st.lcp[i] = newLcp[i]
      breaks(i) == \/ st.lcp[i] < newLcp[i]
                   \/ equal(i) /\ ~IsLess(set, new, found(i), st.str[i - 1], found(i))
      i == Max({sec.lo} \union {k \in sec.lo + 1 .. j : breaks(k)})
      str == MoveDown(st.str, i, j)
      last == sec.lo + sec.n - 1
  IN  [st EXCEPT
       !.str = str,
       !.lcp = [k \in DOMAIN st.lcp |->
                  IF k = i /\ equal(i) THEN found(i)
                  ELSE IF k = i + 1 /\ k <= last THEN newLcp[i]
                  ELSE IF k \in i + 2 .. Min({j + 1, last}) THEN st.lcp[k - 1]
                  ELSE st.lcp[k]],
       !.chars = [k \in DOMAIN st.chars |->
                  IF k = i /\ equal(i) THEN GetChar(new, found(i))
                  ELSE IF k = i + 1 /\ k <= last THEN GetChar(str[k], newLcp[i])
                  ELSE IF k \in i + 2 .. j THEN st.chars[k - 1]
                  ELSE st.chars[k]]]

(* lcp_insertion_sort(), which leaves sets of one string alone. *)
LcpInsertionSort(set, st, sec, depth) ==
  LET insert(x, j) == InsertLcp(set, x, sec, j, depth)
  IN  IF sec.n <= 1 THEN st ELSE ForEach(insert, st, sec)

(* insertion_sort() of a section that was copied back, by the kind of      *)
(* string pointer: without LCPs by either algorithm, whose LCPs are lost.  *)
InsertionSort(set, class, st, sec, depth) ==
  LET sorted == LcpInsertionSort(set, st, sec, depth)
  IN  IF ~class.lcp
      THEN [st EXCEPT !.str = IF UseLcpInssort THEN sorted.str
                              ELSE InssortGeneric(@, sec, depth)]
      ELSE [sorted EXCEPT !.chars = IF class.cache THEN @ ELSE st.chars]

(* Where the groups of equal keys begin, and the group that begins at i. *)
GroupStarts(keys, sec) ==
  {i \in Positions(sec) : i = sec.lo \/ keys[i - 1] # keys[i]}

Group(keys, sec, i) ==
  Section(i, Cardinality({k \in Positions(sec) : k >= i /\ keys[k] = keys[i]}), sec.flip)

(* The LCPs between groups come from their keys. *)
MarkGroups(class, st, sec, depth) ==
  LET between == GroupStarts(st.keys, sec) \ {sec.lo}
      rlcp(i) == KeyLcp(st.keys[i - 1], st.keys[i])
  IN  [st EXCEPT
        !.lcp = SetLcp(class, @, [i \in between |-> depth + rlcp(i)]),
        !.chars = SetCache(class, @, [i \in between |-> CharAt(st.keys[i], rlcp(i))])]

(* A group is sorted on from the next key, or not at all if its key is     *)
(* terminated and the strings are equal.                                   *)
SortGroup(set, class, st, sec, i, depth) ==
  LET group == Group(st.keys, sec, i)
  IN  IF i \notin GroupStarts(st.keys, sec) \/ group.n = 1 THEN st
      ELSE IF Terminated(st.keys[i])
           THEN [st EXCEPT !.lcp = FillLcp(class, @, group, depth + KeyDepth(st.keys[i])),
                           !.chars = FillCache(class, @, group)]
           ELSE InsertionSort(set, class, st, group, depth + KeyWidth)

(* insertion_sort_cache<false>: by the cached keys, then group by group.   *)
InsertionSortCache(set, class, st, sec, depth) ==
  LET marked == MarkGroups(class, InsertionSortCacheBlock(st, sec), sec, depth)
      sort(x, i) == SortGroup(set, class, x, sec, i, depth)
  IN  IF sec.n <= 1 THEN st ELSE ForEach(sort, marked, sec)
=============================================================================
