----------------------------- MODULE StringSet -----------------------------
(***************************************************************************)
(* Sets of strings, and access to their characters (tools/stringset.hpp).  *)
(* A string is a tuple of characters without zero, the suffix of a text    *)
(* too; a CharIterator into it is the number of characters in front of it. *)
(***************************************************************************)
EXTENDS StringKeys, FiniteSetsExt, Sequences

(* The sets differ in where a string ends: at a zero, in which case the    *)
(* comparisons are by characters, the zero included, or at the end of the  *)
(* string or of the text it is a suffix of, when comparisons are those     *)
(* inherited from StringSetBase, which ask is_end().                       *)
GenericCharStringSet == [end |-> "zero"]     \* char*, unsigned char*
VectorStringSet      == [end |-> "string"]   \* std::string
VectorPtrStringSet   == [end |-> "string"]   \* std::unique_ptr<std::string>
UCharSuffixSet       == [end |-> "text"]     \* positions in unsigned char[]
StringSuffixSet      == [end |-> "text"]     \* positions in a std::string

StringSets == {GenericCharStringSet, VectorStringSet, VectorPtrStringSet,
               UCharSuffixSet, StringSuffixSet}

InheritsBase(set) == set.end # "zero"

(* StringSuffixSet::Initialize: all suffixes, the longest first. *)
Initialize(text) == [i \in DOMAIN text |-> SubSeq(text, i, Len(text))]

IsEnd(s, i) == i >= Len(s)

(* get_char: the terminator may be read as well. *)
GetChar(s, depth) == IF IsEnd(s, depth) THEN 0 ELSE s[depth + 1]

(* Comparison of the characters at two iterators.  That both strings end   *)
(* is less, if is_less is inherited.                                       *)
IsEqual(a, i, b, j) == ~IsEnd(a, i) /\ ~IsEnd(b, j) /\ GetChar(a, i) = GetChar(b, j)

IsLess(set, a, i, b, j) ==
  \/ InheritsBase(set) /\ IsEnd(a, i)
  \/ ~IsEnd(b, j) /\ GetChar(a, i) < GetChar(b, j)

IsLeq(a, i, b, j) == IsEnd(a, i) \/ (~IsEnd(b, j) /\ GetChar(a, i) <= GetChar(b, j))

(* "while is_equal: ++c1, ++c2", with both iterators at depth: where they  *)
(* stop.  Also calc_lcp().                                                 *)
LcpFrom(depth, s, t) ==
  depth + Cardinality({k \in depth .. Len(s) - 1 :
                         \A j \in depth .. k : IsEqual(s, j, t, j)})

(* The order of two strings that share their first characters. *)
LessFrom(depth, s, t) ==
  LET h == LcpFrom(depth, s, t) IN GetChar(s, h) < GetChar(t, h)

(* get_uint8 to get_uint64: the next width characters in one number, the   *)
(* first in the most significant place.                                    *)
GetUint(width, s, depth) ==
  MapThenSumSet(LAMBDA d : GetChar(s, depth + d) * NumChars ^ (width - 1 - d),
                0 .. width - 1)

KeyAt(s, depth) == GetUint(KeyWidth, s, depth)

(* Mistake: what lies behind the terminator is not masked. *)
BswapUnmasked(s, depth, tail) ==
  MapThenSumSet(LAMBDA d : NumChars ^ (KeyWidth - 1 - d)
                  * (IF depth + d <= Len(s) THEN GetChar(s, depth + d) ELSE tail), Place)

(* get_char_uint64_bswap64 and get_char<uint64_t> of tools/stringtools.hpp *)
(* load all characters at once, with whatever is in memory behind the      *)
(* terminator (tail), and mask what follows the first zero.                *)
BswapKey(s, depth, tail) ==
  LET v == BswapUnmasked(s, depth, tail)
      zeros == {d \in Place : CharAt(v, d) = 0}
  IN  IF zeros = {} THEN v ELSE v - (v % (NumChars ^ (KeyWidth - Min(zeros))))

(* scmp() of tools/stringtools.hpp, of strings that share the first lcp    *)
(* characters: whether s <= t, and how many they share.                    *)
Scmp(s, t, lcp) ==
  LET h == LcpFrom(lcp, s, t)
  IN  [leq |-> GetChar(s, h) <= GetChar(t, h), lcp |-> h]

(* check_order() of two neighbours gives is_leq() the iterator of the      *)
(* second string twice.  Where characters are compared that says yes; an   *)
(* inherited is_leq() asks whether an iterator into t is behind the end of *)
(* s: that of the text, or one that depends on where in memory they are.   *)
CheckOrder(set, s, t) ==
  LET h == LcpFrom(0, s, t)
  IN  IF set.end = "string" /\ IsEnd(t, h) THEN BOOLEAN ELSE {TRUE}
=============================================================================
