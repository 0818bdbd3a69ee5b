--------------------------- MODULE MCSmallsortJob ---------------------------
(* Small instances of SmallsortJob: strings enough for sample sort to      *)
(* start with, for multikey quicksort, and for insertion sort only, with   *)
(* every class of string pointer.  Keys are two characters wide: among the *)
(* strings are some that end within their first key, at its end and within *)
(* the next, repeated ones, and keys that share their first character.     *)
EXTENDS SmallsortJob

NoString == <<0>>   \* no string holds a zero

Job(c, f, set, s) == [class |-> c, flip |-> f, set |-> set, strings |-> s]

SomeInputs ==
  { Job(StringShadowLcpCacheOutPtr, FALSE, GenericCharStringSet,
        << <<2, 1>>, <<1, 1>>, <<1>>, <<1, 2>>, <<1>>, <<1, 1, 1>>, <<1, 1>> >>),
    Job(StringShadowLcpPtr, TRUE, VectorStringSet,
        << <<1, 1, 2, 2>>, <<1, 1>>, <<1, 1, 1>>, <<1, 1, 2, 1>>, <<1, 1, 1>>, <<1, 1, 2>>,
           <<1, 1, 1, 2>> >>),
    Job(StringShadowLcpOutPtr, TRUE, UCharSuffixSet, Initialize(<<1, 2, 2, 1, 2, 1, 2>>)),
    Job(StringShadowPtr, FALSE, VectorPtrStringSet,
        << <<2>>, <<2, 2>>, <<>>, <<2>>, <<2, 2>>, <<2>>, <<2>> >>),
    Job(StringShadowLcpCacheOutPtr, TRUE, GenericCharStringSet,
        << <<1, 2, 1>>, <<2>>, <<1, 2, 2>>, <<1, 1>>, <<1, 2, 1>>, <<1, 2>> >>),
    Job(StringShadowOutPtr, FALSE, StringSuffixSet, Initialize(<<1, 1, 1, 1, 2, 1>>)),
    Job(StringShadowLcpPtr, FALSE, VectorStringSet,
        << <<2, 1>>, <<1, 1>>, <<1, 1>>, <<2, 2>>, <<1, 2>>, <<2>> >>),
    Job(StringShadowLcpPtr, TRUE, GenericCharStringSet,
        << <<1, 1>>, <<2>>, <<1, 2>>, <<2, 1>> >>),
    Job(StringShadowLcpCacheOutPtr, FALSE, GenericCharStringSet,
        << <<1>>, <<2, 2>>, <<1, 2>>, <<2, 1>>, <<2, 2>> >>),
    Job(StringShadowLcpCacheOutPtr, FALSE, VectorStringSet, << <<2>>, <<1, 1>>, <<1, 2>> >>),
    Job(StringShadowOutPtr, TRUE, VectorPtrStringSet, << <<2>>, <<1, 2>>, <<1>> >>) }

(* All strings of up to three letters. *)
ShortStrings == UNION {[1 .. n -> {1, 2}] : n \in 0 .. 3}
=============================================================================
