-------------------------- MODULE MCSequentialSort --------------------------
(* A small instance of SequentialSort: strings of two letters whose keys   *)
(* repeat, end within a key, or go on behind one, by all variants.         *)
EXTENDS SequentialSort

Mixed == <<<<2, 1, 1>>, <<1>>, <<2, 1, 2>>, <<1, 2>>, <<2, 1>>, <<1>>>>
Repeated == <<<<2, 2, 2, 1>>, <<2, 2, 1>>, <<2, 2, 2, 1>>, <<1, 1>>, <<2, 2, 1, 1, 2>>,
              <<2, 2, 2, 2>>>>
Many == <<<<2>>, <<1, 1, 2, 1>>, <<2>>, <<1, 1, 2, 1, 1>>, <<1, 2>>, <<1, 1, 2>>, <<>>>>


(* All different, many with a common key: what is behind the terminators   *)
(* of equal strings, and the variant that uses a binary search goes there, *)
(* is not known.                                                           *)
Apart == <<<<2, 1>>, <<2, 1, 1>>, <<2, 1, 2>>, <<1>>, <<2, 1, 1, 1>>, <<2, 1, 2, 2>>, <<2, 1, 1, 2>>>>

NoString == <<>>

AllInput ==
  [variant : {"cached", "uncached", "nested"}, tail : {2}, strings : {Mixed, Repeated, Many}]
    \union [variant : {"search"}, tail : {2}, strings : {Apart}]

SearchInput == [variant : {"search"}, tail : {2}, strings : {Mixed, Many}]
=============================================================================
