-------------------------- MODULE MCSampleSortStep --------------------------
(* Small instances of SampleSortStep.                                      *)
EXTENDS SampleSortStep

(* Keys of two characters out of three and the terminator: "2" holds one,  *)
(* "21" and "22" share its first character; with "11" the first and the    *)
(* last key of a bucket differ in what they share with the key behind.     *)
CloseKeys == {5, 8, 9, 10}

Call(c, f, k, threads) ==
  [class |-> c, flip |-> f, keys |-> k, total |-> 4, threads |-> threads]

(* "2" and "23" as splitters with both of "21" and "22" between them: the  *)
(* substep of a less-than bucket, from depth one.                          *)
Between(c) ==
  [class |-> c, flip |-> FALSE, keys |-> <<9, 8, 11, 10>>, total |-> 6, threads |-> 2]

(* Three strings in two parts with every array, "21" and "22" among them;  *)
(* two orders for every class and flip; two strings in four parts, the     *)
(* last of which begin at the end and past it; four strings in two parts.  *)
SomeInputs ==
  {Call(StringShadowLcpCacheOutPtr, FALSE, k, 2) :
     k \in {k \in [1 .. 3 -> CloseKeys] : {9, 10} \subseteq Range(k) /\ k[1] <= k[3]}}
    \union {Call(c, f, k, 2) : <<c, f, k>> \in
              PointerClasses \X BOOLEAN \X {<<9, 5, 9>>, <<8, 10, 8>>}}
    \union {Call(StringShadowOutPtr, FALSE, <<9, 5>>, 4), Between(StringShadowLcpCacheOutPtr)}

(* Three unterminated keys, no arrays. *)
PlainInputs ==
  {Call(StringShadowPtr, FALSE, k, 2) : k \in [1 .. 3 -> {5, 9}]}
=============================================================================
