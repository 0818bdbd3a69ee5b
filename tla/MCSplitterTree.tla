--------------------------- MODULE MCSplitterTree ---------------------------
(* A small instance of SplitterTree: every key may be sampled.             *)
EXTENDS SplitterTree

AllKeys == Keys
=============================================================================
