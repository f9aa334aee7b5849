---------------------------- MODULE MCSharedMem ----------------------------
(* Two or three processes, a few pages, and calls that overlap or not.     *)
EXTENDS SharedMem, TLC

Interchangeable == Permutations(Frames) \cup Permutations(Keys)
=============================================================================
