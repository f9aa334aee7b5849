----------------------------- MODULE MCBufCache -----------------------------
(* Caches with fewer buffers than the disk has blocks, so that buffers are *)
(* recycled.                                                               *)
EXTENDS BufCache, TLC

Interchangeable == Permutations(Procs) \cup Permutations(Blocks)
=============================================================================
