------------------------- MODULE MCMemoryPagesPool -------------------------
(***************************************************************************)
(* MemoryPagesPool for TLC: threads are interchangeable.                   *)
(***************************************************************************)
EXTENDS MemoryPagesPool, TLC

ThreadSymmetry == Permutations(Threads)
=============================================================================
