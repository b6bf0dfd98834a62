---------------------------- MODULE MCMemoryPool ----------------------------
(* MemoryPool on small instances.                                           *)
EXTENDS MemoryPool, TLC

ThreadSymmetry == Permutations(Threads)
=============================================================================
