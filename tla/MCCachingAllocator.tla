------------------------- MODULE MCCachingAllocator -------------------------
(***************************************************************************)
(* Small instances of CachingAllocator.  The unit of size is the smallest  *)
(* block; the classes keep the order of the real ones, scaled down.        *)
(***************************************************************************)
EXTENDS CachingAllocatorInv, TLC

Symmetry == Permutations(Thread) \cup Permutations(Stream)
=============================================================================
