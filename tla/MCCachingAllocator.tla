------------------------- MODULE MCCachingAllocator -------------------------
(* Small instances of CachingAllocator for TLC. *)
EXTENDS CachingAllocator, TLC

\* Memory objects, segments and devices are interchangeable.
Symmetric == Permutations(Block) \cup Permutations(Segment) \cup Permutations(Device)

\* One request per case: an empty array (one byte, the smallest block), a small block that
\* leaves exactly one granule, a large block, and a large block worth dividing when it is reused.
MCRequest == {0, 5, 9, 22}
=============================================================================
