------------------------------- MODULE MCSlab -------------------------------
(* Pages of 16 bytes and four caches of bmalloc, with four, two and one    *)
(* object a slab, and with one in a block of two pages, as bmalloc-1024 to *)
(* bmalloc-8192 are; four structures of a cache in a slab of the cache of  *)
(* caches.  A word has seven bits.                                         *)
EXTENDS Slab, TLC

MCInfo == <<4, 8, 16, 32>>
MCPow2 == [k \in 0 .. Bits + PageShift |-> 2 ^ k]

Symmetry == Permutations(Slabs)
==============================================================================
