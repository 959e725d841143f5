---------------------------- MODULE MemBlockProps ----------------------------
(***************************************************************************)
(* What src/mm/memblock.c promises the boot.                               *)
(***************************************************************************)
EXTENDS MemBlock

InUse      == {regions[k] : k \in 0 .. cnt - 1}
FreePages  == UNION {PagesOf(r) : r \in InUse}
GivenPages == UNION {PagesFor(given[k]) : k \in 1 .. Len(given)}

(* The entries e820_memblock_setup adds, and whether the page after the    *)
(* last of one comes before the first of the other.                        *)
Used == {k \in DOMAIN table : /\ table[k].addr + table[k].size > Start
                              /\ table[k].addr < Limit}

Before(k, l) ==
  RoundUp(table[k].addr + table[k].size) < RoundDown(Greater(table[l].addr, Start))

(* The e820 maps whose entries neither touch nor overlap: on the others     *)
(* memblock_fusion_region goes wrong, see NeighboursMerged.                *)
Separate == \A k, l \in Used : k = l \/ Before(k, l) \/ Before(l, k)

(* Regions in use are page aligned whole pages, the count fits the array   *)
(* and the loops stay inside it (memblock.c:7-17, :44-61).                 *)
TypeOK ==
  /\ regions \in [0 .. MaxRegions -> [base : Nat, size : Nat]]
  /\ cnt \in 0 .. MaxRegions
  /\ pc \in {"idle", "add", "del"}
  /\ phase \in {"detect", "reserve", "alloc"}
  /\ i \in 0 .. MaxRegions /\ base \in Nat /\ nend \in Nat
  /\ \A r \in InUse : r.base % PageSize = 0 /\ r.size % PageSize = 0

(* Between calls the regions are sorted, apart and not empty, which is     *)
(* what page_map_free_bootmem (page_alloc.c:289) takes for granted.        *)
SortedApart ==
  Separate /\ pc = "idle" /\ avail # {} =>
    /\ \A k \in 0 .. cnt - 1 : regions[k].size > 0
    /\ \A k \in 0 .. cnt - 2 : End(regions[k]) <= regions[k + 1].base

(* No page gets lost or comes back, however a removal cuts the regions:    *)
(* the regions hold what was added and neither reserved nor removed for a  *)
(* caller of memblock_alloc.                                               *)
MemoryAccounted ==
  Separate /\ pc = "idle" =>
    FreePages = avail \ (reserved \cup GivenPages \cup lost)

(* memblock_alloc returns aligned blocks "below the 1MB mark"              *)
(* (memblock.c:280), of available memory nobody reserved, no two of which  *)
(* share a page.                                                           *)
AllocFresh ==
  Separate => \A k \in 1 .. Len(given) :
    /\ given[k].addr % PageSize = 0
    /\ given[k].addr >= Start /\ given[k].addr + given[k].size <= Limit
    /\ PagesFor(given[k]) \subseteq avail \ reserved
    /\ \A l \in 1 .. k - 1 : PagesFor(given[k]) \cap PagesFor(given[l]) = {}

(* memblock_alloc removes memory without returning it only when that       *)
(* leaves nothing of the region it found behind the block: the case in     *)
(* which memblock_del_region never returns from within its loop.           *)
LostAtRegionEnd ==
  [][Separate /\ lost' # lost =>
       \A r \in InUse' : r.base # RoundUp(want.addr + want.size)]_vars

(* Every call returns: no loop over the regions runs for ever, also where  *)
(* memblock_del_region steps back from a region it took out.               *)
CallsReturn == (pc # "idle") ~> (pc = "idle")

(* arch/x86/setup.c:200 "we need to reserve all regions which should not   *)
(* be allocated in order to prevent overriding the bootloader": a reserved *)
(* page is in no region.                                                   *)
ReservedStaysOut == pc = "idle" => FreePages \cap reserved = {}

(* memblock.c:83 "A single memblock can be merged with both of its         *)
(* neighbours": after an addition no region ends where the next begins.    *)
NeighboursMerged ==
  pc = "idle" => \A k \in 0 .. cnt - 2 : End(regions[k]) # regions[k + 1].base

(* Whatever the e820 map holds, overlapping, adjoining or unsorted, the    *)
(* regions cover just the memory added: fusing loses no page.              *)
MapCovered == phase = "detect" /\ pc = "idle" => FreePages = avail

(* The array of regions describes the memory of the e820 map: sorted,      *)
(* apart, page aligned, and without a hole (memblock_add).                 *)
RegionsSound == TypeOK /\ SortedApart /\ MapCovered

(* No page is lost, returned twice or given out while reserved, however    *)
(* reservations and allocations cut the regions (memblock_del_region).     *)
PagesAccounted == MemoryAccounted /\ AllocFresh

(* memblock_del_region comes to an end, and memory it takes is lost to the *)
(* caller only at the end of a region.                                     *)
RemovalsEnd == LostAtRegionEnd /\ CallsReturn
==============================================================================
