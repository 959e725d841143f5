--------------------------- MODULE PageAllocProps ---------------------------
(***************************************************************************)
(* What src/mm/page_alloc.c promises its callers.                          *)
(***************************************************************************)
EXTENDS PageAlloc

FreeBlocks == {b \in PFN \X Orders : b[1] \in free_area[b[2]]}
InHand     == IF pc = "split" THEN {<<cur, porder>>} ELSE {}
Blocks     == FreeBlocks \cup InHand \cup held

PagesOf(B) == UNION {Pages(b[1], b[2]) : b \in B}

Overlap(b, c) == Pages(b[1], b[2]) \cap Pages(c[1], c[2]) # {}

(* Every variable stays in its range: page frame numbers inside the page   *)
(* map, orders below PAGE_MAX_ORDER (page_alloc.c:14), 32 bit counters.    *)
TypeOK ==
  /\ free_area \in [Orders -> SUBSET PFN]
  /\ nr_free \in [Orders -> 0 .. Word - 1]
  /\ free_flag \subseteq PFN
  /\ order \in [PFN -> 0 .. MaxOrder]
  /\ compound_head \in [PFN -> PFN]
  /\ pc \in {"boot", "idle", "split", "merge"}
  /\ ridx \in 1 .. Len(Regions) + 1
  /\ addr \in Nat /\ rest \in Nat
  /\ cur \in PFN /\ porder \in 0 .. MaxOrder /\ req \in Orders
  /\ held \subseteq PFN \X Orders
  /\ wrecked \in BOOLEAN

(* Until a merge takes a page that is no free buddy, no page belongs to    *)
(* two blocks, free or handed out, across every split (free_page_fix) and  *)
(* every merge (merge_pages).                                              *)
NoOverlap ==
  ~ wrecked =>
    /\ \A b, c \in Blocks : b # c => ~ Overlap(b, c)
    /\ FreeBlocks \cap held = {}
    /\ InHand \cap (FreeBlocks \cup held) = {}

(* No split or merge loses a page: once page_map_free_bootmem has run,     *)
(* every page of the regions below the limit is in some block.             *)
Managed == UNION {Regions[i].base .. Regions[i].base + Regions[i].size - 1 :
                    i \in {j \in 1 .. Len(Regions) :
                             \A k \in 1 .. j : ~ BeyondLimit(Regions[k])}}

NoPageLost ==
  ~ wrecked /\ pc # "boot" =>
     Managed = PagesOf(Blocks)

(* nr_free, which page_dump prints, counts the list: no path that adds or  *)
(* removes a page updates the count of another order.                      *)
FreeCountExact ==
  ~ wrecked => \A o \in Orders : nr_free[o] = Cardinality(free_area[o])

(* When a merge looks at the buddy, its flag and its order together tell   *)
(* whether it is a free block that may be merged: the stale flags and      *)
(* orders that splits and merges leave behind never match both.            *)
OrderTellsBuddy ==
  ~ wrecked /\ pc = "merge" /\ MergeGoesOn =>
     LET buddy == Buddy(cur, order[cur])
     IN  buddy \in Managed /\ order[buddy] = order[cur] =>
           buddy \in free_area[order[cur]]

(* alloc_pages returns NULL only when no aligned run of free pages of the  *)
(* size asked for is left: merge_free_page leaves no pair of buddies apart.*)
NullOnlyWhenNoRun ==
  ~ wrecked /\ pc = "idle" =>
     \A o \in AllocOrders : NoBlock(o) =>
        ~ \E p \in PFN : /\ Aligned(p, o)
                         /\ Pages(p, o) \subseteq PagesOf(FreeBlocks)

(* The allocator implements the promise of PageSpec: a block in the middle *)
(* of a split is still free, it becomes the caller's when get_free_pages   *)
(* returns, and the promise ends with the first wrong merge.               *)
Promise == INSTANCE PageSpec WITH
  SpecPFN    <- PFN,
  SpecOrders <- Orders,
  SpecSize   <- Size,
  free       <- PagesOf(FreeBlocks \cup InHand),
  owned      <- held,
  broken     <- wrecked

KeepsPromise == Promise!SpecPages

(* Freeing a block, however far it merges, leaves the compound heads of    *)
(* the blocks of other callers alone (merge_pages, page_alloc.c:191).      *)
FreeKeepsHeads ==
  [][pc = "merge" /\ ~ wrecked' =>
       \A b \in held : \A q \in Pages(b[1], b[2]) :
          compound_head'[q] = compound_head[q]]_vars

(* Every call returns: the loops over orders and over regions end.         *)
CallsReturn == (pc # "idle") ~> (pc = "idle" \/ wrecked)

(* page_alloc.c:204 calls a buddy without the flag "currently in use"; the *)
(* allocator takes any other for free.  No block in use is ever merged.    *)
NoBlockInUseMerged ==
  \A b \in held : \A c \in FreeBlocks : ~ Overlap(b, c)

(* page_alloc.c:95: "By setting the order at the compound head page we can *)
(* determine on which order all pages of the same set were allocated": the *)
(* head of every page handed out is the first page of its block.           *)
HeadTellsOrder ==
  \A b \in held : \A q \in Pages(b[1], b[2]) :
     compound_head[q] = b[1] /\ order[compound_head[q]] = b[2]

(* The free lists and the blocks handed out describe all of the memory: no *)
(* page is lost (page_map_free_bootmem, free_page_fix), and what a merge   *)
(* reads of a buddy tells a free block from one that is not.               *)
BlocksComplete == TypeOK /\ NoPageLost /\ OrderTellsBuddy

(* free_page and alloc_pages come to an end, and a free leaves the heads   *)
(* of the blocks of other callers alone.                                   *)
FreesEnd == FreeKeepsHeads /\ CallsReturn
==============================================================================
