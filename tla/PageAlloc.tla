------------------------------ MODULE PageAlloc ------------------------------
(***************************************************************************)
(* The buddy page allocator of src/mm/page_alloc.c, from the call of       *)
(* page_map_free_bootmem, which hands it the memory memblock has left, to  *)
(* the alloc_pages and free_page calls of the slab allocator.              *)
(*                                                                         *)
(* A page is its page frame number, struct page is spread over the         *)
(* functions free_flag, order and compound_head, and a list of free pages  *)
(* is the set of the pages on it: which free block of an order             *)
(* list_first_entry_or_null returns is left open.  Each iteration of the   *)
(* loops that split and merge blocks is a step of its own.                 *)
(***************************************************************************)
EXTENDS Integers, Sequences, FiniteSets

CONSTANTS
  NPages,       (* page_num: MEMORY_LIMIT / PAGE_SIZE                       *)
  MaxOrder,     (* PAGE_MAX_ORDER: the number of free areas                 *)
  Size,         (* Size[o] is 1 << o, the pages of a block of order o       *)
  Word,         (* 2^32: the counters nr_free are uint32_t                  *)
  Regions,      (* the bootmem regions [base, size] memblock left, in pages *)
  AllocOrders   (* the orders the callers of alloc_pages ask for            *)

PFN    == 0 .. NPages - 1
Orders == 0 .. MaxOrder - 1

(* Powers of two, and a page map that ends where a largest block ends.     *)
ASSUME SizeAssumption ==
  /\ MaxOrder \in Nat \ {0}
  /\ Size \in [Orders -> Nat \ {0}]
  /\ Size[0] = 1
  /\ \A o \in 0 .. MaxOrder - 2 : Size[o + 1] = 2 * Size[o]
  /\ NPages \in Nat \ {0}
  /\ \A o \in Orders : NPages % Size[o] = 0
  /\ Word \in Nat
  /\ Word > NPages

(* memblock keeps its regions sorted and disjoint.                         *)
ASSUME RegionsAssumption ==
  /\ Regions \in Seq([base : Nat, size : Nat])
  /\ \A i \in 1 .. Len(Regions) - 1 :
       Regions[i].base + Regions[i].size <= Regions[i + 1].base

(* slub.c asks for at most order 3, so a block always has a buddy.         *)
ASSUME OrdersAssumption == AllocOrders \subseteq 0 .. MaxOrder - 2

VARIABLES
  free_area,     (* free_area[o].list: the blocks on the list of order o    *)
  nr_free,       (* free_area[o].nr_free                                    *)
  free_flag,     (* the pages with PAGE_FLAG_FREE set                       *)
  order,         (* page->order                                             *)
  compound_head, (* page->compound_head                                     *)
  pc,            (* "boot", "idle", "split" (free_page_fix), "merge"        *)
  ridx,          (* the region page_map_free_bootmem looks at next          *)
  addr, rest,    (* the part of the last region still to be handed out      *)
  cur,           (* the page the loop works on                              *)
  porder,        (* porder of free_page_fix, order of merge_free_page       *)
  req,           (* the order get_free_pages was asked for                  *)
  held,          (* history: the blocks <<page, order>> callers own         *)
  wrecked        (* history: a merge consumed a page that was no free buddy *)

vars == <<free_area, nr_free, free_flag, order, compound_head, pc, ridx, addr,
          rest, cur, porder, req, held, wrecked>>

-----------------------------------------------------------------------------
(* struct page and the lists *)

Pages(p, o)  == p .. p + Size[o] - 1
AlignedAnywhere(p, o) == TRUE          \* mutant: page_is_aligned left out
Aligned(p, o) == p % Size[o] = 0                      \* page_is_aligned

(* paddr ^ (PAGE_SIZE << o): flip bit o of the page frame number.          *)
Buddy(p, o) == IF (p \div Size[o]) % 2 = 0 THEN p + Size[o] ELSE p - Size[o]

Inc(n) == IF n = Word - 1 THEN 0 ELSE n + 1
Dec(n) == IF n = 0 THEN Word - 1 ELSE n - 1

(* Mutant: one page too many.                                              *)
SetOneHeadMore(ch, p, o) ==
  [q \in PFN |-> IF q \in p .. p + Size[o] THEN p ELSE ch[q]]

SetCompoundHead(ch, p, o) ==
  [q \in PFN |-> IF q \in Pages(p, o) THEN p ELSE ch[q]]

(* free_page_add, free_page_append: a set does not tell them apart.        *)
FreePageAdd(p, o) ==
  /\ free_area' = [free_area EXCEPT ![o] = @ \cup {p}]
  /\ nr_free'   = [nr_free EXCEPT ![o] = Inc(@)]

(* Mutants: the page stays on the list; the count stays.                   *)
CountOnlyDel(p) ==
  /\ free_area' = free_area
  /\ nr_free'   = [nr_free EXCEPT ![order[p]] = Dec(@)]

ListOnlyDel(p) ==
  /\ free_area' = [o \in Orders |-> free_area[o] \ {p}]
  /\ nr_free'   = nr_free

(* list_del unlinks the page wherever it is, the count goes by its order.  *)
FreePageDel(p) ==
  /\ free_area' = [o \in Orders |-> free_area[o] \ {p}]
  /\ nr_free'   = [nr_free EXCEPT ![order[p]] = Dec(@)]

Transition(from, to) == pc = from /\ pc' = to

-----------------------------------------------------------------------------
(* page_map_init and page_map_free_bootmem.  The page map is not cleared,  *)
(* so the flags of pages nobody hands out are whatever the memory held.    *)

Init ==
  /\ free_area = [o \in Orders |-> {}]
  /\ nr_free = [o \in Orders |-> 0]
  /\ free_flag \in SUBSET PFN
  /\ order = [p \in PFN |-> 0]
  /\ compound_head = [p \in PFN |-> p]
  /\ pc = "boot"
  /\ ridx = 1 /\ addr = 0 /\ rest = 0
  /\ cur = 0 /\ porder = 0 /\ req = 0
  /\ held = {}
  /\ wrecked = FALSE

BeyondLimit(r) == r.base + r.size > NPages

NextRegion ==
  /\ pc = "boot" /\ rest = 0
  /\ ridx <= Len(Regions)
  /\ ~ BeyondLimit(Regions[ridx])
  /\ addr' = Regions[ridx].base
  /\ rest' = Regions[ridx].size
  /\ ridx' = ridx + 1
  /\ UNCHANGED <<free_area, nr_free, free_flag, order, compound_head, pc, cur,
                 porder, req, held, wrecked>>

BootDone ==
  /\ rest = 0
  /\ ridx <= Len(Regions) => BeyondLimit(Regions[ridx])
  /\ Transition("boot", "idle")
  /\ UNCHANGED <<free_area, nr_free, free_flag, order, compound_head, ridx,
                 addr, rest, cur, porder, req, held, wrecked>>

(* The orders of the chunks that can start at a, of which the largest is   *)
(* taken: at most log2 of the pages left, and page_is_aligned.             *)
Fits(a, r) == {o \in Orders : Size[o] <= r /\ Aligned(a, o)}

FreeChunk ==
  /\ pc = "boot" /\ rest > 0
  /\ \E o \in Fits(addr, rest) :
       /\ \A q \in Fits(addr, rest) : q <= o
       /\ free_flag' = free_flag \cup Pages(addr, o)
       /\ order' = [q \in PFN |-> IF q \in Pages(addr, o) THEN o ELSE order[q]]
       /\ compound_head' = SetCompoundHead(compound_head, addr, o)
       /\ FreePageAdd(addr, o)
       /\ addr' = addr + Size[o]
       /\ rest' = rest - Size[o]
  /\ UNCHANGED <<pc, ridx, cur, porder, req, held, wrecked>>

-----------------------------------------------------------------------------
(* get_free_pages *)

NoBlock(o) == \A q \in Orders : q >= o => free_area[q] = {}

AllocFail(o) ==
  /\ pc = "idle"
  /\ NoBlock(o)
  /\ UNCHANGED vars

(* The first order from o on with a block on its list gives the block.     *)
AllocTake(o) ==
  /\ Transition("idle", "split")
  /\ \E q \in Orders :
       /\ q >= o /\ \A r \in Orders : o <= r /\ r < q => free_area[r] = {}
       /\ \E p \in free_area[q] :
            /\ FreePageDel(p)
            /\ cur' = p
            /\ porder' = order[p]
  /\ req' = o
  /\ UNCHANGED <<free_flag, order, compound_head, ridx, addr, rest, held,
                 wrecked>>

(* An iteration of free_page_fix: the right half goes back to its list.    *)
SplitStep ==
  LET buddy == Buddy(cur, porder - 1)
  IN  /\ pc = "split" /\ porder > req
      /\ porder' = porder - 1
      /\ order' = [order EXCEPT ![buddy] = porder - 1]
      /\ free_flag' = free_flag \cup {buddy}
      /\ FreePageAdd(buddy, porder - 1)
      /\ UNCHANGED <<compound_head, pc, ridx, addr, rest, cur, req, held,
                     wrecked>>

KeepsFlag(p) == free_flag               \* mutant: the flag stays set
Unflagged(p) == free_flag \ {p}

(* The rest of get_free_pages, which also makes the buddy a compound head. *)
AllocDone ==
  /\ porder <= req
  /\ Transition("split", "idle")
  /\ free_flag' = Unflagged(cur)
  /\ order' = [order EXCEPT ![cur] = req]
  /\ compound_head' =
       SetCompoundHead(SetCompoundHead(compound_head, cur, req),
                       Buddy(cur, req), req)
  /\ held' = held \cup {<<cur, req>>}
  /\ UNCHANGED <<free_area, nr_free, ridx, addr, rest, cur, porder, req,
                 wrecked>>

-----------------------------------------------------------------------------
(* free_page *)

FreePages(b) ==
  LET p == b[1]
  IN  /\ Transition("idle", "merge")
      /\ FreePageAdd(p, order[p])
      /\ free_flag' = free_flag \cup {p}
      /\ cur' = p
      /\ porder' = order[p]
      /\ held' = held \ {b}
      /\ UNCHANGED <<order, compound_head, ridx, addr, rest, req, wrecked>>

(* Mutant: only a buddy to the right is merged.                            *)
MergeRightOnly ==
  /\ porder < MaxOrder - 1
  /\ Buddy(cur, order[cur]) \in free_flag
  /\ cur < Buddy(cur, order[cur])

MergeGoesOn ==
  /\ porder < MaxOrder - 1
  /\ Buddy(cur, order[cur]) \in free_flag              \* page_is_free

(* An iteration of merge_free_page.  The code takes the buddy whenever its *)
(* flag is set; wrecked notes that it was not a free block of that order.  *)
MergeStep ==
  LET buddy == Buddy(cur, order[cur])
      left  == IF cur < buddy THEN cur ELSE buddy
      up    == order[left] + 1
      both  == {cur, buddy}
  IN  /\ pc = "merge" /\ MergeGoesOn
      /\ order' = [q \in PFN |-> IF q \in both THEN order[q] + 1 ELSE order[q]]
      /\ compound_head' = SetCompoundHead(compound_head, left, up)
      /\ free_area' = [o \in Orders |->
           (free_area[o] \ both) \cup (IF o = up THEN {left} ELSE {})]
      /\ nr_free' = [[[nr_free EXCEPT ![order[cur]]   = Dec(@)]
                               EXCEPT ![order[buddy]] = Dec(@)]
                               EXCEPT ![up]           = Inc(@)]
      /\ cur' = left
      /\ porder' = porder + 1
      /\ wrecked' = (buddy \notin free_area[order[cur]])
      /\ UNCHANGED <<free_flag, pc, ridx, addr, rest, req, held>>

MergeDone ==
  /\ ~ MergeGoesOn
  /\ Transition("merge", "idle")
  /\ UNCHANGED <<free_area, nr_free, free_flag, order, compound_head, ridx,
                 addr, rest, cur, porder, req, held, wrecked>>

-----------------------------------------------------------------------------
(* A caller frees what it holds.  Nothing is said of an allocator that has *)
(* merged a page in use: the model stops there.                            *)

Boot == NextRegion \/ FreeChunk \/ BootDone
Work == Boot \/ SplitStep \/ AllocDone \/ MergeStep \/ MergeDone

Next ==
  /\ ~ wrecked
  /\ \/ Work
     \/ \E o \in AllocOrders : AllocTake(o) \/ AllocFail(o)
     \/ \E b \in held : FreePages(b)

Spec == Init /\ [][Next]_vars

(* No interrupt handler keeps the processor: a call in progress goes on.   *)
FairSpec == Spec /\ WF_vars(~ wrecked /\ Work)
==============================================================================
