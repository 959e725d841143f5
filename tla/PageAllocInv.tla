---------------------------- MODULE PageAllocInv ----------------------------
(***************************************************************************)
(* The inductive invariant behind NoOverlap: blocks are aligned runs in    *)
(* the page map, page->order of a free or allocated block is its order,    *)
(* blocks are apart, and page_map_free_bootmem works upwards.              *)
(***************************************************************************)
EXTENDS PageAllocProps

WellPlaced(p, o) == Aligned(p, o) /\ p + Size[o] <= NPages

Apart(p, o, q, r) == p + Size[o] <= q \/ q + Size[r] <= p

FreeOK ==
  /\ \A o \in Orders : \A p \in free_area[o] :
       order[p] = o /\ WellPlaced(p, o)
  /\ \A o, r \in Orders : \A p \in free_area[o], q \in free_area[r] :
       p # q => Apart(p, o, q, r)

HeldOK ==
  /\ \A b \in held : b[2] \in AllocOrders /\ order[b[1]] = b[2]
                     /\ WellPlaced(b[1], b[2])
  /\ \A b, c \in held : b # c => Apart(b[1], b[2], c[1], c[2])
  /\ \A b \in held : \A o \in Orders : \A p \in free_area[o] :
       Apart(b[1], b[2], p, o)

SplitOK ==
  pc = "split" =>
    /\ req \in AllocOrders /\ porder \in Orders /\ req <= porder
    /\ WellPlaced(cur, porder)
    /\ \A o \in Orders : \A p \in free_area[o] : Apart(cur, porder, p, o)
    /\ \A b \in held : Apart(cur, porder, b[1], b[2])

MergeOK ==
  pc = "merge" => porder \in Orders /\ cur \in free_area[porder]

BootOK ==
  pc = "boot" =>
    /\ held = {}
    /\ \A o \in Orders : \A p \in free_area[o] : p + Size[o] <= addr
    /\ rest > 0 => addr + rest <= NPages
    /\ ridx = 1 => addr = 0 /\ rest = 0
    /\ ridx > 1 => addr + rest = Regions[ridx - 1].base + Regions[ridx - 1].size

Clean ==
  /\ order \in [PFN -> Orders]
  /\ FreeOK /\ HeldOK /\ SplitOK /\ MergeOK /\ BootOK

(* The inductive invariant; nothing but types survives a wrong merge.      *)
IInv == TypeOK /\ (~ wrecked => Clean)

-----------------------------------------------------------------------------
(* What BlocksComplete and NullOnlyWhenNoRun need on top of it.            *)

RegionPages(i) == Regions[i].base .. Regions[i].base + Regions[i].size - 1
HandedOut(n)   == UNION {RegionPages(i) : i \in 1 .. n}

(* The blocks and the rest of a region are the regions handed out so far.  *)
AccountOK ==
  /\ PagesOf(Blocks) \cup (addr .. addr + rest - 1) = HandedOut(ridx - 1)
  /\ \A i \in 1 .. ridx - 1 : ~ BeyondLimit(Regions[i])
  /\ pc # "boot" => /\ rest = 0
                    /\ ridx <= Len(Regions) => BeyondLimit(Regions[ridx])

(* The flag of a block's first page tells whether the block is free.       *)
FlagsOK ==
  /\ \A b \in held : b[1] \notin free_flag
  /\ \A o \in Orders : \A p \in free_area[o] : p \in free_flag

Complete == ~ wrecked => AccountOK /\ FlagsOK

(* Two free buddies exist only while merge_free_page is about to join them.*)
BuddiesJoined ==
  \A o \in Orders : o + 1 \in Orders =>
    \A p \in free_area[o] : Buddy(p, o) \in free_area[o] =>
      pc = "merge" /\ cur \in {p, Buddy(p, o)}

(* page_map_free_bootmem takes the largest chunk: what it has left of the  *)
(* region is too short to be the buddy of the chunk before.                *)
Greedy ==
  pc = "boot" =>
    \A o \in Orders : o + 1 \in Orders =>
      \A p \in free_area[o] :
        p + Size[o] = addr /\ Aligned(p, o + 1) => rest < Size[o]

Joined == ~ wrecked => BuddiesJoined /\ Greedy

(* No two regions adjoin.  memblock keeps them apart unless it leaves two  *)
(* neighbours unmerged.                                                    *)
RegionsApart ==
  \A i \in 1 .. Len(Regions) - 1 :
    Regions[i].base + Regions[i].size < Regions[i + 1].base
==============================================================================
