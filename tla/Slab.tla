-------------------------------- MODULE Slab --------------------------------
(***************************************************************************)
(* The slab allocator of src/mm/slub.c: bmalloc_init, which takes the      *)
(* caches of bmalloc from a cache of caches, bmem_cache_create, which      *)
(* vfs_init calls for its nodes, and then bmalloc and bfree.               *)
(*                                                                         *)
(* A slab is the head page of its block and an object is <<slab, index>>.  *)
(* Lists of slabs and free lists are sets: which slab or object comes      *)
(* first is left open.  The page allocator is a pool of blocks, as it      *)
(* promises in PageSpec.  A call of bmalloc or bfree is one step: nothing  *)
(* interrupts one that enters the allocator itself.                        *)
(***************************************************************************)
EXTENDS Integers, Sequences, FiniteSets

CONSTANTS
  Slabs,        (* the blocks alloc_pages can return                        *)
  Info,         (* bmalloc_info: the sizes of the caches of bmalloc         *)
  PageShift,    (* PAGE_SHIFT                                               *)
  Bits,         (* the width of uint32_t                                    *)
  Pow2,         (* Pow2[k] is 1 << k                                        *)
  CacheSize,    (* sizeof(struct bmem_cache)                                *)
  NodeSize,     (* FS_NODE_SIZE                                             *)
  NameSize,     (* the length of FS_NODE_CACHE with its NUL                 *)
  Requests,     (* the sizes callers of bmalloc ask for                     *)
  MaxSlabs      (* bound on total_slabs of a cache, which only grows        *)

(* The caches by number: bmem_cache, those of bmalloc, and fs_node_cache.  *)
Boot      == 0
NodeCache == Len(Info) + 1
Caches    == Boot .. NodeCache
NoCache   == -1         \* page->slab_cache before the first use of a page

(* The sizes of bmalloc_info double, and KMALLOC_MIN_SIZE is the first.    *)
ASSUME SlabAssumption ==
  /\ IsFiniteSet(Slabs)
  /\ Bits \in Nat \ {0} /\ PageShift \in Nat
  /\ Pow2 \in [0 .. Bits + PageShift -> Nat] /\ Pow2[0] = 1
  /\ \A k \in 1 .. Bits + PageShift : Pow2[k] = 2 * Pow2[k - 1]
  /\ Info \in Seq(Nat)
  /\ Info # <<>> /\ \E k \in 0 .. Bits : Info[1] = Pow2[k]
  /\ \A i \in 1 .. Len(Info) : Info[i] < Pow2[Bits]
  /\ \A i \in 2 .. Len(Info) : Info[i] = 2 * Info[i - 1]
  /\ {CacheSize, NodeSize, NameSize} \subseteq 1 .. Pow2[Bits - 1]
  /\ Requests \subseteq 0 .. Pow2[Bits] - 1
  /\ MaxSlabs \in Nat

VARIABLES
  slabs_full,    (* the three lists of each cache                           *)
  slabs_partial,
  slabs_free,
  free_objs,     (* cachep->free_objs, free_slabs and total_slabs           *)
  free_slabs,
  total_slabs,
  slab_cache,    (* page->slab_cache                                        *)
  inuse,         (* page->inuse                                             *)
  freelist,      (* page->freelist                                          *)
  pool,          (* the blocks the page allocator still has                 *)
  live,          (* history: the objects that are handed out                *)
  pc,            (* boot, vfs, name, undo, run, or halt                     *)
  made,          (* the number of caches of bmalloc that exist              *)
  cachep,        (* the object of the cache bmem_cache_create sets up       *)
  kept,          (* history: caches and their names, which nobody frees     *)
  short          (* history: sizes that got a shorter object                *)

counts == <<free_objs, free_slabs, total_slabs>>
heap   == <<slabs_full, slabs_partial, slabs_free, counts, slab_cache, inuse,
            freelist, pool, live>>
vars   == <<heap, pc, made, cachep, kept, short>>

-----------------------------------------------------------------------------
(* fls, log2 and round_up_pow2.  A shift by the width of the word keeps    *)
(* its low bits on this processor.                                         *)
Fls(v)         == CHOOSE k \in 0 .. Bits : v < Pow2[k] /\ (k > 0 => v >= Pow2[k - 1])
Log2(v)        == Fls(v) - 1
RoundUpPow2(v) == Pow2[Fls((v - 1) % Pow2[Bits]) % Bits]
Greater(a, b)  == IF a > b THEN a ELSE b
Lesser(a, b)   == IF a < b THEN a ELSE b

(* cachep->size                                                            *)
Size(c) == CASE c = Boot      -> RoundUpPow2(CacheSize)
             [] c = NodeCache -> RoundUpPow2(NodeSize)
             [] OTHER         -> Info[c]

Nums(c) == Greater(Pow2[PageShift] \div Size(c), 1)

(* calculate_cache_order                                                   *)
CacheOrder(s) == Log2(s - 1) + 1 - Lesser(Log2(s - 1) + 1, PageShift)

(* bmalloc_index, as the number of a cache, or none.                       *)
BmallocIndex(s) ==
  LET size == RoundUpPow2(s)
  IN  CASE s = 0 -> {1}
        [] s # 0 /\ size <= Info[1] -> {1}
        [] s # 0 /\ size > Info[1] /\ size <= Info[Len(Info)] ->
             {Log2(size) - Log2(Info[1]) + 1}
        [] OTHER -> {}

Objects(c, p) == {p} \X (0 .. Nums(c) - 1)

(* bmalloc_create_boot_cache                                               *)
Init ==
  /\ slabs_full    = [c \in Caches |-> {}]
  /\ slabs_partial = [c \in Caches |-> {}]
  /\ slabs_free    = [c \in Caches |-> {}]
  /\ free_objs     = [c \in Caches |-> 0]
  /\ free_slabs    = [c \in Caches |-> 0]
  /\ total_slabs   = [c \in Caches |-> 0]
  /\ slab_cache    = [p \in Slabs |-> NoCache]
  /\ inuse         = [p \in Slabs |-> 0]
  /\ freelist      = [p \in Slabs |-> {}]
  /\ pool \in SUBSET Slabs /\ live = {}
  /\ pc = "boot" /\ made = 0 /\ cachep = {} /\ kept = {} /\ short = {}

-----------------------------------------------------------------------------
(* list_del unlinks the slab from whichever list of its cache it is on.    *)
MoveToFull(c, p) ==
  /\ slabs_full'    = [slabs_full EXCEPT ![c] = @ \cup {p}]
  /\ slabs_partial' = [slabs_partial EXCEPT ![c] = @ \ {p}]
  /\ slabs_free'    = [slabs_free EXCEPT ![c] = @ \ {p}]

MoveToPartial(c, p) ==
  /\ slabs_full'    = [slabs_full EXCEPT ![c] = @ \ {p}]
  /\ slabs_partial' = [slabs_partial EXCEPT ![c] = @ \cup {p}]
  /\ slabs_free'    = [slabs_free EXCEPT ![c] = @ \ {p}]

(* Mutant: a slab that goes back to the page allocator stays listed.       *)
NoUnlist(c, p) == UNCHANGED <<slabs_full, slabs_partial, slabs_free>>

Unlist(c, p) ==
  /\ slabs_full'    = [slabs_full EXCEPT ![c] = @ \ {p}]
  /\ slabs_partial' = [slabs_partial EXCEPT ![c] = @ \ {p}]
  /\ slabs_free'    = [slabs_free EXCEPT ![c] = @ \ {p}]

(* Mutant: a slab counts as full one object early.                         *)
FixupEarly(c, p) == IF inuse'[p] >= Nums(c) - 1 THEN MoveToFull(c, p)
                                                ELSE MoveToPartial(c, p)

(* bmem_cache_fixup, with inuse already raised.                            *)
Fixup(c, p) == IF inuse'[p] = Nums(c) THEN MoveToFull(c, p)
                                      ELSE MoveToPartial(c, p)

(* Mutant: the object stays on the free list.                              *)
TakeAndKeep(c, o, free, used) ==
  /\ o \in free
  /\ freelist' = [freelist EXCEPT ![o[1]] = free]
  /\ inuse' = [inuse EXCEPT ![o[1]] = used + 1]
  /\ Fixup(c, o[1])
  /\ live' = live \cup {o}

(* bmem_cache_fetch and the rest of bmem_cache_alloc_object, on a slab     *)
(* whose free objects are free and that was in use so many times.          *)
TakeObject(c, o, free, used) ==
  /\ o \in free
  /\ freelist' = [freelist EXCEPT ![o[1]] = free \ {o}]
  /\ inuse' = [inuse EXCEPT ![o[1]] = used + 1]
  /\ Fixup(c, o[1])
  /\ live' = live \cup {o}

(* bmem_cache_alloc when bmem_cache_page finds a slab: on the partial list *)
(* first, then on the free list.                                           *)
AllocFromSlab(c, o) ==
  /\ o[1] \in IF slabs_partial[c] # {} THEN slabs_partial[c] ELSE slabs_free[c]
  /\ TakeObject(c, o, freelist[o[1]], inuse[o[1]])
  /\ free_slabs' = [free_slabs EXCEPT ![c] =
                      IF slabs_partial[c] # {} THEN @ ELSE @ - 1]
  /\ free_objs' = [free_objs EXCEPT ![c] = @ - 1]
  /\ UNCHANGED <<total_slabs, slab_cache, pool>>

NoSlab(c) == slabs_partial[c] = {} /\ slabs_free[c] = {}

(* bmem_cache_grow, which puts the new slab on the free list, and then     *)
(* bmem_cache_alloc_object, which moves it on.                             *)
AllocGrow(c, o) ==
  /\ NoSlab(c)
  /\ total_slabs[c] < MaxSlabs
  /\ o[1] \in pool
  /\ pool' = pool \ {o[1]}
  /\ slab_cache' = [slab_cache EXCEPT ![o[1]] = c]
  /\ TakeObject(c, o, Objects(c, o[1]), 0)
  /\ total_slabs' = [total_slabs EXCEPT ![c] = @ + 1]
  /\ free_objs' = [free_objs EXCEPT ![c] = @ + Nums(c) - 1]
  /\ UNCHANGED free_slabs

(* What bmem_cache_alloc returns: an object, or NULL.                      *)
Returns(c, o) == AllocFromSlab(c, o) \/ AllocGrow(c, o)
AllocFail(c)  == NoSlab(c) /\ pool = {} /\ UNCHANGED heap

AllObjects == UNION {Objects(c, p) : c \in Caches, p \in Slabs}

-----------------------------------------------------------------------------
LastObject(n)  == n = 1

(* bfree of an object the caller holds; bmem_obj_page finds its slab.      *)
Free(o) ==
  LET p    == o[1]
      c    == slab_cache[p]
      last == LastObject(inuse[p])
  IN  /\ freelist' = [freelist EXCEPT ![p] = @ \cup {o}]
      /\ inuse' = [inuse EXCEPT ![p] = @ - 1]
      /\ live' = live \ {o}
      /\ IF last
         THEN /\ Unlist(c, p)
              /\ pool' = pool \cup {p}
              /\ free_objs' = [free_objs EXCEPT ![c] = @ + 1 - Nums(c)]
         ELSE /\ MoveToPartial(c, p)
              /\ pool' = pool
              /\ free_objs' = [free_objs EXCEPT ![c] = @ + 1]
      /\ UNCHANGED <<free_slabs, total_slabs, slab_cache>>

-----------------------------------------------------------------------------
Transition(from, to) == pc = from /\ pc' = to

(* bmalloc_create_all_caches: the boot ends if one cache is not made.      *)
CreateCache ==
  /\ pc = "boot"
  /\ \/ /\ made < Len(Info)
        /\ \E o \in AllObjects : Returns(Boot, o) /\ kept' = kept \cup {o}
        /\ made' = made + 1 /\ UNCHANGED <<pc, cachep, short>>
     \/ /\ made < Len(Info)
        /\ AllocFail(Boot)
        /\ pc' = "halt" /\ UNCHANGED <<made, cachep, kept, short>>
     \/ /\ made = Len(Info)
        /\ pc' = "vfs" /\ UNCHANGED <<heap, made, cachep, kept, short>>

(* bmem_cache_create: the cache, then its name; without memory for the     *)
(* name the cache is given back, and vfs_init ends the boot.               *)
CacheCreate ==
  \/ /\ \E o \in AllObjects : Returns(Boot, o) /\ cachep' = {o}
     /\ Transition("vfs", "name") /\ UNCHANGED <<made, kept, short>>
  \/ AllocFail(Boot) /\ Transition("vfs", "halt") /\ UNCHANGED <<made, cachep, kept, short>>

(* bstrdup                                                                 *)
CacheName ==
  \E c \in BmallocIndex(NameSize) :
    \/ /\ \E o \in AllObjects : Returns(c, o) /\ kept' = kept \cup cachep \cup {o}
       /\ Transition("name", "run") /\ UNCHANGED <<made, cachep, short>>
    \/ AllocFail(c) /\ Transition("name", "undo") /\ UNCHANGED <<made, cachep, kept, short>>

CacheUndo ==
  /\ Transition("undo", "halt")
  /\ \E o \in cachep : Free(o)
  /\ cachep' = {}
  /\ UNCHANGED <<made, kept, short>>

-----------------------------------------------------------------------------
(* bmalloc, and bmem_cache_alloc of the cache of nodes.                    *)
Bmalloc(s) ==
  /\ pc = "run"
  /\ \/ \E c \in BmallocIndex(s) :
          \/ /\ \E o \in AllObjects : Returns(c, o)
             /\ short' = IF Size(c) < s THEN short \cup {s} ELSE short
          \/ AllocFail(c) /\ UNCHANGED short
     \/ BmallocIndex(s) = {} /\ UNCHANGED <<heap, short>>
  /\ UNCHANGED <<pc, made, cachep, kept>>

NodeAlloc ==
  /\ pc = "run"
  /\ (\E o \in AllObjects : Returns(NodeCache, o)) \/ AllocFail(NodeCache)
  /\ UNCHANGED <<pc, made, cachep, kept, short>>

Bfree(o) ==
  /\ pc = "run"
  /\ Free(o)
  /\ UNCHANGED <<pc, made, cachep, kept, short>>

Next ==
  \/ CreateCache \/ CacheCreate \/ CacheName \/ CacheUndo
  \/ (\E s \in Requests : Bmalloc(s)) \/ NodeAlloc
  \/ \E o \in live \ kept : Bfree(o)

Spec == Init /\ [][Next]_vars

-----------------------------------------------------------------------------
(* Properties *)

(* The blocks the slab allocator has from the page allocator.              *)
Taken == {p \in Slabs \ pool : slab_cache[p] # NoCache}

(* Lists, counters and objects stay in their ranges, and no count of free  *)
(* objects or of objects in use (slub.c:217-222) drops below zero.         *)
TypeOK ==
  /\ slabs_full \in [Caches -> SUBSET Slabs]
  /\ slabs_partial \in [Caches -> SUBSET Slabs]
  /\ slabs_free \in [Caches -> SUBSET Slabs]
  /\ free_objs \in [Caches -> Nat]
  /\ free_slabs \in [Caches -> Nat]
  /\ total_slabs \in [Caches -> Nat]
  /\ slab_cache \in [Slabs -> Caches \cup {NoCache}]
  /\ inuse \in [Slabs -> Nat]
  /\ freelist \in [Slabs -> SUBSET (Slabs \X Nat)]
  /\ pool \in SUBSET Slabs
  /\ live \in SUBSET (Slabs \X Nat)
  /\ kept \subseteq live /\ cachep \subseteq live

Listed(c)  == slabs_full[c] \cup slabs_partial[c] \cup slabs_free[c]
LiveOn(p)  == {o \in live : o[1] = p}

(* Every block is either with the page allocator or on one list of the one *)
(* cache its page->slab_cache names, which is how bfree finds the cache.   *)
SlabHasOneHome ==
  /\ \A p \in Taken :
       /\ slab_cache[p] \in Caches
       /\ \A c \in Caches : p \in Listed(c) <=> c = slab_cache[p]
  /\ \A c \in Caches : /\ Listed(c) \cap pool = {}
                        /\ slabs_full[c] \cap slabs_partial[c] = {}

(* An object is on the free list of its slab or with one caller, never     *)
(* both and never neither: bmalloc hands out no object twice.              *)
ObjectHasOneOwner ==
  /\ \A p \in Taken :
       /\ freelist[p] \cap live = {}
       /\ freelist[p] \cup LiveOn(p) = Objects(slab_cache[p], p)
  /\ \A o \in live : o[1] \notin pool

(* page->inuse counts the objects handed out of a slab, cachep->free_objs  *)
(* those on the free lists of the cache, and the list a slab is on tells   *)
(* whether it is full (bmem_cache_fixup, __bfree).                         *)
CountersExact ==
  /\ \A p \in Taken : inuse[p] = Cardinality(LiveOn(p))
  /\ \A c \in Caches :
       /\ \A p \in slabs_full[c] : inuse[p] = Nums(c)
       /\ \A p \in slabs_partial[c] : inuse[p] < Nums(c)
       /\ free_objs[c] = Cardinality(UNION {freelist[p] : p \in Listed(c)})

(* A slab without objects in use goes back to the page allocator, so the   *)
(* list slabs_free is empty between calls and free_slabs stays zero.       *)
NoIdleSlab ==
  \A c \in Caches : /\ \A p \in Listed(c) : LiveOn(p) # {}
                    /\ slabs_free[c] = {} /\ free_slabs[c] = 0

(* A cache asks for another block, and bmalloc returns NULL for want of    *)
(* one, only when every object of its slabs is in use.                     *)
GrowsOnlyWhenFull ==
  \A c \in Caches : NoSlab(c) =>
     \A p \in Listed(c) : Cardinality(LiveOn(p)) = Nums(c)

(* slub.c:78 prints total_slabs as "tot. slabs": the slabs of the cache.   *)
TotalSlabsExact ==
  \A c \in Caches : total_slabs[c] = Cardinality(Listed(c))

(* The objects of a slab lie in the block the cache asks the page          *)
(* allocator for, and a size is served by the smallest objects that hold   *)
(* it, unless it is so large that rounding it up leaves the word           *)
(* (slub.c:88-119): then bmalloc returns the shortest object there is.     *)
ObjectsFit ==
  /\ \A p \in Taken :
       LET c == slab_cache[p]
       IN  Nums(c) * Size(c) <= Pow2[PageShift + CacheOrder(Size(c))]
  /\ \A s \in short : s > Pow2[Bits - 1]
  /\ \A s \in Requests \ {0} : \A c \in BmallocIndex(s) :
       c > 1 => Info[c - 1] < s

(* Each slab is on the one list its objects in use call for, in the cache  *)
(* bfree finds it by, the counters agree, and objects lie in their block   *)
(* and hold what was asked for (slub.c:88-224).                            *)
SlabsSound == TypeOK /\ SlabHasOneHome /\ CountersExact /\ ObjectsFit

(* No memory is held back: bmalloc takes a new slab only when all objects  *)
(* of the cache are in use, and bfree returns a slab with its last object. *)
NoneSpare == NoIdleSlab /\ GrowsOnlyWhenFull
==============================================================================
