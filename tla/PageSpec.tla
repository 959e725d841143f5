------------------------------ MODULE PageSpec ------------------------------
(***************************************************************************)
(* What a page allocator promises: it owns the pages it was given, a       *)
(* request takes an aligned run of 2^o of them, which then belongs to the  *)
(* caller alone, and a release gives back exactly that run.  A Break ends  *)
(* the promise.                                                            *)
(***************************************************************************)
EXTENDS Integers

CONSTANTS
  SpecPFN,      (* the page frame numbers                                   *)
  SpecOrders,   (* the orders a request may have                            *)
  SpecSize      (* SpecSize[o]: the pages of a block of order o             *)

VARIABLES
  free,         (* the pages the allocator owns                             *)
  owned,        (* the blocks <<page, order>> callers own                   *)
  broken        (* the promise has ended                                    *)

svars == <<free, owned, broken>>

Run(p, o) == p .. p + SpecSize[o] - 1

OwnedPages == UNION {Run(b[1], b[2]) : b \in owned}

SpecInit == free = {} /\ owned = {} /\ broken = FALSE

Donate ==
  /\ \E p \in SpecPFN : \E n \in SpecPFN :
       /\ p .. n # {} /\ p .. n \subseteq SpecPFN \ (free \cup OwnedPages)
       /\ free' = free \cup (p .. n)
  /\ UNCHANGED <<owned, broken>>

Take(p, o) ==
  /\ p % SpecSize[o] = 0
  /\ Run(p, o) \subseteq free
  /\ free' = free \ Run(p, o)
  /\ owned' = owned \cup {<<p, o>>}
  /\ UNCHANGED broken

Release(b) ==
  /\ owned' = owned \ {b}
  /\ free' = free \cup Run(b[1], b[2])
  /\ UNCHANGED broken

Break == broken' = TRUE

SpecNext ==
  /\ ~ broken
  /\ \/ Donate
     \/ \E p \in SpecPFN, o \in SpecOrders : Take(p, o)
     \/ \E b \in owned : Release(b)
     \/ Break

SpecPages == SpecInit /\ [][SpecNext]_svars
==============================================================================
