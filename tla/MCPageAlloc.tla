----------------------------- MODULE MCPageAlloc -----------------------------
EXTENDS PageAllocInv

(* Eight pages, of which page 0 and page 3 hold the tables of the loader   *)
(* and stay out of the allocator, and a region beyond the limit.           *)
MCSize == [o \in 0 .. 3 |-> 2 ^ o]

MCRegions == << [base |-> 1, size |-> 2], [base |-> 4, size |-> 4],
                [base |-> 16, size |-> 4] >>

(* One block of four pages, all of them free.                              *)
FourSize == [o \in 0 .. 2 |-> 2 ^ o]

FourRegions == << [base |-> 0, size |-> 4] >>
==============================================================================
