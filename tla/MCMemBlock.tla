----------------------------- MODULE MCMemBlock -----------------------------
EXTENDS MemBlockProps, SequencesExt

(* Two bytes a page, memory from page 1 to page 8 below the limit.         *)
E(a, s) == [addr |-> a, size |-> s]

(* The same map in every order: three regions apart, of which the first    *)
(* starts below MEMBLOCK_START and the last ends beyond MEMBLOCK_LIMIT,    *)
(* one entry below and one above.                                          *)
ApartTables == SetToSeqs({E(0, 1), E(1, 5), E(9, 3), E(15, 5), E(20, 4)})

(* All maps of up to three entries that may touch, overlap or repeat.      *)
AnyTables == BoundedSeq({E(4, 2), E(4, 7), E(5, 4), E(8, 4)}, 3)

MCTables == ApartTables \cup AnyTables

(* Three entries that adjoin.                                              *)
AdjoiningTables == { <<E(2, 4), E(10, 4), E(6, 4)>>, <<E(2, 4), E(6, 4)>> }

(* Below the memory, at the edges of regions, within one, and over two.    *)
MCReserves == {E(0, 2), E(2, 1), E(4, 2), E(8, 2), E(9, 2), E(3, 9), E(18, 4)}
==============================================================================
