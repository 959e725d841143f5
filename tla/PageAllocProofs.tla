--------------------------- MODULE PageAllocProofs ---------------------------
(***************************************************************************)
(* No page belongs to two blocks, none is lost, and the allocator keeps    *)
(* the promise of PageSpec: for every size of the page map, every number   *)
(* of orders and every list of sorted bootmem regions.                     *)
(***************************************************************************)
EXTENDS PageAllocInv, FiniteSetTheorems, WellFoundedInduction, TLAPS

(* A set of numbers that is not empty has a least one.                     *)
LEMMA LeastNat ==
  ASSUME NEW S, S \subseteq Nat, S # {}
  PROVE  \E x \in S : \A y \in S : x <= y
<1>. DEFINE R == OpToRel(<, Nat)
<1>1. IsWellFoundedOn(R, Nat)
  BY NatLessThanWellFounded
<1>. HIDE DEF R
<1>2. PICK x \in S : \A y \in S : ~ (<<y, x>> \in R)
  BY <1>1, WFMin
<1>3. \A y \in S : (<<y, x>> \in R) <=> y < x
  BY DEF R, OpToRel
<1>4. \A y \in S : ~ (y < x)
  BY <1>2, <1>3, Zenon
<1>5. x \in Nat /\ \A y \in S : y \in Nat
  OBVIOUS
<1>. QED BY <1>4, <1>5, SMT

(* A multiple of s has no remainder.                                       *)
LEMMA Multiple ==
  ASSUME NEW k \in Nat, NEW s \in Nat \ {0}
  PROVE  (k * s) % s = 0 /\ (k * s) \div s = k /\ k * s \in Nat
<1>1. k * s \in Nat
  BY SMT
<1>2. (k * s) \div s = k
  BY SMT
<1>3. (k * s) % s = 0
  BY SMT
<1>. QED BY <1>1, <1>2, <1>3

LEMMA IsMultiple ==
  ASSUME NEW p \in Nat, NEW s \in Nat \ {0}, p % s = 0
  PROVE  \E k \in Nat : p = k * s
<1>. QED BY SMT

(* Multiples of a multiple, and their sum.                                 *)
LEMMA Products ==
  ASSUME NEW j \in Nat, NEW k \in Nat, NEW s \in Nat
  PROVE  /\ j * (k * s) = (j * k) * s /\ j * k \in Nat
         /\ j * s + k * s = (j + k) * s
<1>1. j * (k * s) = (j * k) * s
  BY SMT
<1>2. j * k \in Nat
  BY SMT
<1>3. j * s + k * s = (j + k) * s
  BY SMT
<1>. QED BY <1>1, <1>2, <1>3

(* Half a block further on is still aligned to the half.                   *)
LEMMA AlignedHalf ==
  ASSUME NEW p \in Nat, NEW s \in Nat \ {0}, p % (2 * s) = 0
  PROVE  p % s = 0 /\ (p \div s) % 2 = 0 /\ (p + s) % s = 0
<1>1. PICK k \in Nat : p = k * (2 * s)
  BY SMT
<1>2. p = (2 * k) * s
  BY <1>1, SMT
<1>3. p + s = (2 * k + 1) * s
  BY <1>2, SMT
<1>4. p \div s = 2 * k /\ p % s = 0 /\ (p + s) % s = 0
  BY <1>2, <1>3, 2 * k \in Nat, 2 * k + 1 \in Nat, Multiple
<1>5. (2 * k) % 2 = 0
  BY SMT
<1>. QED BY <1>4, <1>5

(* The left one of two buddies is aligned to the block they form.          *)
LEMMA AlignedLeft ==
  ASSUME NEW p \in Nat, NEW s \in Nat \ {0}, p % s = 0
  PROVE  /\ (p \div s) % 2 = 0 => p % (2 * s) = 0
         /\ (p \div s) % 2 # 0 => p >= s /\ (p - s) % (2 * s) = 0
<1>1. PICK k \in Nat : p = k * s
  BY SMT
<1>2. p \div s = k
  BY <1>1, Multiple
<1>3. ASSUME k % 2 = 0 PROVE p % (2 * s) = 0
  <2>1. PICK j \in Nat : k = 2 * j
    BY <1>3, SMT
  <2>2. p = j * (2 * s)
    BY <2>1, <1>1, SMT
  <2>. QED BY <2>2, j \in Nat, 2 * s \in Nat \ {0}, Multiple
<1>4. ASSUME k % 2 # 0 PROVE p >= s /\ (p - s) % (2 * s) = 0
  <2>1. PICK j \in Nat : k = 2 * j + 1
    BY <1>4, SMT
  <2>2. p - s = j * (2 * s)
    BY <2>1, <1>1, SMT
  <2>3. (p - s) % (2 * s) = 0
    BY <2>2, j \in Nat, 2 * s \in Nat \ {0}, Multiple
  <2>4. p = (2 * j) * s + s
    BY <2>1, <1>1, SMT
  <2>5. (2 * j) * s >= 0
    BY SMT
  <2>. QED BY <2>3, <2>4, <2>5, SMT
<1>. QED BY <1>2, <1>3, <1>4

(* A block that starts below a multiple of its size ends at or below it.   *)
LEMMA AlignedFits ==
  ASSUME NEW p \in Nat, NEW n \in Nat, NEW s \in Nat \ {0},
         p % s = 0, n % s = 0, p < n
  PROVE  p + s <= n
<1>1. PICK k \in Nat : p = k * s
  BY SMT
<1>2. PICK m \in Nat : n = m * s
  BY SMT
<1>3. k < m
  BY <1>1, <1>2, SMT
<1>4. (k + 1) * s <= m * s
  BY <1>3, SMT
<1>. QED BY <1>1, <1>2, <1>4, SMT

LEMMA SizeFacts ==
  /\ \A o \in Orders : Size[o] \in Nat \ {0} /\ NPages % Size[o] = 0
  /\ \A o \in Orders : o + 1 \in Orders => Size[o + 1] = 2 * Size[o]
  /\ \A o \in AllocOrders : o \in Orders /\ o + 1 \in Orders
  /\ MaxOrder \in Nat \ {0} /\ NPages \in Nat \ {0} /\ Word \in Nat \ {0}
  /\ 0 \in Orders /\ 0 \in PFN
<1>. QED
  BY SizeAssumption, OrdersAssumption, SMT DEF Orders, PFN

LEMMA RegionFacts ==
  /\ Len(Regions) \in Nat
  /\ \A i \in 1 .. Len(Regions) :
       Regions[i].base \in Nat /\ Regions[i].size \in Nat
  /\ \A i \in 1 .. Len(Regions) : i + 1 <= Len(Regions) =>
       Regions[i].base + Regions[i].size <= Regions[i + 1].base
<1>. DEFINE R == [base : Nat, size : Nat]
<1>1. Regions \in Seq(R)
  BY RegionsAssumption
<1>3. ASSUME NEW i \in 1 .. Len(Regions)
      PROVE  Regions[i].base \in Nat /\ Regions[i].size \in Nat
  <2>. HIDE DEF R
  <2>1. Regions[i] \in R
    BY <1>1
  <2>. QED BY <2>1 DEF R
<1>2. Len(Regions) \in Nat
  BY <1>1
<1>4. \A i \in 1 .. Len(Regions) : i + 1 <= Len(Regions) =>
        i \in 1 .. Len(Regions) - 1
  BY <1>2, SMT
<1>. QED BY <1>2, <1>3, <1>4, RegionsAssumption

(* The right half of a block is the buddy of its left half.                *)
LEMMA HalfFacts ==
  ASSUME NEW p \in PFN, NEW o \in Orders, o + 1 \in Orders,
         WellPlaced(p, o + 1)
  PROVE  /\ Buddy(p, o) = p + Size[o] /\ Buddy(p, o) \in PFN
         /\ WellPlaced(p, o) /\ WellPlaced(Buddy(p, o), o)
<1>. DEFINE s == Size[o]
<1>1. p \in Nat /\ s \in Nat \ {0} /\ Size[o + 1] = 2 * s /\ NPages \in Nat
  BY SizeFacts DEF PFN
<1>2. p % (2 * s) = 0 /\ p + 2 * s <= NPages
  BY <1>1 DEF WellPlaced, Aligned
<1>3. p % s = 0 /\ (p \div s) % 2 = 0 /\ (p + s) % s = 0
  BY <1>1, <1>2, AlignedHalf
<1>4. Buddy(p, o) = p + s
  BY <1>3 DEF Buddy
<1>. HIDE DEF s
<1>5. p + s \in PFN /\ p + s <= NPages /\ (p + s) + s <= NPages
  BY <1>1, <1>2, SMT DEF PFN
<1>. QED
  BY <1>3, <1>4, <1>5 DEF WellPlaced, Aligned, s

(* Two buddies are the halves of a block one order up.                     *)
LEMMA BuddyFacts ==
  ASSUME NEW p \in PFN, NEW o \in Orders, o + 1 \in Orders, WellPlaced(p, o)
  PROVE  /\ Buddy(p, o) \in PFN
         /\ \/ Buddy(p, o) = p + Size[o] /\ WellPlaced(p, o + 1)
            \/ Buddy(p, o) = p - Size[o] /\ WellPlaced(p - Size[o], o + 1)
<1>. DEFINE s == Size[o]
<1>1. /\ p \in Nat /\ s \in Nat \ {0} /\ Size[o + 1] = 2 * s /\ NPages \in Nat
      /\ NPages % (2 * s) = 0 /\ 2 * s \in Nat \ {0} /\ p < NPages
  BY SizeFacts, SMT DEF PFN
<1>2. p % s = 0 /\ p + s <= NPages
  BY DEF WellPlaced, Aligned
<1>3. CASE (p \div s) % 2 = 0
  <2>1. p % (2 * s) = 0
    BY <1>1, <1>2, <1>3, AlignedLeft
  <2>2. p + 2 * s <= NPages
    BY <1>1, <2>1, AlignedFits
  <2>3. Buddy(p, o) = p + s
    BY <1>3 DEF Buddy
  <2>4. p + s \in PFN
    BY <1>1, <2>2, SMT DEF PFN
  <2>. QED
    BY <1>1, <2>1, <2>2, <2>3, <2>4 DEF WellPlaced, Aligned
<1>4. CASE (p \div s) % 2 # 0
  <2>1. p >= s /\ (p - s) % (2 * s) = 0
    BY <1>1, <1>2, <1>4, AlignedLeft
  <2>2. (p - s) + 2 * s <= NPages /\ p - s \in PFN
    BY <1>1, <1>2, <2>1, SMT DEF PFN
  <2>3. Buddy(p, o) = p - s
    BY <1>4 DEF Buddy
  <2>. QED
    BY <1>1, <2>1, <2>2, <2>3 DEF WellPlaced, Aligned
<1>. QED BY <1>3, <1>4

LEMMA InitInv == Init => IInv
<1>. SUFFICES ASSUME Init PROVE IInv
  OBVIOUS
<1>1. TypeOK
  <2>1. 0 \in 0 .. Word - 1 /\ 0 \in 0 .. MaxOrder /\ 1 \in 1 .. Len(Regions) + 1
    BY SizeFacts, RegionFacts, SMT
  <2>. QED BY <2>1, SizeFacts DEF Init, TypeOK
<1>2. order \in [PFN -> Orders]
  BY SizeFacts DEF Init
<1>3. FreeOK /\ HeldOK /\ SplitOK /\ MergeOK
  BY DEF Init, FreeOK, HeldOK, SplitOK, MergeOK
<1>4. BootOK
  BY SMT DEF Init, BootOK
<1>. QED BY <1>1, <1>2, <1>3, <1>4 DEF IInv, Clean

LEMMA NextRegionInv ==
  ASSUME IInv, ~ wrecked, NextRegion
  PROVE  IInv'
<1>. USE DEF NextRegion
<1>. DEFINE r == Regions[ridx]
<1>1. /\ ridx \in 1 .. Len(Regions) /\ r.base \in Nat /\ r.size \in Nat
      /\ ridx + 1 \in 1 .. Len(Regions) + 1 /\ Len(Regions) \in Nat
  <2>1. ridx \in 1 .. Len(Regions) + 1 /\ ridx <= Len(Regions)
    BY DEF IInv, TypeOK
  <2>2. ridx \in 1 .. Len(Regions) /\ ridx + 1 \in 1 .. Len(Regions) + 1
    BY <2>1, RegionFacts, SMT
  <2>. QED BY <2>2, RegionFacts
<1>2. TypeOK'
  BY <1>1 DEF IInv, TypeOK
<1>3. FreeOK' /\ HeldOK' /\ SplitOK' /\ MergeOK' /\ order' \in [PFN -> Orders]
  BY DEF IInv, Clean, FreeOK, HeldOK, SplitOK, MergeOK
<1>b. BootOK /\ pc = "boot" /\ rest = 0 /\ addr \in Nat
  BY DEF IInv, Clean, TypeOK
<1>4. addr <= r.base
  <2>1. CASE ridx = 1
    BY <2>1, <1>1, <1>b, SMT DEF BootOK
  <2>2. CASE ridx # 1
    <3>1. /\ ridx - 1 \in 1 .. Len(Regions) /\ (ridx - 1) + 1 = ridx
          /\ ridx > 1 /\ ridx <= Len(Regions)
      BY <2>2, <1>1, SMT
    <3>2. Regions[ridx - 1].base + Regions[ridx - 1].size <= r.base
      BY <3>1, RegionFacts
    <3>3. addr + 0 = Regions[ridx - 1].base + Regions[ridx - 1].size
      BY <3>1, <1>b DEF BootOK
    <3>. QED
      BY <3>2, <3>3, <1>b, SMT
  <2>. QED BY <2>1, <2>2
<1>5. BootOK'
  <2>1. addr' + rest' <= NPages
    BY <1>1, SizeFacts, SMT DEF BeyondLimit
  <2>2. ASSUME NEW o \in Orders, NEW p \in free_area[o]
        PROVE  p + Size[o] <= addr'
    <3>1. p + Size[o] <= addr
      BY <1>b DEF BootOK
    <3>2. p \in Nat /\ Size[o] \in Nat
      <4>1. free_area \in [Orders -> SUBSET PFN]
        BY DEF IInv, TypeOK
      <4>2. p \in PFN
        BY <4>1
      <4>. QED BY <4>2, SizeFacts, SMT DEF PFN
    <3>. QED BY <3>1, <3>2, <1>1, <1>4, <1>b, SMT
  <2>3. ridx' > 1 /\ ridx' - 1 = ridx /\ ridx' # 1
    BY <1>1, SMT
  <2>. QED
    BY <2>1, <2>2, <2>3, <1>b DEF BootOK
<1>. QED BY <1>2, <1>3, <1>5 DEF IInv, Clean

LEMMA BootDoneInv ==
  ASSUME IInv, ~ wrecked, BootDone
  PROVE  IInv'
<1>. USE DEF BootDone, Transition
<1>1. TypeOK'
  BY DEF IInv, TypeOK
<1>2. Clean'
  BY DEF IInv, Clean, FreeOK, HeldOK, SplitOK, MergeOK, BootOK
<1>. QED BY <1>1, <1>2 DEF IInv

-----------------------------------------------------------------------------
(* What the list operations do *)

LEMMA ApartFacts ==
  ASSUME NEW p \in PFN, NEW q \in PFN, NEW o \in Orders, NEW r \in Orders,
         Apart(p, o, q, r)
  PROVE  Apart(q, r, p, o) /\ p # q
<1>1. p \in Nat /\ q \in Nat /\ Size[o] \in Nat \ {0} /\ Size[r] \in Nat \ {0}
  BY SizeFacts, SMT DEF PFN
<1>. QED BY <1>1, SMT DEF Apart

LEMMA FreeTypes ==
  ASSUME TypeOK
  PROVE  /\ \A o \in Orders : \A p \in free_area[o] : p \in PFN
         /\ \A b \in held : b[1] \in PFN /\ b[2] \in Orders /\ b = <<b[1], b[2]>>
<1>1. free_area \in [Orders -> SUBSET PFN] /\ held \subseteq PFN \X Orders
  BY DEF TypeOK
<1>. QED BY <1>1

LEMMA CountTypes ==
  ASSUME NEW n \in 0 .. Word - 1
  PROVE  Inc(n) \in 0 .. Word - 1 /\ Dec(n) \in 0 .. Word - 1
<1>. QED BY SizeFacts, SMT DEF Inc, Dec

LEMMA AddFacts ==
  ASSUME TypeOK, NEW p \in PFN, NEW o \in Orders, FreePageAdd(p, o)
  PROVE  /\ free_area' \in [Orders -> SUBSET PFN]
         /\ nr_free' \in [Orders -> 0 .. Word - 1]
         /\ \A r \in Orders : free_area'[r] =
              IF r = o THEN free_area[r] \cup {p} ELSE free_area[r]
<1>1. free_area \in [Orders -> SUBSET PFN] /\ nr_free \in [Orders -> 0 .. Word - 1]
  BY DEF TypeOK
<1>2. Inc(nr_free[o]) \in 0 .. Word - 1
  BY <1>1, CountTypes
<1>. QED BY <1>1, <1>2 DEF FreePageAdd

LEMMA DelFacts ==
  ASSUME TypeOK, NEW p \in PFN, FreePageDel(p)
  PROVE  /\ free_area' \in [Orders -> SUBSET PFN]
         /\ nr_free' \in [Orders -> 0 .. Word - 1]
         /\ \A r \in Orders : free_area'[r] = free_area[r] \ {p}
<1>1. free_area \in [Orders -> SUBSET PFN] /\ nr_free \in [Orders -> 0 .. Word - 1]
  BY DEF TypeOK
<1>2. \A r \in Orders : Dec(nr_free[r]) \in 0 .. Word - 1
  BY <1>1, CountTypes
<1>. QED BY <1>1, <1>2 DEF FreePageDel

LEMMA HeadTypes ==
  ASSUME NEW ch \in [PFN -> PFN], NEW p \in PFN, NEW o
  PROVE  SetCompoundHead(ch, p, o) \in [PFN -> PFN]
<1>. QED BY DEF SetCompoundHead

(* Adding a block that is apart from those on the lists keeps them in order *)
LEMMA FreeAddOK ==
  ASSUME TypeOK, FreeOK, NEW p \in PFN, NEW o \in Orders, FreePageAdd(p, o),
         order'[p] = o, WellPlaced(p, o),
         \A r \in Orders : \A q \in free_area[r] :
            Apart(p, o, q, r) /\ order'[q] = order[q]
  PROVE  FreeOK'
<1>1. \A r \in Orders : free_area'[r] =
              IF r = o THEN free_area[r] \cup {p} ELSE free_area[r]
  BY AddFacts
<1>2. ASSUME NEW r \in Orders, NEW q \in free_area'[r]
      PROVE  order'[q] = r /\ WellPlaced(q, r)
  <2>1. CASE q \in free_area[r]
    BY <2>1 DEF FreeOK
  <2>2. CASE q = p /\ r = o
    BY <2>2
  <2>. QED BY <1>1, <2>1, <2>2
<1>3. ASSUME NEW r \in Orders, NEW s \in Orders,
             NEW x \in free_area'[r], NEW y \in free_area'[s], x # y
      PROVE  Apart(x, r, y, s)
  <2>1. CASE x \in free_area[r] /\ y \in free_area[s]
    BY <2>1, <1>3 DEF FreeOK
  <2>2. CASE x = p /\ r = o /\ y \in free_area[s]
    BY <2>2
  <2>3. CASE y = p /\ s = o /\ x \in free_area[r]
    BY <2>3, ApartFacts, FreeTypes
  <2>4. x \in free_area[r] \/ (x = p /\ r = o)
    BY <1>1
  <2>5. y \in free_area[s] \/ (y = p /\ s = o)
    BY <1>1
  <2>. QED BY <1>3, <2>1, <2>2, <2>3, <2>4, <2>5
<1>4. \A r \in Orders : \A q \in free_area'[r] :
        order'[q] = r /\ WellPlaced(q, r)
  BY <1>2
<1>5. \A r, s \in Orders : \A x \in free_area'[r], y \in free_area'[s] :
        x # y => Apart(x, r, y, s)
  BY <1>3
<1>. QED BY <1>4, <1>5 DEF FreeOK, WellPlaced, Aligned, Apart

-----------------------------------------------------------------------------
(* Each action keeps the inductive invariant *)

LEMMA FreeChunkInv ==
  ASSUME IInv, ~ wrecked, FreeChunk
  PROVE  IInv'
<1>1. PICK o \in Fits(addr, rest) :
        /\ free_flag' = free_flag \cup Pages(addr, o)
        /\ order' = [q \in PFN |-> IF q \in Pages(addr, o) THEN o ELSE order[q]]
        /\ compound_head' = SetCompoundHead(compound_head, addr, o)
        /\ FreePageAdd(addr, o)
        /\ addr' = addr + Size[o]
        /\ rest' = rest - Size[o]
  BY DEF FreeChunk
<1>2. /\ UNCHANGED <<pc, ridx, cur, porder, req, held, wrecked>>
      /\ pc = "boot" /\ rest > 0
  BY DEF FreeChunk
<1>3. TypeOK /\ FreeOK /\ BootOK /\ order \in [PFN -> Orders]
  BY DEF IInv, Clean
<1>4. /\ o \in Orders /\ Size[o] <= rest /\ Aligned(addr, o)
      /\ Size[o] \in Nat \ {0} /\ NPages \in Nat
  BY SizeFacts DEF Fits
<1>5. addr \in Nat /\ rest \in Nat /\ addr + rest <= NPages
  BY <1>2, <1>3 DEF TypeOK, BootOK
<1>6. addr \in PFN /\ WellPlaced(addr, o) /\ Pages(addr, o) \subseteq PFN
      /\ addr \in Pages(addr, o)
  <2>1. addr \in PFN /\ addr + Size[o] <= NPages /\ addr \in Pages(addr, o)
    BY <1>4, <1>5, SMT DEF PFN, Pages
  <2>2. Pages(addr, o) \subseteq PFN
    BY <1>4, <1>5, <2>1, SMT DEF PFN, Pages
  <2>. QED BY <1>4, <2>1, <2>2 DEF WellPlaced
<1>7. order' \in [PFN -> Orders] /\ order'[addr] = o
  BY <1>1, <1>3, <1>4, <1>6
<1>8. TypeOK'
  <2>1. /\ free_area' \in [Orders -> SUBSET PFN]
        /\ nr_free' \in [Orders -> 0 .. Word - 1]
    BY <1>1, <1>3, <1>4, <1>6, AddFacts
  <2>2. compound_head' \in [PFN -> PFN] /\ free_flag' \subseteq PFN
    BY <1>1, <1>3, <1>6, HeadTypes DEF TypeOK
  <2>3. order' \in [PFN -> 0 .. MaxOrder]
    BY <1>7, SizeFacts, SMT DEF Orders
  <2>4. addr' \in Nat /\ rest' \in Nat
    BY <1>1, <1>4, <1>5, SMT
  <2>. QED BY <2>1, <2>2, <2>3, <2>4, <1>2, <1>3 DEF TypeOK
<1>9. ASSUME NEW r \in Orders, NEW q \in free_area[r]
      PROVE  /\ Apart(addr, o, q, r) /\ order'[q] = order[q]
             /\ q + Size[r] <= addr /\ q \in Nat /\ Size[r] \in Nat
  <2>1. q + Size[r] <= addr
    BY <1>2, <1>3 DEF BootOK
  <2>2. q \in PFN /\ q \in Nat /\ Size[r] \in Nat \ {0}
    BY <1>3, FreeTypes, SizeFacts, SMT DEF PFN
  <2>3. q \notin Pages(addr, o)
    BY <2>1, <2>2, <1>5, SMT DEF Pages
  <2>. QED BY <1>1, <2>1, <2>2, <2>3 DEF Apart
<1>10. FreeOK'
  BY <1>1, <1>3, <1>4, <1>6, <1>7, <1>9, FreeAddOK
<1>11. BootOK'
  <2>1. ASSUME NEW r \in Orders, NEW q \in free_area'[r]
        PROVE  q + Size[r] <= addr'
    <3>1. CASE q \in free_area[r]
      BY <3>1, <1>1, <1>4, <1>5, <1>9, SMT
    <3>2. CASE q = addr /\ r = o
      BY <3>2, <1>1, <1>4, <1>5, SMT
    <3>. QED BY <3>1, <3>2, <1>1, <1>3, <1>4, <1>6, AddFacts
  <2>2. addr' + rest' = addr + rest /\ ridx # 1
    BY <1>1, <1>2, <1>3, <1>4, <1>5, SMT DEF BootOK
  <2>. QED BY <2>1, <2>2, <1>2, <1>3, <1>5 DEF BootOK
<1>12. HeldOK' /\ SplitOK' /\ MergeOK'
  BY <1>2, <1>3 DEF BootOK, HeldOK, SplitOK, MergeOK
<1>. QED BY <1>7, <1>8, <1>10, <1>11, <1>12 DEF IInv, Clean

LEMMA AllocTakeInv ==
  ASSUME IInv, ~ wrecked, NEW o \in AllocOrders, AllocTake(o)
  PROVE  IInv'
<1>0. PICK q \in Orders :
        q >= o /\ \E p \in free_area[q] :
                    FreePageDel(p) /\ cur' = p /\ porder' = order[p]
  BY DEF AllocTake
<1>1. PICK p \in free_area[q] :
        FreePageDel(p) /\ cur' = p /\ porder' = order[p]
  BY <1>0
<1>2. /\ UNCHANGED <<free_flag, order, compound_head, ridx, addr, rest, held,
                     wrecked>>
      /\ pc = "idle" /\ pc' = "split" /\ req' = o
  BY DEF AllocTake, Transition
<1>3. TypeOK /\ FreeOK /\ HeldOK /\ order \in [PFN -> Orders]
  BY DEF IInv, Clean
<1>4. p \in PFN /\ order[p] = q /\ WellPlaced(p, q) /\ o \in Orders
  BY <1>3, FreeTypes, SizeFacts DEF FreeOK
<1>5. \A r \in Orders : free_area'[r] = free_area[r] \ {p}
  BY <1>1, <1>3, <1>4, DelFacts
<1>6. TypeOK'
  <2>1. porder' \in 0 .. MaxOrder
    BY <1>1, <1>4, SizeFacts, SMT DEF Orders
  <2>2. /\ free_area' \in [Orders -> SUBSET PFN]
        /\ nr_free' \in [Orders -> 0 .. Word - 1]
    BY <1>1, <1>3, <1>4, DelFacts
  <2>. QED BY <2>1, <2>2, <1>1, <1>2, <1>3, <1>4 DEF TypeOK
<1>7. FreeOK'
  BY <1>2, <1>3, <1>5 DEF FreeOK, WellPlaced, Aligned, Apart
<1>8. HeldOK'
  BY <1>2, <1>3, <1>5 DEF HeldOK, WellPlaced, Aligned, Apart
<1>9. SplitOK'
  <2>1. \A r \in Orders : \A x \in free_area'[r] : Apart(p, q, x, r)
    BY <1>3, <1>5 DEF FreeOK
  <2>2. \A b \in held : Apart(p, q, b[1], b[2])
    BY <1>3, <1>4, FreeTypes, ApartFacts DEF HeldOK
  <2>3. req' <= porder'
    BY <1>0, <1>1, <1>2, <1>4, SMT DEF Orders
  <2>. QED
    BY <2>1, <2>2, <2>3, <1>1, <1>2, <1>4 DEF SplitOK, WellPlaced, Aligned, Apart
<1>10. MergeOK' /\ BootOK'
  BY <1>2 DEF MergeOK, BootOK
<1>. QED BY <1>2, <1>3, <1>6, <1>7, <1>8, <1>9, <1>10 DEF IInv, Clean

LEMMA SplitStepInv ==
  ASSUME IInv, ~ wrecked, SplitStep
  PROVE  IInv'
<1>. DEFINE h == porder - 1
            buddy == Buddy(cur, h)
<1>1. /\ pc = "split" /\ porder > req
      /\ UNCHANGED <<compound_head, pc, ridx, addr, rest, cur, req, held, wrecked>>
      /\ porder' = h /\ order' = [order EXCEPT ![buddy] = h]
      /\ free_flag' = free_flag \cup {buddy} /\ FreePageAdd(buddy, h)
  BY DEF SplitStep
<1>2. TypeOK /\ FreeOK /\ HeldOK /\ SplitOK /\ order \in [PFN -> Orders]
  BY DEF IInv, Clean
<1>3. /\ req \in AllocOrders /\ req \in Orders /\ porder \in Orders
      /\ cur \in PFN /\ WellPlaced(cur, porder)
  BY <1>1, <1>2, SizeFacts DEF SplitOK, TypeOK
<1>4. h \in Orders /\ h + 1 = porder /\ h + 1 \in Orders /\ req <= h
  <2>1. porder > req
    BY <1>1
  <2>. QED BY <2>1, <1>3, SizeFacts, SMT DEF Orders
<1>5. /\ buddy = cur + Size[h] /\ buddy \in PFN
      /\ WellPlaced(cur, h) /\ WellPlaced(buddy, h)
  BY <1>3, <1>4, HalfFacts
<1>6. Size[porder] = 2 * Size[h] /\ Size[h] \in Nat \ {0} /\ cur \in Nat
  <2>1. Size[h + 1] = 2 * Size[h] /\ Size[h] \in Nat \ {0}
    BY <1>4, SizeFacts
  <2>2. cur \in Nat
    BY <1>3, SizeFacts, SMT DEF PFN
  <2>. QED BY <2>1, <2>2, <1>4
<1>. HIDE DEF buddy, h
(* What is apart from the block is apart from both halves. *)
<1>7. ASSUME NEW q \in PFN, NEW r \in Orders, Apart(cur, porder, q, r)
      PROVE  /\ Apart(cur, h, q, r) /\ Apart(buddy, h, q, r) /\ q # buddy
             /\ Apart(q, r, buddy, h) /\ order'[q] = order[q]
  <2>1. q \in Nat /\ Size[r] \in Nat \ {0}
    BY SizeFacts, SMT DEF PFN
  <2>2. Apart(cur, h, q, r) /\ Apart(buddy, h, q, r) /\ q # buddy
    BY <1>5, <1>6, <1>7, <2>1, SMT DEF Apart
  <2>3. order'[q] = order[q]
    BY <1>1, <1>2, <2>2
  <2>. QED BY <2>2, <2>3, <1>4, <1>5, ApartFacts
<1>8. order' \in [PFN -> Orders] /\ order'[buddy] = h
  BY <1>1, <1>2, <1>4, <1>5
<1>9. \A r \in Orders : free_area'[r] =
        IF r = h THEN free_area[r] \cup {buddy} ELSE free_area[r]
  BY <1>1, <1>2, <1>4, <1>5, AddFacts
<1>10. TypeOK'
  <2>1. porder' \in 0 .. MaxOrder /\ order' \in [PFN -> 0 .. MaxOrder]
    BY <1>1, <1>4, <1>8, SizeFacts, SMT DEF Orders
  <2>2. /\ free_area' \in [Orders -> SUBSET PFN]
        /\ nr_free' \in [Orders -> 0 .. Word - 1]
    BY <1>1, <1>2, <1>4, <1>5, AddFacts
  <2>. QED BY <2>1, <2>2, <1>1, <1>2, <1>5 DEF TypeOK
<1>11. \A r \in Orders : \A q \in free_area[r] :
         Apart(cur, porder, q, r) /\ q \in PFN
  BY <1>1, <1>2, FreeTypes DEF SplitOK
<1>12. FreeOK'
  BY <1>1, <1>2, <1>4, <1>5, <1>7, <1>8, <1>11, FreeAddOK
<1>13. \A b \in held : /\ Apart(cur, porder, b[1], b[2])
                       /\ b[1] \in PFN /\ b[2] \in Orders
  BY <1>1, <1>2, FreeTypes DEF SplitOK
<1>14. HeldOK'
  <2>1. \A b \in held : b[2] \in AllocOrders /\ order'[b[1]] = b[2]
                        /\ WellPlaced(b[1], b[2])
    BY <1>2, <1>7, <1>13 DEF HeldOK
  <2>2. \A b, c \in held : b # c => Apart(b[1], b[2], c[1], c[2])
    BY <1>2 DEF HeldOK
  <2>3. ASSUME NEW b \in held, NEW o \in Orders, NEW p \in free_area'[o]
        PROVE  Apart(b[1], b[2], p, o)
    <3>1. CASE p \in free_area[o]
      BY <3>1, <1>2 DEF HeldOK
    <3>2. CASE p = buddy /\ o = h
      BY <3>2, <1>7, <1>13
    <3>. QED BY <3>1, <3>2, <1>9
  <2>. QED
    BY <2>1, <2>2, <2>3, <1>1 DEF HeldOK, WellPlaced, Aligned, Apart
<1>15. SplitOK'
  <2>1. ASSUME NEW o \in Orders, NEW p \in free_area'[o]
        PROVE  Apart(cur, h, p, o)
    <3>1. CASE p \in free_area[o]
      BY <3>1, <1>7, <1>11
    <3>2. CASE p = buddy /\ o = h
      BY <3>2, <1>5, <1>6, SMT DEF Apart
    <3>. QED BY <3>1, <3>2, <1>9
  <2>2. \A b \in held : Apart(cur, h, b[1], b[2])
    BY <1>7, <1>13
  <2>. QED
    BY <2>1, <2>2, <1>1, <1>3, <1>4, <1>5 DEF SplitOK, WellPlaced, Aligned, Apart
<1>16. MergeOK' /\ BootOK'
  BY <1>1 DEF MergeOK, BootOK
<1>. QED BY <1>1, <1>8, <1>10, <1>12, <1>14, <1>15, <1>16 DEF IInv, Clean

LEMMA AllocDoneInv ==
  ASSUME IInv, ~ wrecked, AllocDone
  PROVE  IInv'
<1>1. /\ porder <= req /\ pc = "split" /\ pc' = "idle"
      /\ free_flag' = free_flag \ {cur}
      /\ order' = [order EXCEPT ![cur] = req]
      /\ compound_head' =
           SetCompoundHead(SetCompoundHead(compound_head, cur, req),
                           Buddy(cur, req), req)
      /\ held' = held \cup {<<cur, req>>}
      /\ UNCHANGED <<free_area, nr_free, ridx, addr, rest, cur, porder, req,
                     wrecked>>
  BY DEF AllocDone, Transition, Unflagged
<1>2. TypeOK /\ FreeOK /\ HeldOK /\ SplitOK /\ order \in [PFN -> Orders]
  BY DEF IInv, Clean
<1>3. /\ req \in AllocOrders /\ req \in Orders /\ req + 1 \in Orders
      /\ cur \in PFN /\ WellPlaced(cur, req) /\ porder = req
  <2>1. /\ req \in AllocOrders /\ porder \in Orders /\ req <= porder
        /\ WellPlaced(cur, porder)
    BY <1>1, <1>2 DEF SplitOK
  <2>2. req \in Orders /\ req + 1 \in Orders /\ cur \in PFN
    BY <2>1, <1>2, SizeFacts DEF TypeOK
  <2>3. porder = req
    BY <1>1, <2>1, <2>2, SMT DEF Orders
  <2>. QED BY <2>1, <2>2, <2>3
<1>4. Buddy(cur, req) \in PFN
  BY <1>3, BuddyFacts
<1>5. order' \in [PFN -> Orders] /\ order'[cur] = req
  BY <1>1, <1>2, <1>3
<1>6. TypeOK'
  <2>1. order' \in [PFN -> 0 .. MaxOrder]
    BY <1>5, SizeFacts, SMT DEF Orders
  <2>2. compound_head' \in [PFN -> PFN]
    BY <1>1, <1>2, <1>3, <1>4, HeadTypes DEF TypeOK
  <2>3. held' \subseteq PFN \X Orders
    BY <1>1, <1>2, <1>3 DEF TypeOK
  <2>. QED BY <2>1, <2>2, <2>3, <1>1, <1>2 DEF TypeOK
<1>7. ASSUME NEW q \in PFN, NEW r \in Orders, Apart(cur, req, q, r)
      PROVE  order'[q] = order[q] /\ Apart(q, r, cur, req)
  BY <1>1, <1>2, <1>3, <1>7, ApartFacts
<1>8. \A r \in Orders : \A q \in free_area[r] :
        Apart(cur, req, q, r) /\ q \in PFN
  BY <1>1, <1>2, <1>3, FreeTypes DEF SplitOK
<1>9. \A b \in held : Apart(cur, req, b[1], b[2])
                      /\ b[1] \in PFN /\ b[2] \in Orders
  BY <1>1, <1>2, <1>3, FreeTypes DEF SplitOK
<1>10. FreeOK'
  <2>1. \A o \in Orders : \A p \in free_area[o] :
          order'[p] = o /\ WellPlaced(p, o)
    BY <1>2, <1>7, <1>8 DEF FreeOK
  <2>. QED BY <2>1, <1>1, <1>2 DEF FreeOK, WellPlaced, Aligned, Apart
<1>11. HeldOK'
  <2>1. ASSUME NEW b \in held'
        PROVE  /\ b[2] \in AllocOrders /\ order'[b[1]] = b[2]
               /\ WellPlaced(b[1], b[2])
    <3>1. CASE b \in held
      BY <3>1, <1>2, <1>7, <1>9 DEF HeldOK
    <3>2. CASE b = <<cur, req>>
      BY <3>2, <1>3, <1>5
    <3>. QED BY <3>1, <3>2, <1>1
  <2>2. ASSUME NEW b \in held', NEW c \in held', b # c
        PROVE  Apart(b[1], b[2], c[1], c[2])
    <3>1. CASE b \in held /\ c \in held
      BY <3>1, <2>2, <1>2 DEF HeldOK
    <3>2. CASE b = <<cur, req>> /\ c \in held
      BY <3>2, <1>9
    <3>3. CASE c = <<cur, req>> /\ b \in held
      BY <3>3, <1>7, <1>9
    <3>. QED BY <3>1, <3>2, <3>3, <2>2, <1>1
  <2>3. ASSUME NEW b \in held', NEW o \in Orders, NEW p \in free_area[o]
        PROVE  Apart(b[1], b[2], p, o)
    <3>1. CASE b \in held
      BY <3>1, <1>2 DEF HeldOK
    <3>2. CASE b = <<cur, req>>
      BY <3>2, <1>8
    <3>. QED BY <3>1, <3>2, <1>1
  <2>. QED
    BY <2>1, <2>2, <2>3, <1>1 DEF HeldOK, WellPlaced, Aligned, Apart
<1>12. SplitOK' /\ MergeOK' /\ BootOK'
  BY <1>1 DEF SplitOK, MergeOK, BootOK
<1>. QED BY <1>5, <1>6, <1>10, <1>11, <1>12 DEF IInv, Clean

LEMMA FreePagesInv ==
  ASSUME IInv, ~ wrecked, NEW b \in held, FreePages(b)
  PROVE  IInv'
<1>. DEFINE p == b[1]
            o == b[2]
<1>1. TypeOK /\ FreeOK /\ HeldOK /\ order \in [PFN -> Orders]
  BY DEF IInv, Clean
<1>2. /\ p \in PFN /\ o \in Orders /\ b = <<p, o>> /\ order[p] = o
      /\ WellPlaced(p, o)
  BY <1>1, FreeTypes DEF HeldOK
<1>3. /\ pc = "idle" /\ pc' = "merge" /\ FreePageAdd(p, o)
      /\ free_flag' = free_flag \cup {p} /\ cur' = p /\ porder' = o
      /\ held' = held \ {b}
      /\ UNCHANGED <<order, compound_head, ridx, addr, rest, req, wrecked>>
  BY <1>2 DEF FreePages, Transition
<1>. HIDE DEF p, o
<1>4. \A r \in Orders : free_area'[r] =
        IF r = o THEN free_area[r] \cup {p} ELSE free_area[r]
  BY <1>1, <1>2, <1>3, AddFacts
<1>5. \A r \in Orders : \A q \in free_area[r] : Apart(p, o, q, r)
  BY <1>1 DEF HeldOK, p, o
<1>6. FreeOK'
  BY <1>1, <1>2, <1>3, <1>5, FreeAddOK
<1>7. TypeOK'
  <2>1. /\ free_area' \in [Orders -> SUBSET PFN]
        /\ nr_free' \in [Orders -> 0 .. Word - 1]
    BY <1>1, <1>2, <1>3, AddFacts
  <2>2. porder' \in 0 .. MaxOrder
    BY <1>2, <1>3, SizeFacts, SMT DEF Orders
  <2>. QED BY <2>1, <2>2, <1>1, <1>2, <1>3 DEF TypeOK
<1>8. HeldOK'
  <2>1. ASSUME NEW c \in held', NEW r \in Orders, NEW q \in free_area'[r]
        PROVE  Apart(c[1], c[2], q, r)
    <3>1. c \in held /\ c # b
      BY <1>3
    <3>2. CASE q \in free_area[r]
      BY <3>1, <3>2, <1>1 DEF HeldOK
    <3>3. CASE q = p /\ r = o
      BY <3>1, <3>3, <1>1 DEF HeldOK, p, o
    <3>. QED BY <3>2, <3>3, <1>4
  <2>2. \A c \in held' : c[2] \in AllocOrders /\ order'[c[1]] = c[2]
                         /\ WellPlaced(c[1], c[2])
    BY <1>1, <1>3 DEF HeldOK
  <2>3. \A c, d \in held' : c # d => Apart(c[1], c[2], d[1], d[2])
    BY <1>1, <1>3 DEF HeldOK
  <2>. QED BY <2>1, <2>2, <2>3 DEF HeldOK, WellPlaced, Aligned, Apart
<1>9. MergeOK'
  BY <1>2, <1>3, <1>4 DEF MergeOK
<1>10. SplitOK' /\ BootOK'
  BY <1>3 DEF SplitOK, BootOK
<1>. QED BY <1>1, <1>3, <1>6, <1>7, <1>8, <1>9, <1>10 DEF IInv, Clean

LEMMA MergeDoneInv ==
  ASSUME IInv, ~ wrecked, MergeDone
  PROVE  IInv'
<1>. USE DEF MergeDone, Transition
<1>1. TypeOK'
  BY DEF IInv, TypeOK
<1>2. Clean'
  BY DEF IInv, Clean, FreeOK, HeldOK, SplitOK, MergeOK, BootOK
<1>. QED BY <1>1, <1>2 DEF IInv

(* A merge: types survive even a wrong one, the rest only a right one.     *)
LEMMA MergeStepInv ==
  ASSUME IInv, ~ wrecked, MergeStep
  PROVE  IInv'
<1>. DEFINE o     == porder
            buddy == Buddy(cur, o)
            left  == IF cur < buddy THEN cur ELSE buddy
            up    == order[left] + 1
            both  == {cur, buddy}
<1>1. /\ TypeOK /\ FreeOK /\ HeldOK /\ MergeOK /\ order \in [PFN -> Orders]
      /\ pc = "merge"
  BY DEF IInv, Clean, MergeStep
<1>2. /\ o \in Orders /\ cur \in PFN /\ cur \in free_area[o] /\ order[cur] = o
      /\ WellPlaced(cur, o)
  BY <1>1, FreeTypes DEF MergeOK, FreeOK
<1>3. /\ buddy \in free_flag
      /\ order' = [q \in PFN |-> IF q \in both THEN order[q] + 1 ELSE order[q]]
      /\ compound_head' = SetCompoundHead(compound_head, left, up)
      /\ free_area' = [r \in Orders |->
           (free_area[r] \ both) \cup (IF r = up THEN {left} ELSE {})]
      /\ nr_free' = [[[nr_free EXCEPT ![o]            = Dec(@)]
                               EXCEPT ![order[buddy]] = Dec(@)]
                               EXCEPT ![up]           = Inc(@)]
      /\ cur' = left /\ porder' = o + 1
      /\ wrecked' = (buddy \notin free_area[o])
      /\ UNCHANGED <<free_flag, pc, ridx, addr, rest, req, held>>
  BY <1>2, Zenon DEF MergeStep, MergeGoesOn
<1>4. o + 1 \in Orders
  <2>1. porder < MaxOrder - 1
    BY DEF MergeStep, MergeGoesOn
  <2>. QED BY <2>1, <1>2, SizeFacts, SMT DEF Orders
<1>5. buddy \in PFN /\ left \in PFN
  BY <1>1, <1>2, <1>3 DEF TypeOK
<1>. HIDE DEF o, buddy
<1>6. TypeOK'
  <2>1. \A q \in PFN : order[q] + 1 \in 0 .. MaxOrder /\ order[q] \in 0 .. MaxOrder
    BY <1>1, SizeFacts, SMT DEF Orders
  <2>2. order' \in [PFN -> 0 .. MaxOrder] /\ porder' \in 0 .. MaxOrder
    BY <2>1, <1>2, <1>3
  <2>3. free_area' \in [Orders -> SUBSET PFN]
    BY <1>1, <1>3, <1>5 DEF TypeOK
  <2>4. nr_free' \in [Orders -> 0 .. Word - 1]
    <3>. DEFINE n1 == [nr_free EXCEPT ![o] = Dec(@)]
                n2 == [n1 EXCEPT ![order[buddy]] = Dec(@)]
    <3>1. n1 \in [Orders -> 0 .. Word - 1]
      BY <1>1, <1>2, CountTypes DEF TypeOK
    <3>. HIDE DEF n1
    <3>2. n2 \in [Orders -> 0 .. Word - 1]
      BY <3>1, CountTypes
    <3>. HIDE DEF n2
    <3>3. [n2 EXCEPT ![up] = Inc(@)] \in [Orders -> 0 .. Word - 1]
      BY <3>2, CountTypes
    <3>. QED BY <3>3, <1>3 DEF n1, n2
  <2>5. compound_head' \in [PFN -> PFN]
    BY <1>1, <1>3, <1>5, HeadTypes DEF TypeOK
  <2>6. wrecked' \in BOOLEAN
    BY <1>3
  <2>. QED BY <2>2, <2>3, <2>4, <2>5, <2>6, <1>1, <1>3, <1>5 DEF TypeOK
<1>7. ASSUME buddy \in free_area[o] PROVE Clean'
  <2>1. order[buddy] = o /\ order[left] = o /\ up = o + 1
    BY <1>1, <1>2, <1>7 DEF FreeOK
  <2>2. /\ \/ buddy = cur + Size[o] /\ left = cur
           \/ buddy = cur - Size[o] /\ left = buddy
        /\ WellPlaced(left, o + 1)
    <3>1. \/ buddy = cur + Size[o] /\ WellPlaced(cur, o + 1)
          \/ buddy = cur - Size[o] /\ WellPlaced(cur - Size[o], o + 1)
      BY <1>2, <1>4, BuddyFacts DEF buddy
    <3>2. cur \in Nat /\ Size[o] \in Nat \ {0}
      BY <1>2, SizeFacts, SMT DEF PFN
    <3>3. CASE buddy = cur + Size[o] /\ WellPlaced(cur, o + 1)
      <4>1. cur < buddy
        BY <3>2, <3>3, SMT
      <4>. QED BY <4>1, <3>3
    <3>4. CASE buddy = cur - Size[o] /\ WellPlaced(cur - Size[o], o + 1)
      <4>1. ~ (cur < buddy)
        BY <3>2, <3>4, SMT
      <4>. QED BY <4>1, <3>4
    <3>. QED BY <3>1, <3>3, <3>4
  <2>. HIDE DEF left, up
  <2>3. order' \in [PFN -> Orders] /\ order'[left] = o + 1
    BY <1>1, <1>2, <1>3, <1>4, <1>5, <2>1, <2>2
  <2>4. ASSUME NEW q \in PFN, NEW r \in Orders,
               Apart(q, r, cur, o), Apart(q, r, buddy, o)
        PROVE  /\ Apart(q, r, left, o + 1) /\ Apart(left, o + 1, q, r)
               /\ order'[q] = order[q]
    <3>1. /\ q \in Nat /\ cur \in Nat /\ buddy \in Nat
          /\ Size[o] \in Nat \ {0} /\ Size[r] \in Nat \ {0}
          /\ Size[o + 1] = 2 * Size[o]
      BY <1>2, <1>4, <1>5, SizeFacts, SMT DEF PFN
    <3>2. Apart(q, r, left, o + 1) /\ q # cur /\ q # buddy
      BY <2>2, <2>4, <3>1, SMT DEF Apart
    <3>. QED BY <3>2, <1>3, <1>4, <1>5, ApartFacts
  <2>5. ASSUME NEW r \in Orders, NEW q \in free_area[r], q \notin both
        PROVE  Apart(q, r, cur, o) /\ Apart(q, r, buddy, o) /\ q \in PFN
    BY <2>5, <1>1, <1>2, <1>7, FreeTypes DEF FreeOK
  <2>6. ASSUME NEW r \in Orders, NEW q \in free_area'[r]
        PROVE  \/ q \in free_area[r] /\ q \notin both
               \/ q = left /\ r = o + 1
    BY <1>3, <2>1
  <2>7. FreeOK'
    <3>1. ASSUME NEW r \in Orders, NEW q \in free_area'[r]
          PROVE  order'[q] = r /\ WellPlaced(q, r)
      <4>1. CASE q \in free_area[r] /\ q \notin both
        BY <4>1, <1>1, <2>4, <2>5 DEF FreeOK
      <4>2. CASE q = left /\ r = o + 1
        BY <4>2, <2>2, <2>3
      <4>. QED BY <4>1, <4>2, <2>6
    <3>2. ASSUME NEW r \in Orders, NEW s \in Orders,
                 NEW x \in free_area'[r], NEW y \in free_area'[s], x # y
          PROVE  Apart(x, r, y, s)
      <4>1. CASE x = left /\ r = o + 1
        <5>1. y \in free_area[s] /\ y \notin both
          BY <4>1, <3>2, <2>6
        <5>. QED BY <4>1, <5>1, <2>4, <2>5
      <4>2. CASE y = left /\ s = o + 1
        <5>1. x \in free_area[r] /\ x \notin both
          BY <4>2, <3>2, <2>6
        <5>. QED BY <4>2, <5>1, <2>4, <2>5
      <4>3. CASE x \in free_area[r] /\ y \in free_area[s]
        BY <4>3, <3>2, <1>1 DEF FreeOK
      <4>. QED BY <4>1, <4>2, <4>3, <2>6
    <3>3. \A r, s \in Orders : \A x \in free_area'[r], y \in free_area'[s] :
            x # y => Apart(x, r, y, s)
      BY <3>2
    <3>. QED BY <3>1, <3>3 DEF FreeOK, WellPlaced, Aligned, Apart
  <2>8. HeldOK'
    <3>1. ASSUME NEW b \in held
          PROVE  /\ b[2] \in AllocOrders /\ order[b[1]] = b[2]
                 /\ WellPlaced(b[1], b[2]) /\ b[1] \in PFN /\ b[2] \in Orders
                 /\ Apart(b[1], b[2], cur, o) /\ Apart(b[1], b[2], buddy, o)
      BY <1>1, <1>2, <1>7, FreeTypes DEF HeldOK
    <3>2. ASSUME NEW b \in held, NEW r \in Orders, NEW q \in free_area'[r]
          PROVE  Apart(b[1], b[2], q, r)
      <4>1. CASE q \in free_area[r]
        BY <4>1, <1>1 DEF HeldOK
      <4>2. CASE q = left /\ r = o + 1
        BY <4>2, <3>1, <2>4
      <4>. QED BY <4>1, <4>2, <2>6
    <3>3. \A b, c \in held : b # c => Apart(b[1], b[2], c[1], c[2])
      BY <1>1 DEF HeldOK
    <3>4. \A b \in held : order'[b[1]] = b[2]
      BY <3>1, <2>4
    <3>. QED
      BY <3>1, <3>2, <3>3, <3>4, <1>3 DEF HeldOK, WellPlaced, Aligned, Apart
  <2>9. MergeOK'
    <3>1. left \in free_area'[o + 1]
      BY <1>3, <1>4, <2>1
    <3>. QED BY <3>1, <1>3, <1>4 DEF MergeOK
  <2>10. SplitOK' /\ BootOK'
    BY <1>1, <1>3 DEF SplitOK, BootOK
  <2>. QED BY <2>3, <2>7, <2>8, <2>9, <2>10 DEF Clean
<1>. QED BY <1>3, <1>6, <1>7 DEF IInv

-----------------------------------------------------------------------------
(* The theorems *)

(* The strengthened invariant holds in every reachable state.              *)
THEOREM Inductive == Spec => []IInv
<1>1. ASSUME IInv, [Next]_vars PROVE IInv'
  <2>1. CASE UNCHANGED vars
    BY <1>1, <2>1 DEF vars, IInv, TypeOK, Clean, FreeOK, HeldOK, SplitOK,
       MergeOK, BootOK, WellPlaced, Aligned, Apart
  <2>2. CASE Next
    <3>1. ~ wrecked
      BY <2>2 DEF Next
    <3>2. CASE Work
      BY <1>1, <3>1, <3>2, NextRegionInv, FreeChunkInv, BootDoneInv,
         SplitStepInv, AllocDoneInv, MergeStepInv, MergeDoneInv DEF Work, Boot
    <3>3. ASSUME NEW o \in AllocOrders, AllocTake(o) PROVE IInv'
      BY <1>1, <3>1, <3>3, AllocTakeInv
    <3>4. ASSUME NEW o \in AllocOrders, AllocFail(o) PROVE IInv'
      BY <2>1, <3>4 DEF AllocFail
    <3>5. ASSUME NEW b \in held, FreePages(b) PROVE IInv'
      BY <1>1, <3>1, <3>5, FreePagesInv
    <3>. QED BY <2>2, <3>2, <3>3, <3>4, <3>5 DEF Next
  <2>. QED BY <1>1, <2>1, <2>2
<1>. QED BY <1>1, InitInv, PTL DEF Spec

(* Page frame numbers, orders and counters stay in range (page_alloc.c:14, *)
(* 17): no list of an order beyond PAGE_MAX_ORDER, no page outside the map.*)
THEOREM TypeCorrect == Spec => []TypeOK
<1>1. IInv => TypeOK
  BY DEF IInv
<1>. QED BY <1>1, Inductive, PTL

(* Until a merge takes a page that is no free buddy, splits and merges     *)
(* never put a page into two blocks (free_page_fix, merge_pages).          *)
THEOREM BlocksApart == Spec => []NoOverlap
<1>1. ASSUME IInv PROVE NoOverlap
  <2>. SUFFICES ASSUME ~ wrecked
                PROVE  /\ \A b, c \in Blocks : b # c => ~ Overlap(b, c)
                       /\ FreeBlocks \cap held = {}
                       /\ InHand \cap (FreeBlocks \cup held) = {}
    BY DEF NoOverlap
  <2>1. TypeOK /\ FreeOK /\ HeldOK /\ SplitOK
    BY <1>1 DEF IInv, Clean
  <2>2. ASSUME NEW b \in Blocks
        PROVE  b[1] \in PFN /\ b[2] \in Orders /\ b = <<b[1], b[2]>>
    <3>1. CASE b \in FreeBlocks
      BY <3>1 DEF FreeBlocks
    <3>2. CASE b \in held
      BY <3>2, <2>1, FreeTypes
    <3>3. CASE b \in InHand
      BY <3>3, <2>1 DEF InHand, TypeOK, SplitOK
    <3>. QED BY <3>1, <3>2, <3>3 DEF Blocks
  <2>3. ASSUME NEW p \in PFN, NEW q \in PFN, NEW o \in Orders, NEW r \in Orders,
               Apart(p, o, q, r)
        PROVE  ~ Overlap(<<p, o>>, <<q, r>>) /\ <<p, o>> # <<q, r>>
    <3>1. /\ p \in Nat /\ q \in Nat
          /\ Size[o] \in Nat \ {0} /\ Size[r] \in Nat \ {0}
      BY SizeFacts, SMT DEF PFN
    <3>2. ~ \E x : x \in Pages(p, o) /\ x \in Pages(q, r)
      BY <2>3, <3>1, SMT DEF Apart, Pages
    <3>3. p # q
      BY <2>3, ApartFacts
    <3>. QED BY <3>2, <3>3 DEF Overlap
  <2>4. ASSUME NEW b \in FreeBlocks, NEW c \in FreeBlocks, b # c
        PROVE  Apart(b[1], b[2], c[1], c[2])
    <3>1. /\ b[1] \in free_area[b[2]] /\ c[1] \in free_area[c[2]]
          /\ b = <<b[1], b[2]>> /\ c = <<c[1], c[2]>>
          /\ b[2] \in Orders /\ c[2] \in Orders
      BY DEF FreeBlocks
    <3>2. b[1] # c[1]
      BY <3>1, <2>1, <2>4 DEF FreeOK
    <3>. QED BY <3>1, <3>2, <2>1 DEF FreeOK
  <2>5. ASSUME NEW b \in held, NEW c \in FreeBlocks
        PROVE  Apart(b[1], b[2], c[1], c[2])
    BY <2>1 DEF HeldOK, FreeBlocks
  <2>6. ASSUME NEW b \in InHand, NEW c \in FreeBlocks \cup held
        PROVE  Apart(b[1], b[2], c[1], c[2])
    <3>1. pc = "split" /\ b = <<cur, porder>>
      BY DEF InHand
    <3>. QED BY <3>1, <2>1 DEF SplitOK, FreeBlocks
  <2>7. ASSUME NEW b \in Blocks, NEW c \in Blocks, b # c
        PROVE  Apart(b[1], b[2], c[1], c[2])
    <3>1. ASSUME NEW x \in Blocks, NEW y \in Blocks,
                 Apart(x[1], x[2], y[1], y[2])
          PROVE  Apart(y[1], y[2], x[1], x[2])
      BY <3>1, <2>2, ApartFacts
    <3>2. CASE b \in InHand /\ c \in InHand
      BY <3>2, <2>7 DEF InHand
    <3>3. CASE b \in InHand /\ c \notin InHand
      BY <3>3, <2>6 DEF Blocks
    <3>4. CASE b \notin InHand /\ c \in InHand
      BY <3>4, <2>6, <3>1 DEF Blocks
    <3>5. CASE b \in held /\ c \in held
      BY <3>5, <2>1, <2>7 DEF HeldOK
    <3>6. CASE b \in FreeBlocks /\ c \in FreeBlocks
      BY <3>6, <2>4, <2>7
    <3>7. CASE b \in held /\ c \in FreeBlocks
      BY <3>7, <2>5
    <3>8. CASE b \in FreeBlocks /\ c \in held
      BY <3>8, <2>5, <3>1
    <3>. QED BY <3>2, <3>3, <3>4, <3>5, <3>6, <3>7, <3>8 DEF Blocks
  <2>8. \A b, c \in Blocks : b # c => ~ Overlap(b, c)
    BY <2>2, <2>3, <2>7
  <2>9. FreeBlocks \cap held = {}
    BY <2>2, <2>3, <2>5 DEF Blocks
  <2>10. InHand \cap (FreeBlocks \cup held) = {}
    BY <2>2, <2>3, <2>6 DEF Blocks
  <2>. QED BY <2>8, <2>9, <2>10
<1>. QED BY <1>1, Inductive, PTL

-----------------------------------------------------------------------------
(* The counters *)

LEMMA CardBound ==
  ASSUME NEW S \in SUBSET PFN
  PROVE  IsFiniteSet(S) /\ Cardinality(S) \in Nat /\ Cardinality(S) <= NPages
<1>1. IsFiniteSet(PFN) /\ Cardinality(PFN) = NPages
  <2>1. /\ IsFiniteSet(0 .. NPages - 1)
        /\ Cardinality(0 .. NPages - 1) =
             IF 0 > NPages - 1 THEN 0 ELSE (NPages - 1) - 0 + 1
    BY SizeFacts, FS_Interval
  <2>. QED BY <2>1, SizeFacts, SMT DEF PFN
<1>2. IsFiniteSet(S) /\ Cardinality(S) <= Cardinality(PFN)
  BY <1>1, FS_Subset
<1>. QED BY <1>1, <1>2, FS_CardinalityType

(* No counter wraps as long as it counts a set of pages.                   *)
LEMMA CardAdd ==
  ASSUME NEW S \in SUBSET PFN, NEW p \in PFN, p \notin S
  PROVE  Inc(Cardinality(S)) = Cardinality(S \cup {p})
<1>1. IsFiniteSet(S) /\ Cardinality(S) \in Nat
  BY CardBound
<1>2. Cardinality(S \cup {p}) = Cardinality(S) + 1
  BY <1>1, FS_AddElement
<1>3. Cardinality(S \cup {p}) <= NPages
  BY CardBound
<1>. QED BY <1>1, <1>2, <1>3, SizeAssumption, SMT DEF Inc

LEMMA CardDel ==
  ASSUME NEW S \in SUBSET PFN, NEW p \in S
  PROVE  Dec(Cardinality(S)) = Cardinality(S \ {p})
<1>1. IsFiniteSet(S) /\ Cardinality(S) \in Nat
  BY CardBound
<1>2. Cardinality(S \ {p}) = Cardinality(S) - 1 /\ Cardinality(S \ {p}) \in Nat
  BY <1>1, FS_RemoveElement, CardBound
<1>. QED BY <1>1, <1>2, SMT DEF Dec

LEMMA AddCount ==
  ASSUME IInv, FreeCountExact, ~ wrecked, NEW p \in PFN, NEW o \in Orders,
         FreePageAdd(p, o), p \notin free_area[o]
  PROVE  FreeCountExact'
<1>1. /\ free_area \in [Orders -> SUBSET PFN]
      /\ nr_free \in [Orders -> 0 .. Word - 1]
      /\ \A r \in Orders : nr_free[r] = Cardinality(free_area[r])
  BY DEF IInv, TypeOK, FreeCountExact
<1>2. Inc(nr_free[o]) = Cardinality(free_area[o] \cup {p})
  BY <1>1, CardAdd
<1>3. ASSUME NEW r \in Orders PROVE nr_free'[r] = Cardinality(free_area'[r])
  BY <1>1, <1>2 DEF FreePageAdd
<1>. QED BY <1>3 DEF FreeCountExact

LEMMA MergeCount ==
  ASSUME IInv, FreeCountExact, ~ wrecked, MergeStep, ~ wrecked'
  PROVE  FreeCountExact'
<1>. DEFINE o     == order[cur]
            buddy == Buddy(cur, o)
            left  == IF cur < buddy THEN cur ELSE buddy
            F     == free_area[o]
<1>1. /\ TypeOK /\ FreeOK /\ MergeOK /\ pc = "merge"
      /\ free_area \in [Orders -> SUBSET PFN]
      /\ nr_free \in [Orders -> 0 .. Word - 1]
      /\ \A r \in Orders : nr_free[r] = Cardinality(free_area[r])
  BY DEF IInv, Clean, TypeOK, FreeCountExact, MergeStep
<1>2. porder \in Orders /\ cur \in free_area[porder]
  BY <1>1 DEF MergeOK
<1>3. o \in Orders /\ o + 1 \in Orders /\ cur \in F /\ o = porder
  <2>1. o = porder
    BY <1>1, <1>2 DEF FreeOK
  <2>2. porder < MaxOrder - 1
    BY DEF MergeStep, MergeGoesOn
  <2>. QED BY <1>2, <2>1, <2>2, SizeFacts, SMT DEF Orders
<1>4. buddy \in F
  BY DEF MergeStep
<1>5. order[buddy] = o /\ order[left] = o /\ cur \in PFN /\ buddy \in PFN
  BY <1>1, <1>3, <1>4 DEF FreeOK
<1>6. buddy # cur
  <2>1. cur \in Nat /\ Size[o] \in Nat \ {0}
    BY <1>3, <1>5, SizeFacts, SMT DEF PFN
  <2>2. buddy = cur + Size[o] \/ buddy = cur - Size[o]
    BY DEF Buddy
  <2>. QED BY <2>1, <2>2, SMT
<1>7. /\ free_area' = [r \in Orders |->
           (free_area[r] \ {cur, buddy}) \cup
           (IF r = o + 1 THEN {left} ELSE {})]
      /\ nr_free' = [[[nr_free EXCEPT ![o] = Dec(@)] EXCEPT ![o] = Dec(@)]
                               EXCEPT ![o + 1] = Inc(@)]
  BY <1>5, Zenon DEF MergeStep
<1>8. o # o + 1 /\ left \in PFN
  BY <1>3, <1>5, SMT DEF Orders
<1>. HIDE DEF buddy, left
<1>9. nr_free' = [r \in Orders |-> IF r = o THEN Dec(Dec(nr_free[o]))
                                   ELSE IF r = o + 1 THEN Inc(nr_free[r])
                                   ELSE nr_free[r]]
  BY <1>1, <1>3, <1>7, <1>8
(* cur and buddy are on the list of their order and on no other. *)
<1>10. \A r \in Orders : r # o => cur \notin free_area[r] /\ buddy \notin free_area[r]
  BY <1>1, <1>5 DEF FreeOK
<1>11. left \in {cur, buddy}
  BY DEF left
<1>12. Dec(Dec(nr_free[o])) = Cardinality(free_area'[o])
  <2>1. Dec(nr_free[o]) = Cardinality(F \ {cur})
    BY <1>1, <1>3, CardDel
  <2>2. Dec(Cardinality(F \ {cur})) = Cardinality((F \ {cur}) \ {buddy})
    <3>1. F \ {cur} \in SUBSET PFN /\ buddy \in F \ {cur}
      BY <1>1, <1>3, <1>4, <1>6
    <3>. QED BY <3>1, CardDel
  <2>3. free_area'[o] = (F \ {cur}) \ {buddy}
    BY <1>3, <1>7, <1>8
  <2>. QED BY <2>1, <2>2, <2>3
<1>13. Inc(nr_free[o + 1]) = Cardinality(free_area'[o + 1])
  <2>1. left \notin free_area[o + 1]
    BY <1>3, <1>8, <1>10, <1>11
  <2>2. free_area'[o + 1] = free_area[o + 1] \cup {left}
    BY <1>3, <1>7, <1>8, <1>10
  <2>3. free_area[o + 1] \in SUBSET PFN
    BY <1>1, <1>3
  <2>. QED BY <2>1, <2>2, <2>3, <1>1, <1>3, <1>8, CardAdd
<1>14. ASSUME NEW r \in Orders PROVE nr_free'[r] = Cardinality(free_area'[r])
  <2>1. CASE r = o
    BY <2>1, <1>9, <1>12, <1>3
  <2>2. CASE r = o + 1
    BY <2>2, <1>9, <1>13, <1>3, <1>8
  <2>3. CASE r # o /\ r # o + 1
    <3>1. free_area[r] \ {cur, buddy} = free_area[r]
      BY <2>3, <1>10
    <3>2. free_area'[r] = free_area[r]
      BY <2>3, <3>1, <1>7
    <3>. QED BY <2>3, <3>2, <1>1, <1>9
  <2>. QED BY <2>1, <2>2, <2>3
<1>. QED BY <1>14 DEF FreeCountExact

(* nr_free[o] is the length of the list of order o until a merge takes a   *)
(* page that is no free buddy; it never wraps (free_page_add, _del).       *)
THEOREM CountsExact == Spec => []FreeCountExact
<1>1. Init => FreeCountExact
  BY FS_EmptySet DEF Init, FreeCountExact
<1>2. ASSUME IInv, FreeCountExact, [Next]_vars PROVE FreeCountExact'
  <2>. SUFFICES ASSUME ~ wrecked' PROVE FreeCountExact'
    BY DEF FreeCountExact
  <2>1. CASE UNCHANGED vars
    BY <1>2, <2>1 DEF vars, FreeCountExact
  <2>. SUFFICES ASSUME Next PROVE FreeCountExact'
    BY <1>2, <2>1
  <2>2. ~ wrecked /\ TypeOK /\ FreeOK /\ HeldOK /\ SplitOK /\ BootOK
    BY <1>2 DEF Next, IInv, Clean
  <2>3. CASE NextRegion \/ BootDone \/ AllocDone \/ MergeDone
    BY <1>2, <2>2, <2>3
       DEF NextRegion, BootDone, AllocDone, MergeDone, FreeCountExact
  <2>4. CASE FreeChunk
    <3>1. PICK o \in Fits(addr, rest) : FreePageAdd(addr, o)
      BY <2>4 DEF FreeChunk
    <3>2. /\ o \in Orders /\ Size[o] <= rest /\ Size[o] \in Nat \ {0}
          /\ addr \in Nat /\ rest \in Nat /\ addr + rest <= NPages
      BY <2>2, <2>4, SizeFacts DEF Fits, FreeChunk, TypeOK, BootOK
    <3>3. addr \in PFN
      BY <3>2, SizeFacts, SMT DEF PFN
    <3>4. addr \notin free_area[o]
      <4>1. addr \in free_area[o] => addr + Size[o] <= addr
        BY <2>2, <2>4, <3>2 DEF FreeChunk, BootOK
      <4>. QED BY <4>1, <3>2, SMT
    <3>. QED BY <3>1, <3>2, <3>3, <3>4, <1>2, <2>2, AddCount
  <2>5. CASE SplitStep
    <3>. DEFINE h == porder - 1
    <3>1. /\ h \in Orders /\ h + 1 \in Orders /\ h + 1 = porder
          /\ cur \in PFN /\ WellPlaced(cur, porder)
          /\ \A p \in free_area[h] : Apart(cur, porder, p, h)
      <4>1. /\ req \in Orders /\ porder \in Orders /\ porder > req /\ cur \in PFN
            /\ WellPlaced(cur, porder)
            /\ \A o \in Orders : \A p \in free_area[o] : Apart(cur, porder, p, o)
        BY <2>2, <2>5 DEF SplitStep, SplitOK, TypeOK
      <4>2. h \in Orders /\ h + 1 = porder
        BY <4>1, SizeFacts, SMT DEF Orders
      <4>. QED BY <4>1, <4>2
    <3>2. Buddy(cur, h) = cur + Size[h] /\ Buddy(cur, h) \in PFN
      BY <3>1, HalfFacts
    <3>3. Buddy(cur, h) \notin free_area[h]
      <4>1. /\ cur \in Nat /\ Size[h] \in Nat \ {0}
            /\ Size[porder] = 2 * Size[h]
        <5>1. Size[h + 1] = 2 * Size[h]
          BY <3>1, SizeFacts
        <5>2. cur \in Nat /\ Size[h] \in Nat \ {0}
          BY <3>1, SizeFacts, SMT DEF PFN
        <5>. QED BY <5>1, <5>2, <3>1
      <4>2. ~ Apart(cur, porder, cur + Size[h], h)
        BY <4>1, SMT DEF Apart
      <4>. QED BY <3>1, <3>2, <4>2
    <3>. QED BY <2>5, <3>1, <3>2, <3>3, <1>2, <2>2, AddCount DEF SplitStep
  <2>6. CASE MergeStep
    BY <2>6, <1>2, <2>2, MergeCount
  <2>7. ASSUME NEW o \in AllocOrders, AllocTake(o) PROVE FreeCountExact'
    <3>1. PICK q \in Orders : \E p \in free_area[q] : FreePageDel(p)
      BY <2>7 DEF AllocTake
    <3>2. PICK p \in free_area[q] : FreePageDel(p)
      BY <3>1
    <3>3. order[p] = q
      BY <2>2 DEF FreeOK
    <3>4. \A r \in Orders : r # q => p \notin free_area[r]
      BY <2>2, <3>3 DEF FreeOK
    <3>5. /\ free_area \in [Orders -> SUBSET PFN]
          /\ nr_free \in [Orders -> 0 .. Word - 1]
          /\ \A r \in Orders : nr_free[r] = Cardinality(free_area[r])
      BY <1>2, <2>2 DEF TypeOK, FreeCountExact
    <3>6. Dec(nr_free[q]) = Cardinality(free_area[q] \ {p})
      BY <3>5, CardDel
    <3>7. ASSUME NEW r \in Orders PROVE nr_free'[r] = Cardinality(free_area'[r])
      <4>1. CASE r = q
        BY <4>1, <3>2, <3>3, <3>5, <3>6 DEF FreePageDel
      <4>2. CASE r # q
        <5>1. free_area[r] \ {p} = free_area[r]
          BY <4>2, <3>4
        <5>. QED BY <4>2, <5>1, <3>2, <3>3, <3>5 DEF FreePageDel
      <4>. QED BY <4>1, <4>2
    <3>. QED BY <3>7 DEF FreeCountExact
  <2>8. ASSUME NEW o \in AllocOrders, AllocFail(o) PROVE FreeCountExact'
    BY <2>1, <2>8 DEF AllocFail
  <2>9. ASSUME NEW b \in held, FreePages(b) PROVE FreeCountExact'
    <3>1. /\ b[1] \in PFN /\ b[2] \in Orders /\ order[b[1]] = b[2]
      BY <2>2, FreeTypes DEF HeldOK
    <3>2. b[1] \notin free_area[b[2]]
      <4>1. ASSUME b[1] \in free_area[b[2]] PROVE FALSE
        <5>1. Apart(b[1], b[2], b[1], b[2])
          BY <4>1, <3>1, <2>2 DEF HeldOK
        <5>. QED BY <5>1, <3>1, ApartFacts
      <4>. QED BY <4>1
    <3>3. FreePageAdd(b[1], b[2])
      BY <2>9, <3>1 DEF FreePages
    <3>. QED BY <3>1, <3>2, <3>3, <1>2, <2>2, AddCount
  <2>. QED
    BY <2>3, <2>4, <2>5, <2>6, <2>7, <2>8, <2>9 DEF Next, Work, Boot
<1>. QED BY <1>1, <1>2, Inductive, PTL DEF Spec

-----------------------------------------------------------------------------
(* Aligned blocks *)

LEMMA SizeDivides ==
  ASSUME NEW o \in Orders, NEW r \in Orders, o <= r
  PROVE  \E k \in Nat : Size[r] = k * Size[o]
<1>. DEFINE Good(x) == \E k \in Nat : Size[x] = k * Size[o]
            Bad == {x \in Orders : o <= x /\ ~ Good(x)}
<1>. SUFFICES ASSUME Bad # {} PROVE FALSE
  OBVIOUS
<1>1. Bad \subseteq Nat
  BY SizeFacts DEF Orders
<1>2. PICK x \in Bad : \A y \in Bad : x <= y
  <2>. HIDE DEF Bad
  <2>. QED BY <1>1, LeastNat
<1>3. x # o
  <2>1. Size[o] \in Nat
    BY SizeFacts
  <2>2. Size[o] = 1 * Size[o]
    BY <2>1
  <2>. QED BY <2>2
<1>4. x - 1 \in Orders /\ o <= x - 1 /\ (x - 1) + 1 = x /\ x - 1 < x
  BY <1>3, SizeFacts, SMT DEF Orders
<1>5. PICK k \in Nat : Size[x - 1] = k * Size[o]
  <2>1. x - 1 \notin Bad
    BY <1>1, <1>2, <1>4, SMT
  <2>. QED BY <2>1, <1>4
<1>6. Size[x] = 2 * (k * Size[o]) /\ Size[o] \in Nat
  BY <1>4, <1>5, SizeFacts
<1>7. Size[x] = (2 * k) * Size[o] /\ 2 * k \in Nat
  BY <1>6, SMT
<1>. QED BY <1>7

(* An address that is aligned to a block is aligned to a smaller one.      *)
LEMMA AlignedDown ==
  ASSUME NEW p \in Nat, NEW o \in Orders, NEW r \in Orders, o <= r, Aligned(p, r)
  PROVE  Aligned(p, o)
<1>1. PICK k \in Nat : Size[r] = k * Size[o]
  BY SizeDivides
<1>2. Size[o] \in Nat \ {0} /\ Size[r] \in Nat \ {0} /\ p % Size[r] = 0
  BY SizeFacts DEF Aligned
<1>3. PICK j \in Nat : p = j * Size[r]
  BY <1>2, IsMultiple
<1>4. p = (j * k) * Size[o] /\ j * k \in Nat
  BY <1>1, <1>2, <1>3, Products
<1>. QED BY <1>2, <1>4, Multiple DEF Aligned

(* Of two aligned blocks that share a page the smaller is in the larger.   *)
LEMMA Nested ==
  ASSUME NEW p \in Nat, NEW q \in Nat, NEW o \in Orders, NEW r \in Orders,
         o <= r, Aligned(p, o), Aligned(q, r), ~ Apart(p, o, q, r)
  PROVE  q <= p /\ p + Size[o] <= q + Size[r]
<1>. DEFINE s == Size[o]
<1>1. s \in Nat \ {0} /\ Size[r] \in Nat \ {0} /\ p % s = 0 /\ q % s = 0
  BY SizeFacts, AlignedDown DEF Aligned
<1>2. PICK k \in Nat : Size[r] = k * s
  BY SizeDivides
<1>3. (q + Size[r]) % s = 0
  <2>1. PICK j \in Nat : q = j * s
    BY <1>1, IsMultiple
  <2>2. q + Size[r] = (j + k) * s
    BY <1>1, <1>2, <2>1, Products
  <2>. QED BY <1>1, <2>2, j + k \in Nat, Multiple
<1>4. p < q + Size[r] /\ q < p + s
  BY <1>1, SMT DEF Apart
<1>. HIDE DEF s
<1>5. ~ (p < q)
  <2>. SUFFICES ASSUME p < q PROVE FALSE
    OBVIOUS
  <2>1. p + s <= q
    BY <1>1, AlignedFits
  <2>. QED BY <1>1, <1>4, <2>1, SMT
<1>6. p + s <= q + Size[r]
  BY <1>1, <1>3, <1>4, q + Size[r] \in Nat, AlignedFits
<1>. QED BY <1>5, <1>6, SMT DEF s

-----------------------------------------------------------------------------
(* What the steps do to the blocks *)

LEMMA CleanFacts ==
  ASSUME IInv, ~ wrecked
  PROVE  /\ TypeOK /\ FreeOK /\ HeldOK /\ SplitOK /\ MergeOK /\ BootOK
         /\ order \in [PFN -> Orders]
<1>. QED BY DEF IInv, Clean

LEMMA TakeFacts ==
  ASSUME IInv, ~ wrecked, NEW o \in AllocOrders, AllocTake(o)
  PROVE  \E q \in Orders : \E p \in free_area[q] :
           /\ order[p] = q /\ p \in PFN /\ cur' = p /\ porder' = q
           /\ \A r \in Orders : free_area'[r] = free_area[r] \ {p}
           /\ UNCHANGED <<free_flag, order, compound_head, ridx, addr, rest, held,
                          wrecked>>
           /\ pc = "idle" /\ pc' = "split"
<1>1. PICK q \in Orders : \E p \in free_area[q] :
        FreePageDel(p) /\ cur' = p /\ porder' = order[p]
  BY DEF AllocTake
<1>2. PICK p \in free_area[q] :
        FreePageDel(p) /\ cur' = p /\ porder' = order[p]
  BY <1>1
<1>3. order[p] = q /\ p \in PFN
  BY CleanFacts, FreeTypes DEF FreeOK
<1>4. \A r \in Orders : free_area'[r] = free_area[r] \ {p}
  BY <1>2, <1>3, CleanFacts, DelFacts
<1>. QED BY <1>2, <1>3, <1>4 DEF AllocTake, Transition

LEMMA SplitFacts ==
  ASSUME IInv, ~ wrecked, SplitStep
  PROVE  /\ porder - 1 \in Orders /\ porder \in Orders /\ cur \in PFN
         /\ Size[porder] = 2 * Size[porder - 1]
         /\ Buddy(cur, porder - 1) = cur + Size[porder - 1]
         /\ cur + Size[porder - 1] \in PFN /\ WellPlaced(cur, porder)
         /\ \A r \in Orders : free_area'[r] =
              IF r = porder - 1 THEN free_area[r] \cup {cur + Size[porder - 1]}
              ELSE free_area[r]
         /\ free_flag' = free_flag \cup {cur + Size[porder - 1]}
         /\ pc = "split" /\ pc' = "split" /\ cur' = cur /\ porder' = porder - 1
         /\ UNCHANGED <<compound_head, ridx, addr, rest, req, held, wrecked>>
<1>. DEFINE h == porder - 1
<1>1. /\ pc = "split" /\ porder > req
      /\ UNCHANGED <<compound_head, pc, ridx, addr, rest, cur, req, held, wrecked>>
      /\ porder' = h /\ free_flag' = free_flag \cup {Buddy(cur, h)}
      /\ FreePageAdd(Buddy(cur, h), h)
  BY DEF SplitStep
<1>2. /\ req \in Orders /\ porder \in Orders /\ cur \in PFN
      /\ WellPlaced(cur, porder)
  BY <1>1, CleanFacts DEF SplitOK, TypeOK
<1>3. h \in Orders /\ h + 1 = porder
  <2>1. porder > req
    BY <1>1
  <2>. QED BY <2>1, <1>2, SizeFacts, SMT DEF Orders
<1>4. Size[h + 1] = 2 * Size[h]
  BY <1>2, <1>3, SizeFacts
<1>5. Buddy(cur, h) = cur + Size[h] /\ Buddy(cur, h) \in PFN
  BY <1>2, <1>3, HalfFacts
<1>6. \A r \in Orders : free_area'[r] =
        IF r = h THEN free_area[r] \cup {Buddy(cur, h)} ELSE free_area[r]
  BY <1>1, <1>3, <1>5, CleanFacts, AddFacts
<1>. QED BY <1>1, <1>2, <1>3, <1>4, <1>5, <1>6

LEMMA DoneFacts ==
  ASSUME IInv, ~ wrecked, AllocDone
  PROVE  /\ porder = req /\ req \in Orders /\ cur \in PFN /\ WellPlaced(cur, req)
         /\ pc = "split" /\ pc' = "idle"
         /\ held' = held \cup {<<cur, req>>} /\ free_flag' = free_flag \ {cur}
         /\ UNCHANGED <<free_area, ridx, addr, rest, wrecked>>
<1>1. /\ porder <= req /\ pc = "split" /\ pc' = "idle"
      /\ held' = held \cup {<<cur, req>>} /\ free_flag' = free_flag \ {cur}
      /\ UNCHANGED <<free_area, ridx, addr, rest, wrecked>>
  BY DEF AllocDone, Transition, Unflagged
<1>2. req <= porder /\ porder \in Orders /\ WellPlaced(cur, porder)
  BY <1>1, CleanFacts DEF SplitOK
<1>3. req \in Orders /\ cur \in PFN
  BY CleanFacts DEF TypeOK
<1>4. porder = req
  <2>1. porder <= req
    BY <1>1
  <2>. QED BY <2>1, <1>2, <1>3, SMT DEF Orders
<1>. QED BY <1>1, <1>2, <1>3, <1>4

LEMMA ReleaseFacts ==
  ASSUME IInv, ~ wrecked, NEW b \in held, FreePages(b)
  PROVE  /\ b[1] \in PFN /\ b[2] \in Orders /\ order[b[1]] = b[2]
         /\ b = <<b[1], b[2]>> /\ WellPlaced(b[1], b[2])
         /\ pc = "idle" /\ pc' = "merge" /\ cur' = b[1] /\ porder' = b[2]
         /\ held' = held \ {b} /\ free_flag' = free_flag \cup {b[1]}
         /\ \A r \in Orders : free_area'[r] =
              IF r = b[2] THEN free_area[r] \cup {b[1]} ELSE free_area[r]
         /\ UNCHANGED <<order, compound_head, ridx, addr, rest, wrecked>>
<1>1. /\ b[1] \in PFN /\ b[2] \in Orders /\ order[b[1]] = b[2] /\ b = <<b[1], b[2]>>
      /\ WellPlaced(b[1], b[2])
  BY CleanFacts, FreeTypes DEF HeldOK
<1>2. /\ pc = "idle" /\ pc' = "merge" /\ cur' = b[1] /\ porder' = order[b[1]]
      /\ held' = held \ {b} /\ free_flag' = free_flag \cup {b[1]}
      /\ FreePageAdd(b[1], order[b[1]])
      /\ UNCHANGED <<order, compound_head, ridx, addr, rest, wrecked>>
  BY DEF FreePages, Transition
<1>3. \A r \in Orders : free_area'[r] =
        IF r = b[2] THEN free_area[r] \cup {b[1]} ELSE free_area[r]
  BY <1>1, <1>2, CleanFacts, AddFacts
<1>. QED BY <1>1, <1>2, <1>3

(* A merge that is not wrong joins two free buddies.                       *)
LEMMA MergeFacts ==
  ASSUME IInv, ~ wrecked, MergeStep, ~ wrecked'
  PROVE  \E left \in PFN, buddy \in PFN :
           /\ porder \in Orders /\ porder + 1 \in Orders
           /\ Size[porder + 1] = 2 * Size[porder]
           /\ buddy = Buddy(cur, porder)
           /\ cur \in free_area[porder] /\ buddy \in free_area[porder]
           /\ \/ buddy = cur + Size[porder] /\ left = cur
              \/ buddy = cur - Size[porder] /\ left = buddy
           /\ WellPlaced(left, porder + 1)
           /\ \A r \in Orders : free_area'[r] =
                (free_area[r] \ {cur, buddy})
                   \cup (IF r = porder + 1 THEN {left} ELSE {})
           /\ compound_head' = SetCompoundHead(compound_head, left, porder + 1)
           /\ pc = "merge" /\ cur' = left /\ porder' = porder + 1
           /\ buddy \in free_flag
           /\ UNCHANGED <<free_flag, pc, ridx, addr, rest, req, held, wrecked>>
<1>. DEFINE o     == porder
            buddy == Buddy(cur, o)
            left  == IF cur < buddy THEN cur ELSE buddy
            up    == order[left] + 1
            both  == {cur, buddy}
<1>1. /\ TypeOK /\ FreeOK /\ MergeOK /\ order \in [PFN -> Orders]
      /\ pc = "merge"
  BY CleanFacts DEF MergeStep
<1>2. /\ o \in Orders /\ cur \in PFN /\ cur \in free_area[o] /\ order[cur] = o
      /\ WellPlaced(cur, o)
  BY <1>1, FreeTypes DEF MergeOK, FreeOK
<1>3. /\ compound_head' = SetCompoundHead(compound_head, left, up)
      /\ free_area' = [r \in Orders |->
           (free_area[r] \ both) \cup (IF r = up THEN {left} ELSE {})]
      /\ cur' = left /\ porder' = o + 1
      /\ wrecked' = (buddy \notin free_area[o])
      /\ buddy \in free_flag
      /\ UNCHANGED <<free_flag, pc, ridx, addr, rest, req, held>>
  BY <1>2, Zenon DEF MergeStep, MergeGoesOn
<1>4. o + 1 \in Orders
  <2>1. porder < MaxOrder - 1
    BY DEF MergeStep, MergeGoesOn
  <2>. QED BY <2>1, <1>2, SizeFacts, SMT DEF Orders
<1>5. /\ buddy \in PFN
      /\ \/ buddy = cur + Size[o] /\ WellPlaced(cur, o + 1)
         \/ buddy = cur - Size[o] /\ WellPlaced(cur - Size[o], o + 1)
  BY <1>2, <1>4, BuddyFacts
<1>6. buddy \in free_area[o]
  BY <1>3
<1>. HIDE DEF o, buddy
<1>7. order[buddy] = o /\ order[left] = o /\ up = o + 1 /\ left \in PFN
  BY <1>1, <1>2, <1>5, <1>6 DEF FreeOK
<1>8. /\ \/ buddy = cur + Size[o] /\ left = cur
         \/ buddy = cur - Size[o] /\ left = buddy
      /\ WellPlaced(left, o + 1)
  <2>1. cur \in Nat /\ Size[o] \in Nat \ {0}
    BY <1>2, SizeFacts, SMT DEF PFN
  <2>2. CASE buddy = cur + Size[o] /\ WellPlaced(cur, o + 1)
    <3>1. cur < buddy
      BY <2>1, <2>2, SMT
    <3>. QED BY <3>1, <2>2
  <2>3. CASE buddy = cur - Size[o] /\ WellPlaced(cur - Size[o], o + 1)
    <3>1. ~ (cur < buddy)
      BY <2>1, <2>3, SMT
    <3>. QED BY <3>1, <2>3
  <2>. QED BY <1>5, <2>2, <2>3
<1>. HIDE DEF left
<1>9. Size[o + 1] = 2 * Size[o]
  BY <1>2, <1>4, SizeFacts
<1>10. wrecked' = wrecked
  <2>1. wrecked \in BOOLEAN /\ wrecked' \in BOOLEAN
    BY <1>1, <1>3 DEF TypeOK
  <2>. QED BY <2>1
<1>11. \A r \in Orders : free_area'[r] =
         (free_area[r] \ {cur, buddy}) \cup (IF r = o + 1 THEN {left} ELSE {})
  BY <1>3, <1>7
<1>12. compound_head' = SetCompoundHead(compound_head, left, o + 1)
  BY <1>3, <1>7
<1>. QED
  BY <1>1, <1>2, <1>3, <1>4, <1>5, <1>6, <1>7, <1>8, <1>9, <1>10, <1>11, <1>12
  DEF o, buddy

(* FreeChunk takes the largest chunk that fits.                            *)
LEMMA ChunkFacts ==
  ASSUME IInv, ~ wrecked, FreeChunk
  PROVE  \E o \in Orders :
           /\ addr \in PFN /\ rest \in Nat /\ Size[o] <= rest /\ WellPlaced(addr, o)
           /\ \A q \in Orders : Size[q] <= rest /\ Aligned(addr, q) => q <= o
           /\ free_flag' = free_flag \cup Pages(addr, o)
           /\ \A r \in Orders : free_area'[r] =
                IF r = o THEN free_area[r] \cup {addr} ELSE free_area[r]
           /\ addr' = addr + Size[o] /\ rest' = rest - Size[o]
           /\ pc = "boot" /\ pc' = "boot" /\ held = {}
           /\ UNCHANGED <<ridx, held, wrecked>>
<1>1. PICK o \in Fits(addr, rest) :
        /\ \A q \in Fits(addr, rest) : q <= o
        /\ free_flag' = free_flag \cup Pages(addr, o)
        /\ FreePageAdd(addr, o)
        /\ addr' = addr + Size[o] /\ rest' = rest - Size[o]
  BY DEF FreeChunk
<1>2. /\ pc = "boot" /\ rest > 0 /\ UNCHANGED <<pc, ridx, held, wrecked>>
  BY DEF FreeChunk
<1>3. /\ addr \in Nat /\ rest \in Nat /\ held = {} /\ addr + rest <= NPages
  BY <1>2, CleanFacts DEF TypeOK, BootOK
<1>4. /\ o \in Orders /\ Size[o] <= rest /\ Aligned(addr, o)
      /\ Size[o] \in Nat \ {0} /\ NPages \in Nat
  BY SizeFacts DEF Fits
<1>5. addr \in PFN /\ addr + Size[o] <= NPages
  BY <1>3, <1>4, SMT DEF PFN
<1>6. \A r \in Orders : free_area'[r] =
        IF r = o THEN free_area[r] \cup {addr} ELSE free_area[r]
  BY <1>1, <1>4, <1>5, CleanFacts, AddFacts
<1>7. \A q \in Orders : Size[q] <= rest /\ Aligned(addr, q) => q <= o
  BY <1>1 DEF Fits
<1>. QED BY <1>1, <1>2, <1>3, <1>4, <1>5, <1>6, <1>7 DEF WellPlaced

-----------------------------------------------------------------------------
(* The pages of the free blocks, the one in hand included *)

FreeSet == PagesOf(FreeBlocks \cup InHand)

FreePage(x) ==
  \/ \E o \in Orders : \E p \in free_area[o] : x \in Pages(p, o)
  \/ pc = "split" /\ x \in Pages(cur, porder)

LEMMA PagesMeans ==
  ASSUME NEW fa \in [Orders -> SUBSET PFN], NEW H, NEW x
  PROVE  x \in PagesOf({b \in PFN \X Orders : b[1] \in fa[b[2]]} \cup H) <=>
           \/ \E o \in Orders : \E p \in fa[o] : x \in Pages(p, o)
           \/ \E b \in H : x \in Pages(b[1], b[2])
<1>. DEFINE B == {b \in PFN \X Orders : b[1] \in fa[b[2]]}
<1>1. x \in PagesOf(B \cup H) <=> \E b \in B \cup H : x \in Pages(b[1], b[2])
  <2>. HIDE DEF B
  <2>. QED BY DEF PagesOf
<1>2. ASSUME NEW b \in B, x \in Pages(b[1], b[2])
      PROVE  \E o \in Orders : \E p \in fa[o] : x \in Pages(p, o)
  BY <1>2
<1>3. ASSUME NEW o \in Orders, NEW p \in fa[o], x \in Pages(p, o)
      PROVE  \E b \in B : x \in Pages(b[1], b[2])
  <2>1. <<p, o>> \in B /\ <<p, o>>[1] = p /\ <<p, o>>[2] = o
    OBVIOUS
  <2>. QED BY <2>1, <1>3
<1>. QED BY <1>1, <1>2, <1>3

LEMMA FreeSetMeans ==
  ASSUME IInv, IInv', NEW x
  PROVE  (x \in FreeSet <=> FreePage(x)) /\ (x \in FreeSet' <=> FreePage(x)')
<1>1. free_area \in [Orders -> SUBSET PFN] /\ free_area' \in [Orders -> SUBSET PFN]
  BY DEF IInv, TypeOK
<1>2. (\E b \in InHand : x \in Pages(b[1], b[2])) <=>
        pc = "split" /\ x \in Pages(cur, porder)
  <2>1. CASE pc = "split"
    <3>1. InHand = {<<cur, porder>>}
      BY <2>1 DEF InHand
    <3>. QED BY <2>1, <3>1
  <2>2. CASE pc # "split"
    <3>1. InHand = {}
      BY <2>2 DEF InHand
    <3>. QED BY <2>2, <3>1
  <2>. QED BY <2>1, <2>2
<1>3. (\E b \in InHand' : x \in Pages(b[1], b[2])) <=>
        pc' = "split" /\ x \in Pages(cur', porder')
  <2>1. CASE pc' = "split"
    <3>1. InHand' = {<<cur', porder'>>}
      BY <2>1 DEF InHand
    <3>. QED BY <2>1, <3>1
  <2>2. CASE pc' # "split"
    <3>1. InHand' = {}
      BY <2>2 DEF InHand
    <3>. QED BY <2>2, <3>1
  <2>. QED BY <2>1, <2>2
<1>4. x \in FreeSet <=> FreePage(x)
  <2>1. x \in FreeSet <=>
          \/ \E o \in Orders : \E p \in free_area[o] : x \in Pages(p, o)
          \/ \E b \in InHand : x \in Pages(b[1], b[2])
    BY <1>1, PagesMeans DEF FreeSet, FreeBlocks
  <2>. QED BY <1>2, <2>1 DEF FreePage
<1>5. x \in FreeSet' <=> FreePage(x)'
  <2>1. x \in FreeSet' <=>
          \/ \E o \in Orders : \E p \in free_area'[o] : x \in Pages(p, o)
          \/ \E b \in InHand' : x \in Pages(b[1], b[2])
    BY <1>1, PagesMeans DEF FreeSet, FreeBlocks, PagesOf, Pages
  <2>. QED BY <1>3, <2>1 DEF FreePage, Pages
<1>. QED BY <1>4, <1>5

(* Two sets with the same pages are the same.                              *)
LEMMA FreeSetKept ==
  ASSUME IInv, IInv', \A x : FreePage(x)' <=> FreePage(x)
  PROVE  FreeSet' = FreeSet
<1>1. \A x : x \in FreeSet' <=> x \in FreeSet
  BY FreeSetMeans
<1>. QED BY <1>1

(* Halves of a block have its pages.                                       *)
LEMMA HalfPages ==
  ASSUME NEW p \in PFN, NEW o \in Orders, o + 1 \in Orders, NEW x
  PROVE  x \in Pages(p, o + 1) <=> x \in Pages(p, o) \/ x \in Pages(p + Size[o], o)
<1>1. p \in Nat /\ Size[o] \in Nat \ {0} /\ Size[o + 1] = 2 * Size[o]
  BY SizeFacts DEF PFN
<1>. QED BY <1>1, SMT DEF Pages

LEMMA TakeKeeps ==
  ASSUME IInv, ~ wrecked, NEW o \in AllocOrders, AllocTake(o)
  PROVE  FreeSet' = FreeSet
<1>1. PICK q \in Orders : \E p \in free_area[q] :
        /\ order[p] = q /\ p \in PFN /\ cur' = p /\ porder' = q
        /\ \A r \in Orders : free_area'[r] = free_area[r] \ {p}
        /\ pc = "idle" /\ pc' = "split"
  BY TakeFacts
<1>2. PICK p \in free_area[q] :
        /\ order[p] = q /\ p \in PFN /\ cur' = p /\ porder' = q
        /\ \A r \in Orders : free_area'[r] = free_area[r] \ {p}
        /\ pc = "idle" /\ pc' = "split"
  BY <1>1
<1>3. \A r \in Orders : p \in free_area[r] => r = q
  BY <1>2, CleanFacts DEF FreeOK
<1>4. \A x : FreePage(x)' <=> FreePage(x)
  BY <1>2, <1>3 DEF FreePage, Pages
<1>. QED BY <1>4, FreeSetKept, AllocTakeInv

LEMMA SplitKeeps ==
  ASSUME IInv, ~ wrecked, SplitStep
  PROVE  FreeSet' = FreeSet
<1>. DEFINE h == porder - 1
<1>1. /\ h \in Orders /\ h + 1 \in Orders /\ h + 1 = porder /\ cur \in PFN
      /\ pc = "split" /\ pc' = "split" /\ cur' = cur /\ porder' = h
      /\ \A r \in Orders : free_area'[r] =
           IF r = h THEN free_area[r] \cup {cur + Size[h]} ELSE free_area[r]
  <2>1. porder \in Orders /\ porder - 1 \in Orders
    BY SplitFacts
  <2>2. (porder - 1) + 1 = porder
    BY <2>1, SizeFacts, SMT DEF Orders
  <2>. QED BY <2>1, <2>2, SplitFacts
<1>. HIDE DEF h
<1>2. \A x : x \in Pages(cur, porder) <=>
        x \in Pages(cur, h) \/ x \in Pages(cur + Size[h], h)
  BY <1>1, HalfPages
<1>3. \A x : (\E o \in Orders : \E p \in free_area'[o] : x \in Pages(p, o)) <=>
        \/ \E o \in Orders : \E p \in free_area[o] : x \in Pages(p, o)
        \/ x \in Pages(cur + Size[h], h)
  BY <1>1
<1>4. \A x : FreePage(x)' <=>
        \/ \E o \in Orders : \E p \in free_area'[o] : x \in Pages(p, o)
        \/ x \in Pages(cur, h)
  BY <1>1 DEF FreePage, Pages
<1>5. \A x : FreePage(x)' <=> FreePage(x)
  BY <1>1, <1>2, <1>3, <1>4 DEF FreePage
<1>. QED BY <1>5, FreeSetKept, SplitStepInv

LEMMA MergeKeeps ==
  ASSUME IInv, ~ wrecked, MergeStep, ~ wrecked'
  PROVE  FreeSet' = FreeSet
<1>1. PICK left \in PFN, buddy \in PFN :
        /\ porder \in Orders /\ porder + 1 \in Orders
        /\ cur \in free_area[porder] /\ buddy \in free_area[porder]
        /\ \/ buddy = cur + Size[porder] /\ left = cur
           \/ buddy = cur - Size[porder] /\ left = buddy
        /\ \A r \in Orders : free_area'[r] =
             (free_area[r] \ {cur, buddy})
                \cup (IF r = porder + 1 THEN {left} ELSE {})
        /\ pc = "merge" /\ pc' = pc
  BY MergeFacts
<1>2. \A r \in Orders : cur \in free_area[r] \/ buddy \in free_area[r] => r = porder
  BY <1>1, CleanFacts DEF FreeOK
<1>3. /\ cur \in PFN
      /\ \/ left = cur /\ left + Size[porder] = buddy
         \/ left = buddy /\ left + Size[porder] = cur
  <2>1. cur \in PFN /\ cur \in Nat /\ Size[porder] \in Nat
    BY <1>1, CleanFacts, FreeTypes, SizeFacts DEF PFN
  <2>. QED BY <1>1, <2>1
<1>4. \A x : x \in Pages(left, porder + 1) <=>
        x \in Pages(cur, porder) \/ x \in Pages(buddy, porder)
  BY <1>1, <1>3, HalfPages
<1>5. ASSUME NEW x
      PROVE  (\E o \in Orders : \E p \in free_area'[o] : x \in Pages(p, o)) <=>
               \E o \in Orders : \E p \in free_area[o] : x \in Pages(p, o)
  <2>1. ASSUME NEW o \in Orders, NEW p \in free_area'[o], x \in Pages(p, o)
        PROVE  \E r \in Orders : \E q \in free_area[r] : x \in Pages(q, r)
    <3>1. p \in free_area[o] \/ (o = porder + 1 /\ p = left)
      BY <1>1
    <3>. QED BY <3>1, <2>1, <1>1, <1>4
  <2>2. ASSUME NEW o \in Orders, NEW p \in free_area[o], x \in Pages(p, o)
        PROVE  \E r \in Orders : \E q \in free_area'[r] : x \in Pages(q, r)
    <3>1. CASE p \notin {cur, buddy}
      BY <3>1, <2>2, <1>1
    <3>2. CASE p \in {cur, buddy}
      <4>1. x \in Pages(left, porder + 1)
        BY <3>2, <2>2, <1>2, <1>4
      <4>. QED BY <4>1, <1>1
    <3>. QED BY <3>1, <3>2
  <2>. QED BY <2>1, <2>2
<1>6. \A x : FreePage(x)' <=> FreePage(x)
  BY <1>1, <1>5 DEF FreePage, Pages
<1>. QED BY <1>6, FreeSetKept, MergeStepInv

LEMMA ChunkGives ==
  ASSUME IInv, ~ wrecked, FreeChunk
  PROVE  \E o \in Orders :
           /\ FreeSet' = FreeSet \cup Pages(addr, o)
           /\ FreeSet \cap Pages(addr, o) = {}
           /\ addr \in PFN /\ addr + Size[o] - 1 \in PFN /\ Pages(addr, o) # {}
           /\ Pages(addr, o) \subseteq PFN /\ held = {} /\ held' = held
           /\ addr' = addr + Size[o] /\ rest' = rest - Size[o] /\ Size[o] <= rest
           /\ UNCHANGED <<pc, ridx, wrecked>>
<1>1. PICK o \in Orders :
        /\ addr \in PFN /\ rest \in Nat /\ Size[o] <= rest /\ WellPlaced(addr, o)
        /\ \A r \in Orders : free_area'[r] =
             IF r = o THEN free_area[r] \cup {addr} ELSE free_area[r]
        /\ addr' = addr + Size[o] /\ rest' = rest - Size[o]
        /\ pc = "boot" /\ pc' = "boot" /\ held = {}
        /\ UNCHANGED <<ridx, held, wrecked>>
  BY ChunkFacts
<1>2. addr \in Nat /\ Size[o] \in Nat \ {0} /\ NPages \in Nat /\ addr + Size[o] <= NPages
  BY <1>1, SizeFacts DEF PFN, WellPlaced
<1>3. /\ Pages(addr, o) # {} /\ Pages(addr, o) \subseteq PFN
      /\ addr + Size[o] - 1 \in PFN
  <2>1. addr \in Pages(addr, o)
    BY <1>2, SMT DEF Pages
  <2>2. \A x \in Pages(addr, o) : x \in PFN
    BY <1>2, SMT DEF Pages, PFN
  <2>3. addr + Size[o] - 1 \in PFN
    BY <1>2, SMT DEF PFN
  <2>. QED BY <2>1, <2>2, <2>3
<1>4. \A x : FreePage(x)' <=> FreePage(x) \/ x \in Pages(addr, o)
  BY <1>1 DEF FreePage, Pages
<1>5. \A x : x \in FreeSet' <=> x \in FreeSet \/ x \in Pages(addr, o)
  BY <1>4, FreeSetMeans, FreeChunkInv
<1>6. ASSUME NEW x, FreePage(x), x \in Pages(addr, o) PROVE FALSE
  <2>1. PICK r \in Orders : \E p \in free_area[r] : x \in Pages(p, r)
    BY <1>1, <1>6 DEF FreePage
  <2>2. PICK p \in free_area[r] : x \in Pages(p, r)
    BY <2>1
  <2>3. p + Size[r] <= addr /\ p \in Nat /\ Size[r] \in Nat
    BY <1>1, CleanFacts, FreeTypes, SizeFacts DEF BootOK, PFN
  <2>. QED BY <1>2, <1>6, <2>2, <2>3, SMT DEF Pages
<1>7. FreeSet \cap Pages(addr, o) = {}
  BY <1>6, FreeSetMeans, FreeChunkInv
<1>8. FreeSet' = FreeSet \cup Pages(addr, o)
  BY <1>5
<1>. QED BY <1>1, <1>3, <1>7, <1>8

(* The block in hand leaves the free pages when get_free_pages returns.    *)
LEMMA DoneTakes ==
  ASSUME IInv, ~ wrecked, AllocDone
  PROVE  FreeSet' = FreeSet \ Pages(cur, req) /\ Pages(cur, req) \subseteq FreeSet
<1>1. /\ porder = req /\ req \in Orders /\ cur \in PFN
      /\ pc = "split" /\ pc' = "idle" /\ free_area' = free_area
  BY DoneFacts
<1>2. ASSUME NEW x, NEW o \in Orders, NEW p \in free_area[o], x \in Pages(p, o),
             x \in Pages(cur, req)
      PROVE  FALSE
  <2>1. Apart(cur, req, p, o)
    BY <1>1, CleanFacts DEF SplitOK
  <2>2. p \in Nat /\ cur \in Nat /\ Size[o] \in Nat /\ Size[req] \in Nat
    BY <1>1, CleanFacts, FreeTypes, SizeFacts DEF PFN
  <2>. QED BY <1>2, <2>1, <2>2, SMT DEF Apart, Pages
<1>3. \A x : FreePage(x)' <=> FreePage(x) /\ x \notin Pages(cur, req)
  BY <1>1, <1>2 DEF FreePage, Pages
<1>4. \A x : x \in Pages(cur, req) => FreePage(x)
  BY <1>1 DEF FreePage
<1>5. \A x : x \in FreeSet' <=> x \in FreeSet /\ x \notin Pages(cur, req)
  BY <1>3, FreeSetMeans, AllocDoneInv
<1>6. \A x : x \in Pages(cur, req) => x \in FreeSet
  BY <1>4, FreeSetMeans, AllocDoneInv
<1>. QED BY <1>5, <1>6

LEMMA ReleaseGives ==
  ASSUME IInv, ~ wrecked, NEW b \in held, FreePages(b)
  PROVE  FreeSet' = FreeSet \cup Pages(b[1], b[2])
<1>1. /\ b[2] \in Orders /\ pc = "idle" /\ pc' = "merge"
      /\ \A r \in Orders : free_area'[r] =
           IF r = b[2] THEN free_area[r] \cup {b[1]} ELSE free_area[r]
  BY ReleaseFacts
<1>2. \A x : FreePage(x)' <=> FreePage(x) \/ x \in Pages(b[1], b[2])
  BY <1>1 DEF FreePage, Pages
<1>3. \A x : x \in FreeSet' <=> x \in FreeSet \/ x \in Pages(b[1], b[2])
  BY <1>2, FreeSetMeans, FreePagesInv
<1>. QED BY <1>3

(* The steps that only move blocks between lists, or do not touch them.    *)
LEMMA QuietKeeps ==
  ASSUME IInv, ~ wrecked, NextRegion \/ BootDone \/ MergeDone
  PROVE  FreeSet' = FreeSet /\ held' = held /\ wrecked' = wrecked
<1>1. /\ UNCHANGED <<free_area, held, wrecked>> /\ pc # "split" /\ pc' # "split"
  BY DEF NextRegion, BootDone, MergeDone, Transition
<1>2. \A x : FreePage(x)' <=> FreePage(x)
  BY <1>1 DEF FreePage, Pages
<1>. QED BY <1>1, <1>2, FreeSetKept, NextRegionInv, BootDoneInv, MergeDoneInv

-----------------------------------------------------------------------------
(* The refinement *)

LEMMA InitRefines == Init => Promise!SpecInit
<1>. SUFFICES ASSUME Init PROVE Promise!SpecInit
  OBVIOUS
<1>1. free_area \in [Orders -> SUBSET PFN] /\ \A o \in Orders : free_area[o] = {}
  BY DEF Init
<1>2. InHand = {}
  BY DEF Init, InHand
<1>3. FreeBlocks = {}
  BY <1>1 DEF FreeBlocks
<1>4. PagesOf(FreeBlocks \cup InHand) = {}
  BY <1>2, <1>3 DEF PagesOf
<1>. QED BY <1>4 DEF Init, Promise!SpecInit

Stutters == FreeSet' = FreeSet /\ held' = held /\ wrecked' = wrecked

LEMMA StutterRefines ==
  ASSUME Stutters
  PROVE  [Promise!SpecNext]_(Promise!svars)
<1>. QED BY DEF Stutters, FreeSet, Promise!svars

(* A chunk of page_map_free_bootmem is a gift of pages nobody has.         *)
LEMMA ChunkRefines ==
  ASSUME IInv, ~ wrecked, FreeChunk
  PROVE  Promise!SpecNext
<1>1. PICK o \in Orders :
        /\ FreeSet' = FreeSet \cup Pages(addr, o)
        /\ FreeSet \cap Pages(addr, o) = {}
        /\ addr \in PFN /\ addr + Size[o] - 1 \in PFN /\ Pages(addr, o) # {}
        /\ Pages(addr, o) \subseteq PFN /\ held = {} /\ held' = held
        /\ UNCHANGED <<pc, ridx, wrecked>>
  BY ChunkGives
<1>2. Promise!OwnedPages = {}
  BY <1>1 DEF Promise!OwnedPages
<1>3. Pages(addr, o) = addr .. addr + Size[o] - 1
  BY DEF Pages
<1>4. Promise!Donate
  <2>. DEFINE n == addr + Size[o] - 1
  <2>1. n \in PFN /\ addr .. n # {} /\ FreeSet' = FreeSet \cup (addr .. n)
        /\ addr .. n \subseteq PFN \ (FreeSet \cup Promise!OwnedPages)
    BY <1>1, <1>2, <1>3
  <2>. HIDE DEF n
  <2>. QED BY <1>1, <2>1 DEF Promise!Donate, FreeSet
<1>. QED BY <1>4 DEF Promise!SpecNext

LEMMA DoneRefines ==
  ASSUME IInv, ~ wrecked, AllocDone
  PROVE  Promise!SpecNext
<1>1. /\ req \in Orders /\ cur \in PFN /\ WellPlaced(cur, req)
      /\ held' = held \cup {<<cur, req>>} /\ wrecked' = wrecked
  BY DoneFacts
<1>2. FreeSet' = FreeSet \ Pages(cur, req) /\ Pages(cur, req) \subseteq FreeSet
  BY DoneTakes
<1>3. Promise!Run(cur, req) = Pages(cur, req)
  BY DEF Promise!Run, Pages
<1>4. Promise!Take(cur, req)
  BY <1>1, <1>2, <1>3 DEF Promise!Take, WellPlaced, Aligned, FreeSet
<1>. QED BY <1>1, <1>4 DEF Promise!SpecNext

LEMMA ReleaseRefines ==
  ASSUME IInv, ~ wrecked, NEW b \in held, FreePages(b)
  PROVE  Promise!SpecNext
<1>1. held' = held \ {b} /\ wrecked' = wrecked
  BY ReleaseFacts
<1>2. FreeSet' = FreeSet \cup Pages(b[1], b[2])
  BY ReleaseGives
<1>3. Promise!Run(b[1], b[2]) = Pages(b[1], b[2])
  BY DEF Promise!Run, Pages
<1>4. Promise!Release(b)
  BY <1>1, <1>2, <1>3 DEF Promise!Release, FreeSet
<1>. QED BY <1>4 DEF Promise!SpecNext

LEMMA MergeRefines ==
  ASSUME IInv, ~ wrecked, MergeStep
  PROVE  [Promise!SpecNext]_(Promise!svars)
<1>1. CASE wrecked'
  <2>1. wrecked' \in BOOLEAN
    BY MergeStepInv DEF IInv, TypeOK
  <2>2. wrecked' = TRUE
    BY <1>1, <2>1
  <2>. QED BY <2>2 DEF Promise!SpecNext, Promise!Break
<1>2. CASE ~ wrecked'
  <2>1. held' = held /\ wrecked' = wrecked
    BY <1>2, MergeFacts
  <2>. QED BY <1>2, <2>1, MergeKeeps, StutterRefines DEF Stutters
<1>. QED BY <1>1, <1>2

(* Whatever the sizes, the orders and the regions, the page allocator does *)
(* what PageSpec promises: alloc_pages returns an aligned run that was     *)
(* free and is then the caller's alone, free_page gives back just that     *)
(* run, and no step in between changes who has a page - up to the first    *)
(* merge of a page that is no free buddy (page_alloc.c).                   *)
THEOREM ImplementsPromise == Spec => KeepsPromise
<1>1. ASSUME IInv, [Next]_vars
      PROVE  [Promise!SpecNext]_(Promise!svars)
  <2>1. CASE UNCHANGED vars
    <3>1. Stutters
      BY <2>1 DEF Stutters, vars, FreeSet, FreeBlocks, InHand, PagesOf, Pages
    <3>. QED BY <3>1, StutterRefines
  <2>2. CASE Next
    <3>1. ~ wrecked
      BY <2>2 DEF Next
    <3>2. ASSUME NextRegion \/ BootDone \/ MergeDone
          PROVE  [Promise!SpecNext]_(Promise!svars)
      BY <1>1, <3>1, <3>2, QuietKeeps, StutterRefines DEF Stutters
    <3>3. ASSUME SplitStep
          PROVE  [Promise!SpecNext]_(Promise!svars)
      BY <1>1, <3>1, <3>3, SplitKeeps, SplitFacts, StutterRefines DEF Stutters
    <3>4. CASE Work
      BY <1>1, <3>1, <3>2, <3>3, <3>4, ChunkRefines, DoneRefines, MergeRefines
         DEF Work, Boot
    <3>5. ASSUME NEW o \in AllocOrders, AllocTake(o)
          PROVE  [Promise!SpecNext]_(Promise!svars)
      BY <1>1, <3>1, <3>5, TakeKeeps, TakeFacts, StutterRefines DEF Stutters
    <3>6. ASSUME NEW o \in AllocOrders, AllocFail(o)
          PROVE  [Promise!SpecNext]_(Promise!svars)
      BY <2>1, <3>6 DEF AllocFail
    <3>7. ASSUME NEW b \in held, FreePages(b)
          PROVE  [Promise!SpecNext]_(Promise!svars)
      BY <1>1, <3>1, <3>7, ReleaseRefines
    <3>. QED BY <2>2, <3>4, <3>5, <3>6, <3>7 DEF Next
  <2>. QED BY <1>1, <2>1, <2>2
<1>. QED
  BY <1>1, InitRefines, Inductive, PTL DEF Spec, KeepsPromise, Promise!SpecPages

-----------------------------------------------------------------------------
(* No page is lost *)

HeldPages == PagesOf(held)

LEMMA BlockPages ==
  /\ PagesOf(Blocks) = FreeSet \cup HeldPages
  /\ (PagesOf(Blocks))' = FreeSet' \cup HeldPages'
<1>1. \A A, B : PagesOf(A \cup B) = PagesOf(A) \cup PagesOf(B)
  BY DEF PagesOf
<1>2. PagesOf(Blocks) = FreeSet \cup HeldPages
  BY <1>1 DEF FreeSet, HeldPages, Blocks
<1>3. (PagesOf(Blocks))' = FreeSet' \cup HeldPages'
  BY <1>1 DEF FreeSet, HeldPages, Blocks, PagesOf, Pages
<1>. QED BY <1>2, <1>3

LEMMA AccountKept ==
  ASSUME AccountOK, FreeSet' \cup HeldPages' = FreeSet \cup HeldPages,
         pc # "boot", pc' # "boot", UNCHANGED <<addr, rest, ridx>>
  PROVE  AccountOK'
<1>1. (PagesOf(Blocks))' = PagesOf(Blocks)
  BY BlockPages
<1>. QED BY <1>1 DEF AccountOK, HandedOut, RegionPages, BeyondLimit

LEMMA AccountChunk ==
  ASSUME IInv, ~ wrecked, AccountOK, FreeChunk
  PROVE  AccountOK'
<1>1. PICK o \in Orders :
        /\ FreeSet' = FreeSet \cup Pages(addr, o)
        /\ addr \in PFN /\ held' = held
        /\ addr' = addr + Size[o] /\ rest' = rest - Size[o] /\ Size[o] <= rest
        /\ UNCHANGED <<pc, ridx, wrecked>>
  BY ChunkGives
<1>2. addr \in Nat /\ rest \in Nat /\ Size[o] \in Nat \ {0} /\ pc = "boot"
  BY CleanFacts, SizeFacts DEF TypeOK, FreeChunk
<1>3. \A x : x \in addr .. addr + rest - 1 <=>
        x \in Pages(addr, o) \/ x \in addr' .. addr' + rest' - 1
  BY <1>1, <1>2, SMT DEF Pages
<1>4. HeldPages' = HeldPages
  BY <1>1 DEF HeldPages, PagesOf, Pages
<1>5. (PagesOf(Blocks))' \cup (addr' .. addr' + rest' - 1) =
        PagesOf(Blocks) \cup (addr .. addr + rest - 1)
  <2>1. (PagesOf(Blocks))' = PagesOf(Blocks) \cup Pages(addr, o)
    BY <1>1, <1>4, BlockPages
  <2>2. addr .. addr + rest - 1 = Pages(addr, o) \cup (addr' .. addr' + rest' - 1)
    BY <1>3
  <2>. QED BY <2>1, <2>2
<1>. QED BY <1>1, <1>2, <1>5 DEF AccountOK, HandedOut, RegionPages, BeyondLimit

LEMMA AccountNext ==
  ASSUME IInv, ~ wrecked, AccountOK, NextRegion
  PROVE  AccountOK'
<1>1. /\ pc = "boot" /\ rest = 0 /\ ridx <= Len(Regions)
      /\ ~ BeyondLimit(Regions[ridx])
      /\ addr' = Regions[ridx].base /\ rest' = Regions[ridx].size
      /\ ridx' = ridx + 1 /\ UNCHANGED <<free_area, held, pc, cur, porder>>
  BY DEF NextRegion
<1>2. addr \in Nat /\ ridx \in Nat /\ ridx >= 1 /\ (ridx + 1) - 1 = ridx
  <2>1. addr \in Nat /\ ridx \in 1 .. Len(Regions) + 1
    BY CleanFacts DEF TypeOK
  <2>. QED BY <2>1, RegionFacts, SMT
<1>3. (PagesOf(Blocks))' = PagesOf(Blocks)
  BY <1>1 DEF Blocks, FreeBlocks, InHand, PagesOf, Pages
<1>4. addr .. addr + rest - 1 = {}
  <2>1. \A x : x \notin addr .. addr + rest - 1
    BY <1>1, <1>2, SMT
  <2>. QED BY <2>1
<1>5. addr' .. addr' + rest' - 1 = RegionPages(ridx)
  BY <1>1 DEF RegionPages
<1>6. \A i : i \in 1 .. ridx <=> i \in 1 .. ridx - 1 \/ i = ridx
  BY <1>2, SMT
<1>7. HandedOut(ridx) = HandedOut(ridx - 1) \cup RegionPages(ridx)
  <2>1. \A n, x : x \in HandedOut(n) <=> \E i \in 1 .. n : x \in RegionPages(i)
    BY DEF HandedOut
  <2>2. \A x : x \in HandedOut(ridx) <=> x \in HandedOut(ridx - 1) \/ x \in RegionPages(ridx)
    BY <1>6, <2>1
  <2>. QED BY <2>2
<1>8. PagesOf(Blocks) = HandedOut(ridx - 1)
  BY <1>4 DEF AccountOK
<1>9. ridx' - 1 = ridx
  BY <1>1, <1>2
<1>10. (PagesOf(Blocks))' \cup (addr' .. addr' + rest' - 1) = HandedOut(ridx' - 1)
  BY <1>3, <1>5, <1>7, <1>8, <1>9
<1>11. \A i \in 1 .. ridx' - 1 : ~ BeyondLimit(Regions[i])
  BY <1>1, <1>6, <1>9 DEF AccountOK
<1>. QED BY <1>1, <1>10, <1>11 DEF AccountOK, HandedOut, RegionPages, BeyondLimit

LEMMA AccountDone ==
  ASSUME IInv, ~ wrecked, AccountOK, BootDone
  PROVE  AccountOK'
<1>1. /\ rest = 0
      /\ ridx <= Len(Regions) => BeyondLimit(Regions[ridx])
      /\ pc = "boot" /\ pc' = "idle" /\ UNCHANGED <<addr, rest, ridx, held>>
  BY DEF BootDone, Transition
<1>2. (PagesOf(Blocks))' = PagesOf(Blocks)
  <2>1. HeldPages' = HeldPages
    BY <1>1 DEF HeldPages, PagesOf, Pages
  <2>. QED BY <2>1, BlockPages, QuietKeeps
<1>. QED BY <1>1, <1>2 DEF AccountOK, HandedOut, RegionPages, BeyondLimit

(* Each step moves pages between the blocks, or hands out more.            *)
LEMMA AccountInv ==
  ASSUME IInv, AccountOK, ~ wrecked, ~ wrecked', Next
  PROVE  AccountOK'
<1>1. ASSUME held' = held PROVE HeldPages' = HeldPages
  BY <1>1 DEF HeldPages, PagesOf, Pages
<1>2. CASE SplitStep
  <2>1. /\ held' = held /\ pc # "boot" /\ pc' # "boot" /\ UNCHANGED <<addr, rest, ridx>>
    BY <1>2, SplitFacts
  <2>. QED BY <1>1, <1>2, <2>1, SplitKeeps, AccountKept
<1>3. CASE AllocDone
  <2>1. /\ held' = held \cup {<<cur, req>>} /\ pc # "boot" /\ pc' # "boot"
        /\ UNCHANGED <<addr, rest, ridx>>
    BY <1>3, DoneFacts
  <2>2. HeldPages' = HeldPages \cup Pages(cur, req)
    <3>. DEFINE b == <<cur, req>>
    <3>0. b[1] = cur /\ b[2] = req /\ held' = held \cup {b}
      BY <2>1
    <3>. HIDE DEF b
    <3>1. PagesOf(held \cup {b}) = PagesOf(held) \cup Pages(b[1], b[2])
      BY DEF PagesOf
    <3>2. HeldPages' = PagesOf(held')
      BY DEF HeldPages, PagesOf, Pages
    <3>. QED BY <3>0, <3>1, <3>2 DEF HeldPages
  <2>3. FreeSet' = FreeSet \ Pages(cur, req) /\ Pages(cur, req) \subseteq FreeSet
    BY <1>3, DoneTakes
  <2>4. FreeSet' \cup HeldPages' = FreeSet \cup HeldPages
    BY <2>2, <2>3
  <2>. QED BY <2>1, <2>4, AccountKept
<1>4. CASE MergeStep
  <2>1. /\ held' = held /\ pc # "boot" /\ pc' # "boot" /\ UNCHANGED <<addr, rest, ridx>>
    BY <1>4, MergeFacts
  <2>. QED BY <1>1, <1>4, <2>1, MergeKeeps, AccountKept
<1>5. CASE MergeDone
  <2>1. /\ held' = held /\ pc # "boot" /\ pc' # "boot" /\ UNCHANGED <<addr, rest, ridx>>
    BY <1>5 DEF MergeDone, Transition
  <2>. QED BY <1>1, <1>5, <2>1, QuietKeeps, AccountKept
<1>6. ASSUME NEW o \in AllocOrders, AllocTake(o) PROVE AccountOK'
  <2>1. /\ held' = held /\ pc # "boot" /\ pc' # "boot" /\ UNCHANGED <<addr, rest, ridx>>
    BY <1>6, TakeFacts
  <2>. QED BY <1>1, <1>6, <2>1, TakeKeeps, AccountKept
<1>7. ASSUME NEW o \in AllocOrders, AllocFail(o) PROVE AccountOK'
  BY <1>7 DEF AllocFail, vars, AccountOK, Blocks, FreeBlocks, InHand, PagesOf,
              Pages, HandedOut, RegionPages, BeyondLimit
<1>8. ASSUME NEW b \in held, FreePages(b) PROVE AccountOK'
  <2>1. /\ held' = held \ {b} /\ pc # "boot" /\ pc' # "boot"
        /\ UNCHANGED <<addr, rest, ridx>>
    BY <1>8, ReleaseFacts
  <2>2. HeldPages' \cup Pages(b[1], b[2]) = HeldPages
    BY <2>1 DEF HeldPages, PagesOf, Pages
  <2>3. FreeSet' = FreeSet \cup Pages(b[1], b[2])
    BY <1>8, ReleaseGives
  <2>4. FreeSet' \cup HeldPages' = FreeSet \cup HeldPages
    BY <2>2, <2>3
  <2>. QED BY <2>1, <2>4, AccountKept
<1>. QED
  BY <1>2, <1>3, <1>4, <1>5, <1>6, <1>7, <1>8, AccountChunk, AccountNext, AccountDone
  DEF Next, Work, Boot

-----------------------------------------------------------------------------
(* Flags *)

LEMMA FlagsInv ==
  ASSUME IInv, FlagsOK, ~ wrecked, ~ wrecked', Next
  PROVE  FlagsOK'
<1>0. TypeOK /\ FreeOK /\ HeldOK /\ SplitOK
  BY CleanFacts
<1>1. CASE SplitStep
  <2>. DEFINE d == cur + Size[porder - 1]
  <2>1. /\ \A r \in Orders : free_area'[r] =
             IF r = porder - 1 THEN free_area[r] \cup {d} ELSE free_area[r]
        /\ free_flag' = free_flag \cup {d} /\ held' = held
    BY <1>1, SplitFacts
  <2>2. ASSUME NEW b \in held PROVE b[1] # d
    <3>1. /\ porder - 1 \in Orders /\ porder \in Orders /\ cur \in PFN
          /\ Size[porder] = 2 * Size[porder - 1] /\ pc = "split"
      BY <1>1, SplitFacts
    <3>2. Apart(cur, porder, b[1], b[2]) /\ b[1] \in PFN /\ b[2] \in Orders
      BY <1>0, <3>1, FreeTypes DEF SplitOK
    <3>3. /\ cur \in Nat /\ b[1] \in Nat /\ Size[porder] \in Nat \ {0}
          /\ Size[porder - 1] \in Nat \ {0} /\ Size[b[2]] \in Nat \ {0}
      BY <3>1, <3>2, SizeFacts DEF PFN
    <3>. QED BY <3>1, <3>2, <3>3, SMT DEF Apart
  <2>. HIDE DEF d
  <2>. QED BY <2>1, <2>2 DEF FlagsOK
<1>2. CASE AllocDone
  <2>1. /\ porder = req /\ req \in Orders /\ cur \in PFN /\ pc = "split"
        /\ held' = held \cup {<<cur, req>>} /\ free_flag' = free_flag \ {cur}
        /\ free_area' = free_area
    BY <1>2, DoneFacts
  <2>2. ASSUME NEW o \in Orders, NEW p \in free_area[o] PROVE p # cur
    <3>1. Apart(cur, porder, p, o) /\ p \in PFN
      BY <1>0, <2>1, FreeTypes DEF SplitOK
    <3>. QED BY <2>1, <3>1, ApartFacts
  <2>. QED BY <2>1, <2>2 DEF FlagsOK
<1>3. CASE MergeStep
  <2>1. PICK left \in PFN, buddy \in PFN :
          /\ porder \in Orders /\ cur \in free_area[porder] /\ buddy \in free_flag
          /\ left \in {cur, buddy}
          /\ \A r \in Orders : free_area'[r] =
               (free_area[r] \ {cur, buddy})
                  \cup (IF r = porder + 1 THEN {left} ELSE {})
          /\ UNCHANGED <<free_flag, held>>
    BY <1>3, MergeFacts
  <2>2. left \in free_flag
    BY <2>1 DEF FlagsOK
  <2>. QED BY <2>1, <2>2 DEF FlagsOK
<1>4. CASE FreeChunk
  <2>1. PICK o \in Orders :
          /\ addr \in PFN /\ free_flag' = free_flag \cup Pages(addr, o)
          /\ \A r \in Orders : free_area'[r] =
               IF r = o THEN free_area[r] \cup {addr} ELSE free_area[r]
          /\ held = {} /\ held' = held
    BY <1>4, ChunkFacts
  <2>2. addr \in Pages(addr, o)
    <3>1. addr \in Nat /\ Size[o] \in Nat \ {0}
      BY <2>1, SizeFacts DEF PFN
    <3>. QED BY <3>1, SMT DEF Pages
  <2>. QED BY <2>1, <2>2 DEF FlagsOK
<1>5. CASE NextRegion \/ BootDone \/ MergeDone
  BY <1>5 DEF NextRegion, BootDone, MergeDone, FlagsOK
<1>6. ASSUME NEW o \in AllocOrders, AllocTake(o) PROVE FlagsOK'
  <2>1. /\ UNCHANGED <<free_flag, held>>
        /\ \A r \in Orders : free_area'[r] \subseteq free_area[r]
    BY <1>6, TakeFacts
  <2>. QED BY <2>1 DEF FlagsOK
<1>7. ASSUME NEW o \in AllocOrders, AllocFail(o) PROVE FlagsOK'
  BY <1>7 DEF AllocFail, vars, FlagsOK
<1>8. ASSUME NEW b \in held, FreePages(b) PROVE FlagsOK'
  <2>1. /\ held' = held \ {b} /\ free_flag' = free_flag \cup {b[1]}
        /\ \A r \in Orders : free_area'[r] =
             IF r = b[2] THEN free_area[r] \cup {b[1]} ELSE free_area[r]
    BY <1>8, ReleaseFacts
  <2>2. ASSUME NEW c \in held, c # b PROVE c[1] # b[1]
    <3>1. Apart(c[1], c[2], b[1], b[2])
      BY <1>0, <2>2 DEF HeldOK
    <3>. QED BY <1>0, <3>1, FreeTypes, ApartFacts
  <2>. QED BY <2>1, <2>2 DEF FlagsOK
<1>. QED
  BY <1>1, <1>2, <1>3, <1>4, <1>5, <1>6, <1>7, <1>8 DEF Next, Work, Boot

(* The invariant behind BlocksComplete.                                    *)
THEOREM CompleteInductive == Spec => []Complete
<1>1. Init => Complete
  <2>. SUFFICES ASSUME Init PROVE AccountOK /\ FlagsOK
    BY DEF Complete
  <2>1. free_area \in [Orders -> SUBSET PFN] /\ \A o \in Orders : free_area[o] = {}
    BY DEF Init
  <2>2. FlagsOK
    BY <2>1 DEF Init, FlagsOK
  <2>3. FreeBlocks = {} /\ InHand = {} /\ held = {}
    BY <2>1 DEF Init, FreeBlocks, InHand
  <2>4. PagesOf(Blocks) = {}
    BY <2>3 DEF PagesOf, Blocks
  <2>5. addr = 0 /\ rest = 0 /\ ridx = 1 /\ pc = "boot"
    BY DEF Init
  <2>6. \A x : x \notin 0 .. 0 + 0 - 1 /\ x \notin 1 .. 1 - 1
    BY SMT
  <2>7. HandedOut(1 - 1) = {}
    BY <2>6 DEF HandedOut
  <2>8. AccountOK
    BY <2>4, <2>5, <2>6, <2>7 DEF AccountOK
  <2>. QED BY <2>2, <2>8
<1>2. ASSUME IInv, Complete, [Next]_vars PROVE Complete'
  <2>. SUFFICES ASSUME ~ wrecked' PROVE AccountOK' /\ FlagsOK'
    BY DEF Complete
  <2>1. CASE UNCHANGED vars
    <3>1. AccountOK /\ FlagsOK
      BY <1>2, <2>1 DEF Complete, vars
    <3>. QED
      BY <2>1, <3>1 DEF vars, AccountOK, FlagsOK, Blocks, FreeBlocks, InHand,
         PagesOf, Pages, HandedOut, RegionPages, BeyondLimit
  <2>2. CASE Next
    <3>1. ~ wrecked
      BY <2>2 DEF Next
    <3>. QED BY <1>2, <2>2, <3>1, AccountInv, FlagsInv DEF Complete
  <2>. QED BY <1>2, <2>1, <2>2
<1>. QED BY <1>1, <1>2, Inductive, PTL DEF Spec

-----------------------------------------------------------------------------
(* What a merge reads of the buddy *)

LEMMA ManagedMeans ==
  ASSUME IInv, ~ wrecked, AccountOK, pc # "boot"
  PROVE  Managed = PagesOf(Blocks)
<1>1. /\ addr \in Nat /\ rest = 0 /\ ridx \in 1 .. Len(Regions) + 1
      /\ PagesOf(Blocks) \cup (addr .. addr + rest - 1) = HandedOut(ridx - 1)
      /\ \A i \in 1 .. ridx - 1 : ~ BeyondLimit(Regions[i])
      /\ ridx <= Len(Regions) => BeyondLimit(Regions[ridx])
  BY CleanFacts DEF AccountOK, TypeOK
<1>2. \A x : x \notin addr .. addr + rest - 1
  BY <1>1, SMT
<1>3. PagesOf(Blocks) = HandedOut(ridx - 1)
  BY <1>1, <1>2
<1>4. ASSUME NEW j
      PROVE  j \in 1 .. ridx - 1 <=>
               j \in 1 .. Len(Regions) /\ \A k \in 1 .. j : ~ BeyondLimit(Regions[k])
  <2>1. Len(Regions) \in Nat
    BY RegionFacts
  <2>2. ASSUME j \in 1 .. ridx - 1
        PROVE  j \in 1 .. Len(Regions) /\ \A k \in 1 .. j : ~ BeyondLimit(Regions[k])
    <3>1. j \in 1 .. Len(Regions) /\ \A k \in 1 .. j : k \in 1 .. ridx - 1
      BY <1>1, <2>1, <2>2, SMT
    <3>. QED BY <1>1, <3>1
  <2>3. ASSUME j \in 1 .. Len(Regions), \A k \in 1 .. j : ~ BeyondLimit(Regions[k]),
               j \notin 1 .. ridx - 1
        PROVE  FALSE
    <3>1. ridx \in 1 .. j /\ ridx <= Len(Regions)
      BY <1>1, <2>1, <2>3, SMT
    <3>. QED BY <1>1, <2>3, <3>1
  <2>. QED BY <2>2, <2>3
<1>5. {j \in 1 .. Len(Regions) : \A k \in 1 .. j : ~ BeyondLimit(Regions[k])} =
        1 .. ridx - 1
  BY <1>4
<1>. QED BY <1>3, <1>5 DEF Managed, HandedOut, RegionPages

(* A page in a block lies in a free block or in one handed out.            *)
LEMMA InBlock ==
  ASSUME IInv, ~ wrecked, pc # "split", NEW x \in PagesOf(Blocks)
  PROVE  \E p \in PFN, r \in Orders :
           /\ x \in Pages(p, r) /\ WellPlaced(p, r) /\ order[p] = r
           /\ p \in free_area[r] \/ <<p, r>> \in held
<1>1. PICK b \in Blocks : x \in Pages(b[1], b[2])
  BY DEF PagesOf
<1>2. b \in FreeBlocks \/ b \in held
  BY DEF Blocks, InHand
<1>3. CASE b \in FreeBlocks
  BY <1>1, <1>3, CleanFacts DEF FreeBlocks, FreeOK
<1>4. CASE b \in held
  BY <1>1, <1>4, CleanFacts, FreeTypes DEF HeldOK
<1>. QED BY <1>2, <1>3, <1>4

(* Pages of a block and blocks that are apart, as numbers.                 *)
LEMMA SharedPage ==
  ASSUME NEW x, NEW p \in Nat, NEW q \in Nat, NEW o \in Orders, NEW r \in Orders,
         x \in Pages(p, o), x \in Pages(q, r)
  PROVE  ~ Apart(p, o, q, r)
<1>1. Size[o] \in Nat /\ Size[r] \in Nat
  BY SizeFacts
<1>. QED BY <1>1, SMT DEF Pages, Apart

LEMMA FirstPage ==
  ASSUME NEW p \in Nat, NEW o \in Orders
  PROVE  p \in Pages(p, o)
<1>1. Size[o] \in Nat \ {0}
  BY SizeFacts
<1>. QED BY <1>1, SMT DEF Pages

(* A block and its buddy are the halves of the block that starts at left.  *)
LEMMA BuddyHalves ==
  ASSUME NEW p \in PFN, NEW o \in Orders, o + 1 \in Orders, WellPlaced(p, o)
  PROVE  \E left \in PFN :
           /\ Aligned(left, o + 1) /\ Aligned(Buddy(p, o), o) /\ Buddy(p, o) \in PFN
           /\ Buddy(Buddy(p, o), o) = p /\ Buddy(p, o) # p
           /\ left + Size[o + 1] <= NPages
           /\ \/ left = p /\ Buddy(p, o) = left + Size[o]
              \/ left = Buddy(p, o) /\ p = left + Size[o]
           /\ Pages(p, o) \subseteq Pages(left, o + 1)
           /\ Pages(Buddy(p, o), o) \subseteq Pages(left, o + 1)
<1>. DEFINE s == Size[o]
<1>1. p \in Nat /\ s \in Nat \ {0} /\ Size[o + 1] = 2 * s
  BY SizeFacts DEF PFN
<1>2. PICK left \in PFN :
        /\ Buddy(p, o) \in PFN
        /\ \/ Buddy(p, o) = p + s /\ left = p
           \/ Buddy(p, o) = p - s /\ left = p - s
        /\ WellPlaced(left, o + 1)
  BY BuddyFacts
<1>3. left \in Nat /\ left % (2 * s) = 0 /\ left + 2 * s <= NPages
  BY <1>1, <1>2 DEF WellPlaced, Aligned, PFN
<1>4. PICK k \in Nat : left = k * (2 * s)
  BY <1>1, <1>3, 2 * s \in Nat \ {0}, IsMultiple
<1>5. left % s = 0 /\ (left \div s) % 2 = 0 /\ (left + s) % s = 0
  BY <1>1, <1>3, AlignedHalf
<1>6. ((left + s) \div s) % 2 # 0
  <2>1. left = (k * 2) * s
    BY <1>1, <1>4, Products
  <2>2. left + s = (k * 2) * s + 1 * s
    BY <1>1, <2>1
  <2>3. left + s = (k * 2 + 1) * s
    BY <1>1, <2>2, k * 2 \in Nat, 1 \in Nat, Products
  <2>4. (left + s) \div s = k * 2 + 1
    BY <1>1, <2>3, k * 2 + 1 \in Nat, Multiple
  <2>. QED BY <2>4, SMT
<1>7. Buddy(left, o) = left + s /\ Buddy(left + s, o) = left
  <2>1. Buddy(left, o) = left + s
    BY <1>5 DEF Buddy
  <2>2. Buddy(left + s, o) = (left + s) - s
    BY <1>6 DEF Buddy
  <2>. QED BY <1>1, <1>3, <2>1, <2>2
<1>. HIDE DEF s
<1>8. \/ left = p /\ Buddy(p, o) = left + s
      \/ left = Buddy(p, o) /\ p = left + s
  BY <1>1, <1>2, <1>3, SMT
<1>9. Buddy(Buddy(p, o), o) = p /\ Buddy(p, o) # p
  BY <1>1, <1>3, <1>7, <1>8
<1>10. Aligned(Buddy(p, o), o) /\ Aligned(left, o + 1)
  BY <1>2, <1>5, <1>8 DEF Aligned, WellPlaced, s
<1>11. \A x : x \in Pages(left, o) \/ x \in Pages(left + s, o) => x \in Pages(left, o + 1)
  BY HalfPages DEF s
<1>12. left + Size[o + 1] <= NPages
  BY <1>1, <1>3
<1>13. Pages(p, o) \subseteq Pages(left, o + 1)
       /\ Pages(Buddy(p, o), o) \subseteq Pages(left, o + 1)
  BY <1>8, <1>11
<1>. QED BY <1>2, <1>8, <1>9, <1>10, <1>12, <1>13 DEF s

LEMMA BuddyTold ==
  ASSUME IInv, ~ wrecked, Complete
  PROVE  OrderTellsBuddy
<1>. DEFINE o == porder
            d == Buddy(cur, o)
<1>. SUFFICES ASSUME pc = "merge", MergeGoesOn,
                     Buddy(cur, order[cur]) \in Managed,
                     order[Buddy(cur, order[cur])] = order[cur]
              PROVE  Buddy(cur, order[cur]) \in free_area[order[cur]]
  BY DEF OrderTellsBuddy
<1>1. /\ TypeOK /\ FreeOK /\ HeldOK /\ MergeOK /\ AccountOK /\ FlagsOK
  BY CleanFacts DEF Complete
<1>2. /\ o \in Orders /\ cur \in PFN /\ cur \in free_area[o] /\ order[cur] = o
      /\ WellPlaced(cur, o)
  BY <1>1, FreeTypes DEF MergeOK, FreeOK
<1>3. d \in free_flag /\ d \in Managed /\ order[d] = o /\ porder < MaxOrder - 1
  BY <1>2 DEF MergeGoesOn
<1>4. o + 1 \in Orders /\ \A r \in Orders : r <= o \/ o + 1 <= r
  BY <1>2, <1>3, SizeFacts, SMT DEF Orders
<1>. HIDE DEF o, d
<1>5. PICK left \in PFN :
        /\ Aligned(left, o + 1) /\ Aligned(d, o) /\ d \in PFN
        /\ Pages(cur, o) \subseteq Pages(left, o + 1)
        /\ Pages(d, o) \subseteq Pages(left, o + 1)
  BY <1>2, <1>4, BuddyHalves DEF d
<1>6. d \in PagesOf(Blocks)
  BY <1>1, <1>3, ManagedMeans
<1>7. PICK p \in PFN, r \in Orders :
        /\ d \in Pages(p, r) /\ WellPlaced(p, r) /\ order[p] = r
        /\ p \in free_area[r] \/ <<p, r>> \in held
  BY <1>6, InBlock
<1>8. /\ p \in Nat /\ d \in Nat /\ left \in Nat /\ cur \in Nat /\ Aligned(p, r)
      /\ d \in Pages(d, o) /\ cur \in Pages(cur, o)
  BY <1>2, <1>5, <1>7, FirstPage DEF PFN, WellPlaced
<1>9. CASE r <= o
  <2>1. ~ Apart(p, r, d, o)
    BY <1>2, <1>7, <1>8, SharedPage
  <2>2. d <= p
    BY <1>2, <1>5, <1>8, <1>9, <2>1, Nested
  <2>3. p <= d
    <3>1. Size[r] \in Nat
      BY SizeFacts
    <3>. QED BY <1>7, <1>8, <3>1, SMT DEF Pages
  <2>4. p = d /\ r = o
    BY <1>3, <1>7, <1>8, <2>2, <2>3, SMT
  <2>5. <<p, r>> \notin held
    BY <1>1, <1>3, <2>4 DEF FlagsOK
  <2>. QED BY <1>2, <1>7, <2>4, <2>5 DEF d
<1>10. CASE o + 1 <= r
  <2>1. d \in Pages(left, o + 1)
    BY <1>5, <1>8
  <2>2. ~ Apart(left, o + 1, p, r)
    BY <1>4, <1>7, <1>8, <2>1, SharedPage
  <2>3. p <= left /\ left + Size[o + 1] <= p + Size[r]
    BY <1>4, <1>5, <1>8, <1>10, <2>2, Nested
  <2>4. cur \in Pages(p, r)
    <3>1. cur \in Pages(left, o + 1) /\ Size[o + 1] \in Nat /\ Size[r] \in Nat
      BY <1>4, <1>5, <1>8, SizeFacts
    <3>. QED BY <1>8, <2>3, <3>1, SMT DEF Pages
  <2>5. ~ Apart(p, r, cur, o)
    BY <1>2, <1>8, <2>4, SharedPage
  <2>6. r # o
    BY <1>2, <1>10, SMT DEF Orders
  <2>7. p \notin free_area[r]
    BY <1>1, <1>2, <1>7, <2>5, <2>6 DEF FreeOK
  <2>8. <<p, r>> \notin held
    BY <1>1, <1>2, <2>5 DEF HeldOK
  <2>. QED BY <1>7, <2>7, <2>8
<1>. QED BY <1>4, <1>9, <1>10

(* Splits and merges lose no page of the regions below the limit, and the  *)
(* flag and the order of a buddy tell whether merge_free_page may take it  *)
(* (page_alloc.c:105-215).                                                 *)
THEOREM NothingLost == Spec => []BlocksComplete
<1>1. ASSUME IInv, Complete PROVE BlocksComplete
  <2>1. TypeOK
    BY <1>1 DEF IInv
  <2>2. NoPageLost
    BY <1>1, ManagedMeans DEF Complete, NoPageLost
  <2>3. OrderTellsBuddy
    <3>1. CASE wrecked
      BY <3>1 DEF OrderTellsBuddy
    <3>. QED BY <1>1, <3>1, BuddyTold
  <2>. QED BY <2>1, <2>2, <2>3 DEF BlocksComplete
<1>. QED BY <1>1, Inductive, CompleteInductive, PTL

(* Freeing a block leaves the compound heads of the blocks of other        *)
(* callers alone, however far it merges (merge_pages, page_alloc.c:191).   *)
THEOREM HeadsKept == Spec => FreeKeepsHeads
<1>. DEFINE Keeps == pc = "merge" /\ ~ wrecked' =>
              \A b \in held : \A q \in Pages(b[1], b[2]) :
                 compound_head'[q] = compound_head[q]
<1>1. ASSUME IInv, [Next]_vars PROVE [Keeps]_vars
  <2>. SUFFICES ASSUME Next, pc = "merge", ~ wrecked',
                       NEW b \in held, NEW q \in Pages(b[1], b[2])
                PROVE  compound_head'[q] = compound_head[q]
    BY <1>1
  <2>1. ~ wrecked /\ (MergeStep \/ MergeDone)
    BY DEF Next, Work, Boot, NextRegion, FreeChunk, BootDone, SplitStep, AllocDone,
           AllocTake, AllocFail, FreePages, Transition
  <2>2. CASE MergeDone
    BY <2>2 DEF MergeDone
  <2>3. CASE MergeStep
    <3>1. PICK left \in PFN, buddy \in PFN :
            /\ porder \in Orders /\ porder + 1 \in Orders
            /\ Size[porder + 1] = 2 * Size[porder]
            /\ cur \in free_area[porder] /\ buddy \in free_area[porder]
            /\ \/ buddy = cur + Size[porder] /\ left = cur
               \/ buddy = cur - Size[porder] /\ left = buddy
            /\ compound_head' = SetCompoundHead(compound_head, left, porder + 1)
      BY <1>1, <2>1, <2>3, MergeFacts
    <3>2. /\ b[1] \in PFN /\ b[2] \in Orders /\ WellPlaced(b[1], b[2])
          /\ Apart(b[1], b[2], cur, porder) /\ Apart(b[1], b[2], buddy, porder)
          /\ cur \in PFN /\ compound_head \in [PFN -> PFN]
      BY <1>1, <2>1, <3>1, CleanFacts, FreeTypes DEF HeldOK, TypeOK
    <3>3. /\ b[1] \in Nat /\ cur \in Nat /\ buddy \in Nat /\ left \in Nat
          /\ Size[porder] \in Nat \ {0} /\ Size[b[2]] \in Nat \ {0}
          /\ b[1] + Size[b[2]] <= NPages /\ NPages \in Nat
      BY <3>1, <3>2, SizeFacts DEF PFN, WellPlaced
    <3>4. q \notin Pages(left, porder + 1) /\ q \in PFN
      <4>1. q \in Nat /\ b[1] <= q /\ q < b[1] + Size[b[2]]
        BY <3>3, SMT DEF Pages
      <4>2. q < left \/ left + Size[porder + 1] <= q
        BY <3>1, <3>2, <3>3, <4>1, SMT DEF Apart
      <4>3. q \in PFN
        BY <3>3, <4>1, SMT DEF PFN
      <4>4. Size[porder + 1] \in Nat
        BY <3>1, <3>3, SMT
      <4>. QED BY <3>3, <4>1, <4>2, <4>3, <4>4, SMT DEF Pages
    <3>. QED BY <3>1, <3>2, <3>4 DEF SetCompoundHead
  <2>. QED BY <2>1, <2>2, <2>3
<1>. QED BY <1>1, Inductive, PTL DEF Spec, FreeKeepsHeads

-----------------------------------------------------------------------------
(* Free buddies are joined *)

LEMMA JoinedChunk ==
  ASSUME IInv, ~ wrecked, BuddiesJoined, Greedy, FreeChunk
  PROVE  BuddiesJoined' /\ Greedy'
<1>1. PICK o \in Orders :
        /\ addr \in PFN /\ rest \in Nat /\ Size[o] <= rest /\ WellPlaced(addr, o)
        /\ \A q \in Orders : Size[q] <= rest /\ Aligned(addr, q) => q <= o
        /\ \A r \in Orders : free_area'[r] =
             IF r = o THEN free_area[r] \cup {addr} ELSE free_area[r]
        /\ addr' = addr + Size[o] /\ rest' = rest - Size[o]
        /\ pc = "boot" /\ pc' = "boot"
  BY ChunkFacts
<1>2. addr \in Nat /\ Size[o] \in Nat \ {0}
  BY <1>1, SizeFacts DEF PFN
<1>3. ASSUME NEW r \in Orders, NEW q \in free_area[r]
      PROVE  q + Size[r] <= addr /\ q \in Nat /\ q \in PFN /\ Size[r] \in Nat \ {0}
             /\ WellPlaced(q, r)
  BY <1>1, CleanFacts, FreeTypes, SizeFacts DEF BootOK, PFN, FreeOK
<1>4. \A r \in Orders : addr \notin free_area[r]
  BY <1>2, <1>3, SMT
<1>5. ASSUME o + 1 \in Orders, NEW q \in free_area[o], q = Buddy(addr, o)
      PROVE  FALSE
  <2>1. PICK left \in PFN :
          /\ Aligned(left, o + 1)
          /\ \/ left = addr /\ Buddy(addr, o) = left + Size[o]
             \/ left = Buddy(addr, o) /\ addr = left + Size[o]
    BY <1>1, <1>5, BuddyHalves
  <2>2. q + Size[o] <= addr /\ q \in Nat
    BY <1>3
  <2>3. q = left /\ q + Size[o] = addr
    BY <1>2, <1>5, <2>1, <2>2, SMT
  <2>4. rest < Size[o]
    BY <1>1, <1>5, <2>1, <2>3 DEF Greedy
  <2>. QED BY <1>1, <1>2, <2>4, SMT
<1>6. ASSUME NEW r \in Orders, r + 1 \in Orders, NEW p \in free_area'[r],
             Buddy(p, r) \in free_area'[r]
      PROVE  FALSE
  <2>1. CASE p = addr /\ r = o
    <3>1. Buddy(addr, o) # addr
      BY <1>1, <1>6, <2>1, BuddyHalves
    <3>. QED BY <1>1, <1>5, <1>6, <2>1, <3>1
  <2>2. CASE p \in free_area[r] /\ Buddy(p, r) \in free_area[r]
    BY <1>1, <1>6, <2>2 DEF BuddiesJoined
  <2>3. CASE p \in free_area[r] /\ Buddy(p, r) = addr /\ r = o
    <3>1. Buddy(addr, o) = p
      BY <1>3, <1>6, <2>3, BuddyHalves
    <3>. QED BY <1>5, <1>6, <2>3, <3>1
  <2>. QED BY <1>1, <1>6, <2>1, <2>2, <2>3
<1>7. BuddiesJoined'
  BY <1>6 DEF BuddiesJoined, Buddy
<1>8. ASSUME NEW r \in Orders, r + 1 \in Orders, NEW p \in free_area'[r],
             p + Size[r] = addr', Aligned(p, r + 1)
      PROVE  rest' < Size[r]
  <2>1. p = addr /\ r = o
    <3>1. p \notin free_area[r]
      BY <1>1, <1>2, <1>3, <1>8, SMT
    <3>. QED BY <1>1, <3>1
  <2>2. ~ (o + 1 <= o)
    BY SMT DEF Orders
  <2>3. ~ (Size[o + 1] <= rest) /\ Size[o + 1] = 2 * Size[o]
    BY <1>1, <1>8, <2>1, <2>2, SizeFacts
  <2>. QED BY <1>1, <1>2, <2>1, <2>3, SMT
<1>9. Greedy'
  BY <1>8 DEF Greedy, Aligned
<1>. QED BY <1>7, <1>9

LEMMA JoinedRegion ==
  ASSUME RegionsApart, IInv, ~ wrecked, BuddiesJoined, Greedy, NextRegion
  PROVE  BuddiesJoined' /\ Greedy'
<1>1. /\ pc = "boot" /\ rest = 0 /\ ridx <= Len(Regions)
      /\ addr' = Regions[ridx].base
      /\ UNCHANGED <<free_area, pc, cur>>
  BY DEF NextRegion
<1>2. BuddiesJoined'
  BY <1>1 DEF BuddiesJoined, Buddy
<1>3. ASSUME NEW o \in Orders, NEW p \in free_area[o] PROVE p + Size[o] # addr'
  <2>1. /\ p + Size[o] <= addr /\ p \in Nat /\ Size[o] \in Nat \ {0}
        /\ addr \in Nat /\ rest \in Nat /\ ridx \in 1 .. Len(Regions) + 1
        /\ ridx = 1 => addr = 0 /\ rest = 0
        /\ ridx > 1 => addr + rest = Regions[ridx - 1].base + Regions[ridx - 1].size
    <3>1. TypeOK /\ BootOK /\ FreeOK
      BY CleanFacts DEF IInv
    <3>2. /\ p + Size[o] <= addr
          /\ ridx = 1 => addr = 0 /\ rest = 0
          /\ ridx > 1 =>
               addr + rest = Regions[ridx - 1].base + Regions[ridx - 1].size
      BY <1>1, <3>1 DEF BootOK
    <3>3. addr \in Nat /\ rest \in Nat /\ ridx \in 1 .. Len(Regions) + 1
      BY <3>1 DEF TypeOK
    <3>4. p \in Nat /\ Size[o] \in Nat \ {0}
      BY <3>1, FreeTypes, SizeFacts DEF PFN
    <3>. QED BY <3>2, <3>3, <3>4
  <2>2. ridx # 1
    BY <2>1, SMT
  <2>3. /\ ridx > 1 /\ ridx - 1 \in 1 .. Len(Regions) - 1 /\ (ridx - 1) + 1 = ridx
        /\ ridx \in 1 .. Len(Regions)
    BY <1>1, <2>1, <2>2, RegionFacts, SMT
  <2>4. Regions[ridx - 1].base + Regions[ridx - 1].size < Regions[(ridx - 1) + 1].base
    BY <2>3 DEF RegionsApart
  <2>5. addr + rest < Regions[ridx].base /\ Regions[ridx].base \in Nat
    BY <2>1, <2>3, <2>4, RegionFacts
  <2>. QED BY <1>1, <2>1, <2>5, SMT
<1>4. Greedy'
  BY <1>1, <1>3 DEF Greedy
<1>. QED BY <1>2, <1>4

(* The buddy a split puts on its list has the block in hand for a buddy.   *)
LEMMA JoinedSplit ==
  ASSUME IInv, ~ wrecked, BuddiesJoined, SplitStep
  PROVE  BuddiesJoined' /\ Greedy'
<1>. DEFINE h == porder - 1
            d == cur + Size[h]
<1>1. /\ h \in Orders /\ porder \in Orders /\ cur \in PFN /\ d = Buddy(cur, h)
      /\ d \in PFN /\ pc = "split" /\ pc' = "split"
      /\ \A r \in Orders : free_area'[r] =
           IF r = h THEN free_area[r] \cup {d} ELSE free_area[r]
  BY SplitFacts
<1>2. h + 1 = porder
  BY <1>1, SMT DEF Orders
<1>. HIDE DEF h, d
<1>3. WellPlaced(cur, h) /\ h + 1 \in Orders
  <2>1. WellPlaced(cur, h + 1)
    BY <1>2, SplitFacts
  <2>. QED BY <1>1, <1>2, <2>1, HalfFacts
<1>4. Buddy(d, h) = cur /\ d # cur
  BY <1>1, <1>3, BuddyHalves
<1>5. cur \notin free_area[h]
  <2>1. \A p \in free_area[h] : Apart(cur, porder, p, h) /\ p \in PFN
    BY <1>1, CleanFacts, FreeTypes DEF SplitOK
  <2>. QED BY <1>1, <2>1, ApartFacts
<1>6. ASSUME NEW r \in Orders, r + 1 \in Orders, NEW p \in free_area'[r],
             Buddy(p, r) \in free_area'[r]
      PROVE  FALSE
  <2>1. CASE p = d /\ r = h
    BY <1>1, <1>4, <1>5, <1>6, <2>1
  <2>2. CASE p \in free_area[r] /\ Buddy(p, r) \in free_area[r]
    BY <1>1, <1>6, <2>2 DEF BuddiesJoined
  <2>3. CASE p \in free_area[r] /\ Buddy(p, r) = d /\ r = h
    <3>1. p \in PFN /\ WellPlaced(p, r)
      BY <2>3, CleanFacts, FreeTypes DEF FreeOK
    <3>2. Buddy(Buddy(p, r), r) = p
      BY <1>6, <3>1, BuddyHalves
    <3>. QED BY <1>4, <1>5, <2>3, <3>2
  <2>. QED BY <1>1, <1>6, <2>1, <2>2, <2>3
<1>. QED BY <1>1, <1>6 DEF BuddiesJoined, Buddy, Greedy

LEMMA JoinedRelease ==
  ASSUME IInv, ~ wrecked, BuddiesJoined, NEW b \in held, FreePages(b)
  PROVE  BuddiesJoined' /\ Greedy'
<1>1. /\ b[1] \in PFN /\ b[2] \in Orders
      /\ pc = "idle" /\ pc' = "merge" /\ cur' = b[1]
      /\ \A r \in Orders : free_area'[r] =
           IF r = b[2] THEN free_area[r] \cup {b[1]} ELSE free_area[r]
  BY ReleaseFacts
<1>2. ASSUME NEW r \in Orders, r + 1 \in Orders, NEW p \in free_area'[r],
             Buddy(p, r) \in free_area'[r]
      PROVE  cur' \in {p, Buddy(p, r)}
  <2>1. CASE p \in free_area[r] /\ Buddy(p, r) \in free_area[r]
    BY <1>1, <1>2, <2>1 DEF BuddiesJoined
  <2>. QED BY <1>1, <1>2, <2>1
<1>. QED BY <1>1, <1>2 DEF BuddiesJoined, Buddy, Greedy

LEMMA JoinedMerge ==
  ASSUME IInv, ~ wrecked, ~ wrecked', BuddiesJoined, MergeStep
  PROVE  BuddiesJoined' /\ Greedy'
<1>1. PICK left \in PFN, buddy \in PFN :
        /\ \A r \in Orders : free_area'[r] =
             (free_area[r] \ {cur, buddy})
                \cup (IF r = porder + 1 THEN {left} ELSE {})
        /\ pc = "merge" /\ pc' = pc /\ cur' = left
  BY MergeFacts
<1>2. ASSUME NEW r \in Orders, r + 1 \in Orders, NEW p \in free_area'[r],
             Buddy(p, r) \in free_area'[r]
      PROVE  cur' \in {p, Buddy(p, r)}
  <2>1. CASE p # left /\ Buddy(p, r) # left
    <3>1. /\ p \in free_area[r] /\ Buddy(p, r) \in free_area[r]
          /\ p # cur /\ Buddy(p, r) # cur
      BY <1>1, <1>2, <2>1
    <3>. QED BY <1>2, <3>1 DEF BuddiesJoined
  <2>. QED BY <1>1, <2>1
<1>. QED BY <1>1, <1>2 DEF BuddiesJoined, Buddy, Greedy

LEMMA JoinedMergeDone ==
  ASSUME IInv, ~ wrecked, BuddiesJoined, FlagsOK, MergeDone
  PROVE  BuddiesJoined' /\ Greedy'
<1>1. ~ MergeGoesOn /\ pc = "merge" /\ pc' = "idle" /\ free_area' = free_area
  BY DEF MergeDone, Transition
<1>2. /\ porder \in Orders /\ cur \in free_area[porder] /\ order[cur] = porder
      /\ FreeOK
  BY <1>1, CleanFacts DEF MergeOK, FreeOK
<1>3. ASSUME NEW r \in Orders, r + 1 \in Orders, NEW p \in free_area[r],
             Buddy(p, r) \in free_area[r]
      PROVE  FALSE
  <2>1. cur \in {p, Buddy(p, r)}
    BY <1>1, <1>3 DEF BuddiesJoined
  <2>2. r = porder
    BY <1>2, <1>3, <2>1 DEF FreeOK
  <2>3. Buddy(Buddy(p, r), r) = p
    BY <1>2, <1>3, CleanFacts, FreeTypes, BuddyHalves DEF FreeOK
  <2>4. Buddy(cur, porder) \in free_area[porder]
    BY <1>3, <2>1, <2>2, <2>3
  <2>5. Buddy(cur, porder) \in free_flag
    BY <1>2, <2>4 DEF FlagsOK
  <2>6. porder < MaxOrder - 1
    BY <1>3, <2>2, SizeFacts, SMT DEF Orders
  <2>. QED BY <1>1, <1>2, <2>5, <2>6 DEF MergeGoesOn
<1>. QED BY <1>1, <1>3 DEF BuddiesJoined, Buddy, Greedy

LEMMA JoinedInv ==
  ASSUME RegionsApart, IInv, ~ wrecked, ~ wrecked', BuddiesJoined, Greedy, FlagsOK, Next
  PROVE  BuddiesJoined' /\ Greedy'
<1>1. CASE AllocDone
  <2>1. free_area' = free_area /\ pc = "split" /\ pc' = "idle"
    BY <1>1, DoneFacts
  <2>. QED BY <2>1 DEF BuddiesJoined, Buddy, Greedy
<1>2. CASE BootDone
  <2>1. free_area' = free_area /\ pc = "boot" /\ pc' = "idle"
    BY <1>2 DEF BootDone, Transition
  <2>. QED BY <2>1 DEF BuddiesJoined, Buddy, Greedy
<1>3. ASSUME NEW o \in AllocOrders, AllocTake(o) PROVE BuddiesJoined' /\ Greedy'
  <2>1. /\ \A r \in Orders : free_area'[r] \subseteq free_area[r]
        /\ pc = "idle" /\ pc' = "split"
    BY <1>3, TakeFacts
  <2>. QED BY <2>1 DEF BuddiesJoined, Buddy, Greedy
<1>4. ASSUME NEW o \in AllocOrders, AllocFail(o) PROVE BuddiesJoined' /\ Greedy'
  BY <1>4 DEF AllocFail, vars, BuddiesJoined, Buddy, Greedy, Aligned
<1>. QED
  BY <1>1, <1>2, <1>3, <1>4, JoinedChunk, JoinedRegion, JoinedSplit, JoinedRelease,
     JoinedMerge, JoinedMergeDone DEF Next, Work, Boot

(* While no call is in progress, two free buddies of an order below the    *)
(* largest have been joined, by a merge or by page_map_free_bootmem taking *)
(* the largest chunk: for regions that do not adjoin.                      *)
THEOREM BuddiesAreJoined ==
  ASSUME RegionsApart
  PROVE  Spec => []Joined
<1>1. Init => Joined
  BY DEF Init, Joined, BuddiesJoined, Greedy
<1>2. ASSUME IInv, Complete, Joined, [Next]_vars PROVE Joined'
  <2>1. CASE UNCHANGED vars
    BY <1>2, <2>1 DEF vars, Joined, BuddiesJoined, Greedy, Buddy, Aligned
  <2>2. CASE Next
    <3>. SUFFICES ASSUME ~ wrecked' PROVE BuddiesJoined' /\ Greedy'
      BY DEF Joined
    <3>1. ~ wrecked
      BY <2>2 DEF Next
    <3>2. BuddiesJoined /\ Greedy /\ FlagsOK
      BY <1>2, <3>1 DEF Joined, Complete
    <3>. QED BY <1>2, <2>2, <3>1, <3>2, JoinedInv
  <2>. QED BY <1>2, <2>1, <2>2
<1>. QED BY <1>1, <1>2, Inductive, CompleteInductive, PTL DEF Spec

(* With no free block of the order asked for, the smallest free block in   *)
(* an aligned run of free pages would have a free buddy in the run.        *)
LEMMA NoRun ==
  ASSUME IInv, ~ wrecked, BuddiesJoined, pc = "idle",
         NEW o \in AllocOrders, NoBlock(o),
         NEW p \in PFN, Aligned(p, o), Pages(p, o) \subseteq PagesOf(FreeBlocks)
  PROVE  FALSE
<1>. DEFINE Inside(r) == \E q \in free_area[r] : ~ Apart(q, r, p, o)
            Few == {r \in Orders : Inside(r)}
<1>1. TypeOK /\ FreeOK /\ o \in Orders /\ p \in Nat
  BY CleanFacts, OrdersAssumption, SizeFacts DEF Orders, PFN
<1>2. ASSUME NEW x \in Pages(p, o)
      PROVE  \E r \in Orders : \E q \in free_area[r] : x \in Pages(q, r)
  <2>1. PICK b \in FreeBlocks : x \in Pages(b[1], b[2])
    BY <1>2 DEF PagesOf
  <2>2. b[2] \in Orders /\ b[1] \in free_area[b[2]]
    BY DEF FreeBlocks
  <2>. QED BY <2>1, <2>2
<1>3. ASSUME NEW r \in Orders, NEW q \in free_area[r]
      PROVE  /\ q \in Nat /\ q \in PFN /\ Aligned(q, r) /\ WellPlaced(q, r) /\ r < o
  <2>1. q \in PFN /\ WellPlaced(q, r)
    BY <1>1, <1>3, FreeTypes DEF FreeOK
  <2>2. ~ (r >= o)
    BY <1>3 DEF NoBlock
  <2>3. r < o
    BY <1>1, <2>2, SMT DEF Orders
  <2>. QED BY <2>1, <2>3 DEF WellPlaced, PFN
<1>4. Few \subseteq Nat /\ Few # {}
  <2>1. p \in Pages(p, o)
    BY <1>1, FirstPage
  <2>2. PICK r \in Orders : \E q \in free_area[r] : p \in Pages(q, r)
    BY <1>2, <2>1
  <2>3. PICK q \in free_area[r] : p \in Pages(q, r)
    BY <2>2
  <2>4. ~ Apart(q, r, p, o)
    BY <1>1, <1>3, <2>1, <2>3, SharedPage
  <2>. QED BY <2>3, <2>4 DEF Orders
<1>5. PICK r \in Few : \A k \in Few : r <= k
  BY <1>4, LeastNat
<1>6. PICK q \in free_area[r] : ~ Apart(q, r, p, o)
  BY <1>5
<1>7. r \in Orders /\ q \in Nat /\ q \in PFN /\ Aligned(q, r) /\ WellPlaced(q, r) /\ r < o
  BY <1>3, <1>5, <1>6
<1>8. r + 1 \in Orders /\ r + 1 <= o
  BY <1>1, <1>7, SizeFacts, SMT DEF Orders
<1>. DEFINE d == Buddy(q, r)
<1>9. PICK left \in PFN :
        /\ Aligned(left, r + 1) /\ Aligned(d, r) /\ d \in PFN /\ d # q
        /\ left + Size[r + 1] <= NPages
        /\ \/ left = q /\ d = left + Size[r]
           \/ left = d /\ q = left + Size[r]
  BY <1>7, <1>8, BuddyHalves
<1>. HIDE DEF d
<1>10. /\ Size[r] \in Nat \ {0} /\ Size[r + 1] = 2 * Size[r] /\ Size[o] \in Nat \ {0}
       /\ left \in Nat /\ d \in Nat
  BY <1>1, <1>7, <1>8, <1>9, SizeFacts DEF PFN
<1>11. ~ Apart(left, r + 1, p, o)
  BY <1>1, <1>6, <1>7, <1>9, <1>10, SMT DEF Apart
<1>12. p <= left /\ left + Size[r + 1] <= p + Size[o]
  BY <1>1, <1>8, <1>9, <1>10, <1>11, Nested
<1>13. d \in Pages(p, o)
  BY <1>1, <1>9, <1>10, <1>12, SMT DEF Pages
<1>14. PICK t \in Orders : \E e \in free_area[t] : d \in Pages(e, t)
  BY <1>2, <1>13
<1>15. PICK e \in free_area[t] : d \in Pages(e, t)
  BY <1>14
<1>16. e \in Nat /\ Aligned(e, t) /\ WellPlaced(e, t)
  BY <1>3, <1>15
<1>17. ~ Apart(e, t, p, o)
  BY <1>1, <1>13, <1>15, <1>16, SharedPage
<1>18. r <= t
  BY <1>5, <1>15, <1>17
<1>19. ~ Apart(d, r, e, t)
  BY <1>7, <1>10, <1>15, <1>16, SharedPage, FirstPage
<1>20. CASE t = r
  <2>1. e <= d /\ d + Size[r] <= e + Size[t]
    BY <1>7, <1>9, <1>10, <1>16, <1>18, <1>19, Nested
  <2>2. d = e
    BY <1>10, <1>16, <1>20, <2>1, SMT
  <2>3. d \in free_area[r]
    BY <1>15, <1>20, <2>2
  <2>. QED BY <1>6, <1>7, <1>8, <2>3 DEF BuddiesJoined, d
<1>21. CASE t # r
  <2>1. r + 1 <= t /\ t \in Orders
    BY <1>7, <1>14, <1>18, <1>21, SMT DEF Orders
  <2>2. ~ Apart(left, r + 1, e, t)
    BY <1>7, <1>9, <1>10, <1>16, <1>19, SizeFacts, SMT DEF Apart
  <2>3. e <= left /\ left + Size[r + 1] <= e + Size[t]
    BY <1>8, <1>9, <1>10, <1>16, <2>1, <2>2, Nested
  <2>4. ~ Apart(q, r, e, t)
    BY <1>7, <1>9, <1>10, <1>16, <2>1, <2>3, SizeFacts, SMT DEF Apart
  <2>5. q # e
    BY <1>1, <1>6, <1>7, <1>15, <1>21 DEF FreeOK
  <2>. QED BY <1>1, <1>6, <1>7, <1>14, <1>15, <2>4, <2>5 DEF FreeOK
<1>. QED BY <1>20, <1>21

(* alloc_pages returns NULL only when no aligned run of free pages of the  *)
(* size asked for is left: whatever was split, freed and merged before,    *)
(* for regions that do not adjoin (two that do are handed out as separate  *)
(* chunks, which no later call joins).                                     *)
THEOREM NullMeansNoRun ==
  ASSUME RegionsApart
  PROVE  Spec => []NullOnlyWhenNoRun
<1>1. ASSUME IInv, Joined PROVE NullOnlyWhenNoRun
  <2>. SUFFICES ASSUME ~ wrecked, pc = "idle", NEW o \in AllocOrders, NoBlock(o),
                       NEW p \in PFN, Aligned(p, o),
                       Pages(p, o) \subseteq PagesOf(FreeBlocks)
                PROVE  FALSE
    BY DEF NullOnlyWhenNoRun
  <2>1. BuddiesJoined
    BY <1>1 DEF Joined
  <2>. QED BY <1>1, <2>1, NoRun
<1>. QED BY <1>1, Inductive, BuddiesAreJoined, PTL
==============================================================================
