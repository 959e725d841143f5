--------------------------- MODULE MemBlockProofs ---------------------------
(***************************************************************************)
(* No page is lost or given out twice by src/mm/memblock.c, for every page *)
(* size, every e820 map and every list of reservations and allocations.    *)
(***************************************************************************)
EXTENDS MemBlockProps, TLAPS

(* A multiple of s has no remainder.                                       *)
LEMMA Multiple ==
  ASSUME NEW k \in Nat, NEW s \in Nat \ {0}
  PROVE  (k * s) % s = 0 /\ (k * s) \div s = k /\ k * s \in Nat
<1>1. k * s \in Nat
  BY SMT
<1>2. (k * s) \div s = k
  BY SMT
<1>3. (k * s) % s = 0
  BY SMT
<1>. QED BY <1>1, <1>2, <1>3

LEMMA IsMultiple ==
  ASSUME NEW p \in Nat, NEW s \in Nat \ {0}, p % s = 0
  PROVE  \E k \in Nat : p = k * s
<1>. QED BY SMT

(* Multiples of a multiple, and their sum.                                 *)
LEMMA Products ==
  ASSUME NEW j \in Nat, NEW k \in Nat, NEW s \in Nat
  PROVE  /\ j * (k * s) = (j * k) * s /\ j * k \in Nat
         /\ j * s + k * s = (j + k) * s
<1>1. j * (k * s) = (j * k) * s
  BY SMT
<1>2. j * k \in Nat
  BY SMT
<1>3. j * s + k * s = (j + k) * s
  BY SMT
<1>. QED BY <1>1, <1>2, <1>3

(* A block that starts below a multiple of its size ends at or below it.   *)
LEMMA AlignedFits ==
  ASSUME NEW p \in Nat, NEW n \in Nat, NEW s \in Nat \ {0},
         p % s = 0, n % s = 0, p < n
  PROVE  p + s <= n
<1>1. PICK k \in Nat : p = k * s
  BY SMT
<1>2. PICK m \in Nat : n = m * s
  BY SMT
<1>3. k < m
  BY <1>1, <1>2, SMT
<1>4. (k + 1) * s <= m * s
  BY <1>3, SMT
<1>. QED BY <1>1, <1>2, <1>4, SMT

Aligned(a) == a % PageSize = 0
Pages      == {a \in Nat : Aligned(a)}

Rec         == [base : Nat, size : Nat]
Has(r, a)   == r.base <= a /\ a < r.base + r.size

(* One of the first n regions holds a.                                     *)
Cov(rs, n, a) == \E k \in 0 .. n - 1 : Has(rs[k], a)

(* The first n regions are sorted with room between them, and not empty.   *)
Strict(rs, n) ==
  \A k, l \in 0 .. n - 1 : k < l => rs[k].base + rs[k].size < rs[l].base
Full(rs, n) == \A k \in 0 .. n - 1 : rs[k].size > 0

Types ==
  /\ TypeOK
  /\ table \in Tables /\ calls \in Nat
  /\ phase = "detect" => calls <= Len(table) /\ cnt >= 1 /\ reserved = {}
  /\ phase # "alloc" => given = <<>> /\ lost = {}
  /\ pc = "add" => phase = "detect"
  /\ pc = "del" => phase # "detect" /\ want.size > 0
  /\ pc # "idle" => i <= cnt /\ Aligned(base) /\ Aligned(nend)
  /\ want \in [addr : Nat, size : Nat]
  /\ given \in Seq([addr : Nat, size : Nat])
  /\ avail \subseteq Pages

(* While the map is read the regions, with what is still to be added, hold *)
(* the memory of the entries so far, also where they overlap.              *)
Covered ==
  phase = "detect" =>
    \A a \in Pages :
      a \in avail <=> \/ Cov(regions, cnt, a)
                      \/ pc = "add" /\ base <= a /\ a < nend

(* The region of an entry of the map.                                      *)
Lo(e) == RoundDown(Greater(table[e].addr, Start))
Hi(e) == RoundUp(table[e].addr + table[e].size)

Empty == avail = {} /\ cnt = 1 /\ regions[0] = Region(0, 0)

Shape == Empty \/ (Strict(regions, cnt) /\ Full(regions, cnt))

(* Each region is that of another entry of the map.                        *)
Entries ==
  phase = "detect" =>
    /\ \/ Empty
       \/ \A k \in 0 .. cnt - 1 : \E e \in Used :
            /\ e <= calls /\ (pc = "add" => e # calls)
            /\ regions[k] = Region(Lo(e), Hi(e) - Lo(e))
    /\ pc = "add" =>
         /\ ~ Empty /\ calls \in Used
         /\ base = Lo(calls) /\ nend = Hi(calls)
         /\ \A k \in 0 .. i - 1 : End(regions[k]) < base

(* What the regions are to hold, and the pages a removal is about.         *)
Rest   == avail \ (reserved \cup GivenPages \cup lost)
From   == RoundDown(want.addr)
Doomed == {a \in Pages : From <= a /\ a < nend}

(* The regions before i are below the pages to remove, and of those from i *)
(* on none is between them and base.                                       *)
Removing ==
  pc = "del" =>
    /\ nend = RoundUp(want.addr + want.size)
    /\ From <= base
    /\ \A k \in 0 .. i - 1 : End(regions[k]) <= From
    /\ \A k \in i .. cnt - 1 : base = From \/ base <= regions[k].base

(* The regions hold the rest, with some of the pages to remove gone.       *)
Kept ==
  phase # "detect" =>
    \A a \in Pages :
      /\ Cov(regions, cnt, a) => a \in Rest
      /\ a \in Rest => Cov(regions, cnt, a) \/ (pc = "del" /\ a \in Doomed)

(* The block memblock_alloc found is free, and in one region until that is *)
(* cut, after which no region starts at its end.                           *)
Found ==
  phase = "alloc" /\ pc = "del" =>
    /\ Aligned(want.addr) /\ want.addr >= Start /\ want.addr + want.size <= Limit
    /\ Doomed \subseteq Rest
    /\ \/ /\ base = From
          /\ \E k \in i .. cnt - 1 : regions[k].base <= From /\ nend <= End(regions[k])
       \/ \A k \in 0 .. cnt - 1 : regions[k].base # nend

SepInv == Separate => Shape /\ Entries /\ Removing /\ Kept /\ Found /\ AllocFresh

IInv == Types /\ Covered /\ SepInv

-----------------------------------------------------------------------------
(* Pages *)

LEMMA Sizes ==
  /\ PageSize \in Nat /\ PageSize > 0
  /\ Start \in Nat /\ Limit \in Nat /\ Aligned(Start)
  /\ MaxRegions \in Nat /\ MaxRegions > 0
  /\ MaxReserves \in Nat /\ MaxAllocs \in Nat
<1>. QED BY MemBlockAssumption DEF Aligned

LEMMA Down ==
  ASSUME NEW a \in Nat
  PROVE  /\ RoundDown(a) \in Nat /\ Aligned(RoundDown(a))
         /\ RoundDown(a) <= a /\ a < RoundDown(a) + PageSize
<1>. DEFINE q == a \div PageSize
            r == a % PageSize
<1>1. q \in Nat /\ r \in Nat /\ r < PageSize /\ a = q * PageSize + r
  <2>1. PageSize \in Nat \ {0}
    BY Sizes
  <2>. QED BY <2>1, SMT
<1>. HIDE DEF q, r
<1>2. q * PageSize \in Nat /\ (q * PageSize) % PageSize = 0
  BY <1>1, Sizes, Multiple
<1>3. a - r = q * PageSize
  BY <1>1, <1>2
<1>4. RoundDown(a) = q * PageSize
  BY <1>3 DEF RoundDown, r
<1>. QED BY <1>1, <1>2, <1>4, Sizes DEF Aligned

LEMMA Up ==
  ASSUME NEW a \in Nat
  PROVE  /\ RoundUp(a) \in Nat /\ Aligned(RoundUp(a))
         /\ a <= RoundUp(a) /\ RoundUp(a) < a + PageSize
<1>1. a + (PageSize - 1) \in Nat
  BY Sizes
<1>2. RoundUp(a) = RoundDown(a + (PageSize - 1))
  BY DEF RoundUp
<1>. QED BY <1>1, <1>2, Down, Sizes

(* Pages that are not the same are a page apart.                           *)
LEMMA PageApart ==
  ASSUME NEW a \in Pages, NEW b \in Pages, a < b
  PROVE  a + PageSize <= b
<1>1. a \in Nat /\ b \in Nat /\ a % PageSize = 0 /\ b % PageSize = 0
      /\ PageSize \in Nat \ {0}
  BY Sizes DEF Pages, Aligned
<1>. QED BY <1>1, AlignedFits

LEMMA AlignedOnes ==
  ASSUME NEW a \in Pages
  PROVE  RoundDown(a) = a /\ RoundUp(a) = a
<1>1. a \in Nat /\ RoundDown(a) \in Pages /\ RoundUp(a) \in Pages
  BY Down, Up DEF Pages
<1>2. ~ (RoundDown(a) < a)
  BY <1>1, PageApart, Down, Sizes
<1>3. ~ (a < RoundUp(a))
  BY <1>1, PageApart, Up, Sizes
<1>. QED BY <1>1, <1>2, <1>3, Down, Up

LEMMA AlignedSums ==
  ASSUME NEW a \in Pages, NEW b \in Pages
  PROVE  a + b \in Pages /\ (a <= b => b - a \in Pages)
<1>1. a \in Nat /\ b \in Nat /\ PageSize \in Nat \ {0}
  BY Sizes DEF Pages
<1>2. PICK j \in Nat : a = j * PageSize
  BY <1>1, IsMultiple DEF Pages, Aligned
<1>3. PICK k \in Nat : b = k * PageSize
  BY <1>1, IsMultiple DEF Pages, Aligned
<1>4. a + b = (j + k) * PageSize /\ j + k \in Nat
  BY <1>1, <1>2, <1>3, Products
<1>5. a + b \in Pages
  <2>1. (j + k) * PageSize \in Nat /\ ((j + k) * PageSize) % PageSize = 0
    BY <1>1, <1>4, Multiple
  <2>. QED BY <2>1, <1>4 DEF Pages, Aligned
<1>6. ASSUME a <= b PROVE b - a \in Pages
  <2>1. j <= k
    <3>. SUFFICES ASSUME k < j PROVE FALSE
      BY <1>2, <1>3
    <3>1. j = k + (j - k) /\ j - k \in Nat /\ j - k > 0
      OBVIOUS
    <3>2. k * PageSize + (j - k) * PageSize = (k + (j - k)) * PageSize
      BY <3>1, <1>1, Products
    <3>3. (j - k) * PageSize > 0
      BY <3>1, <1>1, SMT
    <3>4. (j - k) * PageSize \in Nat /\ k * PageSize \in Nat
      BY <3>1, <1>1, Multiple
    <3>. QED BY <3>1, <3>2, <3>3, <3>4, <1>1, <1>2, <1>3, <1>6
  <2>2. k - j \in Nat /\ j + (k - j) = k
    BY <2>1
  <2>3. j * PageSize + (k - j) * PageSize = (j + (k - j)) * PageSize
    BY <2>2, <1>1, Products
  <2>4. (k - j) * PageSize \in Nat /\ ((k - j) * PageSize) % PageSize = 0
    BY <2>2, <1>1, Multiple
  <2>5. b - a = (k - j) * PageSize
    BY <2>2, <2>3, <2>4, <1>1, <1>2, <1>3
  <2>. QED BY <2>4, <2>5 DEF Pages, Aligned
<1>. QED BY <1>5, <1>6

(* A page below the end rounded up starts below the end.                   *)
LEMMA BelowUp ==
  ASSUME NEW a \in Pages, NEW e \in Nat
  PROVE  a < RoundUp(e) <=> a < e
<1>1. a \in Nat /\ RoundUp(e) \in Pages /\ RoundUp(e) \in Nat
  BY Up DEF Pages
<1>2. a < RoundUp(e) => a + PageSize <= RoundUp(e)
  BY <1>1, PageApart
<1>. QED BY <1>1, <1>2, Up, Sizes

LEMMA PagesInDef ==
  ASSUME NEW b \in Nat, NEW e \in Nat
  PROVE  \A a : a \in PagesIn(b, e) <=> a \in Pages /\ RoundDown(b) <= a /\ a < e
<1>1. RoundDown(b) \in Nat
  BY Down
<1>. QED BY <1>1 DEF PagesIn, Pages, Aligned

LEMMA PagesForDef ==
  ASSUME NEW w \in [addr : Nat, size : Nat]
  PROVE  \A a : a \in PagesFor(w) <=>
               a \in Pages /\ RoundDown(w.addr) <= a /\ a < RoundUp(w.addr + w.size)
<1>1. w.addr \in Nat /\ w.addr + w.size \in Nat
  OBVIOUS
<1>. QED BY <1>1, PagesInDef, BelowUp DEF PagesFor

-----------------------------------------------------------------------------
(* The array of regions *)

Arrays      == [0 .. MaxRegions -> Rec]
Whole(rs, n) == \A k \in 0 .. n - 1 : rs[k].base \in Pages /\ rs[k].size \in Pages

LEMMA Bounds ==
  ASSUME NEW rs \in Arrays, NEW k \in 0 .. MaxRegions
  PROVE  rs[k] \in Rec /\ rs[k].base \in Nat /\ rs[k].size \in Nat
<1>. QED BY DEF Arrays, Rec

LEMMA PagesOfDef ==
  ASSUME NEW r \in Rec, r.base \in Pages
  PROVE  \A a : a \in PagesOf(r) <=> a \in Pages /\ Has(r, a)
<1>1. r.base \in Nat /\ r.base + r.size \in Nat /\ RoundDown(r.base) = r.base
  BY AlignedOnes DEF Rec
<1>. QED BY <1>1, PagesInDef DEF PagesOf, End, Has

LEMMA FreeDef ==
  ASSUME TypeOK
  PROVE  \A a : a \in FreePages <=> a \in Pages /\ Cov(regions, cnt, a)
<1>1. \A k \in 0 .. cnt - 1 : regions[k] \in Rec /\ regions[k].base \in Pages
  <2>. TAKE k \in 0 .. cnt - 1
  <2>1. k \in 0 .. MaxRegions
    BY Sizes DEF TypeOK
  <2>2. regions[k] \in Rec
    BY <2>1 DEF TypeOK, Rec
  <2>3. regions[k].base % PageSize = 0
    BY DEF TypeOK, InUse
  <2>. QED BY <2>2, <2>3 DEF Rec, Pages, Aligned
<1>2. \A a : a \in FreePages <=> \E k \in 0 .. cnt - 1 : a \in PagesOf(regions[k])
  BY DEF FreePages, InUse
<1>. QED BY <1>1, <1>2, PagesOfDef DEF Cov

LEMMA Inserts ==
  ASSUME NEW rs \in Arrays, NEW n \in 0 .. MaxRegions - 1, NEW k \in 0 .. n, NEW r \in Rec
  PROVE  /\ Insert(rs, n, k, r) \in Arrays
         /\ \A m \in 0 .. k - 1 : Insert(rs, n, k, r)[m] = rs[m]
         /\ Insert(rs, n, k, r)[k] = r
         /\ \A m \in k + 1 .. n : Insert(rs, n, k, r)[m] = rs[m - 1]
<1>0. n \in Nat /\ k \in Nat /\ k <= n /\ n < MaxRegions /\ MaxRegions \in Nat
  BY Sizes
<1>. DEFINE M == Move(rs, k + 1, k, n - k)
<1>1. M = [m \in 0 .. MaxRegions |-> IF m \in k + 1 .. n THEN rs[m - 1] ELSE rs[m]]
  <2>1. DOMAIN rs = 0 .. MaxRegions
    BY DEF Arrays
  <2>2. (k + 1) + (n - k) - 1 = n
    BY <1>0
  <2>3. \A m \in 0 .. MaxRegions : m - (k + 1) + k = m - 1
    BY <1>0
  <2>4. M = [m \in DOMAIN rs |-> IF m \in k + 1 .. (k + 1) + (n - k) - 1
                                 THEN rs[m - (k + 1) + k] ELSE rs[m]]
    BY DEF Move
  <2>. QED BY <2>1, <2>2, <2>3, <2>4
<1>. HIDE DEF M
<1>2. \A m \in 0 .. MaxRegions : M[m] \in Rec
  <2>. TAKE m \in 0 .. MaxRegions
  <2>1. m \in k + 1 .. n => m - 1 \in 0 .. MaxRegions
    BY <1>0
  <2>. QED BY <2>1, <1>1 DEF Arrays
<1>3. M \in Arrays
  BY <1>1, <1>2 DEF Arrays
<1>4. Insert(rs, n, k, r) = [M EXCEPT ![k] = r]
  BY DEF Insert, M
<1>5. k \in 0 .. MaxRegions /\ \A m \in 0 .. n : m \in 0 .. MaxRegions
  BY <1>0
<1>6. Insert(rs, n, k, r) \in Arrays /\ Insert(rs, n, k, r)[k] = r
  BY <1>3, <1>4, <1>5 DEF Arrays
<1>7. \A m \in 0 .. MaxRegions : m # k => Insert(rs, n, k, r)[m] = M[m]
  BY <1>3, <1>4 DEF Arrays
<1>8. ASSUME NEW m \in 0 .. k - 1 PROVE Insert(rs, n, k, r)[m] = rs[m]
  <2>1. m \in 0 .. MaxRegions /\ m # k /\ m \notin k + 1 .. n
    BY <1>0
  <2>. QED BY <2>1, <1>1, <1>7
<1>9. ASSUME NEW m \in k + 1 .. n PROVE Insert(rs, n, k, r)[m] = rs[m - 1]
  <2>1. m \in 0 .. MaxRegions /\ m # k
    BY <1>0
  <2>. QED BY <2>1, <1>1, <1>7
<1>. QED BY <1>6, <1>8, <1>9

LEMMA InsertHolds ==
  ASSUME NEW rs \in Arrays, NEW n \in 0 .. MaxRegions - 1, NEW k \in 0 .. n, NEW r \in Rec
  PROVE  /\ \A a \in Nat : Cov(Insert(rs, n, k, r), n + 1, a) <=> Cov(rs, n, a) \/ Has(r, a)
         /\ Whole(rs, n) /\ r.base \in Pages /\ r.size \in Pages => Whole(Insert(rs, n, k, r), n + 1)
<1>. DEFINE t == Insert(rs, n, k, r)
<1>0. n \in Nat /\ k \in Nat /\ k <= n
  BY Sizes
<1>1. /\ \A m \in 0 .. k - 1 : t[m] = rs[m]
      /\ t[k] = r
      /\ \A m \in k + 1 .. n : t[m] = rs[m - 1]
  BY Inserts
<1>. HIDE DEF t
<1>2. \A m \in 0 .. (n + 1) - 1 :
        \/ m \in 0 .. k - 1 /\ m \in 0 .. n - 1
        \/ m = k
        \/ m \in k + 1 .. n /\ m - 1 \in 0 .. n - 1
  <2>. TAKE m \in 0 .. (n + 1) - 1
  <2>0. m \in Nat /\ m <= n
    BY <1>0
  <2>1. CASE m < k
    <3>1. m \in 0 .. k - 1 /\ m \in 0 .. n - 1
      BY <2>0, <2>1, <1>0
    <3>. QED BY <3>1
  <2>2. CASE m > k
    <3>1. m \in k + 1 .. n /\ m - 1 \in 0 .. n - 1
      BY <2>0, <2>2, <1>0
    <3>. QED BY <3>1
  <2>3. m < k \/ m = k \/ m > k
    BY <2>0, <1>0
  <2>. QED BY <2>1, <2>2, <2>3
<1>3. \A m \in 0 .. n - 1 :
        \/ m \in 0 .. k - 1 /\ m \in 0 .. (n + 1) - 1
        \/ m + 1 \in k + 1 .. n /\ m + 1 \in 0 .. (n + 1) - 1 /\ (m + 1) - 1 = m
  <2>. TAKE m \in 0 .. n - 1
  <2>1. CASE m < k
    BY <2>1, <1>0
  <2>2. CASE ~ (m < k)
    <3>1. m + 1 \in k + 1 .. n /\ m + 1 \in 0 .. (n + 1) - 1 /\ (m + 1) - 1 = m
      BY <2>2, <1>0
    <3>. QED BY <3>1
  <2>. QED BY <2>1, <2>2
<1>4. k \in 0 .. (n + 1) - 1
  BY <1>0
<1>5. ASSUME NEW a \in Nat PROVE Cov(t, n + 1, a) <=> Cov(rs, n, a) \/ Has(r, a)
  <2>1. ASSUME Cov(t, n + 1, a) PROVE Cov(rs, n, a) \/ Has(r, a)
    <3>1. PICK m \in 0 .. (n + 1) - 1 : Has(t[m], a)
      BY <2>1 DEF Cov
    <3>. QED BY <3>1, <1>1, <1>2 DEF Cov
  <2>2. ASSUME Has(r, a) PROVE Cov(t, n + 1, a)
    BY <2>2, <1>1, <1>4 DEF Cov
  <2>3. ASSUME Cov(rs, n, a) PROVE Cov(t, n + 1, a)
    <3>1. PICK m \in 0 .. n - 1 : Has(rs[m], a)
      BY <2>3 DEF Cov
    <3>2. \E l \in 0 .. (n + 1) - 1 : t[l] = rs[m]
      BY <1>1, <1>3
    <3>. QED BY <3>1, <3>2 DEF Cov
  <2>. QED BY <2>1, <2>2, <2>3
<1>6. ASSUME Whole(rs, n), r.base \in Pages, r.size \in Pages PROVE Whole(t, n + 1)
  <2>. SUFFICES ASSUME NEW m \in 0 .. (n + 1) - 1
                PROVE  t[m].base \in Pages /\ t[m].size \in Pages
    BY DEF Whole
  <2>. QED BY <1>1, <1>2, <1>6 DEF Whole
<1>. QED BY <1>5, <1>6 DEF t

(* The regions after i move down by one.                                   *)
LEMMA Shifts ==
  ASSUME NEW rs \in Arrays, NEW n \in 0 .. MaxRegions, NEW j \in 0 .. n - 1
  PROVE  /\ Move(rs, j, j + 1, n - (j + 1)) \in Arrays
         /\ \A m \in 0 .. MaxRegions :
              Move(rs, j, j + 1, n - (j + 1))[m] = IF m \in j .. n - 2 THEN rs[m + 1] ELSE rs[m]
<1>0. n \in Nat /\ j \in Nat /\ j < n /\ n <= MaxRegions /\ MaxRegions \in Nat
  BY Sizes
<1>. DEFINE M == Move(rs, j, j + 1, n - (j + 1))
<1>1. M = [m \in 0 .. MaxRegions |-> IF m \in j .. n - 2 THEN rs[m + 1] ELSE rs[m]]
  <2>1. DOMAIN rs = 0 .. MaxRegions
    BY DEF Arrays
  <2>2. j + (n - (j + 1)) - 1 = n - 2
    BY <1>0
  <2>3. \A m \in 0 .. MaxRegions : m - j + (j + 1) = m + 1
    BY <1>0
  <2>4. M = [m \in DOMAIN rs |-> IF m \in j .. j + (n - (j + 1)) - 1
                                 THEN rs[m - j + (j + 1)] ELSE rs[m]]
    BY DEF Move
  <2>. QED BY <2>1, <2>2, <2>3, <2>4
<1>. HIDE DEF M
<1>2. \A m \in 0 .. MaxRegions : M[m] \in Rec
  <2>. TAKE m \in 0 .. MaxRegions
  <2>1. m \in j .. n - 2 => m + 1 \in 0 .. MaxRegions
    BY <1>0
  <2>. QED BY <2>1, <1>1 DEF Arrays
<1>. QED BY <1>1, <1>2 DEF Arrays, M

(* Two regions that adjoin become one; the first n regions hold the same   *)
(* addresses, though their number is not lowered.                          *)
Same(rs, t, n) ==
  /\ t \in Arrays
  /\ \A a \in Nat : Cov(t, n, a) <=> Cov(rs, n, a)
  /\ Whole(rs, n) => Whole(t, n)
  /\ Strict(rs, n) => \A k \in 0 .. n - 1 : t[k] = rs[k]

LEMMA SameSelf ==
  ASSUME NEW rs \in Arrays, NEW n
  PROVE  Same(rs, rs, n)
<1>. QED BY DEF Same

LEMMA SameTwice ==
  ASSUME NEW rs, NEW t, NEW u, NEW n, Same(rs, t, n), Same(t, u, n)
  PROVE  Same(rs, u, n)
<1>1. Strict(rs, n) => Strict(t, n)
  BY DEF Same, Strict
<1>. QED BY <1>1 DEF Same

(* The region at j takes in the next, which the array then closes over.    *)
LEMMA Joins ==
  ASSUME NEW rs \in Arrays, NEW n \in 0 .. MaxRegions, NEW j \in 0 .. n - 1,
         j + 1 <= MaxRegions,
         rs[j].base + rs[j].size = rs[j + 1].base
  PROVE  Same(rs, Move([rs EXCEPT ![j + 1] = Region(rs[j].base, @.size + rs[j].size)],
                       j, j + 1, n - (j + 1)), n)
<1>. DEFINE big == Region(rs[j].base, rs[j + 1].size + rs[j].size)
            u   == [rs EXCEPT ![j + 1] = big]
            t   == Move(u, j, j + 1, n - (j + 1))
<1>0. n \in Nat /\ j \in Nat /\ j < n /\ n <= MaxRegions /\ MaxRegions \in Nat
      /\ j \in 0 .. MaxRegions /\ j + 1 \in 0 .. MaxRegions
  BY Sizes
<1>1. rs[j].base \in Nat /\ rs[j].size \in Nat /\ rs[j + 1].base \in Nat /\ rs[j + 1].size \in Nat
  BY <1>0, Bounds
<1>2. big \in Rec /\ big.base = rs[j].base /\ big.size = rs[j + 1].size + rs[j].size
  BY <1>1 DEF Region, Rec
<1>. HIDE DEF big
<1>3. u \in Arrays /\ u[j + 1] = big /\ \A m \in 0 .. MaxRegions : m # j + 1 => u[m] = rs[m]
  BY <1>0, <1>2 DEF Arrays
<1>4. [rs EXCEPT ![j + 1] = Region(rs[j].base, @.size + rs[j].size)] = u
  BY DEF big, u
<1>. HIDE DEF u
<1>5. t \in Arrays /\ \A m \in 0 .. MaxRegions : t[m] = IF m \in j .. n - 2 THEN u[m + 1] ELSE u[m]
  BY <1>3, Shifts
<1>. HIDE DEF t
<1>6. \A a \in Nat : Has(big, a) <=> Has(rs[j], a) \/ Has(rs[j + 1], a)
  BY <1>1, <1>2 DEF Has
<1>7. ASSUME j = n - 1 PROVE Same(rs, t, n)
  <2>1. \A m \in 0 .. n - 1 : t[m] = rs[m]
    <3>. TAKE m \in 0 .. n - 1
    <3>1. m \in 0 .. MaxRegions /\ m \notin j .. n - 2 /\ m # j + 1
      BY <1>0, <1>7
    <3>. QED BY <3>1, <1>3, <1>5
  <2>. QED BY <2>1, <1>5 DEF Same, Cov, Whole
<1>8. ASSUME j # n - 1 PROVE Same(rs, t, n)
  <2>0. j \in 0 .. n - 2 /\ j + 1 \in 0 .. n - 1 /\ j \in 0 .. n - 1
    BY <1>0, <1>8
  <2>1. t[j] = big
    BY <2>0, <1>0, <1>3, <1>5
  <2>2. ASSUME NEW m \in 0 .. n - 1
        PROVE  /\ m < j => t[m] = rs[m]
               /\ m > j /\ m <= n - 2 => t[m] = rs[m + 1] /\ m + 1 \in 0 .. n - 1
               /\ m = n - 1 => t[m] = IF m = j + 1 THEN big ELSE rs[m]
    <3>0. m \in 0 .. MaxRegions
      BY <1>0
    <3>1. m < j => m \notin j .. n - 2 /\ m # j + 1
      BY <1>0
    <3>2. m > j /\ m <= n - 2 => m \in j .. n - 2 /\ m + 1 \in 0 .. n - 1
                               /\ m + 1 \in 0 .. MaxRegions /\ m + 1 # j + 1
      BY <1>0
    <3>3. m = n - 1 => m \notin j .. n - 2
      BY <1>0
    <3>. QED BY <3>0, <3>1, <3>2, <3>3, <1>3, <1>5
  <2>3. ASSUME NEW m \in 0 .. n - 1
        PROVE  m < j \/ m = j \/ (m > j /\ m <= n - 2) \/ m = n - 1
    BY <1>0
  <2>4. ASSUME NEW a \in Nat, Cov(t, n, a) PROVE Cov(rs, n, a)
    <3>1. PICK m \in 0 .. n - 1 : Has(t[m], a)
      BY <2>4 DEF Cov
    <3>2. t[m] = big \/ \E l \in 0 .. n - 1 : t[m] = rs[l]
      BY <2>1, <2>2, <2>3
    <3>. QED BY <2>0, <3>1, <3>2, <1>6 DEF Cov
  <2>5. ASSUME NEW a \in Nat, Cov(rs, n, a) PROVE Cov(t, n, a)
    <3>1. PICK m \in 0 .. n - 1 : Has(rs[m], a)
      BY <2>5 DEF Cov
    <3>2. CASE m = j \/ m = j + 1
      <4>1. Has(big, a)
        BY <3>1, <3>2, <1>6
      <4>. QED BY <4>1, <2>0, <2>1 DEF Cov
    <3>3. CASE m < j
      BY <3>1, <3>3, <2>2 DEF Cov
    <3>4. CASE m > j + 1
      <4>1. m - 1 \in 0 .. n - 1 /\ m - 1 > j /\ m - 1 <= n - 2 /\ (m - 1) + 1 = m
        BY <3>4, <1>0
      <4>2. t[m - 1] = rs[m]
        BY <4>1, <2>2
      <4>. QED BY <3>1, <4>1, <4>2 DEF Cov
    <3>. QED BY <3>2, <3>3, <3>4, <1>0
  <2>6. ASSUME Whole(rs, n) PROVE Whole(t, n)
    <3>1. rs[j].base \in Pages /\ rs[j].size \in Pages /\ rs[j + 1].size \in Pages
      BY <2>0, <2>6 DEF Whole
    <3>2. big.base \in Pages /\ big.size \in Pages
      BY <3>1, <1>2, AlignedSums
    <3>3. \A m \in 0 .. n - 1 : t[m] = big \/ \E l \in 0 .. n - 1 : t[m] = rs[l]
      BY <2>1, <2>2, <2>3
    <3>. QED BY <2>6, <3>2, <3>3 DEF Whole
  <2>7. ~ Strict(rs, n)
    <3>1. ~ (rs[j].base + rs[j].size < rs[j + 1].base)
      BY <1>1
    <3>. QED BY <2>0, <3>1, <1>0 DEF Strict
  <2>. QED BY <2>4, <2>5, <2>6, <2>7, <1>5 DEF Same
<1>9. Same(rs, t, n)
  BY <1>7, <1>8
<1>. QED BY <1>4, <1>9 DEF t

(* memblock_fusion_region keeps the memory of the regions, although it     *)
(* looks one element beyond them.                                          *)
LEMMA Fuses ==
  ASSUME NEW rs \in Arrays, NEW n \in 0 .. MaxRegions, NEW k \in 0 .. n
  PROVE  Same(rs, Fuse(rs, n, k), n)
<1>0. n \in Nat /\ k \in Nat /\ k <= n /\ n <= MaxRegions /\ MaxRegions \in Nat
  BY Sizes
<1>1. Same(rs, FuseLeft(rs, n, k), n)
  <2>1. CASE k > 0 /\ End(rs[k - 1]) = rs[k].base
    <3>. DEFINE j == k - 1
    <3>1. j \in 0 .. n - 1 /\ j + 1 = k /\ j + 1 <= MaxRegions
      BY <2>1, <1>0
    <3>2. rs[j].base + rs[j].size = rs[j + 1].base
      BY <2>1, <3>1 DEF End
    <3>3. FuseLeft(rs, n, k) =
            Move([rs EXCEPT ![k] = Region(rs[k - 1].base, @.size + rs[k - 1].size)],
                 k - 1, k, n - k)
      BY <2>1 DEF FuseLeft
    <3>4. FuseLeft(rs, n, k) =
            Move([rs EXCEPT ![j + 1] = Region(rs[j].base, @.size + rs[j].size)],
                 j, j + 1, n - (j + 1))
      BY <3>1, <3>3
    <3>. HIDE DEF j
    <3>. QED BY <3>1, <3>2, <3>4, Joins
  <2>2. CASE ~ (k > 0 /\ End(rs[k - 1]) = rs[k].base)
    BY <2>2, SameSelf DEF FuseLeft
  <2>. QED BY <2>1, <2>2
<1>. DEFINE t == FuseLeft(rs, n, k)
<1>2. t \in Arrays
  BY <1>1 DEF Same
<1>. HIDE DEF t
<1>3. Same(t, FuseRight(t, n, k), n)
  <2>1. CASE k < n /\ End(t[k]) = t[k + 1].base
    <3>1. k \in 0 .. n - 1 /\ k + 1 <= MaxRegions
      BY <2>1, <1>0
    <3>2. t[k].base + t[k].size = t[k + 1].base
      BY <2>1 DEF End
    <3>. QED BY <2>1, <3>1, <3>2, <1>2, Joins DEF FuseRight
  <2>2. CASE ~ (k < n /\ End(t[k]) = t[k + 1].base)
    BY <2>2, <1>2, SameSelf DEF FuseRight
  <2>. QED BY <2>1, <2>2
<1>4. Same(rs, FuseRight(t, n, k), n)
  BY <1>1, <1>3, SameTwice DEF t
<1>. QED BY <1>4, SameSelf DEF Fuse, t

LEMMA Sets ==
  ASSUME NEW rs \in Arrays, NEW k \in 0 .. MaxRegions, NEW r \in Rec, NEW n,
         Whole(rs, n), r.base \in Pages, r.size \in Pages
  PROVE  /\ [rs EXCEPT ![k] = r] \in Arrays
         /\ [rs EXCEPT ![k] = r][k] = r
         /\ \A m \in 0 .. MaxRegions : m # k => [rs EXCEPT ![k] = r][m] = rs[m]
         /\ n - 1 \in 0 .. MaxRegions => Whole([rs EXCEPT ![k] = r], n)
<1>. DEFINE t == [rs EXCEPT ![k] = r]
<1>1. t \in Arrays /\ t[k] = r /\ \A m \in 0 .. MaxRegions : m # k => t[m] = rs[m]
  BY DEF Arrays
<1>. HIDE DEF t
<1>2. ASSUME n - 1 \in 0 .. MaxRegions PROVE Whole(t, n)
  <2>1. \A m \in 0 .. n - 1 : m \in 0 .. MaxRegions
    BY <1>2, Sizes
  <2>. QED BY <2>1, <1>1 DEF Whole
<1>. QED BY <1>1, <1>2 DEF t

Resize(rs, k, s) == [rs EXCEPT ![k].size = s]

LEMMA Resizes ==
  ASSUME NEW rs \in Arrays, NEW k \in 0 .. MaxRegions, NEW s \in Nat
  PROVE  /\ Resize(rs, k, s) = [rs EXCEPT ![k] = Region(rs[k].base, s)]
         /\ Region(rs[k].base, s) \in Rec
<1>1. rs[k] \in Rec
  BY Bounds
<1>2. [rs[k] EXCEPT !.size = s] = Region(rs[k].base, s)
  BY <1>1 DEF Rec, Region
<1>. QED BY <1>1, <1>2 DEF Rec, Region, Resize

(* The region at j is taken out of the array.                              *)
Removal(rs, n, j) == Move(Resize(rs, j, 0), j, j + 1, n - (j + 1))

LEMMA Removes ==
  ASSUME NEW rs \in Arrays, NEW n \in 0 .. MaxRegions, NEW j \in 0 .. n - 1
  PROVE  /\ Removal(rs, n, j) \in Arrays
         /\ \A m \in 0 .. j - 1 : Removal(rs, n, j)[m] = rs[m]
         /\ \A m \in j .. (n - 1) - 1 :
              Removal(rs, n, j)[m] = rs[m + 1] /\ m + 1 \in 0 .. n - 1
         /\ Whole(rs, n) => Whole(Removal(rs, n, j), n - 1)
<1>. DEFINE t == Removal(rs, n, j)
<1>0. n \in Nat /\ j \in Nat /\ j < n /\ n <= MaxRegions /\ MaxRegions \in Nat
      /\ j \in 0 .. MaxRegions
  BY Sizes
<1>. DEFINE u == Resize(rs, j, 0)
<1>1. u \in Arrays /\ \A m \in 0 .. MaxRegions : m # j => u[m] = rs[m]
  <2>1. u = [rs EXCEPT ![j] = Region(rs[j].base, 0)] /\ Region(rs[j].base, 0) \in Rec
    BY <1>0, Resizes
  <2>. HIDE DEF u
  <2>. QED BY <2>1, <1>0 DEF Arrays
<1>. HIDE DEF u
<1>2. t \in Arrays /\ \A m \in 0 .. MaxRegions : t[m] = IF m \in j .. n - 2 THEN u[m + 1] ELSE u[m]
  <2>1. t = Move(u, j, j + 1, n - (j + 1))
    BY DEF u, Removal
  <2>2. /\ Move(u, j, j + 1, n - (j + 1)) \in Arrays
        /\ \A m \in 0 .. MaxRegions :
             Move(u, j, j + 1, n - (j + 1))[m] = IF m \in j .. n - 2 THEN u[m + 1] ELSE u[m]
    BY <1>1, Shifts
  <2>. QED BY <2>1, <2>2
<1>. HIDE DEF t
<1>3. ASSUME NEW m \in 0 .. j - 1 PROVE t[m] = rs[m]
  <2>1. m \in 0 .. MaxRegions /\ m # j /\ m \notin j .. n - 2
    BY <1>0
  <2>. QED BY <2>1, <1>1, <1>2
<1>4. ASSUME NEW m \in j .. (n - 1) - 1 PROVE t[m] = rs[m + 1] /\ m + 1 \in 0 .. n - 1
  <2>1. m \in 0 .. MaxRegions /\ m + 1 # j /\ m \in j .. n - 2 /\ m + 1 \in 0 .. MaxRegions
        /\ m + 1 \in 0 .. n - 1
    BY <1>0
  <2>. QED BY <2>1, <1>1, <1>2
<1>5. ASSUME Whole(rs, n) PROVE Whole(t, n - 1)
  <2>. SUFFICES ASSUME NEW m \in 0 .. (n - 1) - 1
                PROVE  t[m].base \in Pages /\ t[m].size \in Pages
    BY DEF Whole
  <2>1. \/ m \in 0 .. j - 1 /\ m \in 0 .. n - 1
        \/ m \in j .. (n - 1) - 1
    <3>1. CASE m < j
      <4>1. m \in 0 .. j - 1 /\ m \in 0 .. n - 1
        BY <3>1, <1>0
      <4>. QED BY <4>1
    <3>2. CASE ~ (m < j)
      <4>1. m \in j .. (n - 1) - 1
        BY <3>2, <1>0
      <4>. QED BY <4>1
    <3>. QED BY <3>1, <3>2
  <2>. QED BY <2>1, <1>3, <1>4, <1>5 DEF Whole
<1>. QED BY <1>2, <1>3, <1>4, <1>5 DEF t

-----------------------------------------------------------------------------
(* Types *)

LEMMA TypeFacts ==
  ASSUME Types
  PROVE  /\ regions \in Arrays /\ Whole(regions, cnt)
         /\ cnt \in 0 .. MaxRegions /\ cnt \in Nat /\ cnt <= MaxRegions
         /\ i \in Nat /\ i <= MaxRegions /\ base \in Nat /\ nend \in Nat
         /\ table \in Seq([addr : Nat, size : Nat \ {0}])
         /\ want.addr \in Nat /\ want.size \in Nat
         /\ pc # "idle" => base \in Pages /\ nend \in Pages
<1>1. \A k \in 0 .. cnt - 1 : k \in 0 .. MaxRegions
  BY Sizes DEF Types, TypeOK
<1>2. regions \in Arrays
  BY DEF Types, TypeOK, Arrays, Rec
<1>3. \A k \in 0 .. cnt - 1 : regions[k].base % PageSize = 0 /\ regions[k].size % PageSize = 0
  BY DEF Types, TypeOK, InUse
<1>4. Whole(regions, cnt)
  BY <1>1, <1>2, <1>3, Bounds DEF Whole, Pages, Aligned
<1>5. cnt \in Nat /\ cnt <= MaxRegions /\ i \in Nat /\ i <= MaxRegions
  BY Sizes DEF Types, TypeOK
<1>6. /\ cnt \in 0 .. MaxRegions /\ base \in Nat /\ nend \in Nat
      /\ pc # "idle" => base \in Pages /\ nend \in Pages
  BY DEF Types, TypeOK, Pages
<1>7. table \in Seq([addr : Nat, size : Nat \ {0}]) /\ want.addr \in Nat /\ want.size \in Nat
  BY MemBlockAssumption DEF Types
<1>. QED BY <1>2, <1>4, <1>5, <1>6, <1>7

LEMMA NextTypeOK ==
  ASSUME regions' \in Arrays, Whole(regions', cnt'), cnt' \in 0 .. MaxRegions,
         pc' \in {"idle", "add", "del"}, phase' \in {"detect", "reserve", "alloc"},
         i' \in 0 .. MaxRegions, base' \in Nat, nend' \in Nat
  PROVE  TypeOK'
<1>1. \A r \in InUse' : r.base % PageSize = 0 /\ r.size % PageSize = 0
  BY DEF InUse, Whole, Pages, Aligned
<1>. QED BY <1>1 DEF TypeOK, Arrays, Rec

(* The part of the types that no loop step changes.                        *)
Plain ==
  /\ table \in Tables /\ calls \in Nat
  /\ phase = "detect" => calls <= Len(table) /\ reserved = {}
  /\ phase # "alloc" => given = <<>> /\ lost = {}
  /\ want \in [addr : Nat, size : Nat]
  /\ given \in Seq([addr : Nat, size : Nat])
  /\ avail \subseteq Pages

(* What a call rounds to.                                                  *)
LEMMA Rounded ==
  ASSUME NEW a \in Nat, NEW s \in Nat
  PROVE  /\ RoundDown(a) \in Pages /\ RoundUp(a + s) \in Pages
         /\ RoundDown(a) \in Nat /\ RoundUp(a + s) \in Nat
         /\ s > 0 => RoundDown(a) < RoundUp(a + s)
         /\ RoundDown(a) <= RoundUp(a + s)
         /\ RoundUp(a + s) - RoundDown(a) \in Pages
<1>1. a + s \in Nat
  OBVIOUS
<1>2. /\ RoundDown(a) \in Pages /\ RoundUp(a + s) \in Pages
      /\ RoundDown(a) \in Nat /\ RoundUp(a + s) \in Nat
  BY <1>1, Down, Up DEF Pages
<1>3. RoundDown(a) <= a /\ a + s <= RoundUp(a + s)
  BY <1>1, Down, Up
<1>. QED BY <1>2, <1>3, AlignedSums

(* What e820_memblock_setup adds for an entry.                             *)
LEMMA EntryFacts ==
  ASSUME Types, NEW c \in 1 .. Len(table), table[c].addr + table[c].size > Start
  PROVE  /\ Greater(table[c].addr, Start) \in Nat
         /\ table[c].addr + table[c].size - Greater(table[c].addr, Start) \in Nat \ {0}
         /\ Greater(table[c].addr, Start)
              + (table[c].addr + table[c].size - Greater(table[c].addr, Start))
              = table[c].addr + table[c].size
<1>1. table[c].addr \in Nat /\ table[c].size \in Nat \ {0} /\ Start \in Nat
  <2>1. table \in Seq([addr : Nat, size : Nat \ {0}]) /\ Start \in Nat
    BY TypeFacts, Sizes
  <2>2. ASSUME NEW S, table \in Seq(S) PROVE table[c] \in S
    BY <2>2
  <2>3. table[c] \in [addr : Nat, size : Nat \ {0}]
    BY <2>1, <2>2
  <2>. QED BY <2>1, <2>3
<1>. QED BY <1>1 DEF Greater

LEMMA DetectTypes ==
  ASSUME Types, Detect
  PROVE  Types'
<1>0. /\ phase = "detect" /\ pc = "idle" /\ calls < Len(table) /\ calls' = calls + 1
      /\ phase' = phase /\ table' = table
  BY DEF Detect
<1>. DEFINE c == calls + 1
<1>1. c \in 1 .. Len(table) /\ calls \in Nat /\ table \in Tables /\ Len(table) \in Nat
  <2>1. Len(table) \in Nat /\ calls \in Nat
    BY TypeFacts DEF Types
  <2>. QED BY <2>1, <1>0 DEF Types
<1>2. CASE SkipEntry(table[c])
  <2>1. UNCHANGED <<regions, cnt, pc, i, base, nend, want, avail, reserved, given, lost>>
    BY <1>2 DEF SkipEntry, locals, history
  <2>2. TypeOK'
    BY <2>1, <1>0 DEF Types, TypeOK, InUse
  <2>. QED BY <2>1, <2>2, <1>0, <1>1 DEF Types
<1>3. CASE AddEntry(table[c])
  <2>. DEFINE b == Greater(table[c].addr, Start)
              s == table[c].addr + table[c].size - b
  <2>1. /\ table[c].addr + table[c].size > Start
        /\ avail' = avail \cup PagesIn(b, b + s)
        /\ UNCHANGED <<cnt, reserved, given, lost>>
    BY <1>3 DEF AddEntry
  <2>2. b \in Nat /\ s \in Nat \ {0}
    BY <1>1, <2>1, EntryFacts
  <2>. HIDE DEF c
  <2>3. \/ /\ regions' = [regions EXCEPT ![0] =
                             Region(RoundDown(b), RoundUp(b + s) - RoundDown(b))]
           /\ UNCHANGED <<pc, i, base, nend, want>>
        \/ StartLoop("add", b, s) /\ regions' = regions
    BY <1>3 DEF AddEntry, locals
  <2>. HIDE DEF b, s
  <2>4. avail' \subseteq Pages
    <3>1. PagesIn(b, b + s) \subseteq Pages
      BY <2>2, PagesInDef
    <3>. QED BY <2>1, <3>1 DEF Types
  <2>5. CASE /\ regions' = [regions EXCEPT ![0] =
                             Region(RoundDown(b), RoundUp(b + s) - RoundDown(b))]
             /\ UNCHANGED <<pc, i, base, nend, want>>
    <3>. DEFINE r == Region(RoundDown(b), RoundUp(b + s) - RoundDown(b))
    <3>1. r \in Rec /\ r.base \in Pages /\ r.size \in Pages
      BY <2>2, Rounded DEF Region, Rec, Pages
    <3>2. 0 \in 0 .. MaxRegions /\ cnt - 1 \in 0 .. MaxRegions
      BY <1>0, Sizes, TypeFacts DEF Types
    <3>. HIDE DEF r
    <3>3. regions' \in Arrays /\ Whole(regions', cnt)
      BY <2>5, <3>1, <3>2, TypeFacts, Sets DEF r
    <3>4. TypeOK'
      BY <3>3, <2>1, <2>5, <1>0, NextTypeOK DEF Types, TypeOK
    <3>. QED BY <3>4, <2>1, <2>4, <2>5, <1>0, <1>1 DEF Types
  <2>6. CASE StartLoop("add", b, s) /\ regions' = regions
    <3>1. /\ pc' = "add" /\ i' = 0 /\ base' = RoundDown(b) /\ nend' = RoundUp(b + s)
          /\ want' = [addr |-> b, size |-> s]
      BY <2>6 DEF StartLoop
    <3>2. base' \in Pages /\ nend' \in Pages /\ base' \in Nat /\ nend' \in Nat
      BY <3>1, <2>2, Rounded
    <3>3. TypeOK'
      BY <3>1, <3>2, <2>1, <2>6, <1>0, Sizes, TypeFacts, NextTypeOK
    <3>4. i' <= cnt'
      BY <3>1, <2>1, TypeFacts
    <3>5. want' \in [addr : Nat, size : Nat]
      BY <3>1, <2>2
    <3>. QED BY <3>1, <3>2, <3>3, <3>4, <3>5, <2>1, <2>4, <1>0, <1>1 DEF Types, Pages
  <2>. QED BY <2>3, <2>5, <2>6
<1>. QED BY <1>2, <1>3 DEF Detect

(* A step of a loop leaves the rest of the types as it is.                 *)
LEMMA LoopTypes ==
  ASSUME Types, pc # "idle", pc' = pc,
         UNCHANGED <<phase, table, calls, nend, want, avail, reserved, given, lost>>,
         regions' \in Arrays, Whole(regions', cnt'), cnt' \in 0 .. MaxRegions,
         phase = "detect" => cnt' >= 1,
         i' \in 0 .. MaxRegions, i' <= cnt', base' \in Pages
  PROVE  Types'
<1>1. base' \in Nat /\ nend' \in Nat /\ Aligned(base')
  BY TypeFacts DEF Pages
<1>2. TypeOK'
  BY <1>1, NextTypeOK DEF Types, TypeOK
<1>. QED BY <1>1, <1>2 DEF Types

LEMMA AtIndex ==
  ASSUME Types, i < cnt
  PROVE  /\ i \in 0 .. cnt - 1 /\ i \in 0 .. MaxRegions
         /\ regions[i] \in Rec /\ regions[i].base \in Pages /\ regions[i].size \in Pages
         /\ regions[i].base \in Nat /\ regions[i].size \in Nat
         /\ End(regions[i]) \in Pages /\ End(regions[i]) \in Nat
         /\ End(regions[i]) = regions[i].base + regions[i].size
<1>1. i \in 0 .. cnt - 1 /\ i \in 0 .. MaxRegions
  BY TypeFacts, Sizes
<1>2. regions[i] \in Rec /\ regions[i].base \in Pages /\ regions[i].size \in Pages
  BY <1>1, TypeFacts, Bounds DEF Whole
<1>3. regions[i].base + regions[i].size \in Pages
  BY <1>2, AlignedSums
<1>. QED BY <1>1, <1>2, <1>3 DEF End, Pages, Rec

LEMMA AddStepTypes ==
  ASSUME Types, AddStep
  PROVE  Types'
<1>. DEFINE r == regions[i]
<1>0. pc = "add" /\ pc' = pc /\ AddOn /\ i < cnt
      /\ UNCHANGED <<phase, table, calls, nend, want, avail, reserved, given, lost>>
  BY DEF AddStep, AddOn, history
<1>1. i \in Nat /\ cnt \in 1 .. MaxRegions /\ base \in Pages /\ nend \in Pages
  BY <1>0, TypeFacts, Sizes
<1>2. CASE End(r) <= base
  <2>1. i' = i + 1 /\ regions' = regions /\ cnt' = cnt /\ base' = base
    BY <1>2 DEF AddStep
  <2>2. i' \in 0 .. MaxRegions /\ i' <= cnt' /\ cnt' >= 1
    BY <1>0, <1>1, <2>1, Sizes
  <2>. QED BY <1>0, <1>1, <2>1, <2>2, TypeFacts, LoopTypes
<1>3. CASE ~ (End(r) <= base) /\ ~ (r.base >= base)
  <2>1. i' = i + 1 /\ regions' = regions /\ cnt' = cnt /\ base' = Lesser(End(r), nend)
    BY <1>3 DEF AddStep
  <2>2. i' \in 0 .. MaxRegions /\ i' <= cnt' /\ cnt' >= 1
    BY <1>0, <1>1, <2>1, Sizes
  <2>3. base' \in Pages
    BY <1>0, <1>1, <2>1, AtIndex DEF Lesser
  <2>. QED BY <1>0, <2>1, <2>2, <2>3, TypeFacts, LoopTypes
<1>4. CASE ~ (End(r) <= base) /\ r.base >= base
  <2>. DEFINE new == Region(base, r.base - base)
  <2>1. i' = i + 2 /\ regions' = Insert(regions, cnt, i, new) /\ cnt' = cnt + 1
        /\ base' = Lesser(End(r), nend) /\ cnt < MaxRegions
    BY <1>4 DEF AddStep, Room
  <2>2. new \in Rec /\ new.base \in Pages /\ new.size \in Pages
    <3>1. r.base - base \in Pages
      BY <1>0, <1>1, <1>4, AtIndex, AlignedSums DEF Pages
    <3>. QED BY <3>1, <1>1 DEF Region, Rec, Pages
  <2>. HIDE DEF new
  <2>3. cnt \in 0 .. MaxRegions - 1 /\ i \in 0 .. cnt
    BY <1>0, <1>1, <2>1, Sizes
  <2>4. regions' \in Arrays /\ Whole(regions', cnt')
    BY <2>1, <2>2, <2>3, TypeFacts, Inserts, InsertHolds
  <2>5. i' \in 0 .. MaxRegions /\ i' <= cnt' /\ cnt' >= 1 /\ cnt' \in 0 .. MaxRegions
    BY <1>0, <1>1, <2>1, Sizes
  <2>6. base' \in Pages
    BY <1>0, <1>1, <2>1, AtIndex DEF Lesser
  <2>. QED BY <1>0, <2>4, <2>5, <2>6, LoopTypes
<1>. QED BY <1>2, <1>3, <1>4

(* A loop ends with a sound array.                                         *)
LEMMA EndTypes ==
  ASSUME Types, pc' = "idle",
         UNCHANGED <<phase, table, calls, i, base, nend, want, avail>>,
         regions' \in Arrays, Whole(regions', cnt'), cnt' \in 0 .. MaxRegions,
         phase = "detect" => cnt' >= 1 /\ reserved' = {},
         phase # "alloc" => given' = <<>> /\ lost' = {},
         given' \in Seq([addr : Nat, size : Nat])
  PROVE  Types'
<1>1. TypeOK'
  BY NextTypeOK DEF Types, TypeOK
<1>. QED BY <1>1 DEF Types

LEMMA AddEndTypes ==
  ASSUME Types, AddEnd
  PROVE  Types'
<1>0. pc = "add" /\ pc' = "idle" /\ phase = "detect" /\ ~ AddOn /\ i <= cnt
      /\ UNCHANGED <<phase, table, calls, i, base, nend, want, avail, reserved, given, lost>>
  BY DEF AddEnd, locals, history, Types
<1>1. i \in Nat /\ cnt \in 1 .. MaxRegions /\ base \in Pages /\ nend \in Pages
  BY <1>0, TypeFacts, Sizes DEF Types
<1>2. CASE base < nend
  <2>. DEFINE new == Region(base, nend - base)
              t   == Insert(regions, cnt, i, new)
  <2>1. cnt < MaxRegions /\ cnt' = cnt + 1 /\ regions' = Fuse(t, cnt + 1, i)
    BY <1>2 DEF AddEnd, Room
  <2>2. new \in Rec /\ new.base \in Pages /\ new.size \in Pages
    <3>1. nend - base \in Pages
      BY <1>1, <1>2, AlignedSums DEF Pages
    <3>. QED BY <3>1, <1>1 DEF Region, Rec, Pages
  <2>. HIDE DEF new
  <2>3. cnt \in 0 .. MaxRegions - 1 /\ i \in 0 .. cnt
    BY <1>0, <1>1, <2>1, Sizes
  <2>4. t \in Arrays /\ Whole(t, cnt + 1)
    BY <2>2, <2>3, TypeFacts, Inserts, InsertHolds
  <2>. HIDE DEF t
  <2>5. cnt + 1 \in 0 .. MaxRegions /\ i \in 0 .. cnt + 1
    BY <2>3, Sizes
  <2>6. Same(t, regions', cnt')
    BY <2>1, <2>4, <2>5, Fuses
  <2>7. regions' \in Arrays /\ Whole(regions', cnt')
    BY <2>1, <2>4, <2>6 DEF Same
  <2>8. cnt' >= 1 /\ cnt' \in 0 .. MaxRegions
    BY <2>1, <2>5, <1>1
  <2>. QED BY <1>0, <2>7, <2>8, EndTypes DEF Types
<1>3. CASE ~ (base < nend)
  <2>1. cnt' = cnt /\ regions' = Fuse(regions, cnt, i)
    BY <1>3 DEF AddEnd
  <2>2. i \in 0 .. cnt
    BY <1>0, <1>1
  <2>3. Same(regions, regions', cnt)
    BY <2>1, <2>2, TypeFacts, Fuses
  <2>4. regions' \in Arrays /\ Whole(regions', cnt') /\ cnt' \in 0 .. MaxRegions /\ cnt' >= 1
    BY <2>1, <2>3, <1>1, TypeFacts DEF Same
  <2>. QED BY <1>0, <2>4, EndTypes DEF Types
<1>. QED BY <1>2, <1>3

-----------------------------------------------------------------------------
(* What the steps of memblock_del_region make of the array *)

LEMMA InDel ==
  ASSUME Types, pc = "del", DelOn
  PROVE  /\ i \in 0 .. cnt - 1 /\ i \in 0 .. MaxRegions /\ i \in Nat /\ i < cnt
         /\ cnt \in Nat /\ cnt <= MaxRegions /\ MaxRegions \in Nat
         /\ base \in Pages /\ nend \in Pages /\ base \in Nat /\ nend \in Nat
         /\ regions[i].base < nend
<1>1. i < cnt /\ regions[i].base < nend
  BY DEF DelOn
<1>. QED BY <1>1, AtIndex, TypeFacts, Sizes

LEMMA SplitArray ==
  ASSUME Types, DelSplit
  PROVE  /\ regions' \in Arrays /\ cnt' = cnt + 1 /\ cnt + 1 \in 0 .. MaxRegions
         /\ Whole(regions', cnt')
         /\ \A m \in 0 .. i - 1 : regions'[m] = regions[m]
         /\ regions'[i] = Region(regions[i].base, base - regions[i].base)
         /\ regions'[i + 1] = Region(nend, End(regions[i]) - nend)
         /\ \A m \in i + 2 .. cnt : regions'[m] = regions[m - 1]
<1>. DEFINE r  == regions[i]
            lr == Region(r.base, base - r.base)
            rr == Region(nend, End(r) - nend)
            u  == [regions EXCEPT ![i] = lr]
<1>0. /\ pc = "del" /\ DelOn /\ r.base < base /\ End(r) > nend /\ cnt < MaxRegions
      /\ regions' = Insert(Resize(regions, i, base - r.base), cnt, i + 1, rr)
      /\ cnt' = cnt + 1
  BY DEF DelSplit, Inside, Room, Resize
<1>1. i \in 0 .. cnt - 1 /\ i \in 0 .. MaxRegions /\ i \in Nat /\ i < cnt
      /\ cnt \in Nat /\ base \in Pages /\ nend \in Pages /\ base \in Nat /\ nend \in Nat
  BY <1>0, InDel
<1>2. r.base \in Pages /\ r.base \in Nat /\ End(r) \in Pages /\ End(r) \in Nat
  BY <1>1, AtIndex
<1>3. base - r.base \in Pages /\ End(r) - nend \in Pages
  <2>1. r.base <= base /\ nend <= End(r)
    BY <1>0, <1>1, <1>2
  <2>. QED BY <2>1, <1>1, <1>2, AlignedSums
<1>4. /\ lr \in Rec /\ lr.base \in Pages /\ lr.size \in Pages
      /\ rr \in Rec /\ rr.base \in Pages /\ rr.size \in Pages
  BY <1>1, <1>2, <1>3 DEF Region, Rec, Pages
<1>5. regions' = Insert(u, cnt, i + 1, rr)
  <2>1. base - r.base \in Nat
    BY <1>3 DEF Pages
  <2>2. regions \in Arrays
    BY TypeFacts
  <2>3. Resize(regions, i, base - r.base) = u
    BY <2>1, <2>2, <1>1, Resizes
  <2>. QED BY <2>3, <1>0
<1>. HIDE DEF lr, rr, r
<1>6. cnt - 1 \in 0 .. MaxRegions /\ cnt \in 0 .. MaxRegions - 1 /\ i + 1 \in 0 .. cnt
  BY <1>0, <1>1, Sizes
<1>7. /\ u \in Arrays /\ Whole(u, cnt) /\ u[i] = lr
      /\ \A m \in 0 .. MaxRegions : m # i => u[m] = regions[m]
  BY <1>1, <1>4, <1>6, TypeFacts, Sets
<1>. HIDE DEF u
<1>8. /\ regions' \in Arrays /\ Whole(regions', cnt + 1) /\ regions'[i + 1] = rr
      /\ \A m \in 0 .. (i + 1) - 1 : regions'[m] = u[m]
      /\ \A m \in (i + 1) + 1 .. cnt : regions'[m] = u[m - 1]
  <2>. DEFINE j == i + 1
              t == Insert(u, cnt, j, rr)
  <2>1. j \in 0 .. cnt
    BY <1>6
  <2>. HIDE DEF j
  <2>2. /\ t \in Arrays /\ t[j] = rr
        /\ \A m \in 0 .. j - 1 : t[m] = u[m]
        /\ \A m \in j + 1 .. cnt : t[m] = u[m - 1]
    BY <2>1, <1>4, <1>6, <1>7, Inserts
  <2>3. Whole(t, cnt + 1)
    BY <2>1, <1>4, <1>6, <1>7, InsertHolds
  <2>4. regions' = t
    BY <1>5 DEF j
  <2>. HIDE DEF t
  <2>. QED BY <2>2, <2>3, <2>4 DEF j
<1>9. ASSUME NEW m \in 0 .. i - 1 PROVE regions'[m] = regions[m]
  <2>1. m \in 0 .. (i + 1) - 1 /\ m # i /\ m \in 0 .. MaxRegions
    BY <1>0, <1>1, Sizes
  <2>. QED BY <2>1, <1>7, <1>8
<1>10. regions'[i] = lr
  <2>1. i \in 0 .. (i + 1) - 1
    BY <1>1
  <2>. QED BY <2>1, <1>7, <1>8
<1>11. ASSUME NEW m \in i + 2 .. cnt PROVE regions'[m] = regions[m - 1]
  <2>1. m \in (i + 1) + 1 .. cnt /\ m - 1 # i /\ m - 1 \in 0 .. MaxRegions
    BY <1>0, <1>1, Sizes
  <2>. QED BY <2>1, <1>7, <1>8
<1>12. cnt + 1 \in 0 .. MaxRegions
  BY <1>6, Sizes
<1>. QED BY <1>0, <1>8, <1>9, <1>10, <1>11, <1>12 DEF lr, rr, r

LEMMA WholeArray ==
  ASSUME Types, DelWhole
  PROVE  /\ regions' \in Arrays /\ cnt' = cnt - 1 /\ cnt - 1 \in 0 .. MaxRegions
         /\ Whole(regions', cnt')
         /\ \A m \in 0 .. i - 1 : regions'[m] = regions[m]
         /\ \A m \in i .. (cnt - 1) - 1 : regions'[m] = regions[m + 1] /\ m + 1 \in 0 .. cnt - 1
<1>0. /\ pc = "del" /\ DelOn /\ cnt' = cnt - 1
      /\ regions' = Removal(regions, cnt, i)
  BY DEF DelWhole, Resize, Removal
<1>1. i \in 0 .. cnt - 1 /\ cnt - 1 \in 0 .. MaxRegions
  BY <1>0, InDel
<1>2. regions \in Arrays /\ Whole(regions, cnt) /\ cnt \in 0 .. MaxRegions
  BY TypeFacts
<1>. DEFINE t == Removal(regions, cnt, i)
<1>4. /\ t \in Arrays /\ Whole(t, cnt - 1)
      /\ \A m \in 0 .. i - 1 : t[m] = regions[m]
      /\ \A m \in i .. (cnt - 1) - 1 : t[m] = regions[m + 1] /\ m + 1 \in 0 .. cnt - 1
  BY <1>1, <1>2, Removes
<1>. HIDE DEF t
<1>. QED BY <1>0, <1>1, <1>4 DEF t

LEMMA FrontArray ==
  ASSUME Types, DelFront
  PROVE  /\ regions' \in Arrays /\ Whole(regions', cnt)
         /\ regions'[i] = Region(nend, End(regions[i]) - nend)
         /\ \A m \in 0 .. cnt - 1 : m # i => regions'[m] = regions[m]
<1>. DEFINE r  == regions[i]
            rr == Region(nend, End(r) - nend)
<1>0. pc = "del" /\ DelOn /\ End(r) > nend /\ regions' = [regions EXCEPT ![i] = rr]
  BY DEF DelFront
<1>1. i \in 0 .. cnt - 1 /\ i \in 0 .. MaxRegions /\ i < cnt /\ cnt - 1 \in 0 .. MaxRegions
      /\ nend \in Pages /\ nend \in Nat
  BY <1>0, InDel
<1>2. End(r) \in Pages /\ End(r) \in Nat
  BY <1>1, AtIndex
<1>3. End(r) - nend \in Pages
  BY <1>0, <1>1, <1>2, AlignedSums
<1>4. rr \in Rec /\ rr.base \in Pages /\ rr.size \in Pages
  BY <1>1, <1>3 DEF Region, Rec, Pages
<1>5. \A m \in 0 .. cnt - 1 : m \in 0 .. MaxRegions
  BY <1>1, Sizes
<1>. HIDE DEF rr
<1>6. /\ regions' \in Arrays /\ Whole(regions', cnt) /\ regions'[i] = rr
      /\ \A m \in 0 .. MaxRegions : m # i => regions'[m] = regions[m]
  <2>1. regions \in Arrays /\ Whole(regions, cnt)
    BY TypeFacts
  <2>. DEFINE t == [regions EXCEPT ![i] = rr]
  <2>2. /\ t \in Arrays /\ Whole(t, cnt) /\ t[i] = rr
        /\ \A m \in 0 .. MaxRegions : m # i => t[m] = regions[m]
    BY <2>1, <1>1, <1>4, Sets
  <2>. HIDE DEF t
  <2>. QED BY <2>2, <1>0 DEF t
<1>. QED BY <1>5, <1>6 DEF rr

LEMMA TailArray ==
  ASSUME Types, DelTail
  PROVE  /\ regions' \in Arrays /\ Whole(regions', cnt)
         /\ regions'[i] = Region(regions[i].base, base - regions[i].base)
         /\ \A m \in 0 .. cnt - 1 : m # i => regions'[m] = regions[m]
<1>. DEFINE r  == regions[i]
            lr == Region(r.base, base - r.base)
<1>0. pc = "del" /\ DelOn /\ r.base < base
      /\ regions' = Resize(regions, i, base - r.base)
  BY DEF DelTail, Resize
<1>1. i \in 0 .. cnt - 1 /\ i \in 0 .. MaxRegions /\ i < cnt /\ cnt - 1 \in 0 .. MaxRegions
      /\ base \in Pages /\ base \in Nat
  BY <1>0, InDel
<1>2. r.base \in Pages /\ r.base \in Nat
  BY <1>1, AtIndex
<1>3. base - r.base \in Pages /\ base - r.base \in Nat
  BY <1>0, <1>1, <1>2, AlignedSums
<1>4. lr \in Rec /\ lr.base \in Pages /\ lr.size \in Pages
  BY <1>2, <1>3 DEF Region, Rec, Pages
<1>5. \A m \in 0 .. cnt - 1 : m \in 0 .. MaxRegions
  BY <1>1, Sizes
<1>6. regions' = [regions EXCEPT ![i] = lr]
  <2>1. regions \in Arrays
    BY TypeFacts
  <2>2. Resize(regions, i, base - r.base) = [regions EXCEPT ![i] = lr]
    BY <2>1, <1>1, <1>3, Resizes
  <2>. QED BY <2>2, <1>0
<1>. HIDE DEF lr
<1>7. /\ regions' \in Arrays /\ Whole(regions', cnt) /\ regions'[i] = lr
      /\ \A m \in 0 .. MaxRegions : m # i => regions'[m] = regions[m]
  <2>1. regions \in Arrays /\ Whole(regions, cnt)
    BY TypeFacts
  <2>. DEFINE t == [regions EXCEPT ![i] = lr]
  <2>2. /\ t \in Arrays /\ Whole(t, cnt) /\ t[i] = lr
        /\ \A m \in 0 .. MaxRegions : m # i => t[m] = regions[m]
    BY <2>1, <1>1, <1>4, Sets
  <2>. HIDE DEF t
  <2>. QED BY <2>2, <1>6 DEF t
<1>. QED BY <1>5, <1>7 DEF lr

LEMMA ReturnTypes ==
  ASSUME Types, NEW v \in BOOLEAN, pc = "del", Return(v),
         UNCHANGED <<phase, table, calls, i, base, nend, want>>,
         regions' \in Arrays, Whole(regions', cnt'), cnt' \in 0 .. MaxRegions
  PROVE  Types'
<1>1. phase # "detect" /\ want \in [addr : Nat, size : Nat]
      /\ given \in Seq([addr : Nat, size : Nat])
  BY DEF Types
<1>2. given' \in Seq([addr : Nat, size : Nat])
  <2>1. ASSUME NEW S, want \in S, given \in Seq(S) PROVE Append(given, want) \in Seq(S)
    BY <2>1
  <2>2. Append(given, want) \in Seq([addr : Nat, size : Nat])
    BY <2>1, <1>1
  <2>. QED BY <1>1, <2>2 DEF Return
<1>3. phase # "alloc" => given' = <<>> /\ lost' = {}
  BY DEF Return, Types
<1>4. pc' = "idle" /\ avail' = avail
  BY DEF Return
<1>. QED BY <1>1, <1>2, <1>3, <1>4, EndTypes

LEMMA DelTypes ==
  ASSUME Types, DelSkip \/ DelSplit \/ DelWhole \/ DelFront \/ DelTail \/ DelEnd
  PROVE  Types'
<1>1. CASE DelSkip
  <2>1. /\ pc = "del" /\ pc' = pc /\ DelOn /\ i' = i + 1
        /\ UNCHANGED <<regions, cnt, phase, table, calls, base, nend, want>>
        /\ UNCHANGED <<avail, reserved, given, lost>>
    BY <1>1 DEF DelSkip, history
  <2>2. i' \in 0 .. MaxRegions /\ i' <= cnt
    BY <2>1, InDel
  <2>. QED BY <2>1, <2>2, TypeFacts, LoopTypes DEF Types
<1>2. CASE DelSplit
  <2>1. pc = "del" /\ Return(TRUE) /\ UNCHANGED <<phase, table, calls, i, base, nend, want>>
    BY <1>2 DEF DelSplit, locals
  <2>. QED BY <1>2, <2>1, SplitArray, ReturnTypes
<1>3. CASE DelWhole
  <2>1. /\ pc = "del" /\ pc' = pc /\ DelOn /\ i' = i
        /\ UNCHANGED <<phase, table, calls, base, nend, want>>
        /\ UNCHANGED <<avail, reserved, given, lost>>
    BY <1>3 DEF DelWhole, AfterWhole, history
  <2>2. i' \in 0 .. MaxRegions /\ i' <= cnt - 1
    BY <2>1, InDel
  <2>. QED BY <1>3, <2>1, <2>2, WholeArray, TypeFacts, LoopTypes DEF Types
<1>4. CASE DelFront
  <2>1. /\ pc = "del" /\ Return(TRUE) /\ cnt' = cnt
        /\ UNCHANGED <<phase, table, calls, i, base, nend, want>>
    BY <1>4 DEF DelFront, locals
  <2>. QED BY <1>4, <2>1, FrontArray, TypeFacts, ReturnTypes
<1>5. CASE DelTail
  <2>1. /\ pc = "del" /\ pc' = pc /\ DelOn /\ i' = i + 1 /\ base' = End(regions[i])
        /\ UNCHANGED <<cnt, phase, table, calls, nend, want>>
        /\ UNCHANGED <<avail, reserved, given, lost>>
    BY <1>5 DEF DelTail, history
  <2>2. i' \in 0 .. MaxRegions /\ i' <= cnt /\ base' \in Pages
    BY <2>1, InDel, AtIndex
  <2>. QED BY <1>5, <2>1, <2>2, TailArray, TypeFacts, LoopTypes DEF Types
<1>6. CASE DelEnd
  <2>1. /\ pc = "del" /\ Return(FALSE) /\ cnt' = cnt /\ regions' = regions
        /\ UNCHANGED <<phase, table, calls, i, base, nend, want>>
    BY <1>6 DEF DelEnd, locals
  <2>. QED BY <2>1, TypeFacts, ReturnTypes
<1>. QED BY <1>1, <1>2, <1>3, <1>4, <1>5, <1>6

-----------------------------------------------------------------------------
(* The calls *)

(* memblock_find_in_range clamps a region to the usable range: a block     *)
(* that fits lies in that range and in the region.                         *)
LEMMA FitFacts ==
  ASSUME NEW r \in Rec, NEW s \in Nat \ {0}, Holds(r, s)
  PROVE  /\ Candidate(r) \in Nat /\ Candidate(r) \in Pages
         /\ Candidate(r) >= Start /\ Candidate(r) >= r.base
         /\ Candidate(r) + s <= Limit /\ Candidate(r) + s <= End(r)
<1>. DEFINE lo == Clamp(r.base, Start, Limit)
            hi == Clamp(End(r), Start, Limit)
<1>1. r.base \in Nat /\ End(r) \in Nat /\ Start \in Nat /\ Limit \in Nat
  BY Sizes DEF Rec, End
<1>2. /\ lo \in Nat /\ hi \in Nat /\ hi <= Limit
      /\ hi <= End(r) \/ hi <= Start
      /\ (lo >= Start /\ lo >= r.base) \/ lo = Limit
  BY <1>1 DEF Clamp, Lesser, Greater
<1>3. Candidate(r) = RoundUp(lo) /\ Candidate(r) < hi /\ hi - Candidate(r) >= s
  BY DEF Candidate, Holds
<1>. HIDE DEF lo, hi
<1>4. RoundUp(lo) \in Nat /\ RoundUp(lo) \in Pages /\ lo <= RoundUp(lo)
  BY <1>2, Up DEF Pages
<1>. QED BY <1>1, <1>2, <1>3, <1>4

LEMMA CallTypes ==
  ASSUME Types, NEW a \in Nat, NEW s \in Nat \ {0}, pc = "idle", phase # "detect",
         StartLoop("del", a, s), calls' \in Nat,
         UNCHANGED <<regions, cnt, phase, table, avail, reserved, given, lost>>
  PROVE  Types'
<1>1. /\ pc' = "del" /\ i' = 0 /\ base' = RoundDown(a) /\ nend' = RoundUp(a + s)
      /\ want' = [addr |-> a, size |-> s]
  BY DEF StartLoop
<1>2. base' \in Pages /\ nend' \in Pages /\ base' \in Nat /\ nend' \in Nat
  BY <1>1, Rounded
<1>3. i' \in 0 .. MaxRegions /\ i' <= cnt'
  BY <1>1, Sizes, TypeFacts
<1>4. TypeOK'
  BY <1>1, <1>2, <1>3, TypeFacts, NextTypeOK DEF Types, TypeOK
<1>5. want' \in [addr : Nat, size : Nat] /\ want'.size > 0
  BY <1>1
<1>. QED BY <1>1, <1>2, <1>3, <1>4, <1>5 DEF Types, Pages

LEMMA AllocStarts ==
  ASSUME Types, NEW s \in AllocSizes, Alloc(s)
  PROVE  \E k \in 0 .. cnt - 1 :
           /\ k \in 0 .. MaxRegions /\ s \in Nat \ {0}
           /\ Holds(regions[k], s)
           /\ StartLoop("del", Candidate(regions[k]), s)
           /\ Candidate(regions[k]) \in Nat
<1>1. PICK k \in 0 .. cnt - 1 :
        Holds(regions[k], s) /\ StartLoop("del", Candidate(regions[k]), s)
  BY DEF Alloc
<1>2. k \in 0 .. MaxRegions
  BY TypeFacts, Sizes
<1>3. regions[k] \in Rec /\ s \in Nat \ {0}
  BY <1>2, TypeFacts, Bounds, MemBlockAssumption
<1>4. Candidate(regions[k]) \in Nat
  BY <1>1, <1>3, FitFacts
<1>. QED BY <1>1, <1>2, <1>3, <1>4

LEMMA TypesStep ==
  ASSUME Types, [Next]_vars
  PROVE  Types'
<1>1. CASE UNCHANGED vars
  BY <1>1 DEF vars, locals, history, Types, TypeOK, InUse
<1>2. CASE Loop
  BY <1>2, AddStepTypes, AddEndTypes, DelTypes DEF Loop
<1>3. CASE NextPhase
  <2>1. /\ pc = "idle" /\ pc' = pc /\ calls' = 0
        /\ phase' \in {"reserve", "alloc"} /\ phase # "alloc"
        /\ phase' = "reserve" => phase = "detect"
        /\ UNCHANGED <<regions, cnt, table, i, base, nend, want, avail, reserved, given, lost>>
    BY <1>3 DEF NextPhase, locals, history
  <2>2. TypeOK'
    BY <2>1, TypeFacts, NextTypeOK DEF Types, TypeOK
  <2>. QED BY <2>1, <2>2 DEF Types
<1>4. CASE Detect
  BY <1>4, DetectTypes
<1>5. ASSUME NEW w \in Reserves, Reserve(w) PROVE Types'
  <2>1. w.addr \in Nat /\ w.size \in Nat \ {0}
    BY MemBlockAssumption
  <2>2. /\ phase = "reserve" /\ pc = "idle" /\ StartLoop("del", w.addr, w.size)
        /\ calls' = calls + 1
        /\ UNCHANGED <<regions, cnt, phase, table, avail, reserved, given, lost>>
    BY <1>5 DEF Reserve, history
  <2>3. calls' \in Nat
    BY <2>2 DEF Types
  <2>. QED BY <2>1, <2>2, <2>3, CallTypes
<1>6. ASSUME NEW s \in AllocSizes, Alloc(s) PROVE Types'
  <2>1. /\ phase = "alloc" /\ pc = "idle" /\ calls' = calls + 1
        /\ UNCHANGED <<regions, cnt, phase, table, avail, reserved, given, lost>>
    BY <1>6 DEF Alloc, history
  <2>2. calls' \in Nat
    BY <2>1 DEF Types
  <2>. QED BY <1>6, <2>1, <2>2, AllocStarts, CallTypes
<1>7. ASSUME NEW s \in AllocSizes, AllocFail(s) PROVE Types'
  BY <1>1, <1>7 DEF AllocFail
<1>. QED BY <1>1, <1>2, <1>3, <1>4, <1>5, <1>6, <1>7 DEF Next

-----------------------------------------------------------------------------
(* The memory of the map *)

LEMMA CovSame ==
  ASSUME NEW rs, NEW t, NEW n, \A k \in 0 .. n - 1 : t[k] = rs[k]
  PROVE  \A a : Cov(t, n, a) <=> Cov(rs, n, a)
<1>. QED BY DEF Cov

LEMMA DetectCovers ==
  ASSUME Types, Covered, Detect
  PROVE  Covered'
<1>0. /\ phase = "detect" /\ pc = "idle" /\ calls < Len(table) /\ calls' = calls + 1
      /\ phase' = phase /\ table' = table
  BY DEF Detect
<1>. DEFINE c == calls + 1
<1>1. c \in 1 .. Len(table)
  <2>1. Len(table) \in Nat /\ calls \in Nat
    BY TypeFacts DEF Types
  <2>. QED BY <2>1, <1>0
<1>2. CASE SkipEntry(table[c])
  BY <1>0, <1>2 DEF SkipEntry, locals, history, Covered
<1>3. CASE AddEntry(table[c])
  <2>. DEFINE b == Greater(table[c].addr, Start)
              s == table[c].addr + table[c].size - b
  <2>1. /\ table[c].addr + table[c].size > Start
        /\ avail' = avail \cup PagesIn(b, b + s)
        /\ cnt' = cnt
    BY <1>3 DEF AddEntry
  <2>2. b \in Nat /\ s \in Nat \ {0}
    BY <1>1, <2>1, EntryFacts
  <2>3. \/ /\ regions[0].size = 0
           /\ regions' = [regions EXCEPT ![0] =
                             Region(RoundDown(b), RoundUp(b + s) - RoundDown(b))]
           /\ pc' = pc
        \/ StartLoop("add", b, s) /\ regions' = regions
    BY <1>3 DEF AddEntry
  <2>. HIDE DEF b, s, c
  <2>4. ASSUME NEW a \in Pages
        PROVE  a \in avail' <=> \/ Cov(regions, cnt, a)
                                \/ RoundDown(b) <= a /\ a < RoundUp(b + s)
    <3>1. a \in PagesIn(b, b + s) <=> RoundDown(b) <= a /\ a < RoundUp(b + s)
      BY <2>2, PagesInDef, BelowUp
    <3>. QED BY <3>1, <2>1, <1>0 DEF Covered
  <2>5. CASE /\ regions[0].size = 0
             /\ regions' = [regions EXCEPT ![0] =
                             Region(RoundDown(b), RoundUp(b + s) - RoundDown(b))]
             /\ pc' = pc
    <3>. DEFINE r == Region(RoundDown(b), RoundUp(b + s) - RoundDown(b))
    <3>1. /\ RoundDown(b) \in Nat /\ RoundUp(b + s) \in Nat
          /\ r.base = RoundDown(b) /\ r.size = RoundUp(b + s) - RoundDown(b)
      BY <2>2, Rounded DEF Region
    <3>2. 0 \in 0 .. MaxRegions /\ 0 \in 0 .. cnt - 1
          /\ \A k \in 0 .. cnt - 1 : k \in 0 .. MaxRegions
      BY <1>0, Sizes, TypeFacts DEF Types
    <3>3. \A a \in Nat : Has(r, a) <=> RoundDown(b) <= a /\ a < RoundUp(b + s)
      BY <3>1 DEF Has
    <3>4. \A a \in Nat : ~ Has(regions[0], a)
      <4>1. regions[0].base \in Nat
        BY <3>2, TypeFacts, Bounds
      <4>. QED BY <4>1, <2>5 DEF Has
    <3>. HIDE DEF r
    <3>5. regions'[0] = r /\ \A k \in 0 .. cnt - 1 : k # 0 => regions'[k] = regions[k]
      <4>1. regions \in Arrays /\ regions' = [regions EXCEPT ![0] = r]
        BY <2>5, TypeFacts DEF r
      <4>. QED BY <4>1, <3>2 DEF Arrays
    <3>6. \A a \in Nat : Cov(regions', cnt, a) <=> Cov(regions, cnt, a) \/ Has(r, a)
      BY <3>2, <3>4, <3>5 DEF Cov
    <3>7. \A a \in Pages : a \in avail' <=> Cov(regions', cnt', a)
      BY <2>1, <2>4, <3>3, <3>6 DEF Pages
    <3>. QED BY <3>7, <2>5, <1>0 DEF Covered
  <2>6. CASE StartLoop("add", b, s) /\ regions' = regions
    <3>1. pc' = "add" /\ base' = RoundDown(b) /\ nend' = RoundUp(b + s)
      BY <2>6 DEF StartLoop
    <3>. QED BY <3>1, <2>1, <2>4, <2>6 DEF Covered
  <2>. QED BY <2>3, <2>5, <2>6
<1>. QED BY <1>2, <1>3 DEF Detect

LEMMA AddStepCovers ==
  ASSUME Types, Covered, AddStep
  PROVE  Covered'
<1>. DEFINE r == regions[i]
<1>0. pc = "add" /\ pc' = pc /\ i < cnt /\ r.base < nend
      /\ UNCHANGED <<phase, nend, avail>>
  BY DEF AddStep, AddOn, history
<1>1. i \in Nat /\ cnt \in Nat /\ base \in Nat /\ nend \in Nat /\ i \in 0 .. cnt - 1
      /\ r \in Rec /\ r.base \in Nat /\ r.size \in Nat /\ End(r) = r.base + r.size
  BY <1>0, TypeFacts, AtIndex
<1>. DEFINE Old(a) == Cov(regions, cnt, a) \/ (base <= a /\ a < nend)
            New(a) == Cov(regions', cnt', a) \/ (base' <= a /\ a < nend)
<1>2. \A a \in Nat : Has(r, a) => Cov(regions, cnt, a)
  BY <1>1 DEF Cov
<1>3. CASE End(r) <= base
  <2>1. regions' = regions /\ cnt' = cnt /\ base' = base
    BY <1>3 DEF AddStep
  <2>. QED BY <2>1, <1>0 DEF Covered
<1>4. CASE ~ (End(r) <= base) /\ ~ (r.base >= base)
  <2>1. regions' = regions /\ cnt' = cnt /\ base' = Lesser(End(r), nend)
    BY <1>4 DEF AddStep
  <2>2. ASSUME NEW a \in Nat PROVE New(a) <=> Old(a)
    <3>1. base <= a /\ a < base' => Has(r, a)
      BY <2>1, <1>1, <1>4 DEF Has, Lesser
    <3>3. base' \in Nat
      BY <2>1, <1>1 DEF Lesser
    <3>4. base' <= a /\ a < nend => base <= a
      BY <2>1, <1>1, <1>4 DEF Lesser
    <3>5. a < base' \/ base' <= a
      BY <3>3
    <3>. QED BY <3>1, <3>4, <3>5, <2>1, <1>2
  <2>. HIDE DEF New, Old
  <2>3. \A a \in Pages : New(a) <=> Old(a)
    BY <2>2 DEF Pages
  <2>. QED BY <2>3, <1>0 DEF Covered, New, Old
<1>5. CASE ~ (End(r) <= base) /\ r.base >= base
  <2>. DEFINE new == Region(base, r.base - base)
  <2>1. /\ regions' = Insert(regions, cnt, i, new) /\ cnt' = cnt + 1
        /\ base' = Lesser(End(r), nend) /\ cnt < MaxRegions
    BY <1>5 DEF AddStep, Room
  <2>2. new \in Rec /\ \A a \in Nat : Has(new, a) <=> base <= a /\ a < r.base
    BY <1>1, <1>5 DEF Region, Rec, Has
  <2>3. cnt \in 0 .. MaxRegions - 1 /\ i \in 0 .. cnt
    BY <1>0, <1>1, <2>1, Sizes
  <2>. HIDE DEF new
  <2>4. \A a \in Nat : Cov(regions', cnt', a) <=> Cov(regions, cnt, a) \/ Has(new, a)
    BY <2>1, <2>2, <2>3, TypeFacts, InsertHolds
  <2>5. ASSUME NEW a \in Nat PROVE New(a) <=> Old(a)
    <3>1. base' \in Nat /\ base <= base' /\ r.base <= base'
      BY <2>1, <1>0, <1>1, <1>5 DEF Lesser
    <3>2. r.base <= a /\ a < base' => Has(r, a)
      BY <2>1, <1>1, <1>5 DEF Has, Lesser
    <3>3. base' <= a /\ a < nend => base <= a
      BY <3>1, <1>1
    <3>4. base <= a /\ a < r.base => a < nend
      BY <1>0, <1>1
    <3>5. (a < r.base \/ r.base <= a) /\ (a < base' \/ base' <= a)
      BY <3>1, <1>1
    <3>. QED BY <3>2, <3>3, <3>4, <3>5, <2>2, <2>4, <1>2
  <2>. HIDE DEF New, Old
  <2>6. \A a \in Pages : New(a) <=> Old(a)
    BY <2>5 DEF Pages
  <2>. QED BY <2>6, <1>0 DEF Covered, New, Old
<1>. QED BY <1>3, <1>4, <1>5

LEMMA AddEndCovers ==
  ASSUME Types, Covered, AddEnd
  PROVE  Covered'
<1>0. pc = "add" /\ pc' = "idle" /\ phase = "detect" /\ i <= cnt
      /\ UNCHANGED <<phase, avail>>
  BY DEF AddEnd, history, Types
<1>1. i \in Nat /\ cnt \in Nat /\ base \in Nat /\ nend \in Nat
  BY TypeFacts
<1>2. CASE base < nend
  <2>. DEFINE new == Region(base, nend - base)
              t   == Insert(regions, cnt, i, new)
  <2>1. cnt < MaxRegions /\ cnt' = cnt + 1 /\ regions' = Fuse(t, cnt + 1, i)
    BY <1>2 DEF AddEnd, Room
  <2>2. new \in Rec /\ \A a \in Nat : Has(new, a) <=> base <= a /\ a < nend
    BY <1>1, <1>2 DEF Region, Rec, Has
  <2>. HIDE DEF new
  <2>3. cnt \in 0 .. MaxRegions - 1 /\ i \in 0 .. cnt
        /\ cnt + 1 \in 0 .. MaxRegions /\ i \in 0 .. cnt + 1
    BY <1>0, <1>1, <2>1, Sizes
  <2>4. /\ t \in Arrays
        /\ \A a \in Nat : Cov(t, cnt + 1, a) <=> Cov(regions, cnt, a) \/ Has(new, a)
    BY <2>2, <2>3, TypeFacts, Inserts, InsertHolds
  <2>. HIDE DEF t
  <2>5. Same(t, regions', cnt')
    BY <2>1, <2>3, <2>4, Fuses
  <2>6. \A a \in Nat : Cov(regions', cnt', a) <=> Cov(regions, cnt, a) \/ (base <= a /\ a < nend)
    BY <2>1, <2>2, <2>4, <2>5 DEF Same
  <2>7. \A a \in Pages : a \in Nat
    BY DEF Pages
  <2>. QED BY <2>6, <2>7, <1>0 DEF Covered
<1>3. CASE ~ (base < nend)
  <2>1. cnt' = cnt /\ regions' = Fuse(regions, cnt, i)
    BY <1>3 DEF AddEnd
  <2>2. i \in 0 .. cnt
    BY <1>0, <1>1
  <2>3. Same(regions, regions', cnt)
    BY <2>1, <2>2, TypeFacts, Fuses
  <2>4. \A a \in Nat : Cov(regions', cnt', a) <=> Cov(regions, cnt, a) \/ (base <= a /\ a < nend)
    BY <2>1, <2>3, <1>1, <1>3 DEF Same
  <2>5. \A a \in Pages : a \in Nat
    BY DEF Pages
  <2>. QED BY <2>4, <2>5, <1>0 DEF Covered
<1>. QED BY <1>2, <1>3

LEMMA CoveredStep ==
  ASSUME Types, Covered, [Next]_vars
  PROVE  Covered'
<1>1. CASE UNCHANGED vars
  BY <1>1 DEF vars, locals, history, Covered
<1>2. CASE Loop
  <2>1. CASE AddStep
    BY <2>1, AddStepCovers
  <2>2. CASE AddEnd
    BY <2>2, AddEndCovers
  <2>3. CASE DelSkip \/ DelSplit \/ DelWhole \/ DelFront \/ DelTail \/ DelEnd
    <3>1. pc = "del" /\ phase' = phase
      BY <2>3 DEF DelSkip, DelSplit, DelWhole, DelFront, DelTail, DelEnd
    <3>. QED BY <3>1 DEF Types, Covered
  <2>. QED BY <1>2, <2>1, <2>2, <2>3 DEF Loop
<1>3. CASE NextPhase
  BY <1>3 DEF NextPhase, Covered
<1>4. CASE Detect
  BY <1>4, DetectCovers
<1>5. ASSUME NEW w \in Reserves, Reserve(w) PROVE Covered'
  BY <1>5 DEF Reserve, Covered
<1>6. ASSUME NEW s \in AllocSizes, Alloc(s) PROVE Covered'
  BY <1>6 DEF Alloc, Covered
<1>7. ASSUME NEW s \in AllocSizes, AllocFail(s) PROVE Covered'
  BY <1>1, <1>7 DEF AllocFail
<1>. QED BY <1>1, <1>2, <1>3, <1>4, <1>5, <1>6, <1>7 DEF Next

-----------------------------------------------------------------------------
(* Maps whose entries are separate: the additions *)

LEMMA EntryEnds ==
  ASSUME Types, NEW e \in Used
  PROVE  e \in 1 .. Len(table) /\ Lo(e) \in Nat /\ Hi(e) \in Nat /\ Lo(e) < Hi(e)
<1>. DEFINE b == Greater(table[e].addr, Start)
            s == table[e].addr + table[e].size - b
<1>1. e \in 1 .. Len(table) /\ table[e].addr + table[e].size > Start
  BY TypeFacts DEF Used
<1>2. b \in Nat /\ s \in Nat \ {0} /\ b + s = table[e].addr + table[e].size
  BY <1>1, EntryFacts
<1>3. Lo(e) = RoundDown(b) /\ Hi(e) = RoundUp(b + s)
  BY <1>2 DEF Lo, Hi
<1>. HIDE DEF b, s
<1>4. s \in Nat /\ s > 0
  BY <1>2
<1>5. RoundDown(b) \in Nat /\ RoundUp(b + s) \in Nat /\ RoundDown(b) < RoundUp(b + s)
  BY <1>2, <1>4, Rounded
<1>. QED BY <1>1, <1>3, <1>5

LEMMA EntriesApart ==
  ASSUME Separate, NEW e \in Used, NEW f \in Used, e # f
  PROVE  Hi(e) < Lo(f) \/ Hi(f) < Lo(e)
<1>. QED BY DEF Separate, Before, Lo, Hi

(* What the invariant says of a map that is still read.                    *)
Reading == Shape /\ Entries

LEMMA DetectReads ==
  ASSUME Types, Separate, Reading, Detect
  PROVE  Reading'
<1>0. /\ phase = "detect" /\ pc = "idle" /\ calls < Len(table) /\ calls' = calls + 1
      /\ phase' = phase /\ table' = table
  BY DEF Detect
<1>. DEFINE c == calls + 1
<1>1. c \in 1 .. Len(table) /\ calls \in Nat /\ cnt >= 1 /\ cnt \in Nat
  <2>1. Len(table) \in Nat /\ calls \in Nat /\ cnt >= 1 /\ cnt \in Nat
    BY <1>0, TypeFacts DEF Types
  <2>. QED BY <2>1, <1>0
<1>2. Used' = Used /\ \A e : Lo(e)' = Lo(e) /\ Hi(e)' = Hi(e)
  BY <1>0 DEF Used, Lo, Hi
<1>3. \A e \in Used : e \in Nat
  BY EntryEnds
<1>4. \A e \in Nat : e <= calls => e <= calls' /\ e # calls'
  BY <1>0, <1>1
<1>5. \/ Empty
      \/ \A k \in 0 .. cnt - 1 : \E e \in Used :
            e <= calls /\ regions[k] = Region(Lo(e), Hi(e) - Lo(e))
  BY <1>0 DEF Reading, Entries
<1>6. CASE SkipEntry(table[c])
  <2>1. UNCHANGED <<regions, cnt, pc, avail>>
    BY <1>6 DEF SkipEntry, history
  <2>2. Shape'
    BY <2>1 DEF Reading, Shape, Empty, Strict, Full
  <2>3. Empty' <=> Empty
    BY <2>1 DEF Empty
  <2>4. Entries'
    BY <2>1, <2>3, <1>0, <1>2, <1>3, <1>4, <1>5 DEF Entries
  <2>. QED BY <2>2, <2>4 DEF Reading
<1>7. CASE AddEntry(table[c])
  <2>. DEFINE b == Greater(table[c].addr, Start)
              s == table[c].addr + table[c].size - b
  <2>1. /\ table[c].addr + table[c].size > Start /\ table[c].addr < Limit
        /\ cnt' = cnt
    BY <1>7 DEF AddEntry
  <2>2. b + s = table[c].addr + table[c].size
    BY <1>1, <2>1, EntryFacts
  <2>3. c \in Used /\ Lo(c) = RoundDown(b) /\ Hi(c) = RoundUp(b + s)
    BY <1>1, <2>1, <2>2, TypeFacts DEF Used, Lo, Hi
  <2>4. \/ /\ regions[0].size = 0
           /\ regions' = [regions EXCEPT ![0] =
                             Region(RoundDown(b), RoundUp(b + s) - RoundDown(b))]
           /\ pc' = pc
        \/ StartLoop("add", b, s) /\ regions' = regions /\ regions[0].size # 0
    BY <1>7 DEF AddEntry
  <2>. HIDE DEF b, s
  <2>5. 0 \in 0 .. cnt - 1 /\ 0 \in 0 .. MaxRegions
    BY <1>1, Sizes
  <2>6. CASE /\ regions[0].size = 0
             /\ regions' = [regions EXCEPT ![0] =
                             Region(RoundDown(b), RoundUp(b + s) - RoundDown(b))]
             /\ pc' = pc
    <3>1. Empty
      BY <2>5, <2>6 DEF Reading, Shape, Full
    <3>2. cnt = 1 /\ cnt' = 1
      BY <3>1, <2>1 DEF Empty
    <3>3. regions'[0] = Region(Lo(c), Hi(c) - Lo(c))
      BY <2>3, <2>5, <2>6, TypeFacts DEF Arrays
    <3>4. regions'[0].size > 0
      <4>1. Lo(c) \in Nat /\ Hi(c) \in Nat /\ Lo(c) < Hi(c)
        BY <2>3, EntryEnds
      <4>. QED BY <3>3, <4>1 DEF Region
    <3>5. 0 .. cnt' - 1 = {0}
      BY <3>2
    <3>6. Shape'
      BY <3>4, <3>5 DEF Shape, Strict, Full
    <3>7. c <= calls' /\ c = calls' /\ pc' = "idle"
      BY <2>6, <1>0, <1>1
    <3>8. Entries'
      BY <3>3, <3>5, <3>7, <2>3, <1>2 DEF Entries
    <3>. QED BY <3>6, <3>8 DEF Reading
  <2>7. CASE StartLoop("add", b, s) /\ regions' = regions /\ regions[0].size # 0
    <3>1. pc' = "add" /\ i' = 0 /\ base' = RoundDown(b) /\ nend' = RoundUp(b + s)
      BY <2>7 DEF StartLoop
    <3>2. ~ Empty /\ ~ Empty'
      BY <2>7 DEF Empty, Region
    <3>3. Shape'
      BY <3>2, <2>1, <2>7 DEF Reading, Shape, Strict, Full
    <3>4. \A k \in 0 .. i' - 1 : FALSE
      BY <3>1
    <3>5. calls' = c
      BY <1>0
    <3>6. Entries'
      BY <3>1, <3>2, <3>4, <3>5, <2>1, <2>3, <2>7, <1>2, <1>3, <1>4, <1>5 DEF Entries
    <3>. QED BY <3>3, <3>6 DEF Reading
  <2>. QED BY <2>4, <2>6, <2>7
<1>. QED BY <1>6, <1>7 DEF Detect

(* No region overlaps the one that is added: memblock_add_region passes    *)
(* those below it and inserts it whole.                                    *)
LEMMA AddPlace ==
  ASSUME Types, Separate, Reading, pc = "add"
  PROVE  /\ phase = "detect" /\ calls \in Used /\ calls \in Nat
         /\ base = Lo(calls) /\ nend = Hi(calls) /\ base < nend
         /\ \A k \in 0 .. i - 1 : End(regions[k]) < base
         /\ Strict(regions, cnt) /\ Full(regions, cnt)
         /\ \A k \in 0 .. cnt - 1 : \E e \in Used :
              e <= calls /\ e # calls /\ regions[k] = Region(Lo(e), Hi(e) - Lo(e))
         /\ \A k \in 0 .. cnt - 1 :
              End(regions[k]) < base \/ nend < regions[k].base
<1>1. phase = "detect"
  BY DEF Types
<1>2. /\ ~ Empty /\ calls \in Used /\ base = Lo(calls) /\ nend = Hi(calls)
      /\ \A k \in 0 .. i - 1 : End(regions[k]) < base
      /\ \A k \in 0 .. cnt - 1 : \E e \in Used :
           e <= calls /\ e # calls /\ regions[k] = Region(Lo(e), Hi(e) - Lo(e))
  BY <1>1 DEF Reading, Entries
<1>3. Strict(regions, cnt) /\ Full(regions, cnt)
  BY <1>2 DEF Reading, Shape
<1>4. ASSUME NEW k \in 0 .. cnt - 1
      PROVE  End(regions[k]) < base \/ nend < regions[k].base
  <2>1. PICK e \in Used : e # calls /\ regions[k] = Region(Lo(e), Hi(e) - Lo(e))
    BY <1>2
  <2>2. Lo(e) \in Nat /\ Hi(e) \in Nat
    BY EntryEnds
  <2>3. regions[k].base = Lo(e) /\ End(regions[k]) = Hi(e)
    BY <2>1, <2>2 DEF Region, End
  <2>. QED BY <2>1, <2>3, <1>2, EntriesApart
<1>5. base < nend /\ calls \in Nat
  BY <1>2, EntryEnds
<1>. QED BY <1>1, <1>2, <1>3, <1>4, <1>5

LEMMA AddStepReads ==
  ASSUME Types, Separate, Reading, AddStep
  PROVE  Reading'
<1>0. pc = "add" /\ pc' = pc /\ i < cnt /\ regions[i].base < nend
      /\ UNCHANGED <<phase, table, calls, nend, avail>>
  BY DEF AddStep, AddOn, history
<1>1. /\ i \in 0 .. cnt - 1 /\ i \in Nat /\ regions[i].base \in Nat /\ nend \in Nat
      /\ End(regions[i]) \in Nat /\ base \in Nat
  BY <1>0, AtIndex, TypeFacts
<1>2. End(regions[i]) < base
  <2>1. End(regions[i]) < base \/ nend < regions[i].base
    BY <1>0, <1>1, AddPlace
  <2>. QED BY <2>1, <1>0, <1>1
<1>3. i' = i + 1 /\ regions' = regions /\ cnt' = cnt /\ base' = base
  <2>1. End(regions[i]) <= base
    BY <1>1, <1>2
  <2>. QED BY <2>1 DEF AddStep
<1>4. \A k \in 0 .. i' - 1 : k = i \/ k \in 0 .. i - 1
  BY <1>1, <1>3
<1>5. \A k \in 0 .. i' - 1 : End(regions[k]) < base
  BY <1>0, <1>2, <1>4, AddPlace
<1>6. Empty' <=> Empty
  BY <1>0, <1>3 DEF Empty
<1>7. Shape'
  BY <1>3, <1>6 DEF Reading, Shape, Strict, Full
<1>8. Used' = Used /\ \A e : Lo(e)' = Lo(e) /\ Hi(e)' = Hi(e)
  BY <1>0 DEF Used, Lo, Hi
<1>9. Entries'
  BY <1>0, <1>3, <1>5, <1>6, <1>8 DEF Reading, Entries
<1>. QED BY <1>7, <1>9 DEF Reading

LEMMA AddEndReads ==
  ASSUME Types, Separate, Reading, AddEnd
  PROVE  Reading'
<1>. DEFINE new == Region(base, nend - base)
            t   == Insert(regions, cnt, i, new)
<1>0. pc = "add" /\ pc' = "idle" /\ ~ AddOn /\ i <= cnt
      /\ UNCHANGED <<phase, table, calls, avail>>
  BY DEF AddEnd, history, Types
<1>1. i \in Nat /\ cnt \in Nat /\ base \in Nat /\ nend \in Nat /\ base < nend
      /\ cnt <= MaxRegions /\ MaxRegions \in Nat
  BY <1>0, TypeFacts, AddPlace, Sizes
<1>2. cnt < MaxRegions /\ cnt' = cnt + 1 /\ regions' = Fuse(t, cnt + 1, i)
  BY <1>1 DEF AddEnd, Room
<1>3. new \in Rec /\ new.base = base /\ new.size = nend - base /\ new.base + new.size = nend
  BY <1>1 DEF Region, Rec
<1>4. cnt \in 0 .. MaxRegions - 1 /\ i \in 0 .. cnt
      /\ cnt + 1 \in 0 .. MaxRegions /\ i \in 0 .. cnt + 1
  BY <1>0, <1>1, <1>2
<1>. HIDE DEF new
<1>5. /\ t \in Arrays
      /\ \A m \in 0 .. i - 1 : t[m] = regions[m]
      /\ t[i] = new
      /\ \A m \in i + 1 .. cnt : t[m] = regions[m - 1]
  BY <1>3, <1>4, TypeFacts, Inserts
<1>. HIDE DEF t
<1>6. \A k \in 0 .. cnt - 1 : k \in 0 .. MaxRegions /\ regions[k].base \in Nat
                              /\ regions[k].size \in Nat
  <2>. TAKE k \in 0 .. cnt - 1
  <2>1. k \in 0 .. MaxRegions
    BY <1>1
  <2>. QED BY <2>1, TypeFacts, Bounds
<1>7. ASSUME NEW k \in i .. cnt - 1 PROVE k \in 0 .. cnt - 1 /\ nend < regions[k].base
  <2>1. k \in 0 .. cnt - 1 /\ i \in 0 .. cnt - 1 /\ i < cnt /\ (k = i \/ i < k)
    BY <1>1
  <2>2. regions[i].base >= nend
    BY <2>1, <1>0, <1>1, <1>6 DEF AddOn
  <2>3. regions[k].base >= regions[i].base
    <3>1. k = i \/ regions[i].base + regions[i].size < regions[k].base
      BY <2>1, <1>0, AddPlace DEF Strict
    <3>. QED BY <3>1, <2>1, <1>6
  <2>4. End(regions[k]) < base \/ nend < regions[k].base
    BY <2>1, <1>0, AddPlace
  <2>. QED BY <2>1, <2>2, <2>3, <2>4, <1>1, <1>6 DEF End
<1>8. ASSUME NEW m \in 0 .. cnt
      PROVE  \/ m \in 0 .. i - 1 /\ m \in 0 .. cnt - 1 /\ m < i
             \/ m = i
             \/ m \in i + 1 .. cnt /\ m - 1 \in i .. cnt - 1 /\ m > i
  <2>1. CASE m < i
    <3>1. m \in 0 .. i - 1 /\ m \in 0 .. cnt - 1
      BY <2>1, <1>0, <1>1
    <3>. QED BY <3>1, <2>1
  <2>2. CASE m > i
    <3>1. m \in i + 1 .. cnt /\ m - 1 \in i .. cnt - 1
      BY <2>2, <1>0, <1>1
    <3>. QED BY <3>1, <2>2
  <2>3. m < i \/ m = i \/ m > i
    BY <1>1
  <2>. QED BY <2>1, <2>2, <2>3
<1>9. 0 .. (cnt + 1) - 1 = 0 .. cnt
  BY <1>1
<1>10. Full(t, cnt + 1)
  <2>. SUFFICES ASSUME NEW m \in 0 .. cnt PROVE t[m].size > 0
    BY <1>9 DEF Full
  <2>1. Full(regions, cnt)
    BY <1>0, AddPlace
  <2>. QED BY <2>1, <1>1, <1>3, <1>5, <1>7, <1>8 DEF Full
<1>11. Strict(t, cnt + 1)
  <2>. SUFFICES ASSUME NEW k \in 0 .. cnt, NEW l \in 0 .. cnt, k < l
                PROVE  t[k].base + t[k].size < t[l].base
    BY <1>9 DEF Strict
  <2>0. k \in Nat /\ l \in Nat /\ Strict(regions, cnt)
    BY <1>0, AddPlace
  <2>1. CASE k < i
    <3>1. k \in 0 .. i - 1 /\ k \in 0 .. cnt - 1 /\ t[k] = regions[k]
          /\ regions[k].base + regions[k].size < base
      <4>1. k \in 0 .. i - 1 /\ k \in 0 .. cnt - 1
        BY <2>0, <2>1, <1>0, <1>1
      <4>. QED BY <4>1, <1>0, <1>5, AddPlace DEF End
    <3>2. CASE l < i
      <4>1. l \in 0 .. i - 1 /\ l \in 0 .. cnt - 1
        BY <2>0, <3>2, <1>0, <1>1
      <4>. QED BY <4>1, <3>1, <2>0, <1>5 DEF Strict
    <3>3. CASE l = i
      BY <3>1, <3>3, <1>3, <1>5
    <3>4. CASE l > i
      <4>1. l \in i + 1 .. cnt /\ l - 1 \in i .. cnt - 1
        BY <2>0, <3>4, <1>0, <1>1
      <4>2. t[l] = regions[l - 1] /\ nend < regions[l - 1].base /\ l - 1 \in 0 .. cnt - 1
        BY <4>1, <1>5, <1>7
      <4>. QED BY <4>2, <3>1, <1>1, <1>6
    <3>. QED BY <3>2, <3>3, <3>4, <2>0, <1>1
  <2>2. CASE k = i
    <3>1. l \in i + 1 .. cnt /\ l - 1 \in i .. cnt - 1
      BY <2>0, <2>2, <1>0, <1>1
    <3>2. t[l] = regions[l - 1] /\ nend < regions[l - 1].base
      BY <3>1, <1>5, <1>7
    <3>. QED BY <3>2, <2>2, <1>3, <1>5
  <2>3. CASE k > i
    <3>1. /\ l \in i + 1 .. cnt /\ l - 1 \in 0 .. cnt - 1
          /\ k \in i + 1 .. cnt /\ k - 1 \in 0 .. cnt - 1 /\ k - 1 < l - 1
      BY <2>0, <2>3, <1>0, <1>1
    <3>. QED BY <3>1, <2>0, <1>5 DEF Strict
  <2>. QED BY <2>1, <2>2, <2>3, <2>0, <1>1
<1>12. \A k \in 0 .. cnt : regions'[k] = t[k]
  <2>1. Same(t, regions', cnt + 1)
    BY <1>2, <1>4, <1>5, Fuses
  <2>. QED BY <2>1, <1>9, <1>11 DEF Same
<1>13. Shape'
  BY <1>2, <1>9, <1>10, <1>11, <1>12 DEF Shape, Strict, Full
<1>14. Used' = Used /\ \A e : Lo(e)' = Lo(e) /\ Hi(e)' = Hi(e)
  BY <1>0 DEF Used, Lo, Hi
<1>15. ASSUME NEW k \in 0 .. cnt
       PROVE  \E e \in Used : e <= calls /\ regions'[k] = Region(Lo(e), Hi(e) - Lo(e))
  <2>1. CASE k = i
    <3>1. regions'[k] = Region(Lo(calls), Hi(calls) - Lo(calls))
      BY <2>1, <1>0, <1>5, <1>12, AddPlace DEF new
    <3>2. calls \in Used /\ calls <= calls
      BY <1>0, AddPlace
    <3>. QED BY <3>1, <3>2
  <2>2. CASE k # i
    <3>1. \E m \in 0 .. cnt - 1 : t[k] = regions[m]
      BY <2>2, <1>5, <1>7, <1>8
    <3>. QED BY <3>1, <1>0, <1>12, AddPlace
  <2>. QED BY <2>1, <2>2
<1>16. Entries'
  BY <1>0, <1>2, <1>9, <1>14, <1>15 DEF Entries
<1>. QED BY <1>13, <1>16 DEF Reading

-----------------------------------------------------------------------------
(* Maps whose entries are separate: the removals *)

LEMMA DoomedFor ==
  ASSUME Types, pc = "del", Removing
  PROVE  /\ PagesFor(want) = Doomed
         /\ From \in Nat /\ From < nend /\ nend \in Nat /\ nend \in Pages
         /\ Aligned(want.addr) => From = want.addr
<1>1. want \in [addr : Nat, size : Nat] /\ want.size > 0 /\ want.addr \in Nat /\ want.size \in Nat
  BY DEF Types
<1>2. nend = RoundUp(want.addr + want.size)
  BY DEF Removing
<1>3. PagesFor(want) = Doomed
  BY <1>1, <1>2, PagesForDef DEF Doomed, From
<1>4. From \in Nat /\ nend \in Nat /\ nend \in Pages /\ From < nend
  BY <1>1, <1>2, Rounded DEF From
<1>5. Aligned(want.addr) => From = want.addr
  BY <1>1, AlignedOnes DEF From, Pages
<1>. QED BY <1>3, <1>4, <1>5

(* A call that returns has taken out the pages it was called for, and no   *)
(* others; the caller then owns them.                                      *)
LEMMA ReturnKeeps ==
  ASSUME Types, NEW v \in BOOLEAN, pc = "del", Return(v),
         UNCHANGED <<phase, want, table>>, Separate,
         Removing, Kept, Found, AllocFresh,
         \A a \in Pages : Cov(regions', cnt', a) <=> Cov(regions, cnt, a) /\ a \notin Doomed
  PROVE  Kept' /\ AllocFresh'
<1>0. /\ phase # "detect" /\ given \in Seq([addr : Nat, size : Nat])
      /\ phase \in {"detect", "reserve", "alloc"}
      /\ phase # "alloc" => given = <<>> /\ lost = {}
      /\ pc' = "idle" /\ avail' = avail
  BY DEF Types, TypeOK, Return
<1>1. PagesFor(want) = Doomed
  BY DoomedFor
<1>2. \A a : a \in GivenPages <=> \E k \in 1 .. Len(given) : a \in PagesFor(given[k])
  BY DEF GivenPages
<1>3. \A a : a \in GivenPages' <=> \E k \in 1 .. Len(given') : a \in PagesFor(given'[k])
  BY DEF GivenPages, PagesFor
<1>4. Len(given) \in Nat
  BY <1>0
<1>5. CASE phase = "reserve"
  <2>1. reserved' = reserved \cup Doomed /\ given' = <<>> /\ given = <<>> /\ lost' = lost
    BY <1>0, <1>1, <1>5 DEF Return
  <2>2. GivenPages' = {} /\ GivenPages = {}
    <3>1. 1 .. Len(<<>>) = {}
      OBVIOUS
    <3>. QED BY <3>1, <2>1, <1>2, <1>3
  <2>3. Rest' = Rest \ Doomed
    BY <2>1, <2>2, <1>0 DEF Rest
  <2>4. Kept'
    BY <2>3, <1>0 DEF Kept
  <2>5. AllocFresh'
    BY <2>1 DEF AllocFresh
  <2>. QED BY <2>4, <2>5
<1>6. CASE phase = "alloc" /\ ~ v
  <2>1. reserved' = reserved /\ given' = given /\ lost' = lost \cup Doomed
    BY <1>1, <1>6 DEF Return
  <2>2. GivenPages' = GivenPages
    BY <2>1 DEF GivenPages
  <2>3. Rest' = Rest \ Doomed
    BY <2>1, <2>2, <1>0 DEF Rest
  <2>4. Kept'
    BY <2>3, <1>0 DEF Kept
  <2>5. AllocFresh'
    BY <2>1, <1>0 DEF AllocFresh
  <2>. QED BY <2>4, <2>5
<1>7. CASE phase = "alloc" /\ v
  <2>1. reserved' = reserved /\ given' = Append(given, want) /\ lost' = lost
    BY <1>1, <1>7 DEF Return
  <2>. DEFINE n == Len(given)
  <2>2. Len(given') = n + 1 /\ given'[n + 1] = want /\ n \in Nat
    BY <2>1, <1>0
  <2>3. \A k \in 1 .. n : given'[k] = given[k]
    BY <2>1, <1>0
  <2>. HIDE DEF n
  <2>4. \A k \in 1 .. n + 1 : k = n + 1 \/ (k \in 1 .. n /\ k # n + 1)
    BY <2>2
  <2>5. (\A k \in 1 .. n : k \in 1 .. n + 1) /\ n + 1 \in 1 .. n + 1
    BY <2>2
  <2>6. \A a : a \in GivenPages' <=> a \in GivenPages \/ a \in Doomed
    BY <2>2, <2>3, <2>4, <2>5, <1>1, <1>2, <1>3 DEF n
  <2>7. Rest' = Rest \ Doomed
    BY <2>1, <2>6, <1>0 DEF Rest
  <2>8. Kept'
    BY <2>7, <1>0 DEF Kept
  <2>9. ASSUME NEW k \in 1 .. n + 1
        PROVE  /\ given'[k].addr % PageSize = 0
               /\ given'[k].addr >= Start /\ given'[k].addr + given'[k].size <= Limit
               /\ PagesFor(given'[k]) \subseteq avail' \ reserved'
               /\ \A l \in 1 .. k - 1 : PagesFor(given'[k]) \cap PagesFor(given'[l]) = {}
    <3>1. CASE k \in 1 .. n
      <4>1. \A l \in 1 .. k - 1 : l \in 1 .. n
        BY <3>1, <2>2
      <4>. QED BY <3>1, <4>1, <2>1, <2>3, <1>0 DEF AllocFresh, n
    <3>2. CASE k = n + 1
      <4>1. /\ Aligned(want.addr) /\ want.addr >= Start /\ want.addr + want.size <= Limit
            /\ Doomed \subseteq Rest
        BY <1>7 DEF Found
      <4>2. \A l \in 1 .. k - 1 : l \in 1 .. n
        BY <3>2, <2>2
      <4>3. \A l \in 1 .. n : PagesFor(given[l]) \subseteq GivenPages
        BY <1>2 DEF n
      <4>4. Doomed \cap GivenPages = {} /\ Doomed \subseteq avail \ reserved
        BY <4>1 DEF Rest
      <4>. QED BY <3>2, <4>1, <4>2, <4>3, <4>4, <2>1, <2>2, <2>3, <1>0, <1>1 DEF Aligned
    <3>. QED BY <3>1, <3>2, <2>4
  <2>10. AllocFresh'
    BY <2>2, <2>9 DEF AllocFresh
  <2>. QED BY <2>8, <2>10
<1>. QED BY <1>0, <1>5, <1>6, <1>7

(* What holds while memblock_del_region works on a region.                 *)
LEMMA Working ==
  ASSUME Types, Shape, Removing, pc = "del", DelOn, End(regions[i]) > base
  PROVE  /\ Strict(regions, cnt) /\ Full(regions, cnt)
         /\ i \in 0 .. cnt - 1 /\ i \in Nat /\ cnt \in Nat
         /\ base \in Nat /\ nend \in Nat /\ From \in Nat /\ From <= base /\ From < nend
         /\ regions[i].base < nend
         /\ \A k \in 0 .. cnt - 1 :
              /\ regions[k].base \in Nat /\ regions[k].size \in Nat /\ regions[k].size > 0
              /\ End(regions[k]) = regions[k].base + regions[k].size
              /\ End(regions[k]) \in Nat
         /\ \A k \in 0 .. i - 1 :
              k \in 0 .. cnt - 1 /\ End(regions[k]) <= From /\ End(regions[k]) < regions[i].base
         /\ \A k \in i + 1 .. cnt - 1 :
              k \in 0 .. cnt - 1 /\ End(regions[i]) < regions[k].base
         /\ base = From \/ base <= regions[i].base
<1>1. i \in 0 .. cnt - 1 /\ i \in Nat /\ i < cnt /\ cnt \in Nat /\ cnt <= MaxRegions
      /\ MaxRegions \in Nat /\ base \in Nat /\ nend \in Nat /\ regions[i].base < nend
  BY InDel
<1>2. \A k \in 0 .. cnt - 1 :
        /\ regions[k].base \in Nat /\ regions[k].size \in Nat
        /\ End(regions[k]) = regions[k].base + regions[k].size
        /\ End(regions[k]) \in Nat
  <2>. TAKE k \in 0 .. cnt - 1
  <2>1. k \in 0 .. MaxRegions
    BY <1>1
  <2>2. regions[k].base \in Nat /\ regions[k].size \in Nat
    BY <2>1, TypeFacts, Bounds
  <2>. QED BY <2>2 DEF End
<1>3. ~ Empty
  <2>. SUFFICES ASSUME Empty PROVE FALSE
    OBVIOUS
  <2>1. cnt = 1 /\ regions[0].base = 0 /\ regions[0].size = 0
    BY DEF Empty, Region
  <2>2. i = 0
    BY <2>1, <1>1
  <2>3. End(regions[i]) = 0
    BY <2>1, <2>2 DEF End
  <2>. QED BY <2>3, <1>1
<1>4. Strict(regions, cnt) /\ Full(regions, cnt)
  BY <1>3 DEF Shape
<1>5. ASSUME NEW k \in 0 .. i - 1
      PROVE  k \in 0 .. cnt - 1 /\ End(regions[k]) <= From /\ End(regions[k]) < regions[i].base
  <2>1. k \in 0 .. cnt - 1 /\ k < i
    BY <1>1
  <2>. QED BY <2>1, <1>1, <1>2, <1>4 DEF Strict, Removing
<1>6. ASSUME NEW k \in i + 1 .. cnt - 1
      PROVE  k \in 0 .. cnt - 1 /\ End(regions[i]) < regions[k].base
  <2>1. k \in 0 .. cnt - 1 /\ i < k
    BY <1>1
  <2>. QED BY <2>1, <1>1, <1>2, <1>4 DEF Strict
<1>7. base = From \/ base <= regions[i].base
  <2>1. i \in i .. cnt - 1
    BY <1>1
  <2>. QED BY <2>1 DEF Removing
<1>8. From \in Nat /\ From <= base /\ From < nend
  BY DoomedFor DEF Removing
<1>9. \A k \in 0 .. cnt - 1 : regions[k].size > 0
  BY <1>4 DEF Full
<1>. QED BY <1>1, <1>2, <1>4, <1>5, <1>6, <1>7, <1>8, <1>9

(* Where an index is.                                                      *)
LEMMA Sides ==
  ASSUME NEW n \in Nat, NEW j \in 0 .. n - 1, NEW k \in 0 .. n - 1
  PROVE  k \in 0 .. j - 1 \/ k = j \/ k \in j + 1 .. n - 1
<1>1. CASE k < j
  <2>1. k \in 0 .. j - 1
    BY <1>1
  <2>. QED BY <2>1
<1>2. CASE k > j
  <2>1. k \in j + 1 .. n - 1
    BY <1>2
  <2>. QED BY <2>1
<1>. QED BY <1>1, <1>2

(* The region the block of memblock_alloc was found in is the one worked   *)
(* on, as regions are apart.                                               *)
LEMMA FoundHere ==
  ASSUME Types, Shape, Removing, Found, pc = "del", DelOn, End(regions[i]) > base,
         phase = "alloc"
  PROVE  \/ base = From /\ regions[i].base <= From /\ nend <= End(regions[i])
         \/ \A k \in 0 .. cnt - 1 : regions[k].base # nend
<1>. SUFFICES ASSUME NEW k \in i .. cnt - 1, base = From,
                     regions[k].base <= From, nend <= End(regions[k])
              PROVE  k = i
  BY DEF Found
<1>1. k = i \/ k \in i + 1 .. cnt - 1
  BY Working
<1>2. ASSUME k \in i + 1 .. cnt - 1 PROVE FALSE
  <2>1. End(regions[i]) < regions[k].base /\ regions[k].base \in Nat /\ End(regions[i]) \in Nat
    BY <1>2, Working
  <2>2. base \in Nat /\ From \in Nat
    BY Working
  <2>. QED BY <2>1, <2>2
<1>. QED BY <1>1, <1>2

(* What the invariant says of a removal.                                   *)
Cutting == Shape /\ Removing /\ Kept /\ Found /\ AllocFresh

(* A step of the loop takes out pages of the call only.                    *)
LEMMA KeptOn ==
  ASSUME Types, Cutting, pc = "del", pc' = pc,
         UNCHANGED <<phase, table, want, nend, avail, reserved, given, lost>>,
         \A a \in Pages : /\ Cov(regions', cnt', a) => Cov(regions, cnt, a)
                          /\ Cov(regions, cnt, a) => Cov(regions', cnt', a) \/ a \in Doomed
  PROVE  Kept' /\ AllocFresh' /\ Doomed' = Doomed /\ Rest' = Rest /\ From' = From
<1>1. Doomed' = Doomed /\ From' = From
  BY DEF Doomed, From
<1>2. Rest' = Rest
  BY DEF Rest, GivenPages
<1>3. Kept'
  BY <1>1, <1>2 DEF Cutting, Kept
<1>4. AllocFresh'
  BY DEF Cutting, AllocFresh, Separate, Used, Before
<1>. QED BY <1>1, <1>2, <1>3, <1>4

LEMMA SkipCuts ==
  ASSUME Types, Cutting, DelSkip
  PROVE  Cutting'
<1>0. /\ pc = "del" /\ pc' = pc /\ DelOn /\ End(regions[i]) <= base /\ i' = i + 1
      /\ UNCHANGED <<regions, cnt, phase, table, base, nend, want, avail, reserved, given, lost>>
  BY DEF DelSkip, history
<1>1. i \in 0 .. cnt - 1 /\ i \in Nat /\ i < cnt /\ cnt \in Nat /\ base \in Nat /\ nend \in Nat
  BY <1>0, InDel
<1>2. From \in Nat /\ From < nend /\ From <= base
  BY <1>0, DoomedFor DEF Cutting, Removing
<1>3. Kept' /\ AllocFresh' /\ Doomed' = Doomed /\ Rest' = Rest /\ From' = From
  BY <1>0, KeptOn
<1>4. Shape'
  BY <1>0 DEF Cutting, Shape, Empty, Strict, Full
<1>5. regions[i].base \in Nat /\ regions[i].size \in Nat
      /\ End(regions[i]) = regions[i].base + regions[i].size
  BY <1>1, AtIndex
<1>6. End(regions[i]) <= From
  <2>1. CASE Empty
    <3>1. cnt = 1 /\ regions[0].base = 0 /\ regions[0].size = 0
      BY <2>1 DEF Empty, Region
    <3>2. i = 0
      BY <3>1, <1>1
    <3>. QED BY <3>1, <3>2, <1>2 DEF End
  <2>2. CASE ~ Empty
    <3>1. regions[i].size > 0
      BY <2>2, <1>1 DEF Cutting, Shape, Full
    <3>2. base = From \/ base <= regions[i].base
      <4>1. i \in i .. cnt - 1
        BY <1>1
      <4>. QED BY <4>1, <1>0 DEF Cutting, Removing
    <3>. QED BY <3>1, <3>2, <1>0, <1>1, <1>2, <1>5
  <2>. QED BY <2>1, <2>2
<1>7. (\A k \in 0 .. (i + 1) - 1 : k = i \/ k \in 0 .. i - 1)
      /\ (\A k \in i + 1 .. cnt - 1 : k \in i .. cnt - 1)
      /\ (\A k \in i .. cnt - 1 : k = i \/ k \in i + 1 .. cnt - 1)
  BY <1>1
<1>8. Removing'
  BY <1>0, <1>3, <1>6, <1>7 DEF Cutting, Removing
<1>9. Found'
  <2>1. ~ (nend <= End(regions[i]))
    BY <1>0, <1>1, <1>2, <1>5, <1>6
  <2>. QED BY <2>1, <1>0, <1>3, <1>7 DEF Cutting, Found
<1>. QED BY <1>3, <1>4, <1>8, <1>9 DEF Cutting

LEMMA WholeCuts ==
  ASSUME Types, Cutting, DelWhole
  PROVE  Cutting'
<1>0. /\ pc = "del" /\ pc' = pc /\ DelOn /\ i' = i
      /\ End(regions[i]) > base /\ base <= regions[i].base /\ End(regions[i]) <= nend
      /\ UNCHANGED <<phase, table, base, nend, want, avail, reserved, given, lost>>
  BY DEF DelWhole, AfterWhole, history
<1>1. Types /\ Shape /\ Removing /\ Found /\ pc = "del" /\ DelOn /\ End(regions[i]) > base
  BY <1>0 DEF Cutting
<1>2. /\ Strict(regions, cnt) /\ Full(regions, cnt)
      /\ i \in 0 .. cnt - 1 /\ i \in Nat /\ cnt \in Nat
      /\ base \in Nat /\ nend \in Nat /\ From \in Nat /\ From <= base /\ From < nend
  BY <1>1, Working
<1>3. \A k \in 0 .. cnt - 1 :
        /\ regions[k].base \in Nat /\ regions[k].size \in Nat
        /\ End(regions[k]) = regions[k].base + regions[k].size
  BY <1>1, Working
<1>4. /\ cnt' = cnt - 1
      /\ \A m \in 0 .. i - 1 : regions'[m] = regions[m]
      /\ \A m \in i .. (cnt - 1) - 1 : regions'[m] = regions[m + 1] /\ m + 1 \in 0 .. cnt - 1
  BY WholeArray
<1>5. ASSUME NEW m \in 0 .. (cnt - 1) - 1
      PROVE  \/ m \in 0 .. i - 1 /\ m \in 0 .. cnt - 1 /\ m < i
             \/ m \in i .. (cnt - 1) - 1 /\ m + 1 \in i + 1 .. cnt - 1 /\ m >= i
  <2>1. CASE m < i
    <3>1. m \in 0 .. i - 1 /\ m \in 0 .. cnt - 1
      BY <2>1, <1>2
    <3>. QED BY <3>1, <2>1
  <2>2. CASE m >= i
    <3>1. m \in i .. (cnt - 1) - 1 /\ m + 1 \in i + 1 .. cnt - 1
      BY <2>2, <1>2
    <3>. QED BY <3>1, <2>2
  <2>3. m < i \/ m >= i
    BY <1>2
  <2>. QED BY <2>1, <2>2, <2>3
<1>6. \A m \in 0 .. (cnt - 1) - 1 : \E k \in 0 .. cnt - 1 : k # i /\ regions'[m] = regions[k]
  <2>. TAKE m \in 0 .. (cnt - 1) - 1
  <2>1. CASE m \in 0 .. i - 1 /\ m \in 0 .. cnt - 1 /\ m < i
    <3>1. m # i
      BY <2>1, <1>2
    <3>. QED BY <2>1, <3>1, <1>4
  <2>2. CASE m \in i .. (cnt - 1) - 1 /\ m + 1 \in i + 1 .. cnt - 1 /\ m >= i
    <3>1. m + 1 # i
      BY <2>2, <1>2
    <3>. QED BY <2>2, <3>1, <1>4
  <2>. QED BY <2>1, <2>2, <1>5
<1>7. Shape'
  <2>1. Full(regions', cnt')
    BY <1>2, <1>4, <1>6 DEF Full
  <2>2. Strict(regions', cnt')
    <3>. SUFFICES ASSUME NEW k \in 0 .. (cnt - 1) - 1, NEW l \in 0 .. (cnt - 1) - 1, k < l
                  PROVE  regions'[k].base + regions'[k].size < regions'[l].base
      BY <1>4 DEF Strict
    <3>1. CASE l < i
      <4>1. /\ k \in 0 .. i - 1 /\ k \in 0 .. cnt - 1
            /\ l \in 0 .. i - 1 /\ l \in 0 .. cnt - 1
        BY <3>1, <1>2
      <4>. QED BY <4>1, <1>2, <1>4 DEF Strict
    <3>2. CASE k < i /\ l >= i
      <4>1. /\ k \in 0 .. i - 1 /\ k \in 0 .. cnt - 1
            /\ l \in i .. (cnt - 1) - 1 /\ k < l + 1
        BY <3>2, <1>2
      <4>. QED BY <4>1, <1>2, <1>4 DEF Strict
    <3>3. CASE k >= i
      <4>1. /\ k \in i .. (cnt - 1) - 1 /\ l \in i .. (cnt - 1) - 1 /\ k + 1 < l + 1
        BY <3>3, <1>2
      <4>. QED BY <4>1, <1>2, <1>4 DEF Strict
    <3>. QED BY <3>1, <3>2, <3>3, <1>2
  <2>. QED BY <2>1, <2>2 DEF Shape
<1>8. ASSUME NEW a \in Pages
      PROVE  /\ Cov(regions', cnt', a) => Cov(regions, cnt, a)
             /\ Cov(regions, cnt, a) => Cov(regions', cnt', a) \/ a \in Doomed
  <2>1. Cov(regions', cnt', a) => Cov(regions, cnt, a)
    BY <1>4, <1>6 DEF Cov
  <2>2. ASSUME NEW k \in 0 .. cnt - 1, Has(regions[k], a)
        PROVE  Cov(regions', cnt', a) \/ a \in Doomed
    <3>1. CASE k < i
      <4>1. k \in 0 .. i - 1 /\ k \in 0 .. (cnt - 1) - 1
        BY <3>1, <1>2
      <4>. QED BY <4>1, <2>2, <1>4 DEF Cov
    <3>2. CASE k > i
      <4>1. k - 1 \in i .. (cnt - 1) - 1 /\ (k - 1) + 1 = k /\ k - 1 \in 0 .. (cnt - 1) - 1
        BY <3>2, <1>2
      <4>2. regions'[k - 1] = regions[k]
        BY <4>1, <1>4
      <4>. QED BY <4>1, <4>2, <2>2, <1>4 DEF Cov
    <3>3. CASE k = i
      <4>1. From <= a /\ a < nend
        BY <3>3, <2>2, <1>0, <1>2, <1>3 DEF Has, Pages
      <4>. QED BY <4>1 DEF Doomed
    <3>. QED BY <3>1, <3>2, <3>3, <1>2
  <2>. QED BY <2>1, <2>2 DEF Cov
<1>9. Kept' /\ AllocFresh' /\ Doomed' = Doomed /\ Rest' = Rest /\ From' = From
  BY <1>0, <1>8, KeptOn
<1>10. Removing'
  <2>1. \A k \in i .. (cnt - 1) - 1 : k + 1 \in i .. cnt - 1
    BY <1>2
  <2>2. \A k \in i .. (cnt - 1) - 1 : base = From \/ base <= regions'[k].base
    BY <2>1, <1>1, <1>4 DEF Removing
  <2>. QED BY <2>2, <1>0, <1>1, <1>4, <1>9 DEF Removing
<1>11. Found'
  <2>. SUFFICES ASSUME phase = "alloc" PROVE \A m \in 0 .. cnt' - 1 : regions'[m].base # nend
    BY <1>0, <1>1, <1>9 DEF Found
  <2>1. CASE \A k \in 0 .. cnt - 1 : regions[k].base # nend
    BY <2>1, <1>4, <1>6
  <2>2. CASE regions[i].base <= From /\ nend <= End(regions[i])
    <3>. SUFFICES ASSUME NEW k \in 0 .. cnt - 1, k # i PROVE regions[k].base # nend
      BY <1>4, <1>6
    <3>1. CASE k \in 0 .. i - 1
      <4>1. End(regions[k]) <= From
        BY <3>1, <1>1, Working
      <4>. QED BY <4>1, <1>2, <1>3
    <3>2. CASE k \in i + 1 .. cnt - 1
      <4>1. End(regions[i]) < regions[k].base
        BY <3>2, <1>1, Working
      <4>. QED BY <4>1, <2>2, <1>2, <1>3
    <3>. QED BY <3>1, <3>2, <1>2, Sides
  <2>. QED BY <2>1, <2>2, <1>1, FoundHere
<1>. QED BY <1>7, <1>9, <1>10, <1>11 DEF Cutting

LEMMA TailCuts ==
  ASSUME Types, Cutting, DelTail
  PROVE  Cutting'
<1>0. /\ pc = "del" /\ pc' = pc /\ DelOn /\ i' = i + 1 /\ cnt' = cnt
      /\ End(regions[i]) > base /\ regions[i].base < base /\ End(regions[i]) <= nend
      /\ base' = End(regions[i])
      /\ UNCHANGED <<phase, table, nend, want, avail, reserved, given, lost>>
  BY DEF DelTail, history
<1>1. Types /\ Shape /\ Removing /\ Found /\ pc = "del" /\ DelOn /\ End(regions[i]) > base
  BY <1>0 DEF Cutting
<1>2. /\ Strict(regions, cnt) /\ Full(regions, cnt)
      /\ i \in 0 .. cnt - 1 /\ i \in Nat /\ cnt \in Nat
      /\ base \in Nat /\ nend \in Nat /\ From \in Nat /\ From <= base /\ From < nend
      /\ base = From \/ base <= regions[i].base
  BY <1>1, Working
<1>3. \A k \in 0 .. cnt - 1 :
        /\ regions[k].base \in Nat /\ regions[k].size \in Nat /\ regions[k].size > 0
        /\ End(regions[k]) = regions[k].base + regions[k].size
        /\ End(regions[k]) \in Nat
  BY <1>1, Working
<1>4. base = From
  BY <1>0, <1>2, <1>3
<1>5. /\ regions'[i].base = regions[i].base /\ regions'[i].size = base - regions[i].base
      /\ \A m \in 0 .. cnt - 1 : m # i => regions'[m] = regions[m]
  BY TailArray DEF Region
<1>6. \A k \in i + 1 .. cnt - 1 : k \in 0 .. cnt - 1 /\ End(regions[i]) < regions[k].base
  BY <1>1, Working
<1>7. \A k \in 0 .. i - 1 : k \in 0 .. cnt - 1 /\ End(regions[k]) <= From /\ k # i
  <2>1. \A k \in 0 .. i - 1 : k # i
    BY <1>2
  <2>. QED BY <2>1, <1>1, Working
<1>8. ASSUME NEW k \in 0 .. cnt - 1
      PROVE  /\ regions'[k].base = regions[k].base
             /\ regions'[k].size <= regions[k].size /\ regions'[k].size > 0
             /\ regions'[k].size \in Nat
  <2>1. CASE k = i
    BY <2>1, <1>0, <1>2, <1>3, <1>5
  <2>2. CASE k # i
    BY <2>2, <1>3, <1>5
  <2>. QED BY <2>1, <2>2
<1>9. Shape'
  <2>1. Full(regions', cnt')
    BY <1>0, <1>8 DEF Full
  <2>2. Strict(regions', cnt')
    <3>. SUFFICES ASSUME NEW k \in 0 .. cnt - 1, NEW l \in 0 .. cnt - 1, k < l
                  PROVE  regions'[k].base + regions'[k].size < regions'[l].base
      BY <1>0 DEF Strict
    <3>1. regions[k].base + regions[k].size < regions[l].base
      BY <1>2 DEF Strict
    <3>. QED BY <3>1, <1>3, <1>8
  <2>. QED BY <2>1, <2>2 DEF Shape
<1>10. ASSUME NEW a \in Pages
      PROVE  /\ Cov(regions', cnt', a) => Cov(regions, cnt, a)
             /\ Cov(regions, cnt, a) => Cov(regions', cnt', a) \/ a \in Doomed
  <2>0. a \in Nat
    BY DEF Pages
  <2>1. ASSUME NEW k \in 0 .. cnt - 1
        PROVE  /\ Has(regions'[k], a) => Has(regions[k], a)
               /\ Has(regions[k], a) => Has(regions'[k], a) \/ a \in Doomed
    <3>1. Has(regions'[k], a) => Has(regions[k], a)
      BY <2>0, <1>3, <1>8 DEF Has
    <3>2. CASE k = i
      <4>1. Has(regions[k], a) => Has(regions'[k], a) \/ (From <= a /\ a < nend)
        BY <3>2, <2>0, <1>0, <1>2, <1>3, <1>4, <1>5 DEF Has
      <4>. QED BY <3>1, <4>1 DEF Doomed
    <3>3. CASE k # i
      BY <3>3, <1>5
    <3>. QED BY <3>1, <3>2, <3>3
  <2>. QED BY <2>1, <1>0 DEF Cov
<1>11. Kept' /\ AllocFresh' /\ Doomed' = Doomed /\ Rest' = Rest /\ From' = From
  BY <1>0, <1>10, KeptOn
<1>12. Removing'
  <2>1. \A k \in 0 .. (i + 1) - 1 : k = i \/ k \in 0 .. i - 1
    BY <1>2
  <2>2. \A k \in 0 .. (i + 1) - 1 : End(regions'[k]) <= From
    <3>. TAKE k \in 0 .. (i + 1) - 1
    <3>1. CASE k = i
      BY <3>1, <1>0, <1>2, <1>3, <1>4, <1>5 DEF End
    <3>2. CASE k \in 0 .. i - 1
      BY <3>2, <1>5, <1>7
    <3>. QED BY <3>1, <3>2, <2>1
  <2>3. \A k \in i + 1 .. cnt - 1 : base' <= regions'[k].base
    <3>. TAKE k \in i + 1 .. cnt - 1
    <3>1. k \in 0 .. cnt - 1 /\ End(regions[i]) < regions[k].base
      BY <1>6
    <3>. QED BY <3>1, <1>0, <1>2, <1>3, <1>8
  <2>4. From <= base'
    BY <1>0, <1>2, <1>3
  <2>. QED BY <2>2, <2>3, <2>4, <1>0, <1>1, <1>11 DEF Removing
<1>13. Found'
  <2>. SUFFICES ASSUME phase = "alloc" PROVE \A m \in 0 .. cnt' - 1 : regions'[m].base # nend
    BY <1>0, <1>1, <1>11 DEF Found
  <2>. SUFFICES ASSUME NEW k \in 0 .. cnt - 1 PROVE regions[k].base # nend
    BY <1>0, <1>8
  <2>1. CASE \A m \in 0 .. cnt - 1 : regions[m].base # nend
    BY <2>1
  <2>2. CASE regions[i].base <= From /\ nend <= End(regions[i])
    <3>1. CASE k \in 0 .. i - 1
      <4>1. End(regions[k]) <= From
        BY <3>1, <1>7
      <4>. QED BY <4>1, <1>2, <1>3
    <3>2. CASE k \in i + 1 .. cnt - 1
      <4>1. End(regions[i]) < regions[k].base
        BY <3>2, <1>6
      <4>. QED BY <4>1, <2>2, <1>2, <1>3
    <3>3. CASE k = i
      BY <3>3, <2>2, <1>2, <1>3
    <3>. QED BY <3>1, <3>2, <3>3, <1>2, Sides
  <2>. QED BY <2>1, <2>2, <1>1, FoundHere
<1>. QED BY <1>9, <1>11, <1>12, <1>13 DEF Cutting

(* A removal that returns.                                                 *)
LEMMA CutEnds ==
  ASSUME Types, Separate, Cutting, pc = "del", NEW v \in BOOLEAN, Return(v),
         UNCHANGED <<phase, want, table>>, Shape',
         \A a \in Pages : Cov(regions', cnt', a) <=> Cov(regions, cnt, a) /\ a \notin Doomed
  PROVE  Cutting'
<1>1. Removing /\ Kept /\ Found /\ AllocFresh
  BY DEF Cutting
<1>2. Kept' /\ AllocFresh'
  BY <1>1, ReturnKeeps
<1>3. pc' = "idle"
  BY DEF Return
<1>4. Removing' /\ Found'
  BY <1>3 DEF Removing, Found
<1>. QED BY <1>2, <1>4 DEF Cutting

LEMMA EndCuts ==
  ASSUME Types, Separate, Cutting, DelEnd
  PROVE  Cutting'
<1>0. /\ pc = "del" /\ ~ DelOn /\ Return(FALSE) /\ regions' = regions /\ cnt' = cnt
      /\ UNCHANGED <<phase, want, table>> /\ avail' = avail
  BY DEF DelEnd, locals, Return
<1>1. /\ i \in Nat /\ cnt \in Nat /\ nend \in Nat /\ cnt <= MaxRegions /\ MaxRegions \in Nat
      /\ i <= cnt
  BY <1>0, TypeFacts, Sizes DEF Types
<1>2. Shape'
  BY <1>0 DEF Cutting, Shape, Empty, Strict, Full
<1>3. ASSUME NEW a \in Pages, NEW k \in 0 .. cnt - 1, Has(regions[k], a) PROVE a \notin Doomed
  <2>0. a \in Nat
    BY DEF Pages
  <2>1. k \in 0 .. MaxRegions /\ regions[k].base \in Nat /\ regions[k].size \in Nat
    <3>1. k \in 0 .. MaxRegions
      BY <1>1
    <3>. QED BY <3>1, TypeFacts, Bounds
  <2>2. ~ Empty
    <3>. SUFFICES ASSUME Empty PROVE FALSE
      OBVIOUS
    <3>1. cnt = 1 /\ regions[0].base = 0 /\ regions[0].size = 0
      BY DEF Empty, Region
    <3>2. k = 0
      BY <3>1
    <3>. QED BY <3>1, <3>2, <2>0, <1>3 DEF Has
  <2>3. Strict(regions, cnt)
    BY <2>2 DEF Cutting, Shape
  <2>4. CASE k < i
    <3>1. k \in 0 .. i - 1
      BY <2>4, <1>1
    <3>2. End(regions[k]) <= From
      BY <3>1, <1>0 DEF Cutting, Removing
    <3>3. From \in Nat
      BY <1>0, DoomedFor DEF Cutting
    <3>. QED BY <3>2, <3>3, <2>0, <2>1, <1>3 DEF End, Has, Doomed
  <2>5. CASE ~ (k < i)
    <3>1. i \in 0 .. cnt - 1 /\ i < cnt /\ (k = i \/ i < k) /\ i \in 0 .. MaxRegions
      BY <2>5, <1>1
    <3>2. regions[i].base \in Nat /\ regions[i].size \in Nat
      BY <3>1, TypeFacts, Bounds
    <3>3. nend <= regions[i].base
      BY <3>1, <3>2, <1>0, <1>1 DEF DelOn
    <3>4. regions[i].base <= regions[k].base
      <4>1. k = i \/ regions[i].base + regions[i].size < regions[k].base
        BY <3>1, <2>3 DEF Strict
      <4>. QED BY <4>1, <3>2, <2>1
    <3>. QED BY <3>2, <3>3, <3>4, <2>0, <2>1, <1>1, <1>3 DEF Has, Doomed
  <2>. QED BY <2>4, <2>5
<1>4. \A a \in Pages : Cov(regions', cnt', a) <=> Cov(regions, cnt, a) /\ a \notin Doomed
  BY <1>0, <1>3 DEF Cov
<1>. QED BY <1>0, <1>2, <1>4, CutEnds

LEMMA FrontCuts ==
  ASSUME Types, Separate, Cutting, DelFront
  PROVE  Cutting'
<1>0. /\ pc = "del" /\ DelOn /\ cnt' = cnt /\ Return(TRUE)
      /\ End(regions[i]) > base /\ base <= regions[i].base /\ End(regions[i]) > nend
      /\ UNCHANGED <<phase, want, table>>
  BY DEF DelFront, locals
<1>1. Types /\ Shape /\ Removing /\ pc = "del" /\ DelOn /\ End(regions[i]) > base
  BY <1>0 DEF Cutting
<1>2. /\ Strict(regions, cnt) /\ Full(regions, cnt)
      /\ i \in 0 .. cnt - 1 /\ i \in Nat /\ cnt \in Nat /\ regions[i].base < nend
      /\ base \in Nat /\ nend \in Nat /\ From \in Nat /\ From <= base /\ From < nend
  BY <1>1, Working
<1>3. \A k \in 0 .. cnt - 1 :
        /\ regions[k].base \in Nat /\ regions[k].size \in Nat /\ regions[k].size > 0
        /\ End(regions[k]) = regions[k].base + regions[k].size
        /\ End(regions[k]) \in Nat
  BY <1>1, Working
<1>4. /\ regions'[i].base = nend /\ regions'[i].size = End(regions[i]) - nend
      /\ \A m \in 0 .. cnt - 1 : m # i => regions'[m] = regions[m]
  BY FrontArray DEF Region
<1>5. \A k \in i + 1 .. cnt - 1 : k \in 0 .. cnt - 1 /\ End(regions[i]) < regions[k].base
  BY <1>1, Working
<1>6. \A k \in 0 .. i - 1 : k \in 0 .. cnt - 1 /\ End(regions[k]) <= From
  BY <1>1, Working
<1>7. ASSUME NEW k \in 0 .. cnt - 1
      PROVE  /\ regions'[k].base \in Nat /\ regions'[k].size \in Nat /\ regions'[k].size > 0
             /\ regions'[k].base + regions'[k].size = regions[k].base + regions[k].size
             /\ regions'[k].base >= regions[k].base
  <2>1. CASE k = i
    BY <2>1, <1>0, <1>2, <1>3, <1>4
  <2>2. CASE k # i
    BY <2>2, <1>3, <1>4
  <2>. QED BY <2>1, <2>2
<1>8. Shape'
  <2>1. Full(regions', cnt')
    BY <1>0, <1>7 DEF Full
  <2>2. Strict(regions', cnt')
    <3>. SUFFICES ASSUME NEW k \in 0 .. cnt - 1, NEW l \in 0 .. cnt - 1, k < l
                  PROVE  regions'[k].base + regions'[k].size < regions'[l].base
      BY <1>0 DEF Strict
    <3>1. regions[k].base + regions[k].size < regions[l].base
      BY <1>2 DEF Strict
    <3>. QED BY <3>1, <1>3, <1>7
  <2>. QED BY <2>1, <2>2 DEF Shape
<1>9. ASSUME NEW a \in Pages
      PROVE  Cov(regions', cnt', a) <=> Cov(regions, cnt, a) /\ a \notin Doomed
  <2>0. a \in Nat /\ (a \in Doomed <=> From <= a /\ a < nend)
    BY DEF Pages, Doomed
  <2>1. ASSUME NEW k \in 0 .. cnt - 1
        PROVE  Has(regions'[k], a) <=> Has(regions[k], a) /\ a \notin Doomed
    <3>1. CASE k = i
      BY <3>1, <2>0, <1>0, <1>2, <1>3, <1>4 DEF Has
    <3>2. CASE k \in 0 .. i - 1
      <4>1. k # i /\ End(regions[k]) <= From
        BY <3>2, <1>2, <1>6
      <4>. QED BY <4>1, <2>0, <1>2, <1>3, <1>4 DEF Has
    <3>3. CASE k \in i + 1 .. cnt - 1
      <4>1. k # i /\ End(regions[i]) < regions[k].base
        BY <3>3, <1>2, <1>5
      <4>. QED BY <4>1, <2>0, <1>0, <1>2, <1>3, <1>4 DEF Has
    <3>. QED BY <3>1, <3>2, <3>3, <1>2, Sides
  <2>. QED BY <2>1, <1>0 DEF Cov
<1>. QED BY <1>0, <1>8, <1>9, CutEnds

LEMMA SplitCuts ==
  ASSUME Types, Separate, Cutting, DelSplit
  PROVE  Cutting'
<1>0. /\ pc = "del" /\ DelOn /\ Return(TRUE)
      /\ regions[i].base < base /\ End(regions[i]) > nend
      /\ UNCHANGED <<phase, want, table>>
  BY DEF DelSplit, Inside, locals
<1>1. Types /\ Shape /\ Removing /\ pc = "del" /\ DelOn /\ End(regions[i]) > base
  <2>1. i < cnt /\ regions[i].base < nend
    BY <1>0 DEF DelOn
  <2>2. /\ i \in i .. cnt - 1 /\ base \in Nat /\ nend \in Nat /\ regions[i].base \in Nat
        /\ End(regions[i]) \in Nat
    BY <2>1, AtIndex, TypeFacts
  <2>3. base = From \/ base <= regions[i].base
    BY <2>2, <1>0 DEF Cutting, Removing
  <2>4. From < nend
    BY <1>0, DoomedFor DEF Cutting
  <2>5. End(regions[i]) > base
    BY <1>0, <2>2, <2>3, <2>4
  <2>. QED BY <1>0, <2>5 DEF Cutting
<1>2. /\ Strict(regions, cnt) /\ Full(regions, cnt)
      /\ i \in 0 .. cnt - 1 /\ i \in Nat /\ cnt \in Nat /\ regions[i].base < nend
      /\ base \in Nat /\ nend \in Nat /\ From \in Nat /\ From <= base /\ From < nend
      /\ base = From \/ base <= regions[i].base
  BY <1>1, Working
<1>3. \A k \in 0 .. cnt - 1 :
        /\ regions[k].base \in Nat /\ regions[k].size \in Nat /\ regions[k].size > 0
        /\ End(regions[k]) = regions[k].base + regions[k].size
        /\ End(regions[k]) \in Nat
  BY <1>1, Working
<1>4. base = From
  BY <1>0, <1>2, <1>3
<1>5. /\ cnt' = cnt + 1
      /\ \A m \in 0 .. i - 1 : regions'[m] = regions[m]
      /\ regions'[i].base = regions[i].base /\ regions'[i].size = base - regions[i].base
      /\ regions'[i + 1].base = nend /\ regions'[i + 1].size = End(regions[i]) - nend
      /\ \A m \in i + 2 .. cnt : regions'[m] = regions[m - 1]
  BY SplitArray DEF Region
<1>6. \A k \in i + 1 .. cnt - 1 : k \in 0 .. cnt - 1 /\ End(regions[i]) < regions[k].base
  BY <1>1, Working
<1>7. \A k \in 0 .. i - 1 :
        k \in 0 .. cnt - 1 /\ End(regions[k]) <= From /\ End(regions[k]) < regions[i].base
  BY <1>1, Working
<1>8. 0 .. cnt' - 1 = 0 .. cnt
  BY <1>2, <1>5
<1>9. ASSUME NEW m \in 0 .. cnt
      PROVE  \/ m \in 0 .. i - 1 /\ m < i
             \/ m = i
             \/ m = i + 1
             \/ m \in i + 2 .. cnt /\ m - 1 \in i + 1 .. cnt - 1 /\ m > i + 1
  <2>1. CASE m < i
    <3>1. m \in 0 .. i - 1
      BY <2>1, <1>2
    <3>. QED BY <3>1, <2>1
  <2>2. CASE m > i + 1
    <3>1. m \in i + 2 .. cnt /\ m - 1 \in i + 1 .. cnt - 1
      BY <2>2, <1>2
    <3>. QED BY <3>1, <2>2
  <2>3. m < i \/ m = i \/ m = i + 1 \/ m > i + 1
    BY <1>2
  <2>. QED BY <2>1, <2>2, <2>3
<1>10. Full(regions', cnt')
  <2>. SUFFICES ASSUME NEW m \in 0 .. cnt PROVE regions'[m].size > 0
    BY <1>8 DEF Full
  <2>1. CASE m \in 0 .. i - 1
    BY <2>1, <1>3, <1>5, <1>7
  <2>2. CASE m = i
    BY <2>2, <1>0, <1>2, <1>3, <1>5
  <2>3. CASE m = i + 1
    BY <2>3, <1>0, <1>2, <1>3, <1>5
  <2>4. CASE m \in i + 2 .. cnt /\ m - 1 \in i + 1 .. cnt - 1
    BY <2>4, <1>3, <1>5, <1>6
  <2>. QED BY <2>1, <2>2, <2>3, <2>4, <1>9
<1>11. Strict(regions', cnt')
  <2>. SUFFICES ASSUME NEW k \in 0 .. cnt, NEW l \in 0 .. cnt, k < l
                PROVE  regions'[k].base + regions'[k].size < regions'[l].base
    BY <1>8 DEF Strict
  <2>0. k \in Nat /\ l \in Nat
    BY <1>2
  <2>1. CASE l < i
    <3>1. k \in 0 .. i - 1 /\ l \in 0 .. i - 1 /\ k \in 0 .. cnt - 1 /\ l \in 0 .. cnt - 1
      BY <2>0, <2>1, <1>2
    <3>. QED BY <3>1, <1>2, <1>5 DEF Strict
  <2>2. CASE l = i
    <3>1. k \in 0 .. i - 1
      BY <2>0, <2>2, <1>2
    <3>2. regions'[k] = regions[k] /\ End(regions[k]) < regions[i].base /\ k \in 0 .. cnt - 1
      BY <3>1, <1>5, <1>7
    <3>. QED BY <3>2, <2>2, <1>3, <1>5
  <2>3. CASE l = i + 1
    <3>1. CASE k = i
      BY <3>1, <2>3, <1>2, <1>3, <1>4, <1>5
    <3>2. CASE k # i
      <4>1. k \in 0 .. i - 1
        BY <2>0, <2>3, <3>2, <1>2
      <4>2. regions'[k] = regions[k] /\ End(regions[k]) < regions[i].base /\ k \in 0 .. cnt - 1
        BY <4>1, <1>5, <1>7
      <4>. QED BY <4>2, <2>3, <1>2, <1>3, <1>5
    <3>. QED BY <3>1, <3>2
  <2>4. CASE l > i + 1
    <3>1. l \in i + 2 .. cnt /\ l - 1 \in i + 1 .. cnt - 1
      BY <2>0, <2>4, <1>2
    <3>2. regions'[l] = regions[l - 1] /\ End(regions[i]) < regions[l - 1].base
          /\ l - 1 \in 0 .. cnt - 1
      BY <3>1, <1>5, <1>6
    <3>3. CASE k \in 0 .. i - 1
      <4>1. regions'[k] = regions[k] /\ End(regions[k]) < regions[i].base /\ k \in 0 .. cnt - 1
        BY <3>3, <1>5, <1>7
      <4>. QED BY <4>1, <3>2, <1>2, <1>3
    <3>4. CASE k = i
      BY <3>4, <3>2, <1>0, <1>1, <1>2, <1>3, <1>5
    <3>5. CASE k = i + 1
      BY <3>5, <3>2, <1>2, <1>3, <1>5
    <3>6. CASE k > i + 1
      <4>1. k \in i + 2 .. cnt /\ k - 1 \in 0 .. cnt - 1 /\ k - 1 < l - 1
        BY <2>0, <3>6, <1>2
      <4>. QED BY <4>1, <3>2, <1>2, <1>5 DEF Strict
    <3>. QED BY <3>3, <3>4, <3>5, <3>6, <1>9
  <2>. QED BY <2>0, <2>1, <2>2, <2>3, <2>4, <1>2
<1>12. Shape'
  BY <1>10, <1>11 DEF Shape
<1>13. ASSUME NEW a \in Pages
       PROVE  Cov(regions', cnt', a) <=> Cov(regions, cnt, a) /\ a \notin Doomed
  <2>0. a \in Nat /\ (a \in Doomed <=> From <= a /\ a < nend)
    BY DEF Pages, Doomed
  <2>1. Has(regions'[i], a) \/ Has(regions'[i + 1], a) <=> Has(regions[i], a) /\ a \notin Doomed
    BY <2>0, <1>0, <1>2, <1>3, <1>4, <1>5 DEF Has
  <2>2. \A k \in 0 .. i - 1 : a \in Doomed => ~ Has(regions[k], a)
    BY <2>0, <1>2, <1>3, <1>7 DEF Has
  <2>3. \A k \in i + 1 .. cnt - 1 : a \in Doomed => ~ Has(regions[k], a)
    <3>. TAKE k \in i + 1 .. cnt - 1
    <3>1. End(regions[i]) < regions[k].base /\ k \in 0 .. cnt - 1
      BY <1>6
    <3>. QED BY <3>1, <2>0, <1>0, <1>2, <1>3 DEF Has
  <2>4. ASSUME NEW m \in 0 .. cnt, Has(regions'[m], a)
        PROVE  Cov(regions, cnt, a) /\ a \notin Doomed
    <3>1. CASE m \in 0 .. i - 1
      BY <3>1, <2>2, <2>4, <1>5, <1>7 DEF Cov
    <3>2. CASE m = i \/ m = i + 1
      BY <3>2, <2>1, <2>4, <1>2 DEF Cov
    <3>3. CASE m \in i + 2 .. cnt /\ m - 1 \in i + 1 .. cnt - 1
      BY <3>3, <2>3, <2>4, <1>5, <1>6 DEF Cov
    <3>. QED BY <3>1, <3>2, <3>3, <1>9
  <2>5. ASSUME NEW k \in 0 .. cnt - 1, Has(regions[k], a), a \notin Doomed
        PROVE  \E m \in 0 .. cnt : Has(regions'[m], a)
    <3>1. CASE k \in 0 .. i - 1
      <4>1. k \in 0 .. cnt
        BY <1>2
      <4>. QED BY <3>1, <4>1, <2>5, <1>5
    <3>2. CASE k = i
      <4>1. i \in 0 .. cnt /\ i + 1 \in 0 .. cnt
        BY <1>2
      <4>. QED BY <3>2, <4>1, <2>1, <2>5
    <3>3. CASE k \in i + 1 .. cnt - 1
      <4>1. k + 1 \in i + 2 .. cnt /\ k + 1 \in 0 .. cnt /\ (k + 1) - 1 = k
        BY <3>3, <1>2
      <4>2. regions'[k + 1] = regions[k]
        BY <4>1, <1>5
      <4>. QED BY <4>1, <4>2, <2>5
    <3>. QED BY <3>1, <3>2, <3>3, <1>2, Sides
  <2>. QED BY <2>4, <2>5, <1>8 DEF Cov
<1>. QED BY <1>0, <1>12, <1>13, CutEnds

-----------------------------------------------------------------------------
(* Maps whose entries are separate: the calls *)

LEMMA ReserveCuts ==
  ASSUME Types, Cutting, NEW w \in Reserves, Reserve(w)
  PROVE  Cutting'
<1>1. /\ phase = "reserve" /\ pc = "idle" /\ pc' = "del" /\ i' = 0
      /\ base' = RoundDown(w.addr) /\ nend' = RoundUp(w.addr + w.size)
      /\ want' = [addr |-> w.addr, size |-> w.size]
      /\ UNCHANGED <<regions, cnt, phase, table, avail, reserved, given, lost>>
  BY DEF Reserve, StartLoop, history
<1>2. base' = From' /\ nend' = RoundUp(want'.addr + want'.size)
  BY <1>1 DEF From
<1>3. RoundDown(w.addr) \in Nat
  BY Rounded, MemBlockAssumption
<1>4. Removing'
  <2>1. \A k \in 0 .. i' - 1 : FALSE
    BY <1>1
  <2>. QED BY <2>1, <1>1, <1>2, <1>3 DEF Removing
<1>5. Shape'
  BY <1>1 DEF Cutting, Shape, Empty, Strict, Full
<1>6. Rest' = Rest
  BY <1>1 DEF Rest, GivenPages
<1>7. Kept'
  BY <1>1, <1>6 DEF Cutting, Kept
<1>8. Found'
  BY <1>1 DEF Found
<1>9. AllocFresh'
  BY <1>1 DEF Cutting, AllocFresh, Separate, Used, Before
<1>. QED BY <1>4, <1>5, <1>7, <1>8, <1>9 DEF Cutting

LEMMA AllocCuts ==
  ASSUME Types, Cutting, NEW s \in AllocSizes, Alloc(s)
  PROVE  Cutting'
<1>0. /\ phase = "alloc" /\ pc = "idle"
      /\ UNCHANGED <<regions, cnt, phase, table, avail, reserved, given, lost>>
  BY DEF Alloc, history
<1>1. PICK k \in 0 .. cnt - 1 :
        /\ k \in 0 .. MaxRegions /\ s \in Nat \ {0}
        /\ Holds(regions[k], s)
        /\ StartLoop("del", Candidate(regions[k]), s)
        /\ Candidate(regions[k]) \in Nat
  BY AllocStarts
<1>. DEFINE c == Candidate(regions[k])
<1>2. /\ pc' = "del" /\ i' = 0 /\ base' = RoundDown(c) /\ nend' = RoundUp(c + s)
      /\ want' = [addr |-> c, size |-> s]
  BY <1>1 DEF StartLoop
<1>3. regions[k] \in Rec /\ regions[k].base \in Pages /\ regions[k].size \in Pages
  BY <1>1, TypeFacts, Bounds DEF Whole
<1>4. /\ c \in Nat /\ c \in Pages /\ c >= Start /\ c >= regions[k].base
      /\ c + s <= Limit /\ c + s <= End(regions[k])
  BY <1>1, <1>3, FitFacts
<1>. HIDE DEF c
<1>5. /\ base' = c /\ From' = c /\ base' = From' /\ want'.addr = c /\ want'.size = s
      /\ nend' = RoundUp(want'.addr + want'.size)
  BY <1>2, <1>4, AlignedOnes DEF From
<1>6. End(regions[k]) \in Pages /\ End(regions[k]) \in Nat /\ regions[k].base \in Nat
      /\ End(regions[k]) = regions[k].base + regions[k].size
  BY <1>3, AlignedSums DEF End, Pages
<1>7. nend' <= End(regions[k]) /\ nend' \in Nat
  <2>1. c + s \in Nat
    BY <1>1, <1>4
  <2>2. End(regions[k]) < RoundUp(c + s) <=> End(regions[k]) < c + s
    BY <2>1, <1>6, BelowUp
  <2>3. RoundUp(c + s) \in Nat
    BY <2>1, Up
  <2>. QED BY <2>1, <2>2, <2>3, <1>2, <1>4, <1>6
<1>8. Removing'
  <2>1. \A m \in 0 .. i' - 1 : FALSE
    BY <1>2
  <2>. QED BY <2>1, <1>4, <1>5 DEF Removing
<1>9. Shape'
  BY <1>0 DEF Cutting, Shape, Empty, Strict, Full
<1>10. Rest' = Rest
  BY <1>0 DEF Rest, GivenPages
<1>11. Kept'
  BY <1>0, <1>10 DEF Cutting, Kept
<1>12. AllocFresh'
  BY <1>0 DEF Cutting, AllocFresh, Separate, Used, Before
<1>13. Doomed' \subseteq Rest'
  <2>. SUFFICES ASSUME NEW a \in Pages, c <= a, a < nend' PROVE a \in Rest
    BY <1>5, <1>10 DEF Doomed
  <2>1. Has(regions[k], a)
    BY <1>4, <1>6, <1>7 DEF Has, Pages
  <2>2. Cov(regions, cnt, a)
    BY <2>1 DEF Cov
  <2>. QED BY <2>2, <1>0 DEF Cutting, Kept
<1>14. Found'
  <2>1. k \in i' .. cnt' - 1
    BY <1>0, <1>2
  <2>2. regions'[k].base <= From' /\ nend' <= End(regions'[k])
    BY <1>0, <1>4, <1>5, <1>6, <1>7
  <2>3. Aligned(want'.addr) /\ want'.addr >= Start /\ want'.addr + want'.size <= Limit
    BY <1>4, <1>5 DEF Pages
  <2>. QED BY <2>1, <2>2, <2>3, <1>5, <1>13 DEF Found
<1>. QED BY <1>8, <1>9, <1>11, <1>12, <1>14 DEF Cutting

LEMMA PhaseCuts ==
  ASSUME Types, Covered, Cutting, NextPhase
  PROVE  Cutting'
<1>0. /\ pc = "idle" /\ pc' = pc /\ phase \in {"detect", "reserve"} /\ phase' # "detect"
      /\ UNCHANGED <<regions, cnt, table, want, nend, avail, reserved, given, lost>>
  BY DEF NextPhase, locals, history
<1>1. Removing' /\ Found'
  BY <1>0 DEF Removing, Found
<1>2. Shape'
  BY <1>0 DEF Cutting, Shape, Empty, Strict, Full
<1>3. AllocFresh'
  BY <1>0 DEF Cutting, AllocFresh, Separate, Used, Before
<1>4. Rest' = Rest
  BY <1>0 DEF Rest, GivenPages
<1>5. Kept'
  <2>1. CASE phase = "detect"
    <3>1. reserved = {} /\ given = <<>> /\ lost = {}
      BY <2>1 DEF Types
    <3>2. GivenPages = {}
      <4>1. 1 .. Len(<<>>) = {}
        OBVIOUS
      <4>. QED BY <3>1, <4>1 DEF GivenPages
    <3>3. Rest = avail
      BY <3>1, <3>2 DEF Rest
    <3>. QED BY <2>1, <3>3, <1>0, <1>4 DEF Covered, Kept
  <2>2. CASE phase = "reserve"
    BY <2>2, <1>0, <1>4 DEF Cutting, Kept
  <2>. QED BY <2>1, <2>2, <1>0
<1>. QED BY <1>1, <1>2, <1>3, <1>5 DEF Cutting

-----------------------------------------------------------------------------
(* The invariant *)

(* While the map is read nothing is removed.                               *)
LEMMA NothingCut ==
  ASSUME Types', phase' = "detect"
  PROVE  Removing' /\ Kept' /\ Found' /\ AllocFresh'
<1>1. pc' # "del" /\ given' = <<>>
  BY DEF Types
<1>. QED BY <1>1 DEF Removing, Kept, Found, AllocFresh

LEMMA SepStep ==
  ASSUME IInv, [Next]_vars, Types'
  PROVE  SepInv'
<1>0. table' = table
  BY DEF Next, Loop, NextPhase, Detect, Reserve, Alloc, AllocFail, AddStep, AddEnd, DelSkip,
         DelSplit, DelWhole, DelFront, DelTail, DelEnd, vars
<1>1. Separate' <=> Separate
  BY <1>0 DEF Separate, Used, Before
<1>. SUFFICES ASSUME Separate
              PROVE  (Shape /\ Entries /\ Removing /\ Kept /\ Found /\ AllocFresh)'
  BY <1>1 DEF SepInv
<1>2. Types /\ Covered /\ Shape /\ Entries /\ Removing /\ Kept /\ Found /\ AllocFresh
  BY DEF IInv, SepInv
<1>3. Reading /\ Cutting
  BY <1>2 DEF Reading, Cutting
<1>4. ASSUME phase' = "detect", Reading'
      PROVE  (Shape /\ Entries /\ Removing /\ Kept /\ Found /\ AllocFresh)'
  BY <1>4, NothingCut DEF Reading
<1>5. ASSUME phase' # "detect", Cutting'
      PROVE  (Shape /\ Entries /\ Removing /\ Kept /\ Found /\ AllocFresh)'
  BY <1>5 DEF Cutting, Entries
<1>6. CASE UNCHANGED vars
  <2>1. /\ UNCHANGED <<regions, cnt, pc, phase, table, calls, i, base, nend, want>>
        /\ UNCHANGED <<avail, reserved, given, lost>>
    BY <1>6 DEF vars, locals, history
  <2>2. Shape'
    BY <2>1, <1>2 DEF Shape, Empty, Strict, Full
  <2>3. Used' = Used /\ (\A e : Lo(e)' = Lo(e) /\ Hi(e)' = Hi(e)) /\ Empty' = Empty
    BY <2>1 DEF Used, Lo, Hi, Empty
  <2>4. Entries'
    BY <2>1, <2>3, <1>2 DEF Entries
  <2>5. From' = From /\ Doomed' = Doomed /\ Rest' = Rest
    BY <2>1 DEF From, Doomed, Rest, GivenPages
  <2>6. Removing' /\ Kept' /\ Found'
    BY <2>1, <2>5, <1>2 DEF Removing, Kept, Found
  <2>7. AllocFresh'
    BY <2>1, <1>2 DEF AllocFresh, Separate, Used, Before
  <2>. QED BY <2>2, <2>4, <2>6, <2>7
<1>7. CASE AddStep
  <2>1. phase' = "detect"
    BY <1>2, <1>7 DEF AddStep, Types
  <2>. QED BY <2>1, <1>2, <1>3, <1>4, <1>7, AddStepReads
<1>8. CASE AddEnd
  <2>1. phase' = "detect"
    BY <1>2, <1>8 DEF AddEnd, Types
  <2>. QED BY <2>1, <1>2, <1>3, <1>4, <1>8, AddEndReads
<1>9. CASE Detect
  <2>1. phase' = "detect"
    BY <1>9 DEF Detect
  <2>. QED BY <2>1, <1>2, <1>3, <1>4, <1>9, DetectReads
<1>10. CASE DelSkip \/ DelSplit \/ DelWhole \/ DelFront \/ DelTail \/ DelEnd
  <2>1. phase' # "detect"
    BY <1>2, <1>10 DEF DelSkip, DelSplit, DelWhole, DelFront, DelTail, DelEnd, Types
  <2>2. Cutting'
    BY <1>2, <1>3, <1>10, SkipCuts, SplitCuts, WholeCuts, FrontCuts, TailCuts, EndCuts
  <2>. QED BY <2>1, <2>2, <1>5
<1>11. CASE NextPhase
  <2>1. phase' # "detect"
    BY <1>11 DEF NextPhase
  <2>. QED BY <2>1, <1>2, <1>3, <1>5, <1>11, PhaseCuts
<1>12. ASSUME NEW w \in Reserves, Reserve(w)
       PROVE  (Shape /\ Entries /\ Removing /\ Kept /\ Found /\ AllocFresh)'
  <2>1. phase' # "detect"
    BY <1>12 DEF Reserve
  <2>. QED BY <2>1, <1>2, <1>3, <1>5, <1>12, ReserveCuts
<1>13. ASSUME NEW s \in AllocSizes, Alloc(s)
       PROVE  (Shape /\ Entries /\ Removing /\ Kept /\ Found /\ AllocFresh)'
  <2>1. phase' # "detect"
    BY <1>13 DEF Alloc
  <2>. QED BY <2>1, <1>2, <1>3, <1>5, <1>13, AllocCuts
<1>14. ASSUME NEW s \in AllocSizes, AllocFail(s)
       PROVE  (Shape /\ Entries /\ Removing /\ Kept /\ Found /\ AllocFresh)'
  BY <1>6, <1>14 DEF AllocFail
<1>. QED BY <1>6, <1>7, <1>8, <1>9, <1>10, <1>11, <1>12, <1>13, <1>14 DEF Next, Loop

LEMMA InitInv == Init => IInv
<1>. SUFFICES ASSUME Init PROVE IInv
  OBVIOUS
<1>0. /\ regions = [k \in 0 .. MaxRegions |-> Region(0, 0)] /\ cnt = 1
      /\ pc = "idle" /\ phase = "detect" /\ table \in Tables /\ calls = 0
      /\ i = 0 /\ base = 0 /\ nend = 0 /\ want = [addr |-> 0, size |-> 0]
      /\ avail = {} /\ reserved = {} /\ given = <<>> /\ lost = {}
  BY DEF Init
<1>1. 0 \in 0 .. MaxRegions /\ 1 \in 0 .. MaxRegions /\ 0 .. 1 - 1 = {0}
  BY Sizes
<1>2. regions[0] = Region(0, 0) /\ Region(0, 0).base = 0 /\ Region(0, 0).size = 0
  BY <1>0, <1>1 DEF Region
<1>3. 0 % PageSize = 0
  BY Sizes, Multiple
<1>4. regions \in [0 .. MaxRegions -> [base : Nat, size : Nat]]
  BY <1>0 DEF Region
<1>5. InUse = {Region(0, 0)}
  BY <1>0, <1>1, <1>2 DEF InUse
<1>6. TypeOK
  BY <1>0, <1>1, <1>2, <1>3, <1>4, <1>5 DEF TypeOK
<1>7. Types
  <2>1. Len(table) \in Nat
    BY <1>0, MemBlockAssumption
  <2>2. given \in Seq([addr : Nat, size : Nat])
    <3>1. ASSUME NEW S PROVE <<>> \in Seq(S)
      OBVIOUS
    <3>. QED BY <3>1, <1>0
  <2>. QED BY <2>1, <2>2, <1>0, <1>6 DEF Types
<1>8. Empty
  BY <1>0, <1>2 DEF Empty
<1>9. \A a \in Pages : ~ Cov(regions, cnt, a)
  BY <1>0, <1>1, <1>2 DEF Cov, Has, Pages
<1>10. Covered
  BY <1>0, <1>9 DEF Covered
<1>11. SepInv
  BY <1>0, <1>8 DEF SepInv, Shape, Entries, Removing, Kept, Found, AllocFresh
<1>. QED BY <1>7, <1>10, <1>11 DEF IInv

(* The regions hold the map, or what is left of it, at every step of an    *)
(* addition and of a removal.                                              *)
THEOREM BootMemoryInductive == Spec => []IInv
<1>1. ASSUME IInv, [Next]_vars PROVE IInv'
  <2>1. Types'
    BY <1>1, TypesStep DEF IInv
  <2>2. Covered'
    BY <1>1, CoveredStep DEF IInv
  <2>3. SepInv'
    BY <1>1, <2>1, SepStep
  <2>. QED BY <2>1, <2>2, <2>3 DEF IInv
<1>. QED BY <1>1, InitInv, PTL DEF Spec

(* The regions are page aligned and cover just the memory of the map,      *)
(* whatever it holds; if its entries are separate they are sorted, apart   *)
(* and not empty between the calls (memblock_add, memblock.c:97-180).      *)
THEOREM RegionsAreSound == Spec => []RegionsSound
<1>1. ASSUME IInv PROVE RegionsSound
  <2>1. Types /\ Covered /\ TypeOK
    BY <1>1 DEF IInv, Types
  <2>2. MapCovered
    <3>. SUFFICES ASSUME phase = "detect", pc = "idle" PROVE FreePages = avail
      BY DEF MapCovered
    <3>1. \A a : a \in FreePages <=> a \in Pages /\ Cov(regions, cnt, a)
      BY <2>1, FreeDef
    <3>2. \A a \in Pages : a \in avail <=> Cov(regions, cnt, a)
      BY <2>1 DEF Covered
    <3>3. avail \subseteq Pages
      BY <2>1 DEF Types
    <3>. QED BY <3>1, <3>2, <3>3
  <2>3. SortedApart
    <3>. SUFFICES ASSUME Separate, pc = "idle", avail # {}
                  PROVE  /\ \A k \in 0 .. cnt - 1 : regions[k].size > 0
                         /\ \A k \in 0 .. cnt - 2 : End(regions[k]) <= regions[k + 1].base
      BY DEF SortedApart
    <3>1. Strict(regions, cnt) /\ Full(regions, cnt)
      BY <1>1 DEF IInv, SepInv, Shape, Empty
    <3>2. ASSUME NEW k \in 0 .. cnt - 2 PROVE End(regions[k]) <= regions[k + 1].base
      <4>1. cnt \in Nat /\ cnt <= MaxRegions /\ MaxRegions \in Nat
        BY <2>1, TypeFacts, Sizes
      <4>2. /\ k \in 0 .. cnt - 1 /\ k + 1 \in 0 .. cnt - 1 /\ k < k + 1
            /\ k \in 0 .. MaxRegions /\ k + 1 \in 0 .. MaxRegions
        BY <4>1
      <4>3. regions[k].base + regions[k].size < regions[k + 1].base
        BY <3>1, <4>2 DEF Strict
      <4>4. /\ regions[k].base \in Nat /\ regions[k].size \in Nat
            /\ regions[k + 1].base \in Nat
        BY <2>1, <4>2, TypeFacts, Bounds
      <4>. QED BY <4>3, <4>4 DEF End
    <3>. QED BY <3>1, <3>2 DEF Full
  <2>. QED BY <2>1, <2>2, <2>3 DEF RegionsSound
<1>. QED BY <1>1, BootMemoryInductive, PTL

(* However reservations and allocations cut the regions, these hold just   *)
(* what was added and not taken, and memblock_alloc returns free memory    *)
(* once, aligned and below the limit (memblock_del_region): for maps whose *)
(* entries are separate.                                                   *)
THEOREM PagesAreAccounted == Spec => []PagesAccounted
<1>1. ASSUME IInv PROVE PagesAccounted
  <2>1. Types /\ Covered /\ SepInv /\ TypeOK
    BY <1>1 DEF IInv, Types
  <2>2. AllocFresh
    BY <2>1 DEF SepInv, AllocFresh
  <2>3. MemoryAccounted
    <3>. SUFFICES ASSUME Separate, pc = "idle" PROVE FreePages = Rest
      BY DEF MemoryAccounted, Rest
    <3>1. \A a : a \in FreePages <=> a \in Pages /\ Cov(regions, cnt, a)
      BY <2>1, FreeDef
    <3>2. Rest \subseteq Pages
      BY <2>1 DEF Types, Rest
    <3>3. \A a \in Pages : a \in Rest <=> Cov(regions, cnt, a)
      <4>1. CASE phase # "detect"
        BY <2>1, <4>1 DEF SepInv, Kept
      <4>2. CASE phase = "detect"
        <5>1. reserved = {} /\ given = <<>> /\ lost = {}
          BY <2>1, <4>2 DEF Types
        <5>2. GivenPages = {}
          <6>1. 1 .. Len(<<>>) = {}
            OBVIOUS
          <6>. QED BY <5>1, <6>1 DEF GivenPages
        <5>. QED BY <2>1, <4>2, <5>1, <5>2 DEF Covered, Rest
      <4>. QED BY <4>1, <4>2
    <3>. QED BY <3>1, <3>2, <3>3
  <2>. QED BY <2>2, <2>3 DEF PagesAccounted
<1>. QED BY <1>1, BootMemoryInductive, PTL

(* A call of memblock_alloc that takes memory and returns NULL leaves      *)
(* nothing of the region it found behind the block.                        *)
THEOREM LostOnlyAtEnd == Spec => LostAtRegionEnd
<1>1. ASSUME IInv, [Next]_vars
      PROVE  [Separate /\ lost' # lost =>
                \A r \in InUse' : r.base # RoundUp(want.addr + want.size)]_vars
  <2>. SUFFICES ASSUME Separate, lost' # lost, NEW k \in 0 .. cnt' - 1
                PROVE  regions'[k].base # RoundUp(want.addr + want.size)
    BY DEF InUse
  <2>1. DelEnd
    BY <1>1 DEF Next, Loop, NextPhase, Detect, AddEntry, SkipEntry, Reserve, Alloc, AllocFail,
       AddStep, AddEnd, DelSkip, DelSplit, DelWhole, DelFront, DelTail, Return, vars, history
  <2>2. /\ pc = "del" /\ ~ DelOn /\ phase = "alloc" /\ regions' = regions /\ cnt' = cnt
    BY <2>1 DEF DelEnd, Return
  <2>3. Types /\ Shape /\ Removing /\ Found
    BY <1>1 DEF IInv, SepInv
  <2>4. From \in Nat /\ From < nend /\ nend \in Nat
    BY <2>2, <2>3, DoomedFor
  <2>5. nend = RoundUp(want.addr + want.size)
    BY <2>2, <2>3 DEF Removing
  <2>6. ASSUME NEW m \in i .. cnt - 1, regions[m].base <= From, nend <= End(regions[m])
        PROVE  FALSE
    <3>1. i \in Nat /\ cnt \in Nat /\ cnt <= MaxRegions /\ MaxRegions \in Nat
      BY <2>3, TypeFacts, Sizes
    <3>2. /\ i \in 0 .. cnt - 1 /\ m \in 0 .. cnt - 1 /\ i < cnt /\ (m = i \/ i < m)
          /\ i \in 0 .. MaxRegions /\ m \in 0 .. MaxRegions
      BY <3>1
    <3>3. /\ regions[i].base \in Nat /\ regions[i].size \in Nat
          /\ regions[m].base \in Nat /\ regions[m].size \in Nat
      BY <2>3, <3>2, TypeFacts, Bounds
    <3>4. nend <= regions[i].base
      BY <2>2, <2>4, <3>2, <3>3 DEF DelOn
    <3>5. m # i
      BY <2>4, <2>6, <3>3, <3>4
    <3>6. cnt # 1
      BY <3>1, <3>2, <3>5
    <3>7. Strict(regions, cnt)
      BY <2>3, <3>6 DEF Shape, Empty
    <3>8. regions[i].base + regions[i].size < regions[m].base
      BY <3>2, <3>5, <3>7 DEF Strict
    <3>. QED BY <2>4, <2>6, <3>3, <3>4, <3>8
  <2>. QED BY <2>2, <2>3, <2>5, <2>6 DEF Found
<1>. QED BY <1>1, BootMemoryInductive, PTL DEF Spec, LostAtRegionEnd
==============================================================================
