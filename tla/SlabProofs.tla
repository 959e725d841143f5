----------------------------- MODULE SlabProofs -----------------------------
(***************************************************************************)
(* The slab allocator, for every table of sizes, page size and number of   *)
(* blocks: the sizes bmalloc_index picks, and the invariant of the lists,  *)
(* the counters and the objects.                                           *)
(***************************************************************************)
EXTENDS Slab, FiniteSetTheorems, WellFoundedInduction, TLAPS

(* A set of numbers that is not empty has a least one.                     *)
LEMMA LeastNat ==
  ASSUME NEW S, S \subseteq Nat, S # {}
  PROVE  \E x \in S : \A y \in S : x <= y
<1>. DEFINE R == OpToRel(<, Nat)
<1>1. IsWellFoundedOn(R, Nat)
  BY NatLessThanWellFounded
<1>. HIDE DEF R
<1>2. PICK x \in S : \A y \in S : ~ (<<y, x>> \in R)
  BY <1>1, WFMin
<1>3. \A y \in S : (<<y, x>> \in R) <=> y < x
  BY DEF R, OpToRel
<1>4. \A y \in S : ~ (y < x)
  BY <1>2, <1>3, Zenon
<1>5. x \in Nat /\ \A y \in S : y \in Nat
  OBVIOUS
<1>. QED BY <1>4, <1>5, SMT

-----------------------------------------------------------------------------
(* Powers of two *)

Shifts == 0 .. Bits + PageShift

LEMMA PowFacts ==
  /\ Bits \in Nat \ {0} /\ PageShift \in Nat /\ Pow2[0] = 1
  /\ Bits \in Shifts /\ Bits - 1 \in Shifts /\ PageShift \in Shifts
  /\ \A k \in Shifts : Pow2[k] \in Nat
  /\ \A k \in Shifts : k - 1 \in Shifts => Pow2[k] = 2 * Pow2[k - 1]
<1>1. /\ Bits \in Nat \ {0} /\ PageShift \in Nat /\ Pow2[0] = 1
      /\ Pow2 \in [Shifts -> Nat]
      /\ \A k \in 1 .. Bits + PageShift : Pow2[k] = 2 * Pow2[k - 1]
  BY SlabAssumption DEF Shifts
<1>2. \A k \in Shifts : k - 1 \in Shifts => k \in 1 .. Bits + PageShift
  BY <1>1, SMT DEF Shifts
<1>3. Bits \in Shifts /\ Bits - 1 \in Shifts /\ PageShift \in Shifts
  BY <1>1, SMT DEF Shifts
<1>. QED BY <1>1, <1>2, <1>3

LEMMA PowPositive == \A k \in Shifts : Pow2[k] \in Nat \ {0}
<1>. DEFINE Bad == {k \in Shifts : Pow2[k] = 0}
<1>. SUFFICES ASSUME Bad # {} PROVE FALSE
  BY PowFacts
<1>0. Bad \subseteq Nat
  BY PowFacts, SMT DEF Shifts
<1>1. PICK k \in Bad : \A j \in Bad : k <= j
  BY <1>0, LeastNat
<1>2. k \in Shifts /\ Pow2[k] = 0 /\ k # 0
  BY <1>1, PowFacts
<1>3. k - 1 \in Shifts /\ ~ (k <= k - 1)
  BY <1>2, PowFacts, SMT DEF Shifts
<1>4. Pow2[k - 1] # 0
  BY <1>1, <1>3
<1>5. Pow2[k] = 2 * Pow2[k - 1] /\ Pow2[k - 1] \in Nat
  BY <1>2, <1>3, PowFacts
<1>. QED BY <1>2, <1>4, <1>5, SMT

LEMMA PowGrows ==
  ASSUME NEW j \in Shifts, NEW k \in Shifts, j < k
  PROVE  Pow2[j] < Pow2[k]
<1>. DEFINE Bad == {i \in Shifts : j < i /\ ~ (Pow2[j] < Pow2[i])}
<1>. SUFFICES ASSUME Bad # {} PROVE FALSE
  OBVIOUS
<1>0. Bad \subseteq Nat
  BY PowFacts, SMT DEF Shifts
<1>1. PICK i \in Bad : \A h \in Bad : i <= h
  BY <1>0, LeastNat
<1>2. i \in Shifts /\ j < i /\ ~ (Pow2[j] < Pow2[i])
  BY <1>1
<1>3. i - 1 \in Shifts /\ ~ (i <= i - 1) /\ (j < i - 1 \/ j = i - 1)
  BY <1>2, PowFacts, SMT DEF Shifts
<1>4. j < i - 1 => Pow2[j] < Pow2[i - 1]
  BY <1>1, <1>3
<1>5. /\ Pow2[i] = 2 * Pow2[i - 1]
      /\ Pow2[i - 1] \in Nat \ {0} /\ Pow2[j] \in Nat \ {0}
  BY <1>2, <1>3, PowFacts, PowPositive
<1>. QED BY <1>2, <1>3, <1>4, <1>5, SMT

LEMMA PowOrdered ==
  ASSUME NEW j \in Shifts, NEW k \in Shifts
  PROVE  /\ j <= k <=> Pow2[j] <= Pow2[k]
         /\ Pow2[j] = Pow2[k] => j = k
<1>1. Pow2[j] \in Nat /\ Pow2[k] \in Nat /\ j \in Int /\ k \in Int
  BY PowFacts DEF Shifts
<1>2. (j < k => Pow2[j] < Pow2[k]) /\ (k < j => Pow2[k] < Pow2[j])
  BY PowGrows
<1>. QED BY <1>1, <1>2, SMT

-----------------------------------------------------------------------------
(* fls and round_up_pow2 *)

IsFls(v, k) == v < Pow2[k] /\ (k > 0 => v >= Pow2[k - 1])

LEMMA FlsIs ==
  ASSUME NEW v \in Nat, NEW k \in 0 .. Bits, IsFls(v, k)
  PROVE  Fls(v) = k
<1>1. PICK j \in 0 .. Bits : j = Fls(v) /\ IsFls(v, j)
  BY DEF Fls, IsFls
<1>2. /\ j \in Shifts /\ k \in Shifts /\ j \in Nat /\ k \in Nat
      /\ Pow2[j] \in Nat /\ Pow2[k] \in Nat
  BY PowFacts, SMT DEF Shifts
<1>3. ASSUME j < k PROVE FALSE
  <2>1. k - 1 \in Shifts /\ j <= k - 1 /\ k > 0
    BY <1>2, <1>3, PowFacts, SMT DEF Shifts
  <2>2. Pow2[j] <= Pow2[k - 1] /\ Pow2[k - 1] \in Nat
    BY <1>2, <2>1, PowOrdered, PowFacts
  <2>3. v < Pow2[j] /\ v >= Pow2[k - 1]
    BY <1>1, <2>1 DEF IsFls
  <2>. QED BY <1>2, <2>2, <2>3, SMT
<1>4. ASSUME k < j PROVE FALSE
  <2>1. j - 1 \in Shifts /\ k <= j - 1 /\ j > 0
    BY <1>2, <1>4, PowFacts, SMT DEF Shifts
  <2>2. Pow2[k] <= Pow2[j - 1] /\ Pow2[j - 1] \in Nat
    BY <1>2, <2>1, PowOrdered, PowFacts
  <2>3. v < Pow2[k] /\ v >= Pow2[j - 1]
    BY <1>1, <2>1 DEF IsFls
  <2>. QED BY <1>2, <2>2, <2>3, SMT
<1>5. j = k
  BY <1>2, <1>3, <1>4, SMT
<1>. QED BY <1>1, <1>5

LEMMA FlsExists ==
  ASSUME NEW v \in Nat, NEW b \in 0 .. Bits, v < Pow2[b]
  PROVE  Fls(v) \in 0 .. b /\ IsFls(v, Fls(v))
<1>. DEFINE Above == {k \in 0 .. b : v < Pow2[k]}
<1>0. Bits \in Nat /\ b \in Nat
  BY PowFacts, SMT
<1>1. Above \subseteq Nat /\ b \in Above
  BY <1>0, SMT
<1>2. PICK k \in Above : \A j \in Above : k <= j
  BY <1>1, LeastNat
<1>3. k \in 0 .. b /\ k \in 0 .. Bits /\ v < Pow2[k]
  BY <1>0, <1>2, SMT
<1>4. ASSUME k > 0 PROVE v >= Pow2[k - 1]
  <2>1. k - 1 \in 0 .. b /\ ~ (k <= k - 1) /\ k - 1 \in Shifts
    BY <1>0, <1>3, <1>4, PowFacts, SMT DEF Shifts
  <2>2. ~ (v < Pow2[k - 1])
    BY <1>2, <2>1
  <2>. QED BY <2>1, <2>2, PowFacts, SMT
<1>5. Fls(v) = k
  BY <1>3, <1>4, FlsIs DEF IsFls
<1>. QED BY <1>3, <1>4, <1>5 DEF IsFls

LEMMA Remainder ==
  ASSUME NEW m \in Nat \ {0}, NEW x \in Int
  PROVE  /\ x % m \in 0 .. m - 1
         /\ x \in 0 .. m - 1 => x % m = x
         /\ x = m => x % m = 0
<1>1. x % m \in 0 .. m - 1
  BY SMT
<1>2. x \in 0 .. m - 1 => x % m = x
  BY SMT
<1>3. x = m => x % m = 0
  BY SMT
<1>. QED BY <1>1, <1>2, <1>3

(* The next power of two, or, above the largest one of the word, one.      *)
LEMMA RoundsUp ==
  ASSUME NEW v \in 0 .. Pow2[Bits] - 1
  PROVE  \E j \in 0 .. Bits - 1 :
           /\ RoundUpPow2(v) = Pow2[j]
           /\ v <= Pow2[Bits - 1] => v <= Pow2[j]
           /\ v # 0 /\ j > 0 => Pow2[j - 1] < v
<1>1. /\ Bits \in Nat \ {0} /\ Pow2[Bits] \in Nat \ {0} /\ Pow2[Bits] = 2 * Pow2[Bits - 1]
      /\ Bits - 1 \in Shifts /\ Pow2[Bits - 1] \in Nat \ {0}
  BY PowFacts, PowPositive
<1>. DEFINE w == (v - 1) % Pow2[Bits]
            j == Fls(w) % Bits
<1>2. w \in Nat /\ w < Pow2[Bits] /\ (v # 0 => w = v - 1)
  <2>1. v - 1 \in Int /\ (v # 0 => v - 1 \in 0 .. Pow2[Bits] - 1)
    BY <1>1, SMT
  <2>2. w \in 0 .. Pow2[Bits] - 1 /\ (v # 0 => w = v - 1)
    BY <1>1, <2>1, Remainder
  <2>. QED BY <1>1, <2>2, SMT
<1>3. Fls(w) \in 0 .. Bits /\ IsFls(w, Fls(w))
  BY <1>1, <1>2, FlsExists
<1>4. j \in 0 .. Bits - 1 /\ RoundUpPow2(v) = Pow2[j]
  <2>1. Fls(w) \in Int
    BY <1>1, <1>3, SMT
  <2>2. j \in 0 .. Bits - 1
    BY <1>1, <2>1, Remainder
  <2>. QED BY <2>2 DEF RoundUpPow2
<1>5. (Fls(w) < Bits => j = Fls(w)) /\ (Fls(w) = Bits => j = 0)
  <2>1. Fls(w) < Bits => Fls(w) \in 0 .. Bits - 1
    BY <1>1, <1>3, SMT
  <2>. QED BY <1>1, <1>3, <2>1, Remainder
<1>. HIDE DEF w, j
<1>6. /\ j \in Shifts /\ Pow2[j] \in Nat \ {0}
  BY <1>1, <1>4, PowPositive, PowFacts, SMT DEF Shifts
<1>7. ASSUME v <= Pow2[Bits - 1] PROVE v <= Pow2[j]
  <2>1. CASE v = 0
    BY <1>6, <2>1, SMT
  <2>2. CASE v # 0
    <3>1. w = v - 1 /\ w < Pow2[Bits - 1] /\ Bits - 1 \in 0 .. Bits
      BY <1>1, <1>2, <1>7, <2>2, SMT
    <3>2. Fls(w) \in 0 .. Bits - 1
      BY <1>2, <3>1, FlsExists
    <3>3. j = Fls(w)
      BY <1>1, <1>5, <3>2, SMT
    <3>. QED BY <1>1, <1>3, <1>6, <3>1, <3>3, SMT DEF IsFls
  <2>. QED BY <2>1, <2>2
<1>8. ASSUME v # 0, j > 0 PROVE Pow2[j - 1] < v
  <2>1. j = Fls(w) /\ j - 1 \in Shifts
    BY <1>1, <1>3, <1>4, <1>5, <1>8, PowFacts, SMT DEF Shifts
  <2>2. w >= Pow2[j - 1] /\ Pow2[j - 1] \in Nat
    BY <1>3, <1>8, <2>1, PowFacts DEF IsFls
  <2>. QED BY <1>1, <1>2, <1>8, <2>2, SMT
<1>. QED BY <1>4, <1>7, <1>8
-----------------------------------------------------------------------------
(* The table of sizes *)

LEMMA InfoPowers ==
  \E m \in 0 .. Bits - 1 : \A i \in 1 .. Len(Info) :
     m + i - 1 \in 0 .. Bits - 1 /\ Info[i] = Pow2[m + i - 1]
<1>1. PICK m \in 0 .. Bits : Info[1] = Pow2[m]
  BY SlabAssumption
<1>2. /\ Bits \in Nat \ {0} /\ PageShift \in Nat /\ m \in Nat /\ m \in Shifts
      /\ Len(Info) \in Nat \ {0}
      /\ \A i \in 1 .. Len(Info) : Info[i] < Pow2[Bits] /\ Info[i] \in Nat
      /\ \A i \in 2 .. Len(Info) : Info[i] = 2 * Info[i - 1]
  <2>1. Info \in Seq(Nat) /\ Info # <<>>
    BY SlabAssumption
  <2>2. /\ Len(Info) \in Nat \ {0}
        /\ \A i \in 1 .. Len(Info) : Info[i] \in Nat
    BY <2>1
  <2>3. m \in Nat /\ m \in Shifts
    BY PowFacts, SMT DEF Shifts
  <2>. QED BY <2>2, <2>3, PowFacts, SlabAssumption
<1>. DEFINE Good(i) == m + i - 1 \in 0 .. Bits - 1 /\ Info[i] = Pow2[m + i - 1]
            Bad == {i \in 1 .. Len(Info) : ~ Good(i)}
<1>3. ASSUME NEW x \in 0 .. Bits, NEW i \in 1 .. Len(Info), Info[i] = Pow2[x]
      PROVE  x \in 0 .. Bits - 1
  <2>1. x \in Shifts /\ Bits \in Shifts /\ Pow2[x] \in Nat /\ Pow2[Bits] \in Nat
    BY <1>2, PowFacts, SMT DEF Shifts
  <2>2. Pow2[x] < Pow2[Bits]
    BY <1>2, <1>3
  <2>3. x # Bits
    BY <2>1, <2>2, SMT
  <2>. QED BY <1>2, <2>3, SMT
<1>4. Bad = {}
  <2>. SUFFICES ASSUME Bad # {} PROVE FALSE
    OBVIOUS
  <2>1. Bad \subseteq Nat
    BY <1>2, SMT
  <2>2. PICK i \in Bad : \A h \in Bad : i <= h
    BY <2>1, LeastNat
  <2>3. i \in 1 .. Len(Info) /\ ~ Good(i)
    BY <2>2
  <2>4. CASE i = 1
    <3>1. m + 1 - 1 = m /\ 1 \in 1 .. Len(Info)
      BY <1>2, SMT
    <3>. QED BY <1>1, <1>3, <2>3, <2>4, <3>1
  <2>5. CASE i # 1
    <3>1. i \in 2 .. Len(Info) /\ i - 1 \in 1 .. Len(Info) /\ ~ (i <= i - 1)
      BY <1>2, <2>3, <2>5, SMT
    <3>2. Good(i - 1)
      BY <2>2, <3>1
    <3>3. /\ m + (i - 1) - 1 \in 0 .. Bits - 1 /\ m + (i - 1) - 1 = (m + i - 1) - 1
          /\ m + i - 1 \in 0 .. Bits /\ m + i - 1 \in Shifts /\ (m + i - 1) - 1 \in Shifts
      BY <1>2, <2>3, <3>1, <3>2, SMT DEF Shifts
    <3>4. Pow2[m + i - 1] = 2 * Pow2[(m + i - 1) - 1]
      BY <3>3, PowFacts
    <3>5. Info[i] = 2 * Info[i - 1] /\ Info[i - 1] = Pow2[(m + i - 1) - 1]
      BY <1>2, <3>1, <3>2, <3>3
    <3>6. Info[i] = Pow2[m + i - 1]
      BY <3>4, <3>5
    <3>. QED BY <1>3, <2>3, <3>3, <3>6
  <2>. QED BY <2>4, <2>5
<1>5. \A i \in 1 .. Len(Info) : Good(i)
  BY <1>4
<1>6. 1 \in 1 .. Len(Info) /\ m + 1 - 1 = m
  BY <1>2, SMT
<1>7. m \in 0 .. Bits - 1
  BY <1>5, <1>6
<1>. QED BY <1>5, <1>7

LEMMA LogOfPower ==
  ASSUME NEW j \in 0 .. Bits - 1
  PROVE  /\ Log2(Pow2[j]) = j
         /\ Fls(Pow2[j] - 1) = j
<1>1. /\ Bits \in Nat \ {0} /\ j \in Shifts /\ j + 1 \in Shifts /\ (j + 1) - 1 = j
      /\ j \in 0 .. Bits /\ j + 1 \in 0 .. Bits /\ (j > 0 => j - 1 \in Shifts)
  BY PowFacts, SMT DEF Shifts
<1>2. /\ Pow2[j] \in Nat \ {0} /\ Pow2[j + 1] = 2 * Pow2[j]
      /\ j > 0 => Pow2[j] = 2 * Pow2[j - 1] /\ Pow2[j - 1] \in Nat \ {0}
  BY <1>1, PowFacts, PowPositive
<1>3. IsFls(Pow2[j], j + 1)
  BY <1>1, <1>2, SMT DEF IsFls
<1>4. Fls(Pow2[j]) = j + 1
  BY <1>1, <1>2, <1>3, FlsIs
<1>5. Pow2[j] - 1 \in Nat /\ IsFls(Pow2[j] - 1, j)
  BY <1>1, <1>2, SMT DEF IsFls
<1>6. Fls(Pow2[j] - 1) = j
  BY <1>1, <1>5, FlsIs
<1>7. (j + 1) - 1 = j
  BY <1>1
<1>. QED BY <1>4, <1>6, <1>7 DEF Log2

(* A cache of bmalloc serves a size with the smallest objects that hold    *)
(* it, unless rounding the size up leaves the word.                        *)
LEMMA IndexFacts ==
  ASSUME NEW s \in 0 .. Pow2[Bits] - 1, NEW c \in BmallocIndex(s)
  PROVE  /\ c \in 1 .. Len(Info)
         /\ s <= Pow2[Bits - 1] => s <= Info[c]
         /\ s # 0 /\ c > 1 => Info[c - 1] < s
<1>1. PICK m \in 0 .. Bits - 1 : \A i \in 1 .. Len(Info) :
        m + i - 1 \in 0 .. Bits - 1 /\ Info[i] = Pow2[m + i - 1]
  BY InfoPowers
<1>2. PICK j \in 0 .. Bits - 1 :
        /\ RoundUpPow2(s) = Pow2[j]
        /\ s <= Pow2[Bits - 1] => s <= Pow2[j]
        /\ s # 0 /\ j > 0 => Pow2[j - 1] < s
  BY RoundsUp
<1>3. /\ Bits \in Nat \ {0} /\ m \in Nat /\ j \in Nat /\ j \in Shifts /\ m \in Shifts
      /\ Pow2[j] \in Nat \ {0} /\ Pow2[m] \in Nat \ {0} /\ Pow2[Bits] \in Nat
      /\ s \in Nat
  <2>1. Bits \in Nat \ {0} /\ j \in Shifts /\ m \in Shifts /\ m \in Nat /\ j \in Nat
    BY PowFacts, SMT DEF Shifts
  <2>2. Pow2[Bits] \in Nat
    BY PowFacts
  <2>3. s \in Nat
    BY <2>2, SMT
  <2>. QED BY <2>1, <2>2, <2>3, PowPositive
<1>4. Len(Info) \in Nat \ {0}
  <2>1. Info \in Seq(Nat) /\ Info # <<>>
    BY SlabAssumption
  <2>. QED BY <2>1
<1>5. 1 \in 1 .. Len(Info) /\ Info[1] = Pow2[m]
  <2>1. 1 \in 1 .. Len(Info) /\ m + 1 - 1 = m
    BY <1>3, <1>4, SMT
  <2>. QED BY <1>1, <2>1
<1>6. CASE s = 0
  <2>1. c = 1
    BY <1>6 DEF BmallocIndex
  <2>. QED BY <1>3, <1>5, <1>6, <2>1, SMT
<1>7. CASE s # 0 /\ Pow2[j] <= Info[1]
  <2>1. c = 1
    BY <1>2, <1>3, <1>5, <1>7, SMT DEF BmallocIndex
  <2>. QED BY <1>2, <1>3, <1>5, <1>7, <2>1, SMT
<1>8. CASE s # 0 /\ ~ (Pow2[j] <= Info[1])
  <2>1. Pow2[j] > Info[1]
    BY <1>3, <1>5, <1>8, SMT
  <2>2. Pow2[j] <= Info[Len(Info)] /\ c = Log2(Pow2[j]) - Log2(Info[1]) + 1
    BY <1>2, <1>8, <2>1 DEF BmallocIndex
  <2>3. c = j - m + 1
    BY <1>5, <2>2, LogOfPower
  <2>4. m < j
    <3>1. ~ (j <= m)
      BY <1>3, <1>5, <1>8, PowOrdered
    <3>. QED BY <1>3, <3>1, SMT
  <2>5. j <= m + Len(Info) - 1
    <3>1. Len(Info) \in 1 .. Len(Info)
      BY <1>4, SMT
    <3>2. Info[Len(Info)] = Pow2[m + Len(Info) - 1] /\ m + Len(Info) - 1 \in 0 .. Bits - 1
      BY <1>1, <3>1
    <3>3. m + Len(Info) - 1 \in Shifts
      BY <1>3, <3>2, PowFacts, SMT DEF Shifts
    <3>. QED BY <1>3, <2>2, <3>2, <3>3, PowOrdered
  <2>6. /\ c \in 1 .. Len(Info) /\ c - 1 \in 1 .. Len(Info) /\ j > 0
        /\ m + c - 1 = j /\ m + (c - 1) - 1 = j - 1
    BY <1>3, <1>4, <2>3, <2>4, <2>5, SMT
  <2>7. Info[c] = Pow2[j] /\ Info[c - 1] = Pow2[j - 1]
    BY <1>1, <2>6
  <2>. QED BY <1>2, <1>8, <2>6, <2>7
<1>. QED BY <1>6, <1>7, <1>8
LEMMA SizePower ==
  ASSUME NEW c \in Caches
  PROVE  \E j \in 0 .. Bits - 1 : Size(c) = Pow2[j]
<1>1. Len(Info) \in Nat \ {0}
  <2>1. Info \in Seq(Nat) /\ Info # <<>>
    BY SlabAssumption
  <2>. QED BY <2>1
<1>2. ASSUME NEW v \in {CacheSize, NodeSize, NameSize}
      PROVE  \E j \in 0 .. Bits - 1 : RoundUpPow2(v) = Pow2[j]
  <2>1. v \in 1 .. Pow2[Bits - 1]
    BY SlabAssumption
  <2>2. Pow2[Bits - 1] \in Nat \ {0} /\ Pow2[Bits] = 2 * Pow2[Bits - 1]
    BY PowFacts, PowPositive
  <2>3. v \in 0 .. Pow2[Bits] - 1
    BY <2>1, <2>2, SMT
  <2>. QED BY <2>3, RoundsUp
<1>3. CASE c = Boot
  BY <1>2, <1>3 DEF Size
<1>4. CASE c # Boot /\ c = NodeCache
  BY <1>2, <1>4 DEF Size
<1>5. CASE c # Boot /\ c # NodeCache
  <2>1. c \in 1 .. Len(Info)
    BY <1>1, <1>5, SMT DEF Caches, Boot, NodeCache
  <2>2. Size(c) = Info[c]
    BY <1>5 DEF Size
  <2>. QED BY <2>1, <2>2, InfoPowers
<1>. QED BY <1>3, <1>4, <1>5

(* The objects of a slab fit the block of the order the cache asks for.    *)
LEMMA CacheFits ==
  ASSUME NEW c \in Caches
  PROVE  /\ Nums(c) \in Nat \ {0} /\ Size(c) \in Nat \ {0}
         /\ Nums(c) * Size(c) <= Pow2[PageShift + CacheOrder(Size(c))]
<1>1. PICK j \in 0 .. Bits - 1 : Size(c) = Pow2[j]
  BY SizePower
<1>2. /\ Bits \in Nat \ {0} /\ PageShift \in Nat /\ j \in Nat /\ j \in Shifts
      /\ PageShift \in Shifts
  BY PowFacts, SMT DEF Shifts
<1>. DEFINE a == Pow2[PageShift]
            b == Pow2[j]
<1>3. a \in Nat \ {0} /\ b \in Nat \ {0}
  BY <1>2, PowPositive
<1>4. CacheOrder(Size(c)) = j - Lesser(j, PageShift)
  <2>1. Log2(Pow2[j] - 1) = j - 1
    BY LogOfPower DEF Log2
  <2>2. (j - 1) + 1 = j /\ Lesser(j, PageShift) \in Int
    BY <1>2, SMT DEF Lesser
  <2>3. CacheOrder(Pow2[j]) = (j - 1) + (1 - Lesser(j, PageShift))
    BY <2>1, <2>2 DEF CacheOrder
  <2>. QED BY <1>1, <1>2, <2>2, <2>3
<1>5. Nums(c) = Greater(a \div b, 1)
  BY <1>1 DEF Nums
<1>6. a \div b \in Nat /\ (a \div b) * b <= a /\ (a < b => a \div b = 0)
  <2>. HIDE DEF a, b
  <2>1. a \div b \in Nat
    BY <1>3, SMT
  <2>2. (a \div b) * b <= a
    BY <1>3, SMT
  <2>3. a < b => a \div b = 0
    BY <1>3, SMT
  <2>. QED BY <2>1, <2>2, <2>3
<1>7. Nums(c) \in Nat \ {0}
  BY <1>5, <1>6, SMT DEF Greater
<1>8. CASE j <= PageShift
  <2>1. CacheOrder(Size(c)) = 0 /\ PageShift + 0 = PageShift
    BY <1>2, <1>4, <1>8, SMT DEF Lesser
  <2>2. b <= a
    BY <1>2, <1>8, PowOrdered
  <2>3. Nums(c) * b <= a
    <3>. HIDE DEF a, b
    <3>1. CASE a \div b > 1
      BY <1>5, <1>6, <3>1 DEF Greater
    <3>2. CASE ~ (a \div b > 1)
      <4>1. Nums(c) = 1
        BY <1>5, <3>2 DEF Greater
      <4>. QED BY <1>3, <2>2, <4>1, SMT
    <3>. QED BY <3>1, <3>2
  <2>. QED BY <1>1, <1>3, <1>7, <2>1, <2>3
<1>9. CASE ~ (j <= PageShift)
  <2>1. PageShift + CacheOrder(Size(c)) = j
    BY <1>2, <1>4, <1>9, SMT DEF Lesser
  <2>2. ~ (b <= a)
    BY <1>2, <1>9, PowOrdered
  <2>3. Nums(c) = 1
    <3>. HIDE DEF a, b
    <3>1. a \div b = 0
      BY <1>3, <1>6, <2>2, SMT
    <3>. QED BY <1>5, <3>1, SMT DEF Greater
  <2>4. 1 * b <= b
    BY <1>3, SMT
  <2>. QED BY <1>1, <1>3, <1>7, <2>1, <2>3, <2>4
<1>. QED BY <1>8, <1>9
-----------------------------------------------------------------------------
(* The invariant of the heap *)

HeapTypes ==
  /\ slabs_full \in [Caches -> SUBSET Slabs]
  /\ slabs_partial \in [Caches -> SUBSET Slabs]
  /\ slabs_free \in [Caches -> SUBSET Slabs]
  /\ free_objs \in [Caches -> Nat]
  /\ free_slabs \in [Caches -> Nat]
  /\ total_slabs \in [Caches -> Nat]
  /\ slab_cache \in [Slabs -> Caches \cup {NoCache}]
  /\ inuse \in [Slabs -> Nat]
  /\ freelist \in [Slabs -> SUBSET (Slabs \X Nat)]
  /\ pool \in SUBSET Slabs
  /\ live \in SUBSET (Slabs \X Nat)

(* A slab on a list is on a list of its own cache, and every slab is.      *)
Home ==
  /\ \A c \in Caches : \A p \in Listed(c) : p \in Taken /\ slab_cache[p] = c
  /\ \A p \in Taken : p \in Listed(slab_cache[p])
  /\ \A c \in Caches : /\ slabs_full[c] \cap slabs_partial[c] = {}
                       /\ slabs_free[c] = {} /\ free_slabs[c] = 0

Owners ==
  /\ \A p \in Taken :
       /\ freelist[p] \cap live = {}
       /\ freelist[p] \cup LiveOn(p) = Objects(slab_cache[p], p)
  /\ \A o \in live : o[1] \in Taken

FreeOf(c) == UNION {freelist[p] : p \in Listed(c)}

(* A slab the cache has is in use; full and partial say how much.          *)
Counts ==
  /\ \A p \in Taken : inuse[p] = Cardinality(LiveOn(p)) /\ inuse[p] # 0
  /\ \A c \in Caches :
       /\ \A p \in slabs_full[c] : inuse[p] = Nums(c)
       /\ \A p \in slabs_partial[c] : inuse[p] < Nums(c)
       /\ free_objs[c] = Cardinality(FreeOf(c))

HeapInv == HeapTypes /\ Home /\ Owners /\ Counts

(* What the callers keep is theirs: the structure of a cache in the making *)
(* is nobody else's, and given back at most once.                          *)
Keepers ==
  /\ kept \subseteq live /\ cachep \subseteq live
  /\ pc = "run" => cachep \subseteq kept
  /\ pc \in {"name", "undo"} => cachep \cap kept = {}

TooLong == \A s \in short : s > Pow2[Bits - 1]

IInv == HeapInv /\ Keepers /\ TooLong

-----------------------------------------------------------------------------

LEMMA ObjectsFacts ==
  ASSUME NEW c \in Caches, NEW p \in Slabs
  PROVE  /\ IsFiniteSet(Objects(c, p)) /\ Cardinality(Objects(c, p)) = Nums(c)
         /\ Objects(c, p) \subseteq Slabs \X Nat
         /\ \A x \in Objects(c, p) : x[1] = p
<1>1. Nums(c) \in Nat \ {0}
  BY CacheFits
<1>2. IsFiniteSet({p}) /\ Cardinality({p}) = 1
  BY FS_Singleton
<1>3. IsFiniteSet(0 .. Nums(c) - 1) /\ Cardinality(0 .. Nums(c) - 1) = Nums(c)
  <2>1. 0 \in Int /\ Nums(c) - 1 \in Int /\ ~ (0 > Nums(c) - 1)
        /\ (Nums(c) - 1) - 0 + 1 = Nums(c)
    BY <1>1, SMT
  <2>. QED BY <2>1, FS_Interval
<1>4. /\ IsFiniteSet({p} \X (0 .. Nums(c) - 1))
      /\ Cardinality({p} \X (0 .. Nums(c) - 1)) = 1 * Nums(c)
  BY <1>2, <1>3, FS_Product
<1>5. 1 * Nums(c) = Nums(c)
  BY <1>1, SMT
<1>6. 0 .. Nums(c) - 1 \subseteq Nat
  BY <1>1, SMT
<1>. QED BY <1>4, <1>5, <1>6 DEF Objects

LEMMA FreeOfMeans ==
  ASSUME NEW c \in Caches, NEW x
  PROVE  x \in FreeOf(c) <=> \E p \in Listed(c) : x \in freelist[p]
<1>. QED BY DEF FreeOf

LEMMA Facts ==
  ASSUME HeapInv
  PROVE  /\ \A c \in Caches : Nums(c) \in Nat \ {0} /\ Listed(c) \subseteq Taken
         /\ \A p \in Taken : /\ p \in Slabs /\ p \notin pool /\ slab_cache[p] \in Caches
                             /\ slab_cache[p] # NoCache
                             /\ inuse[p] \in Nat \ {0} /\ p \in Listed(slab_cache[p])
                             /\ freelist[p] \subseteq Objects(slab_cache[p], p)
                             /\ \A x \in freelist[p] : x[1] = p
         /\ \A o \in live : o[1] \in Taken
         /\ NoCache \notin Caches
<1>1. HeapTypes /\ Home /\ Owners /\ Counts
  BY DEF HeapInv
<1>2. \A c \in Caches : Nums(c) \in Nat \ {0} /\ Listed(c) \subseteq Taken
  BY <1>1, CacheFits DEF Home
<1>3. NoCache \notin Caches
  BY SMT DEF NoCache, Caches, Boot
<1>4. ASSUME NEW p \in Taken
      PROVE  /\ p \in Slabs /\ p \notin pool /\ slab_cache[p] \in Caches
             /\ slab_cache[p] # NoCache
             /\ inuse[p] \in Nat \ {0} /\ p \in Listed(slab_cache[p])
             /\ freelist[p] \subseteq Objects(slab_cache[p], p)
             /\ \A x \in freelist[p] : x[1] = p
  <2>1. p \in Slabs /\ p \notin pool /\ slab_cache[p] # NoCache
    BY DEF Taken
  <2>2. slab_cache[p] \in Caches /\ inuse[p] \in Nat
    BY <1>1, <2>1 DEF HeapTypes
  <2>3. inuse[p] # 0 /\ p \in Listed(slab_cache[p])
    BY <1>1 DEF Counts, Home
  <2>4. freelist[p] \subseteq Objects(slab_cache[p], p)
    BY <1>1 DEF Owners
  <2>. QED BY <2>1, <2>2, <2>3, <2>4, ObjectsFacts
<1>. QED BY <1>1, <1>2, <1>3, <1>4 DEF Owners

LEMMA Finite ==
  ASSUME HeapInv
  PROVE  /\ \A c \in Caches : IsFiniteSet(FreeOf(c))
         /\ \A p \in Taken : /\ IsFiniteSet(freelist[p]) /\ IsFiniteSet(LiveOn(p))
                             /\ Cardinality(freelist[p]) = Nums(slab_cache[p]) - inuse[p]
<1>1. ASSUME NEW c \in Caches PROVE IsFiniteSet(FreeOf(c))
  <2>1. IsFiniteSet(Slabs) /\ Nums(c) \in Nat
    BY SlabAssumption, CacheFits
  <2>2. IsFiniteSet(0 .. Nums(c) - 1)
    <3>1. 0 \in Int /\ Nums(c) - 1 \in Int
      BY <2>1, SMT
    <3>. QED BY <3>1, FS_Interval
  <2>3. IsFiniteSet(Slabs \X (0 .. Nums(c) - 1))
    BY <2>1, <2>2, FS_Product
  <2>4. FreeOf(c) \in SUBSET (Slabs \X (0 .. Nums(c) - 1))
    <3>1. ASSUME NEW x \in FreeOf(c) PROVE x \in Slabs \X (0 .. Nums(c) - 1)
      <4>1. PICK p \in Listed(c) : x \in freelist[p]
        BY FreeOfMeans
      <4>2. p \in Slabs /\ slab_cache[p] = c /\ p \in Taken
        BY Facts DEF HeapInv, Home
      <4>3. x \in Objects(c, p)
        BY <4>1, <4>2, Facts
      <4>. QED BY <4>2, <4>3 DEF Objects
    <3>. QED BY <3>1
  <2>. QED BY <2>3, <2>4, FS_Subset
<1>2. ASSUME NEW p \in Taken
      PROVE  /\ IsFiniteSet(freelist[p]) /\ IsFiniteSet(LiveOn(p))
             /\ Cardinality(freelist[p]) = Nums(slab_cache[p]) - inuse[p]
  <2>. DEFINE A == freelist[p]
              B == LiveOn(p)
              O == Objects(slab_cache[p], p)
  <2>1. A \cap B = {} /\ A \cup B = O /\ Cardinality(B) = inuse[p]
    BY DEF HeapInv, Owners, LiveOn, Counts
  <2>2. IsFiniteSet(O) /\ Cardinality(O) = Nums(slab_cache[p])
    BY Facts, ObjectsFacts
  <2>. HIDE DEF A, B, O
  <2>3. A \in SUBSET O /\ B \in SUBSET O
    BY <2>1
  <2>4. IsFiniteSet(A) /\ IsFiniteSet(B)
    BY <2>2, <2>3, FS_Subset
  <2>5. Cardinality(O) = Cardinality(A) + Cardinality(B) - 0
    BY <2>1, <2>4, FS_Union, FS_EmptySet
  <2>6. Cardinality(A) \in Nat /\ Cardinality(B) \in Nat
    BY <2>4, FS_CardinalityType
  <2>7. Cardinality(A) = Nums(slab_cache[p]) - inuse[p]
    BY <2>1, <2>2, <2>5, <2>6, SMT
  <2>. QED BY <2>4, <2>7 DEF A, B
<1>. QED BY <1>1, <1>2
-----------------------------------------------------------------------------
(* What a step does to the lists of a cache *)

(* The slab is on no list of another cache, so moving it changes none.     *)
Others(c) ==
  \A d \in Caches : d # c =>
    /\ slabs_full'[d] = slabs_full[d] /\ slabs_partial'[d] = slabs_partial[d]
    /\ slabs_free'[d] = slabs_free[d] /\ free_slabs'[d] = free_slabs[d]
    /\ free_objs'[d] = free_objs[d]

OtherSlabs(p) ==
  \A q \in Slabs : q # p =>
    /\ freelist'[q] = freelist[q] /\ inuse'[q] = inuse[q]
    /\ slab_cache'[q] = slab_cache[q] /\ (q \in pool' <=> q \in pool)

LEMMA FixupFacts ==
  ASSUME HeapTypes, NEW c \in Caches, NEW p \in Slabs, Fixup(c, p)
  PROVE  /\ slabs_full' \in [Caches -> SUBSET Slabs]
         /\ slabs_partial' \in [Caches -> SUBSET Slabs]
         /\ slabs_free' \in [Caches -> SUBSET Slabs]
         /\ slabs_free'[c] = slabs_free[c] \ {p}
         /\ \A d \in Caches : d # c =>
              /\ slabs_full'[d] = slabs_full[d] /\ slabs_partial'[d] = slabs_partial[d]
              /\ slabs_free'[d] = slabs_free[d]
         /\ \/ /\ inuse'[p] = Nums(c) /\ slabs_full'[c] = slabs_full[c] \cup {p}
               /\ slabs_partial'[c] = slabs_partial[c] \ {p}
            \/ /\ inuse'[p] # Nums(c) /\ slabs_full'[c] = slabs_full[c] \ {p}
               /\ slabs_partial'[c] = slabs_partial[c] \cup {p}
<1>1. CASE inuse'[p] = Nums(c)
  BY <1>1 DEF Fixup, MoveToFull, HeapTypes
<1>2. CASE inuse'[p] # Nums(c)
  BY <1>2 DEF Fixup, MoveToPartial, HeapTypes
<1>. QED BY <1>1, <1>2

(* The free objects of another cache stay as they were.                    *)
LEMMA OtherFree ==
  ASSUME HeapInv, NEW c \in Caches, NEW p \in Slabs,
         Others(c), OtherSlabs(p), \A d \in Caches : p \in Listed(d) => d = c,
         NEW d \in Caches, d # c
  PROVE  /\ (Listed(d))' = Listed(d) /\ (FreeOf(d))' = FreeOf(d)
         /\ (free_objs[d] = Cardinality(FreeOf(d)))'
<1>1. (Listed(d))' = Listed(d)
  BY DEF Others, Listed
<1>2. \A q \in Listed(d) : q \in Slabs /\ q # p
  BY Facts
<1>3. \A q \in Listed(d) : freelist'[q] = freelist[q]
  BY <1>2 DEF OtherSlabs
<1>4. \A x : x \in (FreeOf(d))' <=> x \in FreeOf(d)
  BY <1>1, <1>3 DEF FreeOf
<1>5. (FreeOf(d))' = FreeOf(d)
  BY <1>4
<1>6. free_objs'[d] = free_objs[d] /\ free_objs[d] = Cardinality(FreeOf(d))
  BY DEF Others, HeapInv, Counts
<1>. QED BY <1>1, <1>5, <1>6

(* A step on slab p of cache c, by what it leaves of p.                    *)
LEMMA StepInv ==
  ASSUME HeapInv, HeapTypes', NEW c \in Caches, NEW p \in Slabs,
         Others(c), OtherSlabs(p), \A d \in Caches : p \in Listed(d) => d = c,
         \A o \in live' : o \in live \/ o[1] = p,
         \A o \in live : o \in live' \/ o[1] = p,
         (slabs_free[c] = {} /\ free_slabs[c] = 0)',
         \A q \in Slabs : q # p =>
            /\ q \in slabs_full'[c] <=> q \in slabs_full[c]
            /\ q \in slabs_partial'[c] <=> q \in slabs_partial[c],
         free_objs'[c] = Cardinality(FreeOf(c)'),
         (p \in Taken /\ slab_cache[p] = c /\ p \in Listed(c))' \/ (p \notin Taken /\ p \notin Listed(c))',
         (p \in Taken)' => /\ freelist'[p] \cap live' = {}
                           /\ freelist'[p] \cup (LiveOn(p))' = Objects(c, p)
                           /\ inuse'[p] = Cardinality((LiveOn(p))') /\ inuse'[p] # 0,
         (p \notin Taken)' => (LiveOn(p))' = {},
         p \in slabs_full'[c] => inuse'[p] = Nums(c) /\ p \notin slabs_partial'[c],
         p \in slabs_partial'[c] => inuse'[p] < Nums(c)
  PROVE  HeapInv'
<1>0. HeapTypes /\ Home /\ Owners /\ Counts
  BY DEF HeapInv
<1>1. ASSUME NEW q \in Slabs, q # p
      PROVE  /\ (q \in Taken)' <=> q \in Taken
             /\ slab_cache'[q] = slab_cache[q] /\ freelist'[q] = freelist[q]
             /\ inuse'[q] = inuse[q]
             /\ \A d \in Caches :
                  /\ q \in slabs_full'[d] <=> q \in slabs_full[d]
                  /\ q \in slabs_partial'[d] <=> q \in slabs_partial[d]
                  /\ (q \in Listed(d))' <=> q \in Listed(d)
             /\ (LiveOn(q))' = LiveOn(q)
  <2>1. /\ slab_cache'[q] = slab_cache[q] /\ freelist'[q] = freelist[q]
        /\ inuse'[q] = inuse[q] /\ (q \in pool' <=> q \in pool)
    BY <1>1 DEF OtherSlabs
  <2>2. (q \in Taken)' <=> q \in Taken
    BY <2>1 DEF Taken
  <2>3. ASSUME NEW d \in Caches
        PROVE  /\ q \in slabs_full'[d] <=> q \in slabs_full[d]
               /\ q \in slabs_partial'[d] <=> q \in slabs_partial[d]
               /\ slabs_free'[d] = {} /\ slabs_free[d] = {}
    BY <1>0, <1>1 DEF Others, Home
  <2>4. \A d \in Caches : (q \in Listed(d))' <=> q \in Listed(d)
    BY <2>3 DEF Listed
  <2>5. \A o : o \in (LiveOn(q))' <=> o \in LiveOn(q)
    BY <1>1 DEF LiveOn
  <2>6. (LiveOn(q))' = LiveOn(q)
    BY <2>5
  <2>. QED BY <2>1, <2>2, <2>3, <2>4, <2>6
<1>2. \A d \in Caches : (Listed(d))' \subseteq Slabs
  BY DEF HeapTypes, Listed
<1>3. \A q : (q \in Taken)' => q \in Slabs
  BY DEF Taken
<1>4. \A d \in Caches : (p \in Listed(d))' => d = c
  BY OtherFree
<1>5. Home'
  <2>1. ASSUME NEW d \in Caches, NEW q \in (Listed(d))'
        PROVE  (q \in Taken)' /\ slab_cache'[q] = d
    <3>1. CASE q = p
      BY <1>4, <2>1, <3>1
    <3>2. CASE q # p
      BY <1>0, <1>1, <1>2, <2>1, <3>2 DEF Home
    <3>. QED BY <3>1, <3>2
  <2>2. ASSUME NEW q \in Taken' PROVE q \in (Listed(slab_cache[q]))'
    <3>1. CASE q = p
      BY <2>2, <3>1
    <3>2. CASE q # p
      <4>1. q \in Slabs /\ q \in Taken /\ slab_cache[q] \in Caches
            /\ q \in Listed(slab_cache[q]) /\ slab_cache'[q] = slab_cache[q]
        BY <1>1, <1>3, <2>2, <3>2, Facts
      <4>2. DEFINE d == slab_cache[q]
      <4>3. (q \in Listed(d))' <=> q \in Listed(d)
        BY <1>1, <3>2, <4>1
      <4>. QED BY <4>1, <4>3
    <3>. QED BY <3>1, <3>2
  <2>3. ASSUME NEW d \in Caches
        PROVE  /\ slabs_full'[d] \cap slabs_partial'[d] = {}
               /\ slabs_free'[d] = {} /\ free_slabs'[d] = 0
    <3>1. CASE d = c
      <4>1. ASSUME NEW q, q \in slabs_full'[c], q \in slabs_partial'[c] PROVE FALSE
        <5>1. q \in Slabs
          BY <4>1 DEF HeapTypes
        <5>. QED BY <1>0, <4>1, <5>1 DEF Home
      <4>. QED BY <3>1, <4>1
    <3>2. CASE d # c
      BY <1>0, <3>2 DEF Home, Others
    <3>. QED BY <3>1, <3>2
  <2>. QED BY <2>1, <2>2, <2>3 DEF Home
<1>6. Owners'
  <2>1. ASSUME NEW q \in Taken'
        PROVE  /\ freelist'[q] \cap live' = {}
               /\ freelist'[q] \cup (LiveOn(q))' = Objects(slab_cache'[q], q)
    <3>1. CASE q = p
      BY <2>1, <3>1
    <3>2. CASE q # p
      <4>1. q \in Slabs /\ q \in Taken
        BY <1>1, <1>3, <2>1, <3>2
      <4>2. /\ freelist[q] \cap live = {}
            /\ freelist[q] \cup LiveOn(q) = Objects(slab_cache[q], q)
            /\ \A x \in freelist[q] : x[1] = q
        BY <1>0, <4>1, Facts DEF Owners
      <4>3. freelist'[q] \cap live' = {}
        BY <1>1, <3>2, <4>1, <4>2
      <4>. QED BY <1>1, <3>2, <4>1, <4>2, <4>3
    <3>. QED BY <3>1, <3>2
  <2>2. ASSUME NEW o \in live' PROVE (o[1] \in Taken)'
    <3>1. CASE o[1] = p
      <4>1. o \in (LiveOn(p))'
        BY <3>1 DEF LiveOn
      <4>. QED BY <3>1, <4>1
    <3>2. CASE o[1] # p
      <4>1. o \in live /\ o[1] \in Taken /\ o[1] \in Slabs
        BY <3>2, Facts
      <4>2. DEFINE q == o[1]
      <4>3. (q \in Taken)' <=> q \in Taken
        BY <1>1, <3>2, <4>1
      <4>. QED BY <4>1, <4>3
    <3>. QED BY <3>1, <3>2
  <2>. QED BY <2>1, <2>2 DEF Owners, Objects
<1>7. Counts'
  <2>1. ASSUME NEW q \in Taken'
        PROVE  inuse'[q] = Cardinality((LiveOn(q))') /\ inuse'[q] # 0
    <3>1. CASE q = p
      BY <2>1, <3>1
    <3>2. CASE q # p
      <4>1. q \in Slabs /\ q \in Taken
        BY <1>1, <1>3, <2>1, <3>2
      <4>. QED BY <1>0, <1>1, <3>2, <4>1 DEF Counts
    <3>. QED BY <3>1, <3>2
  <2>2. ASSUME NEW d \in Caches
        PROVE  /\ \A q \in slabs_full'[d] : inuse'[q] = Nums(d)
               /\ \A q \in slabs_partial'[d] : inuse'[q] < Nums(d)
    <3>1. ASSUME NEW q \in slabs_full'[d] PROVE inuse'[q] = Nums(d)
      <4>1. q \in Slabs /\ (q \in Listed(d))'
        BY DEF HeapTypes, Listed
      <4>2. CASE q = p
        BY <1>4, <3>1, <4>1, <4>2
      <4>3. CASE q # p
        BY <1>0, <1>1, <3>1, <4>1, <4>3 DEF Counts
      <4>. QED BY <4>2, <4>3
    <3>2. ASSUME NEW q \in slabs_partial'[d] PROVE inuse'[q] < Nums(d)
      <4>1. q \in Slabs /\ (q \in Listed(d))'
        BY DEF HeapTypes, Listed
      <4>2. CASE q = p
        BY <1>4, <3>2, <4>1, <4>2
      <4>3. CASE q # p
        BY <1>0, <1>1, <3>2, <4>1, <4>3 DEF Counts
      <4>. QED BY <4>2, <4>3
    <3>. QED BY <3>1, <3>2
  <2>3. ASSUME NEW d \in Caches PROVE free_objs'[d] = Cardinality((FreeOf(d))')
    BY OtherFree
  <2>. QED BY <2>1, <2>2, <2>3 DEF Counts, Nums, Size
<1>. QED BY <1>5, <1>6, <1>7 DEF HeapInv
-----------------------------------------------------------------------------
(* bmem_cache_alloc and bfree *)

(* An object of a partial slab.                                            *)
LEMMA TakeInv ==
  ASSUME HeapInv, NEW c \in Caches, NEW o \in AllObjects, AllocFromSlab(c, o)
  PROVE  HeapInv' /\ o \notin live /\ live' = live \cup {o}
<1>. DEFINE p == o[1]
<1>0. HeapTypes /\ Home /\ Owners /\ Counts
  BY DEF HeapInv
<1>1. /\ p \in slabs_partial[c] /\ slabs_free[c] = {} /\ free_slabs[c] = 0
      /\ free_slabs' = [free_slabs EXCEPT ![c] = @]
      /\ free_objs' = [free_objs EXCEPT ![c] = @ - 1]
      /\ UNCHANGED <<total_slabs, slab_cache, pool>>
      /\ o \in freelist[p] /\ live' = live \cup {o} /\ Fixup(c, p)
      /\ freelist' = [freelist EXCEPT ![p] = freelist[p] \ {o}]
      /\ inuse' = [inuse EXCEPT ![p] = inuse[p] + 1]
  BY <1>0 DEF AllocFromSlab, TakeObject, Home
<1>2. /\ p \in Listed(c) /\ p \in Taken /\ slab_cache[p] = c /\ p \in Slabs
      /\ \A d \in Caches : p \in Listed(d) => d = c
  BY <1>0, <1>1, Facts DEF Listed, Home
<1>. HIDE DEF p
<1>3. /\ o \notin live /\ o \in Slabs \X Nat /\ o[1] = p
      /\ freelist[p] \cup LiveOn(p) = Objects(c, p) /\ freelist[p] \cap live = {}
      /\ inuse[p] = Cardinality(LiveOn(p)) /\ inuse[p] < Nums(c)
      /\ inuse[p] \in Nat \ {0} /\ Nums(c) \in Nat
  BY <1>0, <1>1, <1>2, Facts DEF Owners, Counts, HeapTypes, p
<1>4. /\ freelist'[p] = freelist[p] \ {o} /\ inuse'[p] = inuse[p] + 1
      /\ \A q \in Slabs : q # p => freelist'[q] = freelist[q] /\ inuse'[q] = inuse[q]
      /\ free_objs'[c] = free_objs[c] - 1
      /\ \A d \in Caches : d # c => free_objs'[d] = free_objs[d]
      /\ free_slabs' = free_slabs
  BY <1>0, <1>1, <1>2 DEF HeapTypes
<1>5. /\ Others(c) /\ OtherSlabs(p) /\ slabs_free'[c] = {}
      /\ slabs_full' \in [Caches -> SUBSET Slabs]
      /\ slabs_partial' \in [Caches -> SUBSET Slabs]
      /\ slabs_free' \in [Caches -> SUBSET Slabs]
      /\ \/ /\ inuse'[p] = Nums(c) /\ slabs_full'[c] = slabs_full[c] \cup {p}
            /\ slabs_partial'[c] = slabs_partial[c] \ {p}
         \/ /\ inuse'[p] # Nums(c) /\ slabs_full'[c] = slabs_full[c] \ {p}
            /\ slabs_partial'[c] = slabs_partial[c] \cup {p}
  BY <1>0, <1>1, <1>2, <1>4, FixupFacts DEF Others, OtherSlabs
<1>6. (LiveOn(p))' = LiveOn(p) \cup {o} /\ o \notin LiveOn(p)
  BY <1>1, <1>3 DEF LiveOn
<1>7. Cardinality((LiveOn(p))') = inuse[p] + 1
  <2>1. IsFiniteSet(LiveOn(p))
    BY <1>2, Finite
  <2>2. Cardinality(LiveOn(p) \cup {o}) = Cardinality(LiveOn(p)) + 1
    BY <1>6, <2>1, FS_AddElement
  <2>. QED BY <1>3, <1>6, <2>2
<1>8. (FreeOf(c))' = FreeOf(c) \ {o} /\ o \in FreeOf(c)
  <2>1. (Listed(c))' = Listed(c)
    BY <1>0, <1>2, <1>5 DEF Listed, Home
  <2>2. \A q \in Listed(c) : q \in Slabs /\ \A x \in freelist[q] : x[1] = q
    BY Facts
  <2>3. \A x : x \in (FreeOf(c))' <=> \E q \in Listed(c) : x \in freelist'[q]
    BY <2>1 DEF FreeOf
  <2>4. \A x : x \in (FreeOf(c))' <=> x \in FreeOf(c) \ {o}
    BY <1>2, <1>3, <1>4, <2>2, <2>3, FreeOfMeans
  <2>. QED BY <1>1, <1>2, <2>4, FreeOfMeans DEF p
<1>9. free_objs'[c] = Cardinality((FreeOf(c))') /\ free_objs'[c] \in Nat
  <2>1. Cardinality((FreeOf(c))') = Cardinality(FreeOf(c)) - 1
    BY <1>8, Finite, FS_RemoveElement
  <2>2. IsFiniteSet((FreeOf(c))') /\ free_objs[c] = Cardinality(FreeOf(c))
    BY <1>0, <1>8, Finite, FS_RemoveElement DEF Counts
  <2>. QED BY <1>4, <2>1, <2>2, FS_CardinalityType
<1>10. HeapTypes'
  <2>1. free_objs' \in [Caches -> Nat]
    BY <1>0, <1>1, <1>4, <1>9 DEF HeapTypes
  <2>2. inuse' \in [Slabs -> Nat]
    <3>1. inuse[p] + 1 \in Nat
      BY <1>3, SMT
    <3>. QED BY <1>0, <1>1, <1>2, <3>1 DEF HeapTypes, p
  <2>3. freelist' \in [Slabs -> SUBSET (Slabs \X Nat)]
    <3>1. freelist[p] \ {o} \in SUBSET (Slabs \X Nat)
      BY <1>0, <1>2 DEF HeapTypes
    <3>. QED BY <1>0, <1>1, <1>2, <3>1 DEF HeapTypes, p
  <2>. QED BY <1>0, <1>1, <1>3, <1>4, <1>5, <2>1, <2>2, <2>3 DEF HeapTypes
<1>11. (p \in Taken)' /\ slab_cache'[p] = c /\ (p \in Listed(c))'
  BY <1>1, <1>2, <1>5 DEF Taken, Listed
<1>12. freelist'[p] \cap live' = {} /\ freelist'[p] \cup (LiveOn(p))' = Objects(c, p)
  BY <1>1, <1>3, <1>4, <1>6 DEF p
<1>13. /\ p \in slabs_full'[c] => inuse'[p] = Nums(c) /\ p \notin slabs_partial'[c]
       /\ p \in slabs_partial'[c] => inuse'[p] < Nums(c)
       /\ inuse'[p] # 0
  BY <1>3, <1>4, <1>5, SMT
<1>14. \A q \in Slabs : q # p => /\ q \in slabs_full'[c] <=> q \in slabs_full[c]
                                 /\ q \in slabs_partial'[c] <=> q \in slabs_partial[c]
  BY <1>5
<1>15. HeapInv'
  BY <1>1, <1>2, <1>3, <1>4, <1>5, <1>7, <1>9, <1>10, <1>11, <1>12, <1>13, <1>14,
     StepInv
<1>. QED BY <1>1, <1>3, <1>15

(* An object of a new slab: the page comes from the pool, and its fields   *)
(* are those of its last use.                                              *)
LEMMA GrowInv ==
  ASSUME HeapInv, NEW c \in Caches, NEW o \in AllObjects, AllocGrow(c, o)
  PROVE  HeapInv' /\ o \notin live /\ live' = live \cup {o}
<1>. DEFINE p == o[1]
<1>0. HeapTypes /\ Home /\ Owners /\ Counts
  BY DEF HeapInv
<1>1. /\ p \in pool /\ pool' = pool \ {p}
      /\ slab_cache' = [slab_cache EXCEPT ![p] = c]
      /\ o \in Objects(c, p) /\ live' = live \cup {o} /\ Fixup(c, p)
      /\ freelist' = [freelist EXCEPT ![p] = Objects(c, p) \ {o}]
      /\ inuse' = [inuse EXCEPT ![p] = 0 + 1]
      /\ total_slabs' = [total_slabs EXCEPT ![c] = @ + 1]
      /\ free_objs' = [free_objs EXCEPT ![c] = @ + (Nums(c) - 1)]
      /\ UNCHANGED free_slabs
  BY DEF AllocGrow, TakeObject
<1>2. /\ p \in Slabs /\ p \notin Taken /\ \A d \in Caches : p \notin Listed(d)
  BY <1>0, <1>1, Facts DEF Taken, HeapTypes
<1>. HIDE DEF p
<1>3. /\ o \notin live /\ o \in Slabs \X Nat /\ o[1] = p
      /\ Nums(c) \in Nat \ {0} /\ LiveOn(p) = {}
      /\ slabs_free[c] = {} /\ free_slabs[c] = 0
  <2>1. o[1] = p
    BY DEF p
  <2>2. \A x \in live : x[1] # p
    BY <1>2, Facts
  <2>. QED BY <1>0, <1>1, <1>2, <2>1, <2>2, Facts, ObjectsFacts DEF LiveOn, Home
<1>4. /\ freelist'[p] = Objects(c, p) \ {o} /\ inuse'[p] = 1 /\ slab_cache'[p] = c
      /\ \A q \in Slabs : q # p => /\ freelist'[q] = freelist[q] /\ inuse'[q] = inuse[q]
                                   /\ slab_cache'[q] = slab_cache[q]
                                   /\ (q \in pool' <=> q \in pool)
      /\ free_objs'[c] = free_objs[c] + (Nums(c) - 1)
      /\ \A d \in Caches : d # c => free_objs'[d] = free_objs[d]
      /\ free_slabs' = free_slabs
  BY <1>0, <1>1, <1>2 DEF HeapTypes
<1>5. /\ Others(c) /\ OtherSlabs(p) /\ slabs_free'[c] = {}
      /\ slabs_full' \in [Caches -> SUBSET Slabs]
      /\ slabs_partial' \in [Caches -> SUBSET Slabs]
      /\ slabs_free' \in [Caches -> SUBSET Slabs]
      /\ \/ /\ inuse'[p] = Nums(c) /\ slabs_full'[c] = slabs_full[c] \cup {p}
            /\ slabs_partial'[c] = slabs_partial[c] \ {p}
         \/ /\ inuse'[p] # Nums(c) /\ slabs_full'[c] = slabs_full[c] \ {p}
            /\ slabs_partial'[c] = slabs_partial[c] \cup {p}
  BY <1>0, <1>1, <1>2, <1>3, <1>4, FixupFacts DEF Others, OtherSlabs
<1>6. (LiveOn(p))' = {o}
  BY <1>1, <1>3 DEF LiveOn
<1>7. Cardinality((LiveOn(p))') = 1
  BY <1>6, FS_Singleton
<1>8. (FreeOf(c))' = FreeOf(c) \cup (Objects(c, p) \ {o})
      /\ FreeOf(c) \cap (Objects(c, p) \ {o}) = {}
  <2>1. (Listed(c))' = Listed(c) \cup {p} /\ p \notin Listed(c)
    BY <1>0, <1>2, <1>3, <1>5 DEF Listed
  <2>2. \A q \in Listed(c) : q \in Slabs /\ q # p /\ \A x \in freelist[q] : x[1] = q
    BY <1>2, Facts
  <2>3. \A x : x \in (FreeOf(c))' <=> \E q \in Listed(c) \cup {p} : x \in freelist'[q]
    BY <2>1 DEF FreeOf
  <2>4. \A x : x \in (FreeOf(c))' <=> x \in FreeOf(c) \cup (Objects(c, p) \ {o})
    BY <1>4, <2>2, <2>3, FreeOfMeans
  <2>5. \A x \in FreeOf(c) : x[1] # p
    BY <2>2, FreeOfMeans
  <2>. QED BY <1>2, <2>4, <2>5, ObjectsFacts
<1>9. free_objs'[c] = Cardinality((FreeOf(c))') /\ free_objs'[c] \in Nat
  <2>. DEFINE A == FreeOf(c)
              B == Objects(c, p) \ {o}
  <2>1. /\ IsFiniteSet(A) /\ IsFiniteSet(B) /\ Cardinality(B) = Nums(c) - 1
        /\ Cardinality(A) = free_objs[c]
    <3>1. IsFiniteSet(A) /\ Cardinality(A) = free_objs[c]
      BY <1>0, Finite DEF Counts
    <3>2. IsFiniteSet(Objects(c, p)) /\ Cardinality(Objects(c, p)) = Nums(c)
      BY <1>2, ObjectsFacts
    <3>3. o \in Objects(c, p)
      BY <1>1 DEF p
    <3>. QED BY <3>1, <3>2, <3>3, FS_RemoveElement
  <2>2. (FreeOf(c))' = A \cup B /\ A \cap B = {}
    BY <1>8
  <2>. HIDE DEF A, B
  <2>3. Cardinality(A \cup B) = Cardinality(A) + Cardinality(B) - 0
    BY <2>1, <2>2, FS_Union, FS_EmptySet
  <2>4. Cardinality(A) \in Nat
    BY <2>1, FS_CardinalityType
  <2>. QED BY <1>3, <1>4, <2>1, <2>2, <2>3, <2>4, SMT
<1>10. HeapTypes'
  <2>1. free_objs' \in [Caches -> Nat]
    BY <1>0, <1>1, <1>4, <1>9 DEF HeapTypes
  <2>2. inuse' \in [Slabs -> Nat]
    BY <1>0, <1>1, <1>2 DEF HeapTypes, p
  <2>3. freelist' \in [Slabs -> SUBSET (Slabs \X Nat)]
    <3>1. Objects(c, p) \ {o} \in SUBSET (Slabs \X Nat)
      BY <1>2, ObjectsFacts
    <3>. QED BY <1>0, <1>1, <1>2, <3>1 DEF HeapTypes, p
  <2>4. total_slabs' \in [Caches -> Nat]
    BY <1>0, <1>1 DEF HeapTypes
  <2>5. slab_cache' \in [Slabs -> Caches \cup {NoCache}]
    BY <1>0, <1>1, <1>2 DEF HeapTypes, p
  <2>. QED BY <1>0, <1>1, <1>3, <1>4, <1>5, <2>1, <2>2, <2>3, <2>4, <2>5 DEF HeapTypes
<1>11. (p \in Taken)' /\ slab_cache'[p] = c /\ (p \in Listed(c))'
  <2>1. p \notin pool' /\ NoCache \notin Caches
    BY <1>1, Facts DEF p
  <2>. QED BY <1>2, <1>4, <1>5, <2>1 DEF Taken, Listed
<1>12. freelist'[p] \cap live' = {} /\ freelist'[p] \cup (LiveOn(p))' = Objects(c, p)
  <2>1. \A x \in live' : x = o \/ x[1] # p
    BY <1>1, <1>2, Facts
  <2>2. freelist'[p] \cap live' = {}
    BY <1>2, <1>4, <2>1, ObjectsFacts
  <2>. QED BY <1>1, <1>4, <1>6, <2>2 DEF p
<1>13. /\ p \in slabs_full'[c] => inuse'[p] = Nums(c) /\ p \notin slabs_partial'[c]
       /\ p \in slabs_partial'[c] => inuse'[p] < Nums(c)
       /\ inuse'[p] # 0
  <2>1. p \notin slabs_full[c] /\ p \notin slabs_partial[c]
    BY <1>2 DEF Listed
  <2>. QED BY <1>3, <1>4, <1>5, <2>1, SMT
<1>14. \A q \in Slabs : q # p => /\ q \in slabs_full'[c] <=> q \in slabs_full[c]
                                 /\ q \in slabs_partial'[c] <=> q \in slabs_partial[c]
  BY <1>5
<1>15. HeapInv'
  BY <1>1, <1>2, <1>3, <1>4, <1>5, <1>7, <1>9, <1>10, <1>11, <1>12, <1>13, <1>14,
     StepInv
<1>. QED BY <1>1, <1>3, <1>15
(* bfree: the last object of a slab takes the slab with it.                *)
LEMMA FreeFrom ==
  ASSUME HeapInv, NEW o \in live, Free(o), NEW c \in Caches, c = slab_cache[o[1]]
  PROVE  HeapInv' /\ live' = live \ {o}
<1>. DEFINE p == o[1]
<1>0. HeapTypes /\ Home /\ Owners /\ Counts
  BY DEF HeapInv
<1>1. /\ freelist' = [freelist EXCEPT ![p] = @ \cup {o}]
      /\ inuse' = [inuse EXCEPT ![p] = @ - 1]
      /\ live' = live \ {o}
      /\ UNCHANGED <<free_slabs, total_slabs, slab_cache>>
      /\ IF inuse[p] = 1
         THEN /\ Unlist(c, p)
              /\ pool' = pool \cup {p}
              /\ free_objs' = [free_objs EXCEPT ![c] = @ + (1 - Nums(c))]
         ELSE /\ MoveToPartial(c, p)
              /\ pool' = pool
              /\ free_objs' = [free_objs EXCEPT ![c] = @ + 1]
  BY DEF Free, LastObject
<1>2. /\ p \in Taken /\ p \in Slabs /\ p \notin pool /\ c \in Caches /\ c # NoCache
      /\ p \in Listed(c) /\ inuse[p] \in Nat \ {0} /\ Nums(c) \in Nat \ {0}
      /\ \A d \in Caches : p \in Listed(d) => d = c
      /\ slabs_free[c] = {} /\ free_slabs[c] = 0
  BY <1>0, Facts DEF Home
<1>3. /\ o \in LiveOn(p) /\ o \notin freelist[p] /\ o \in Slabs \X Nat /\ o[1] = p
      /\ freelist[p] \cup LiveOn(p) = Objects(c, p) /\ freelist[p] \cap live = {}
      /\ inuse[p] = Cardinality(LiveOn(p)) /\ IsFiniteSet(LiveOn(p))
  BY <1>0, <1>2, Finite DEF Owners, Counts, HeapTypes, LiveOn
<1>4. inuse[p] <= Nums(c)
  <2>1. p \in slabs_full[c] => inuse[p] = Nums(c)
    BY <1>0, <1>2 DEF Counts
  <2>2. p \in slabs_partial[c] => inuse[p] < Nums(c)
    BY <1>0, <1>2 DEF Counts
  <2>3. p \in slabs_full[c] \/ p \in slabs_partial[c]
    BY <1>2 DEF Listed
  <2>. QED BY <1>2, <2>1, <2>2, <2>3, SMT
<1>. HIDE DEF p
<1>5. /\ freelist'[p] = freelist[p] \cup {o} /\ inuse'[p] = inuse[p] - 1
      /\ \A q \in Slabs : q # p => freelist'[q] = freelist[q] /\ inuse'[q] = inuse[q]
      /\ slab_cache' = slab_cache /\ slab_cache[p] = c /\ free_slabs' = free_slabs
      /\ \A q \in Slabs : q # p => (q \in pool' <=> q \in pool)
  <2>1. freelist'[p] = freelist[p] \cup {o} /\ inuse'[p] = inuse[p] - 1
        /\ \A q \in Slabs : q # p => freelist'[q] = freelist[q] /\ inuse'[q] = inuse[q]
    BY <1>0, <1>1, <1>2 DEF HeapTypes
  <2>2. \A q \in Slabs : q # p => (q \in pool' <=> q \in pool)
    BY <1>1
  <2>. QED BY <1>1, <2>1, <2>2 DEF p
<1>6. (LiveOn(p))' = LiveOn(p) \ {o} /\ Cardinality((LiveOn(p))') = inuse[p] - 1
  <2>1. (LiveOn(p))' = LiveOn(p) \ {o}
    BY <1>1 DEF LiveOn
  <2>. QED BY <1>3, <2>1, FS_RemoveElement
<1>7. /\ inuse' \in [Slabs -> Nat] /\ freelist' \in [Slabs -> SUBSET (Slabs \X Nat)]
      /\ live' \in SUBSET (Slabs \X Nat)
  <2>1. inuse[p] - 1 \in Nat
    BY <1>2, SMT
  <2>2. freelist[p] \cup {o} \in SUBSET (Slabs \X Nat)
    BY <1>0, <1>2, <1>3 DEF HeapTypes
  <2>. QED BY <1>0, <1>1, <1>2, <2>1, <2>2 DEF HeapTypes
<1>8. \A q \in Listed(c) : q \in Slabs /\ \A x \in freelist[q] : x[1] = q
  BY <1>2, Facts
<1>9. free_objs[c] = Cardinality(FreeOf(c)) /\ IsFiniteSet(FreeOf(c))
  BY <1>0, <1>2, Finite DEF Counts
<1>10. CASE inuse[p] = 1
  <2>1. /\ Unlist(c, p) /\ pool' = pool \cup {p}
        /\ free_objs' = [free_objs EXCEPT ![c] = @ + (1 - Nums(c))]
    BY <1>1, <1>10
  <2>2. /\ slabs_full' \in [Caches -> SUBSET Slabs]
        /\ slabs_partial' \in [Caches -> SUBSET Slabs]
        /\ slabs_free' \in [Caches -> SUBSET Slabs]
        /\ slabs_full'[c] = slabs_full[c] \ {p}
        /\ slabs_partial'[c] = slabs_partial[c] \ {p} /\ slabs_free'[c] = {}
        /\ \A d \in Caches : d # c =>
             /\ slabs_full'[d] = slabs_full[d] /\ slabs_partial'[d] = slabs_partial[d]
             /\ slabs_free'[d] = slabs_free[d]
    BY <1>0, <1>2, <2>1 DEF Unlist, HeapTypes
  <2>3. /\ free_objs'[c] = free_objs[c] + (1 - Nums(c))
        /\ \A d \in Caches : d # c => free_objs'[d] = free_objs[d]
    BY <1>0, <1>2, <2>1 DEF HeapTypes
  <2>4. Others(c) /\ OtherSlabs(p)
    BY <1>5, <2>2, <2>3 DEF Others, OtherSlabs
  <2>5. (p \notin Taken)' /\ (p \notin Listed(c))' /\ (LiveOn(p))' = {}
    <3>1. IsFiniteSet((LiveOn(p))') /\ Cardinality((LiveOn(p))') = 0
      BY <1>3, <1>6, <1>10, FS_RemoveElement
    <3>2. (LiveOn(p))' = {}
      BY <3>1, FS_EmptySet
    <3>. QED BY <2>1, <2>2, <3>2 DEF Taken, Listed
  <2>6. (FreeOf(c))' = FreeOf(c) \ freelist[p] /\ freelist[p] \subseteq FreeOf(c)
    <3>1. (Listed(c))' = Listed(c) \ {p}
      BY <1>2, <2>2 DEF Listed
    <3>2. \A x : x \in (FreeOf(c))' <=> \E q \in Listed(c) \ {p} : x \in freelist'[q]
      BY <3>1 DEF FreeOf
    <3>3. \A x : x \in (FreeOf(c))' <=> x \in FreeOf(c) \ freelist[p]
      BY <1>2, <1>5, <1>8, <3>2, FreeOfMeans
    <3>. QED BY <1>2, <3>3, FreeOfMeans
  <2>7. free_objs'[c] = Cardinality((FreeOf(c))') /\ free_objs'[c] \in Nat
    <3>. DEFINE A == FreeOf(c)
                B == freelist[p]
    <3>1. Cardinality(B) = Nums(c) - 1
      BY <1>2, <1>5, <1>10, Finite
    <3>2. A \cap B = B /\ IsFiniteSet(A) /\ Cardinality(A) = free_objs[c]
          /\ (FreeOf(c))' = A \ B
      BY <1>9, <2>6
    <3>. HIDE DEF A, B
    <3>3. Cardinality(A \ B) = Cardinality(A) - Cardinality(B) /\ IsFiniteSet(A \ B)
      BY <3>2, FS_Difference
    <3>4. Cardinality(A) \in Nat /\ Cardinality(A \ B) \in Nat
      BY <3>2, <3>3, FS_CardinalityType
    <3>. QED BY <1>2, <2>3, <3>1, <3>2, <3>3, <3>4, SMT
  <2>8. HeapTypes'
    <3>1. free_objs' \in [Caches -> Nat]
      BY <1>0, <1>2, <2>1, <2>3, <2>7 DEF HeapTypes
    <3>. QED BY <1>0, <1>1, <1>2, <1>7, <2>1, <2>2, <3>1 DEF HeapTypes
  <2>9. HeapInv'
    BY <1>1, <1>2, <1>3, <1>5, <2>2, <2>4, <2>5, <2>7, <2>8, StepInv DEF Listed
  <2>. QED BY <1>1, <2>9
<1>11. CASE inuse[p] # 1
  <2>1. /\ MoveToPartial(c, p) /\ pool' = pool
        /\ free_objs' = [free_objs EXCEPT ![c] = @ + 1]
    BY <1>1, <1>11
  <2>2. /\ slabs_full' \in [Caches -> SUBSET Slabs]
        /\ slabs_partial' \in [Caches -> SUBSET Slabs]
        /\ slabs_free' \in [Caches -> SUBSET Slabs]
        /\ slabs_full'[c] = slabs_full[c] \ {p}
        /\ slabs_partial'[c] = slabs_partial[c] \cup {p} /\ slabs_free'[c] = {}
        /\ \A d \in Caches : d # c =>
             /\ slabs_full'[d] = slabs_full[d] /\ slabs_partial'[d] = slabs_partial[d]
             /\ slabs_free'[d] = slabs_free[d]
    BY <1>0, <1>2, <2>1 DEF MoveToPartial, HeapTypes
  <2>3. /\ free_objs'[c] = free_objs[c] + 1
        /\ \A d \in Caches : d # c => free_objs'[d] = free_objs[d]
    BY <1>0, <1>2, <2>1 DEF HeapTypes
  <2>4. Others(c) /\ OtherSlabs(p)
    BY <1>5, <2>2, <2>3 DEF Others, OtherSlabs
  <2>5. (p \in Taken)' /\ (p \in Listed(c))'
    BY <1>2, <1>5, <2>1, <2>2 DEF Taken, Listed
  <2>6. (FreeOf(c))' = FreeOf(c) \cup {o} /\ o \notin FreeOf(c)
    <3>1. (Listed(c))' = Listed(c)
      BY <1>2, <2>2 DEF Listed
    <3>2. \A x : x \in (FreeOf(c))' <=> \E q \in Listed(c) : x \in freelist'[q]
      BY <3>1 DEF FreeOf
    <3>3. \A x : x \in (FreeOf(c))' <=> x \in FreeOf(c) \cup {o}
      BY <1>2, <1>5, <1>8, <3>2, FreeOfMeans
    <3>. QED BY <1>2, <1>3, <1>8, <3>3, FreeOfMeans
  <2>7. free_objs'[c] = Cardinality((FreeOf(c))') /\ free_objs'[c] \in Nat
    <3>1. Cardinality((FreeOf(c))') = Cardinality(FreeOf(c)) + 1
      BY <1>9, <2>6, FS_AddElement
    <3>2. Cardinality(FreeOf(c)) \in Nat
      BY <1>9, FS_CardinalityType
    <3>. QED BY <1>9, <2>3, <3>1, <3>2, SMT
  <2>8. HeapTypes'
    <3>1. free_objs' \in [Caches -> Nat]
      BY <1>0, <1>2, <2>1, <2>3, <2>7 DEF HeapTypes
    <3>. QED BY <1>0, <1>1, <1>7, <2>1, <2>2, <3>1 DEF HeapTypes
  <2>9. freelist'[p] \cap live' = {} /\ freelist'[p] \cup (LiveOn(p))' = Objects(c, p)
    BY <1>1, <1>3, <1>5, <1>6
  <2>10. /\ inuse'[p] # 0 /\ inuse'[p] < Nums(c)
         /\ p \notin slabs_full'[c] /\ inuse'[p] = Cardinality((LiveOn(p))')
    BY <1>2, <1>4, <1>5, <1>6, <1>11, <2>2, SMT
  <2>11. HeapInv'
    BY <1>1, <1>2, <1>3, <1>5, <2>2, <2>4, <2>5, <2>7, <2>8, <2>9, <2>10, StepInv
  <2>. QED BY <1>1, <2>11
<1>. QED BY <1>10, <1>11

LEMMA FreeInv ==
  ASSUME HeapInv, NEW o \in live, Free(o)
  PROVE  HeapInv' /\ live' = live \ {o}
<1>1. slab_cache[o[1]] \in Caches
  BY Facts
<1>. QED BY <1>1, FreeFrom
-----------------------------------------------------------------------------
(* The calls *)

LEMMA ReturnsInv ==
  ASSUME HeapInv, NEW c \in Caches, NEW o \in AllObjects, Returns(c, o)
  PROVE  HeapInv' /\ o \notin live /\ live' = live \cup {o}
<1>. QED BY TakeInv, GrowInv DEF Returns

LEMMA HeapKept ==
  ASSUME HeapInv, UNCHANGED heap
  PROVE  HeapInv' /\ live' = live
<1>1. UNCHANGED <<slabs_full, slabs_partial, slabs_free, free_objs, free_slabs,
                  total_slabs, slab_cache, inuse, freelist, pool, live>>
  BY DEF heap, counts
<1>2. Taken' = Taken /\ (\A p : (LiveOn(p))' = LiveOn(p))
      /\ \A c : (Listed(c))' = Listed(c) /\ (FreeOf(c))' = FreeOf(c)
  BY <1>1 DEF Taken, LiveOn, Listed, FreeOf
<1>3. HeapTypes'
  BY <1>1 DEF HeapInv, HeapTypes
<1>4. Home'
  BY <1>1, <1>2 DEF HeapInv, Home
<1>5. Owners'
  BY <1>1, <1>2 DEF HeapInv, Owners, Objects
<1>6. Counts'
  BY <1>1, <1>2 DEF HeapInv, Counts
<1>. QED BY <1>1, <1>3, <1>4, <1>5, <1>6 DEF HeapInv

LEMMA CacheNumbers ==
  /\ Boot \in Caches /\ NodeCache \in Caches
  /\ \A c \in 1 .. Len(Info) : c \in Caches /\ c # Boot /\ c # NodeCache
  /\ \A s \in Requests \cup {NameSize} : s \in 0 .. Pow2[Bits] - 1
<1>1. Len(Info) \in Nat
  <2>1. Info \in Seq(Nat)
    BY SlabAssumption
  <2>. QED BY <2>1
<1>2. Pow2[Bits - 1] \in Nat \ {0} /\ Pow2[Bits] = 2 * Pow2[Bits - 1]
  BY PowFacts, PowPositive
<1>3. NameSize \in 1 .. Pow2[Bits - 1] /\ Requests \subseteq 0 .. Pow2[Bits] - 1
  BY SlabAssumption
<1>4. NameSize \in 0 .. Pow2[Bits] - 1
  BY <1>2, <1>3, SMT
<1>5. /\ Boot \in Caches /\ NodeCache \in Caches
      /\ \A c \in 1 .. Len(Info) : c \in Caches /\ c # Boot /\ c # NodeCache
  BY <1>1, SMT DEF Boot, NodeCache, Caches
<1>. QED BY <1>3, <1>4, <1>5

LEMMA CreateInv ==
  ASSUME IInv, CreateCache
  PROVE  IInv'
<1>0. HeapInv /\ Keepers /\ TooLong
  BY DEF IInv
<1>1. CASE /\ pc = "boot" /\ \E o \in AllObjects : Returns(Boot, o) /\ kept' = kept \cup {o}
           /\ UNCHANGED <<pc, cachep, short>>
  <2>1. PICK o \in AllObjects : Returns(Boot, o) /\ kept' = kept \cup {o}
    BY <1>1
  <2>2. HeapInv' /\ live' = live \cup {o}
    BY <1>0, <2>1, CacheNumbers, ReturnsInv
  <2>3. Keepers' /\ TooLong'
    BY <1>0, <1>1, <2>1, <2>2 DEF Keepers, TooLong
  <2>. QED BY <2>2, <2>3 DEF IInv
<1>2. CASE UNCHANGED heap /\ pc' \in {"halt", "vfs"} /\ UNCHANGED <<cachep, kept, short>>
  <2>1. HeapInv' /\ live' = live
    BY <1>0, <1>2, HeapKept
  <2>2. Keepers' /\ TooLong'
    BY <1>0, <1>2, <2>1 DEF Keepers, TooLong
  <2>. QED BY <2>1, <2>2 DEF IInv
<1>. QED BY <1>1, <1>2 DEF CreateCache, AllocFail

LEMMA CacheCreateInv ==
  ASSUME IInv, CacheCreate
  PROVE  IInv'
<1>0. HeapInv /\ Keepers /\ TooLong
  BY DEF IInv
<1>1. CASE /\ \E o \in AllObjects : Returns(Boot, o) /\ cachep' = {o}
           /\ Transition("vfs", "name") /\ UNCHANGED <<made, kept, short>>
  <2>1. PICK o \in AllObjects : Returns(Boot, o) /\ cachep' = {o}
    BY <1>1
  <2>2. HeapInv' /\ live' = live \cup {o} /\ o \notin live
    BY <1>0, <2>1, CacheNumbers, ReturnsInv
  <2>3. Keepers' /\ TooLong'
    BY <1>0, <1>1, <2>1, <2>2 DEF Keepers, TooLong, Transition
  <2>. QED BY <2>2, <2>3 DEF IInv
<1>2. CASE AllocFail(Boot) /\ Transition("vfs", "halt")
           /\ UNCHANGED <<made, cachep, kept, short>>
  <2>1. HeapInv' /\ live' = live
    BY <1>0, <1>2, HeapKept DEF AllocFail
  <2>2. Keepers' /\ TooLong'
    BY <1>0, <1>2, <2>1 DEF Keepers, TooLong, Transition
  <2>. QED BY <2>1, <2>2 DEF IInv
<1>. QED BY <1>1, <1>2 DEF CacheCreate

LEMMA CacheNameInv ==
  ASSUME IInv, CacheName
  PROVE  IInv'
<1>0. HeapInv /\ Keepers /\ TooLong
  BY DEF IInv
<1>1. PICK c \in BmallocIndex(NameSize) :
        \/ /\ \E o \in AllObjects : Returns(c, o) /\ kept' = kept \cup cachep \cup {o}
           /\ Transition("name", "run") /\ UNCHANGED <<made, cachep, short>>
        \/ AllocFail(c) /\ Transition("name", "undo")
           /\ UNCHANGED <<made, cachep, kept, short>>
  BY DEF CacheName
<1>2. c \in Caches
  BY CacheNumbers, IndexFacts
<1>3. CASE /\ \E o \in AllObjects : Returns(c, o) /\ kept' = kept \cup cachep \cup {o}
           /\ Transition("name", "run") /\ UNCHANGED <<made, cachep, short>>
  <2>1. PICK o \in AllObjects : Returns(c, o) /\ kept' = kept \cup cachep \cup {o}
    BY <1>3
  <2>2. HeapInv' /\ live' = live \cup {o}
    BY <1>0, <1>2, <2>1, ReturnsInv
  <2>3. Keepers' /\ TooLong'
    BY <1>0, <1>3, <2>1, <2>2 DEF Keepers, TooLong, Transition
  <2>. QED BY <2>2, <2>3 DEF IInv
<1>4. CASE AllocFail(c) /\ Transition("name", "undo")
           /\ UNCHANGED <<made, cachep, kept, short>>
  <2>1. HeapInv' /\ live' = live
    BY <1>0, <1>4, HeapKept DEF AllocFail
  <2>2. Keepers' /\ TooLong'
    BY <1>0, <1>4, <2>1 DEF Keepers, TooLong, Transition
  <2>. QED BY <2>1, <2>2 DEF IInv
<1>. QED BY <1>1, <1>3, <1>4

LEMMA CacheUndoInv ==
  ASSUME IInv, CacheUndo
  PROVE  IInv'
<1>0. HeapInv /\ Keepers /\ TooLong
  BY DEF IInv
<1>1. PICK o \in cachep : Free(o)
  BY DEF CacheUndo
<1>2. pc = "undo" /\ pc' = "halt" /\ cachep' = {} /\ UNCHANGED <<kept, short>>
  BY DEF CacheUndo, Transition
<1>3. o \in live /\ o \notin kept
  BY <1>0, <1>2 DEF Keepers
<1>4. HeapInv' /\ live' = live \ {o}
  BY <1>0, <1>1, <1>3, FreeInv
<1>5. Keepers' /\ TooLong'
  BY <1>0, <1>2, <1>3, <1>4 DEF Keepers, TooLong
<1>. QED BY <1>4, <1>5 DEF IInv

(* A size that gets a shorter object is one that rounding takes beyond the *)
(* word.                                                                   *)
LEMMA BmallocInv ==
  ASSUME IInv, NEW s \in Requests, Bmalloc(s)
  PROVE  IInv'
<1>0. HeapInv /\ Keepers /\ TooLong
  BY DEF IInv
<1>1. pc = "run" /\ UNCHANGED <<pc, made, cachep, kept>>
  BY DEF Bmalloc
<1>2. ASSUME NEW c \in BmallocIndex(s), NEW o \in AllObjects, Returns(c, o),
             short' = IF Size(c) < s THEN short \cup {s} ELSE short
      PROVE  IInv'
  <2>1. c \in 1 .. Len(Info) /\ c \in Caches /\ c # Boot /\ c # NodeCache
        /\ (s <= Pow2[Bits - 1] => s <= Info[c])
    BY CacheNumbers, IndexFacts
  <2>2. HeapInv' /\ live' = live \cup {o}
    BY <1>0, <1>2, <2>1, ReturnsInv
  <2>3. Size(c) < s => s > Pow2[Bits - 1]
    <3>1. Size(c) = Info[c] /\ Size(c) \in Nat
      BY <2>1, CacheFits DEF Size
    <3>2. Pow2[Bits - 1] \in Nat /\ Pow2[Bits] \in Nat /\ s \in 0 .. Pow2[Bits] - 1
      BY PowFacts, CacheNumbers
    <3>. QED BY <2>1, <3>1, <3>2, SMT
  <2>4. TooLong'
    BY <1>0, <1>2, <2>3 DEF TooLong
  <2>5. Keepers'
    BY <1>0, <1>1, <2>2 DEF Keepers
  <2>. QED BY <2>2, <2>4, <2>5 DEF IInv
<1>3. CASE UNCHANGED heap /\ UNCHANGED short
  <2>1. HeapInv' /\ live' = live
    BY <1>0, <1>3, HeapKept
  <2>2. Keepers' /\ TooLong'
    BY <1>0, <1>1, <1>3, <2>1 DEF Keepers, TooLong
  <2>. QED BY <2>1, <2>2 DEF IInv
<1>. QED BY <1>2, <1>3 DEF Bmalloc, AllocFail

LEMMA NodeInv ==
  ASSUME IInv, NodeAlloc
  PROVE  IInv'
<1>0. HeapInv /\ Keepers /\ TooLong
  BY DEF IInv
<1>1. HeapInv' /\ live \subseteq live'
  <2>1. ASSUME NEW o \in AllObjects, Returns(NodeCache, o)
        PROVE  HeapInv' /\ live \subseteq live'
    BY <1>0, <2>1, CacheNumbers, ReturnsInv
  <2>2. CASE AllocFail(NodeCache)
    BY <1>0, <2>2, HeapKept DEF AllocFail
  <2>. QED BY <2>1, <2>2 DEF NodeAlloc
<1>2. Keepers' /\ TooLong'
  BY <1>0, <1>1 DEF NodeAlloc, Keepers, TooLong
<1>. QED BY <1>1, <1>2 DEF IInv

LEMMA BfreeInv ==
  ASSUME IInv, NEW o \in live \ kept, Bfree(o)
  PROVE  IInv'
<1>0. HeapInv /\ Keepers /\ TooLong
  BY DEF IInv
<1>1. HeapInv' /\ live' = live \ {o}
  BY <1>0, FreeInv DEF Bfree
<1>2. Keepers' /\ TooLong'
  BY <1>0, <1>1 DEF Bfree, Keepers, TooLong
<1>. QED BY <1>1, <1>2 DEF IInv

LEMMA SlabInit == Init => IInv
<1>. SUFFICES ASSUME Init PROVE IInv
  OBVIOUS
<1>1. HeapTypes
  BY DEF Init, HeapTypes
<1>2. Taken = {} /\ live = {} /\ \A c \in Caches : Listed(c) = {}
  BY DEF Init, Taken, Listed
<1>3. Home /\ Owners
  BY <1>2 DEF Init, Home, Owners
<1>4. \A c \in Caches : FreeOf(c) = {}
  BY <1>2 DEF FreeOf
<1>5. Counts
  BY <1>2, <1>4, FS_EmptySet DEF Counts, Init, Listed
<1>. QED BY <1>1, <1>3, <1>5 DEF IInv, HeapInv, Keepers, TooLong, Init

(* Lists, use counts, free lists and objects belong together between any   *)
(* two steps of bmalloc, bfree and the creation of a cache (slub.c).       *)
THEOREM HeapInductive == Spec => []IInv
<1>1. ASSUME IInv, [Next]_vars PROVE IInv'
  <2>1. CASE UNCHANGED vars
    <3>1. UNCHANGED heap /\ UNCHANGED <<pc, cachep, kept, short>>
      BY <2>1 DEF vars
    <3>2. HeapInv' /\ live' = live
      BY <1>1, <3>1, HeapKept DEF IInv
    <3>. QED BY <1>1, <3>1, <3>2 DEF IInv, Keepers, TooLong
  <2>2. CASE Next
    BY <1>1, <2>2, CreateInv, CacheCreateInv, CacheNameInv, CacheUndoInv, BmallocInv,
       NodeInv, BfreeInv DEF Next
  <2>. QED BY <1>1, <2>1, <2>2
<1>. QED BY <1>1, SlabInit, PTL DEF Spec

-----------------------------------------------------------------------------
(* An object is on the free list of its slab or with one caller, never     *)
(* both and never neither: bmalloc hands out no object twice.              *)
THEOREM OneOwner == Spec => []ObjectHasOneOwner
<1>1. ASSUME IInv PROVE ObjectHasOneOwner
  BY <1>1, Facts DEF IInv, HeapInv, Owners, ObjectHasOneOwner
<1>. QED BY <1>1, HeapInductive, PTL

(* bmalloc takes a new slab only when all objects of the cache are in use, *)
(* and bfree returns a slab to the page allocator with its last object.    *)
THEOREM NothingSpare == Spec => []NoneSpare
<1>1. ASSUME IInv PROVE NoneSpare
  <2>0. HeapInv /\ Home /\ Counts
    BY <1>1 DEF IInv, HeapInv
  <2>1. ASSUME NEW c \in Caches, NEW p \in Listed(c) PROVE LiveOn(p) # {}
    <3>1. inuse[p] = Cardinality(LiveOn(p)) /\ inuse[p] # 0
      BY <2>0 DEF Home, Counts
    <3>. QED BY <3>1, FS_EmptySet
  <2>2. NoIdleSlab
    BY <2>0, <2>1 DEF NoIdleSlab, Home
  <2>3. ASSUME NEW c \in Caches, NoSlab(c), NEW p \in Listed(c)
        PROVE  Cardinality(LiveOn(p)) = Nums(c)
    <3>1. p \in slabs_full[c] /\ p \in Taken
      BY <2>0, <2>3 DEF NoSlab, Listed, Home
    <3>. QED BY <2>0, <3>1 DEF Counts
  <2>. QED BY <2>2, <2>3 DEF NoneSpare, GrowsOnlyWhenFull
<1>. QED BY <1>1, HeapInductive, PTL

(* Each slab is on the list its objects in use call for, in the cache      *)
(* bfree finds it by, the counters agree, objects lie in their block, and  *)
(* a size gets the smallest objects that hold it (slub.c:88-224).          *)
THEOREM SlabsAreSound == Spec => []SlabsSound
<1>1. ASSUME IInv PROVE SlabsSound
  <2>0. HeapInv /\ HeapTypes /\ Home /\ Counts /\ Keepers /\ TooLong
    BY <1>1 DEF IInv, HeapInv
  <2>1. TypeOK
    BY <2>0 DEF TypeOK, HeapTypes, Keepers
  <2>2. SlabHasOneHome
    <3>1. ASSUME NEW p \in Taken
          PROVE  /\ slab_cache[p] \in Caches
                 /\ \A c \in Caches : p \in Listed(c) <=> c = slab_cache[p]
      BY <2>0, Facts DEF Home
    <3>2. ASSUME NEW c \in Caches
          PROVE  Listed(c) \cap pool = {} /\ slabs_full[c] \cap slabs_partial[c] = {}
      BY <2>0, Facts DEF Home
    <3>. QED BY <3>1, <3>2 DEF SlabHasOneHome
  <2>3. CountersExact
    BY <2>0 DEF Counts, CountersExact, FreeOf
  <2>4. ObjectsFit
    <3>1. ASSUME NEW p \in Taken
          PROVE  LET c == slab_cache[p]
                 IN  Nums(c) * Size(c) <= Pow2[PageShift + CacheOrder(Size(c))]
      BY <2>0, Facts, CacheFits
    <3>2. ASSUME NEW s \in Requests \ {0}, NEW c \in BmallocIndex(s), c > 1
          PROVE  Info[c - 1] < s
      BY <3>2, CacheNumbers, IndexFacts
    <3>. QED BY <2>0, <3>1, <3>2 DEF ObjectsFit, TooLong
  <2>. QED BY <2>1, <2>2, <2>3, <2>4 DEF SlabsSound
<1>. QED BY <1>1, HeapInductive, PTL
==============================================================================
