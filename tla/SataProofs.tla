----------------------------- MODULE SataProofs -----------------------------
(***************************************************************************)
(* Proofs about the scan of the PCI buses and about the driver of the AHCI *)
(* controller.  The two share no variable: the invariant of the module     *)
(* Sata is the one of the scan and the one of the driver.                  *)
(***************************************************************************)
EXTENDS Sata, FiniteSetTheorems, SequenceTheorems, WellFoundedInduction, TLAPS

(* A set of numbers that is not empty has a least one.                     *)
LEMMA LeastNat ==
  ASSUME NEW S, S \subseteq Nat, S # {}
  PROVE  \E x \in S : \A y \in S : x <= y
<1>. DEFINE L == OpToRel(<, Nat)
<1>1. IsWellFoundedOn(L, Nat)
  BY NatLessThanWellFounded
<1>. HIDE DEF L
<1>2. PICK x \in S : \A y \in S : ~ (<<y, x>> \in L)
  BY <1>1, WFMin
<1>3. \A y \in S : (<<y, x>> \in L) <=> y < x
  BY DEF L, OpToRel
<1>4. \A y \in S : ~ (y < x)
  BY <1>2, <1>3, Zenon
<1>5. x \in Nat /\ \A y \in S : y \in Nat
  OBVIOUS
<1>. QED BY <1>4, <1>5, SMT

(* The numbers that a set reaches from 0 by single steps.                  *)
LEMMA UpTo ==
  ASSUME NEW n \in Nat, NEW S, 0 \in S, \A k \in 0 .. n - 1 : k \in S => k + 1 \in S
  PROVE  0 .. n \subseteq S
<1>. DEFINE Missing == {k \in 0 .. n : k \notin S}
<1>1. SUFFICES ASSUME Missing # {} PROVE FALSE
  OBVIOUS
<1>2. Missing \subseteq Nat
  OBVIOUS
<1>3. PICK k \in Missing : \A y \in Missing : k <= y
  BY <1>1, <1>2, LeastNat
<1>4. k \in Nat /\ k <= n /\ k # 0 /\ k \notin S
  BY <1>3
<1>5. k - 1 \in 0 .. n - 1 /\ k - 1 \notin Missing
  BY <1>3, <1>4
<1>6. k - 1 \in S
  BY <1>5
<1>. QED BY <1>4, <1>5, <1>6

(* A sequence with its first element replaced.                             *)
LEMMA Replaced ==
  ASSUME NEW S, NEW s \in Seq(S), s # <<>>, NEW x \in S,
         NEW t, t = <<x>> \o Tail(s)
  PROVE  /\ t \in Seq(S) /\ Len(t) = Len(s) /\ t # <<>>
         /\ Len(s) \in Nat \ {0} /\ t[1] = x
         /\ \A i \in 2 .. Len(s) : t[i] = s[i]
<1>1. Len(s) \in Nat \ {0}
  BY EmptySeq, LenProperties
<1>2. /\ Tail(s) \in Seq(S) /\ Len(Tail(s)) = Len(s) - 1
      /\ \A i \in 1 .. Len(Tail(s)) : Tail(s)[i] = s[i + 1]
  BY HeadTailProperties
<1>3. <<x>> \in Seq(S) /\ Len(<<x>>) = 1 /\ <<x>>[1] = x
  OBVIOUS
<1>4. /\ t \in Seq(S) /\ Len(t) = Len(s)
      /\ \A i \in 1 .. Len(s) : t[i] = IF i <= 1 THEN <<x>>[i] ELSE Tail(s)[i - 1]
  BY <1>1, <1>2, <1>3, ConcatProperties
<1>5. t[1] = x
  BY <1>1, <1>3, <1>4
<1>6. ASSUME NEW i \in 2 .. Len(s) PROVE t[i] = s[i]
  <2>1. i - 1 \in 1 .. Len(Tail(s)) /\ i \in 1 .. Len(s) /\ ~ (i <= 1) /\ (i - 1) + 1 = i
    BY <1>1, <1>2
  <2>. QED BY <2>1, <1>2, <1>4
<1>. QED BY <1>1, <1>4, <1>5, <1>6, EmptySeq

(* A sequence with an element before the first.                            *)
LEMMA Pushed ==
  ASSUME NEW S, NEW s \in Seq(S), NEW x \in S, NEW t, t = <<x>> \o s
  PROVE  /\ t \in Seq(S) /\ Len(t) = Len(s) + 1 /\ t # <<>>
         /\ Len(s) \in Nat /\ t[1] = x
         /\ \A i \in 1 .. Len(s) : t[i + 1] = s[i]
<1>1. Len(s) \in Nat
  OBVIOUS
<1>2. <<x>> \in Seq(S) /\ Len(<<x>>) = 1 /\ <<x>>[1] = x
  OBVIOUS
<1>3. /\ t \in Seq(S) /\ Len(t) = 1 + Len(s)
      /\ \A i \in 1 .. 1 + Len(s) : t[i] = IF i <= 1 THEN <<x>>[i] ELSE s[i - 1]
  BY <1>2, ConcatProperties
<1>4. t[1] = x
  BY <1>1, <1>2, <1>3
<1>5. ASSUME NEW i \in 1 .. Len(s) PROVE t[i + 1] = s[i]
  <2>1. i + 1 \in 1 .. 1 + Len(s) /\ ~ (i + 1 <= 1) /\ (i + 1) - 1 = i
    BY <1>1
  <2>. QED BY <2>1, <1>3
<1>. QED BY <1>1, <1>3, <1>4, <1>5, EmptySeq

-----------------------------------------------------------------------------
(* The scan: the buses that bridges lead to                                *)

Reach == Reached[NumBuses]

(* The recursion of Reached has a solution, one more number at a time.     *)
LEMMA ReachedEq ==
  Reached = [n \in 0 .. NumBuses |->
               IF n = 0 THEN HostBuses ELSE Reached[n - 1] \cup Behind(Reached[n - 1])]
<1>. USE PciAssumption
<1>. DEFINE Solves(f, m) ==
       f = [n \in 0 .. m |-> IF n = 0 THEN HostBuses ELSE f[n - 1] \cup Behind(f[n - 1])]
     Solved == {m \in 0 .. NumBuses : \E f : Solves(f, m)}
<1>1. 0 \in Solved
  <2>1. Solves([n \in 0 .. 0 |-> HostBuses], 0)
    OBVIOUS
  <2>2. \E f : Solves(f, 0)
    BY <2>1
  <2>. HIDE DEF Solves
  <2>. QED BY <2>2
<1>2. ASSUME NEW m \in 0 .. NumBuses - 1, m \in Solved PROVE m + 1 \in Solved
  <2>1. PICK f : Solves(f, m)
    BY <1>2
  <2>. DEFINE g == [n \in 0 .. m + 1 |-> IF n = m + 1 THEN f[m] \cup Behind(f[m]) ELSE f[n]]
              h == [n \in 0 .. m + 1 |->
                      IF n = 0 THEN HostBuses ELSE g[n - 1] \cup Behind(g[n - 1])]
  <2>2. ASSUME NEW n \in 0 .. m + 1
        PROVE  g[n] = IF n = 0 THEN HostBuses ELSE g[n - 1] \cup Behind(g[n - 1])
    <3>1. CASE n = m + 1
      <4>1. g[n] = f[m] \cup Behind(f[m]) /\ n - 1 = m /\ n # 0
        BY <3>1
      <4>2. g[m] = f[m]
        OBVIOUS
      <4>. HIDE DEF g
      <4>. QED BY <4>1, <4>2
    <3>2. CASE n # m + 1 /\ n # 0
      <4>1. n \in 0 .. m /\ n - 1 \in 0 .. m
        BY <3>2
      <4>2. g[n] = f[n] /\ g[n - 1] = f[n - 1]
        BY <4>1
      <4>3. f[n] = f[n - 1] \cup Behind(f[n - 1])
        BY <2>1, <4>1, <3>2
      <4>. HIDE DEF g
      <4>. QED BY <3>2, <4>2, <4>3
    <3>3. CASE n = 0
      <4>1. g[n] = f[n]
        BY <3>3
      <4>2. f[n] = HostBuses
        BY <2>1, <3>3
      <4>. QED BY <3>3, <4>1, <4>2
    <3>. QED BY <3>1, <3>2, <3>3
  <2>3. g = h
    <3>1. \A n \in 0 .. m + 1 : g[n] = h[n]
      BY <2>2
    <3>2. /\ g = [n \in 0 .. m + 1 |-> g[n]]
          /\ h = [n \in 0 .. m + 1 |-> h[n]]
      OBVIOUS
    <3>. HIDE DEF g, h
    <3>. QED BY <3>1, <3>2
  <2>4. Solves(g, m + 1)
    <3>. HIDE DEF g
    <3>. QED BY <2>3
  <2>5. \E e : Solves(e, m + 1)
    <3>. HIDE DEF Solves, g
    <3>. QED BY <2>4
  <2>. HIDE DEF Solves
  <2>. QED BY <2>5
<1>3. NumBuses \in Solved
  <2>1. 0 .. NumBuses \subseteq Solved
    <3>. HIDE DEF Solved
    <3>. QED BY <1>1, <1>2, UpTo
  <2>. HIDE DEF Solved
  <2>. QED BY <2>1
<1>4. \E f : Solves(f, NumBuses)
  BY <1>3
<1>. QED BY <1>4, Zenon DEF Reached

LEMMA ReachedAt ==
  /\ Reached[0] = HostBuses
  /\ \A n \in 1 .. NumBuses : Reached[n] = Reached[n - 1] \cup Behind(Reached[n - 1])
<1>. USE PciAssumption
<1>. DEFINE e == [n \in 0 .. NumBuses |->
               IF n = 0 THEN HostBuses ELSE Reached[n - 1] \cup Behind(Reached[n - 1])]
<1>1. Reached = e
  BY ReachedEq
<1>2. e[0] = HostBuses
  OBVIOUS
<1>3. \A n \in 1 .. NumBuses : e[n] = Reached[n - 1] \cup Behind(Reached[n - 1])
  OBVIOUS
<1>. HIDE DEF e
<1>. QED BY <1>1, <1>2, <1>3

(* The machine is one of the machines, and its addresses are addresses.    *)
LEMMA MachineType ==
  ASSUME machine \in Machines
  PROVE  \A a \in DOMAIN machine :
           /\ a \in Addresses /\ a = <<a[1], a[2], a[3]>>
           /\ a[1] \in 0 .. NumBuses - 1 /\ a[2] \in 0 .. NumSlots - 1
           /\ a[3] \in 0 .. NumFuncs - 1
           /\ machine[a] \in Devices /\ machine[a].second \in 0 .. NumBuses - 1
<1>1. ASSUME NEW a \in DOMAIN machine PROVE a \in Addresses /\ machine[a] \in Devices
  BY MachinesAssumption
<1>. QED BY <1>1 DEF Addresses, Devices

LEMMA BehindBuses ==
  ASSUME machine \in Machines, NEW B
  PROVE  Behind(B) \subseteq 0 .. NumBuses - 1
<1>. QED BY MachineType DEF Behind, Visible

LEMMA BehindMember ==
  ASSUME NEW B, NEW bus \in B, NEW a \in Visible(bus), machine[a].class = "bridge"
  PROVE  machine[a].second \in Behind(B)
<1>. QED BY DEF Behind

LEMMA BehindMonotone ==
  ASSUME NEW A, NEW B, A \subseteq B
  PROVE  Behind(A) \subseteq Behind(B)
<1>. QED BY DEF Behind

(* Each number of steps reaches a set of buses with the host buses.        *)
LEMMA ReachedBuses ==
  ASSUME machine \in Machines
  PROVE  \A n \in 0 .. NumBuses :
           HostBuses \subseteq Reached[n] /\ Reached[n] \subseteq 0 .. NumBuses - 1
<1>. USE PciAssumption
<1>. DEFINE Good == {n \in 0 .. NumBuses :
                       HostBuses \subseteq Reached[n] /\ Reached[n] \subseteq 0 .. NumBuses - 1}
<1>1. HostBuses \subseteq 0 .. NumBuses - 1
  BY DEF HostBuses
<1>2. 0 \in Good
  <2>1. 0 \in 0 .. NumBuses /\ Reached[0] = HostBuses
    BY ReachedAt
  <2>. QED BY <1>1, <2>1
<1>3. ASSUME NEW n \in 0 .. NumBuses - 1, n \in Good PROVE n + 1 \in Good
  <2>1. n + 1 \in 1 .. NumBuses /\ (n + 1) - 1 = n
    OBVIOUS
  <2>2. Reached[n + 1] = Reached[n] \cup Behind(Reached[n])
    BY <2>1, ReachedAt
  <2>3. Behind(Reached[n]) \subseteq 0 .. NumBuses - 1
    BY BehindBuses
  <2>. QED BY <1>3, <2>1, <2>2, <2>3
<1>4. 0 .. NumBuses \subseteq Good
  <2>. HIDE DEF Good
  <2>. QED BY <1>2, <1>3, UpTo
<1>. QED BY <1>4

(* After as many steps as there are buses nothing is added: until then each*)
(* step that adds something adds a bus.                                    *)
LEMMA ReachClosed ==
  ASSUME machine \in Machines
  PROVE  /\ Reach \subseteq 0 .. NumBuses - 1
         /\ HostBuses \subseteq Reach
         /\ Behind(Reach) \subseteq Reach
<1>. USE PciAssumption
<1>. DEFINE Closed(n) == Behind(Reached[n]) \subseteq Reached[n]
            Grown == {n \in 0 .. NumBuses : Closed(n) \/ Cardinality(Reached[n]) >= n + 1}
<1>1. IsFiniteSet(0 .. NumBuses - 1) /\ Cardinality(0 .. NumBuses - 1) = NumBuses
  <2>1. 0 \in Int /\ NumBuses - 1 \in Int /\ ~ (0 > NumBuses - 1) /\ NumBuses - 1 - 0 + 1 = NumBuses
    OBVIOUS
  <2>. QED BY <2>1, FS_Interval
<1>2. ASSUME NEW n \in 0 .. NumBuses
      PROVE  /\ IsFiniteSet(Reached[n])
             /\ Cardinality(Reached[n]) \in Nat /\ Cardinality(Reached[n]) <= NumBuses
  <2>1. Reached[n] \in SUBSET (0 .. NumBuses - 1)
    BY ReachedBuses
  <2>. QED BY <1>1, <2>1, FS_Subset, FS_CardinalityType
<1>3. 0 \in Grown
  <2>1. 0 \in Reached[0] /\ 0 \in 0 .. NumBuses
    BY ReachedAt DEF HostBuses
  <2>2. IsFiniteSet(Reached[0]) /\ Cardinality(Reached[0]) \in Nat
    BY <1>2, <2>1
  <2>3. Cardinality(Reached[0]) # 0
    BY <2>1, <2>2, FS_EmptySet
  <2>. HIDE DEF Closed
  <2>. QED BY <2>1, <2>2, <2>3
<1>4. ASSUME NEW n \in 0 .. NumBuses - 1, n \in Grown PROVE n + 1 \in Grown
  <2>1. n + 1 \in 1 .. NumBuses /\ (n + 1) - 1 = n /\ n \in 0 .. NumBuses /\ n + 1 \in 0 .. NumBuses
    OBVIOUS
  <2>2. Reached[n + 1] = Reached[n] \cup Behind(Reached[n])
    BY <2>1, ReachedAt
  <2>3. CASE Closed(n)
    <3>1. Reached[n + 1] = Reached[n]
      BY <2>2, <2>3
    <3>2. Closed(n + 1)
      BY <3>1, <2>3
    <3>. HIDE DEF Closed
    <3>. QED BY <2>1, <3>2
  <2>4. CASE ~ Closed(n)
    <3>1. PICK b \in Behind(Reached[n]) : b \notin Reached[n]
      BY <2>4
    <3>2. Cardinality(Reached[n]) >= n + 1
      BY <1>4, <2>4
    <3>3. IsFiniteSet(Reached[n]) /\ Cardinality(Reached[n]) \in Nat
      BY <1>2, <2>1
    <3>4. Cardinality(Reached[n] \cup {b}) = Cardinality(Reached[n]) + 1
      BY <3>1, <3>3, FS_AddElement
    <3>5. IsFiniteSet(Reached[n + 1]) /\ Cardinality(Reached[n + 1]) \in Nat
      BY <1>2, <2>1
    <3>6. Reached[n] \cup {b} \in SUBSET Reached[n + 1]
      BY <2>2, <3>1
    <3>7. Cardinality(Reached[n] \cup {b}) <= Cardinality(Reached[n + 1])
      BY <3>5, <3>6, FS_Subset
    <3>. HIDE DEF Closed
    <3>. QED BY <2>1, <3>2, <3>3, <3>4, <3>5, <3>7
  <2>. QED BY <2>3, <2>4
<1>5. NumBuses \in Grown
  <2>1. 0 .. NumBuses \subseteq Grown
    <3>. HIDE DEF Grown
    <3>. QED BY <1>3, <1>4, UpTo
  <2>. HIDE DEF Grown
  <2>. QED BY <2>1
<1>6. Closed(NumBuses)
  <2>1. Cardinality(Reached[NumBuses]) \in Nat /\ Cardinality(Reached[NumBuses]) <= NumBuses
    BY <1>2
  <2>. HIDE DEF Closed
  <2>. QED BY <1>5, <2>1
<1>7. HostBuses \subseteq Reached[NumBuses] /\ Reached[NumBuses] \subseteq 0 .. NumBuses - 1
  BY ReachedBuses
<1>. QED BY <1>6, <1>7 DEF Reach

(* Nothing smaller is closed.                                              *)
LEMMA ReachLeast ==
  ASSUME NEW B, HostBuses \subseteq B, Behind(B) \subseteq B
  PROVE  Reach \subseteq B
<1>. USE PciAssumption
<1>. DEFINE Inside == {n \in 0 .. NumBuses : Reached[n] \subseteq B}
<1>1. 0 \in Inside
  BY ReachedAt
<1>2. ASSUME NEW n \in 0 .. NumBuses - 1, n \in Inside PROVE n + 1 \in Inside
  <2>1. n + 1 \in 1 .. NumBuses /\ (n + 1) - 1 = n
    OBVIOUS
  <2>2. Reached[n + 1] = Reached[n] \cup Behind(Reached[n])
    BY <2>1, ReachedAt
  <2>3. Behind(Reached[n]) \subseteq Behind(B)
    BY <1>2, BehindMonotone
  <2>. QED BY <1>2, <2>1, <2>2, <2>3
<1>3. 0 .. NumBuses \subseteq Inside
  <2>. HIDE DEF Inside
  <2>. QED BY <1>1, <1>2, UpTo
<1>. QED BY <1>3 DEF Reach

-----------------------------------------------------------------------------
(* The scan: the invariant                                                 *)

Ups == {NoBridge} \cup Addresses
FrameSet == [bus : 0 .. NumBuses - 1, slot : 0 .. NumSlots, func : 0 .. NumFuncs - 1,
             parent : Ups]

(* The parts of the invariant are operators on the values they speak of,   *)
(* the functions found and those found or starved, to compare two states.  *)
Earlier(f) == {a \in Visible(f.bus) : a[2] < f.slot \/ (a[2] = f.slot /\ a[3] < f.func)}

Several(bus, s) == Present(<<bus, s, 0>>) /\ Multi(<<bus, s, 0>>)

LedTo(bus, up, found) ==
  \/ up = NoBridge /\ bus \in HostBuses
  \/ up \in found /\ machine[up].second = bus

(* A call of pci_probe_bus is on a bus that can be reached, and has found  *)
(* what it has passed.                                                     *)
Fits(f, found, done) ==
  /\ f \in FrameSet /\ f.bus \in Reach
  /\ f.func # 0 => Several(f.bus, f.slot)
  /\ f.slot = NumSlots => f.func = 0
  /\ Earlier(f) \subseteq done
  /\ LedTo(f.bus, f.parent, found)

FramesFit(fr, found, done) ==
  fr \in Seq(FrameSet) /\ \A i \in 1 .. Len(fr) : Fits(fr[i], found, done)

Seconds(found) == {machine[a].second : a \in {x \in found : machine[x].class = "bridge"}}

HostsEntered(fr) == IF fr = <<>> THEN HostBuses ELSE 0 .. fr[Len(fr)].bus

Covered(b, fr, done) == Visible(b) \subseteq done \/ \E i \in 1 .. Len(fr) : fr[i].bus = b

(* Each bus that was entered is being scanned, or all of it has been found.*)
AllCovered(fr, found, done) ==
  \A b \in HostsEntered(fr) \cup Seconds(found) : Covered(b, fr, done)

FoundOf(devs) == {devs[i].addr : i \in 1 .. Len(devs)}

DeviceSet == [addr : Addresses, parent : Ups]

DevicesFit(devs) ==
  /\ devs \in Seq(DeviceSet)
  /\ \A i \in 1 .. Len(devs) :
       /\ devs[i].addr \in Visible(devs[i].addr[1]) /\ devs[i].addr[1] \in Reach
       /\ LedTo(devs[i].addr[1], devs[i].parent, FoundOf(devs))
  /\ IsFiniteSet(FoundOf(devs)) /\ Cardinality(FoundOf(devs)) = Len(devs)

ScanFits(fr, devs, done) ==
  /\ FramesFit(fr, FoundOf(devs), done)
  /\ AllCovered(fr, FoundOf(devs), done)
  /\ DevicesFit(devs)

Done == Found \cup starved

ScanInv == machine \in Machines /\ ScanFits(frames, pci_devs, Done)

LEMMA FoundIs ==
  ASSUME ScanInv
  PROVE  Found = FoundOf(pci_devs)
<1>1. pci_devs \in Seq(DeviceSet)
  BY DEF ScanInv, ScanFits, DevicesFit
<1>2. DOMAIN pci_devs = 1 .. Len(pci_devs)
  BY <1>1
<1>. QED BY <1>2, Zenon DEF Found, FoundOf

(* The invariant of the next state in terms of this state's machine.       *)
LEMMA ScanNext ==
  ASSUME UNCHANGED machine, machine \in Machines, ScanFits(frames', pci_devs', Done')
  PROVE  ScanInv'
<1>1. Reach' = Reach /\ HostBuses' = HostBuses
  BY DEF Reach, Reached, HostBuses, Behind, Visible, Present, Multi
<1>2. FramesFit(frames', FoundOf(pci_devs'), Done') => FramesFit(frames, FoundOf(pci_devs), Done)'
  BY <1>1 DEF FramesFit, Fits, Earlier, Several, LedTo, FoundOf, Visible, Present, Multi
<1>3. AllCovered(frames', FoundOf(pci_devs'), Done') => AllCovered(frames, FoundOf(pci_devs), Done)'
  BY <1>1 DEF AllCovered, Covered, HostsEntered, Seconds, FoundOf, Visible, Present, Multi
<1>4. DevicesFit(pci_devs') => DevicesFit(pci_devs)'
  BY <1>1 DEF DevicesFit, LedTo, FoundOf, Visible, Present, Multi
<1>. QED BY <1>2, <1>3, <1>4 DEF ScanInv, ScanFits

-----------------------------------------------------------------------------
(* The scan: the steps                                                     *)

(* What was found stays found.                                             *)
LEMMA FitsMore ==
  ASSUME NEW f, NEW found, NEW done, Fits(f, found, done),
         NEW found2, NEW done2, found \subseteq found2, done \subseteq done2
  PROVE  Fits(f, found2, done2)
<1>. QED BY DEF Fits, LedTo

(* The function the scan is at can be seen on its bus.                     *)
LEMMA HereVisible ==
  ASSUME NEW found, NEW done, Fits(Top, found, done), Present(Here)
  PROVE  Here \in Visible(Top.bus) /\ Here[1] = Top.bus
<1>1. Here[1] = Top.bus /\ Here[2] = Top.slot /\ Here[3] = Top.func
  BY DEF Here
<1>2. Present(<<Top.bus, Top.slot, 0>>) /\ (Top.func = 0 \/ Multi(<<Top.bus, Top.slot, 0>>))
  <2>1. CASE Top.func = 0
    BY <2>1 DEF Here
  <2>2. CASE Top.func # 0
    BY <2>2 DEF Fits, Several
  <2>. QED BY <2>1, <2>2
<1>. QED BY <1>1, <1>2 DEF Visible, Present

(* pci_probe_slot passes a function that is not there or has been found.   *)
LEMMA AdvanceFits ==
  ASSUME machine \in Machines, NEW found, NEW done, Fits(Top, found, done),
         Top.slot < NumSlots, ~ Present(Here) \/ Here \in done
  PROVE  Fits(Advance(Top), found, done) /\ Advance(Top).bus = Top.bus
<1>. DEFINE f == Top
            g == Advance(Top)
<1>1. f \in FrameSet /\ f.slot \in 0 .. NumSlots - 1 /\ f.func \in 0 .. NumFuncs - 1
      /\ Top.func \in Int /\ f.slot \in Int /\ Top.slot \in Int /\ Top.slot < NumSlots
  BY PciAssumption DEF Fits, FrameSet
<1>2. ASSUME NEW a \in Visible(f.bus), a[2] = f.slot, a[3] = f.func
      PROVE  a \in done
  <2>1. a \in DOMAIN machine /\ a[1] = f.bus
    BY DEF Visible
  <2>2. a = Here
    BY <1>2, <2>1, MachineType DEF Here
  <2>. QED BY <2>1, <2>2 DEF Present
<1>3. ASSUME NEW a \in Visible(f.bus)
      PROVE  a[2] \in Int /\ a[3] \in 0 .. NumFuncs - 1
  BY MachineType DEF Visible
<1>4. \A a \in Visible(f.bus) : a[2] < f.slot \/ (a[2] = f.slot /\ a[3] < f.func) => a \in done
  BY DEF Fits, Earlier
<1>5. CASE (Top.func = 0 /\ ~ (Present(First) /\ Multi(First))) \/ Top.func = NumFuncs - 1
  <2>1. g = [Top EXCEPT !.slot = @ + 1, !.func = 0]
    BY <1>5 DEF Advance
  <2>2. /\ g \in FrameSet /\ g.bus = Top.bus /\ g.slot = Top.slot + 1 /\ g.func = 0
        /\ g.parent = Top.parent
    <3>1. Top.slot + 1 \in 0 .. NumSlots /\ 0 \in 0 .. NumFuncs - 1
      BY <1>1, PciAssumption
    <3>. HIDE DEF g
    <3>. QED BY <2>1, <3>1, <1>1 DEF FrameSet
  <2>3. ASSUME NEW a \in Visible(Top.bus), a[2] < Top.slot + 1
        PROVE  a \in done
    <3>1. CASE a[2] < Top.slot
      BY <3>1, <1>4
    <3>2. CASE a[2] = Top.slot /\ a[3] < Top.func
      BY <3>2, <1>4
    <3>3. CASE a[2] = Top.slot /\ a[3] = Top.func
      BY <3>3, <1>2
    <3>4. CASE a[2] = Top.slot /\ a[3] > Top.func
      <4>1. Top.func = 0 /\ ~ (Present(First) /\ Multi(First))
        BY <3>4, <1>1, <1>3, <1>5, PciAssumption
      <4>2. Present(First) /\ Multi(First)
        BY <3>4, <4>1, <1>3 DEF Visible, First
      <4>. QED BY <4>1, <4>2
    <3>. QED BY <2>3, <3>1, <3>2, <3>3, <3>4, <1>1, <1>3
  <2>. HIDE DEF g
  <2>4. Earlier(g) \subseteq done
    BY <2>2, <2>3, <1>1, <1>3 DEF Earlier
  <2>. QED BY <2>2, <2>4 DEF Fits, g
<1>6. CASE ~ ((Top.func = 0 /\ ~ (Present(First) /\ Multi(First))) \/ Top.func = NumFuncs - 1)
  <2>1. g = [Top EXCEPT !.func = @ + 1]
    BY <1>6 DEF Advance
  <2>2. /\ g \in FrameSet /\ g.bus = Top.bus /\ g.slot = Top.slot /\ g.func = Top.func + 1
        /\ g.parent = Top.parent
    BY <2>1, <1>1, <1>6, PciAssumption DEF FrameSet
  <2>3. Several(Top.bus, Top.slot)
    BY <1>6 DEF Fits, Several, First
  <2>4. ASSUME NEW a \in Visible(Top.bus), a[2] < Top.slot \/ (a[2] = Top.slot /\ a[3] < Top.func + 1)
        PROVE  a \in done
    <3>1. a[2] < Top.slot \/ (a[2] = Top.slot /\ a[3] < Top.func)
          \/ (a[2] = Top.slot /\ a[3] = Top.func)
      BY <2>4, <1>1, <1>3
    <3>. QED BY <3>1, <1>2, <1>4
  <2>. HIDE DEF g
  <2>5. Earlier(g) \subseteq done
    BY <2>2, <2>4 DEF Earlier
  <2>. QED BY <2>2, <2>3, <2>5, <1>1 DEF Fits, g
<1>. QED BY <1>5, <1>6

(* The innermost call goes on to its next function.                        *)
LEMMA Passing ==
  ASSUME machine \in Machines, Probing, NEW found, NEW done,
         FramesFit(frames, found, done), AllCovered(frames, found, done),
         NEW found2, NEW done2, found \subseteq found2, done \subseteq done2,
         ~ Present(Here) \/ Here \in done2,
         NEW fr, fr = <<Advance(Top)>> \o Tail(frames)
  PROVE  /\ FramesFit(fr, found2, done2) /\ fr # <<>>
         /\ HostsEntered(fr) = HostsEntered(frames)
         /\ \A b \in HostsEntered(frames) \cup Seconds(found) : Covered(b, fr, done2)
<1>1. frames \in Seq(FrameSet) /\ frames # <<>> /\ Len(frames) \in Nat \ {0}
  <2>1. frames \in Seq(FrameSet) /\ frames # <<>>
    BY DEF FramesFit, Probing, Scanned
  <2>. QED BY <2>1, EmptySeq, LenProperties
<1>2. \A i \in 1 .. Len(frames) : Fits(frames[i], found2, done2)
  BY FitsMore DEF FramesFit
<1>3. Top = frames[1]
  BY <1>1 DEF Top
<1>4. Fits(Top, found2, done2) /\ Top.slot \in Int
  BY <1>1, <1>2, <1>3 DEF Fits, FrameSet
<1>5. Fits(Advance(Top), found2, done2) /\ Advance(Top).bus = Top.bus
  BY <1>4, AdvanceFits DEF Probing
<1>6. Advance(Top) \in FrameSet
  BY <1>5 DEF Fits
<1>7. /\ fr \in Seq(FrameSet) /\ Len(fr) = Len(frames) /\ fr # <<>> /\ fr[1] = Advance(Top)
      /\ \A i \in 2 .. Len(frames) : fr[i] = frames[i]
  BY <1>1, <1>6, Replaced
<1>8. ASSUME NEW i \in 1 .. Len(fr)
      PROVE  Fits(fr[i], found2, done2) /\ fr[i].bus = frames[i].bus
  <2>1. CASE i = 1
    BY <2>1, <1>3, <1>5, <1>7
  <2>2. CASE i # 1
    <3>1. i \in 2 .. Len(frames) /\ i \in 1 .. Len(frames)
      BY <2>2, <1>7, <1>1
    <3>. QED BY <3>1, <1>2, <1>7
  <2>. QED BY <2>1, <2>2
<1>9. FramesFit(fr, found2, done2)
  BY <1>7, <1>8 DEF FramesFit
<1>10. HostsEntered(fr) = HostsEntered(frames)
  <2>1. Len(fr) \in 1 .. Len(fr)
    BY <1>1, <1>7
  <2>2. fr[Len(fr)].bus = frames[Len(frames)].bus
    BY <2>1, <1>7, <1>8
  <2>. QED BY <2>2, <1>1, <1>7 DEF HostsEntered
<1>11. ASSUME NEW b \in HostsEntered(frames) \cup Seconds(found) PROVE Covered(b, fr, done2)
  <2>1. CASE Visible(b) \subseteq done
    BY <2>1 DEF Covered
  <2>2. CASE \E i \in 1 .. Len(frames) : frames[i].bus = b
    BY <2>2, <1>7, <1>8 DEF Covered
  <2>. QED BY <2>1, <2>2 DEF AllCovered, Covered
<1>. QED BY <1>7, <1>9, <1>10, <1>11

(* A bridge starts a call on the bus behind it.                            *)
LEMMA EnteringHosts ==
  ASSUME NEW fr \in Seq(FrameSet), fr # <<>>, NEW f \in FrameSet, NEW fr2, fr2 = <<f>> \o fr
  PROVE  HostsEntered(fr2) = HostsEntered(fr)
<1>1. /\ Len(fr2) = Len(fr) + 1 /\ fr2 # <<>>
      /\ Len(fr) \in Nat /\ \A i \in 1 .. Len(fr) : fr2[i + 1] = fr[i]
  BY Pushed
<1>2. Len(fr) \in 1 .. Len(fr)
  BY <1>1, EmptySeq
<1>3. fr2[Len(fr2)] = fr[Len(fr)]
  BY <1>1, <1>2
<1>. QED BY <1>1, <1>3 DEF HostsEntered

LEMMA Entering ==
  ASSUME NEW found, NEW done, NEW fr, fr # <<>>, FramesFit(fr, found, done),
         NEW f, Fits(f, found, done), NEW fr2, fr2 = <<f>> \o fr
  PROVE  /\ FramesFit(fr2, found, done)
         /\ \A b : Covered(b, fr, done) => Covered(b, fr2, done)
         /\ Covered(f.bus, fr2, done)
<1>1. fr \in Seq(FrameSet) /\ f \in FrameSet
  BY DEF FramesFit, Fits
<1>2. /\ fr2 \in Seq(FrameSet) /\ Len(fr2) = Len(fr) + 1 /\ fr2[1] = f
      /\ Len(fr) \in Nat /\ \A i \in 1 .. Len(fr) : fr2[i + 1] = fr[i]
  BY <1>1, Pushed
<1>3. ASSUME NEW i \in 1 .. Len(fr2) PROVE Fits(fr2[i], found, done)
  <2>1. CASE i = 1
    BY <2>1, <1>2
  <2>2. CASE i # 1
    <3>1. i - 1 \in 1 .. Len(fr) /\ (i - 1) + 1 = i
      BY <2>2, <1>2
    <3>2. fr2[i] = fr[i - 1]
      BY <3>1, <1>2
    <3>. QED BY <3>1, <3>2 DEF FramesFit
  <2>. QED BY <2>1, <2>2
<1>4. ASSUME NEW b, Covered(b, fr, done) PROVE Covered(b, fr2, done)
  <2>1. CASE Visible(b) \subseteq done
    BY <2>1 DEF Covered
  <2>2. ASSUME NEW i \in 1 .. Len(fr), fr[i].bus = b PROVE Covered(b, fr2, done)
    <3>1. i + 1 \in 1 .. Len(fr2) /\ fr2[i + 1].bus = b
      BY <2>2, <1>2
    <3>. QED BY <3>1 DEF Covered
  <2>. QED BY <1>4, <2>1, <2>2 DEF Covered
<1>5. Covered(f.bus, fr2, done)
  <2>1. 1 \in 1 .. Len(fr2) /\ fr2[1].bus = f.bus
    BY <1>2
  <2>. QED BY <2>1 DEF Covered
<1>. QED BY <1>2, <1>3, <1>4, <1>5 DEF FramesFit

LEMMA SkipStep ==
  ASSUME ScanInv, Skip
  PROVE  ScanInv'
<1>1. pci_devs' = pci_devs /\ Found' = Found /\ starved' = starved /\ machine' = machine
  BY DEF Skip, Found
<1>2. Done' = Done /\ FoundOf(pci_devs') = FoundOf(pci_devs) /\ machine \in Machines
  BY <1>1 DEF Done, ScanInv
<1>3. ~ Present(Here) \/ Here \in Done
  BY DEF Skip, New, Done
<1>4. /\ FramesFit(frames, FoundOf(pci_devs), Done) /\ AllCovered(frames, FoundOf(pci_devs), Done)
      /\ DevicesFit(pci_devs)
  BY DEF ScanInv, ScanFits
<1>5. Probing /\ frames' = <<Advance(Top)>> \o Tail(frames)
  BY DEF Skip
<1>6. /\ FramesFit(frames', FoundOf(pci_devs), Done)
      /\ HostsEntered(frames') = HostsEntered(frames)
      /\ \A b \in HostsEntered(frames) \cup Seconds(FoundOf(pci_devs)) : Covered(b, frames', Done)
  BY <1>2, <1>3, <1>4, <1>5, Passing
<1>7. AllCovered(frames', FoundOf(pci_devs), Done)
  BY <1>6 DEF AllCovered
<1>. QED BY <1>1, <1>2, <1>4, <1>6, <1>7, ScanNext DEF ScanFits

LEMMA NoMemoryStep ==
  ASSUME ScanInv, NoMemory
  PROVE  ScanInv'
<1>1. /\ pci_devs' = pci_devs /\ Found' = Found /\ starved' = starved \cup {Here}
      /\ machine' = machine
  BY DEF NoMemory, Found
<1>2. /\ Done \subseteq Done' /\ Here \in Done' /\ machine \in Machines
      /\ FoundOf(pci_devs') = FoundOf(pci_devs)
  BY <1>1 DEF Done, ScanInv
<1>3. /\ FramesFit(frames, FoundOf(pci_devs), Done) /\ AllCovered(frames, FoundOf(pci_devs), Done)
      /\ DevicesFit(pci_devs)
  BY DEF ScanInv, ScanFits
<1>4. Probing /\ frames' = <<Advance(Top)>> \o Tail(frames)
  BY DEF NoMemory
<1>5. /\ FramesFit(frames', FoundOf(pci_devs), Done')
      /\ HostsEntered(frames') = HostsEntered(frames)
      /\ \A b \in HostsEntered(frames) \cup Seconds(FoundOf(pci_devs)) : Covered(b, frames', Done')
  BY <1>2, <1>3, <1>4, Passing
<1>6. AllCovered(frames', FoundOf(pci_devs), Done')
  BY <1>5 DEF AllCovered
<1>. QED BY <1>1, <1>2, <1>3, <1>5, <1>6, ScanNext DEF ScanFits

(* A device at the head of the list.                                       *)
LEMMA Listing ==
  ASSUME NEW devs, DevicesFit(devs), NEW d \in DeviceSet, d.addr \notin FoundOf(devs),
         d.addr \in Visible(d.addr[1]), d.addr[1] \in Reach,
         LedTo(d.addr[1], d.parent, FoundOf(devs)),
         NEW devs2, devs2 = <<d>> \o devs
  PROVE  /\ DevicesFit(devs2) /\ FoundOf(devs2) = FoundOf(devs) \cup {d.addr}
         /\ DOMAIN devs2 = 1 .. Len(devs2)
<1>1. devs \in Seq(DeviceSet)
  BY DEF DevicesFit
<1>2. /\ devs2 \in Seq(DeviceSet) /\ Len(devs2) = Len(devs) + 1 /\ devs2[1] = d
      /\ Len(devs) \in Nat /\ \A i \in 1 .. Len(devs) : devs2[i + 1] = devs[i]
  BY <1>1, Pushed
<1>3. \A i \in 1 .. Len(devs2) : i = 1 \/ (i - 1 \in 1 .. Len(devs) /\ devs2[i] = devs[i - 1])
  <2>1. ASSUME NEW i \in 1 .. Len(devs2), i # 1
        PROVE  i - 1 \in 1 .. Len(devs) /\ devs2[i] = devs[i - 1]
    <3>1. i - 1 \in 1 .. Len(devs) /\ (i - 1) + 1 = i
      BY <2>1, <1>2
    <3>. QED BY <3>1, <1>2
  <2>. QED BY <2>1
<1>4. FoundOf(devs2) = FoundOf(devs) \cup {d.addr}
  <2>1. ASSUME NEW a \in FoundOf(devs2) PROVE a \in FoundOf(devs) \cup {d.addr}
    BY <1>2, <1>3 DEF FoundOf
  <2>2. ASSUME NEW a \in FoundOf(devs) PROVE a \in FoundOf(devs2)
    <3>1. PICK i \in 1 .. Len(devs) : a = devs[i].addr
      BY <2>2 DEF FoundOf
    <3>2. i + 1 \in 1 .. Len(devs2) /\ a = devs2[i + 1].addr
      BY <3>1, <1>2
    <3>. QED BY <3>2 DEF FoundOf
  <2>3. d.addr \in FoundOf(devs2)
    <3>1. 1 \in 1 .. Len(devs2) /\ d.addr = devs2[1].addr
      BY <1>2
    <3>. QED BY <3>1 DEF FoundOf
  <2>. QED BY <2>1, <2>2, <2>3
<1>5. IsFiniteSet(FoundOf(devs2)) /\ Cardinality(FoundOf(devs2)) = Len(devs2)
  <2>1. IsFiniteSet(FoundOf(devs)) /\ Cardinality(FoundOf(devs)) = Len(devs)
    BY DEF DevicesFit
  <2>2. IsFiniteSet(FoundOf(devs) \cup {d.addr})
    BY <2>1, FS_AddElement
  <2>3. Cardinality(FoundOf(devs) \cup {d.addr}) = Cardinality(FoundOf(devs)) + 1
    BY <2>1, FS_AddElement
  <2>. QED BY <2>1, <2>2, <2>3, <1>2, <1>4
<1>6. ASSUME NEW i \in 1 .. Len(devs2)
      PROVE  /\ devs2[i].addr \in Visible(devs2[i].addr[1]) /\ devs2[i].addr[1] \in Reach
             /\ LedTo(devs2[i].addr[1], devs2[i].parent, FoundOf(devs2))
  <2>1. CASE i = 1
    BY <2>1, <1>2, <1>4 DEF LedTo
  <2>2. CASE i - 1 \in 1 .. Len(devs) /\ devs2[i] = devs[i - 1]
    BY <2>2, <1>4 DEF DevicesFit, LedTo
  <2>. QED BY <2>1, <2>2, <1>3
<1>7. DOMAIN devs2 = 1 .. Len(devs2)
  BY <1>2
<1>. QED BY <1>2, <1>4, <1>5, <1>6, <1>7 DEF DevicesFit

LEMMA AddStep ==
  ASSUME ScanInv, Add
  PROVE  ScanInv'
<1>. DEFINE found == FoundOf(pci_devs)
            found2 == FoundOf(pci_devs')
            d == [addr |-> Here, parent |-> Top.parent]
            moved == <<Advance(Top)>> \o Tail(frames)
            sub == Frame(machine[Here].second, Parent)
<1>1. /\ machine' = machine /\ starved' = starved /\ machine \in Machines
      /\ Probing /\ Present(Here) /\ Here \notin found
  BY FoundIs DEF Add, New, ScanInv
<1>2. /\ FramesFit(frames, found, Done) /\ AllCovered(frames, found, Done) /\ DevicesFit(pci_devs)
  BY DEF ScanInv, ScanFits
<1>3. Fits(Top, found, Done) /\ Top \in FrameSet
  <2>1. frames \in Seq(FrameSet) /\ frames # <<>>
    BY <1>1, <1>2 DEF FramesFit, Probing, Scanned
  <2>2. 1 \in 1 .. Len(frames) /\ Top = frames[1]
    BY <2>1, EmptySeq DEF Top
  <2>. QED BY <2>1, <2>2, <1>2 DEF FramesFit
<1>4. Here \in Visible(Top.bus) /\ Here[1] = Top.bus
  BY <1>1, <1>3, HereVisible
<1>5. /\ d \in DeviceSet /\ d.addr = Here /\ d.parent = Top.parent
      /\ machine[Here].second \in 0 .. NumBuses - 1 /\ Here \in Addresses
  <2>1. Here \in Addresses /\ machine[Here].second \in 0 .. NumBuses - 1
    BY <1>1, MachineType DEF Present
  <2>. QED BY <2>1, <1>3 DEF DeviceSet, FrameSet
<1>6. pci_devs' = <<d>> \o pci_devs
  BY DEF Add
<1>. HIDE DEF d
<1>7. DevicesFit(pci_devs') /\ found2 = found \cup {Here} /\ DOMAIN pci_devs' = 1 .. Len(pci_devs')
  <2>1. Top.bus \in Reach /\ LedTo(Top.bus, Top.parent, found)
    BY <1>3 DEF Fits
  <2>. QED BY <2>1, <1>1, <1>2, <1>4, <1>5, <1>6, Listing
<1>8. Done' = Done \cup {Here}
  <2>1. Found' = found2
    BY <1>7, Zenon DEF Found, FoundOf
  <2>2. Found = found
    BY FoundIs
  <2>. QED BY <2>1, <2>2, <1>1, <1>7 DEF Done
<1>9. /\ FramesFit(moved, found2, Done') /\ moved # <<>>
      /\ HostsEntered(moved) = HostsEntered(frames)
      /\ \A b \in HostsEntered(frames) \cup Seconds(found) : Covered(b, moved, Done')
  <2>1. found \subseteq found2 /\ Done \subseteq Done' /\ Here \in Done'
    BY <1>7, <1>8
  <2>. HIDE DEF found, found2
  <2>2. FramesFit(frames, found, Done) /\ AllCovered(frames, found, Done)
    BY <1>2
  <2>. QED BY <2>1, <2>2, <1>1, Passing
<1>10. \A b \in Seconds(found2) : b \in Seconds(found) \/ (machine[Here].class = "bridge" /\ b = machine[Here].second)
  BY <1>7 DEF Seconds
<1>11. frames' = (IF machine[Here].class = "bridge" THEN <<sub>> ELSE <<>>) \o <<Advance(Top)>> \o Tail(frames)
  BY DEF Add
<1>12. frames \in Seq(FrameSet) /\ Tail(frames) \in Seq(FrameSet) /\ Advance(Top) \in FrameSet
  <2>1. frames \in Seq(FrameSet) /\ frames # <<>>
    BY <1>1, <1>2 DEF FramesFit, Probing, Scanned
  <2>2. Fits(Top, found2, Done')
    BY <1>3, <1>7, <1>8, FitsMore
  <2>3. Top.slot < NumSlots /\ Here \in Done'
    BY <1>1, <1>8 DEF Probing
  <2>4. Fits(Advance(Top), found2, Done')
    BY <2>2, <2>3, <1>1, AdvanceFits
  <2>. QED BY <2>1, <2>4, HeadTailProperties DEF Fits
<1>13. CASE machine[Here].class # "bridge"
  <2>1. frames' = moved
    <3>1. <<Advance(Top)>> \in Seq(FrameSet)
      BY <1>12
    <3>2. <<>> \o <<Advance(Top)>> = <<Advance(Top)>>
      BY <3>1, ConcatEmptySeq
    <3>. QED BY <1>11, <1>13, <3>2
  <2>2. AllCovered(moved, found2, Done')
    BY <1>9, <1>10, <1>13 DEF AllCovered
  <2>. HIDE DEF moved
  <2>. QED BY <2>1, <2>2, <1>1, <1>7, <1>9, ScanNext DEF ScanFits
<1>14. CASE machine[Here].class = "bridge"
  <2>1. sub.bus = machine[Here].second /\ sub.slot = 0 /\ sub.func = 0 /\ sub.parent = Here
        /\ sub \in FrameSet
    BY <1>5, PciAssumption DEF Frame, Parent, FrameSet, Ups
  <2>2. Fits(sub, found2, Done')
    <3>1. sub.bus \in Reach
      <4>1. machine[Here].second \in Behind(Reach)
        BY <1>3, <1>4, <1>14, BehindMember DEF Fits
      <4>. QED BY <4>1, <2>1, <1>1, ReachClosed
    <3>2. LedTo(sub.bus, sub.parent, found2)
      BY <2>1, <1>7 DEF LedTo
    <3>3. Earlier(sub) \subseteq Done'
      BY <2>1, <1>1, MachineType, PciAssumption DEF Earlier, Visible
    <3>4. sub.slot # NumSlots
      BY <2>1, PciAssumption
    <3>. HIDE DEF sub, found2
    <3>. QED BY <2>1, <3>1, <3>2, <3>3, <3>4 DEF Fits
  <2>. HIDE DEF sub
  <2>3. frames' = <<sub>> \o moved
    <3>1. <<Advance(Top)>> \in Seq(FrameSet) /\ <<sub>> \in Seq(FrameSet)
      BY <1>12, <2>1
    <3>2. (<<sub>> \o <<Advance(Top)>>) \o Tail(frames) = <<sub>> \o (<<Advance(Top)>> \o Tail(frames))
      BY <3>1, <1>12, ConcatAssociative
    <3>. QED BY <3>2, <1>11, <1>14
  <2>. HIDE DEF moved
  <2>4. /\ FramesFit(frames', found2, Done') /\ HostsEntered(frames') = HostsEntered(moved)
        /\ \A b : Covered(b, moved, Done') => Covered(b, frames', Done')
        /\ Covered(sub.bus, frames', Done')
    <3>. HIDE DEF found2
    <3>1. moved # <<>> /\ FramesFit(moved, found2, Done')
      BY <1>9
    <3>2. FramesFit(frames', found2, Done')
      BY <3>1, <2>2, <2>3, Entering
    <3>3. HostsEntered(frames') = HostsEntered(moved)
      BY <3>1, <2>1, <2>3, EnteringHosts DEF FramesFit
    <3>4. ASSUME NEW b, Covered(b, moved, Done') PROVE Covered(b, frames', Done')
      BY <3>1, <3>4, <2>2, <2>3, Entering
    <3>5. Covered(sub.bus, frames', Done')
      BY <3>1, <2>2, <2>3, Entering
    <3>. QED BY <3>2, <3>3, <3>4, <3>5
  <2>5. AllCovered(frames', found2, Done')
    BY <1>9, <1>10, <2>1, <2>4 DEF AllCovered
  <2>. QED BY <2>4, <2>5, <1>1, <1>7, ScanNext DEF ScanFits
<1>. QED BY <1>13, <1>14

(* A call that has passed all slots has found all that is on its bus.      *)
LEMMA EndBusStep ==
  ASSUME ScanInv, EndBus
  PROVE  ScanInv'
<1>. DEFINE found == FoundOf(pci_devs)
            len == Len(frames)
<1>1. pci_devs' = pci_devs /\ Found' = Found /\ starved' = starved /\ machine' = machine
  BY DEF EndBus, Found
<1>2. Done' = Done /\ FoundOf(pci_devs') = found /\ machine \in Machines
  BY <1>1 DEF Done, ScanInv
<1>3. /\ FramesFit(frames, found, Done) /\ AllCovered(frames, found, Done) /\ DevicesFit(pci_devs)
  BY DEF ScanInv, ScanFits
<1>4. frames \in Seq(FrameSet) /\ frames # <<>> /\ len \in Nat \ {0}
  <2>1. frames \in Seq(FrameSet) /\ frames # <<>>
    BY <1>3 DEF FramesFit, EndBus, Scanned
  <2>. QED BY <2>1, EmptySeq, LenProperties
<1>5. Top = frames[1] /\ 1 \in 1 .. len /\ Fits(Top, found, Done) /\ Top.slot = NumSlots
  <2>1. Top = frames[1] /\ 1 \in 1 .. len
    BY <1>4 DEF Top
  <2>. QED BY <2>1, <1>3 DEF FramesFit, EndBus
<1>6. Visible(Top.bus) \subseteq Done
  <2>1. ASSUME NEW a \in Visible(Top.bus) PROVE a \in Earlier(Top)
    <3>1. a \in DOMAIN machine
      BY DEF Visible
    <3>2. a[2] \in 0 .. NumSlots - 1
      BY <3>1, <1>2, MachineType
    <3>3. a[2] < Top.slot
      BY <3>2, <1>5, PciAssumption
    <3>. QED BY <3>3 DEF Earlier
  <2>. QED BY <2>1, <1>5 DEF Fits
<1>7. Top.bus \in 0 .. NumBuses - 1
  BY <1>5 DEF Fits, FrameSet
<1>. HIDE DEF found
<1>8. CASE len = 1 /\ Multi(<<0, 0, 0>>) /\ Top.bus < NumBuses - 1
  <2>. DEFINE f == Frame(Top.bus + 1, NoBridge)
  <2>1. frames' = <<f>>
    BY <1>8 DEF EndBus
  <2>2. f \in FrameSet /\ f.bus = Top.bus + 1 /\ f.slot = 0 /\ f.func = 0 /\ f.parent = NoBridge
    BY <1>7, <1>8, PciAssumption DEF Frame, FrameSet, Ups
  <2>. HIDE DEF f
  <2>3. f.bus \in HostBuses /\ f.bus \in Reach
    BY <2>2, <1>2, <1>7, <1>8, ReachClosed, PciAssumption DEF HostBuses
  <2>4. Earlier(f) \subseteq Done
    BY <2>2, <1>2, MachineType, PciAssumption DEF Earlier, Visible
  <2>5. Fits(f, found, Done)
    BY <2>2, <2>3, <2>4, PciAssumption DEF Fits, LedTo
  <2>6. frames' \in Seq(FrameSet) /\ Len(frames') = 1 /\ frames'[1] = f /\ frames' # <<>>
    BY <2>1, <2>2
  <2>7. FramesFit(frames', found, Done)
    BY <2>5, <2>6 DEF FramesFit
  <2>8. ASSUME NEW b \in HostsEntered(frames') \cup Seconds(found) PROVE Covered(b, frames', Done)
    <3>1. b = f.bus \/ b \in HostsEntered(frames) \cup Seconds(found)
      BY <2>2, <2>6, <1>4, <1>5, <1>7, <1>8 DEF HostsEntered
    <3>2. CASE b = f.bus
      BY <3>2, <2>6 DEF Covered
    <3>3. CASE b \in HostsEntered(frames) \cup Seconds(found)
      <4>1. Covered(b, frames, Done)
        BY <3>3, <1>3 DEF AllCovered
      <4>2. Visible(b) \subseteq Done
        BY <4>1, <1>5, <1>6, <1>8 DEF Covered
      <4>. QED BY <4>2 DEF Covered
    <3>. QED BY <3>1, <3>2, <3>3
  <2>9. AllCovered(frames', found, Done)
    BY <2>8 DEF AllCovered
  <2>. QED BY <2>7, <2>9, <1>1, <1>2, <1>3, ScanNext DEF ScanFits
<1>9. CASE ~ (len = 1 /\ Multi(<<0, 0, 0>>) /\ Top.bus < NumBuses - 1)
  <2>1. frames' = Tail(frames)
    BY <1>9 DEF EndBus
  <2>2. /\ frames' \in Seq(FrameSet) /\ Len(frames') = len - 1
        /\ \A i \in 1 .. Len(frames') : frames'[i] = frames[i + 1]
    BY <2>1, <1>4, HeadTailProperties
  <2>3. FramesFit(frames', found, Done)
    <3>1. \A i \in 1 .. Len(frames') : i + 1 \in 1 .. len
      BY <2>2, <1>4
    <3>. QED BY <3>1, <2>2, <1>3 DEF FramesFit
  <2>4. HostsEntered(frames') \subseteq HostsEntered(frames)
    <3>1. CASE len = 1
      <4>1. frames' = <<>>
        BY <3>1, <2>2, EmptySeq
      <4>2. HostBuses \subseteq 0 .. Top.bus
        BY <3>1, <1>7, <1>9, PciAssumption DEF HostBuses
      <4>. QED BY <4>1, <4>2, <3>1, <1>4, <1>5 DEF HostsEntered
    <3>2. CASE len # 1
      <4>1. len - 1 \in 1 .. Len(frames') /\ (len - 1) + 1 = len /\ frames' # <<>>
        BY <3>2, <2>2, <1>4, EmptySeq
      <4>2. frames'[Len(frames')] = frames[len]
        BY <4>1, <2>2
      <4>. QED BY <4>1, <4>2, <1>4 DEF HostsEntered
    <3>. QED BY <3>1, <3>2
  <2>5. ASSUME NEW b \in HostsEntered(frames) \cup Seconds(found) PROVE Covered(b, frames', Done)
    <3>1. Covered(b, frames, Done)
      BY <1>3 DEF AllCovered
    <3>2. ASSUME NEW i \in 1 .. len, frames[i].bus = b PROVE Covered(b, frames', Done)
      <4>1. CASE i = 1
        BY <4>1, <3>2, <1>5, <1>6 DEF Covered
      <4>2. CASE i # 1
        <5>1. i - 1 \in 1 .. Len(frames') /\ (i - 1) + 1 = i
          BY <4>2, <2>2, <1>4
        <5>2. frames'[i - 1].bus = b
          BY <5>1, <3>2, <2>2
        <5>. QED BY <5>1, <5>2 DEF Covered
      <4>. QED BY <4>1, <4>2
    <3>. QED BY <3>1, <3>2 DEF Covered
  <2>6. AllCovered(frames', found, Done)
    BY <2>4, <2>5 DEF AllCovered
  <2>. QED BY <2>3, <2>6, <1>1, <1>2, <1>3, ScanNext DEF ScanFits
<1>. QED BY <1>8, <1>9

LEMMA ScanInit ==
  ASSUME PciInit
  PROVE  ScanInv
<1>. DEFINE f == Frame(0, NoBridge)
<1>1. machine \in Machines /\ frames = <<f>> /\ pci_devs = <<>> /\ starved = {}
  BY DEF PciInit
<1>2. f \in FrameSet /\ f.bus = 0 /\ f.slot = 0 /\ f.func = 0 /\ f.parent = NoBridge
  BY PciAssumption DEF Frame, FrameSet, Ups
<1>. HIDE DEF f
<1>3. FoundOf(pci_devs) = {}
  BY <1>1 DEF FoundOf
<1>4. DevicesFit(pci_devs)
  BY <1>1, <1>3, FS_EmptySet DEF DevicesFit
<1>5. 0 \in HostBuses /\ 0 \in Reach
  BY <1>1, ReachClosed, PciAssumption DEF HostBuses
<1>6. Earlier(f) \subseteq Done
  BY <1>1, <1>2, MachineType, PciAssumption DEF Earlier, Visible
<1>7. Fits(f, {}, Done)
  BY <1>2, <1>5, <1>6, PciAssumption DEF Fits, LedTo
<1>8. frames \in Seq(FrameSet) /\ Len(frames) = 1 /\ frames[1] = f /\ frames # <<>>
  BY <1>1, <1>2
<1>9. FramesFit(frames, {}, Done)
  BY <1>7, <1>8 DEF FramesFit
<1>10. AllCovered(frames, {}, Done)
  BY <1>2, <1>8 DEF AllCovered, HostsEntered, Seconds, Covered
<1>. QED BY <1>1, <1>3, <1>4, <1>9, <1>10 DEF ScanInv, ScanFits

(* Every call of pci_probe_bus in progress has found what it has passed,   *)
(* and every bus it was called for is being scanned or all found.          *)
THEOREM ScanInvariant == Spec => []ScanInv
<1>1. Init => ScanInv
  BY ScanInit DEF Init
<1>2. ScanInv /\ [Next]_vars => ScanInv'
  <2>. SUFFICES ASSUME ScanInv, [Next]_vars PROVE ScanInv'
    OBVIOUS
  <2>1. CASE Scan
    BY <2>1, SkipStep, AddStep, NoMemoryStep, EndBusStep DEF Scan
  <2>2. CASE UNCHANGED pvars
    <3>1. UNCHANGED <<machine, frames, pci_devs, starved>> /\ Done' = Done
      BY <2>2 DEF pvars, Done, Found
    <3>. QED BY <3>1, ScanNext DEF ScanInv
  <2>. QED BY <2>1, <2>2 DEF Next, vars, PciStep, Attach, DriverStep, DeviceStep, ReadStep
<1>. QED BY <1>1, <1>2, PTL DEF Spec

(* pci_init lists each function that a bridge leads to exactly once and    *)
(* with that bridge, in whatever order bridges lead to one another, unless *)
(* memory ran out.                                                         *)
THEOREM FoundOnce == Spec => []AllFoundOnce
<1>1. ScanInv => AllFoundOnce
  <2>. SUFFICES ASSUME ScanInv, Scanned PROVE AllFoundOnce
    BY DEF AllFoundOnce
  <2>1. /\ Found = FoundOf(pci_devs) /\ DevicesFit(pci_devs) /\ machine \in Machines
        /\ AllCovered(<<>>, Found, Done)
    BY FoundIs DEF ScanInv, ScanFits, Scanned
  <2>2. pci_devs \in Seq(DeviceSet) /\ DOMAIN pci_devs = 1 .. Len(pci_devs)
    BY <2>1 DEF DevicesFit
  <2>3. ASSUME NEW i \in DOMAIN pci_devs
        PROVE  /\ pci_devs[i].addr \in Found
               /\ pci_devs[i].addr \in Visible(pci_devs[i].addr[1])
               /\ pci_devs[i].addr[1] \in Reach
               /\ LedTo(pci_devs[i].addr[1], pci_devs[i].parent, Found)
    BY <2>1, <2>2 DEF DevicesFit, FoundOf
  <2>4. Found \subseteq Reachable
    BY <2>1, <2>2, <2>3 DEF FoundOf, Reachable, Reach
  <2>5. ASSUME starved = {} PROVE Reachable \subseteq Found
    <3>. DEFINE B == {b \in 0 .. NumBuses - 1 : Visible(b) \subseteq Found}
    <3>1. ASSUME NEW b \in HostBuses \cup Seconds(Found) PROVE Visible(b) \subseteq Found
      <4>1. Covered(b, <<>>, Done)
        BY <2>1 DEF AllCovered, HostsEntered
      <4>2. Len(<<>>) = 0 /\ Done = Found
        BY <2>5 DEF Done
      <4>. QED BY <4>1, <4>2 DEF Covered
    <3>2. HostBuses \subseteq B
      BY <3>1, PciAssumption DEF HostBuses
    <3>3. ASSUME NEW b \in Behind(B) PROVE b \in B
      <4>1. PICK a \in UNION {Visible(bus) : bus \in B} :
                machine[a].class = "bridge" /\ b = machine[a].second
        BY <3>3 DEF Behind
      <4>2. a \in Found
        BY <4>1
      <4>3. b \in Seconds(Found)
        BY <4>1, <4>2 DEF Seconds
      <4>4. b \in 0 .. NumBuses - 1
        BY <3>3, <2>1, BehindBuses
      <4>. QED BY <3>1, <4>3, <4>4
    <3>4. Reach \subseteq B
      <4>. HIDE DEF B
      <4>. QED BY <3>2, <3>3, ReachLeast
    <3>. QED BY <3>4 DEF Reachable, Reach
  <2>6. Cardinality(Found) = Len(pci_devs)
    BY <2>1 DEF DevicesFit
  <2>7. ASSUME NEW i \in DOMAIN pci_devs
        PROVE  LET bus == pci_devs[i].addr[1]
                   up  == pci_devs[i].parent
               IN  IF up = NoBridge THEN bus \in HostBuses
                   ELSE up \in Found /\ machine[up].second = bus
    <3>1. ASSUME NEW a \in Found PROVE a # NoBridge
      <4>0. PICK j \in 1 .. Len(pci_devs) : a = pci_devs[j].addr
        BY <2>1 DEF FoundOf
      <4>1. pci_devs[j] \in DeviceSet
        BY <2>2, ElementOfSeq
      <4>2. a \in Addresses
        BY <4>0, <4>1 DEF DeviceSet
      <4>3. PICK x \in 0 .. NumBuses - 1, y \in 0 .. NumSlots - 1, z \in 0 .. NumFuncs - 1 :
                a = <<x, y, z>>
        BY <4>2 DEF Addresses
      <4>. QED BY <4>3 DEF NoBridge
    <3>. QED BY <3>1, <2>3 DEF LedTo
  <2>. QED BY <2>4, <2>5, <2>6, <2>7 DEF AllFoundOnce
<1>. QED BY <1>1, ScanInvariant, PTL

-----------------------------------------------------------------------------
(* The driver: the invariant                                               *)

(* ahci_send_command is at work on a table of its own.                     *)
Sending == pc \in {"issue", "poll", "destroy"}

Calling == pc \notin {"probe", "port", "idle"}

(* The ports are no longer probed.                                         *)
Probed == pc = "idle" \/ kind = "read"

Tables == {"none", "header", "table"} \X Int \X Int

DriverType ==
  /\ drive \in [Ports -> Kinds]
  /\ ci \in [Ports -> SUBSET Slots]
  /\ tfes \in [Ports -> BOOLEAN]
  /\ ctba \in [Ports -> [Slots -> Tables]]
  /\ pc \in {"probe", "port", "idle", "prepare", "issue", "poll", "destroy", "sent",
             "identified", "release", "leave"}
  /\ port \in 0 .. NumPorts
  /\ slot \in Slots /\ idslot \in Slots
  /\ kind \in {"identify", "capacity", "read"}
  /\ sensing \in BOOLEAN /\ ret \in BOOLEAN /\ first \in BOOLEAN
  /\ bdevs \in SUBSET Ports
  /\ sent \in [Ports -> Nat]
  /\ answer \in {"none", "pending", "ok", "error"}
  /\ filled \in BOOLEAN

(* Where the program can be with which command, and on which drive.        *)
Phase ==
  /\ Calling => port \in Ports
  /\ pc \in {"probe", "port", "identified", "release", "leave"} => kind = "identify"
  /\ pc \in {"destroy", "sent"} => kind # "identify"
  /\ kind = "capacity" => Calling /\ drive[port] = "atapi"
  /\ kind = "read" /\ pc # "idle" => drive[port] = "atapi"

(* At most the command that is polled runs.                                *)
OneCommand ==
  \A p \in Ports : Running(p) \subseteq (IF p = port /\ pc = "poll" THEN {slot} ELSE {})

(* While the ports are probed, the later ones have no command and no disk. *)
NotYet ==
  ~ Probed =>
    /\ \A p \in Ports : p > port => sent[p] = 0 /\ p \notin bdevs
    /\ pc \in {"probe", "port"} /\ port \in Ports => sent[port] = 0
    /\ pc = "prepare" /\ kind = "identify" => sent[port] = 0
    /\ pc \in {"issue", "poll", "identified"} /\ kind = "identify" => sent[port] = 1
    /\ port \in bdevs => pc \in {"release", "leave"} /\ ret

(* The slot of the command has the newest table, which lives; that of the  *)
(* identification of a drive other than ATAPI lives until it is released.  *)
Current ==
  /\ Sending =>
       ctba[port][slot] = Table(port, sent[port]) /\ Table(port, sent[port]) \in heap
  /\ pc \in {"issue", "poll", "identified"} /\ kind = "identify" => idslot = slot
  /\ pc = "identified" \/ (pc = "release" /\ drive[port] # "atapi") =>
       /\ sent[port] = 1
       /\ ctba[port][idslot] = Table(port, 1) /\ Table(port, 1) \in heap

(* No other table lives but the first one of an ATAPI drive.               *)
LiveTables ==
  \A p \in Ports : \A n \in Int : Table(p, n) \in heap =>
    /\ 1 <= n /\ n <= sent[p]
    /\ \/ n = 1 /\ drive[p] = "atapi"
       \/ /\ p = port /\ n = sent[p]
          /\ Sending \/ pc = "identified" \/ (pc = "release" /\ drive[p] # "atapi")

(* What the disk that is being identified will point to.                   *)
DiskParts ==
  /\ Calling /\ kind # "read" /\ pc # "leave" =>
       {<<x, port, 0>> : x \in {"dev", "clb", "fb"}} \subseteq heap
  /\ kind = "capacity" => {<<x, port, 0>> : x \in {"bdev", "name"}} \subseteq heap

TwiceAtapi ==
  twice \subseteq {<<"identify", p>> : p \in {q \in Ports : drive[q] = "atapi"}}

(* What the program knows of the read it is in.                            *)
Reading ==
  /\ kind # "read" => answer = "none" /\ ~ filled
  /\ kind = "read" => answer # "none" /\ (answer = "pending" <=> pc # "idle")
  /\ kind = "read" /\ ~ sensing =>
       /\ pc = "poll" /\ slot \notin ci[port] => filled
       /\ pc \in {"destroy", "sent"} /\ ret => filled
  /\ kind = "read" /\ sensing /\ first /\ pc # "idle" => filled

Control == DriverType /\ Phase

DriverInv ==
  /\ Control /\ OneCommand /\ NotYet /\ Current /\ LiveTables
  /\ DiskParts /\ RegisteredLive /\ TwiceAtapi /\ Reading

DriverNext ==
  \/ \E found, master \in BOOLEAN : Begin(found, master)
  \/ Drive \/ Controller \/ Read \/ ReadSata

-----------------------------------------------------------------------------
(* The driver: each part of the invariant, action by action                *)

(* ahci_find_slot finds a slot when one is free.                           *)
LEMMA FirstSlot ==
  ASSUME NEW S, S \subseteq Slots, S # {}
  PROVE  (CHOOSE s \in S : \A o \in S : s <= o) \in S
<1>1. S \subseteq Nat
  BY AhciAssumption DEF Slots
<1>2. \E s \in S : \A o \in S : s <= o
  BY <1>1, LeastNat
<1>. QED BY <1>2

LEMMA PrepareSlot ==
  ASSUME DriverType, Prepare
  PROVE  slot' \in Slots /\ slot' \notin ci[port]
<1>1. FreeSlots # {} /\ slot' = CHOOSE s \in FreeSlots : \A o \in FreeSlots : s <= o
  BY DEF Prepare
<1>2. slot' \in FreeSlots
  BY <1>1, FirstSlot, FreeSlots \subseteq Slots DEF FreeSlots
<1>. QED BY <1>2 DEF FreeSlots

(* Each step keeps the types and the phases.                               *)
LEMMA ControlStep ==
  ASSUME Control, DriverNext
  PROVE  Control'
<1>. USE AhciAssumption DEF Control, DriverType, Phase, Calling, Goto, hba, call, client
<1>1. ASSUME NEW found \in BOOLEAN, NEW master \in BOOLEAN, Begin(found, master)
      PROVE  Control'
  BY <1>1 DEF Begin, Ports
<1>2. CASE NoDevice
  BY <1>2 DEF NoDevice, Ports
<1>3. CASE AllPorts
  BY <1>3 DEF AllPorts, Ports
<1>4. CASE PortFails
  BY <1>4 DEF PortFails, Ports
<1>5. CASE PortReady
  <2>1. port \in Ports
    BY <1>5 DEF PortReady, Ports
  <2>2. [s \in Slots |-> <<"header", port, s>>] \in [Slots -> Tables]
    BY DEF Tables, Slots
  <2>3. ctba' \in [Ports -> [Slots -> Tables]]
    BY <2>1, <2>2, <1>5 DEF PortReady
  <2>. QED BY <2>1, <2>3, <1>5 DEF PortReady
<1>6. CASE Prepare
  <2>1. slot' \in Slots /\ port \in Ports
    BY <1>6, PrepareSlot DEF Prepare
  <2>2. port \in Int /\ sent[port] + 1 \in Int
    BY <2>1 DEF Ports
  <2>3. Table(port, sent[port] + 1) \in Tables
    BY <2>2 DEF Table, Tables
  <2>4. ctba' \in [Ports -> [Slots -> Tables]] /\ sent' \in [Ports -> Nat]
    BY <2>1, <2>3, <1>6 DEF Prepare
  <2>. QED BY <2>1, <2>4, <1>6 DEF Prepare
<1>7. CASE PrepareFails
  BY <1>7 DEF PrepareFails
<1>8. CASE Issue
  BY <1>8 DEF Issue
<1>9. CASE Idle
  BY <1>9 DEF Idle, NoError
<1>10. CASE Destroy
  BY <1>10 DEF Destroy, Free
<1>11. CASE Sense
  BY <1>11 DEF Sense
<1>12. CASE FillSata
  BY <1>12 DEF FillSata, Register
<1>13. CASE FillSatapi
  BY <1>13 DEF FillSatapi
<1>14. CASE Capacity
  BY <1>14 DEF Capacity, Register
<1>15. CASE Release
  BY <1>15 DEF Release, Free
<1>16. CASE Leave
  BY <1>16 DEF Leave, Ports
<1>17. CASE ReadDone
  BY <1>17 DEF ReadDone
<1>18. CASE Complete
  BY <1>18 DEF Complete
<1>19. CASE Fail
  BY <1>19 DEF Fail
<1>20. CASE Read
  <2>1. port' \in Ports /\ drive[port'] = "atapi"
    BY <1>20 DEF Read
  <2>2. port' \in 0 .. NumPorts
    BY <2>1 DEF Ports
  <2>. QED BY <2>1, <2>2, <1>20 DEF Read
<1>21. CASE ReadSata
  <2>1. port' \in Ports /\ drive[port'] = "ata"
    BY <1>21 DEF ReadSata
  <2>2. port' \in 0 .. NumPorts
    BY <2>1 DEF Ports
  <2>. QED BY <2>1, <2>2, <1>21 DEF ReadSata
<1>. QED BY <1>1, <1>2, <1>3, <1>4, <1>5, <1>6, <1>7, <1>8, <1>9, <1>10, <1>11,
            <1>12, <1>13, <1>14, <1>15, <1>16, <1>17, <1>18, <1>19, <1>20, <1>21
         DEF DriverNext, Drive, Controller

(* A command starts when none runs, and the program waits for its end.     *)
LEMMA OneCommandStep ==
  ASSUME Control, OneCommand, DriverNext
  PROVE  OneCommand'
<1>. USE DEF Control, DriverType, Phase, OneCommand, Running, Goto, Calling, hba, call, client
<1>1. CASE pc # "poll" /\ UNCHANGED <<ci, tfes>>
  BY <1>1
<1>2. CASE Issue
  BY <1>2 DEF Issue
<1>3. CASE Idle
  BY <1>3 DEF Idle, Answered
<1>4. CASE Complete
  BY <1>4 DEF Complete
<1>5. CASE Fail
  BY <1>5 DEF Fail
<1>6. CASE \/ \E found, master \in BOOLEAN : Begin(found, master)
          \/ NoDevice \/ AllPorts \/ PortFails \/ PortReady \/ Prepare \/ PrepareFails
  <2>1. pc # "poll" /\ UNCHANGED <<ci, tfes>>
    BY <1>6 DEF Begin, NoDevice, AllPorts, PortFails, PortReady, Prepare, PrepareFails
  <2>. QED BY <2>1, <1>1
<1>7. CASE Destroy \/ Sense \/ FillSata \/ FillSatapi \/ Capacity \/ Release \/ Leave
  <2>1. pc # "poll" /\ UNCHANGED <<ci, tfes>>
    BY <1>7 DEF Destroy, Sense, FillSata, FillSatapi, Capacity, Release, Leave
  <2>. QED BY <2>1, <1>1
<1>8. CASE ReadDone \/ Read \/ ReadSata
  <2>1. pc # "poll" /\ UNCHANGED <<ci, tfes>>
    BY <1>8 DEF ReadDone, Read, ReadSata
  <2>. QED BY <2>1, <1>1
<1>. QED BY <1>2, <1>3, <1>4, <1>5, <1>6, <1>7, <1>8 DEF DriverNext, Drive, Controller

(* The ports are probed in order, each with one identification.            *)
LEMMA NotYetStep ==
  ASSUME Control, NotYet, DriverNext
  PROVE  NotYet'
<1>. USE AhciAssumption DEF Control, DriverType, Phase, NotYet, Probed, Goto, Calling, Ports,
         hba, call, client
<1>1. ASSUME NEW found \in BOOLEAN, NEW master \in BOOLEAN, Begin(found, master)
      PROVE  NotYet'
  BY <1>1 DEF Begin
<1>2. CASE NoDevice
  BY <1>2 DEF NoDevice
<1>3. CASE AllPorts
  BY <1>3 DEF AllPorts
<1>4. CASE PortFails
  BY <1>4 DEF PortFails
<1>5. CASE PortReady
  BY <1>5 DEF PortReady
<1>6. CASE Prepare
  BY <1>6 DEF Prepare
<1>7. CASE PrepareFails
  BY <1>7 DEF PrepareFails
<1>8. CASE Issue
  BY <1>8 DEF Issue
<1>9. CASE Idle
  BY <1>9 DEF Idle
<1>10. CASE Destroy \/ Sense
  BY <1>10 DEF Destroy, Sense
<1>11. CASE FillSata
  BY <1>11 DEF FillSata, Register
<1>12. CASE FillSatapi
  BY <1>12 DEF FillSatapi
<1>13. CASE Capacity
  BY <1>13 DEF Capacity, Register
<1>14. CASE Release
  BY <1>14 DEF Release
<1>15. CASE Leave
  BY <1>15 DEF Leave
<1>16. CASE ReadDone \/ Read \/ ReadSata
  BY <1>16 DEF ReadDone, Read, ReadSata
<1>17. CASE Complete \/ Fail
  BY <1>17 DEF Complete, Fail
<1>. QED BY <1>1, <1>2, <1>3, <1>4, <1>5, <1>6, <1>7, <1>8, <1>9, <1>10, <1>11,
            <1>12, <1>13, <1>14, <1>15, <1>16, <1>17
         DEF DriverNext, Drive, Controller

(* The table of a command is written to its slot, and nothing else writes  *)
(* there before the table is freed.                                        *)
LEMMA CurrentStep ==
  ASSUME Control, NotYet, Current, LiveTables, DriverNext
  PROVE  Current'
<1>. USE AhciAssumption DEF Control, DriverType, Phase, Current, Sending, Goto, Calling, hba,
         call, client
<1>1. ASSUME NEW found \in BOOLEAN, NEW master \in BOOLEAN, Begin(found, master)
      PROVE  Current'
  BY <1>1 DEF Begin
<1>2. CASE NoDevice \/ AllPorts \/ PortFails \/ PortReady
  BY <1>2 DEF NoDevice, AllPorts, PortFails, PortReady
<1>3. CASE Prepare
  <2>1. slot' \in Slots /\ port \in Ports
    BY <1>3, PrepareSlot DEF Prepare
  <2>2. /\ ctba'[port][slot'] = Table(port, sent[port] + 1)
        /\ sent'[port] = sent[port] + 1 /\ port' = port
        /\ Table(port, sent[port] + 1) \in heap'
    BY <2>1, <1>3 DEF Prepare
  <2>3. kind' = "identify" => idslot' = slot'
    BY <1>3 DEF Prepare
  <2>. QED BY <2>2, <2>3, <1>3 DEF Prepare
<1>4. CASE PrepareFails
  BY <1>4 DEF PrepareFails
<1>5. CASE Issue
  BY <1>5 DEF Issue
<1>6. CASE Idle
  <2>1. kind = "identify" => sent[port] = 1
    BY <1>6 DEF Idle, NotYet, Probed
  <2>. QED BY <2>1, <1>6 DEF Idle
<1>7. CASE Destroy \/ Sense
  BY <1>7 DEF Destroy, Sense
<1>8. CASE FillSata
  <2>1. heap \subseteq heap'
    BY <1>8 DEF FillSata
  <2>. QED BY <2>1, <1>8 DEF FillSata
<1>9. CASE FillSatapi
  BY <1>9 DEF FillSatapi
<1>10. CASE Capacity
  BY <1>10 DEF Capacity
<1>11. CASE Release \/ Leave
  BY <1>11 DEF Release, Leave
<1>12. CASE ReadDone \/ Read \/ ReadSata
  BY <1>12 DEF ReadDone, Read, ReadSata
<1>13. CASE Complete \/ Fail
  BY <1>13 DEF Complete, Fail
<1>. QED BY <1>1, <1>2, <1>3, <1>4, <1>5, <1>6, <1>7, <1>8, <1>9, <1>10, <1>11,
            <1>12, <1>13
         DEF DriverNext, Drive, Controller

(* A command table is none of the blocks of a disk.                        *)
LEMMA TableNotPart ==
  ASSUME NEW p, NEW n
  PROVE  /\ Table(p, n) \notin Bdev
         /\ Table(p, n) # Own("bdev") /\ Table(p, n) # Own("name") /\ Table(p, n) # Own("node")
<1>. QED BY DEF Table, Own, Bdev

(* The steps that add a table, free one, or let go of one.                 *)
LEMMA LiveTablesStep ==
  ASSUME Control, NotYet, Current, LiveTables, DriverNext
  PROVE  LiveTables'
<1>. DEFINE Mine == Sending \/ pc = "identified"
                    \/ (pc = "release" /\ drive[port] # "atapi")
<1>. USE AhciAssumption DEF Control, DriverType, Phase, LiveTables, Sending, Goto, Calling,
         hba, call, client
<1>1. CASE /\ UNCHANGED <<drive, sent>>
           /\ \A p \in Ports : \A n \in Int : Table(p, n) \in heap' => Table(p, n) \in heap
           /\ ~ Mine \/ (Mine' /\ UNCHANGED port)
  BY <1>1
<1>2. CASE \E found, master \in BOOLEAN : Begin(found, master)
  BY <1>2, <1>1 DEF Begin
<1>3. CASE NoDevice \/ AllPorts
  BY <1>3, <1>1 DEF NoDevice, AllPorts
<1>4. CASE PortFails \/ PortReady
  <2>1. \A p \in Ports : \A n \in Int : Table(p, n) \in heap' => Table(p, n) \in heap
    BY <1>4 DEF PortFails, PortReady, Table, Headers, Own
  <2>2. ~ Mine /\ UNCHANGED <<drive, sent>>
    BY <1>4 DEF PortFails, PortReady
  <2>. QED BY <1>1, <2>1, <2>2
<1>5. CASE Prepare
  <2>1. port \in Ports /\ ~ Mine /\ Sending' /\ UNCHANGED <<drive, port>>
    BY <1>5 DEF Prepare
  <2>2. sent' = [sent EXCEPT ![port] = @ + 1]
    BY <1>5 DEF Prepare
  <2>3. sent'[port] = sent[port] + 1 /\ sent[port] \in Nat
    BY <2>1, <2>2
  <2>4. ASSUME NEW p \in Ports, NEW n \in Int, Table(p, n) \in heap'
        PROVE  Table(p, n) \in heap \/ (p = port /\ n = sent[port] + 1)
    BY <2>4, <1>5 DEF Prepare, Table
  <2>5. \A p \in Ports : sent[p] \in Nat /\ sent[p] <= sent'[p]
    BY <2>2
  <2>6. ASSUME NEW p \in Ports, NEW n \in Int, Table(p, n) \in heap
        PROVE  1 <= n /\ n <= sent[p] /\ n = 1 /\ drive[p] = "atapi"
    BY <2>6, <2>1
  <2>7. ASSUME NEW p \in Ports, NEW n \in Int, Table(p, n) \in heap'
        PROVE  /\ 1 <= n /\ n <= sent'[p]
               /\ (n = 1 /\ drive[p] = "atapi") \/ (p = port /\ n = sent'[port])
    <3>1. CASE Table(p, n) \in heap
      <4>1. 1 <= n /\ n <= sent[p] /\ n = 1 /\ drive[p] = "atapi"
        BY <3>1, <2>6
      <4>2. sent[p] \in Nat /\ sent[p] <= sent'[p] /\ sent'[p] \in Nat
        BY <2>2, <2>5
      <4>. QED BY <4>1, <4>2
    <3>2. CASE p = port /\ n = sent[port] + 1
      BY <3>2, <2>3
    <3>. QED BY <2>4, <2>7, <3>1, <3>2
  <2>. QED BY <2>1, <2>7
<1>6. CASE PrepareFails \/ Issue
  BY <1>6, <1>1 DEF PrepareFails, Issue
<1>7. CASE Idle
  BY <1>7, <1>1 DEF Idle
<1>8. CASE Destroy
  <2>1. heap' = heap \ {Table(port, sent[port])} /\ UNCHANGED <<drive, sent>>
    BY <1>8 DEF Destroy, Free, Current
  <2>. QED BY <2>1
<1>9. CASE Sense \/ ReadDone \/ Read \/ ReadSata
  BY <1>9, <1>1 DEF Sense, ReadDone, Read, ReadSata
<1>10. CASE FillSata
  <2>1. \A p \in Ports : \A n \in Int : Table(p, n) \in heap' => Table(p, n) \in heap
    BY <1>10, TableNotPart DEF FillSata
  <2>2. sent[port] = 1 /\ UNCHANGED <<drive, sent, port>> /\ pc' = "release"
    BY <1>10 DEF FillSata, Current
  <2>. QED BY <2>1, <2>2
<1>11. CASE FillSatapi
  <2>0. heap' \subseteq heap \cup {Own("bdev"), Own("name"), Own("node")}
    BY <1>11 DEF FillSatapi
  <2>1. \A p \in Ports : \A n \in Int : Table(p, n) \in heap' => Table(p, n) \in heap
    BY <2>0, TableNotPart, Zenon
  <2>2. sent[port] = 1 /\ drive[port] = "atapi" /\ UNCHANGED <<drive, sent, port>>
    BY <1>11 DEF FillSatapi, Current
  <2>. QED BY <2>1, <2>2
<1>12. CASE Capacity
  <2>0. heap' \subseteq heap \cup {Own("bdev"), Own("name"), Own("node")}
    BY <1>12 DEF Capacity
  <2>1. \A p \in Ports : \A n \in Int : Table(p, n) \in heap' => Table(p, n) \in heap
    BY <2>0, TableNotPart, Zenon
  <2>2. ~ Mine /\ UNCHANGED <<drive, sent>>
    BY <1>12 DEF Capacity
  <2>. QED BY <1>1, <2>1, <2>2
<1>13. CASE Release
  <2>1. heap' = heap \ {ctba[port][idslot]} /\ UNCHANGED <<drive, sent>>
    BY <1>13 DEF Release, Free
  <2>2. CASE drive[port] = "atapi"
    BY <2>1, <2>2, <1>1, <1>13 DEF Release
  <2>3. CASE drive[port] # "atapi"
    <3>1. ctba[port][idslot] = Table(port, sent[port])
      BY <2>3, <1>13 DEF Release, Current
    <3>. QED BY <2>1, <3>1
  <2>. QED BY <2>2, <2>3
<1>14. CASE Leave
  BY <1>14, <1>1 DEF Leave
<1>15. CASE Complete \/ Fail
  BY <1>15, <1>1 DEF Complete, Fail
<1>. QED BY <1>2, <1>3, <1>4, <1>5, <1>6, <1>7, <1>8, <1>9, <1>10, <1>11,
            <1>12, <1>13, <1>14, <1>15
         DEF DriverNext, Drive, Controller

(* What is freed as a table is no block of a disk.                         *)
LEMMA PartNotTable ==
  ASSUME NEW x \in {"dev", "bdev", "name", "node", "clb", "fb"}, NEW p, NEW t \in Tables
  PROVE  <<x, p, 0>> # t
<1>1. t[1] \in {"none", "header", "table"}
  BY DEF Tables
<1>2. <<x, p, 0>>[1] = x
  OBVIOUS
<1>. QED BY <1>1, <1>2

(* A block of a disk lives until ahci_fill_satapi gives up the block device*)
(* or ahci_init_port gives up the device, at the port it is probing.       *)
LEMMA PartsKept ==
  ASSUME Control, DriverNext
  PROVE  \A p : \A x \in {"dev", "bdev", "name", "node", "clb", "fb"} :
           <<x, p, 0>> \in heap =>
             \/ <<x, p, 0>> \in heap'
             \/ p = port /\ x = "bdev" /\ Capacity /\ ret' = FALSE
             \/ p = port /\ x = "dev" /\ Leave /\ ret = FALSE
<1>. USE DEF hba, call, client
<1>1. CASE heap \subseteq heap'
  BY <1>1
<1>2. CASE \E t \in Tables : heap' = heap \ {t}
  BY <1>2, PartNotTable
<1>3. CASE \E found, master \in BOOLEAN : Begin(found, master)
  BY <1>3, <1>1 DEF Begin
<1>4. CASE NoDevice \/ AllPorts \/ PortFails \/ PortReady \/ Prepare \/ PrepareFails
  BY <1>4, <1>1 DEF NoDevice, AllPorts, PortFails, PortReady, Prepare, PrepareFails
<1>5. CASE Issue \/ Idle \/ Sense \/ FillSatapi \/ ReadDone \/ Read \/ ReadSata
  BY <1>5, <1>1 DEF Issue, Idle, Sense, FillSatapi, ReadDone, Read, ReadSata
<1>6. CASE FillSata
  BY <1>6, <1>1 DEF FillSata
<1>7. CASE Destroy \/ Release
  <2>1. port \in Ports /\ ctba[port][slot] \in Tables /\ ctba[port][idslot] \in Tables
    BY <1>7 DEF Destroy, Release, Control, DriverType, Phase, Goto, Calling
  <2>. QED BY <2>1, <1>7, <1>2 DEF Destroy, Release, Free
<1>8. CASE Capacity
  <2>1. CASE heap' = heap \cup {Own("node")} \/ heap' = heap
    BY <2>1, <1>1
  <2>2. CASE heap' = heap \ {Own("bdev")} /\ ret' = FALSE
    BY <2>2, <1>8 DEF Own
  <2>. QED BY <2>1, <2>2, <1>8 DEF Capacity
<1>9. CASE Leave
  <2>1. heap' = heap \ ({Own("ident")} \cup (IF ret THEN {} ELSE {Own("dev")}))
    BY <1>9 DEF Leave
  <2>2. ret \in BOOLEAN
    BY DEF Control, DriverType
  <2>. QED BY <2>1, <2>2, <1>9 DEF Own
<1>10. CASE Complete \/ Fail
  BY <1>10, <1>1 DEF Complete, Fail
<1>. QED BY <1>3, <1>4, <1>5, <1>6, <1>7, <1>8, <1>9, <1>10 DEF DriverNext, Drive, Controller

(* The parts of the disk being identified: they are there from the         *)
(* allocation of the port on.                                              *)
LEMMA DiskPartsStep ==
  ASSUME Control, DiskParts, DriverNext
  PROVE  DiskParts'
<1>. USE DEF Goto, Calling, hba, call, client
<1>1. CASE /\ UNCHANGED port
           /\ (Calling /\ kind # "read" /\ pc # "leave")'
              => Calling /\ kind # "read" /\ pc \notin {"leave", "sent"}
           /\ kind' = "capacity" => kind = "capacity" /\ Calling
  <2>1. ~ Leave \/ ~ (Calling /\ kind # "read" /\ pc # "leave")'
    BY <1>1 DEF Leave
  <2>2. ~ Capacity \/ (~ (Calling /\ kind # "read" /\ pc # "leave")' /\ kind' # "capacity")
    BY <1>1 DEF Capacity
  <2>3. ~ Leave \/ kind' # "capacity"
    BY <1>1 DEF Leave, Control, Phase
  <2>. QED BY <1>1, <2>1, <2>2, <2>3, PartsKept DEF DiskParts
<1>. USE DEF Control, DriverType, Phase
<1>2. CASE \E found, master \in BOOLEAN : Begin(found, master)
  BY <1>2, <1>1 DEF Begin
<1>3. CASE NoDevice \/ AllPorts \/ PortFails
  BY <1>3 DEF NoDevice, AllPorts, PortFails, DiskParts
<1>4. CASE PortReady
  <2>1. {Own("dev"), Own("clb"), Own("fb")} \subseteq heap' /\ UNCHANGED port
    BY <1>4 DEF PortReady
  <2>. QED BY <2>1, <1>4 DEF PortReady, DiskParts, Own
<1>5. CASE Prepare \/ Issue \/ Idle \/ Destroy \/ Release
  BY <1>5, <1>1 DEF Prepare, Issue, Idle, Destroy, Release
<1>6. CASE PrepareFails \/ Sense
  <2>1. UNCHANGED <<heap, port, kind>> /\ Calling
    BY <1>6 DEF PrepareFails, Sense
  <2>2. (Calling /\ kind # "read" /\ pc # "leave")' => kind # "read" /\ pc # "leave"
    BY <1>6, <2>1 DEF PrepareFails, Sense
  <2>. QED BY <2>1, <2>2 DEF DiskParts
<1>7. CASE FillSata
  BY <1>7, <1>1 DEF FillSata
<1>8. CASE FillSatapi
  <2>1. UNCHANGED port /\ heap \subseteq heap' /\ pc = "identified" /\ kind = "identify"
    BY <1>8 DEF FillSatapi
  <2>2. kind' = "capacity" => {Own("bdev"), Own("name")} \subseteq heap'
    BY <1>8, <2>1 DEF FillSatapi
  <2>. QED BY <2>1, <2>2 DEF DiskParts, Own
<1>9. CASE Capacity
  <2>1. UNCHANGED port /\ ~ Leave /\ kind = "capacity" /\ kind' = "identify" /\ pc = "sent"
    BY <1>9 DEF Capacity, Leave
  <2>2. {<<x, port, 0>> : x \in {"dev", "clb", "fb"}} \subseteq heap
    BY <2>1 DEF DiskParts
  <2>. QED BY <2>1, <2>2, PartsKept DEF DiskParts
<1>10. CASE Leave
  BY <1>10 DEF Leave, DiskParts
<1>11. CASE ReadDone \/ Read \/ ReadSata
  BY <1>11 DEF ReadDone, Read, ReadSata, DiskParts
<1>12. CASE Complete \/ Fail
  <2>1. UNCHANGED <<heap, port, kind, pc>>
    BY <1>12 DEF Complete, Fail
  <2>. QED BY <2>1 DEF DiskParts
<1>. QED BY <1>2, <1>3, <1>4, <1>5, <1>6, <1>7, <1>8, <1>9, <1>10, <1>11, <1>12
         DEF DriverNext, Drive, Controller

(* A disk is registered when all its parts are there, and none of them is  *)
(* given up after that.                                                    *)
LEMMA RegisteredStep ==
  ASSUME Control, NotYet, DiskParts, RegisteredLive, DriverNext
  PROVE  RegisteredLive'
<1>. USE DEF hba, call, client, Goto
<1>1. ASSUME NEW p \in bdevs
      PROVE  {<<x, p, 0>> : x \in {"dev", "bdev", "name", "node", "clb", "fb"}} \subseteq heap'
  <2>1. {<<x, p, 0>> : x \in {"dev", "bdev", "name", "node", "clb", "fb"}} \subseteq heap
    BY DEF RegisteredLive
  <2>2. ~ (p = port /\ Capacity)
    BY DEF Capacity, NotYet, Probed, Control, Phase
  <2>3. ~ (p = port /\ Leave /\ ret = FALSE)
    BY DEF Leave, NotYet, Probed, Control, Phase
  <2>. QED BY <2>1, <2>2, <2>3, PartsKept
<1>2. CASE bdevs' \subseteq bdevs
  BY <1>1, <1>2 DEF RegisteredLive
<1>3. CASE \E found, master \in BOOLEAN : Begin(found, master)
  BY <1>3, <1>2 DEF Begin
<1>4. CASE NoDevice \/ AllPorts \/ PortFails \/ PortReady \/ Prepare \/ PrepareFails
  BY <1>4, <1>2 DEF NoDevice, AllPorts, PortFails, PortReady, Prepare, PrepareFails
<1>5. CASE Issue \/ Idle \/ Destroy \/ Sense \/ FillSatapi \/ Release \/ Leave
  BY <1>5, <1>2 DEF Issue, Idle, Destroy, Sense, FillSatapi, Release, Leave
<1>6. CASE ReadDone \/ Read \/ ReadSata \/ Complete \/ Fail
  BY <1>6, <1>2 DEF ReadDone, Read, ReadSata, Complete, Fail
<1>7. CASE FillSata
  <2>1. CASE bdevs' = bdevs \cup {port} /\ heap' = heap \cup Bdev
    <3>1. {<<x, port, 0>> : x \in {"dev", "clb", "fb"}} \subseteq heap
      BY <1>7 DEF FillSata, DiskParts, Calling, Control, Phase
    <3>2. {<<x, port, 0>> : x \in {"dev", "bdev", "name", "node", "clb", "fb"}} \subseteq heap'
      BY <3>1, <2>1 DEF Bdev, Own
    <3>. QED BY <3>2, <2>1, <1>1 DEF RegisteredLive
  <2>. QED BY <2>1, <1>7, <1>2 DEF FillSata, Register
<1>8. CASE Capacity
  <2>1. CASE bdevs' = bdevs \cup {port} /\ heap' = heap \cup {Own("node")}
    <3>1. /\ {<<x, port, 0>> : x \in {"dev", "clb", "fb"}} \subseteq heap
          /\ {<<x, port, 0>> : x \in {"bdev", "name"}} \subseteq heap
      BY <1>8 DEF Capacity, DiskParts, Calling, Control, Phase
    <3>2. {<<x, port, 0>> : x \in {"dev", "bdev", "name", "node", "clb", "fb"}} \subseteq heap'
      BY <3>1, <2>1 DEF Own
    <3>. QED BY <3>2, <2>1, <1>1 DEF RegisteredLive
  <2>. QED BY <2>1, <1>8, <1>2 DEF Capacity, Register
<1>. QED BY <1>3, <1>4, <1>5, <1>6, <1>7, <1>8 DEF DriverNext, Drive, Controller

(* Only the identification of an ATAPI drive frees a table twice.          *)
LEMMA TwiceStep ==
  ASSUME Control, Current, TwiceAtapi, DriverNext
  PROVE  TwiceAtapi'
<1>. USE DEF hba, call, client, Goto
<1>1. CASE UNCHANGED <<drive, twice>>
  BY <1>1 DEF TwiceAtapi
<1>2. CASE \E found, master \in BOOLEAN : Begin(found, master)
  BY <1>2, <1>1 DEF Begin
<1>3. CASE NoDevice \/ AllPorts \/ PortFails \/ PortReady \/ Prepare \/ PrepareFails
  BY <1>3, <1>1 DEF NoDevice, AllPorts, PortFails, PortReady, Prepare, PrepareFails
<1>4. CASE Issue \/ Idle \/ Sense \/ FillSata \/ FillSatapi \/ Capacity \/ Leave
  BY <1>4, <1>1 DEF Issue, Idle, Sense, FillSata, FillSatapi, Capacity, Leave
<1>5. CASE ReadDone \/ Read \/ ReadSata \/ Complete \/ Fail
  BY <1>5, <1>1 DEF ReadDone, Read, ReadSata, Complete, Fail
<1>6. CASE Destroy
  <2>1. ctba[port][slot] \in heap
    BY <1>6 DEF Destroy, Current, Sending
  <2>. QED BY <2>1, <1>6, <1>1 DEF Destroy, Free
<1>7. CASE Release
  <2>1. UNCHANGED drive /\ port \in Ports /\ kind = "identify"
    BY <1>7 DEF Release, Control, Phase, Calling
  <2>2. drive[port] # "atapi" => ctba[port][idslot] \in heap
    BY <1>7 DEF Release, Current
  <2>3. twice' \subseteq twice \cup {<<"identify", port>>}
        /\ (drive[port] # "atapi" => twice' = twice)
    BY <1>7, <2>1, <2>2 DEF Release, Free
  <2>. QED BY <2>1, <2>3 DEF TwiceAtapi
<1>. QED BY <1>2, <1>3, <1>4, <1>5, <1>6, <1>7 DEF DriverNext, Drive, Controller

(* A read that the program takes for a success has filled the buffer.      *)
LEMMA ReadingStep ==
  ASSUME Control, OneCommand, Reading, DriverNext
  PROVE  Reading'
<1>. USE DEF Control, DriverType, Phase, Reading, Goto, Calling, hba, call, client
<1>1. CASE \E found, master \in BOOLEAN : Begin(found, master)
  BY <1>1 DEF Begin
<1>2. CASE NoDevice \/ AllPorts \/ PortFails \/ PortReady
  BY <1>2 DEF NoDevice, AllPorts, PortFails, PortReady
<1>3. CASE Prepare
  BY <1>3 DEF Prepare
<1>4. CASE PrepareFails
  BY <1>4 DEF PrepareFails
<1>5. CASE Issue
  BY <1>5 DEF Issue
<1>6. CASE Idle
  BY <1>6 DEF Idle, Answered, NoError
<1>7. CASE Destroy \/ Sense
  BY <1>7 DEF Destroy, Sense
<1>8. CASE FillSata \/ FillSatapi
  <2>1. kind = "identify" /\ kind' # "read" /\ UNCHANGED <<answer, filled>>
    BY <1>8 DEF FillSata, FillSatapi
  <2>. QED BY <2>1
<1>9. CASE Capacity \/ Release \/ Leave
  <2>1. kind # "read" /\ kind' # "read" /\ UNCHANGED <<answer, filled>>
    BY <1>9 DEF Capacity, Release, Leave
  <2>. QED BY <2>1
<1>10. CASE ReadDone
  BY <1>10 DEF ReadDone
<1>11. CASE Read \/ ReadSata
  BY <1>11 DEF Read, ReadSata
<1>12. CASE Complete
  BY <1>12 DEF Complete, OneCommand, Running
<1>13. CASE Fail
  BY <1>13 DEF Fail
<1>. QED BY <1>1, <1>2, <1>3, <1>4, <1>5, <1>6, <1>7, <1>8, <1>9, <1>10, <1>11,
            <1>12, <1>13
         DEF DriverNext, Drive, Controller

-----------------------------------------------------------------------------
(* The driver: the invariant holds                                         *)

LEMMA DriverInit ==
  ASSUME AhciInit
  PROVE  DriverInv
<1>. USE AhciAssumption DEF AhciInit
<1>1. 0 \in Slots /\ 0 \in 0 .. NumPorts
  BY DEF Slots
<1>2. [s \in Slots |-> NoTable] \in [Slots -> Tables]
  BY DEF NoTable, Tables
<1>3. Control
  BY <1>1, <1>2 DEF Control, DriverType, Phase, Calling
<1>4. OneCommand /\ NotYet /\ Reading /\ TwiceAtapi
  BY DEF OneCommand, Running, NotYet, Reading, TwiceAtapi
<1>5. Current /\ LiveTables /\ DiskParts /\ RegisteredLive
  BY DEF Current, Sending, LiveTables, DiskParts, Calling, RegisteredLive
<1>. QED BY <1>3, <1>4, <1>5 DEF DriverInv

LEMMA DriverStill ==
  ASSUME DriverInv, UNCHANGED avars
  PROVE  DriverInv'
<1>. USE DEF avars, hba, call, client
<1>1. Control' /\ OneCommand' /\ NotYet'
  BY DEF DriverInv, Control, DriverType, Phase, Calling, OneCommand, Running, NotYet, Probed
<1>2. Current' /\ LiveTables'
  BY DEF DriverInv, Current, Sending, LiveTables
<1>3. DiskParts' /\ RegisteredLive' /\ TwiceAtapi' /\ Reading'
  BY DEF DriverInv, DiskParts, Calling, RegisteredLive, TwiceAtapi, Reading
<1>. QED BY <1>1, <1>2, <1>3 DEF DriverInv

(* What a step of the system is to the driver.                             *)
LEMMA DriverSees ==
  ASSUME [Next]_vars
  PROVE  DriverNext \/ UNCHANGED avars
<1>1. CASE Attach
  <2>. DEFINE master == LET a == IF GetClass("sata") # NoBridge THEN GetClass("sata")
                                 ELSE GetClass("raid")
                        IN  a # NoBridge /\ SetMaster(a)
  <2>1. Begin(Controllers # {}, master)
    BY <1>1 DEF Attach
  <2>. HIDE DEF master
  <2>2. Begin(Controllers # {}, master) => Begin(Controllers # {}, master = TRUE)
    BY DEF Begin
  <2>. QED BY <2>1, <2>2 DEF DriverNext
<1>. QED BY <1>1 DEF Next, vars, PciStep, DriverStep, DeviceStep, ReadStep, DriverNext

LEMMA DriverKept ==
  ASSUME DriverInv, [Next]_vars
  PROVE  DriverInv'
<1>1. CASE UNCHANGED avars
  BY <1>1, DriverStill
<1>2. CASE DriverNext
  <2>1. Control' /\ OneCommand' /\ NotYet'
    BY <1>2, ControlStep, OneCommandStep, NotYetStep DEF DriverInv
  <2>2. Current' /\ LiveTables'
    BY <1>2, CurrentStep, LiveTablesStep DEF DriverInv
  <2>3. DiskParts' /\ RegisteredLive'
    BY <1>2, DiskPartsStep, RegisteredStep DEF DriverInv
  <2>4. TwiceAtapi' /\ Reading'
    BY <1>2, TwiceStep, ReadingStep DEF DriverInv
  <2>. QED BY <2>1, <2>2, <2>3, <2>4 DEF DriverInv
<1>. QED BY <1>1, <1>2, DriverSees

(* At every step of ahci_identify_ahcidev and ahci_satapi_read at most the *)
(* command in hand runs, its table lives, and of the other tables only the *)
(* first one of an ATAPI drive.                                            *)
THEOREM DriverInvariant == Spec => []DriverInv
<1>1. Init => DriverInv
  BY DriverInit DEF Init
<1>2. DriverInv /\ [Next]_vars => DriverInv'
  BY DriverKept
<1>. QED BY <1>1, <1>2, PTL DEF Spec

(* No command table is freed while its slot can run, and each is freed     *)
(* once, the identification of an ATAPI drive excepted (ahci_send_command).*)
THEOREM TablesStaySafe == Spec => []TablesSafe
<1>1. DriverInv => TablesSafe
  <2>. SUFFICES ASSUME DriverInv PROVE TablesSafe
    OBVIOUS
  <2>1. ASSUME NEW p \in Ports, NEW s \in Running(p)
        PROVE  ctba[p][s] \in heap
    <3>1. p = port /\ pc = "poll" /\ s = slot
      BY <2>1 DEF DriverInv, OneCommand
    <3>. QED BY <3>1 DEF DriverInv, Current, Sending
  <2>2. ASSUME pc = "idle", NEW p \in Ports, NEW n \in 1 .. sent[p], Table(p, n) \in heap
        PROVE  n = 1 /\ drive[p] = "atapi"
    <3>1. n \in Int
      BY DEF DriverInv, Control, DriverType
    <3>. QED BY <2>2, <3>1 DEF DriverInv, LiveTables, Sending
  <2>. QED BY <2>1, <2>2
       DEF TablesSafe, RunningTablesLive, TablesReturned, DriverInv, TwiceAtapi
<1>. QED BY <1>1, DriverInvariant, PTL

(* What a registered disk points to lives: the paths of ahci_identify_     *)
(* ahcidev that free it leave the disk out of the list.                    *)
THEOREM DisksStayLive == Spec => []RegisteredLive
<1>1. DriverInv => RegisteredLive
  BY DEF DriverInv
<1>. QED BY <1>1, DriverInvariant, PTL

-----------------------------------------------------------------------------
(* The driver implements the specification of a disk                       *)

(* What Disk puts for the variables of DiskSpec.                           *)
Want   == IF answer = "none" THEN 0 ELSE 1
Got    == IF filled THEN 1 ELSE 0
Result == IF answer = "ok" /\ drive[port] = "ata" THEN "unread" ELSE answer

(* Most steps stutter: they leave the answer and the buffer alone, and the *)
(* port too, except while the ports are probed, before the first read.     *)
LEMMA DiskStutter ==
  ASSUME UNCHANGED <<answer, filled, drive>>, UNCHANGED port \/ answer = "none"
  PROVE  UNCHANGED <<Want, Got, Result>>
<1>. QED BY DEF Want, Got, Result

LEMMA DiskStep ==
  ASSUME DriverInv, DriverNext
  PROVE  [Disk!Next]_<<Want, Got, Result>>
<1>. USE DEF hba, call, client, Goto
<1>1. CASE UNCHANGED <<answer, filled, drive>> /\ (UNCHANGED port \/ answer = "none")
  BY <1>1, DiskStutter
<1>2. CASE \E found, master \in BOOLEAN : Begin(found, master)
  BY <1>2, <1>1 DEF Begin
<1>3. CASE NoDevice \/ PortFails \/ Leave
  <2>1. answer = "none" /\ UNCHANGED <<answer, filled, drive>>
    BY <1>3 DEF NoDevice, PortFails, Leave, DriverInv, Control, Phase, Reading
  <2>. QED BY <2>1, <1>1
<1>4. CASE AllPorts \/ PortReady \/ Prepare \/ PrepareFails \/ Issue \/ Idle \/ Destroy
  BY <1>4, <1>1 DEF AllPorts, PortReady, Prepare, PrepareFails, Issue, Idle, Destroy
<1>5. CASE Sense \/ FillSata \/ FillSatapi \/ Capacity \/ Release \/ Fail
  BY <1>5, <1>1 DEF Sense, FillSata, FillSatapi, Capacity, Release, Fail
<1>6. CASE Complete
  <2>1. UNCHANGED <<answer, drive, port>> /\ filled \in BOOLEAN /\ filled' \in BOOLEAN
    BY <1>6 DEF Complete, DriverInv, Control, DriverType
  <2>2. CASE filled' = filled
    BY <2>1, <2>2, <1>1
  <2>3. CASE filled' # filled
    <3>1. ~ filled /\ filled' /\ kind = "read"
      BY <2>1, <2>3, <1>6 DEF Complete
    <3>2. pc = "poll"
      BY <1>6 DEF Complete, DriverInv, OneCommand
    <3>3. answer = "pending"
      BY <3>1, <3>2 DEF DriverInv, Reading
    <3>4. Want = 1 /\ Want' = 1 /\ Got = 0 /\ Got' = 1 /\ Result = "pending" /\ Result' = "pending"
      BY <3>1, <3>3, <2>1 DEF Want, Got, Result
    <3>. QED BY <3>4 DEF Disk!Next, Disk!Transfer, Want, Got, Result
  <2>. QED BY <2>2, <2>3
<1>7. CASE ReadDone
  <2>1. answer = "pending" /\ drive[port] = "atapi" /\ UNCHANGED <<filled, port, drive>>
    BY <1>7 DEF ReadDone, DriverInv, Control, Phase, Reading
  <2>2. BothSucceeded => filled
    BY <1>7 DEF ReadDone, BothSucceeded, DriverInv, Reading
  <2>3. Want = 1 /\ Want' = 1 /\ Got' = Got /\ Result = "pending"
    BY <2>1, <1>7 DEF ReadDone, Want, Got, Result
  <2>4. Result' = (IF BothSucceeded THEN "ok" ELSE "error")
    BY <2>1, <1>7 DEF ReadDone, Result
  <2>5. BothSucceeded => Got = 1
    BY <2>2 DEF Got
  <2>. QED BY <2>3, <2>4, <2>5 DEF Disk!Next, Disk!Answer, Want, Got, Result
<1>8. CASE Read \/ ReadSata
  <2>1. Result # "pending" /\ Want' = 1 /\ Got' = 0
    BY <1>8 DEF Read, ReadSata, DriverInv, Reading, Want, Got, Result, Control, DriverType
  <2>2. CASE Read
    <3>1. Result' = "pending"
      BY <2>2 DEF Read, Result
    <3>. QED BY <2>1, <3>1 DEF Disk!Next, Disk!Ask, Want, Got, Result
  <2>3. CASE ReadSata
    <3>1. drive' = drive /\ drive[port'] = "ata" /\ answer' = "ok"
      BY <2>3 DEF ReadSata
    <3>2. Result' = "unread"
      BY <3>1 DEF Result
    <3>. QED BY <2>1, <3>2 DEF Disk!Next, Disk!Lie, Want, Got, Result
  <2>. QED BY <1>8, <2>2, <2>3
<1>. QED BY <1>2, <1>3, <1>4, <1>5, <1>6, <1>7, <1>8 DEF DriverNext, Drive, Controller

(* ahci_satapi_read returns 0 only when the drive has filled the buffer;   *)
(* what ahci_sata_read returns is the one exception of the specification.  *)
THEOREM DriverKeepsDisk == Spec => KeepsDisk
<1>1. Init => Disk!Init
  BY DEF Init, AhciInit, Disk!Init
<1>2. DriverInv /\ [Next]_vars => [Disk!Next]_<<Want, Got, Result>>
  <2>. SUFFICES ASSUME DriverInv, [Next]_vars PROVE [Disk!Next]_<<Want, Got, Result>>
    OBVIOUS
  <2>1. CASE UNCHANGED avars
    BY <2>1, DiskStutter DEF avars, hba, client
  <2>. QED BY <2>1, DiskStep, DriverSees
<1>. QED BY <1>1, <1>2, DriverInvariant, PTL DEF Spec, KeepsDisk, Disk!Spec, Want, Got, Result
==============================================================================
