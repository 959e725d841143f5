------------------------------ MODULE BootProofs ------------------------------
(***************************************************************************)
(* The boot, for any map, discs, modules and kernels: what module_open has *)
(* taken and what it gives back, the relocations a module runs with, and   *)
(* the kernel that is jumped to; and, sharing no variable with these, the  *)
(* tree of nodes and the reads the boot gets its files with.               *)
(***************************************************************************)
EXTENDS BootModules, Files, FiniteSetTheorems, SequenceTheorems, WellFoundedInduction, TLAPS

(* A set of numbers that is not empty has a least one.                     *)
LEMMA LeastNat ==
  ASSUME NEW S, S \subseteq Nat, S # {}
  PROVE  \E x \in S : \A y \in S : x <= y
<1>. DEFINE L == OpToRel(<, Nat)
<1>1. IsWellFoundedOn(L, Nat)
  BY NatLessThanWellFounded
<1>. HIDE DEF L
<1>2. PICK x \in S : \A y \in S : ~ (<<y, x>> \in L)
  BY <1>1, WFMin
<1>3. \A y \in S : (<<y, x>> \in L) <=> y < x
  BY DEF L, OpToRel
<1>4. \A y \in S : ~ (y < x)
  BY <1>2, <1>3, Zenon
<1>5. x \in Nat /\ \A y \in S : y \in Nat
  OBVIOUS
<1>. QED BY <1>4, <1>5, SMT

(* The element that a walk from the front finds.                           *)
LEMMA FirstIs ==
  ASSUME NEW S, S \subseteq Nat, NEW x \in S, \A y \in S : x <= y
  PROVE  (CHOOSE k \in S : \A j \in S : k <= j) = x
<1>. DEFINE z == CHOOSE k \in S : \A j \in S : k <= j
<1>1. z \in S /\ \A j \in S : z <= j
  OBVIOUS
<1>2. z <= x /\ x <= z /\ z \in Nat /\ x \in Nat
  BY <1>1
<1>. HIDE DEF z
<1>3. z = x
  BY <1>2
<1>. QED BY <1>3 DEF z

-----------------------------------------------------------------------------
(* The memory of the modules *)

(* The steps of module_open.                                               *)
Steps == {"idle", "mod", "buffer", "read", "symbols", "relocations", "init", "running",
          "loaded", "failed", "astray"}

Returned == mpc \in {"idle", "loaded", "failed"}

LoadType ==
  /\ opened \in Seq(DOMAIN objects) /\ mpc \in Steps
  /\ mpc # "idle" => opened # <<>>

Parts == {"file", "name", "mod", "buf"}

(* Each block belongs to a load, and sections apart there is one of a kind.*)
Owned ==
  \A h \in heap :
    /\ h[1] \in 1 .. Load
    /\ h[2] = "bss" \/ (h[2] \in Parts /\ h = <<h[1], h[2], 0>>)

Only(n, parts) == \A h \in heap : h[1] = n => h[2] \in parts
All(n, parts)  == {<<n, what, 0>> : what \in parts} \subseteq heap

(* What the load in progress has taken so far.                             *)
Taken ==
  /\ mpc = "mod"    => Only(Load, {"file", "name"}) /\ All(Load, {"file", "name"})
  /\ mpc = "buffer" => Only(Load, {"file", "name", "mod"}) /\ All(Load, {"file", "name", "mod"})
  /\ mpc \in {"read", "symbols", "relocations", "init", "running"} => All(Load, Parts)

(* What a load that is over holds.                                         *)
Over(n) ==
  IF [list |-> "modules", load |-> n] \in refs THEN All(n, Parts)
  ELSE Only(n, {"name", "bss"})

RefsOwned ==
  \A r \in refs :
    r.load \in 1 .. Load /\ (r.load = Load => Returned)

HeapInv ==
  /\ LoadType /\ Owned /\ Taken /\ RefsOwned /\ PointersLive
  /\ \A n \in 1 .. Load : (n < Load \/ Returned) => Over(n)

LEMMA LoadIs ==
  ASSUME LoadType
  PROVE  Load \in Nat /\ DOMAIN opened = 1 .. Load /\ (mpc # "idle" => Load > 0)
<1>1. Load \in Nat /\ DOMAIN opened = 1 .. Load
  BY DEF LoadType, Load
<1>2. opened # <<>> => Load # 0
  BY EmptySeq DEF LoadType, Load
<1>. QED BY <1>1, <1>2 DEF LoadType

(* module_open takes the file and its name for a new load.                 *)
LEMMA OpenHeap ==
  ASSUME HeapInv, NEW name, ModuleOpen(name)
  PROVE  HeapInv'
<1>1. Load \in Nat /\ Load' = Load + 1 /\ LoadType'
  BY LoadIs, AppendProperties DEF HeapInv, LoadType, Load, ModuleOpen, Steps
<1>2. heap' = heap \cup {<<Load + 1, what, 0>> : what \in {"file", "name"}} /\ refs' = refs
  BY DEF ModuleOpen, Load
<1>3. Owned'
  <2>. SUFFICES ASSUME NEW h \in heap'
                PROVE  /\ h[1] \in 1 .. Load'
                       /\ h[2] = "bss" \/ (h[2] \in Parts /\ h = <<h[1], h[2], 0>>)
    BY DEF Owned
  <2>1. CASE h \in heap
    BY <1>1, <2>1 DEF HeapInv, Owned
  <2>2. CASE h \notin heap
    BY <1>1, <1>2, <2>2 DEF Parts
  <2>. QED BY <2>1, <2>2
<1>4. \A h \in heap : h[1] # Load'
  BY <1>1 DEF HeapInv, Owned
<1>5. Taken'
  BY <1>1, <1>2, <1>4 DEF Taken, Only, All, ModuleOpen
<1>6. RefsOwned'
  BY <1>1, <1>2 DEF RefsOwned, HeapInv, Returned, ModuleOpen
<1>7. PointersLive'
  <2>. SUFFICES ASSUME NEW r \in refs
                PROVE  \/ {<<r.load, "mod", 0>>, <<r.load, "buf", 0>>} \subseteq heap'
                       \/ opened'[r.load] = "tty" /\ r.list = "cdevs"
    BY <1>2 DEF PointersLive
  <2>1. r.load \in 1 .. Len(opened)
    BY DEF HeapInv, RefsOwned, Load
  <2>2. opened'[r.load] = opened[r.load]
    BY <2>1, AppendProperties DEF HeapInv, LoadType, ModuleOpen
  <2>. QED BY <1>2, <2>2 DEF HeapInv, PointersLive
<1>8. ASSUME NEW n \in 1 .. Load', n < Load' \/ Returned' PROVE Over(n)'
  <2>1. n \in 1 .. Load /\ Returned
    BY <1>1, <1>8 DEF Returned, ModuleOpen
  <2>2. Over(n)
    BY <2>1 DEF HeapInv
  <2>. QED BY <1>1, <1>2, <2>1, <2>2 DEF Over, All, Only
<1>. QED BY <1>1, <1>3, <1>5, <1>6, <1>7, <1>8 DEF HeapInv

(* A step that takes or gives back blocks of the load in progress only.    *)
LEMMA StepHeap ==
  ASSUME HeapInv, UNCHANGED <<objects, opened, refs>>, ~ Returned, mpc' \in Steps \ {"idle"},
         \A h \in (heap \ heap') \cup (heap' \ heap) : h[1] = Load,
         Owned', Taken', Returned' => mpc' = "failed" /\ Only(Load, {"name", "bss"})'
  PROVE  HeapInv'
<1>1. Load \in Nat /\ Load' = Load /\ LoadType'
  BY LoadIs DEF HeapInv, LoadType, Load, Returned
<1>2. \A r \in refs : r.load # Load /\ r.load \in 1 .. Load
  BY DEF HeapInv, RefsOwned
<1>3. RefsOwned'
  BY <1>1, <1>2 DEF RefsOwned
<1>4. PointersLive'
  <2>. SUFFICES ASSUME NEW r \in refs
                PROVE  \/ {<<r.load, "mod", 0>>, <<r.load, "buf", 0>>} \subseteq heap'
                       \/ opened[r.load] = "tty" /\ r.list = "cdevs"
    BY DEF PointersLive
  <2>1. CASE {<<r.load, "mod", 0>>, <<r.load, "buf", 0>>} \subseteq heap
    BY <1>2, <2>1
  <2>. QED BY <2>1 DEF HeapInv, PointersLive
<1>5. ASSUME NEW n \in 1 .. Load, n < Load \/ Returned' PROVE Over(n)'
  <2>1. CASE n < Load
    <3>1. Over(n)
      BY <2>1 DEF HeapInv
    <3>2. \A what : <<n, what, 0>> \in heap => <<n, what, 0>> \in heap'
      BY <2>1, <1>1
    <3>3. \A h \in heap' : h[1] = n => h \in heap
      BY <2>1, <1>1
    <3>. QED BY <1>1, <3>1, <3>2, <3>3 DEF Over, All, Only
  <2>2. CASE n = Load
    <3>1. [list |-> "modules", load |-> n] \notin refs
      BY <1>2, <2>2
    <3>. QED BY <1>1, <1>5, <2>2, <3>1 DEF Over, Only
  <2>. QED BY <1>1, <2>1, <2>2
<1>. QED BY <1>1, <1>3, <1>4, <1>5 DEF HeapInv

(* Every error takes the labels that free what was taken.                  *)
LEMMA FailsHeap ==
  ASSUME HeapInv, NEW from, Fails(from),
         \/ from \in {"mod", "buffer"} /\ mpc = from
         \/ from \notin {"mod", "buffer"} /\ ~ Returned /\ mpc \notin {"mod", "buffer"}
  PROVE  HeapInv'
<1>1. Load \in Nat /\ Load' = Load /\ mpc' = "failed" /\ ~ Returned
  BY LoadIs DEF Fails, HeapInv, Load, Returned
<1>2. heap' = heap \ Unwind(from) /\ UNCHANGED <<objects, opened, refs>>
  BY DEF Fails
<1>3. \A h \in heap \ heap' : h[1] = Load
  BY <1>2 DEF Unwind
<1>4. Owned' /\ Taken'
  BY <1>1, <1>2 DEF Owned, Taken, HeapInv
<1>5. ASSUME NEW h \in heap', h[1] = Load PROVE h[2] \in {"name", "bss"}
  <2>1. h \in heap /\ h \notin Unwind(from)
    BY <1>2
  <2>2. h[2] = "bss" \/ (h[2] \in Parts /\ h = <<Load, h[2], 0>>)
    BY <2>1, <1>5 DEF HeapInv, Owned
  <2>3. mpc = "mod" => h[2] \in {"file", "name"}
    BY <2>1, <1>5 DEF HeapInv, Taken, Only
  <2>4. mpc = "buffer" => h[2] \in {"file", "name", "mod"}
    BY <2>1, <1>5 DEF HeapInv, Taken, Only
  <2>. QED BY <2>1, <2>2, <2>3, <2>4 DEF Unwind, Parts
<1>. QED BY <1>1, <1>2, <1>3, <1>4, <1>5, StepHeap DEF Only, Returned, Steps

(* The block that a step takes for the load in progress.                   *)
LEMMA TakesOwned ==
  ASSUME HeapInv, NEW what \in Parts, Takes(what), mpc # "idle", UNCHANGED opened
  PROVE  /\ Owned' /\ Load' = Load
         /\ heap' = heap \cup {<<Load, what, 0>>}
<1>1. Load \in Nat /\ Load > 0 /\ Load' = Load
  BY LoadIs DEF HeapInv, Load
<1>2. heap' = heap \cup {<<Load, what, 0>>}
  BY DEF Takes
<1>. QED BY <1>1, <1>2 DEF HeapInv, Owned

(* The sections that get memory of their own.                              *)
LEMMA BssOwned ==
  ASSUME HeapInv, NEW S, heap' = heap \cup Bss(S), mpc # "idle", UNCHANGED opened
  PROVE  Owned' /\ Load' = Load /\ \A h \in heap' \ heap : h[1] = Load
<1>1. Load \in Nat /\ Load > 0 /\ Load' = Load
  BY LoadIs DEF HeapInv, Load
<1>2. \A h \in Bss(S) : h[1] = Load /\ h[2] = "bss"
  BY DEF Bss
<1>. QED BY <1>1, <1>2 DEF HeapInv, Owned

(* The init function returns: what it has registered stays, and so does    *)
(* its module unless it failed.                                            *)
LEMMA ReturnHeap ==
  ASSUME HeapInv, InitReturns
  PROVE  HeapInv'
<1>1. PICK o \in Outcomes(Last(opened)) :
        /\ refs' = Kept(o)
        /\ IF o.value = 0 THEN mpc' = "loaded" /\ UNCHANGED heap
           ELSE mpc' = "failed" /\ heap' = heap \ Unwind("init")
  BY DEF InitReturns
<1>2. Load \in Nat /\ Load > 0 /\ mpc = "running" /\ UNCHANGED <<objects, opened>> /\ Load' = Load
  BY LoadIs DEF InitReturns, HeapInv, Load
<1>3. Last(opened) = opened[Load]
  BY DEF Last, Load
<1>4. /\ o.value # 0 => o.lists \subseteq {"cdevs"}
      /\ o.value # 0 /\ o.lists # {} => opened[Load] = "tty"
      /\ "modules" \notin o.lists
  BY <1>3 DEF Outcomes, Outcome, PitOutcomes, KbdOutcomes, TtyOutcomes, LoaderOutcomes
<1>5. /\ refs' = refs \cup {[list |-> l, load |-> Load] : l \in o.lists}
                      \cup (IF o.value = 0 THEN {[list |-> "modules", load |-> Load]} ELSE {})
  BY <1>1 DEF Kept, Registered
<1>6. \A r \in refs : r.load \in 1 .. Load /\ r.load # Load
  BY <1>2 DEF HeapInv, RefsOwned, Returned
<1>7. Owned' /\ \A h \in heap \ heap' : h[1] = Load
  BY <1>1, <1>2 DEF HeapInv, Owned, Unwind
<1>8. heap' \subseteq heap /\ (o.value = 0 => All(Load, Parts)')
  BY <1>1, <1>2 DEF HeapInv, Taken, All
<1>9. o.value # 0 => Only(Load, {"name", "bss"})'
  BY <1>1, <1>2 DEF HeapInv, Owned, Only, Unwind, Parts
<1>10. LoadType' /\ Taken' /\ RefsOwned'
  <2>1. \A r \in refs' : r \in refs \/ r.load = Load
    BY <1>5
  <2>. QED BY <1>1, <1>2, <1>6, <2>1 DEF HeapInv, LoadType, Steps, Taken, RefsOwned, Returned
<1>11. PointersLive'
  <2>. SUFFICES ASSUME NEW r \in refs'
                PROVE  \/ {<<r.load, "mod", 0>>, <<r.load, "buf", 0>>} \subseteq heap'
                       \/ opened[r.load] = "tty" /\ r.list = "cdevs"
    BY <1>2 DEF PointersLive
  <2>1. CASE r \in refs
    BY <1>6, <1>7, <2>1 DEF HeapInv, PointersLive
  <2>2. CASE r \notin refs /\ o.value = 0
    BY <1>2, <1>5, <1>8, <2>2 DEF All, Parts
  <2>3. CASE r \notin refs /\ o.value # 0
    <3>1. PICK l \in o.lists : r = [list |-> l, load |-> Load]
      BY <1>5, <2>3
    <3>. QED BY <1>4, <2>3, <3>1
  <2>. QED BY <2>1, <2>2, <2>3
<1>12. ASSUME NEW n \in 1 .. Load PROVE Over(n)'
  <2>1. CASE n = Load
    <3>1. [list |-> "modules", load |-> n] \in refs' <=> o.value = 0
      BY <1>4, <1>5, <1>6, <2>1
    <3>. QED BY <1>2, <1>8, <1>9, <2>1, <3>1 DEF Over, All, Only
  <2>2. CASE n < Load
    <3>1. Over(n)
      BY <2>2 DEF HeapInv
    <3>2. [list |-> "modules", load |-> n] \in refs' <=> [list |-> "modules", load |-> n] \in refs
      <4>1. \A l : [list |-> l, load |-> Load] # [list |-> "modules", load |-> n]
        BY <2>2, <1>2
      <4>. QED BY <1>5, <4>1
    <3>3. \A what : <<n, what, 0>> \in heap => <<n, what, 0>> \in heap'
      BY <1>7, <2>2, <1>2
    <3>. QED BY <1>8, <3>1, <3>2, <3>3 DEF Over, All, Only
  <2>. QED BY <1>2, <2>1, <2>2
<1>. QED BY <1>2, <1>7, <1>10, <1>11, <1>12 DEF HeapInv

LEMMA ModuleStepHeap ==
  ASSUME HeapInv, ModuleStep
  PROVE  HeapInv'
<1>. USE DEF Steps
<1>1. CASE AllocModule
  <2>1. CASE Fails("mod")
    BY <1>1, <2>1, FailsHeap DEF AllocModule
  <2>2. CASE ~ Fails("mod")
    <3>1. mpc = "mod" /\ mpc' = "buffer" /\ UNCHANGED <<objects, opened, refs>> /\ Takes("mod")
      BY <1>1, <2>2 DEF AllocModule
    <3>2. Owned' /\ Load' = Load /\ heap' = heap \cup {<<Load, "mod", 0>>}
      BY <3>1, TakesOwned DEF Parts
    <3>3. Taken'
      BY <3>1, <3>2 DEF HeapInv, Taken, Only, All
    <3>. QED BY <3>1, <3>2, <3>3, StepHeap DEF Returned
  <2>. QED BY <2>1, <2>2
<1>2. CASE AllocBuffer
  <2>1. CASE Fails("buffer")
    BY <1>2, <2>1, FailsHeap DEF AllocBuffer
  <2>2. CASE ~ Fails("buffer")
    <3>1. mpc = "buffer" /\ mpc' = "read" /\ UNCHANGED <<objects, opened, refs>> /\ Takes("buf")
      BY <1>2, <2>2 DEF AllocBuffer
    <3>2. Owned' /\ Load' = Load /\ heap' = heap \cup {<<Load, "buf", 0>>}
      BY <3>1, TakesOwned DEF Parts
    <3>3. Taken'
      BY <3>1, <3>2 DEF HeapInv, Taken, Only, All, Parts
    <3>. QED BY <3>1, <3>2, <3>3, StepHeap DEF Returned
  <2>. QED BY <2>1, <2>2
<1>3. CASE LoadSections
  <2>0. mpc = "read" /\ All(Load, Parts) /\ UNCHANGED <<objects, opened, refs>>
    BY <1>3 DEF LoadSections, Fails, HeapInv, Taken
  <2>1. CASE Fails("read")
    BY <2>0, <2>1, FailsHeap DEF Returned
  <2>2. CASE mpc' = "symbols" /\ heap' = heap \cup Bss(NoBits)
    <3>1. Owned' /\ Load' = Load /\ \A h \in heap' \ heap : h[1] = Load
      BY <2>0, <2>2, BssOwned
    <3>2. Taken'
      BY <2>0, <2>2, <3>1 DEF Taken, All
    <3>. QED BY <2>0, <2>2, <3>1, <3>2, StepHeap DEF Returned
  <2>3. CASE mpc' = "astray" /\ UNCHANGED heap
    <3>1. Owned' /\ Taken'
      BY <2>0, <2>3 DEF HeapInv, Owned, Taken, Load
    <3>. QED BY <2>0, <2>3, <3>1, StepHeap DEF Returned
  <2>4. CASE mpc' = "failed" /\ \E k \in NoBits :
               heap' = (heap \cup Bss({i \in NoBits : i < k})) \ Unwind("read")
    <3>1. PICK S : heap' = (heap \cup Bss(S)) \ Unwind("read")
      BY <2>4
    <3>2. Load \in Nat /\ Load > 0 /\ Load' = Load
      BY <2>0, LoadIs DEF HeapInv, Load
    <3>3. \A h \in Bss(S) \cup Unwind("read") : h[1] = Load
      BY DEF Bss, Unwind
    <3>4. ASSUME NEW h \in heap'
          PROVE  /\ h[1] \in 1 .. Load
                 /\ h[2] = "bss" \/ (h[2] \in Parts /\ h = <<h[1], h[2], 0>>)
                 /\ h[1] = Load => h[2] \in {"name", "bss"}
      <4>1. CASE h \in Bss(S)
        BY <4>1, <3>2 DEF Bss
      <4>2. CASE h \in heap /\ h \notin Unwind("read")
        BY <4>2 DEF HeapInv, Owned, Parts, Unwind
      <4>. QED BY <3>1, <4>1, <4>2
    <3>5. Owned' /\ Only(Load, {"name", "bss"})'
      BY <3>2, <3>4 DEF Owned, Only
    <3>6. Taken'
      BY <2>4 DEF Taken
    <3>. QED BY <2>0, <2>4, <3>1, <3>3, <3>5, <3>6, StepHeap DEF Returned
  <2>. QED BY <1>3, <2>1, <2>2, <2>3, <2>4 DEF LoadSections
<1>4. CASE ResolveSymbol
  <2>1. CASE Fails("symbols")
    BY <1>4, <2>1, FailsHeap DEF ResolveSymbol, Returned
  <2>2. CASE ~ Fails("symbols")
    <3>1. mpc = "symbols" /\ UNCHANGED <<mpc, objects, opened, refs, heap>>
      BY <1>4, <2>2 DEF ResolveSymbol
    <3>2. Owned' /\ Taken'
      BY <3>1 DEF HeapInv, Owned, Taken, Load, Only, All
    <3>. QED BY <3>1, <3>2, StepHeap DEF Returned
  <2>. QED BY <2>1, <2>2
<1>5. CASE SymbolsResolved \/ ResolveRelocations \/ RelocationsDone \/ CallInit
  <2>1. /\ UNCHANGED <<objects, opened, refs, heap>> /\ mpc \in {"symbols", "relocations", "init"}
        /\ mpc' \in {"relocations", "init", "running"}
    BY <1>5 DEF SymbolsResolved, ResolveRelocations, RelocationsDone, CallInit
  <2>2. Owned' /\ Taken'
    BY <2>1 DEF HeapInv, Owned, Taken, Load, Only, All
  <2>. QED BY <2>1, <2>2, StepHeap DEF Returned
<1>6. CASE NoEntry
  BY <1>6, FailsHeap DEF NoEntry, Returned
<1>7. CASE InitReturns
  BY <1>7, ReturnHeap
<1>. QED BY <1>1, <1>2, <1>3, <1>4, <1>5, <1>6, <1>7 DEF ModuleStep

(* The other steps of the boot leave the modules alone, or let module_open *)
(* return.                                                                 *)
LEMMA HeapNext ==
  ASSUME HeapInv, [Next]_vars
  PROVE  HeapInv'
<1>1. CASE UNCHANGED <<objects, mpc, opened, heap, refs>>
  <2>1. Load' = Load /\ Returned' = Returned
    BY <1>1 DEF Load, Returned
  <2>2. LoadType' /\ Owned' /\ Taken' /\ RefsOwned' /\ PointersLive'
    BY <1>1, <2>1 DEF HeapInv, LoadType, Owned, Taken, Only, All, RefsOwned, PointersLive
  <2>3. \A n \in 1 .. Load : Over(n)' <=> Over(n)
    BY <1>1 DEF Over, Only, All
  <2>. QED BY <2>1, <2>2, <2>3 DEF HeapInv
<1>2. CASE EarlyStage \/ SymbolsInit \/ ParseMap \/ BootKernel \/ RunKernel \/ UNCHANGED vars
  BY <1>1, <1>2 DEF EarlyStage, SymbolsInit, ReadMap, ParseMap, ParseLine, Dies, BootKernel,
                    RunKernel, vars, mvars
<1>3. CASE OpenModule \/ InitLoader
  BY <1>1, <1>3, OpenHeap DEF OpenModule, InitLoader, Dies, mvars
<1>4. CASE ModuleEnds
  <2>1. mpc \in {"loaded", "failed"} /\ mpc' = "idle" /\ UNCHANGED <<objects, opened, heap, refs>>
    BY <1>4 DEF ModuleEnds, ModuleDone
  <2>2. Load' = Load /\ Returned /\ Returned'
    BY <2>1 DEF Load, Returned
  <2>3. LoadType' /\ Owned' /\ Taken' /\ RefsOwned' /\ PointersLive'
    BY <2>1, <2>2 DEF HeapInv, LoadType, Steps, Owned, Taken, RefsOwned, PointersLive
  <2>4. \A n \in 1 .. Load : Over(n)' <=> Over(n)
    BY <2>1 DEF Over, Only, All
  <2>. QED BY <2>2, <2>3, <2>4 DEF HeapInv
<1>5. CASE RunModule
  BY <1>5, ModuleStepHeap DEF RunModule
<1>. QED BY <1>2, <1>3, <1>4, <1>5 DEF Next

(* At every step of module_open what a load has taken is what it has come  *)
(* to, and a load that is over has given back all that it can.             *)
THEOREM LoadsInductive == Spec => []HeapInv
<1>1. Init => HeapInv
  <2>. SUFFICES ASSUME Init PROVE HeapInv
    OBVIOUS
  <2>1. opened = <<>> /\ mpc = "idle" /\ heap = {} /\ refs = {} /\ Load = 0
    BY DEF Init, ModuleInit, Load
  <2>. QED BY <2>1 DEF HeapInv, LoadType, Steps, Owned, Taken, RefsOwned, PointersLive
<1>2. HeapInv /\ [Next]_vars => HeapInv'
  BY HeapNext
<1>. QED BY <1>1, <1>2, PTL DEF Spec

(* Nothing that can still be called lies in memory that a failed load gave *)
(* back, but for the terminal of a console that cannot be opened.          *)
THEOREM CalledIsLive == Spec => []PointersLive
<1>1. HeapInv => PointersLive
  BY DEF HeapInv
<1>. QED BY <1>1, LoadsInductive, PTL

(* A load that fails gives back all it took but the name of the file and   *)
(* the memory of sections of their own; a module that stays keeps all.     *)
THEOREM FailedLoadsGiveBack == Spec => []GivesBack
<1>1. HeapInv => GivesBack
  <2>. SUFFICES ASSUME HeapInv, NEW n \in DOMAIN opened, mpc = "idle" \/ n < Load
                PROVE  LET held == {h[2] : h \in {x \in heap : x[1] = n}}
                       IN  IF [list |-> "modules", load |-> n] \in refs
                           THEN {"file", "name", "mod", "buf"} \subseteq held
                           ELSE held \subseteq {"name", "bss"}
    BY DEF GivesBack
  <2>1. Over(n)
    BY LoadIs DEF HeapInv, Returned
  <2>2. \A what : <<n, what, 0>> \in heap => what \in {h[2] : h \in {x \in heap : x[1] = n}}
    <3>1. \A what : <<n, what, 0>>[1] = n /\ <<n, what, 0>>[2] = what
      OBVIOUS
    <3>. QED BY <3>1
  <2>. QED BY <2>1, <2>2 DEF Over, All, Only, Parts
<1>. QED BY <1>1, LoadsInductive, PTL

-----------------------------------------------------------------------------
(* The symbols                                                             *)

(* The list holds the lines read so far, but for the hidden ones, in their *)
(* order: the first of a name is the first of that name in the map.        *)
SymbolsInv ==
  /\ misread \in BOOLEAN /\ leftover \in Leftovers \cup {<<>>}
  /\ line \in 0 .. Len(MapText)
  /\ symbols \in Seq([name : STRING, addr : Nat])
  /\ \A k \in 1 .. Len(symbols) :
       /\ symbols[k].name \notin Hidden
       /\ (\A j \in 1 .. k - 1 : symbols[j].name # symbols[k].name) =>
            \E i \in 1 .. line : /\ MapText[i] = symbols[k]
                                 /\ \A j \in 1 .. i - 1 : MapText[j].name # symbols[k].name
  /\ \A i \in 1 .. line : MapText[i].name \notin Hidden =>
       \E k \in 1 .. Len(symbols) : symbols[k].name = MapText[i].name

LEMMA TextType ==
  ASSUME SymbolsInv
  PROVE  MapText \in Seq([name : STRING, addr : Nat]) /\ Len(MapText) \in Nat
<1>1. leftover \in Seq([name : STRING, addr : Nat])
  <2>1. Leftovers \subseteq Seq([name : STRING, addr : Nat])
    BY ModuleAssumption
  <2>2. leftover \in Leftovers \/ leftover = <<>>
    BY DEF SymbolsInv
  <2>3. <<>> \in Seq([name : STRING, addr : Nat])
    OBVIOUS
  <2>. QED BY <2>1, <2>2, <2>3
<1>2. MapLines \o leftover \in Seq([name : STRING, addr : Nat])
  BY <1>1, ModuleAssumption, ConcatProperties
<1>3. MapText \in Seq([name : STRING, addr : Nat])
  BY <1>1, <1>2 DEF MapText
<1>. QED BY <1>3, LenProperties

LEMMA SameText ==
  ASSUME UNCHANGED <<misread, leftover>>
  PROVE  MapText' = MapText
  BY DEF MapText

LEMMA SymbolsStay ==
  ASSUME UNCHANGED <<line, symbols, misread, leftover>>
  PROVE  MapText' = MapText /\ MapRead' = MapRead /\ SymbolsInv' = SymbolsInv
<1>1. MapText' = MapText
  BY SameText
<1>. QED BY <1>1 DEF MapRead, SymbolsInv

LEMMA ParseLineKeeps ==
  ASSUME SymbolsInv, ParseLine
  PROVE  SymbolsInv'
<1>. DEFINE s == MapText[line + 1]
<1>1. /\ MapText \in Seq([name : STRING, addr : Nat]) /\ Len(MapText) \in Nat
      /\ line \in Nat /\ line + 1 \in 1 .. Len(MapText) /\ line' = line + 1
      /\ line' \in 0 .. Len(MapText)
  BY TextType DEF SymbolsInv, ParseLine, MapRead
<1>0. MapText' = MapText /\ misread' = misread /\ leftover' = leftover
  BY DEF ParseLine, MapText
<1>2. s \in [name : STRING, addr : Nat]
  BY <1>1, ElementOfSeq
<1>3. symbols' = IF s.name \in Hidden THEN symbols ELSE Append(symbols, s)
  BY DEF ParseLine, SymbolAdd
<1>4. Len(symbols) \in Nat /\ symbols \in Seq([name : STRING, addr : Nat])
  BY LenProperties DEF SymbolsInv
<1>. HIDE DEF s
<1>5. CASE s.name \in Hidden
  <2>1. symbols' = symbols /\ 1 .. line \subseteq 1 .. line'
    BY <1>1, <1>3, <1>5
  <2>2. \A i \in 1 .. line' : MapText[i].name \notin Hidden => i \in 1 .. line
    BY <1>1, <1>5 DEF s
  <2>3. ASSUME NEW k \in 1 .. Len(symbols),
               \A j \in 1 .. k - 1 : symbols[j].name # symbols[k].name
        PROVE  \E i \in 1 .. line' :
                 /\ MapText[i] = symbols[k]
                 /\ \A j \in 1 .. i - 1 : MapText[j].name # symbols[k].name
    BY <2>1, <2>3 DEF SymbolsInv
  <2>4. \A i \in 1 .. line' : MapText[i].name \notin Hidden =>
          \E k \in 1 .. Len(symbols) : symbols[k].name = MapText[i].name
    BY <2>2 DEF SymbolsInv
  <2>5. \A k \in 1 .. Len(symbols) : symbols[k].name \notin Hidden
    BY DEF SymbolsInv
  <2>6. \A k \in 1 .. Len(symbols') :
          /\ symbols'[k].name \notin Hidden
          /\ (\A j \in 1 .. k - 1 : symbols'[j].name # symbols'[k].name) =>
               \E i \in 1 .. line' :
                 /\ MapText[i] = symbols'[k]
                 /\ \A j \in 1 .. i - 1 : MapText[j].name # symbols'[k].name
    BY <2>1, <2>3, <2>5
  <2>7. \A i \in 1 .. line' : MapText[i].name \notin Hidden =>
          \E k \in 1 .. Len(symbols') : symbols'[k].name = MapText[i].name
    BY <2>1, <2>4
  <2>8. symbols' \in Seq([name : STRING, addr : Nat])
    BY <1>4, <2>1
  <2>. QED BY <1>0, <1>1, <2>6, <2>7, <2>8 DEF SymbolsInv
<1>6. CASE s.name \notin Hidden
  <2>1. /\ symbols' \in Seq([name : STRING, addr : Nat]) /\ Len(symbols') = Len(symbols) + 1
        /\ \A k \in 1 .. Len(symbols) : symbols'[k] = symbols[k]
        /\ symbols'[Len(symbols) + 1] = s
    BY <1>2, <1>3, <1>4, <1>6, AppendProperties
  <2>2. ASSUME NEW k \in 1 .. Len(symbols')
        PROVE  /\ symbols'[k].name \notin Hidden
               /\ (\A j \in 1 .. k - 1 : symbols'[j].name # symbols'[k].name) =>
                    \E i \in 1 .. line' :
                      /\ MapText[i] = symbols'[k]
                      /\ \A j \in 1 .. i - 1 : MapText[j].name # symbols'[k].name
    <3>1. CASE k \in 1 .. Len(symbols)
      <4>1. symbols'[k] = symbols[k] /\ \A j \in 1 .. k - 1 : symbols'[j] = symbols[j]
        BY <1>4, <2>1, <3>1
      <4>2. 1 .. line \subseteq 1 .. line'
        BY <1>1
      <4>3. /\ symbols[k].name \notin Hidden
            /\ (\A j \in 1 .. k - 1 : symbols[j].name # symbols[k].name) =>
                 \E i \in 1 .. line :
                   /\ MapText[i] = symbols[k]
                   /\ \A j \in 1 .. i - 1 : MapText[j].name # symbols[k].name
        BY <3>1 DEF SymbolsInv
      <4>. QED BY <4>1, <4>2, <4>3
    <3>2. CASE k = Len(symbols) + 1
      <4>1. symbols'[k] = s /\ s = MapText[line + 1]
        BY <2>1, <3>2 DEF s
      <4>2. line + 1 \in 1 .. line' /\ (line + 1) - 1 = line
        BY <1>1
      <4>3. ASSUME \A j \in 1 .. k - 1 : symbols'[j].name # s.name, NEW i \in 1 .. line
            PROVE  MapText[i].name # s.name
        <5>1. k - 1 = Len(symbols)
          BY <1>4, <3>2
        <5>2. \A j \in 1 .. Len(symbols) : symbols[j].name # s.name
          BY <2>1, <4>3, <5>1
        <5>3. MapText[i].name \notin Hidden =>
                \E j \in 1 .. Len(symbols) : symbols[j].name = MapText[i].name
          BY DEF SymbolsInv
        <5>. QED BY <1>6, <5>2, <5>3
      <4>. QED BY <1>6, <4>1, <4>2, <4>3
    <3>. QED BY <1>4, <2>1, <3>1, <3>2
  <2>3. ASSUME NEW i \in 1 .. line', MapText[i].name \notin Hidden
        PROVE  \E k \in 1 .. Len(symbols') : symbols'[k].name = MapText[i].name
    <3>1. CASE i \in 1 .. line
      <4>1. PICK k \in 1 .. Len(symbols) : symbols[k].name = MapText[i].name
        BY <3>1, <2>3 DEF SymbolsInv
      <4>. QED BY <4>1, <2>1, <1>4
    <3>2. CASE i = line + 1
      BY <1>4, <2>1, <3>2 DEF s
    <3>. QED BY <1>1, <3>1, <3>2
  <2>. QED BY <1>0, <1>1, <2>1, <2>2, <2>3 DEF SymbolsInv
<1>. QED BY <1>5, <1>6

(* With the whole map read symbol_lookup_name finds what a name means.     *)
LEMMA LookupMeans ==
  ASSUME SymbolsInv, MapRead, NEW name, LookupName(name) # 0
  PROVE  <<"map", LookupName(name)>> = Meant(MapText, name)
<1>. DEFINE hits == {k \in DOMAIN symbols : symbols[k].name = name}
            meant == {k \in DOMAIN MapText : MapText[k].name = name /\ name \notin Hidden}
<1>1. /\ DOMAIN symbols = 1 .. Len(symbols) /\ Len(symbols) \in Nat
      /\ DOMAIN MapText = 1 .. Len(MapText) /\ Len(MapText) \in Nat
  BY TextType, LenProperties DEF SymbolsInv
<1>2. hits # {} /\ LookupName(name) = symbols[CHOOSE k \in hits : \A j \in hits : k <= j].addr
  BY DEF LookupName
<1>3. hits \subseteq Nat /\ meant \subseteq Nat
  BY <1>1
<1>4. PICK k \in hits : \A j \in hits : k <= j
  <2>. HIDE DEF hits
  <2>. QED BY <1>2, <1>3, LeastNat
<1>5. LookupName(name) = symbols[k].addr
  <2>1. (CHOOSE x \in hits : \A j \in hits : x <= j) = k
    <3>. HIDE DEF hits
    <3>. QED BY <1>3, <1>4, FirstIs
  <2>. QED BY <1>2, <2>1
<1>6. k \in 1 .. Len(symbols) /\ symbols[k].name = name
  BY <1>1, <1>4
<1>7. \A j \in 1 .. k - 1 : symbols[j].name # name
  BY <1>1, <1>4, <1>6
<1>8. PICK i \in 1 .. Len(MapText) :
         /\ MapText[i] = symbols[k]
         /\ \A j \in 1 .. i - 1 : MapText[j].name # name
  BY <1>6, <1>7 DEF SymbolsInv, MapRead
<1>9. i \in meant /\ \A j \in meant : i <= j
  BY <1>1, <1>6, <1>8 DEF SymbolsInv
<1>10. (CHOOSE x \in meant : \A j \in meant : x <= j) = i
  <2>. HIDE DEF meant
  <2>. QED BY <1>3, <1>9, FirstIs
<1>. QED BY <1>5, <1>8, <1>10 DEF Meant

-----------------------------------------------------------------------------
(* The relocations                                                         *)

(* What the relocations of the sections before the n-th ask for.           *)
Asked(text, obj, n) ==
  UNION {{[place |-> <<obj.secs[j].info, obj.secs[j].rels[k].offset>>,
           kind |-> obj.secs[j].rels[k].kind,
           value |-> Value(text, obj, obj.syms[obj.secs[j].rels[k].sym])] :
             k \in DOMAIN obj.secs[j].rels} :
         j \in {i \in 1 .. n - 1 : obj.secs[i].kind = "rel"}}

LEMMA AskedAll ==
  ASSUME NEW text, NEW obj, WellFormed(obj)
  PROVE  Asked(text, obj, Len(obj.secs) + 1) = Linked(text, obj)
<1>1. DOMAIN obj.secs = 1 .. Len(obj.secs) + 1 - 1
  BY LenProperties DEF WellFormed
<1>. QED BY <1>1 DEF Asked, Linked

LEMMA AskedNext ==
  ASSUME NEW text, NEW obj, NEW n \in Nat \ {0}
  PROVE  Asked(text, obj, n + 1) =
           Asked(text, obj, n) \cup
             (IF obj.secs[n].kind = "rel"
              THEN {[place |-> <<obj.secs[n].info, obj.secs[n].rels[k].offset>>,
                     kind |-> obj.secs[n].rels[k].kind,
                     value |-> Value(text, obj, obj.syms[obj.secs[n].rels[k].sym])] :
                      k \in DOMAIN obj.secs[n].rels}
              ELSE {})
<1>. DEFINE R(j) == {[place |-> <<obj.secs[j].info, obj.secs[j].rels[k].offset>>,
                      kind |-> obj.secs[j].rels[k].kind,
                      value |-> Value(text, obj, obj.syms[obj.secs[j].rels[k].sym])] :
                        k \in DOMAIN obj.secs[j].rels}
            S(m) == {i \in 1 .. m - 1 : obj.secs[i].kind = "rel"}
<1>1. \A m : Asked(text, obj, m) = UNION {R(j) : j \in S(m)}
  BY DEF Asked
<1>2. CASE obj.secs[n].kind = "rel"
  <2>1. S(n + 1) = S(n) \cup {n}
    BY <1>2
  <2>2. Asked(text, obj, n + 1) = UNION {R(j) : j \in S(n) \cup {n}}
    BY <1>1, <2>1
  <2>3. UNION {R(j) : j \in S(n) \cup {n}} = (UNION {R(j) : j \in S(n)}) \cup R(n)
    <3>. HIDE DEF R, S
    <3>. QED OBVIOUS
  <2>4. Asked(text, obj, n + 1) = Asked(text, obj, n) \cup R(n)
    BY <1>1, <2>2, <2>3
  <2>. QED BY <1>2, <2>4
<1>3. CASE obj.secs[n].kind # "rel"
  <2>1. S(n + 1) = S(n)
    BY <1>3
  <2>2. Asked(text, obj, n + 1) = Asked(text, obj, n)
    BY <1>1, <2>1
  <2>. QED BY <1>3, <2>2
<1>. QED BY <1>2, <1>3

(* The object that is being loaded.                                        *)
LEMMA ObjectIs ==
  ASSUME LoadType, objects \in Discs, mpc # "idle"
  PROVE  /\ WellFormed(Object) /\ Object = objects[opened[Load]]
         /\ ShNum = Len(Object.secs) + 1 /\ Len(Object.secs) \in Nat /\ Len(Object.syms) \in Nat
         /\ DOMAIN Object.secs = 1 .. Len(Object.secs)
         /\ DOMAIN Object.syms = 1 .. Len(Object.syms)
         /\ Load \in Nat /\ Load > 0
<1>1. Load \in Nat /\ Load > 0
  BY LoadIs
<1>2. Object = objects[opened[Load]] /\ opened[Load] \in DOMAIN objects
  BY <1>1, ElementOfSeq DEF Object, Last, Load, LoadType
<1>3. WellFormed(Object)
  BY <1>2, ModuleAssumption
<1>. QED BY <1>1, <1>2, <1>3, LenProperties DEF WellFormed, ShNum

(* The symbols resolved so far have the value they should have.            *)
Resolved ==
  /\ mpc \in {"mod", "buffer", "read"} => st_value = <<>> /\ patched = {}
  /\ mpc \in {"symbols", "relocations", "init", "running"} =>
       /\ DOMAIN st_value = 1 .. Len(st_value) /\ Len(st_value) \in Nat
       /\ Len(st_value) <= Len(Object.syms)
       /\ \A k \in 1 .. Len(st_value) : st_value[k] = Value(MapText, Object, Object.syms[k])
  /\ mpc = "symbols" => patched = {}
  /\ mpc \in {"relocations", "init", "running"} => Len(st_value) = Len(Object.syms)

(* The relocations of the sections passed are applied, unless one is of a  *)
(* type nobody knows or ret was not 0 by chance.                           *)
Relocated ==
  Load \notin garbage /\ Linkable(Object) =>
    /\ mpc = "relocations" => /\ shndx \in 1 .. ShNum /\ ret \in {0, 1}
                              /\ patched = Asked(MapText, Object, shndx)
    /\ mpc = "init" => patched = Linked(MapText, Object)

RanLinked == LinkedBeforeRun /\ \A r \in ran : r.load \in 1 .. Load

BehindMap == {"map", "modules", "menu", "loader", "boot", "dead"}

LinkInv ==
  /\ LoadType /\ objects \in Discs
  /\ main \notin BehindMap => line = 0 /\ symbols = <<>> /\ mpc = "idle" /\ ran = {}
  /\ SymbolsInv
  /\ mpc # "idle" \/ main \in {"modules", "menu", "loader"} => MapRead
  /\ Resolved /\ Relocated /\ RanLinked

LEMMA PatchIs ==
  ASSUME LinkInv, mpc = "relocations", NEW j \in DOMAIN Object.secs,
         Object.secs[j].kind = "rel"
  PROVE  {Patch(Object.secs[j], k) : k \in DOMAIN Object.secs[j].rels}
           = {[place |-> <<Object.secs[j].info, Object.secs[j].rels[k].offset>>,
               kind |-> Object.secs[j].rels[k].kind,
               value |-> Value(MapText, Object, Object.syms[Object.secs[j].rels[k].sym])] :
                 k \in DOMAIN Object.secs[j].rels}
<1>1. ASSUME NEW k \in DOMAIN Object.secs[j].rels
      PROVE  st_value[Object.secs[j].rels[k].sym]
               = Value(MapText, Object, Object.syms[Object.secs[j].rels[k].sym])
  <2>1. WellFormed(Object) /\ DOMAIN Object.syms = 1 .. Len(Object.syms)
    BY ObjectIs DEF LinkInv
  <2>2. Object.secs[j].rels[k].sym \in 1 .. Len(Object.syms)
    BY <2>1 DEF WellFormed
  <2>. QED BY <2>2 DEF LinkInv, Resolved
<1>. QED BY <1>1 DEF Patch

LEMMA RelocationKeeps ==
  ASSUME LinkInv, ResolveRelocations
  PROVE  Relocated'
<1>. DEFINE s == Object.secs[shndx]
            counts == s.info < ShNum
            rel == counts /\ s.kind = "rel"
<1>0. UNCHANGED <<objects, opened, misread, leftover>> /\ mpc = "relocations" /\ shndx < ShNum
  BY DEF ResolveRelocations, symtab
<1>1. /\ WellFormed(Object) /\ ShNum = Len(Object.secs) + 1 /\ Len(Object.secs) \in Nat
      /\ DOMAIN Object.secs = 1 .. Len(Object.secs)
      /\ Object' = Object /\ Load' = Load /\ ShNum' = ShNum
  BY <1>0, ObjectIs DEF LinkInv, Object, Load, ShNum
<1>2. /\ patched' = patched \cup (IF rel THEN {Patch(s, k) : k \in Good(s.rels)} ELSE {})
      /\ ret' = IF rel THEN (IF Good(s.rels) = DOMAIN s.rels THEN 0 ELSE 8) ELSE ret
      /\ garbage' = IF counts /\ ~ rel /\ ret = 1 THEN garbage \cup {Load} ELSE garbage
      /\ IF counts /\ ret' # 0 THEN mpc' = "init" /\ UNCHANGED shndx
         ELSE shndx' = shndx + 1 /\ UNCHANGED mpc
  BY DEF ResolveRelocations
<1>. SUFFICES ASSUME Load \notin garbage', Linkable(Object)
              PROVE  /\ mpc' = "relocations" => /\ shndx' \in 1 .. ShNum /\ ret' \in {0, 1}
                                                /\ patched' = Asked(MapText, Object, shndx')
                     /\ mpc' = "init" => patched' = Linked(MapText, Object)
  <2>. QED BY <1>0, <1>1, SameText DEF Relocated
<1>3. Load \notin garbage /\ shndx \in 1 .. ShNum /\ ret \in {0, 1} /\ patched = Asked(MapText, Object, shndx)
  BY <1>0, <1>2 DEF LinkInv, Relocated
<1>4. shndx \in DOMAIN Object.secs
  BY <1>0, <1>1, <1>3
<1>5. /\ s.rels \in Seq([offset : Nat, sym : Nat, kind : STRING])
      /\ s.kind = "rel" => counts
  <2>1. s \in [kind : STRING, info : Nat,
               rels : Seq([offset : Nat, sym : Nat, kind : STRING])]
    BY <1>1, <1>4, ElementOfSeq DEF WellFormed
  <2>2. s.kind = "rel" => s.info <= Len(Object.secs)
    BY <1>1, <1>4 DEF WellFormed
  <2>. QED BY <1>1, <2>1, <2>2
<1>6. ASSUME s.kind = "rel" PROVE Good(s.rels) = DOMAIN s.rels
  <2>2. DOMAIN s.rels = 1 .. Len(s.rels) /\ Len(s.rels) \in Nat
    BY <1>5, LenProperties
  <2>3. \A k \in DOMAIN s.rels : s.rels[k].kind \in Known
    BY <1>4 DEF Linkable
  <2>. HIDE DEF s
  <2>. QED BY <2>2, <2>3 DEF Good
<1>7. patched' = Asked(MapText, Object, shndx + 1)
  <2>1. CASE s.kind = "rel"
    <3>1. patched' = patched \cup {Patch(s, k) : k \in DOMAIN s.rels}
      BY <1>2, <1>5, <1>6, <2>1
    <3>. QED BY <1>0, <1>3, <1>4, <2>1, <3>1, PatchIs, AskedNext
  <2>2. CASE s.kind # "rel"
    BY <1>2, <1>3, <2>2, AskedNext
  <2>. QED BY <2>1, <2>2
<1>8. ~ (counts /\ ret' # 0)
  BY <1>2, <1>3, <1>5, <1>6
<1>9. mpc' = "relocations" /\ shndx' = shndx + 1 /\ ret' \in {0, 1}
  BY <1>0, <1>2, <1>3, <1>8
<1>. QED BY <1>0, <1>1, <1>3, <1>7, <1>9

(* What a step does to the loads whose init function ran before.           *)
LEMMA RanKeeps ==
  ASSUME LoadType, RanLinked, UNCHANGED <<objects, ran, misread, leftover>>, garbage \subseteq garbage',
         \/ UNCHANGED opened
         \/ \E name : opened' = Append(opened, name) /\ name \in DOMAIN objects
  PROVE  RanLinked'
<1>0. MapText' = MapText
  BY SameText
<1>1. Load \in Nat /\ Load' \in Nat /\ Load' >= Load
  BY LoadIs, AppendProperties DEF LoadType, Load
<1>2. \A k \in 1 .. Load : opened'[k] = opened[k]
  BY AppendProperties DEF LoadType, Load
<1>3. \A r \in ran : r.load \in 1 .. Load /\ opened'[r.load] = opened[r.load]
  BY <1>2 DEF RanLinked
<1>4. \A r \in ran : r.load \in 1 .. Load'
  BY <1>1, <1>3
<1>5. LinkedBeforeRun'
  <2>. SUFFICES ASSUME NEW r \in ran, r.load \notin garbage',
                       Linkable(objects[opened'[r.load]])
                PROVE  r.fixed = Linked(MapText, objects[opened'[r.load]]) /\ r.entry[1] = "buf"
    BY <1>0 DEF LinkedBeforeRun
  <2>1. opened'[r.load] = opened[r.load] /\ r.load \notin garbage
    BY <1>3
  <2>. QED BY <2>1 DEF RanLinked, LinkedBeforeRun
<1>. QED BY <1>4, <1>5 DEF RanLinked

(* A step that leaves the object in work and its symbols alone.            *)
LEMMA LoadKeeps ==
  ASSUME LinkInv, UNCHANGED <<objects, line, symbols, misread, leftover, opened, ran>>, garbage \subseteq garbage',
         LoadType', mpc # "idle", main' \in BehindMap, Resolved', Relocated'
  PROVE  LinkInv'
<1>1. MapRead' /\ SymbolsInv'
  <2>1. MapRead /\ SymbolsInv
    BY DEF LinkInv
  <2>. QED BY <2>1, SymbolsStay
<1>. QED BY <1>1, RanKeeps DEF LinkInv

LEMMA ObjectKeeps ==
  ASSUME UNCHANGED <<objects, opened, misread, leftover>>
  PROVE  /\ Object' = Object /\ Load' = Load /\ ShNum' = ShNum /\ NoBits' = NoBits
         /\ MapText' = MapText
  BY DEF Object, Load, ShNum, NoBits, MapText

(* The value of a symbol that is resolved.                                 *)
LEMMA ResolveKeeps ==
  ASSUME LinkInv, ResolveSymbol, LoadType', main' \in BehindMap
  PROVE  LinkInv'
<1>. DEFINE s == Object.syms[Len(st_value) + 1]
            v == CASE s.sec = SHN_ABS   -> <<"file", 0>>
                   [] s.sec = SHN_UNDEF -> <<"map", LookupName(s.name)>>
                   [] OTHER             -> ShAddr(s.sec)
<1>1. /\ mpc = "symbols" /\ Len(st_value) < Len(Object.syms)
      /\ UNCHANGED <<objects, line, symbols, misread, leftover, opened, patched, ran, garbage>>
  BY DEF ResolveSymbol, Fails, symtab
<1>2. Object' = Object /\ Load' = Load /\ ShNum' = ShNum /\ MapText' = MapText
  BY <1>1, ObjectKeeps
<1>3. CASE Fails("symbols")
  BY <1>1, <1>3, LoadKeeps DEF Fails, Resolved, Relocated
<1>4. CASE ~ Fails("symbols")
  <2>1. v # <<"map", 0>> /\ st_value' = Append(st_value, v) /\ UNCHANGED mpc
    BY <1>4 DEF ResolveSymbol
  <2>2. /\ Len(st_value) \in Nat /\ DOMAIN st_value = 1 .. Len(st_value)
        /\ \A k \in 1 .. Len(st_value) : st_value[k] = Value(MapText, Object, Object.syms[k])
        /\ patched = {}
    BY <1>1 DEF LinkInv, Resolved
  <2>3. v = Value(MapText, Object, s)
    <3>1. /\ WellFormed(Object) /\ Len(st_value) + 1 \in DOMAIN Object.syms
      BY <1>1, <2>2, ObjectIs DEF LinkInv
    <3>2. s.sec \in {-1, 0} \cup DOMAIN Object.secs
      BY <3>1 DEF WellFormed
    <3>. HIDE DEF s
    <3>3. CASE s.sec = SHN_ABS
      BY <3>3 DEF Value, SHN_ABS, SHN_UNDEF
    <3>4. CASE s.sec = SHN_UNDEF
      <4>1. v = <<"map", LookupName(s.name)>>
        BY <3>4 DEF SHN_ABS, SHN_UNDEF
      <4>2. LookupName(s.name) # 0
        BY <2>1, <4>1
      <4>3. v = Meant(MapText, s.name)
        BY <1>1, <4>1, <4>2, LookupMeans DEF LinkInv
      <4>. QED BY <3>4, <4>3 DEF Value, SHN_ABS, SHN_UNDEF
    <3>5. CASE s.sec \in DOMAIN Object.secs /\ s.sec # SHN_ABS /\ s.sec # SHN_UNDEF
      <4>1. v = ShAddr(s.sec)
        BY <3>5
      <4>2. s.sec \in NoBits <=> Object.secs[s.sec].kind = "nobits"
        BY <3>5 DEF NoBits
      <4>. QED BY <3>5, <4>1, <4>2 DEF Value, ShAddr
    <3>. QED BY <3>2, <3>3, <3>4, <3>5 DEF SHN_ABS, SHN_UNDEF
  <2>. HIDE DEF v
  <2>4. /\ DOMAIN st_value' = 1 .. Len(st_value') /\ Len(st_value') = Len(st_value) + 1
        /\ \A k \in 1 .. Len(st_value) : st_value'[k] = st_value[k]
        /\ st_value'[Len(st_value) + 1] = v
    BY <2>1, <2>2
  <2>5. \A k \in 1 .. Len(st_value') : st_value'[k] = Value(MapText, Object, Object.syms[k])
    BY <2>2, <2>3, <2>4
  <2>6. Resolved'
    BY <1>1, <1>2, <2>1, <2>2, <2>4, <2>5 DEF Resolved
  <2>7. Relocated'
    BY <1>1, <2>1 DEF Relocated
  <2>. QED BY <1>1, <2>6, <2>7, LoadKeeps
<1>. QED BY <1>3, <1>4

(* The call of init_module.                                                *)
LEMMA CallKeeps ==
  ASSUME LinkInv, CallInit, LoadType', main' \in BehindMap
  PROVE  LinkInv'
<1>. DEFINE r0 == [load |-> Load, entry |-> Entry("init_module"), fixed |-> patched]
<1>1. /\ mpc = "init" /\ mpc' = "running" /\ ran' = ran \cup {r0}
      /\ UNCHANGED <<objects, line, symbols, misread, leftover, opened, patched, st_value>>
      /\ garbage' = IF "init_module" \in Missing THEN garbage \cup {Load} ELSE garbage
  BY DEF CallInit, symtab
<1>2. /\ Object' = Object /\ Load' = Load /\ ShNum' = ShNum
      /\ MapText' = MapText
  BY <1>1, ObjectKeeps
<1>3. MapRead' /\ SymbolsInv' /\ Resolved' /\ Relocated'
  <2>1. MapRead' /\ SymbolsInv'
    BY <1>1, SymbolsStay DEF LinkInv
  <2>2. Resolved'
    BY <1>1, <1>2 DEF LinkInv, Resolved
  <2>3. Relocated'
    BY <1>1 DEF Relocated
  <2>. QED BY <2>1, <2>2, <2>3
<1>4. /\ WellFormed(Object) /\ Object = objects[opened[Load]] /\ Load \in Nat /\ Load > 0
      /\ DOMAIN Object.syms = 1 .. Len(Object.syms) /\ Len(Object.syms) \in Nat
  BY <1>1, ObjectIs DEF LinkInv
<1>5. \A k \in DOMAIN Object.syms : st_value[k] = Value(MapText, Object, Object.syms[k])
  BY <1>1, <1>4 DEF LinkInv, Resolved
<1>6. ASSUME Load \notin garbage', Linkable(Object)
      PROVE  patched = Linked(MapText, Object) /\ Entry("init_module")[1] = "buf"
  <2>1. Load \notin garbage /\ "init_module" \notin Missing
    BY <1>1, <1>6
  <2>2. patched = Linked(MapText, Object)
    BY <1>1, <1>6, <2>1 DEF LinkInv, Relocated
  <2>3. Entry("init_module") # <<"garbage", "init_module">>
    BY <2>1 DEF Missing
  <2>. DEFINE hits == {k \in DOMAIN Object.syms : Object.syms[k].name = "init_module"}
  <2>4. hits # {} /\ Entry("init_module") = st_value[CHOOSE k \in hits : \A j \in hits : k <= j]
    BY <2>3 DEF Entry
  <2>5. hits \subseteq Nat
    BY <1>4
  <2>6. PICK k \in hits : \A j \in hits : k <= j
    <3>. HIDE DEF hits
    <3>. QED BY <2>4, <2>5, LeastNat
  <2>7. (CHOOSE x \in hits : \A j \in hits : x <= j) = k
    <3>. HIDE DEF hits
    <3>. QED BY <2>5, <2>6, FirstIs
  <2>8. Entry("init_module") = Value(MapText, Object, Object.syms[k])
    BY <1>5, <2>4, <2>7
  <2>9. Object.syms[k].sec \in DOMAIN Object.secs
        /\ Object.syms[k].sec > 0 /\ Object.secs[Object.syms[k].sec].kind # "nobits"
    <3>1. k \in DOMAIN Object.syms /\ Object.syms[k].name = "init_module"
      BY <2>6
    <3>2. /\ Object.syms[k].sec \in {-1, 0} \cup DOMAIN Object.secs
          /\ Object.syms[k].sec > 0 /\ Object.secs[Object.syms[k].sec].kind # "nobits"
      BY <1>4, <3>1 DEF WellFormed
    <3>. QED BY <3>2
  <2>. QED BY <2>2, <2>8, <2>9 DEF Value, SHN_ABS, SHN_UNDEF
<1>7. RanLinked'
  <2>1. \A r \in ran' : r.load \in 1 .. Load
    BY <1>1, <1>4 DEF LinkInv, RanLinked
  <2>2. LinkedBeforeRun'
    <3>. SUFFICES ASSUME NEW r \in ran', r.load \notin garbage',
                         Linkable(objects[opened[r.load]])
                  PROVE  r.fixed = Linked(MapText, objects[opened[r.load]]) /\ r.entry[1] = "buf"
      BY <1>1, <1>2 DEF LinkedBeforeRun
    <3>1. CASE r \in ran
      <4>1. r.load \notin garbage
        BY <1>1
      <4>. QED BY <3>1, <4>1 DEF LinkInv, RanLinked, LinkedBeforeRun
    <3>2. CASE r = r0
      BY <1>4, <1>6, <3>2
    <3>. QED BY <1>1, <3>1, <3>2
  <2>. QED BY <1>2, <2>1, <2>2 DEF RanLinked
<1>. QED BY <1>1, <1>3, <1>7 DEF LinkInv

(* The other steps of module_open.                                         *)
LEMMA StepLinks ==
  ASSUME LinkInv, ModuleStep, LoadType', main' \in BehindMap
  PROVE  LinkInv'
<1>1. CASE AllocModule \/ AllocBuffer \/ LoadSections
  <2>1. /\ mpc \in {"mod", "buffer", "read"} /\ UNCHANGED <<objects, line, symbols, misread, leftover, opened, ran>>
        /\ UNCHANGED <<st_value, patched>> /\ garbage \subseteq garbage'
        /\ mpc' \in {"buffer", "read", "symbols", "failed", "astray"}
    BY <1>1 DEF AllocModule, AllocBuffer, LoadSections, Fails, symtab
  <2>2. Object' = Object /\ Load' = Load /\ ShNum' = ShNum
    BY <2>1, ObjectKeeps
  <2>3. st_value = <<>> /\ patched = {} /\ Len(Object.syms) \in Nat
    BY <2>1, ObjectIs DEF LinkInv, Resolved
  <2>4. Resolved' /\ Relocated'
    BY <2>1, <2>2, <2>3 DEF Resolved, Relocated
  <2>. QED BY <2>1, <2>4, LoadKeeps
<1>2. CASE ResolveSymbol
  BY <1>2, ResolveKeeps
<1>3. CASE SymbolsResolved
  <2>1. /\ mpc = "symbols" /\ mpc' = "relocations" /\ shndx' = 1 /\ ret' \in {0, 1}
        /\ UNCHANGED <<objects, line, symbols, misread, leftover, opened, ran, st_value, patched, garbage>>
        /\ Len(st_value) = Len(Object.syms)
    BY <1>3 DEF SymbolsResolved, symtab
  <2>2. /\ Object' = Object /\ Load' = Load /\ ShNum' = ShNum /\ MapText' = MapText
        /\ ShNum = Len(Object.secs) + 1 /\ Len(Object.secs) \in Nat
    BY <2>1, ObjectKeeps, ObjectIs DEF LinkInv
  <2>3. patched = {} /\ Asked(MapText, Object, 1) = {}
    BY <2>1 DEF LinkInv, Resolved, Asked
  <2>4. Resolved'
    BY <2>1, <2>2 DEF LinkInv, Resolved
  <2>5. Relocated'
    BY <2>1, <2>2, <2>3 DEF Relocated
  <2>. QED BY <2>1, <2>4, <2>5, LoadKeeps
<1>4. CASE ResolveRelocations
  <2>1. /\ mpc = "relocations" /\ mpc' \in {"relocations", "init"}
        /\ UNCHANGED <<objects, line, symbols, misread, leftover, opened, ran, st_value>>
        /\ garbage \subseteq garbage'
    BY <1>4 DEF ResolveRelocations, symtab
  <2>2. Resolved'
    BY <2>1, ObjectKeeps DEF LinkInv, Resolved
  <2>. QED BY <1>4, <2>1, <2>2, RelocationKeeps, LoadKeeps
<1>5. CASE RelocationsDone
  <2>1. /\ mpc = "relocations" /\ mpc' = "init" /\ shndx = ShNum
        /\ UNCHANGED <<objects, line, symbols, misread, leftover, opened, ran, st_value, patched, garbage>>
    BY <1>5 DEF RelocationsDone, symtab
  <2>2. /\ Object' = Object /\ Load' = Load /\ ShNum = Len(Object.secs) + 1
        /\ WellFormed(Object) /\ MapText' = MapText
    BY <2>1, ObjectKeeps, ObjectIs DEF LinkInv
  <2>3. Resolved'
    BY <2>1, <2>2 DEF LinkInv, Resolved
  <2>4. Asked(MapText, Object, shndx) = Linked(MapText, Object)
    BY <2>1, <2>2, AskedAll
  <2>5. Relocated'
    BY <2>1, <2>2, <2>4 DEF LinkInv, Relocated
  <2>. QED BY <2>1, <2>3, <2>5, LoadKeeps
<1>6. CASE CallInit
  BY <1>6, CallKeeps
<1>7. CASE NoEntry \/ InitReturns
  <2>1. /\ mpc \in {"init", "running"} /\ mpc' \in {"loaded", "failed"}
        /\ UNCHANGED <<objects, line, symbols, misread, leftover, opened, ran, garbage>>
    BY <1>7 DEF NoEntry, InitReturns, Fails, symtab
  <2>2. Resolved' /\ Relocated'
    BY <2>1 DEF Resolved, Relocated
  <2>. QED BY <2>1, <2>2, LoadKeeps
<1>. QED BY <1>1, <1>2, <1>3, <1>4, <1>5, <1>6, <1>7 DEF ModuleStep

LEMMA OpenLinks ==
  ASSUME LinkInv, NEW name, ModuleOpen(name), MapRead, LoadType', main' \in BehindMap
  PROVE  LinkInv'
<1>1. /\ mpc' = "mod" /\ opened' = Append(opened, name) /\ name \in DOMAIN objects
      /\ st_value' = <<>> /\ patched' = {}
      /\ UNCHANGED <<objects, line, symbols, misread, leftover, ran, garbage>>
  BY DEF ModuleOpen, symtab
<1>2. Resolved' /\ Relocated'
  BY <1>1 DEF Resolved, Relocated
<1>3. RanLinked'
  BY <1>1, RanKeeps DEF LinkInv
<1>4. MapRead' /\ SymbolsInv'
  BY <1>1, SymbolsStay DEF LinkInv
<1>. QED BY <1>1, <1>2, <1>3, <1>4 DEF LinkInv

LEMMA LinkNext ==
  ASSUME LinkInv, [Next]_vars, LoadType'
  PROVE  LinkInv'
<1>1. CASE /\ UNCHANGED mvars
           /\ main' \in {"modules", "menu", "loader"} => MapRead
           /\ main' \notin BehindMap => main \notin BehindMap
  <2>1. UNCHANGED <<objects, line, symbols, misread, leftover, mpc, opened, shndx, ret, st_value,
                    patched, ran, garbage>>
    BY <1>1 DEF mvars, symtab
  <2>2. MapRead' = MapRead /\ SymbolsInv'
    BY <2>1, SymbolsStay DEF LinkInv
  <2>3. Resolved'
    BY <2>1, ObjectKeeps DEF LinkInv, Resolved
  <2>4. Relocated'
    BY <2>1, ObjectKeeps DEF LinkInv, Relocated, Linkable
  <2>5. RanLinked'
    BY <2>1, RanKeeps DEF LinkInv
  <2>. QED BY <1>1, <2>1, <2>2, <2>3, <2>4, <2>5 DEF LinkInv
<1>2. CASE EarlyStage
  BY <1>1, <1>2 DEF EarlyStage, Stages, BehindMap
<1>3. CASE SymbolsInit
  <2>1. CASE Dies
    BY <1>1, <2>1 DEF Dies, BehindMap
  <2>2. CASE ~ Dies
    <3>1. /\ main = "symbols" /\ main' = "map" /\ misread' \in BOOLEAN /\ leftover' \in Leftovers
          /\ UNCHANGED <<objects, line, symbols, mpc, opened, st_value, patched, ran, garbage>>
      BY <1>3, <2>2 DEF SymbolsInit, ReadMap
    <3>2. line = 0 /\ symbols = <<>> /\ mpc = "idle" /\ ran = {}
      BY <3>1 DEF LinkInv, BehindMap
    <3>3. SymbolsInv'
      <4>1. leftover' \in Seq([name : STRING, addr : Nat])
        BY <3>1, ModuleAssumption
      <4>2. MapLines \o leftover' \in Seq([name : STRING, addr : Nat])
        BY <4>1, ModuleAssumption, ConcatProperties
      <4>3. MapText' \in Seq([name : STRING, addr : Nat])
        BY <4>1, <4>2 DEF MapText
      <4>4. Len(MapText') \in Nat
        BY <4>3, LenProperties
      <4>. QED BY <3>1, <3>2, <4>4 DEF SymbolsInv
    <3>4. Resolved' /\ Relocated' /\ RanLinked'
      BY <3>1, <3>2 DEF Resolved, Relocated, RanLinked, LinkedBeforeRun
    <3>. QED BY <3>1, <3>2, <3>3, <3>4 DEF LinkInv, BehindMap
  <2>. QED BY <2>1, <2>2
<1>4. CASE ParseMap
  <2>1. CASE ParseLine /\ UNCHANGED main
    <3>1. mpc = "idle" /\ main = "map"
          /\ UNCHANGED <<objects, misread, leftover, mpc, opened, ran, garbage>>
      BY <1>4, <2>1 DEF LinkInv, ParseLine, ParseMap
    <3>2. SymbolsInv' /\ Resolved' /\ Relocated'
      BY <2>1, <3>1, ParseLineKeeps DEF LinkInv, Resolved, Relocated
    <3>3. RanLinked'
      BY <3>1, RanKeeps DEF LinkInv
    <3>. QED BY <2>1, <3>1, <3>2, <3>3 DEF LinkInv, BehindMap
  <2>. QED BY <1>1, <1>4, <2>1 DEF ParseMap, Dies, BehindMap
<1>5. CASE OpenModule \/ InitLoader
  <2>1. MapRead /\ main \in BehindMap
    BY <1>5 DEF OpenModule, InitLoader, LinkInv, BehindMap
  <2>2. CASE \E name : ModuleOpen(name)
    <3>1. main' \in BehindMap
      BY <1>5, <2>1 DEF OpenModule, InitLoader, Dies, BehindMap
    <3>. QED BY <2>1, <2>2, <3>1, OpenLinks
  <2>. QED BY <1>1, <1>5, <2>1, <2>2 DEF OpenModule, InitLoader, Dies, BehindMap
<1>6. CASE ModuleEnds
  <2>1. /\ mpc # "idle" /\ mpc' = "idle" /\ main' \in BehindMap
        /\ UNCHANGED <<objects, line, symbols, misread, leftover, opened, ran, garbage>>
    BY <1>6 DEF ModuleEnds, ModuleDone, symtab, LinkInv, BehindMap
  <2>2. Resolved' /\ Relocated'
    BY <2>1 DEF Resolved, Relocated
  <2>. QED BY <2>1, <2>2, LoadKeeps
<1>7. CASE BootKernel \/ RunKernel \/ UNCHANGED vars
  BY <1>1, <1>7 DEF BootKernel, RunKernel, vars, LinkInv
<1>8. CASE RunModule
  <2>1. mpc # "idle" /\ main' = main
    BY <1>8 DEF RunModule, ModuleStep, AllocModule, AllocBuffer, LoadSections, ResolveSymbol,
                SymbolsResolved, ResolveRelocations, RelocationsDone, CallInit, NoEntry, InitReturns
  <2>2. main' \in BehindMap
    BY <2>1 DEF LinkInv
  <2>. QED BY <1>8, <2>2, StepLinks DEF RunModule
<1>. QED BY <1>2, <1>3, <1>4, <1>5, <1>6, <1>7, <1>8 DEF Next

(* The symbols resolved and the relocations applied so far are what the    *)
(* map and the object as a whole ask for.                                  *)
THEOREM LinkingInductive == Spec => []LinkInv
<1>1. Init => LinkInv
  <2>. SUFFICES ASSUME Init PROVE LinkInv
    OBVIOUS
  <2>1. /\ opened = <<>> /\ mpc = "idle" /\ symbols = <<>> /\ line = 0 /\ ran = {}
        /\ objects \in Discs /\ main = "page_alloc_init"
        /\ misread = FALSE /\ leftover = <<>>
    BY DEF Init, ModuleInit, Stages
  <2>2. LoadType /\ RanLinked /\ Resolved /\ Relocated
    BY <2>1 DEF LoadType, Steps, RanLinked, LinkedBeforeRun, Resolved, Relocated
  <2>3. SymbolsInv
    <3>1. <<>> \in Seq([name : STRING, addr : Nat])
      OBVIOUS
    <3>2. MapLines \o <<>> \in Seq([name : STRING, addr : Nat])
      BY <3>1, ModuleAssumption, ConcatProperties
    <3>3. Len(MapText) \in Nat
      BY <2>1, <3>2, LenProperties DEF MapText
    <3>4. symbols \in Seq([name : STRING, addr : Nat]) /\ Len(symbols) = 0
      BY <2>1
    <3>5. line \in 0 .. Len(MapText) /\ ~ \E i \in 1 .. line : TRUE
      BY <2>1, <3>3
    <3>6. ~ \E k \in 1 .. Len(symbols) : TRUE
      BY <3>4
    <3>. QED BY <2>1, <3>4, <3>5, <3>6 DEF SymbolsInv
  <2>. QED BY <2>1, <2>2, <2>3 DEF LinkInv
<1>2. LinkInv /\ LoadType' /\ [Next]_vars => LinkInv'
  BY LinkNext
<1>3. HeapInv => LoadType
  BY DEF HeapInv
<1>. QED BY <1>1, <1>2, <1>3, LoadsInductive, PTL DEF Spec

(* When init_module is called every relocation is applied with the address *)
(* its symbol has in the map or in the module (module_resolve_symbols and  *)
(* module_resolve_relocations).                                            *)
THEOREM RunsLinked == Spec => []LinkedBeforeRun
<1>1. LinkInv => LinkedBeforeRun
  BY DEF LinkInv, RanLinked
<1>. QED BY <1>1, LinkingInductive, PTL

-----------------------------------------------------------------------------
(* The kernel *)

(* The steps of the loaders, and those in which a kernel is in work.       *)
KernelSteps == {"idle", "lxboot", "mboot1", "mboot2", "header", "setup", "code", "initrd",
                "jumped", "search", "elf", "prepared", "failed"}

KernelType ==
  /\ kernel \in Kernels /\ header \in Headers /\ kpc \in KernelSteps
  /\ found \in Int /\ stale \in BOOLEAN
  /\ main \in {"loader", "boot"} => kernel.prot \in DOMAIN LoaderModules

(* The part of the kernel behind the real mode code is in memory, where    *)
(* the initrd has not been copied over it.                                 *)
CodeInMemory ==
  \A i \in RmCells .. kernel.length - 1 :
    LET a == KernelAddr + i - RmCells
    IN  (kpc = "initrd" \/ a < InitrdAddr) => Holds(a, <<"kernel", i>>)

InitrdInMemory == \A i \in 0 .. kernel.initrd - 1 : Holds(InitrdAddr + i, <<"initrd", i>>)

(* What has been copied when no failed read was taken for success.         *)
Copied ==
  ~ stale =>
    /\ kpc \in {"code", "initrd", "jumped"} => rmcode = "kernel" /\ header.version >= 2
    /\ kpc \in {"initrd", "jumped"} => CodeInMemory
    /\ kpc = "jumped" => InitrdInMemory

(* The header of multiboot, once it is found.                              *)
HeaderFound ==
  (found >= 0 /\ found < SearchLimit /\ ~ stale) =>
    found \in kernel.headers \cap FirstWord(kernel.magics)

HandInv == KernelType /\ Copied /\ HeaderFound

KernelIs == kernel.head \in Headers /\ kernel.length \in Nat /\ kernel.initrd \in Nat
            /\ kernel.magics \subseteq Nat /\ kernel.headers \subseteq Nat /\ RmCells \in Nat
            /\ KernelAddr \in Nat /\ InitrdAddr \in Nat

LEMMA KernelFields ==
  ASSUME KernelType
  PROVE  KernelIs
<1>. QED BY KernelAssumption DEF KernelType, Headers, RmCells, KernelIs

(* A copy to memory, seen cell by cell.                                    *)
LEMMA FillIs ==
  ASSUME NEW source, NEW first \in Int, NEW base \in Int, NEW len \in Int
  PROVE  LET m == Fill(source, first, base, len)
         IN  /\ \A a : a \in DOMAIN m <=> a \in DOMAIN memory \/ a \in base .. base + len - 1
             /\ \A a \in base .. base + len - 1 : m[a] = <<source, first + a - base>>
             /\ \A a \in DOMAIN memory : a \notin base .. base + len - 1 => m[a] = memory[a]
<1>. QED BY DEF Fill

LEMMA CodeKeeps ==
  ASSUME HandInv, LxCode, UNCHANGED main
  PROVE  HandInv'
<1>1. KernelIs /\ HandInv
  BY KernelFields DEF HandInv
<1>2. PICK r \in Reads :
        /\ stale' = (stale \/ r = "negative")
        /\ memory' = IF r = "data"
                     THEN Fill("kernel", RmCells, KernelAddr, kernel.length - RmCells) ELSE memory
        /\ IF Succeeds(r) THEN Goes("initrd") ELSE GivesUp
  BY DEF LxCode, LxCopy
<1>3. kpc = "code" /\ UNCHANGED <<kernel, header, rmcode, found>> /\ RmCells' = RmCells
  BY DEF LxCode, LxCopy, RmCells
<1>4. kpc' \in {"initrd", "failed"} /\ (kpc' = "initrd" /\ ~ stale' => r = "data")
  BY <1>2 DEF Goes, GivesUp, Succeeds, Reads
<1>5. KernelType'
  BY <1>1, <1>2, <1>3, <1>4 DEF HandInv, KernelType, KernelSteps
<1>6. Copied'
  <2>. SUFFICES ASSUME ~ stale', kpc' = "initrd"
                PROVE  rmcode = "kernel" /\ header.version >= 2 /\ CodeInMemory'
    BY <1>3, <1>4 DEF Copied
  <2>1. rmcode = "kernel" /\ header.version >= 2
    BY <1>2, <1>3 DEF HandInv, Copied
  <2>. DEFINE len == kernel.length - RmCells
  <2>2. memory' = Fill("kernel", RmCells, KernelAddr, len)
    BY <1>2, <1>4
  <2>3. len \in Int /\ RmCells \in Int /\ KernelAddr \in Int
    BY <1>1 DEF KernelIs
  <2>4. ASSUME NEW i \in RmCells .. kernel.length - 1
        PROVE  Holds(KernelAddr + i - RmCells, <<"kernel", i>>)'
    <3>1. KernelAddr + i - RmCells \in KernelAddr .. KernelAddr + len - 1
      BY <1>1 DEF KernelIs
    <3>2. RmCells + (KernelAddr + i - RmCells) - KernelAddr = i
      BY <1>1 DEF KernelIs
    <3>. HIDE DEF len
    <3>3. KernelAddr + i - RmCells \in DOMAIN memory'
      BY <2>2, <2>3, <3>1, FillIs
    <3>4. memory'[KernelAddr + i - RmCells] = <<"kernel", i>>
      BY <2>2, <2>3, <3>1, <3>2, FillIs
    <3>. QED BY <1>3, <3>3, <3>4 DEF Holds
  <2>. QED BY <1>3, <2>1, <2>4 DEF CodeInMemory
<1>7. HeaderFound'
  BY <1>2, <1>3 DEF HandInv, HeaderFound, FirstWord
<1>. QED BY <1>5, <1>6, <1>7 DEF HandInv

LEMMA InitrdKeeps ==
  ASSUME HandInv, LxInitrd, UNCHANGED main
  PROVE  HandInv'
<1>1. KernelIs /\ HandInv
  BY KernelFields DEF HandInv
<1>2. PICK r \in Reads :
        /\ stale' = (stale \/ r = "negative")
        /\ memory' = IF r = "data" THEN Fill("initrd", 0, InitrdAddr, kernel.initrd) ELSE memory
        /\ IF Succeeds(r) THEN Goes("jumped") ELSE GivesUp
  BY DEF LxInitrd, LxCopy
<1>3. kpc = "initrd" /\ UNCHANGED <<kernel, header, rmcode, found>> /\ RmCells' = RmCells
  BY DEF LxInitrd, LxCopy, RmCells
<1>4. kpc' \in {"jumped", "failed"} /\ (kpc' = "jumped" /\ ~ stale' => r = "data")
  BY <1>2 DEF Goes, GivesUp, Succeeds, Reads
<1>5. KernelType'
  BY <1>1, <1>2, <1>3, <1>4 DEF HandInv, KernelType, KernelSteps
<1>6. Copied'
  <2>. SUFFICES ASSUME ~ stale', kpc' = "jumped"
                PROVE  rmcode = "kernel" /\ header.version >= 2 /\ CodeInMemory' /\ InitrdInMemory'
    BY <1>3, <1>4 DEF Copied
  <2>1. rmcode = "kernel" /\ header.version >= 2 /\ CodeInMemory
    BY <1>2, <1>3 DEF HandInv, Copied
  <2>2. memory' = Fill("initrd", 0, InitrdAddr, kernel.initrd)
    BY <1>2, <1>4
  <2>3. kernel.initrd \in Int /\ InitrdAddr \in Int
    BY <1>1 DEF KernelIs
  <2>4. ASSUME NEW i \in 0 .. kernel.initrd - 1
        PROVE  Holds(InitrdAddr + i, <<"initrd", i>>)'
    <3>1. InitrdAddr + i \in InitrdAddr .. InitrdAddr + kernel.initrd - 1
      BY <2>3
    <3>2. 0 + (InitrdAddr + i) - InitrdAddr = i
      BY <2>3
    <3>3. InitrdAddr + i \in DOMAIN memory'
      BY <2>2, <2>3, <3>1, FillIs
    <3>4. memory'[InitrdAddr + i] = <<"initrd", i>>
      BY <2>2, <2>3, <3>1, <3>2, FillIs
    <3>. QED BY <3>3, <3>4 DEF Holds
  <2>5. ASSUME NEW i \in RmCells .. kernel.length - 1, KernelAddr + i - RmCells < InitrdAddr
        PROVE  Holds(KernelAddr + i - RmCells, <<"kernel", i>>)'
    <3>. DEFINE a == KernelAddr + i - RmCells
    <3>1. a \in DOMAIN memory /\ memory[a] = <<"kernel", i>>
      BY <1>3, <2>1 DEF CodeInMemory, Holds
    <3>2. a \notin InitrdAddr .. InitrdAddr + kernel.initrd - 1
      BY <2>3, <2>5
    <3>. HIDE DEF a
    <3>3. a \in DOMAIN memory' /\ memory'[a] = memory[a]
      BY <2>2, <2>3, <3>1, <3>2, FillIs
    <3>. QED BY <1>3, <3>1, <3>3 DEF Holds, a
  <2>6. InitrdInMemory'
    BY <1>3, <2>4 DEF InitrdInMemory
  <2>7. CodeInMemory'
    BY <1>3, <2>5 DEF CodeInMemory
  <2>. QED BY <2>1, <2>6, <2>7
<1>7. HeaderFound'
  BY <1>2, <1>3 DEF HandInv, HeaderFound, FirstWord
<1>. QED BY <1>5, <1>6, <1>7 DEF HandInv

(* The search looks at the first word of the magic: that is the first one  *)
(* of the file if it lies in the buffer.                                   *)
LEMMA SearchKeeps ==
  ASSUME HandInv, MbSearch, UNCHANGED main
  PROVE  HandInv'
<1>1. KernelIs /\ HandInv
  BY KernelFields DEF HandInv
<1>2. PICK r \in Reads, again \in Reads, dirt \in SUBSET (0 .. SearchCount - 1) :
       LET words == IF r = "data" THEN {w \in kernel.magics : w < SearchLimit}
                                         \cup {w \in dirt : w >= SearchLimit}
                    ELSE dirt
       IN  /\ stale' = (stale \/ "negative" \in {r, again})
           /\ \/ /\ Succeeds(r) /\ Succeeds(again)
                 /\ \E w \in FirstWord(words) :
                      /\ again = "negative" \/ w \in kernel.headers
                      /\ found' = w /\ Goes("elf") /\ Allocs("header")
              \/ GivesUp /\ found' = found
  BY DEF MbSearch
<1>. DEFINE words == IF r = "data" THEN {w \in kernel.magics : w < SearchLimit}
                                          \cup {w \in dirt : w >= SearchLimit}
                     ELSE dirt
<1>3. UNCHANGED <<kernel, header>>
  BY DEF MbSearch
<1>4. words \subseteq Int /\ SearchLimit \in Int
  <2>1. dirt \subseteq Int /\ kernel.magics \subseteq Int
    BY <1>1 DEF KernelIs
  <2>2. \A w \in words : w \in dirt \/ w \in kernel.magics
    OBVIOUS
  <2>3. words \subseteq Int
    <3>. HIDE DEF words
    <3>. QED BY <2>1, <2>2
  <2>4. SearchLimit \in Int
    BY KernelAssumption
  <2>. QED BY <2>3, <2>4
<1>5. CASE GivesUp /\ found' = found
  BY <1>1, <1>2, <1>3, <1>5 DEF HandInv, KernelType, KernelSteps, Copied, HeaderFound, GivesUp, Goes
<1>6. CASE \E w \in FirstWord(words) :
             /\ again = "negative" \/ w \in kernel.headers
             /\ found' = w /\ Goes("elf") /\ Succeeds(r) /\ Succeeds(again)
  <2>1. PICK w \in FirstWord(words) :
          /\ again = "negative" \/ w \in kernel.headers
          /\ found' = w /\ Goes("elf") /\ Succeeds(r) /\ Succeeds(again)
    BY <1>6
  <2>2. w \in words /\ \A v \in words : w <= v
    BY <2>1 DEF FirstWord
  <2>3. KernelType' /\ Copied'
    BY <1>1, <1>2, <1>3, <1>4, <2>1, <2>2 DEF HandInv, KernelType, KernelSteps, Copied, Goes
  <2>4. ASSUME w < SearchLimit, ~ stale' PROVE w \in kernel.headers \cap FirstWord(kernel.magics)
    <3>1. r = "data" /\ again = "data"
      BY <1>2, <2>1, <2>4 DEF Succeeds, Reads
    <3>2. w \in kernel.magics
      BY <1>4, <2>2, <2>4, <3>1
    <3>3. ASSUME NEW v \in kernel.magics PROVE w <= v
      <4>1. v \in Nat /\ w \in Int
        BY <1>1, <1>4, <2>2 DEF KernelIs
      <4>2. CASE v < SearchLimit
        BY <2>2, <3>1, <4>2
      <4>3. CASE ~ (v < SearchLimit)
        BY <1>4, <2>4, <4>1, <4>3
      <4>. QED BY <4>2, <4>3
    <3>. QED BY <2>1, <3>1, <3>2, <3>3 DEF FirstWord
  <2>5. HeaderFound'
    BY <1>3, <2>1, <2>4 DEF HeaderFound
  <2>. QED BY <2>3, <2>5 DEF HandInv
<1>. QED BY <1>2, <1>5, <1>6

LEMMA KernelStepKeeps ==
  ASSUME HandInv, KernelStep, UNCHANGED main
  PROVE  HandInv'
<1>1. KernelIs /\ HandInv
  BY KernelFields DEF HandInv
<1>2. CASE LxOpen \/ MbOpen \/ MbPrepare
  <2>1. /\ kpc' \in {"header", "search", "prepared", "failed"}
        /\ UNCHANGED <<kernel, header, found>> /\ (stale => stale') /\ stale' \in BOOLEAN
    BY <1>1, <1>2 DEF LxOpen, MbOpen, MbPrepare, Goes, GivesUp, HandInv, KernelType
  <2>2. KernelType'
    BY <2>1 DEF HandInv, KernelType, KernelSteps
  <2>3. Copied' /\ HeaderFound'
    BY <2>1 DEF HandInv, Copied, HeaderFound
  <2>. QED BY <2>2, <2>3 DEF HandInv
<1>3. CASE LxHeader
  <2>1. PICK r \in Reads : \E h \in (IF r = "data" THEN {kernel.head} ELSE Signs) :
          /\ stale' = (stale \/ r = "negative")
          /\ IF Succeeds(r) /\ h.magic
             THEN Goes("setup") /\ header' = [h EXCEPT !.setup = IF @ = 0 THEN 4 ELSE @]
             ELSE GivesUp /\ UNCHANGED header
    BY <1>3 DEF LxHeader
  <2>2. PICK h \in (IF r = "data" THEN {kernel.head} ELSE Signs) :
          /\ stale' = (stale \/ r = "negative")
          /\ IF Succeeds(r) /\ h.magic
             THEN Goes("setup") /\ header' = [h EXCEPT !.setup = IF @ = 0 THEN 4 ELSE @]
             ELSE GivesUp /\ UNCHANGED header
    BY <2>1
  <2>3. h \in Headers
    BY <1>1, KernelAssumption DEF KernelIs
  <2>4. header' \in Headers /\ kpc' \in {"setup", "failed"} /\ UNCHANGED <<kernel, found>>
    BY <1>1, <1>3, <2>2, <2>3 DEF LxHeader, Goes, GivesUp, Headers, HandInv, KernelType
  <2>5. KernelType' /\ Copied' /\ HeaderFound'
    BY <2>2, <2>4 DEF HandInv, KernelType, KernelSteps, Copied, HeaderFound
  <2>. QED BY <2>5 DEF HandInv
<1>4. CASE LxSetup
  <2>1. PICK r \in Reads :
          /\ stale' = (stale \/ r = "negative")
          /\ rmcode' = CASE r = "data" -> "kernel" [] r = "negative" -> "stale" [] OTHER -> rmcode
          /\ IF Succeeds(r) /\ header.version >= 2 THEN Goes("code") ELSE GivesUp
    BY <1>4 DEF LxSetup
  <2>2. UNCHANGED <<kernel, header, found>> /\ kpc' \in {"code", "failed"}
    BY <1>4, <2>1 DEF LxSetup, Goes, GivesUp
  <2>3. KernelType' /\ HeaderFound'
    BY <2>1, <2>2 DEF HandInv, KernelType, KernelSteps, HeaderFound
  <2>4. Copied'
    BY <2>1, <2>2 DEF Copied, Succeeds, Reads, Goes, GivesUp
  <2>. QED BY <2>3, <2>4 DEF HandInv
<1>. QED BY <1>1, <1>2, <1>3, <1>4, CodeKeeps, InitrdKeeps, SearchKeeps DEF KernelStep

(* What of the kernel and the initrd is in memory when the loader comes to *)
(* each of its steps.                                                      *)
THEOREM HandInductive == Spec => []HandInv
<1>1. Init => HandInv
  <2>. SUFFICES ASSUME Init PROVE HandInv
    OBVIOUS
  <2>1. /\ kpc = "idle" /\ kernel \in Kernels /\ header = NoHeader /\ found = -1 /\ stale = FALSE
        /\ main = "page_alloc_init"
    BY DEF Init, KernelInit, Stages
  <2>2. header \in Headers
    BY <2>1 DEF NoHeader, Headers
  <2>3. KernelType
    <3>1. found \in Int /\ stale \in BOOLEAN /\ kpc \in KernelSteps
      <4>1. found \in Int /\ kpc \in KernelSteps
        BY <2>1 DEF KernelSteps
      <4>2. stale \in BOOLEAN
        BY <2>1
      <4>. QED BY <4>1, <4>2
    <3>2. main \notin {"loader", "boot"}
      BY <2>1
    <3>. QED BY <2>1, <2>2, <3>1, <3>2 DEF KernelType
  <2>4. Copied
    BY <2>1 DEF Copied
  <2>5. HeaderFound
    BY <2>1 DEF HeaderFound
  <2>. QED BY <2>3, <2>4, <2>5 DEF HandInv
<1>2. HandInv /\ [Next]_vars => HandInv'
  <2>. SUFFICES ASSUME HandInv, [Next]_vars PROVE HandInv'
    OBVIOUS
  <2>1. CASE UNCHANGED kvars /\ (main' \in {"loader", "boot"} =>
                                   kernel.prot \in DOMAIN LoaderModules)
    <3>1. UNCHANGED <<kpc, kernel, header, memory, rmcode, found, stale>> /\ RmCells' = RmCells
      BY <2>1 DEF kvars, RmCells
    <3>2. KernelType' /\ HeaderFound'
      BY <2>1, <3>1 DEF HandInv, KernelType, HeaderFound
    <3>3. Copied'
      BY <3>1 DEF HandInv, Copied, CodeInMemory, InitrdInMemory, Holds
    <3>. QED BY <3>2, <3>3 DEF HandInv
  <2>2. CASE EarlyStage
    BY <2>1, <2>2 DEF EarlyStage, Stages
  <2>3. CASE SymbolsInit \/ ParseMap \/ OpenModule \/ InitLoader
    BY <2>1, <2>3 DEF SymbolsInit, ParseMap, OpenModule, InitLoader, Dies, HandInv, KernelType
  <2>4. CASE ModuleEnds
    BY <2>1, <2>4 DEF ModuleEnds, HandInv, KernelType
  <2>5. CASE BootKernel
    <3>1. /\ kpc' \in {"lxboot", "mboot1", "mboot2"}
          /\ UNCHANGED <<main, kernel, header, found, stale>>
      BY <2>5, LoadersAssumption DEF BootKernel, HandInv, KernelType
    <3>. QED BY <3>1 DEF HandInv, KernelType, KernelSteps, Copied, HeaderFound
  <2>6. CASE RunModule \/ UNCHANGED vars
    BY <2>1, <2>6 DEF RunModule, vars, HandInv, KernelType
  <2>7. CASE RunKernel
    BY <2>7, KernelStepKeeps DEF RunKernel
  <2>. QED BY <2>2, <2>3, <2>4, <2>5, <2>6, <2>7 DEF Next
<1>. QED BY <1>1, <1>2, PTL DEF Spec

(* The jump is made to a kernel that is in memory with its initrd, and the *)
(* multiboot header is the first one of the file (lxboot_boot,             *)
(* mboot1_compare_signature).                                              *)
THEOREM JumpsToKernel == Spec => []HandedOver
<1>1. HandInv => HandedOver
  <2>. SUFFICES ASSUME HandInv PROVE HandedOver
    OBVIOUS
  <2>1. KernelIs
    BY KernelFields DEF HandInv
  <2>. QED BY <2>1 DEF HandInv, HandedOver, Copied, CodeInMemory, InitrdInMemory, HeaderFound
<1>. QED BY <1>1, HandInductive, PTL

-----------------------------------------------------------------------------
(* The tree                                                                *)

IsSeq(s) == Len(s) \in Nat /\ DOMAIN s = 1 .. Len(s)

TreeBuilt == phase \in {"drivers", "mount", "run"}

DevRoot == Node("dev", Root, "ramfs", "dev")
FsRoot  == Node("[root]", 0, "ramfs", "[root]")

(* What is in the tree at each stage of the boot.                          *)
TreeStages ==
  /\ phase \in {"rootfs", "devfs", "drivers", "mount", "run", "halt"}
  /\ phase = "rootfs" => Len(tree) = 0
  /\ phase = "devfs"  => Len(tree) = 1 /\ tree[1] = FsRoot
  /\ TreeBuilt => Len(tree) >= 2 /\ tree[1] = FsRoot /\ tree[2] = DevRoot
  /\ phase \in {"drivers", "mount"} => \A i \in 3 .. Len(tree) : tree[i].parent = 2
  /\ phase = "drivers" => \A i \in 3 .. Len(tree) :
       \/ tree[i].kind = "cdev" /\ tree[i].name \in Cdevs
       \/ /\ tree[i].kind = "bdev" /\ tree[i].name = tree[i].obj
          /\ \E k \in DOMAIN bdevs : bdevs[k] = tree[i].name

(* The disk that boots, and the root that is mounted from it.              *)
BootDisk ==
  /\ phase \in {"mount", "run"} =>
       /\ bootdisk \in DOMAIN disks /\ Image.boot
       /\ \E i \in DOMAIN tree : tree[i].parent = 2 /\ tree[i].name = bootdisk
  /\ phase = "run" =>
       /\ Image.fs \in {"isofs", "ext2fs"}
       /\ \E i \in DOMAIN tree :
            tree[i].parent = Root /\ tree[i].name = "root" /\ tree[i].kind = Image.fs

(* The superblocks in use: those of the file systems in the tree, and the  *)
(* one fill_super works on, which no node of the tree has.                 *)
SupersLive ==
  /\ \A s \in sbs : \/ filling # NoSuper /\ s = filling
                    \/ \E i \in Mounts : s = <<tree[i].kind, tree[i].name>>
  /\ \A i \in Mounts : <<tree[i].kind, tree[i].name>> \in sbs
  /\ filling # NoSuper =>
       /\ filling \in sbs
       /\ \/ phase = "rootfs" /\ filling = <<"ramfs", "[root]">>
          \/ phase = "devfs" /\ filling = <<"ramfs", "dev">>
          \/ phase = "mount" /\ filling = <<filling[1], "root">>

Parents == \A i \in DOMAIN tree : tree[i].parent \in 0 .. i - 1

TreeInv ==
  /\ disks \in Disks /\ bdevs \in Seq(DOMAIN disks)
  /\ IsSeq(tree) /\ Parents /\ OneNodePerName /\ TreeStages /\ BootDisk
  /\ SupersLive
  /\ Looking => phase = "run" /\ at \in DOMAIN tree

(* What vfs_lookup_tree_fast finds is the one child with the name.         *)
LEMMA CachedIs ==
  ASSUME IsSeq(tree), OneNodePerName, NEW n, NEW name
  PROVE  /\ Cached(n, name) = 0 => \A i \in DOMAIN tree : ~ (tree[i].parent = n /\ tree[i].name = name)
         /\ Cached(n, name) # 0 => /\ Cached(n, name) \in DOMAIN tree
                                   /\ tree[Cached(n, name)].parent = n
                                   /\ tree[Cached(n, name)].name = name
         /\ \A i \in DOMAIN tree : tree[i].parent = n /\ tree[i].name = name => Cached(n, name) = i
<1>. DEFINE hits == {i \in Children(n) : tree[i].name = name}
<1>1. Cached(n, name) = IF hits = {} THEN 0 ELSE Smallest(hits)
  BY DEF Cached
<1>2. \A i : i \in hits <=> i \in DOMAIN tree /\ tree[i].parent = n /\ tree[i].name = name
  BY DEF Children
<1>3. hits \subseteq Nat /\ 0 \notin hits
  BY <1>2 DEF IsSeq
<1>4. \A i, j \in hits : i = j
  BY <1>2 DEF OneNodePerName
<1>. HIDE DEF hits
<1>5. ASSUME hits # {} PROVE Smallest(hits) \in hits
  <2>1. PICK x \in hits : \A y \in hits : x <= y
    BY <1>3, <1>5, LeastNat
  <2>. QED BY <2>1 DEF Smallest
<1>6. CASE hits = {}
  BY <1>1, <1>2, <1>6
<1>7. CASE hits # {}
  <2>1. Cached(n, name) \in hits /\ Cached(n, name) # 0
    BY <1>1, <1>3, <1>5, <1>7
  <2>. QED BY <1>2, <1>4, <2>1
<1>. QED BY <1>6, <1>7

LEMMA DevNodeIs ==
  ASSUME TreeInv, TreeBuilt
  PROVE  DevNode = 2 /\ 2 \in DOMAIN tree
<1>1. 2 \in DOMAIN tree /\ tree[2].parent = Root /\ tree[2].name = "dev"
  BY DEF TreeInv, TreeStages, DevRoot, Node, IsSeq
<1>. QED BY <1>1, CachedIs DEF TreeInv, DevNode

LEMMA AppendIs ==
  ASSUME IsSeq(tree), NEW node, tree' = Append(tree, node)
  PROVE  /\ IsSeq(tree)' /\ Len(tree)' = Len(tree) + 1
         /\ tree'[Len(tree) + 1] = node
         /\ \A i \in 1 .. Len(tree) : tree'[i] = tree[i]
  BY DEF IsSeq

(* A child of a node that has none of that name.                           *)
LEMMA ChildInserted ==
  ASSUME IsSeq(tree), Parents, OneNodePerName, NEW node, tree' = Append(tree, node),
         node.parent \in DOMAIN tree \/ (node.parent = 0 /\ Len(tree) = 0),
         \A i \in DOMAIN tree : ~ (tree[i].parent = node.parent /\ tree[i].name = node.name)
  PROVE  OneNodePerName' /\ Parents'
<1>1. /\ Len(tree) \in Nat /\ DOMAIN tree = 1 .. Len(tree)
      /\ DOMAIN tree' = 1 .. Len(tree) + 1 /\ tree'[Len(tree) + 1] = node
      /\ \A i \in 1 .. Len(tree) : tree'[i] = tree[i]
  BY AppendIs DEF IsSeq
<1>2. ASSUME NEW i \in DOMAIN tree'
      PROVE  /\ tree'[i].parent < i /\ (tree'[i].parent = 0 <=> i = Root)
             /\ tree'[i].parent \in 0 .. i - 1
  <2>1. CASE i \in DOMAIN tree
    BY <1>1, <2>1 DEF OneNodePerName, Parents
  <2>2. CASE i = Len(tree) + 1
    BY <1>1, <2>2 DEF Root
  <2>. QED BY <1>1, <2>1, <2>2
<1>3. ASSUME NEW i \in DOMAIN tree', NEW k \in DOMAIN tree',
             <<tree'[i].parent, tree'[i].name>> = <<tree'[k].parent, tree'[k].name>>
      PROVE  i = k
  <2>1. CASE i \in DOMAIN tree /\ k \in DOMAIN tree
    BY <1>1, <1>3, <2>1 DEF OneNodePerName
  <2>2. CASE i = Len(tree) + 1 \/ k = Len(tree) + 1
    BY <1>1, <1>3, <2>2
  <2>. QED BY <1>1, <2>1, <2>2
<1>. QED BY <1>2, <1>3 DEF OneNodePerName, Parents

(* The superblocks, where no node is added.                                *)
LEMMA SupersKept ==
  ASSUME SupersLive, UNCHANGED <<tree, sbs, filling>>, filling # NoSuper => phase' = phase
  PROVE  SupersLive'
<1>1. Mounts' = Mounts
  BY DEF Mounts
<1>. QED BY <1>1 DEF SupersLive

(* The superblocks, with a node that takes the one that was filled, or     *)
(* with one that has none.                                                 *)
LEMMA SupersNode ==
  ASSUME IsSeq(tree), SupersLive, NEW node, tree' = Append(tree, node), sbs' = sbs,
         filling' = NoSuper
  PROVE  /\ (node.parent \in {0, Root} /\ node.kind # "cdev" /\ filling # NoSuper
               /\ filling = <<node.kind, node.name>>) => SupersLive'
         /\ (node.parent \notin {0, Root} /\ filling = NoSuper) => SupersLive'
<1>1. /\ Len(tree) \in Nat /\ DOMAIN tree = 1 .. Len(tree)
      /\ DOMAIN tree' = 1 .. Len(tree) + 1 /\ tree'[Len(tree) + 1] = node
      /\ \A i \in 1 .. Len(tree) : tree'[i] = tree[i]
  BY AppendIs DEF IsSeq
<1>2. \A i \in Mounts : i \in Mounts' /\ tree'[i] = tree[i]
  BY <1>1 DEF Mounts
<1>3. ASSUME NEW i \in Mounts', i \notin Mounts
      PROVE  i = Len(tree) + 1 /\ tree'[i] = node /\ node.parent \in {0, Root}
  BY <1>1, <1>3 DEF Mounts
<1>4. ASSUME node.parent \in {0, Root}, node.kind # "cdev", filling # NoSuper,
             filling = <<node.kind, node.name>>
      PROVE  SupersLive'
  <2>1. Len(tree) + 1 \in Mounts' /\ tree'[Len(tree) + 1] = node
    BY <1>1, <1>4 DEF Mounts
  <2>2. \A s \in sbs : \E i \in Mounts' : s = <<tree'[i].kind, tree'[i].name>>
    BY <1>2, <1>4, <2>1 DEF SupersLive
  <2>3. \A i \in Mounts' : <<tree'[i].kind, tree'[i].name>> \in sbs
    BY <1>2, <1>3, <1>4 DEF SupersLive
  <2>. QED BY <2>2, <2>3 DEF SupersLive
<1>5. ASSUME node.parent \notin {0, Root}, filling = NoSuper PROVE SupersLive'
  <2>1. \A s \in sbs : \E i \in Mounts' : s = <<tree'[i].kind, tree'[i].name>>
    BY <1>2, <1>5 DEF SupersLive
  <2>2. \A i \in Mounts' : <<tree'[i].kind, tree'[i].name>> \in sbs
    BY <1>2, <1>3, <1>5 DEF SupersLive
  <2>. QED BY <2>1, <2>2 DEF SupersLive
<1>. QED BY <1>4, <1>5

(* superblock_alloc.                                                       *)
LEMMA SupersMore ==
  ASSUME SupersLive, filling = NoSuper, NEW fs, NEW name, filling' = <<fs, name>>,
         sbs' = sbs \cup {<<fs, name>>}, UNCHANGED <<phase, tree>>,
         \/ phase = "rootfs" /\ fs = "ramfs" /\ name = "[root]"
         \/ phase = "devfs" /\ fs = "ramfs" /\ name = "dev"
         \/ phase = "mount" /\ name = "root"
  PROVE  SupersLive'
<1>1. name # "none"
  OBVIOUS
<1>2. Mounts' = Mounts /\ filling' # NoSuper
  BY <1>1 DEF Mounts, NoSuper
<1>. QED BY <1>2 DEF SupersLive

(* What the tree holds while a file system is tried has another name.      *)
LEMMA FillingNew ==
  ASSUME TreeInv, filling # NoSuper, NEW i \in Mounts
  PROVE  <<tree[i].kind, tree[i].name>> # filling
<1>1. IsSeq(tree) /\ TreeStages /\ SupersLive /\ i \in DOMAIN tree
  BY DEF TreeInv, Mounts
<1>2. CASE phase = "rootfs"
  BY <1>1, <1>2 DEF TreeStages, IsSeq
<1>3. CASE phase = "devfs" /\ filling = <<"ramfs", "dev">>
  <2>1. tree[i] = FsRoot
    BY <1>1, <1>3 DEF TreeStages, IsSeq
  <2>2. tree[i].name = "[root]"
    BY <2>1 DEF FsRoot, Node
  <2>. QED BY <1>3, <2>2
<1>4. CASE phase = "mount" /\ filling = <<filling[1], "root">>
  <2>1. i \in 1 .. Len(tree) /\ Len(tree) \in Nat /\ tree[1] = FsRoot /\ tree[2] = DevRoot
        /\ \A k \in 3 .. Len(tree) : tree[k].parent = 2
    BY <1>1, <1>4 DEF TreeStages, TreeBuilt, IsSeq
  <2>2. i = 1 \/ i = 2
    BY <2>1 DEF Mounts, Root
  <2>3. tree[i].name \in {"[root]", "dev"}
    BY <2>1, <2>2 DEF FsRoot, DevRoot, Node
  <2>. QED BY <1>4, <2>3
<1>. QED BY <1>1, <1>2, <1>3, <1>4 DEF SupersLive

(* bfree of the superblock that was not filled.                            *)
LEMMA SupersFreed ==
  ASSUME TreeInv, filling # NoSuper, NEW to, FillFails(to)
  PROVE  SupersLive'
<1>1. Mounts' = Mounts /\ tree' = tree /\ filling' = NoSuper /\ sbs' = sbs \ {filling}
  BY DEF FillFails, SuperFreed, Mounts
<1>2. \A i \in Mounts : <<tree[i].kind, tree[i].name>> \in sbs \ {filling}
  BY FillingNew DEF TreeInv, SupersLive
<1>3. \A s \in sbs \ {filling} : \E i \in Mounts : s = <<tree[i].kind, tree[i].name>>
  BY DEF TreeInv, SupersLive
<1>. QED BY <1>1, <1>2, <1>3 DEF SupersLive

(* A step that leaves the tree alone.                                      *)
LEMMA TreeKept ==
  ASSUME TreeInv, UNCHANGED <<phase, disks, tree, bdevs, bootdisk>>, SupersLive',
         at' = 0 \/ (phase = "run" /\ at' \in DOMAIN tree)
  PROVE  TreeInv'
<1>1. Image' = Image
  BY DEF Image
<1>2. TreeStages' /\ BootDisk'
  BY <1>1 DEF TreeInv, TreeStages, BootDisk, TreeBuilt
<1>3. IsSeq(tree)' /\ Parents' /\ OneNodePerName'
  BY DEF TreeInv, IsSeq, Parents, OneNodePerName
<1>. QED BY <1>1, <1>2, <1>3 DEF TreeInv, Looking

(* A step that ends the boot.                                              *)
LEMMA TreeHalts ==
  ASSUME TreeInv, phase # "run", phase' = "halt", UNCHANGED <<disks, tree, bdevs, at>>, SupersLive'
  PROVE  TreeInv'
<1>1. ~ Looking'
  BY DEF TreeInv, Looking
<1>2. IsSeq(tree)' /\ Parents' /\ OneNodePerName' /\ TreeStages' /\ BootDisk'
  BY DEF TreeInv, IsSeq, Parents, OneNodePerName, TreeStages, TreeBuilt, BootDisk
<1>. QED BY <1>1, <1>2 DEF TreeInv

LEMMA HaltTree ==
  ASSUME TreeInv, Halt, phase # "run", filling = NoSuper
  PROVE  TreeInv'
<1>1. phase' = "halt" /\ UNCHANGED <<disks, tree, bdevs, sbs, filling, at>>
  BY DEF Halt, asking, supers
<1>2. SupersLive'
  BY <1>1, SupersKept DEF TreeInv
<1>. QED BY <1>1, <1>2, TreeHalts

LEMMA AllocTree ==
  ASSUME TreeInv, filling = NoSuper, NEW fs, NEW name, AllocSuper(fs, name),
         \/ phase = "rootfs" /\ fs = "ramfs" /\ name = "[root]"
         \/ phase = "devfs" /\ fs = "ramfs" /\ name = "dev"
         \/ phase = "mount" /\ name = "root"
  PROVE  TreeInv'
<1>1. CASE Halt
  BY <1>1, HaltTree
<1>2. CASE ~ Halt
  <2>1. /\ filling' = <<fs, name>> /\ sbs' = sbs \cup {<<fs, name>>}
        /\ UNCHANGED <<phase, disks, tree, bdevs, bootdisk, at>>
    BY <1>2 DEF AllocSuper, asking
  <2>2. SupersLive'
    BY <2>1, SupersMore DEF TreeInv
  <2>3. at' = 0
    BY <2>1 DEF TreeInv, Looking
  <2>. QED BY <2>1, <2>2, <2>3, TreeKept
<1>. QED BY <1>1, <1>2

LEMMA FailsTree ==
  ASSUME TreeInv, filling # NoSuper, NEW to, FillFails(to), to = "halt" \/ to = phase
  PROVE  TreeInv'
<1>1. phase' = to /\ UNCHANGED <<disks, tree, bdevs, bootdisk, at>> /\ SupersLive'
  BY SupersFreed DEF FillFails, asking
<1>2. phase # "run" /\ at = 0
  BY DEF TreeInv, SupersLive, Looking
<1>. QED BY <1>1, <1>2, TreeHalts, TreeKept

LEMMA MakesNode ==
  ASSUME IsSeq(tree), SupersLive, NEW to, NEW parent, NEW node, FillMakes(to, parent, node),
         filling # NoSuper, NEW new, new = [node EXCEPT !.parent = parent],
         new.parent \in {0, Root}, new.kind # "cdev", filling = <<new.kind, new.name>>
  PROVE  /\ phase' = to /\ tree' = Append(tree, new) /\ SupersLive'
         /\ UNCHANGED <<disks, bdevs, bootdisk, at, opens, path, rest>>
<1>1. /\ phase' = to /\ tree' = Append(tree, new) /\ filling' = NoSuper /\ sbs' = sbs
      /\ UNCHANGED <<disks, bdevs, bootdisk, at, opens, path, rest>>
  BY DEF FillMakes, asking
<1>2. SupersLive'
  BY <1>1, SupersNode
<1>. QED BY <1>1, <1>2

(* The boot up to the mount                                                *)

LEMMA BootsTree ==
  ASSUME TreeInv
  PROVE  /\ InitRootfs => TreeInv'
         /\ InitDevfs => TreeInv'
<1>1. IsSeq(tree) /\ Parents /\ OneNodePerName /\ SupersLive /\ (Looking => phase = "run")
  BY DEF TreeInv
<1>2. ASSUME InitRootfs PROVE TreeInv'
  <2>1. CASE filling = NoSuper /\ AllocSuper("ramfs", "[root]")
    BY <1>2, <2>1, AllocTree DEF InitRootfs, MountRamfs
  <2>2. CASE filling # NoSuper /\ FillFails("halt")
    BY <2>2, FailsTree
  <2>3. CASE filling # NoSuper /\ FillMakes("devfs", 0, Node("[root]", 0, "ramfs", "[root]"))
    <3>1. phase = "rootfs" /\ filling = <<"ramfs", "[root]">>
      BY <1>1, <1>2, <2>3 DEF InitRootfs, MountRamfs, SupersLive
    <3>2. FsRoot = [Node("[root]", 0, "ramfs", "[root]") EXCEPT !.parent = 0]
      BY DEF FsRoot, Node
    <3>3. FsRoot.parent = 0 /\ FsRoot.kind = "ramfs" /\ FsRoot.name = "[root]"
      BY DEF FsRoot, Node
    <3>4. /\ phase' = "devfs" /\ tree' = Append(tree, FsRoot) /\ SupersLive'
          /\ UNCHANGED <<disks, bdevs, bootdisk, at>>
      <4>1. FsRoot.parent \in {0, Root} /\ FsRoot.kind # "cdev"
        BY <3>3
      <4>2. filling = <<FsRoot.kind, FsRoot.name>>
        BY <3>1, <3>3
      <4>. QED BY <1>1, <2>3, <3>2, <4>1, <4>2, MakesNode
    <3>5. Len(tree) = 0
      BY <3>1 DEF TreeInv, TreeStages
    <3>6. OneNodePerName' /\ Parents'
      BY <1>1, <3>3, <3>4, <3>5, ChildInserted DEF IsSeq
    <3>7. IsSeq(tree)' /\ Len(tree)' = 1 /\ tree'[1] = FsRoot
      BY <1>1, <3>4, <3>5, AppendIs
    <3>8. TreeStages' /\ BootDisk'
      BY <3>4, <3>7 DEF TreeStages, BootDisk, TreeBuilt
    <3>9. ~ Looking' /\ disks' \in Disks /\ bdevs' \in Seq(DOMAIN disks')
      BY <1>1, <3>1, <3>4 DEF Looking, TreeInv
    <3>. QED BY <3>4, <3>6, <3>7, <3>8, <3>9 DEF TreeInv
  <2>. QED BY <1>2, <2>1, <2>2, <2>3 DEF InitRootfs, MountRamfs
<1>3. ASSUME InitDevfs PROVE TreeInv'
  <2>1. CASE filling = NoSuper /\ AllocSuper("ramfs", "dev")
    BY <1>3, <2>1, AllocTree DEF InitDevfs, MountRamfs
  <2>2. CASE filling # NoSuper /\ FillFails("halt")
    BY <2>2, FailsTree
  <2>3. CASE filling # NoSuper /\ FillMakes("drivers", Root, Node("dev", 0, "ramfs", "dev"))
    <3>1. phase = "devfs" /\ filling = <<"ramfs", "dev">>
      BY <1>1, <1>3, <2>3 DEF InitDevfs, MountRamfs, SupersLive
    <3>2. DevRoot = [Node("dev", 0, "ramfs", "dev") EXCEPT !.parent = Root]
      BY DEF DevRoot, Node
    <3>3. /\ DevRoot.parent = Root /\ DevRoot.kind = "ramfs" /\ DevRoot.name = "dev"
          /\ FsRoot.parent = 0 /\ Root = 1
      BY DEF DevRoot, FsRoot, Node, Root
    <3>4. /\ phase' = "drivers" /\ tree' = Append(tree, DevRoot) /\ SupersLive'
          /\ UNCHANGED <<disks, bdevs, bootdisk, at>>
      <4>1. DevRoot.parent \in {0, Root} /\ DevRoot.kind # "cdev"
        BY <3>3
      <4>2. filling = <<DevRoot.kind, DevRoot.name>>
        BY <3>1, <3>3
      <4>. QED BY <1>1, <2>3, <3>2, <4>1, <4>2, MakesNode
    <3>5. Len(tree) = 1 /\ tree[1] = FsRoot /\ DOMAIN tree = 1 .. Len(tree)
      BY <3>1 DEF TreeInv, TreeStages, IsSeq
    <3>6. OneNodePerName' /\ Parents'
      BY <1>1, <3>3, <3>4, <3>5, ChildInserted
    <3>7. IsSeq(tree)' /\ Len(tree)' = 2 /\ tree'[1] = FsRoot /\ tree'[2] = DevRoot
      BY <1>1, <3>4, <3>5, AppendIs
    <3>8. TreeStages' /\ BootDisk'
      BY <3>4, <3>7 DEF TreeStages, BootDisk, TreeBuilt
    <3>9. ~ Looking' /\ disks' \in Disks /\ bdevs' \in Seq(DOMAIN disks')
      BY <1>1, <3>1, <3>4 DEF Looking, TreeInv
    <3>. QED BY <3>4, <3>6, <3>7, <3>8, <3>9 DEF TreeInv
  <2>. QED BY <1>3, <2>1, <2>2, <2>3 DEF InitDevfs, MountRamfs
<1>. QED BY <1>2, <1>3

LEMMA DevicesTree ==
  ASSUME TreeInv
  PROVE  /\ CdevInit => TreeInv'
         /\ BdevInit => TreeInv'
<1>1. IsSeq(tree) /\ Parents /\ OneNodePerName /\ SupersLive /\ (Looking => phase = "run")
  BY DEF TreeInv
<1>2. ASSUME phase = "drivers", NEW node, tree' = Append(tree, node), node.parent = 2,
             \A i \in DOMAIN tree : ~ (tree[i].parent = 2 /\ tree[i].name = node.name),
             \/ node.kind = "cdev" /\ node.name \in Cdevs
             \/ /\ node.kind = "bdev" /\ node.name = node.obj
                /\ \E k \in DOMAIN bdevs' : bdevs'[k] = node.name,
             \A k \in DOMAIN bdevs : \E j \in DOMAIN bdevs' : bdevs'[j] = bdevs[k],
             bdevs' \in Seq(DOMAIN disks), UNCHANGED <<phase, disks, sbs, filling, bootdisk, at>>
      PROVE  TreeInv'
  <2>1. OneNodePerName' /\ Parents'
    BY <1>1, <1>2, DevNodeIs, ChildInserted DEF TreeBuilt
  <2>2. SupersLive'
    <3>1. filling = NoSuper /\ filling' = NoSuper /\ node.parent \notin {0, Root}
      BY <1>1, <1>2 DEF SupersLive, Root
    <3>. QED BY <1>1, <1>2, <3>1, SupersNode
  <2>3. /\ IsSeq(tree)' /\ Len(tree)' = Len(tree) + 1 /\ tree'[Len(tree) + 1] = node
        /\ \A i \in 1 .. Len(tree) : tree'[i] = tree[i]
    BY <1>1, <1>2, AppendIs
  <2>4. /\ Len(tree) >= 2 /\ tree[1] = FsRoot /\ tree[2] = DevRoot /\ Len(tree) \in Nat
        /\ \A i \in 3 .. Len(tree) : tree[i].parent = 2
    BY <1>1, <1>2 DEF TreeInv, TreeStages, TreeBuilt, IsSeq
  <2>5. ASSUME NEW i \in 3 .. Len(tree)'
        PROVE  /\ tree'[i].parent = 2
               /\ \/ tree'[i].kind = "cdev" /\ tree'[i].name \in Cdevs
                  \/ /\ tree'[i].kind = "bdev" /\ tree'[i].name = tree'[i].obj
                     /\ \E k \in DOMAIN bdevs' : bdevs'[k] = tree'[i].name
    <3>1. CASE i = Len(tree) + 1
      BY <1>2, <2>3, <3>1
    <3>2. CASE i \in 3 .. Len(tree)
      <4>1. tree'[i] = tree[i] /\ tree[i].parent = 2
        BY <2>3, <2>4, <3>2
      <4>2. \/ tree[i].kind = "cdev" /\ tree[i].name \in Cdevs
            \/ /\ tree[i].kind = "bdev" /\ tree[i].name = tree[i].obj
               /\ \E k \in DOMAIN bdevs : bdevs[k] = tree[i].name
        BY <1>2, <3>2 DEF TreeInv, TreeStages
      <4>. QED BY <1>2, <4>1, <4>2
    <3>. QED BY <2>3, <2>4, <3>1, <3>2
  <2>6. Len(tree)' >= 2 /\ tree'[1] = FsRoot /\ tree'[2] = DevRoot
    BY <2>3, <2>4
  <2>7. TreeStages' /\ BootDisk'
    BY <1>2, <2>5, <2>6 DEF TreeStages, BootDisk
  <2>8. ~ Looking'
    BY <1>1, <1>2 DEF Looking
  <2>. QED BY <1>2, <2>1, <2>2, <2>3, <2>7, <2>8 DEF TreeInv
<1>3. ASSUME CdevInit PROVE TreeInv'
  <2>1. PICK c \in Cdevs : Cached(DevNode, c) = 0 /\ tree' = Append(tree, Node(c, DevNode, "cdev", c))
    BY <1>3 DEF CdevInit
  <2>2. phase = "drivers" /\ UNCHANGED <<phase, disks, bdevs, sbs, filling, bootdisk, at>>
    BY <1>3 DEF CdevInit, asking, supers
  <2>3. DevNode = 2
    BY <2>2, DevNodeIs DEF TreeBuilt
  <2>4. \A i \in DOMAIN tree : ~ (tree[i].parent = 2 /\ tree[i].name = c)
    BY <1>1, <2>1, <2>3, CachedIs
  <2>5. bdevs' \in Seq(DOMAIN disks)
    BY <2>2 DEF TreeInv
  <2>. DEFINE node == Node(c, 2, "cdev", c)
  <2>6. node.name = c /\ node.parent = 2 /\ node.kind = "cdev" /\ tree' = Append(tree, node)
    BY <2>1, <2>3 DEF Node
  <2>. HIDE DEF node
  <2>. QED BY <1>2, <2>2, <2>4, <2>5, <2>6
<1>4. ASSUME BdevInit PROVE TreeInv'
  <2>1. PICK d \in DOMAIN disks : /\ \A i \in DOMAIN bdevs : bdevs[i] # d
                                 /\ bdevs' = <<d>> \o bdevs /\ tree' = Append(tree, DiskNode(d))
    BY <1>4 DEF BdevInit
  <2>2. phase = "drivers" /\ UNCHANGED <<phase, disks, sbs, filling, bootdisk, at>>
    BY <1>4 DEF BdevInit, asking, supers
  <2>3. DevNode = 2
    BY <2>2, DevNodeIs DEF TreeBuilt
  <2>4. bdevs \in Seq(DOMAIN disks) /\ d \notin Cdevs
    BY DisksAssumption DEF TreeInv
  <2>5. <<d>> \in Seq(DOMAIN disks) /\ Len(<<d>>) = 1 /\ <<d>>[1] = d
    OBVIOUS
  <2>6. /\ bdevs' \in Seq(DOMAIN disks) /\ Len(bdevs') = Len(bdevs) + 1 /\ Len(bdevs) \in Nat
        /\ DOMAIN bdevs = 1 .. Len(bdevs) /\ DOMAIN bdevs' = 1 .. Len(bdevs) + 1
        /\ \A k \in 1 .. Len(bdevs) : bdevs'[k + 1] = bdevs[k]
        /\ bdevs'[1] = d
    BY <2>1, <2>4, <2>5, ConcatProperties, LenProperties
  <2>7. \A k \in DOMAIN bdevs : \E j \in DOMAIN bdevs' : bdevs'[j] = bdevs[k]
    <3>1. \A k \in DOMAIN bdevs : k + 1 \in DOMAIN bdevs'
      BY <2>6
    <3>. QED BY <2>6, <3>1
  <2>8. \E k \in DOMAIN bdevs' : bdevs'[k] = d
    BY <2>6
  <2>9. \A i \in DOMAIN tree : ~ (tree[i].parent = 2 /\ tree[i].name = d)
    <3>1. ASSUME NEW i \in DOMAIN tree, tree[i].parent = 2, tree[i].name = d PROVE FALSE
      <4>1. tree[1] = FsRoot /\ tree[2] = DevRoot /\ Len(tree) \in Nat /\ DOMAIN tree = 1 .. Len(tree)
        BY <1>1, <2>2 DEF TreeInv, TreeStages, TreeBuilt, IsSeq
      <4>2. i \in 3 .. Len(tree)
        BY <3>1, <4>1 DEF FsRoot, DevRoot, Node, Root
      <4>3. \/ tree[i].name \in Cdevs
            \/ \E k \in DOMAIN bdevs : bdevs[k] = tree[i].name
        BY <2>2, <4>2 DEF TreeInv, TreeStages
      <4>. QED BY <2>1, <2>4, <3>1, <4>3
    <3>. QED BY <3>1
  <2>. DEFINE node == DiskNode(d)
  <2>10. node.name = d /\ node.obj = d /\ node.parent = 2 /\ node.kind = "bdev"
         /\ tree' = Append(tree, node)
    BY <2>1, <2>3 DEF Node, DiskNode
  <2>. HIDE DEF node
  <2>. QED BY <1>2, <2>2, <2>6, <2>7, <2>8, <2>9, <2>10
<1>. QED BY <1>3, <1>4

(* The mount                                                               *)

LEMMA FillSuperIs ==
  ASSUME NEW fs, NEW d, NEW node \in FillSuper(fs, d)
  PROVE  /\ node = Node("root", 0, disks[d].fs, RootInode) /\ disks[d].fs \in {"isofs", "ext2fs"}
         /\ disks[d].fs = fs
  BY DEF FillSuper, IsoFillSuper, ExtFillSuper, IsoDent, ExtDent

(* The node of the root, made by the file system that is tried.            *)
LEMMA RootMade ==
  ASSUME TreeInv, phase = "mount", filling # NoSuper,
         NEW node \in FillSuper(filling[1], bootdisk), FillMakes("run", Root, node)
  PROVE  LET new == Node("root", Root, Image.fs, RootInode)
         IN  /\ phase' = "run" /\ tree' = Append(tree, new) /\ SupersLive'
             /\ Image.fs \in {"isofs", "ext2fs"}
             /\ UNCHANGED <<disks, bdevs, bootdisk, at, opens, path, rest>>
<1>. DEFINE new == Node("root", Root, Image.fs, RootInode)
<1>1. /\ new = [node EXCEPT !.parent = Root] /\ Image.fs \in {"isofs", "ext2fs"}
      /\ new.parent = Root /\ new.kind = Image.fs /\ new.name = "root" /\ Image.fs = filling[1]
  BY FillSuperIs DEF Node, Image
<1>2. IsSeq(tree) /\ SupersLive
  BY DEF TreeInv
<1>3. filling = <<new.kind, new.name>>
  BY <1>1, <1>2 DEF SupersLive
<1>. HIDE DEF new
<1>4. /\ phase' = "run" /\ tree' = Append(tree, new) /\ SupersLive'
      /\ UNCHANGED <<disks, bdevs, bootdisk, at, opens, path, rest>>
  <2>1. new.parent \in {0, Root} /\ new.kind # "cdev"
    BY <1>1
  <2>2. new = [node EXCEPT !.parent = Root]
    BY <1>1
  <2>. HIDE DEF new
  <2>. QED BY <1>2, <1>3, <2>1, <2>2, MakesNode
<1>. QED BY <1>1, <1>4 DEF new

LEMMA MountTree ==
  ASSUME TreeInv
  PROVE  /\ FindBootDisk => TreeInv'
         /\ MountRoot => TreeInv'
<1>1. IsSeq(tree) /\ Parents /\ OneNodePerName /\ SupersLive /\ (Looking => phase = "run")
  BY DEF TreeInv
<1>2. ASSUME FindBootDisk PROVE TreeInv'
  <2>1. UNCHANGED <<disks, tree, bdevs, sbs, filling, at>> /\ phase = "drivers" /\ ~ Looking
    BY <1>1, <1>2 DEF FindBootDisk, supers
  <2>2. SupersLive'
    BY <1>1, <2>1, SupersKept DEF SupersLive
  <2>3. CASE phase' = "halt"
    BY <2>1, <2>2, <2>3, TreeHalts
  <2>4. CASE phase' # "halt"
    <3>1. PICK i \in BlockNodes : Verified(i) /\ phase' = "mount" /\ bootdisk' = tree[i].obj
      BY <1>2, <2>4 DEF FindBootDisk
    <3>2. i \in DOMAIN tree /\ tree[i].parent = 2 /\ tree[i].kind = "bdev"
      BY <2>1, <3>1, DevNodeIs DEF BlockNodes, Children, TreeBuilt
    <3>3. i \in 3 .. Len(tree)
      BY <2>1, <3>2 DEF TreeInv, TreeStages, TreeBuilt, IsSeq, FsRoot, DevRoot, Node
    <3>4. tree[i].name = tree[i].obj /\ \E k \in DOMAIN bdevs : bdevs[k] = tree[i].name
      BY <2>1, <3>2, <3>3 DEF TreeInv, TreeStages
    <3>5. tree[i].name = bootdisk' /\ bootdisk' \in DOMAIN disks
      <4>1. \A k \in DOMAIN bdevs : bdevs[k] \in DOMAIN disks
        BY DEF TreeInv
      <4>. QED BY <3>1, <3>4, <4>1
    <3>6. Image'.boot
      BY <2>1, <3>1 DEF Verified, Image
    <3>7. BootDisk'
      BY <2>1, <3>1, <3>2, <3>5, <3>6 DEF BootDisk
    <3>8. /\ disks' \in Disks /\ bdevs' \in Seq(DOMAIN disks') /\ IsSeq(tree)' /\ Parents'
          /\ OneNodePerName' /\ ~ Looking'
      BY <2>1 DEF TreeInv, IsSeq, Parents, OneNodePerName, Looking
    <3>9. TreeStages'
      BY <2>1, <3>1 DEF TreeInv, TreeStages, TreeBuilt
    <3>. QED BY <2>2, <3>7, <3>8, <3>9 DEF TreeInv
  <2>. QED BY <2>3, <2>4
<1>3. ASSUME MountRoot PROVE TreeInv'
  <2>1. CASE filling = NoSuper /\ tried < Len(FsOrder) /\ AllocSuper(FsOrder[tried + 1], "root")
    <3>. DEFINE fs == FsOrder[tried + 1]
    <3>1. AllocSuper(fs, "root") /\ phase = "mount"
      BY <1>3, <2>1 DEF MountRoot
    <3>. HIDE DEF fs
    <3>. QED BY <2>1, <3>1, AllocTree
  <2>2. CASE filling = NoSuper /\ Halt
    BY <1>3, <2>2, HaltTree DEF MountRoot
  <2>3. CASE filling # NoSuper /\ FillFails("mount")
    BY <1>3, <2>3, FailsTree DEF MountRoot
  <2>4. CASE /\ filling # NoSuper
             /\ \E node \in FillSuper(filling[1], bootdisk) : FillMakes("run", Root, node)
    <3>. DEFINE new == Node("root", Root, Image.fs, RootInode)
    <3>1. phase = "mount"
      BY <1>3 DEF MountRoot
    <3>2. PICK node \in FillSuper(filling[1], bootdisk) : FillMakes("run", Root, node)
      BY <2>4
    <3>3. /\ phase' = "run" /\ tree' = Append(tree, new) /\ SupersLive'
          /\ Image.fs \in {"isofs", "ext2fs"} /\ UNCHANGED <<disks, bdevs, bootdisk, at>>
      BY <2>4, <3>1, <3>2, RootMade
    <3>4. new.parent = Root /\ new.name = "root" /\ new.kind = Image.fs
      BY DEF Node
    <3>. HIDE DEF new
    <3>5. /\ Len(tree) >= 2 /\ tree[1] = FsRoot /\ tree[2] = DevRoot /\ Len(tree) \in Nat
          /\ \A i \in 3 .. Len(tree) : tree[i].parent = 2
          /\ DOMAIN tree = 1 .. Len(tree)
      BY <1>1, <3>1 DEF TreeInv, TreeStages, TreeBuilt, IsSeq
    <3>6. \A i \in DOMAIN tree : ~ (tree[i].parent = new.parent /\ tree[i].name = new.name)
      BY <3>4, <3>5 DEF FsRoot, DevRoot, Node, Root
    <3>7. OneNodePerName' /\ Parents'
      BY <1>1, <3>3, <3>4, <3>5, <3>6, ChildInserted DEF Root
    <3>8. /\ IsSeq(tree)' /\ Len(tree)' = Len(tree) + 1 /\ tree'[Len(tree) + 1] = new
          /\ \A i \in 1 .. Len(tree) : tree'[i] = tree[i] /\ DOMAIN tree' = 1 .. Len(tree) + 1
      BY <1>1, <3>3, AppendIs DEF IsSeq
    <3>9. TreeStages'
      BY <3>3, <3>5, <3>8 DEF TreeStages, TreeBuilt
    <3>10. BootDisk'
      <4>1. Image' = Image
        BY <3>3 DEF Image
      <4>2. bootdisk' \in DOMAIN disks' /\ Image'.boot
        BY <3>1, <3>3, <4>1 DEF TreeInv, BootDisk
      <4>3. PICK i \in DOMAIN tree : tree[i].parent = 2 /\ tree[i].name = bootdisk
        BY <3>1 DEF TreeInv, BootDisk
      <4>4. i \in DOMAIN tree' /\ tree'[i].parent = 2 /\ tree'[i].name = bootdisk'
        BY <3>3, <3>5, <3>8, <4>3
      <4>5. Len(tree) + 1 \in DOMAIN tree'
        BY <3>5, <3>8
      <4>. QED BY <3>3, <3>4, <3>8, <4>1, <4>2, <4>4, <4>5 DEF BootDisk
    <3>11. ~ Looking'
      BY <1>1, <3>1, <3>3 DEF Looking
    <3>12. disks' \in Disks /\ bdevs' \in Seq(DOMAIN disks')
      BY <3>3 DEF TreeInv
    <3>. QED BY <3>3, <3>7, <3>8, <3>9, <3>10, <3>11, <3>12 DEF TreeInv
  <2>. QED BY <1>3, <2>1, <2>2, <2>3, <2>4 DEF MountRoot
<1>. QED BY <1>2, <1>3

(* The lookups                                                             *)

(* Only the file systems of a disk find anything on it.                    *)
LEMMA OnDisk ==
  ASSUME NEW n, NEW name, NEW r \in FindDir(n, name) \ {Nothing}
  PROVE  tree[n].kind \in {"isofs", "ext2fs"}
  BY DEF FindDir

(* A step that leaves the tree and the superblocks alone.                  *)
LEMMA TreeAlone ==
  ASSUME TreeInv, UNCHANGED <<phase, disks, tree, bdevs, sbs, filling, bootdisk>>,
         at' = 0 \/ (phase = "run" /\ at' \in DOMAIN tree)
  PROVE  TreeInv'
<1>1. SupersLive'
  BY SupersKept DEF TreeInv
<1>. QED BY <1>1, TreeKept

LEMMA SlowTree ==
  ASSUME TreeInv, Slow
  PROVE  TreeInv'
<1>1. IsSeq(tree) /\ Parents /\ OneNodePerName /\ SupersLive
      /\ phase = "run" /\ at \in DOMAIN tree /\ Cached(at, Part) = 0
  BY DEF TreeInv, Slow
<1>2. CASE \E failed : EndWith(0, failed)
  BY <1>2, TreeAlone DEF EndWith, supers
<1>3. CASE lost' = TRUE /\ UNCHANGED <<phase, disks, tree, bdevs, supers, bootdisk, at>>
  BY <1>1, <1>3, TreeAlone DEF supers
<1>4. CASE \E r \in FindDir(at, Part) \ {Nothing, Endless} :
             /\ tree' = Append(tree, Inserted(Dent(tree[at].kind, Part, r.obj)))
             /\ at' = Len(tree) + 1 /\ UNCHANGED <<phase, disks, bdevs, supers, bootdisk>>
  <2>1. PICK r \in FindDir(at, Part) \ {Nothing, Endless} :
          /\ tree' = Append(tree, Inserted(Dent(tree[at].kind, Part, r.obj)))
          /\ at' = Len(tree) + 1 /\ UNCHANGED <<phase, disks, bdevs, sbs, filling, bootdisk>>
    BY <1>4 DEF supers
  <2>. DEFINE new == Inserted(Dent(tree[at].kind, Part, r.obj))
  <2>2. new.parent = at /\ new.name = Part
    BY DEF Inserted, Dent, IsoDent, ExtDent, Node
  <2>3. tree' = Append(tree, new)
    BY <2>1
  <2>. HIDE DEF new
  <2>4. \A i \in DOMAIN tree : ~ (tree[i].parent = at /\ tree[i].name = Part)
    BY <1>1, CachedIs
  <2>5. OneNodePerName' /\ Parents'
    BY <1>1, <2>2, <2>3, <2>4, ChildInserted
  <2>6. /\ Len(tree) >= 2 /\ tree[1] = FsRoot /\ tree[2] = DevRoot /\ Len(tree) \in Nat
        /\ DOMAIN tree = 1 .. Len(tree)
    BY <1>1 DEF TreeInv, TreeStages, TreeBuilt, IsSeq
  <2>7. at \notin {0, Root}
    <3>1. tree[at].kind \in {"isofs", "ext2fs"}
      BY <2>1, OnDisk
    <3>. QED BY <1>1, <2>6, <3>1 DEF FsRoot, Node, Root
  <2>8. SupersLive'
    <3>1. filling = NoSuper
      BY <1>1 DEF SupersLive
    <3>. QED BY <1>1, <2>1, <2>2, <2>3, <2>7, <3>1, SupersNode
  <2>9. /\ IsSeq(tree)' /\ Len(tree)' = Len(tree) + 1 /\ DOMAIN tree' = 1 .. Len(tree) + 1
        /\ \A i \in 1 .. Len(tree) : tree'[i] = tree[i]
    BY <1>1, <2>3, AppendIs DEF IsSeq
  <2>10. TreeStages'
    BY <1>1, <2>1, <2>6, <2>9 DEF TreeStages, TreeBuilt
  <2>11. BootDisk'
    <3>1. Image' = Image
      BY <2>1 DEF Image
    <3>2. bootdisk \in DOMAIN disks /\ Image.boot /\ Image.fs \in {"isofs", "ext2fs"}
      BY <1>1 DEF TreeInv, BootDisk
    <3>3. PICK i \in DOMAIN tree : tree[i].parent = 2 /\ tree[i].name = bootdisk
      BY <1>1 DEF TreeInv, BootDisk
    <3>4. PICK j \in DOMAIN tree : tree[j].parent = Root /\ tree[j].name = "root" /\ tree[j].kind = Image.fs
      BY <1>1 DEF TreeInv, BootDisk
    <3>5. i \in DOMAIN tree' /\ tree'[i] = tree[i] /\ j \in DOMAIN tree' /\ tree'[j] = tree[j]
      BY <2>6, <2>9
    <3>. QED BY <2>1, <3>1, <3>2, <3>3, <3>4, <3>5 DEF BootDisk
  <2>12. at' \in DOMAIN tree' /\ phase' = "run"
    BY <1>1, <2>1, <2>6, <2>9
  <2>13. disks' \in Disks /\ bdevs' \in Seq(DOMAIN disks')
    BY <2>1 DEF TreeInv
  <2>. QED BY <2>5, <2>8, <2>9, <2>10, <2>11, <2>12, <2>13 DEF TreeInv
<1>. QED BY <1>2, <1>3, <1>4 DEF Slow

LEMMA LookupTree ==
  ASSUME TreeInv, Lookup
  PROVE  TreeInv'
<1>1. Looking => phase = "run" /\ at \in DOMAIN tree
  BY DEF TreeInv
<1>2. CASE Dots
  <2>1. CASE \E n : EndWith(n, FALSE)
    BY <2>1, TreeAlone DEF EndWith, supers
  <2>2. CASE StepTo(at)
    BY <1>1, <1>2, <2>2, TreeAlone DEF Dots, StepTo, supers
  <2>3. CASE at # Root /\ StepTo(tree[at].parent)
    <3>1. at \in DOMAIN tree /\ DOMAIN tree = 1 .. Len(tree) /\ Len(tree) \in Nat
      BY <1>1, <1>2 DEF Dots, TreeInv, IsSeq
    <3>2. tree[at].parent \in 0 .. at - 1 /\ tree[at].parent # 0
      BY <2>3, <3>1 DEF TreeInv, Parents, OneNodePerName
    <3>3. tree[at].parent \in DOMAIN tree
      BY <3>1, <3>2
    <3>. QED BY <1>1, <1>2, <2>3, <3>3, TreeAlone DEF Dots, StepTo, supers
  <2>. QED BY <1>2, <2>1, <2>2, <2>3 DEF Dots
<1>3. CASE Fast
  <2>1. Cached(at, Part) \in DOMAIN tree
    BY <1>3, CachedIs DEF Fast, TreeInv
  <2>. QED BY <1>1, <1>3, <2>1, TreeAlone DEF Fast, StepTo, supers
<1>4. CASE Slow
  BY <1>4, SlowTree
<1>5. CASE LookupEnds
  BY <1>5, TreeAlone DEF LookupEnds, EndWith, supers
<1>. QED BY <1>2, <1>3, <1>4, <1>5 DEF Lookup

LEMMA OpenTree ==
  ASSUME TreeInv, NEW p, Open(p)
  PROVE  TreeInv'
<1>1. Root \in DOMAIN tree
  BY DEF Open, TreeInv, TreeStages, TreeBuilt, IsSeq, Root
<1>. QED BY <1>1, TreeAlone DEF Open, supers

(* The nodes are one tree, with the disk that boots at its root.           *)
THEOREM TreeInductive == FilesSpec => []TreeInv
<1>1. FilesInit => TreeInv
  <2>. SUFFICES ASSUME FilesInit PROVE TreeInv
    OBVIOUS
  <2>1. /\ phase = "rootfs" /\ disks \in Disks /\ tree = <<>> /\ bdevs = <<>> /\ at = 0
        /\ sbs = {} /\ filling = NoSuper
    BY DEF FilesInit, VfsInit
  <2>2. SupersLive
    BY <2>1 DEF SupersLive, Mounts
  <2>. QED BY <2>1, <2>2 DEF TreeInv, IsSeq, Parents, OneNodePerName, TreeStages, TreeBuilt, BootDisk, Looking
<1>2. TreeInv /\ [FilesNext]_fvars => TreeInv'
  <2>. SUFFICES ASSUME TreeInv, [FilesNext]_fvars PROVE TreeInv'
    OBVIOUS
  <2>1. CASE UNCHANGED vvars
    <3>1. Looking => phase = "run" /\ at \in DOMAIN tree
      BY DEF TreeInv
    <3>. QED BY <2>1, <3>1, TreeAlone DEF vvars, asking, supers, Looking
  <2>2. CASE BootStep
    BY <2>2, BootsTree, DevicesTree, MountTree DEF BootStep, Boot
  <2>3. CASE StartOpen
    BY <2>3, OpenTree DEF StartOpen
  <2>4. CASE LookupStep
    BY <2>4, LookupTree DEF LookupStep
  <2>5. CASE FileOpen \/ FileStep \/ DiskStep
    BY <2>1, <2>5 DEF FileOpen, FileStep, DiskStep
  <2>. QED BY <2>1, <2>2, <2>3, <2>4, <2>5 DEF FilesNext, fvars
<1>. QED BY <1>1, <1>2, PTL DEF FilesSpec

(* The tree of nodes is a tree, finds again what it found once, and has    *)
(* the boot disk at its root (vfs_mount, vfs_lookup_tree_slow).            *)
THEOREM TreeIsSound == FilesSpec => []TreeSound
<1>1. TreeInv => TreeSound
  <2>. SUFFICES ASSUME TreeInv PROVE TreeSound
    OBVIOUS
  <2>1. IsSeq(tree) /\ OneNodePerName /\ SupersLive
    BY DEF TreeInv
  <2>2. ASSUME phase = "run"
        PROVE  /\ Image.boot /\ tree[Cached(Root, "root")].kind = Image.fs
               /\ Cached(DevNode, bootdisk) # 0
    <3>1. DevNode = 2 /\ 0 \notin DOMAIN tree
      BY <2>1, <2>2, DevNodeIs DEF TreeBuilt, IsSeq
    <3>2. PICK i \in DOMAIN tree : tree[i].parent = 2 /\ tree[i].name = bootdisk
      BY <2>2 DEF TreeInv, BootDisk
    <3>3. PICK j \in DOMAIN tree : tree[j].parent = Root /\ tree[j].name = "root" /\ tree[j].kind = Image.fs
      BY <2>2 DEF TreeInv, BootDisk
    <3>4. Cached(Root, "root") = j /\ Cached(DevNode, bootdisk) = i
      BY <2>1, <3>1, <3>2, <3>3, CachedIs
    <3>5. Image.boot
      BY <2>2 DEF TreeInv, BootDisk
    <3>. QED BY <3>1, <3>3, <3>4, <3>5
  <2>. DEFINE now == IF filling = NoSuper THEN {} ELSE {filling}
              in  == {<<tree[i].kind, tree[i].name>> : i \in Mounts}
  <2>3. \A s : s \in now <=> filling # NoSuper /\ s = filling
    OBVIOUS
  <2>4. \A s : s \in in <=> \E i \in Mounts : s = <<tree[i].kind, tree[i].name>>
    OBVIOUS
  <2>. HIDE DEF now, in
  <2>5. \A s : s \in sbs <=> s \in in \cup now
    BY <2>1, <2>3, <2>4 DEF SupersLive
  <2>6. sbs = in \cup now
    BY <2>5
  <2>. QED BY <2>1, <2>2, <2>6 DEF TreeSound, RootIsBootDisk, now, in
<1>. QED BY <1>1, TreeInductive, PTL

-----------------------------------------------------------------------------
(* Division                                                                *)

LEMMA DivMod ==
  ASSUME NEW n \in Nat, NEW b \in Nat \ {0}
  PROVE  \E q \in Nat : \E r \in 0 .. b - 1 : q = n \div b /\ r = n % b /\ n = q * b + r
<1>1. PICK q \in Int : \E r \in 0 .. b - 1 : n = b * q + r /\ q = n \div b /\ r = n % b
  BY SMT
<1>2. PICK r \in 0 .. b - 1 : n = b * q + r /\ q = n \div b /\ r = n % b
  BY <1>1
<1>3. b * q = q * b /\ q \in Nat
  BY <1>2, SMT
<1>4. n = q * b + r
  BY <1>2, <1>3
<1>. QED BY <1>2, <1>3, <1>4

LEMMA Mult ==
  ASSUME NEW j \in Nat, NEW k \in Nat, NEW b \in Nat
  PROVE  /\ j * b \in Nat /\ (j + k) * b = j * b + k * b /\ (j + 1) * b = j * b + b
         /\ j <= k => j * b <= k * b
  BY SMT

LEMMA MultLess ==
  ASSUME NEW j \in Nat, NEW k \in Nat, NEW b \in Nat, j * b < k * b
  PROVE  j < k
<1>1. k <= j => k * b <= j * b
  BY Mult
<1>2. j * b \in Nat /\ k * b \in Nat
  BY Mult
<1>. QED BY <1>1, <1>2

LEMMA DivLess ==
  ASSUME NEW n \in Nat, NEW b \in Nat \ {0}, NEW k \in Nat, n < k * b
  PROVE  n \div b < k
<1>1. PICK q \in Nat : \E r \in 0 .. b - 1 : q = n \div b /\ r = n % b /\ n = q * b + r
  BY DivMod
<1>2. q * b <= n /\ q * b \in Nat /\ k * b \in Nat
  BY <1>1, Mult
<1>3. q * b < k * b
  BY <1>2
<1>. QED BY <1>1, <1>3, MultLess

LEMMA ModSmall ==
  ASSUME NEW n \in Nat, NEW b \in Nat, n < b
  PROVE  n % b = n
  BY SMT

LEMMA ModRange ==
  ASSUME NEW n \in Int, NEW b \in Nat \ {0}
  PROVE  n % b \in 0 .. b - 1
  BY SMT

(* The map of blocks                                                       *)

LEMMA PowerIs == Power[0] = 1 /\ Power[1] = PerBlock /\ Power[2] = PerBlock * PerBlock
<1>. DEFINE g == [k \in 0 .. 3 |-> CASE k = 0 -> 1 [] k = 1 -> PerBlock * 1
                                     [] k = 2 -> PerBlock * (PerBlock * 1)
                                     [] k = 3 -> PerBlock * (PerBlock * (PerBlock * 1))]
<1>1. g[0] = 1 /\ g[1] = PerBlock * g[0] /\ g[2] = PerBlock * g[1] /\ g[3] = PerBlock * g[2]
  OBVIOUS
<1>2. g = [k \in 0 .. 3 |-> g[k]]
  OBVIOUS
<1>. HIDE DEF g
<1>3. ASSUME NEW k \in 0 .. 3 PROVE g[k] = IF k = 0 THEN 1 ELSE PerBlock * g[k - 1]
  <2>1. k = 0 \/ k = 1 \/ k = 2 \/ k = 3
    OBVIOUS
  <2>. QED BY <1>1, <2>1
<1>4. g = [k \in 0 .. 3 |-> IF k = 0 THEN 1 ELSE PerBlock * g[k - 1]]
  BY <1>2, <1>3
<1>. DEFINE Solves(f) == f = [k \in 0 .. 3 |-> IF k = 0 THEN 1 ELSE PerBlock * f[k - 1]]
<1>5. \E f : Solves(f)
  BY <1>4
<1>6. Power = CHOOSE f : Solves(f)
  BY DEF Power
<1>. HIDE DEF Solves
<1>7. Solves(Power)
  BY <1>5, <1>6
<1>8. Power = [k \in 0 .. 3 |-> IF k = 0 THEN 1 ELSE PerBlock * Power[k - 1]]
  BY <1>7 DEF Solves
<1>9. Power[0] = 1 /\ Power[1] = PerBlock * Power[0] /\ Power[2] = PerBlock * Power[1]
  <2>. DEFINE e == [k \in 0 .. 3 |-> IF k = 0 THEN 1 ELSE PerBlock * Power[k - 1]]
  <2>1. e[0] = 1 /\ e[1] = PerBlock * Power[0] /\ e[2] = PerBlock * Power[1]
    OBVIOUS
  <2>. HIDE DEF e
  <2>. QED BY <1>8, <2>1 DEF e
<1>10. PerBlock * 1 = PerBlock
  BY BlockAssumption
<1>. QED BY <1>9, <1>10

LEMMA LeftIs ==
  ASSUME NEW c \in Nat
  PROVE  /\ Left[0][c] = (c - Direct) % Width
         /\ Left[1][c] = (Left[0][c] - PerBlock) % Width
<1>. DEFINE Round(f, level) ==
       [n \in Nat |->
          ((IF level = 0 THEN n - (Direct - 1) ELSE f[level - 1][n]) - Span(level)) % Width]
     Solves(f) == f = [level \in 0 .. 2 |-> Round(f, level)]
     First0 == [n \in Nat |-> ((n - (Direct - 1)) - Span(0)) % Width]
     Then(h, level) == [n \in Nat |-> (h[n] - Span(level)) % Width]
     g == [level \in 0 .. 2 |-> CASE level = 0 -> First0
                                  [] level = 1 -> Then(First0, 1)
                                  [] level = 2 -> Then(Then(First0, 1), 2)]
<1>1. /\ g[0] = First0 /\ g[1] = Then(g[0], 1) /\ g[2] = Then(g[1], 2)
  OBVIOUS
<1>2. g = [level \in 0 .. 2 |-> g[level]]
  OBVIOUS
<1>3. \A f : Round(f, 0) = First0 /\ Round(f, 1) = Then(f[0], 1) /\ Round(f, 2) = Then(f[1], 2)
  OBVIOUS
<1>. HIDE DEF g, First0, Then, Round
<1>4. ASSUME NEW level \in 0 .. 2 PROVE g[level] = Round(g, level)
  <2>1. level = 0 \/ level = 1 \/ level = 2
    OBVIOUS
  <2>. QED BY <1>1, <1>3, <2>1
<1>5. g = [level \in 0 .. 2 |-> Round(g, level)]
  BY <1>2, <1>4
<1>6. \E f : Solves(f)
  BY <1>5
<1>7. Left = CHOOSE f : Solves(f)
  BY DEF Left, Round
<1>. HIDE DEF Solves
<1>8. Solves(Left)
  BY <1>6, <1>7
<1>9. Left = [level \in 0 .. 2 |-> Round(Left, level)]
  BY <1>8 DEF Solves
<1>10. Left[0] = Round(Left, 0) /\ Left[1] = Round(Left, 1)
  <2>. DEFINE e == [level \in 0 .. 2 |-> Round(Left, level)]
  <2>1. e[0] = Round(Left, 0) /\ e[1] = Round(Left, 1)
    OBVIOUS
  <2>. HIDE DEF e
  <2>. QED BY <1>9, <2>1 DEF e
<1>11. Left[0] = First0 /\ Left[1] = Then(Left[0], 1)
  BY <1>3, <1>10
<1>12. Span(0) = 1 /\ Span(1) = PerBlock
  BY DEF Span
<1>13. First0[c] = ((c - (Direct - 1)) - Span(0)) % Width
  BY DEF First0
<1>14. (c - (Direct - 1)) - Span(0) = c - Direct
  BY <1>12, BlockAssumption
<1>15. Left[0][c] = (c - Direct) % Width
  BY <1>11, <1>13, <1>14
<1>16. \A h : Then(h, 1)[c] = (h[c] - Span(1)) % Width
  BY DEF Then
<1>17. Left[1][c] = (Left[0][c] - Span(1)) % Width
  BY <1>11, <1>16
<1>. QED BY <1>12, <1>15, <1>17

(* The first two levels of the map are those of the disk.                  *)
LEMMA InodeBlockIs ==
  ASSUME NEW c \in Nat, c < Base(2)
  PROVE  InodeBlock(c) = c
<1>. DEFINE l0 == Left[0][c]
            l1 == Left[1][c]
            fits == {level \in 0 .. 2 : Left[level][c] \div Span(level) < PerBlock}
            least == CHOOSE l \in fits : \A o \in fits : l <= o
<1>1. /\ Direct \in Nat /\ PerBlock \in Nat /\ PerBlock > 0 /\ Width \in Nat /\ Width > 0
      /\ Direct + PerBlock + PerBlock * PerBlock <= Width
      /\ PerBlock * PerBlock \in Nat
  BY BlockAssumption, Mult
<1>2. /\ Base(0) = Direct /\ Base(1) = Direct + PerBlock
      /\ Base(2) = Direct + PerBlock + PerBlock * PerBlock
  BY PowerIs DEF Base
<1>3. l0 = (c - Direct) % Width /\ l1 = (l0 - PerBlock) % Width /\ Span(0) = 1 /\ Span(1) = PerBlock
  BY LeftIs DEF Span
<1>4. InodeBlock(c) = IF c < Direct THEN c ELSE IF fits = {} THEN Stray
                      ELSE IndirectBlock(Left[least][c], least)
  BY DEF InodeBlock
<1>5. /\ 0 \in fits <=> l0 \div 1 < PerBlock
      /\ 1 \in fits <=> l1 \div PerBlock < PerBlock
      /\ fits \subseteq 0 .. 2 /\ fits \subseteq Nat
  BY <1>3
<1>6. /\ \A n : IndirectBlock(n, 0) = Base(0) + 0 + 0 + Index(n, 0) * Power[0]
      /\ \A n : IndirectBlock(n, 1) = Base(1) + 0 + Index(n, 1) * Power[1] + Index(n, 0) * Power[0]
  BY DEF IndirectBlock
<1>7. \A n \in Nat : n \div 1 = n
  BY SMT
<1>8. /\ \A n \in Nat : Index(n, 0) = n % PerBlock
      /\ \A n \in Nat : Index(n, 1) = (n \div PerBlock) % PerBlock
  BY <1>7, PowerIs DEF Index
<1>. HIDE DEF l0, l1, fits, least
<1>9. CASE c < Direct
  BY <1>4, <1>9
<1>10. CASE c >= Direct /\ c < Direct + PerBlock
  <2>1. c - Direct \in Nat /\ c - Direct < Width /\ c - Direct < PerBlock
    BY <1>1, <1>10
  <2>2. l0 = c - Direct
    BY <1>1, <1>3, <2>1, ModSmall
  <2>3. 0 \in fits
    BY <1>5, <1>7, <2>1, <2>2
  <2>4. least = 0
    <3>1. \A y \in fits : 0 <= y
      BY <1>5
    <3>. QED BY <1>5, <2>3, <3>1, FirstIs DEF least
  <2>5. Index(l0, 0) = l0
    BY <1>1, <1>8, <2>1, <2>2, ModSmall
  <2>6. InodeBlock(c) = IndirectBlock(l0, 0)
    BY <1>4, <1>10, <1>1, <2>3, <2>4 DEF l0
  <2>. QED BY <1>1, <1>2, <1>6, <2>1, <2>2, <2>5, <2>6, PowerIs
<1>11. CASE c >= Direct + PerBlock
  <2>1. c - Direct \in Nat /\ c - Direct < Width /\ c - Direct >= PerBlock
    BY <1>1, <1>2, <1>11
  <2>2. l0 = c - Direct
    BY <1>1, <1>3, <2>1, ModSmall
  <2>3. 0 \notin fits
    BY <1>1, <1>5, <1>7, <2>1, <2>2
  <2>4. l0 - PerBlock \in Nat /\ l0 - PerBlock < Width /\ l0 - PerBlock < PerBlock * PerBlock
    BY <1>1, <1>2, <2>1, <2>2
  <2>5. l1 = l0 - PerBlock
    BY <1>1, <1>3, <2>4, ModSmall
  <2>6. l1 \div PerBlock < PerBlock
    BY <1>1, <2>4, <2>5, DivLess
  <2>7. 1 \in fits
    BY <1>5, <2>6
  <2>8. least = 1
    <3>1. \A y \in fits : 1 <= y
      BY <1>5, <2>3
    <3>. QED BY <1>5, <2>7, <3>1, FirstIs DEF least
  <2>9. PICK q \in Nat : \E r \in 0 .. PerBlock - 1 :
           q = l1 \div PerBlock /\ r = l1 % PerBlock /\ l1 = q * PerBlock + r
    <3>1. l1 \in Nat /\ PerBlock \in Nat \ {0}
      BY <1>1, <2>4, <2>5
    <3>. QED BY <3>1, DivMod
  <2>10. Index(l1, 1) = q /\ Index(l1, 0) = l1 % PerBlock
    BY <1>1, <1>8, <2>4, <2>5, <2>6, <2>9, ModSmall
  <2>11. InodeBlock(c) = IndirectBlock(l1, 1)
    BY <1>4, <1>11, <1>1, <2>7, <2>8 DEF l1
  <2>12. InodeBlock(c) = Direct + PerBlock + 0 + q * PerBlock + (l1 % PerBlock) * 1
    BY <1>2, <1>6, <2>10, <2>11, PowerIs
  <2>13. q * PerBlock \in Nat
    BY <1>1, Mult
  <2>. HIDE DEF l1
  <2>14. InodeBlock(c) = Direct + PerBlock + l1
    BY <1>1, <2>9, <2>12, <2>13
  <2>. QED BY <1>1, <2>2, <2>5, <2>14
<1>. QED BY <1>1, <1>9, <1>10, <1>11

(* The reads                                                               *)

Started == offset \div BlockSize

(* The blocks the loop is to read.                                         *)
Rounds == IF file.fs = "isofs" THEN BlockNo(offset % BlockSize, asked) ELSE InodeBlocks(asked)

(* A loop that still has bytes to read stands at the end of the last block.*)
InBlocks ==
  /\ ~ fault /\ length + Len(got) = asked
  /\ blknum = Rounds /\ blkoff <= blknum
  /\ length > 0 => IF blkoff = 0 THEN Len(got) = 0
                   ELSE offset + Len(got) = (Started + blkoff) * BlockSize

ReadType ==
  /\ rpc \in {"closed", "open", "block"}
  /\ file.length \in Nat
  /\ rpc # "closed" => file.fs \in {"isofs", "ext2fs"}
  /\ offset \in 0 .. Width - 1 /\ asked \in 0 .. Width - 1
  /\ length \in Nat /\ blkoff \in Nat /\ rret \in Int /\ IsSeq(got)

ReadInv ==
  /\ ReadType /\ ReadsInPlace /\ ReadAnswersTrue
  /\ rpc = "closed" => got = <<>> /\ asked = 0 /\ rret = 0
  /\ rpc = "block" => InBlocks

LEMMA Constants ==
  /\ BlockSize \in Nat \ {0} /\ Width \in Nat \ {0} /\ BlockSize <= Width
  /\ DiskBlocks \in Nat /\ PerBlock \in Nat /\ Direct \in Nat
  BY BlockAssumption

(* A block that is read: what is copied goes on where the last one ended.  *)
LEMMA ChunkIs ==
  ASSUME ReadInv, rpc = "block"
  PROVE  /\ First \in 0 .. BlockSize - 1 /\ Block \in Nat
         /\ Chunk \in Nat /\ Chunk <= length /\ (Chunk = length \/ Chunk = BlockSize - First)
         /\ Chunk <= BlockSize - First
         /\ Block = Started + blkoff
         /\ length > 0 => offset + Len(got) = Block * BlockSize + First
<1>1. /\ BlockSize \in Nat \ {0} /\ offset \in Nat /\ length \in Nat /\ blkoff \in Nat /\ Len(got) \in Nat
  BY Constants DEF ReadInv, ReadType, IsSeq
<1>2. PICK q \in Nat : \E r \in 0 .. BlockSize - 1 :
         q = offset \div BlockSize /\ r = offset % BlockSize /\ offset = q * BlockSize + r
  BY <1>1, DivMod
<1>3. PICK r \in 0 .. BlockSize - 1 :
         q = offset \div BlockSize /\ r = offset % BlockSize /\ offset = q * BlockSize + r
  BY <1>2
<1>4. First \in 0 .. BlockSize - 1 /\ First = IF blkoff = 0 THEN r ELSE 0
  BY <1>1, <1>3 DEF First
<1>5. Block = q + blkoff /\ Started = q
  BY <1>3 DEF Block, Started
<1>6. Chunk = IF BlockSize - First < length THEN BlockSize - First ELSE length
  BY DEF Chunk, Lower
<1>7. ASSUME length > 0 PROVE offset + Len(got) = Block * BlockSize + First
  <2>1. IF blkoff = 0 THEN Len(got) = 0 ELSE offset + Len(got) = (q + blkoff) * BlockSize
    BY <1>5, <1>7 DEF ReadInv, InBlocks
  <2>2. (q + blkoff) * BlockSize \in Nat
    BY <1>1, Mult
  <2>3. CASE blkoff = 0
    <3>1. q + blkoff = q /\ q * BlockSize \in Nat
      BY <1>1, <2>3, Mult
    <3>. QED BY <1>1, <1>3, <1>4, <1>5, <2>1, <2>3, <3>1
  <2>4. CASE blkoff # 0
    BY <1>1, <1>4, <1>5, <2>1, <2>2, <2>4
  <2>. QED BY <2>3, <2>4
<1>8. Chunk \in Nat /\ Chunk <= length /\ (Chunk = length \/ Chunk = BlockSize - First) /\ Chunk <= BlockSize - First
  BY <1>1, <1>4, <1>6
<1>. QED BY <1>1, <1>4, <1>5, <1>7, <1>8

(* Where data comes from.                                                  *)
LEMMA SourceIs ==
  ASSUME ReadInv, rpc = "block", NEW k \in 1 .. Chunk,
         Block * BlockSize + First + k <= Mapped
  PROVE  Source = Block
<1>1. /\ First \in 0 .. BlockSize - 1 /\ Block \in Nat /\ Chunk \in Nat /\ BlockSize \in Nat
  BY ChunkIs, Constants
<1>2. CASE file.fs = "isofs"
  BY <1>2 DEF Source
<1>3. CASE file.fs = "ext2fs"
  <2>1. Mapped = Base(2) * BlockSize /\ Base(2) \in Nat
    BY <1>3, PowerIs, Constants, Mult DEF Mapped, Base
  <2>2. Block * BlockSize \in Nat /\ Base(2) * BlockSize \in Nat
    BY <1>1, <2>1, Mult
  <2>3. Block * BlockSize < Base(2) * BlockSize
    BY <1>1, <2>1, <2>2
  <2>4. Block < Base(2)
    BY <1>1, <2>1, <2>3, MultLess
  <2>. QED BY <1>1, <1>3, <2>4, InodeBlockIs DEF Source
<1>. QED BY <1>2, <1>3 DEF ReadInv, ReadType

LEMMA DataIs ==
  ASSUME ReadInv, rpc = "block", NEW b
  PROVE  /\ IsSeq(Data(b)) /\ Len(Data(b)) = Chunk
         /\ \A k \in 1 .. Chunk : Data(b)[k] = IF b = Stray THEN Stray ELSE b * BlockSize + First + k - 1
         /\ IsSeq(got \o Data(b)) /\ Len(got \o Data(b)) = Len(got) + Chunk
         /\ \A i \in 1 .. Len(got) : (got \o Data(b))[i] = got[i]
         /\ \A k \in 1 .. Chunk : (got \o Data(b))[Len(got) + k] = Data(b)[k]
<1>1. Chunk \in Nat /\ IsSeq(got)
  BY ChunkIs DEF ReadInv, ReadType
<1>2. DOMAIN Data(b) = 1 .. Chunk
  BY DEF Data
<1>3. IsSeq(Data(b)) /\ Len(Data(b)) = Chunk
  <2>1. Data(b) = [i \in 1 .. Chunk |-> IF b = Stray THEN Stray ELSE b * BlockSize + First + i - 1]
    BY DEF Data
  <2>2. Len(Data(b)) = Chunk
    BY <1>1, <2>1
  <2>. QED BY <1>1, <1>2, <2>2 DEF IsSeq
<1>4. \A k \in 1 .. Chunk : Data(b)[k] = IF b = Stray THEN Stray ELSE b * BlockSize + First + k - 1
  BY DEF Data
<1>. DEFINE d == Data(b)
<1>5. IsSeq(d) /\ Len(d) = Chunk
  BY <1>3
<1>. HIDE DEF d
<1>6. /\ IsSeq(got \o d) /\ Len(got \o d) = Len(got) + Chunk
      /\ \A i \in 1 .. Len(got) : (got \o d)[i] = got[i]
      /\ \A k \in 1 .. Chunk : (got \o d)[Len(got) + k] = d[k]
  BY <1>1, <1>5 DEF IsSeq
<1>. QED BY <1>3, <1>4, <1>6 DEF d

LEMMA ReadBlockKeeps ==
  ASSUME ReadInv, ReadBlock
  PROVE  ReadInv'
<1>1. /\ rpc = "block" /\ blkoff < blknum
      /\ got' = got \o Data(Source) /\ length' = length - Chunk /\ blkoff' = blkoff + 1
      /\ UNCHANGED <<rpc, file, offset, blknum, asked, fault, rret>>
  BY DEF ReadBlock, More
<1>2. /\ First \in 0 .. BlockSize - 1 /\ Block \in Nat
      /\ Chunk \in Nat /\ Chunk <= length /\ (Chunk = length \/ Chunk = BlockSize - First)
      /\ Block = Started + blkoff
      /\ length > 0 => offset + Len(got) = Block * BlockSize + First
  BY <1>1, ChunkIs
<1>3. /\ IsSeq(got)' /\ Len(got)' = Len(got) + Chunk
      /\ \A i \in 1 .. Len(got) : got'[i] = got[i]
      /\ \A k \in 1 .. Chunk : got'[Len(got) + k] = Data(Source)[k]
  BY <1>1, DataIs
<1>4. /\ BlockSize \in Nat \ {0} /\ length \in Nat /\ blkoff \in Nat /\ Len(got) \in Nat /\ offset \in Nat
      /\ DOMAIN got = 1 .. Len(got) /\ Started \in Nat /\ Started' = Started
  <2>1. BlockSize \in Nat \ {0} /\ length \in Nat /\ blkoff \in Nat /\ Len(got) \in Nat /\ offset \in Nat
        /\ DOMAIN got = 1 .. Len(got)
    BY Constants DEF ReadInv, ReadType, IsSeq
  <2>2. Started \in Nat
    BY <2>1, DivMod DEF Started
  <2>. QED BY <1>1, <2>1, <2>2 DEF Started
<1>5. ReadType'
  BY <1>1, <1>2, <1>3, <1>4 DEF ReadInv, ReadType
<1>6. ReadsInPlace'
  <2>1. Mapped' = Mapped
    BY <1>1 DEF Mapped
  <2>2. ASSUME NEW i \in DOMAIN got', offset + i <= Mapped PROVE got'[i] = offset + i - 1
    <3>1. i \in 1 .. Len(got) + Chunk
      BY <1>3, <2>2 DEF IsSeq
    <3>2. CASE i \in 1 .. Len(got)
      BY <1>3, <1>4, <2>2, <3>2 DEF ReadInv, ReadsInPlace
    <3>3. CASE i \notin 1 .. Len(got)
      <4>. DEFINE k == i - Len(got)
      <4>1. k \in 1 .. Chunk /\ i = Len(got) + k /\ length > 0
        BY <1>2, <1>4, <3>1, <3>3
      <4>2. offset + Len(got) = Block * BlockSize + First
        BY <1>2, <4>1
      <4>3. Block * BlockSize \in Nat
        BY <1>2, <1>4, Mult
      <4>. HIDE DEF k
      <4>4. offset + i = Block * BlockSize + First + k
        BY <1>2, <1>4, <4>1, <4>2, <4>3
      <4>5. Source = Block
        BY <1>1, <2>2, <4>1, <4>4, SourceIs
      <4>6. Data(Source)[k] = Block * BlockSize + First + k - 1
        <5>1. Block # Stray
          BY <1>2 DEF Stray
        <5>. QED BY <1>1, <4>1, <4>5, <5>1, DataIs
      <4>. QED BY <1>2, <1>3, <1>4, <4>1, <4>3, <4>4, <4>6
    <3>. QED BY <3>2, <3>3
  <2>. QED BY <1>1, <2>1, <2>2 DEF ReadsInPlace
<1>7. InBlocks'
  <2>1. ~ fault /\ length + Len(got) = asked /\ blknum = Rounds
    BY <1>1 DEF ReadInv, InBlocks
  <2>2. Rounds' = Rounds
    BY <1>1 DEF Rounds
  <2>3. length' + Len(got)' = asked
    BY <1>1, <1>2, <1>3, <1>4, <2>1
  <2>4. blkoff' <= blknum
    <3>1. blknum \in Int
      <4>1. offset % BlockSize \in Int /\ asked \in Int /\ Width \in Int /\ Width > 0 /\ BlockSize \in Int
            /\ BlockSize > 0 /\ Width * Width \in Int /\ Width * Width > 0
        BY <1>4, ModRange, Constants DEF ReadInv, ReadType
      <4>. QED BY <2>1, <4>1 DEF Rounds, BlockNo, InodeBlocks
    <3>. QED BY <1>1, <1>4, <3>1
  <2>5. ASSUME length' > 0 PROVE offset + Len(got)' = (Started + blkoff') * BlockSize
    <3>1. length > 0 /\ Chunk = BlockSize - First
      BY <1>1, <1>2, <1>4, <2>5
    <3>2. offset + Len(got) = Block * BlockSize + First
      BY <1>2, <3>1
    <3>3. Block * BlockSize \in Nat /\ (Block + 1) * BlockSize = Block * BlockSize + BlockSize
      BY <1>2, <1>4, Mult
    <3>4. Started + blkoff' = Block + 1
      BY <1>1, <1>2, <1>4
    <3>5. (Started + blkoff') * BlockSize = Block * BlockSize + BlockSize
      BY <3>3, <3>4
    <3>6. offset + Len(got)' = Block * BlockSize + BlockSize
      <4>. DEFINE p == Block * BlockSize
      <4>1. p \in Nat /\ offset + Len(got) = p + First
        BY <3>2, <3>3
      <4>. HIDE DEF p
      <4>2. offset + (Len(got) + (BlockSize - First)) = p + BlockSize
        BY <1>2, <1>4, <4>1
      <4>3. Len(got)' = Len(got) + (BlockSize - First)
        BY <1>3, <3>1
      <4>4. offset + Len(got)' = p + BlockSize
        BY <4>2, <4>3
      <4>. QED BY <4>4 DEF p
    <3>. QED BY <3>5, <3>6
  <2>6. blkoff' # 0
    BY <1>1, <1>4
  <2>. QED BY <1>1, <1>4, <2>1, <2>2, <2>3, <2>4, <2>5, <2>6 DEF InBlocks
<1>8. ReadAnswersTrue'
  BY <1>1 DEF ReadAnswersTrue, ReadComplete, CountIsTrue
<1>. QED BY <1>1, <1>5, <1>6, <1>7, <1>8 DEF ReadInv

(* The number of rounds when there is something to read.                   *)
LEMMA RoundsAre ==
  ASSUME ReadInv, rpc = "block", asked > 0
  PROVE  \E q \in Nat : \E r \in 0 .. BlockSize - 1 :
           /\ Rounds = q + 1
           /\ file.fs = "isofs"  => (offset % BlockSize) + asked - 1 = q * BlockSize + r
           /\ file.fs = "ext2fs" => asked - 1 = q * BlockSize + r
<1>1. /\ BlockSize \in Nat \ {0} /\ Width \in Nat \ {0} /\ BlockSize <= Width
      /\ asked \in Nat /\ asked < Width /\ asked > 0 /\ offset \in Nat
      /\ file.fs \in {"isofs", "ext2fs"}
  BY Constants DEF ReadInv, ReadType
<1>2. offset % BlockSize \in 0 .. BlockSize - 1
  BY <1>1, ModRange
<1>3. CASE file.fs = "isofs"
  <2>. DEFINE m == offset % BlockSize
              n == m + asked - 1
  <2>1. m \in 0 .. BlockSize - 1 /\ Rounds = BlockNo(m, asked)
    BY <1>2, <1>3 DEF Rounds
  <2>. HIDE DEF m
  <2>2. n \in Nat /\ n < Width + Width /\ n + 1 < Width + Width
    BY <1>1, <2>1
  <2>3. n < Width * Width
    <3>1. CASE Width = 1
      BY <1>1, <2>1, <3>1
    <3>2. CASE Width >= 2
      <4>1. 2 * Width <= Width * Width /\ Width * Width \in Nat
        BY <1>1, <3>2, Mult
      <4>. QED BY <1>1, <2>2, <4>1
    <3>. QED BY <1>1, <3>1, <3>2
  <2>4. n % (Width * Width) = n
    <3>1. Width * Width \in Nat
      BY <1>1, Mult
    <3>. QED BY <2>2, <2>3, <3>1, ModSmall
  <2>5. m \div BlockSize = 0
    <3>1. m \in Nat /\ m < 1 * BlockSize
      BY <1>1, <2>1
    <3>2. m \div BlockSize < 1
      BY <1>1, <3>1, DivLess
    <3>3. m \div BlockSize \in Nat
      BY <1>1, <3>1, DivMod
    <3>. QED BY <3>2, <3>3
  <2>6. PICK q \in Nat : \E r \in 0 .. BlockSize - 1 :
          q = n \div BlockSize /\ r = n % BlockSize /\ n = q * BlockSize + r
    BY <1>1, <2>2, DivMod
  <2>7. BlockNo(m, asked) = ((n % (Width * Width)) \div BlockSize) - (m \div BlockSize) + 1
    BY DEF BlockNo
  <2>. HIDE DEF n
  <2>8. Rounds = q + 1
    BY <2>1, <2>4, <2>5, <2>6, <2>7
  <2>. QED BY <1>3, <2>6, <2>8 DEF m, n
<1>4. CASE file.fs = "ext2fs"
  <2>. DEFINE n == asked - 1
  <2>1. n \in Nat /\ n < Width
    BY <1>1
  <2>2. PICK q \in Nat : \E r \in 0 .. BlockSize - 1 :
          q = n \div BlockSize /\ r = n % BlockSize /\ n = q * BlockSize + r
    BY <1>1, <2>1, DivMod
  <2>3. Rounds = (n % Width) \div BlockSize + 1
    BY <1>4 DEF Rounds, InodeBlocks
  <2>4. n % Width = n
    BY <1>1, <2>1, ModSmall
  <2>. HIDE DEF n
  <2>5. Rounds = q + 1
    BY <2>2, <2>3, <2>4
  <2>. QED BY <1>4, <2>2, <2>5 DEF n
<1>. QED BY <1>1, <1>3, <1>4

(* When the rounds are over isofs has read all, ext2fs all but the bytes   *)
(* that stand before the offset in its block.                              *)
LEMMA RoundsEnough ==
  ASSUME ReadInv, rpc = "block", ~ (blkoff < blknum), length > 0
  PROVE  file.fs = "ext2fs" /\ length < BlockSize
<1>1. /\ BlockSize \in Nat \ {0} /\ asked \in Nat /\ offset \in Nat
      /\ length \in Nat /\ Len(got) \in Nat /\ length + Len(got) = asked /\ blkoff \in Nat
      /\ blkoff <= blknum /\ blknum = Rounds
  BY Constants DEF ReadInv, ReadType, IsSeq, InBlocks
<1>2. asked > 0
  BY <1>1
<1>3. PICK p \in Nat : \E r \in 0 .. BlockSize - 1 :
           /\ Rounds = p + 1
           /\ file.fs = "isofs"  => (offset % BlockSize) + asked - 1 = p * BlockSize + r
           /\ file.fs = "ext2fs" => asked - 1 = p * BlockSize + r
  BY <1>2, RoundsAre
<1>4. PICK r \in 0 .. BlockSize - 1 :
           /\ Rounds = p + 1
           /\ file.fs = "isofs"  => (offset % BlockSize) + asked - 1 = p * BlockSize + r
           /\ file.fs = "ext2fs" => asked - 1 = p * BlockSize + r
  BY <1>3
<1>5. blkoff = p + 1
  BY <1>1, <1>4
<1>6. PICK q \in Nat : \E m \in 0 .. BlockSize - 1 :
         q = offset \div BlockSize /\ m = offset % BlockSize /\ offset = q * BlockSize + m
  BY <1>1, DivMod
<1>7. PICK m \in 0 .. BlockSize - 1 :
         q = offset \div BlockSize /\ m = offset % BlockSize /\ offset = q * BlockSize + m
  BY <1>6
<1>8. offset + Len(got) = (q + (p + 1)) * BlockSize
  <2>1. offset + Len(got) = (Started + blkoff) * BlockSize
    BY <1>5 DEF ReadInv, InBlocks
  <2>. QED BY <1>5, <1>7, <2>1 DEF Started
<1>9. (q + (p + 1)) * BlockSize = q * BlockSize + (p * BlockSize + BlockSize)
  BY <1>1, Mult
<1>10. q * BlockSize \in Nat /\ p * BlockSize \in Nat
  BY <1>1, Mult
<1>. DEFINE qb == q * BlockSize
            pb == p * BlockSize
<1>11. /\ qb \in Nat /\ pb \in Nat /\ offset = qb + m /\ offset + Len(got) = qb + (pb + BlockSize)
       /\ file.fs = "isofs"  => m + asked - 1 = pb + r
       /\ file.fs = "ext2fs" => asked - 1 = pb + r
  BY <1>4, <1>7, <1>8, <1>9, <1>10
<1>. HIDE DEF qb, pb
<1>12. Len(got) = pb + BlockSize - m
  BY <1>1, <1>11
<1>13. file.fs # "isofs"
  BY <1>1, <1>11, <1>12
<1>14. file.fs = "ext2fs"
  BY <1>13 DEF ReadInv, ReadType
<1>15. length < BlockSize
  BY <1>1, <1>11, <1>12, <1>14
<1>. QED BY <1>14, <1>15

LEMMA ReturnKeeps ==
  ASSUME ReadInv, rpc = "block", NEW value \in Int, Return(value), UNCHANGED got,
         ReadAnswersTrue'
  PROVE  ReadInv'
<1>1. /\ rpc' = "open" /\ rret' = value /\ length' = 0 /\ blkoff' = 0
      /\ UNCHANGED <<file, offset, asked, got>>
  BY DEF Return
<1>2. ReadType'
  BY <1>1 DEF ReadInv, ReadType, IsSeq
<1>3. ReadsInPlace'
  BY <1>1 DEF ReadInv, ReadsInPlace, Mapped
<1>. QED BY <1>1, <1>2, <1>3 DEF ReadInv

LEMMA ReadStepKeeps ==
  ASSUME ReadInv, ReadStep
  PROVE  ReadInv'
<1>1. rpc = "block"
  BY DEF ReadStep, ReadBlock, BlockFails, ReadEnds
<1>2. /\ BlockSize \in Nat \ {0} /\ asked \in Nat /\ length \in Nat /\ Len(got) \in Nat
      /\ length + Len(got) = asked /\ ~ fault /\ file.fs \in {"isofs", "ext2fs"}
  BY <1>1, Constants DEF ReadInv, ReadType, IsSeq, InBlocks
<1>3. CASE BlockFails
  <2>. DEFINE value == IF file.fs = "isofs" THEN - EFAULT ELSE asked - length
  <2>1. /\ Return(value) /\ UNCHANGED got
        /\ fault' = (fault \/ ~ (file.fs = "ext2fs" /\ Source \in file.holes))
    BY <1>3 DEF BlockFails
  <2>2. value \in Int /\ (file.fs = "isofs" => value < 0) /\ (file.fs = "ext2fs" => value = Len(got))
    BY <1>2 DEF EFAULT
  <2>. HIDE DEF value
  <2>3. rret' = value /\ UNCHANGED <<file, asked, got>>
    BY <2>1 DEF Return
  <2>4. CountIsTrue'
    BY <1>2, <2>1, <2>2, <2>3 DEF CountIsTrue
  <2>5. ReadComplete'
    BY <2>1, <2>3 DEF ReadComplete
  <2>. QED BY <1>1, <2>1, <2>2, <2>4, <2>5, ReturnKeeps DEF ReadAnswersTrue
<1>4. CASE ReadEnds
  <2>. DEFINE value == IF file.fs = "isofs" THEN asked ELSE asked - length
  <2>1. Return(value) /\ UNCHANGED <<got, fault>> /\ ~ More
    BY <1>4 DEF ReadEnds
  <2>2. length > 0 => file.fs = "ext2fs" /\ length < BlockSize
    BY <1>1, <2>1, RoundsEnough DEF More
  <2>3. value \in Int /\ value = Len(got) /\ asked - Len(got) < BlockSize
        /\ (file.fs = "isofs" => Len(got) = asked)
    BY <1>2, <2>2
  <2>. HIDE DEF value
  <2>4. rret' = value /\ UNCHANGED <<file, asked, got, fault>>
    BY <2>1 DEF Return
  <2>5. CountIsTrue'
    BY <2>3, <2>4 DEF CountIsTrue
  <2>6. ReadComplete'
    BY <1>2, <2>3, <2>4 DEF ReadComplete
  <2>. QED BY <1>1, <2>1, <2>3, <2>5, <2>6, ReturnKeeps DEF ReadAnswersTrue
<1>5. CASE ReadBlock
  BY <1>5, ReadBlockKeeps
<1>. QED BY <1>3, <1>4, <1>5 DEF ReadStep

(* The calls of the program                                                *)

LEMMA AllowedIs ==
  ASSUME ReadInv, NEW n \in Sizes
  PROVE  Allowed(n) \in 0 .. Width - 1
<1>1. n \in 0 .. Width - 1 /\ Width \in Nat \ {0} /\ file.length - offset \in Int
  BY BlockAssumption DEF ReadInv, ReadType
<1>2. (file.length - offset) % Width \in 0 .. Width - 1
  BY <1>1, ModRange
<1>. QED BY <1>1, <1>2 DEF Allowed, Lower

LEMMA NothingRead ==
  ASSUME got' = <<>>
  PROVE  IsSeq(got)' /\ Len(got)' = 0 /\ ReadsInPlace'
  BY DEF IsSeq, ReadsInPlace

LEMMA CallsKeep ==
  ASSUME ReadInv, Seek \/ Read \/ ReadNoMemory \/ CloseFile
  PROVE  ReadInv'
<1>1. /\ BlockSize \in Nat \ {0} /\ Width \in Nat \ {0}
      /\ Seeks \subseteq 0 .. Width - 1 /\ Offsets \subseteq 0 .. Width - 1
  BY BlockAssumption
<1>2. rpc = "open"
  BY DEF Seek, Read, ReadNoMemory, CloseFile
<1>3. CASE Seek
  <2>1. /\ offset' \in 0 .. Width - 1 /\ got' = <<>> /\ asked' = 0 /\ rret' = 0
        /\ UNCHANGED <<rpc, file, length, blkoff>>
    BY <1>1, <1>3 DEF Seek
  <2>2. ReadType'
    BY <1>1, <2>1, NothingRead DEF ReadInv, ReadType
  <2>3. ReadAnswersTrue'
    BY <2>1, NothingRead DEF ReadAnswersTrue, ReadComplete, CountIsTrue
  <2>. QED BY <1>2, <2>1, <2>2, <2>3, NothingRead DEF ReadInv
<1>4. CASE Read
  <2>1. PICK n \in Sizes : asked' = Allowed(n) /\ length' = Allowed(n)
    BY <1>4 DEF Read
  <2>2. /\ rpc' = "block" /\ blkoff' = 0 /\ got' = <<>> /\ fault' = FALSE
        /\ blknum' = IF file.fs = "isofs" THEN BlockNo(offset % BlockSize, length')
                     ELSE InodeBlocks(length')
        /\ UNCHANGED <<file, offset, rret>>
    BY <1>4 DEF Read
  <2>3. asked' \in 0 .. Width - 1 /\ length' = asked'
    BY <2>1, AllowedIs
  <2>4. ReadType'
    BY <1>1, <1>2, <2>2, <2>3, NothingRead DEF ReadInv, ReadType
  <2>5. blknum' = Rounds'
    BY <2>2, <2>3 DEF Rounds
  <2>6. 0 <= blknum'
    <3>. DEFINE m == offset % BlockSize
                w == Width * Width
    <3>1. offset \in Nat /\ m \in 0 .. BlockSize - 1
      BY <1>1, ModRange DEF ReadInv, ReadType
    <3>2. w \in Nat \ {0}
      BY <1>1, Mult
    <3>. HIDE DEF m, w
    <3>3. (m + asked' - 1) % w \in Nat /\ (asked' - 1) % Width \in Nat
      <4>1. m + asked' - 1 \in Int /\ asked' - 1 \in Int
        BY <1>1, <2>3, <3>1
      <4>. DEFINE i == m + asked' - 1
                  j == asked' - 1
      <4>2. i % w \in 0 .. w - 1 /\ j % Width \in 0 .. Width - 1
        <5>. HIDE DEF i, j
        <5>. QED BY <1>1, <3>2, <4>1, ModRange DEF i, j
      <4>. QED BY <1>1, <3>2, <4>2
    <3>4. \A k \in Nat : k \div BlockSize \in Nat
      BY <1>1, DivMod
    <3>5. m \div BlockSize < 1 /\ m \div BlockSize \in Nat
      <4>1. m \in Nat /\ m < 1 * BlockSize
        BY <1>1, <3>1
      <4>. QED BY <1>1, <4>1, DivLess, <3>4
    <3>6. ((m + asked' - 1) % w) \div BlockSize \in Nat /\ ((asked' - 1) % Width) \div BlockSize \in Nat
      BY <3>3, <3>4
    <3>7. BlockNo(m, asked') = (((m + asked' - 1) % w) \div BlockSize) - (m \div BlockSize) + 1
      BY DEF BlockNo, w
    <3>8. BlockNo(m, asked') >= 0 /\ InodeBlocks(asked') >= 0
      BY <3>5, <3>6, <3>7 DEF InodeBlocks
    <3>. QED BY <2>2, <2>3, <3>8 DEF m
  <2>7. InBlocks'
    <3>1. length' + Len(got)' = asked'
      <4>1. Len(got)' = 0
        BY <2>2, NothingRead
      <4>2. \A k \in Nat : k + 0 = k
        OBVIOUS
      <4>3. asked' \in Nat /\ length' = asked'
        BY <1>1, <2>3
      <4>4. asked' + 0 = asked'
        BY <4>2, <4>3, Zenon
      <4>. QED BY <4>1, <4>3, <4>4, Zenon
    <3>. QED BY <2>2, <2>3, <2>5, <2>6, <3>1, NothingRead DEF InBlocks
  <2>8. ReadAnswersTrue'
    BY <2>2 DEF ReadAnswersTrue, ReadComplete, CountIsTrue
  <2>. QED BY <2>2, <2>4, <2>7, <2>8, NothingRead DEF ReadInv
<1>5. CASE ReadNoMemory
  <2>1. PICK n \in Sizes : asked' = Allowed(n)
    BY <1>5 DEF ReadNoMemory
  <2>2. /\ rpc' = "open" /\ rret' \in Int /\ rret' < 0 /\ got' = <<>> /\ fault' = TRUE
        /\ UNCHANGED <<file, offset, length, blkoff>>
    BY <1>5 DEF ReadNoMemory, EFAULT, ENOMEM
  <2>3. ReadType'
    BY <1>2, <2>1, <2>2, AllowedIs, NothingRead DEF ReadInv, ReadType
  <2>4. ReadAnswersTrue'
    BY <2>2 DEF ReadAnswersTrue, ReadComplete, CountIsTrue
  <2>. QED BY <2>2, <2>3, <2>4, NothingRead DEF ReadInv
<1>6. CASE CloseFile
  <2>1. /\ rpc' = "closed" /\ file' = NoFile /\ offset' = 0 /\ length' = 0 /\ blkoff' = 0
        /\ got' = <<>> /\ asked' = 0 /\ fault' = FALSE /\ rret' = 0
    BY <1>6 DEF CloseFile
  <2>2. ReadType'
    BY <1>1, <2>1, NothingRead DEF ReadType, NoFile
  <2>3. ReadAnswersTrue'
    BY <2>1 DEF ReadAnswersTrue, ReadComplete, CountIsTrue
  <2>. QED BY <2>1, <2>2, <2>3, NothingRead DEF ReadInv
<1>. QED BY <1>3, <1>4, <1>5, <1>6

LEMMA OpenKeeps ==
  ASSUME ReadInv, NEW f, OpenFile(f), f.length \in Nat, f.fs \in {"isofs", "ext2fs"}
  PROVE  ReadInv'
<1>1. /\ rpc = "closed" /\ rpc' = "open" /\ file' = f /\ offset' = 0
      /\ UNCHANGED <<length, blkoff, got, asked, rret>>
  BY DEF OpenFile
<1>2. got' = <<>> /\ asked' = 0 /\ rret' = 0
  BY <1>1 DEF ReadInv
<1>3. ReadType'
  BY <1>1, <1>2, Constants DEF ReadInv, ReadType, IsSeq
<1>4. ReadAnswersTrue'
  BY <1>1, <1>2, NothingRead DEF ReadAnswersTrue, ReadComplete, CountIsTrue
<1>. QED BY <1>1, <1>2, <1>3, <1>4, NothingRead DEF ReadInv

LEMMA ReadsAlone ==
  ASSUME ReadInv, UNCHANGED rvars
  PROVE  ReadInv'
<1>1. Mapped' = Mapped /\ Rounds' = Rounds /\ Started' = Started
  BY DEF rvars, Mapped, Rounds, Started
<1>2. ReadType' /\ ReadsInPlace' /\ ReadAnswersTrue'
  BY <1>1 DEF rvars, ReadInv, ReadType, IsSeq, ReadsInPlace, ReadAnswersTrue, ReadComplete, CountIsTrue
<1>3. InBlocks <=> InBlocks'
  BY <1>1 DEF rvars, InBlocks
<1>. QED BY <1>2, <1>3 DEF rvars, ReadInv

(* file_open of a file that a lookup has found.                            *)
LEMMA FileOpenKeeps ==
  ASSUME TreeInv, ReadInv, FileOpen
  PROVE  ReadInv'
<1>1. disks \in Disks /\ bootdisk \in DOMAIN disks
  BY DEF FileOpen, TreeInv, BootDisk
<1>2. tree[result].obj \in DOMAIN Image.files /\ tree[result].kind \in {"isofs", "ext2fs"}
  BY DEF FileOpen
<1>. DEFINE f == [fs |-> tree[result].kind,
                  length |-> Image.files[tree[result].obj].length,
                  holes |-> Image.files[tree[result].obj].holes]
<1>3. f.length \in Nat /\ f.fs \in {"isofs", "ext2fs"}
  BY <1>1, <1>2, DisksAssumption DEF Image, WellFormedDisk
<1>4. OpenFile(f)
  BY DEF FileOpen
<1>. HIDE DEF f
<1>. QED BY <1>3, <1>4, OpenKeeps

(* The loop over the blocks of a read stands where the bytes copied end,   *)
(* and has as many rounds as it needs.                                     *)
THEOREM ReadsInductive == FilesSpec => []ReadInv
<1>1. FilesInit => ReadInv
  <2>. SUFFICES ASSUME FilesInit PROVE ReadInv
    OBVIOUS
  <2>1. /\ rpc = "closed" /\ file = NoFile /\ offset = 0 /\ length = 0 /\ blkoff = 0
        /\ got = <<>> /\ asked = 0 /\ rret = 0
    BY DEF FilesInit, ReadInit
  <2>2. ReadType /\ Len(got) = 0
    BY <2>1, Constants DEF ReadType, IsSeq, NoFile
  <2>3. ReadsInPlace
    BY <2>1 DEF ReadsInPlace
  <2>. QED BY <2>1, <2>2, <2>3 DEF ReadInv, ReadAnswersTrue, ReadComplete, CountIsTrue
<1>2. TreeInv /\ ReadInv /\ [FilesNext]_fvars => ReadInv'
  <2>. SUFFICES ASSUME TreeInv, ReadInv, [FilesNext]_fvars PROVE ReadInv'
    OBVIOUS
  <2>1. CASE UNCHANGED rvars
    BY <2>1, ReadsAlone
  <2>2. CASE BootStep \/ StartOpen \/ LookupStep
    BY <2>1, <2>2 DEF BootStep, StartOpen, LookupStep
  <2>3. CASE FileOpen
    BY <2>3, FileOpenKeeps
  <2>4. CASE FileStep
    BY <2>4, CallsKeep DEF FileStep
  <2>5. CASE DiskStep
    BY <2>5, ReadStepKeeps DEF DiskStep
  <2>. QED BY <2>1, <2>2, <2>3, <2>4, <2>5 DEF FilesNext, fvars
<1>. QED BY <1>1, <1>2, TreeInductive, PTL DEF FilesSpec

(* What a read delivers is what is in the file at its offset, in order and *)
(* without a gap, whatever fails on the way - up to the third level of the *)
(* map of ext2fs (ext2fs_inode_read, superblock_read_offset).              *)
THEOREM BytesInPlace == FilesSpec => []ReadsInPlace
<1>1. ReadInv => ReadsInPlace
  BY DEF ReadInv
<1>. QED BY <1>1, ReadsInductive, PTL

(* The callers of file_read can trust its result: it counts the bytes that *)
(* were copied, and these are all bytes unless something failed, but for   *)
(* the last block of a read of ext2fs that starts inside a block.          *)
THEOREM AnswersAreTrue == FilesSpec => []ReadAnswersTrue
<1>1. ReadInv => ReadAnswersTrue
  BY DEF ReadInv
<1>. QED BY <1>1, ReadsInductive, PTL

-----------------------------------------------------------------------------
(* Lookups                                                                 *)

Key(i)    == <<tree[i].kind, tree[i].obj>>
BelowOf(n, name) == Below(Image, Devices, Key(n), name)

DeviceNode(i) == tree[i].parent = 2 /\ tree[i].kind \in {"cdev", "bdev"} /\ tree[i].obj = tree[i].name

RootNode == Node("root", Root, Image.fs, RootInode)

OnFs(i) == tree[i].kind = Image.fs /\ tree[i].parent \notin {Root, 2} /\ tree[tree[i].parent].kind = Image.fs

(* The nodes behind the first two are devices, and, of the disk, its root  *)
(* and what lookups have found below it.                                   *)
Kinds ==
  /\ phase \in {"drivers", "mount"} => \A i \in 3 .. Len(tree) : DeviceNode(i)
  /\ phase = "run" => \A i \in 3 .. Len(tree) : DeviceNode(i) \/ tree[i] = RootNode \/ OnFs(i)

(* The disk is one whose directories the code reads to their end, and      *)
(* nothing was taken from behind them.                                     *)
Trusted == strays = {} /\ (Image.fs = "isofs" => OneSector)

(* A node is what the disk has under its name.                             *)
RightNodes ==
  Trusted => \A i \in 3 .. Len(tree) :
    OnFs(i) /\ ~ ShadowedName(tree[i].name) => BelowOf(tree[i].parent, tree[i].name) = {Key(i)}

(* The nodes of a tree from one of them up to the root, and their keys.    *)
Climbs(t, ch, s) ==
  /\ ch \in Seq(DOMAIN t) /\ ch # <<>> /\ ch[Len(ch)] = Root
  /\ s \in Seq({<<t[i].kind, t[i].obj>> : i \in DOMAIN t}) /\ Len(s) = Len(ch)
  /\ \A j \in 1 .. Len(ch) : s[j] = <<t[ch[j]].kind, t[ch[j]].obj>>
  /\ \A j \in 1 .. Len(ch) - 1 : ch[j + 1] = t[ch[j]].parent

Stack(k) == After(Image, Devices, path)[k]

(* The lookup has come to where the first parts of its path lead.          *)
PathTo(k, ch) ==
  /\ Climbs(tree, ch, Stack(k)) /\ ch[1] = at
  /\ Len(rest) = Len(path) - k
  /\ \A j \in 1 .. Len(rest) : rest[j] = path[k + j]

OnPath == \E k \in 0 .. Len(path) : \E ch \in Seq(DOMAIN tree) : PathTo(k, ch)

Honest == Trusted /\ ~ Shadowed(path)

LookInv ==
  /\ Kinds
  /\ opens \in Nat /\ (opens > 0 => phase = "run")
  /\ path \in Seq(STRING) /\ rest \in Seq(STRING)
  /\ phase = "run" => RightNodes
  /\ Looking /\ Honest => OnPath
  /\ phase = "run" /\ ~ Looking /\ opens > 0 /\ ~ faulty /\ Honest => Agrees

(* A property that passes from each number to the next.                    *)
LEMMA UpTo ==
  ASSUME NEW m \in Nat, NEW n \in Nat, NEW S, m \in S, \A k \in m .. n - 1 : k \in S => k + 1 \in S
  PROVE  m .. n \subseteq S
<1>. DEFINE Others == {k \in m .. n : k \notin S}
<1>1. SUFFICES ASSUME Others # {} PROVE FALSE
  OBVIOUS
<1>2. Others \subseteq Nat
  OBVIOUS
<1>3. PICK k \in Others : \A y \in Others : k <= y
  BY <1>1, <1>2, LeastNat
<1>4. k \in Nat /\ k <= n /\ k > m /\ k \notin S
  BY <1>3
<1>5. k - 1 \in m .. n - 1 /\ k - 1 \notin Others
  BY <1>3, <1>4
<1>6. k - 1 \in S
  BY <1>5
<1>. QED BY <1>4, <1>5, <1>6

(* A recursion over the parts of a sequence, whatever the step: what it    *)
(* gives for one part more is its step of what it gave.                    *)
LEMMA AfterIs ==
  ASSUME NEW disk, NEW devices, NEW p \in Seq(STRING)
  PROVE  /\ After(disk, devices, p)[0] = << <<"ramfs", "[root]">> >>
         /\ \A k \in 1 .. Len(p) :
              After(disk, devices, p)[k] = Down(disk, devices, After(disk, devices, p)[k - 1], p[k])
<1>. DEFINE Top == << <<"ramfs", "[root]">> >>
            Next1(s, k) == Down(disk, devices, s, p[k])
            Solves(f, m) == f = [k \in 0 .. m |-> IF k = 0 THEN Top ELSE Next1(f[k - 1], k)]
            Solved == {m \in 0 .. Len(p) : \E f : Solves(f, m)}
<1>0. Len(p) \in Nat
  OBVIOUS
<1>. HIDE DEF Top, Next1
<1>1. 0 \in Solved
  <2>1. Solves([k \in 0 .. 0 |-> Top], 0)
    OBVIOUS
  <2>2. \E f : Solves(f, 0)
    BY <2>1
  <2>. HIDE DEF Solves
  <2>. QED BY <1>0, <2>2
<1>2. ASSUME NEW m \in 0 .. Len(p) - 1, m \in Solved PROVE m + 1 \in Solved
  <2>1. PICK f : Solves(f, m)
    BY <1>2
  <2>. DEFINE g == [k \in 0 .. m + 1 |-> IF k = m + 1 THEN Next1(f[m], k) ELSE f[k]]
              h == [k \in 0 .. m + 1 |-> IF k = 0 THEN Top ELSE Next1(g[k - 1], k)]
  <2>2. ASSUME NEW k \in 0 .. m + 1
        PROVE  g[k] = IF k = 0 THEN Top ELSE Next1(g[k - 1], k)
    <3>1. CASE k = m + 1
      <4>1. g[k] = Next1(f[m], k) /\ k - 1 = m /\ k # 0
        BY <1>0, <3>1
      <4>2. g[m] = f[m]
        BY <1>0
      <4>. HIDE DEF g
      <4>. QED BY <4>1, <4>2
    <3>2. CASE k # m + 1 /\ k # 0
      <4>1. k \in 0 .. m /\ k - 1 \in 0 .. m
        BY <1>0, <3>2
      <4>2. g[k] = f[k] /\ g[k - 1] = f[k - 1]
        BY <1>0, <4>1
      <4>3. f[k] = Next1(f[k - 1], k)
        BY <2>1, <4>1, <3>2
      <4>. HIDE DEF g
      <4>. QED BY <3>2, <4>2, <4>3
    <3>3. CASE k = 0
      <4>1. g[k] = f[k]
        BY <1>0, <3>3
      <4>2. f[k] = Top
        BY <1>0, <2>1, <3>3
      <4>. QED BY <3>3, <4>1, <4>2
    <3>. QED BY <3>1, <3>2, <3>3
  <2>3. g = h
    <3>1. \A k \in 0 .. m + 1 : g[k] = h[k]
      BY <2>2
    <3>2. /\ g = [k \in 0 .. m + 1 |-> g[k]]
          /\ h = [k \in 0 .. m + 1 |-> h[k]]
      OBVIOUS
    <3>. HIDE DEF g, h
    <3>. QED BY <3>1, <3>2
  <2>4. Solves(g, m + 1)
    <3>. HIDE DEF g
    <3>. QED BY <2>3
  <2>5. \E e : Solves(e, m + 1)
    <3>. HIDE DEF Solves, g
    <3>. QED BY <2>4
  <2>. HIDE DEF Solves
  <2>. QED BY <1>0, <2>5
<1>3. Len(p) \in Solved
  <2>1. 0 .. Len(p) \subseteq Solved
    <3>. HIDE DEF Solved
    <3>. QED BY <1>0, <1>1, <1>2, UpTo
  <2>. HIDE DEF Solved
  <2>. QED BY <1>0, <2>1
<1>4. \E f : Solves(f, Len(p))
  BY <1>3
<1>. DEFINE a == After(disk, devices, p)
<1>5. Solves(a, Len(p))
  <2>1. a = CHOOSE f : Solves(f, Len(p))
    BY DEF After, Next1, Top
  <2>. HIDE DEF Solves, a
  <2>. QED BY <1>4, <2>1
<1>. HIDE DEF a
<1>6. a[0] = Top /\ \A k \in 1 .. Len(p) : a[k] = Next1(a[k - 1], k)
  <2>. DEFINE e == [k \in 0 .. Len(p) |-> IF k = 0 THEN Top ELSE Next1(a[k - 1], k)]
  <2>1. a = e
    BY <1>5
  <2>2. e[0] = Top /\ \A k \in 1 .. Len(p) : e[k] = Next1(a[k - 1], k)
    BY <1>0
  <2>. HIDE DEF e
  <2>. QED BY <2>1, <2>2
<1>. QED BY <1>6 DEF a, Top, Next1
(* The records of a directory are a sequence.                              *)
LEMMA RecordsAre ==
  ASSUME NEW R, NEW dir \in Seq(Seq(R))
  PROVE  AllRecords(dir) \in Seq(R)
<1>. DEFINE n == Len(dir)
            Plus(s, k) == s \o dir[k]
            Solves(f, m) == f = [k \in 0 .. m |-> IF k = 0 THEN <<>> ELSE Plus(f[k - 1], k)]
            Solved == {m \in 0 .. n : \E f : Solves(f, m)}
<1>0. n \in Nat /\ \A k \in 1 .. n : dir[k] \in Seq(R)
  OBVIOUS
<1>. HIDE DEF n, Plus
<1>1. 0 \in Solved
  <2>1. Solves([k \in 0 .. 0 |-> <<>>], 0)
    OBVIOUS
  <2>2. \E f : Solves(f, 0)
    BY <2>1
  <2>. HIDE DEF Solves
  <2>. QED BY <1>0, <2>2
<1>2. ASSUME NEW m \in 0 .. n - 1, m \in Solved PROVE m + 1 \in Solved
  <2>1. PICK f : Solves(f, m)
    BY <1>2
  <2>. DEFINE g == [k \in 0 .. m + 1 |-> IF k = m + 1 THEN Plus(f[m], k) ELSE f[k]]
              h == [k \in 0 .. m + 1 |-> IF k = 0 THEN <<>> ELSE Plus(g[k - 1], k)]
  <2>2. ASSUME NEW k \in 0 .. m + 1
        PROVE  g[k] = IF k = 0 THEN <<>> ELSE Plus(g[k - 1], k)
    <3>1. CASE k = m + 1
      <4>1. g[k] = Plus(f[m], k) /\ k - 1 = m /\ k # 0
        BY <1>0, <3>1
      <4>2. g[m] = f[m]
        BY <1>0
      <4>. HIDE DEF g
      <4>. QED BY <4>1, <4>2
    <3>2. CASE k # m + 1 /\ k # 0
      <4>1. k \in 0 .. m /\ k - 1 \in 0 .. m
        BY <1>0, <3>2
      <4>2. g[k] = f[k] /\ g[k - 1] = f[k - 1]
        BY <1>0, <4>1
      <4>3. f[k] = Plus(f[k - 1], k)
        BY <2>1, <4>1, <3>2
      <4>. HIDE DEF g
      <4>. QED BY <3>2, <4>2, <4>3
    <3>3. CASE k = 0
      <4>1. g[k] = f[k]
        BY <1>0, <3>3
      <4>2. f[k] = <<>>
        BY <1>0, <2>1, <3>3
      <4>. QED BY <3>3, <4>1, <4>2
    <3>. QED BY <3>1, <3>2, <3>3
  <2>3. g = h
    <3>1. \A k \in 0 .. m + 1 : g[k] = h[k]
      BY <2>2
    <3>2. /\ g = [k \in 0 .. m + 1 |-> g[k]]
          /\ h = [k \in 0 .. m + 1 |-> h[k]]
      OBVIOUS
    <3>. HIDE DEF g, h
    <3>. QED BY <3>1, <3>2
  <2>4. Solves(g, m + 1)
    <3>. HIDE DEF g
    <3>. QED BY <2>3
  <2>5. \E e : Solves(e, m + 1)
    <3>. HIDE DEF Solves, g
    <3>. QED BY <2>4
  <2>. HIDE DEF Solves
  <2>. QED BY <1>0, <2>5
<1>3. n \in Solved
  <2>1. 0 .. n \subseteq Solved
    <3>. HIDE DEF Solved
    <3>. QED BY <1>0, <1>1, <1>2, UpTo
  <2>. HIDE DEF Solved
  <2>. QED BY <1>0, <2>1
<1>4. \E f : Solves(f, n)
  BY <1>3
<1>. DEFINE a == Records(dir)
<1>5. Solves(a, n)
  <2>1. a = CHOOSE f : Solves(f, n)
    BY DEF Records, n, Plus
  <2>. HIDE DEF Solves, a
  <2>. QED BY <1>4, <2>1
<1>. HIDE DEF a
<1>6. a[0] = <<>> /\ \A k \in 1 .. n : a[k] = Plus(a[k - 1], k)
  <2>. DEFINE e == [k \in 0 .. n |-> IF k = 0 THEN <<>> ELSE Plus(a[k - 1], k)]
  <2>1. a = e
    BY <1>5
  <2>2. e[0] = <<>> /\ \A k \in 1 .. n : e[k] = Plus(a[k - 1], k)
    BY <1>0
  <2>. HIDE DEF e
  <2>. QED BY <2>1, <2>2
<1>. DEFINE Typed == {k \in 0 .. n : a[k] \in Seq(R)}
<1>7. 0 \in Typed
  <2>1. <<>> \in Seq(R)
    BY EmptySeq
  <2>2. a[0] \in Seq(R)
    BY <1>6, <2>1, Zenon
  <2>. QED BY <1>0, <2>2
<1>8. ASSUME NEW k \in 0 .. n - 1, k \in Typed PROVE k + 1 \in Typed
  <2>1. k + 1 \in 1 .. n /\ (k + 1) - 1 = k
    BY <1>0
  <2>2. a[k] \in Seq(R) /\ dir[k + 1] \in Seq(R) /\ a[k + 1] = a[k] \o dir[k + 1]
    BY <1>0, <1>6, <1>8, <2>1 DEF Plus
  <2>3. a[k + 1] \in Seq(R)
    BY <2>2, ConcatProperties
  <2>. QED BY <2>1, <2>3
<1>9. n \in Typed
  <2>1. 0 .. n \subseteq Typed
    <3>. HIDE DEF Typed
    <3>. QED BY <1>0, <1>7, <1>8, UpTo
  <2>. HIDE DEF Typed
  <2>. QED BY <1>0, <2>1
<1>. QED BY <1>9 DEF AllRecords, a, n

(* A path that has led nowhere leads nowhere.                              *)
LEMMA NowhereStays ==
  ASSUME NEW disk, NEW devices, NEW p \in Seq(STRING), NEW k \in 0 .. Len(p),
         After(disk, devices, p)[k] = <<>>
  PROVE  After(disk, devices, p)[Len(p)] = <<>>
<1>. DEFINE a == After(disk, devices, p)
            S == {m \in k .. Len(p) : a[m] = <<>>}
<1>0. k \in Nat
  OBVIOUS
<1>1. Len(p) \in Nat
  OBVIOUS
<1>2. ASSUME NEW m \in k .. Len(p) - 1, a[m] = <<>> PROVE a[m + 1] = <<>>
  <2>1. m + 1 \in 1 .. Len(p) /\ (m + 1) - 1 = m
    BY <1>1
  <2>2. a[m + 1] = Down(disk, devices, a[m], p[m + 1])
    BY <2>1, AfterIs
  <2>. HIDE DEF a
  <2>. QED BY <1>2, <2>2 DEF Down
<1>3. a[k] = <<>>
  OBVIOUS
<1>. HIDE DEF a
<1>4. k \in S /\ \A m \in k .. Len(p) - 1 : m \in S => m + 1 \in S
  BY <1>1, <1>2, <1>3
<1>5. k .. Len(p) \subseteq S
  <2>. HIDE DEF S
  <2>. QED BY <1>0, <1>1, <1>4, UpTo
<1>6. Len(p) \in k .. Len(p)
  BY <1>1
<1>. QED BY <1>5, <1>6 DEF a

-----------------------------------------------------------------------------
(* What a climb from a node leads to, and how it goes on.                  *)

LEMMA ClimbHead ==
  ASSUME NEW t, NEW ch, NEW s, Climbs(t, ch, s)
  PROVE  /\ Len(ch) \in Nat \ {0} /\ s # <<>> /\ ch[1] \in DOMAIN t
         /\ Head(s) = <<t[ch[1]].kind, t[ch[1]].obj>>
<1>1. Len(ch) \in Nat \ {0} /\ 1 \in 1 .. Len(ch) /\ ch[1] \in DOMAIN t
  <2>1. ch \in Seq(DOMAIN t) /\ ch # <<>>
    BY DEF Climbs
  <2>2. Len(ch) \in Nat \ {0}
    BY <2>1, EmptySeq
  <2>. QED BY <2>1, <2>2, ElementOfSeq
<1>2. Len(s) # 0 /\ s[1] = <<t[ch[1]].kind, t[ch[1]].obj>>
  BY <1>1 DEF Climbs
<1>3. s # <<>>
  BY <1>2, EmptySeq
<1>. QED BY <1>1, <1>2, <1>3

LEMMA ClimbKept ==
  ASSUME NEW t, NEW u, NEW ch, NEW s, Climbs(t, ch, s),
         DOMAIN t \subseteq DOMAIN u, \A i \in DOMAIN t : u[i] = t[i]
  PROVE  Climbs(u, ch, s)
<1>1. ch \in Seq(DOMAIN t) /\ \A j \in 1 .. Len(ch) : ch[j] \in DOMAIN t
  BY ElementOfSeq DEF Climbs
<1>2. ch \in Seq(DOMAIN u)
  BY <1>1, SeqMonotonic
<1>. DEFINE T == {<<t[i].kind, t[i].obj>> : i \in DOMAIN t}
            U == {<<u[i].kind, u[i].obj>> : i \in DOMAIN u}
<1>3. T \subseteq U
  OBVIOUS
<1>4. s \in Seq(T)
  BY DEF Climbs
<1>5. s \in Seq(U)
  <2>. HIDE DEF T, U
  <2>. QED BY <1>3, <1>4, SeqMonotonic
<1>6. Len(ch) \in Nat
  BY <1>1
<1>7. \A j \in 1 .. Len(ch) - 1 : j \in 1 .. Len(ch)
  BY <1>6
<1>. QED BY <1>1, <1>2, <1>5, <1>7 DEF Climbs

LEMMA ClimbUp ==
  ASSUME NEW t, NEW ch, NEW s, Climbs(t, ch, s), ch[1] # Root
  PROVE  /\ Climbs(t, Tail(ch), Tail(s)) /\ Tail(ch)[1] = t[ch[1]].parent
         /\ Tail(ch) \in Seq(DOMAIN t)
<1>. DEFINE T == {<<t[i].kind, t[i].obj>> : i \in DOMAIN t}
<1>1. /\ ch \in Seq(DOMAIN t) /\ ch # <<>> /\ s \in Seq(T) /\ s # <<>> /\ Len(s) = Len(ch)
      /\ Len(ch) \in Nat \ {0} /\ ch[Len(ch)] = Root
  BY ClimbHead DEF Climbs
<1>. HIDE DEF T
<1>2. /\ Tail(ch) \in Seq(DOMAIN t) /\ Len(Tail(ch)) = Len(ch) - 1
      /\ \A i \in 1 .. Len(Tail(ch)) : Tail(ch)[i] = ch[i + 1]
  BY <1>1, HeadTailProperties
<1>3. /\ Tail(s) \in Seq(T) /\ Len(Tail(s)) = Len(s) - 1
      /\ \A i \in 1 .. Len(Tail(s)) : Tail(s)[i] = s[i + 1]
  BY <1>1, HeadTailProperties
<1>4. Len(ch) # 1
  BY <1>1
<1>5. Tail(ch) # <<>>
  <2>1. Len(Tail(ch)) # 0
    BY <1>1, <1>2, <1>4
  <2>. QED BY <2>1, EmptySeq
<1>6. Tail(ch)[Len(Tail(ch))] = Root
  <2>1. Len(Tail(ch)) \in 1 .. Len(Tail(ch)) /\ Len(Tail(ch)) + 1 = Len(ch)
    BY <1>1, <1>2, <1>4
  <2>. QED BY <1>1, <1>2, <2>1
<1>7. ASSUME NEW j \in 1 .. Len(Tail(ch))
      PROVE  Tail(s)[j] = <<t[Tail(ch)[j]].kind, t[Tail(ch)[j]].obj>>
  <2>1. j + 1 \in 1 .. Len(ch)
    BY <1>1, <1>2
  <2>2. s[j + 1] = <<t[ch[j + 1]].kind, t[ch[j + 1]].obj>>
    BY <2>1 DEF Climbs
  <2>. QED BY <1>1, <1>2, <1>3, <2>2
<1>8. ASSUME NEW j \in 1 .. Len(Tail(ch)) - 1
      PROVE  Tail(ch)[j + 1] = t[Tail(ch)[j]].parent
  <2>1. j + 1 \in 1 .. Len(ch) - 1 /\ j \in 1 .. Len(Tail(ch)) /\ j + 1 \in 1 .. Len(Tail(ch))
    BY <1>1, <1>2
  <2>2. ch[(j + 1) + 1] = t[ch[j + 1]].parent
    BY <2>1 DEF Climbs
  <2>. QED BY <1>2, <2>1, <2>2
<1>9. Tail(ch)[1] = t[ch[1]].parent
  <2>1. 1 \in 1 .. Len(ch) - 1 /\ 1 \in 1 .. Len(Tail(ch))
    BY <1>1, <1>2, <1>4
  <2>2. ch[1 + 1] = t[ch[1]].parent
    BY <2>1 DEF Climbs
  <2>. QED BY <1>2, <2>1, <2>2
<1>10. Len(Tail(s)) = Len(Tail(ch))
  BY <1>1, <1>2, <1>3
<1>. QED BY <1>2, <1>3, <1>5, <1>6, <1>7, <1>8, <1>9, <1>10 DEF Climbs, T

(* From the root no climb leads on.                                        *)
LEMMA ClimbTop ==
  ASSUME NEW t, NEW ch, NEW s, Climbs(t, ch, s), ch[1] = Root,
         t[Root].parent = 0, 0 \notin DOMAIN t
  PROVE  Tail(s) = <<>>
<1>. DEFINE T == {<<t[i].kind, t[i].obj>> : i \in DOMAIN t}
<1>1. /\ ch \in Seq(DOMAIN t) /\ s \in Seq(T) /\ s # <<>> /\ Len(s) = Len(ch)
      /\ Len(ch) \in Nat \ {0}
  BY ClimbHead DEF Climbs
<1>. HIDE DEF T
<1>2. Len(ch) = 1
  <2>1. ASSUME Len(ch) # 1 PROVE FALSE
    <3>1. 1 \in 1 .. Len(ch) - 1 /\ 1 + 1 \in 1 .. Len(ch)
      BY <1>1, <2>1
    <3>2. ch[1 + 1] = t[ch[1]].parent
      BY <3>1 DEF Climbs
    <3>3. ch[1 + 1] \in DOMAIN t
      BY <1>1, <3>1, ElementOfSeq
    <3>. QED BY <3>2, <3>3
  <2>. QED BY <2>1
<1>3. Tail(s) \in Seq(T) /\ Len(Tail(s)) = 0
  BY <1>1, <1>2, HeadTailProperties
<1>. QED BY <1>3, EmptySeq

LEMMA ClimbDown ==
  ASSUME NEW t, NEW ch, NEW s, Climbs(t, ch, s), NEW i \in DOMAIN t, t[i].parent = ch[1]
  PROVE  /\ Climbs(t, <<i>> \o ch, << <<t[i].kind, t[i].obj>> >> \o s)
         /\ (<<i>> \o ch)[1] = i /\ <<i>> \o ch \in Seq(DOMAIN t)
<1>. DEFINE T == {<<t[j].kind, t[j].obj>> : j \in DOMAIN t}
            pair == <<t[i].kind, t[i].obj>>
            down == <<i>> \o ch
            more == <<pair>> \o s
<1>1. /\ ch \in Seq(DOMAIN t) /\ s \in Seq(T) /\ Len(s) = Len(ch)
      /\ Len(ch) \in Nat \ {0} /\ ch[Len(ch)] = Root
  BY ClimbHead DEF Climbs
<1>2. <<i>> \in Seq(DOMAIN t) /\ Len(<<i>>) = 1 /\ <<i>>[1] = i
  OBVIOUS
<1>3. pair \in T
  OBVIOUS
<1>. HIDE DEF T, pair
<1>4. <<pair>> \in Seq(T) /\ Len(<<pair>>) = 1 /\ <<pair>>[1] = pair
  BY <1>3
<1>5. /\ down \in Seq(DOMAIN t) /\ Len(down) = 1 + Len(ch)
      /\ \A j \in 1 .. 1 + Len(ch) : down[j] = IF j <= 1 THEN <<i>>[j] ELSE ch[j - 1]
  BY <1>1, <1>2, ConcatProperties
<1>6. /\ more \in Seq(T) /\ Len(more) = 1 + Len(ch)
      /\ \A j \in 1 .. 1 + Len(ch) : more[j] = IF j <= 1 THEN <<pair>>[j] ELSE s[j - 1]
  BY <1>1, <1>4, ConcatProperties
<1>. HIDE DEF down, more
<1>7. down[1] = i /\ more[1] = pair /\ \A j \in 1 .. Len(ch) : down[j + 1] = ch[j] /\ more[j + 1] = s[j]
  <2>1. \A j \in 1 .. Len(ch) : j + 1 \in 1 .. 1 + Len(ch) /\ ~ (j + 1 <= 1) /\ (j + 1) - 1 = j
    BY <1>1
  <2>2. 1 \in 1 .. 1 + Len(ch)
    BY <1>1
  <2>. QED BY <1>2, <1>4, <1>5, <1>6, <2>1, <2>2
<1>8. down # <<>> /\ down[Len(down)] = Root
  <2>1. down[Len(ch) + 1] = ch[Len(ch)] /\ Len(down) = Len(ch) + 1
    BY <1>1, <1>5, <1>7
  <2>. QED BY <1>1, <2>1, EmptySeq
<1>9. ASSUME NEW j \in 1 .. Len(down) PROVE more[j] = <<t[down[j]].kind, t[down[j]].obj>>
  <2>1. CASE j = 1
    BY <1>7, <2>1 DEF pair
  <2>2. CASE j # 1
    <3>1. j - 1 \in 1 .. Len(ch) /\ (j - 1) + 1 = j
      BY <1>1, <1>5, <2>2
    <3>2. s[j - 1] = <<t[ch[j - 1]].kind, t[ch[j - 1]].obj>>
      BY <3>1 DEF Climbs
    <3>. QED BY <1>7, <3>1, <3>2
  <2>. QED BY <2>1, <2>2
<1>10. ASSUME NEW j \in 1 .. Len(down) - 1 PROVE down[j + 1] = t[down[j]].parent
  <2>1. j \in 1 .. Len(ch)
    BY <1>1, <1>5
  <2>2. CASE j = 1
    BY <1>7, <2>1, <2>2
  <2>3. CASE j # 1
    <3>1. j - 1 \in 1 .. Len(ch) - 1 /\ j - 1 \in 1 .. Len(ch) /\ (j - 1) + 1 = j
      BY <1>1, <2>1, <2>3
    <3>2. ch[(j - 1) + 1] = t[ch[j - 1]].parent
      BY <3>1 DEF Climbs
    <3>. QED BY <1>7, <2>1, <3>1, <3>2
  <2>. QED BY <2>2, <2>3
<1>11. Len(more) = Len(down)
  BY <1>5, <1>6
<1>12. Climbs(t, down, more)
  BY <1>5, <1>6, <1>8, <1>9, <1>10, <1>11 DEF Climbs, T
<1>. QED BY <1>5, <1>7, <1>12 DEF down, more, pair

-----------------------------------------------------------------------------
(* What the tree and the directories say of a name                         *)

LEMMA RunFacts ==
  ASSUME TreeInv, phase = "run"
  PROVE  /\ Len(tree) \in Nat /\ Len(tree) >= 2 /\ DOMAIN tree = 1 .. Len(tree)
         /\ tree[1] = FsRoot /\ tree[2] = DevRoot
         /\ Image.fs \in {"isofs", "ext2fs"} /\ WellFormedDisk(Image)
         /\ Devices = {<<tree[i].kind, tree[i].name>> : i \in Children(2)}
<1>1. /\ Len(tree) \in Nat /\ Len(tree) >= 2 /\ DOMAIN tree = 1 .. Len(tree)
      /\ tree[1] = FsRoot /\ tree[2] = DevRoot
  BY DEF TreeInv, TreeStages, TreeBuilt, IsSeq
<1>2. bootdisk \in DOMAIN disks /\ disks \in Disks /\ Image.fs \in {"isofs", "ext2fs"}
  BY DEF TreeInv, BootDisk
<1>3. WellFormedDisk(Image)
  BY <1>2, DisksAssumption DEF Image
<1>4. DevNode = 2
  BY DevNodeIs DEF TreeBuilt
<1>. QED BY <1>1, <1>2, <1>3, <1>4 DEF Devices

(* Of the nodes at the top, and of those of the disk.                      *)
LEMMA BelowRoot ==
  ASSUME NEW disk, NEW devices, disk.fs \in {"isofs", "ext2fs"}
  PROVE  \A name : Below(disk, devices, <<"ramfs", "[root]">>, name)
                     = IF name = "dev" THEN {<<"ramfs", "dev">>}
                       ELSE IF name = "root" THEN {<<disk.fs, RootInode>>} ELSE {}
<1>. SUFFICES ASSUME NEW name
              PROVE  Below(disk, devices, <<"ramfs", "[root]">>, name)
                       = IF name = "dev" THEN {<<"ramfs", "dev">>}
                         ELSE IF name = "root" THEN {<<disk.fs, RootInode>>} ELSE {}
  OBVIOUS
<1>1. Below(disk, devices, <<"ramfs", "[root]">>, name)
        = {x \in {<<"ramfs", "dev">>, <<disk.fs, RootInode>>} :
             name = IF x[1] = "ramfs" THEN "dev" ELSE "root"}
  BY DEF Below
<1>2. disk.fs # "ramfs"
  OBVIOUS
<1>3. {x \in {<<"ramfs", "dev">>, <<disk.fs, RootInode>>} :
         name = IF x[1] = "ramfs" THEN "dev" ELSE "root"}
        = IF name = "dev" THEN {<<"ramfs", "dev">>}
          ELSE IF name = "root" THEN {<<disk.fs, RootInode>>} ELSE {}
  BY <1>2
<1>. QED BY <1>1, <1>3, Zenon

LEMMA BelowDev ==
  ASSUME NEW disk, NEW devices, disk.fs \in {"isofs", "ext2fs"}
  PROVE  \A name, d : d \in Below(disk, devices, <<"ramfs", "dev">>, name) <=>
                         d \in devices /\ d[2] = name
<1>1. <<"ramfs", "dev">> # <<"ramfs", "[root]">>
  OBVIOUS
<1>2. ASSUME NEW name
      PROVE  Below(disk, devices, <<"ramfs", "dev">>, name) = {d \in devices : d[2] = name}
  BY <1>1 DEF Below
<1>. QED BY <1>2

LEMMA BelowDevice ==
  ASSUME NEW disk, NEW devices, disk.fs \in {"isofs", "ext2fs"}, NEW kind \in {"cdev", "bdev"},
         NEW obj, NEW name
  PROVE  Below(disk, devices, <<kind, obj>>, name) = {}
<1>1. /\ <<kind, obj>> # <<"ramfs", "[root]">> /\ <<kind, obj>> # <<"ramfs", "dev">>
      /\ <<kind, obj>>[1] # disk.fs
  OBVIOUS
<1>. QED BY <1>1 DEF Below

LEMMA BelowDir ==
  ASSUME NEW disk, NEW devices, disk.fs \in {"isofs", "ext2fs"}, NEW ino, NEW name, NEW all,
         ino \in DOMAIN disk.dirs => all = AllRecords(disk.dirs[ino])
  PROVE  \A x : x \in Below(disk, devices, <<disk.fs, ino>>, name) <=>
                  /\ ino \in DOMAIN disk.dirs
                  /\ \E k \in DOMAIN all : all[k].name = name /\ x = <<disk.fs, all[k].obj>>
<1>. DEFINE top == <<disk.fs, ino>>
<1>1. top # <<"ramfs", "[root]">> /\ top # <<"ramfs", "dev">> /\ top[1] = disk.fs /\ top[2] = ino
  OBVIOUS
<1>. HIDE DEF top
<1>2. ASSUME ino \in DOMAIN disk.dirs
      PROVE  Below(disk, devices, top, name)
                = {<<disk.fs, AllRecords(disk.dirs[top[2]])[k].obj>> :
                     k \in {j \in DOMAIN AllRecords(disk.dirs[top[2]]) :
                              AllRecords(disk.dirs[top[2]])[j].name = name}}
  BY <1>1, <1>2 DEF Below
<1>3. ASSUME ino \notin DOMAIN disk.dirs PROVE Below(disk, devices, top, name) = {}
  BY <1>1, <1>3 DEF Below
<1>. QED BY <1>1, <1>2, <1>3 DEF top

(* A child has what the disk or the devices have under its name.           *)
LEMMA ChildIs ==
  ASSUME TreeInv, phase = "run", Kinds, RightNodes, Trusted,
         NEW i \in DOMAIN tree, tree[i].parent \in DOMAIN tree, ~ ShadowedName(tree[i].name)
  PROVE  BelowOf(tree[i].parent, tree[i].name) = {Key(i)}
<1>1. /\ Len(tree) \in Nat /\ Len(tree) >= 2 /\ DOMAIN tree = 1 .. Len(tree)
      /\ tree[1] = FsRoot /\ tree[2] = DevRoot
      /\ Image.fs \in {"isofs", "ext2fs"}
      /\ Devices = {<<tree[k].kind, tree[k].name>> : k \in Children(2)}
  BY RunFacts
<1>2. i # 1
  BY <1>1 DEF FsRoot, Node
<1>3. Key(1) = <<"ramfs", "[root]">> /\ Key(2) = <<"ramfs", "dev">> /\ tree[2].parent = 1 /\ tree[2].name = "dev"
  BY <1>1 DEF Key, FsRoot, DevRoot, Node, Root
<1>9. ASSUME NEW name
      PROVE  /\ BelowOf(1, name) = IF name = "dev" THEN {<<"ramfs", "dev">>}
                                   ELSE IF name = "root" THEN {<<Image.fs, RootInode>>} ELSE {}
             /\ \A d : d \in BelowOf(2, name) <=> d \in Devices /\ d[2] = name
  <2>1. /\ BelowOf(1, name) = Below(Image, Devices, <<"ramfs", "[root]">>, name)
        /\ BelowOf(2, name) = Below(Image, Devices, <<"ramfs", "dev">>, name)
    BY <1>3 DEF BelowOf
  <2>2. Image.fs \in {"isofs", "ext2fs"}
    BY <1>1
  <2>3. Below(Image, Devices, <<"ramfs", "[root]">>, name)
          = IF name = "dev" THEN {<<"ramfs", "dev">>}
            ELSE IF name = "root" THEN {<<Image.fs, RootInode>>} ELSE {}
    BY <2>2, BelowRoot
  <2>4. \A d : d \in Below(Image, Devices, <<"ramfs", "dev">>, name) <=> d \in Devices /\ d[2] = name
    BY <2>2, BelowDev
  <2>. QED BY <2>1, <2>3, <2>4, Zenon
<1>4. CASE i = 2
  <2>1. BelowOf(1, "dev") = {<<"ramfs", "dev">>}
    BY <1>9
  <2>. QED BY <1>3, <1>4, <2>1
<1>5. CASE i \in 3 .. Len(tree) /\ tree[i] = RootNode
  <2>1. tree[i].parent = 1 /\ tree[i].name = "root" /\ Key(i) = <<Image.fs, RootInode>>
    BY <1>5 DEF RootNode, Node, Key, Root
  <2>2. BelowOf(1, "root") = {<<Image.fs, RootInode>>}
    BY <1>9
  <2>. QED BY <2>1, <2>2
<1>6. CASE i \in 3 .. Len(tree) /\ DeviceNode(i)
  <2>. DEFINE name == tree[i].name
  <2>1. tree[i].parent = 2 /\ Key(i) = <<tree[i].kind, name>>
    BY <1>6 DEF DeviceNode, Key
  <2>2. \A d : d \in BelowOf(2, name) <=> d \in Devices /\ d[2] = name
    BY <1>9
  <2>3. Key(i) \in Devices
    BY <1>1, <2>1 DEF Children
  <2>4. ASSUME NEW d \in Devices, d[2] = name PROVE d = Key(i)
    <3>1. PICK k \in Children(2) : d = <<tree[k].kind, tree[k].name>>
      BY <1>1
    <3>2. k \in DOMAIN tree /\ tree[k].parent = 2 /\ tree[k].name = name
      BY <2>4, <3>1 DEF Children
    <3>3. k = i
      BY <2>1, <3>2 DEF TreeInv, OneNodePerName
    <3>. QED BY <2>1, <3>1, <3>3
  <2>5. Key(i)[2] = name
    BY <2>1
  <2>6. BelowOf(2, name) = {Key(i)}
    BY <2>2, <2>3, <2>4, <2>5
  <2>. QED BY <2>1, <2>6
<1>7. CASE i \in 3 .. Len(tree) /\ OnFs(i)
  BY <1>7 DEF RightNodes
<1>. QED BY <1>1, <1>2, <1>4, <1>5, <1>6, <1>7 DEF Kinds

(* The directory of a node, as the file systems walk it.                   *)
Dir(n)  == Image.dirs[tree[n].obj]
Seen(n) == IF tree[n].kind = "isofs" THEN IsoSeen(Dir(n)) ELSE ExtSeen(Dir(n))

LEMMA SeenIs ==
  ASSUME TreeInv, phase = "run", Trusted, NEW n, tree[n].kind = Image.fs,
         tree[n].obj \in DOMAIN Image.dirs
  PROVE  /\ Seen(n) = AllRecords(Dir(n)) /\ DOMAIN Seen(n) \subseteq Nat
         /\ \A k \in DOMAIN Seen(n) : /\ Seen(n)[k].obj # "none"
                                      /\ <<Seen(n)[k].name, Seen(n)[k].name>> \in PrefixOf
         /\ \A j, k \in DOMAIN Seen(n) : Seen(n)[j].name = Seen(n)[k].name => j = k
<1>. DEFINE all == AllRecords(Dir(n))
<1>1. /\ Dir(n) \in Seq(Seq([name : STRING, obj : STRING]))
      /\ \A k \in DOMAIN all : /\ all[k].obj # "none"
                               /\ <<all[k].name, all[k].name>> \in PrefixOf
      /\ \A j, k \in DOMAIN all : all[j].name = all[k].name => j = k
  BY RunFacts DEF WellFormedDisk, Dir
<1>2. DOMAIN all \subseteq Nat
  <2>1. all \in Seq([name : STRING, obj : STRING])
    BY <1>1, RecordsAre
  <2>. HIDE DEF all
  <2>. QED BY <2>1
<1>3. Seen(n) = all
  <2>1. CASE tree[n].kind = "isofs"
    <3>1. Len(Dir(n)) = 1
      BY <2>1 DEF Trusted, OneSector, Dir
    <3>2. Padded(Dir(n)) \subseteq {1}
      BY <1>1, <3>1 DEF Padded
    <3>3. CASE Padded(Dir(n)) = {}
      BY <2>1, <3>1, <3>3 DEF Seen, IsoSeen, AllRecords
    <3>4. CASE Padded(Dir(n)) # {}
      <4>1. Padded(Dir(n)) = {1}
        BY <3>2, <3>4
      <4>2. Smallest({1}) = 1
        BY DEF Smallest
      <4>. QED BY <2>1, <3>1, <3>4, <4>1, <4>2 DEF Seen, IsoSeen, AllRecords
    <3>. QED BY <3>3, <3>4
  <2>2. CASE tree[n].kind # "isofs"
    BY <2>2 DEF Seen, ExtSeen
  <2>. QED BY <2>1, <2>2
<1>. HIDE DEF all
<1>. QED BY <1>1, <1>2, <1>3 DEF all

(* The kinds of nodes of a tree that is built.                             *)
LEMMA NodeKinds ==
  ASSUME TreeInv, phase = "run", Kinds, NEW n \in DOMAIN tree
  PROVE  \/ n = 1 /\ Key(n) = <<"ramfs", "[root]">> /\ tree[n].kind = "ramfs"
         \/ n = 2 /\ Key(n) = <<"ramfs", "dev">> /\ tree[n].kind = "ramfs"
         \/ n \notin {1, 2} /\ tree[n].kind \in {"cdev", "bdev"}
         \/ n \notin {1, 2} /\ tree[n].kind = Image.fs
<1>1. /\ Len(tree) \in Nat /\ DOMAIN tree = 1 .. Len(tree)
      /\ tree[1] = FsRoot /\ tree[2] = DevRoot
  BY RunFacts
<1>2. CASE n = 1
  BY <1>1, <1>2 DEF Key, FsRoot, Node
<1>3. CASE n = 2
  BY <1>1, <1>3 DEF Key, DevRoot, Node
<1>4. CASE n \notin {1, 2}
  <2>1. n \in 3 .. Len(tree)
    BY <1>1, <1>4
  <2>2. DeviceNode(n) \/ tree[n] = RootNode \/ OnFs(n)
    BY <2>1 DEF Kinds
  <2>3. tree[n] = RootNode => tree[n].kind = Image.fs
    BY DEF RootNode, Node
  <2>. QED BY <1>4, <2>2, <2>3 DEF DeviceNode, OnFs
<1>. QED BY <1>2, <1>3, <1>4

(* What a walk of a directory gives is what the directory has.             *)
LEMMA WalkIs ==
  ASSUME TreeInv, phase = "run", Trusted, NEW n, tree[n].kind = Image.fs,
         NEW name, ~ ShadowedName(name), tree[n].obj \in DOMAIN Image.dirs
  PROVE  /\ Found(Seen(n), name) = {} => BelowOf(n, name) = {}
         /\ \A r \in Found(Seen(n), name) :
              r # Nothing /\ BelowOf(n, name) = {<<Image.fs, r.obj>>}
<1>. DEFINE all == Seen(n)
            hits == {k \in DOMAIN all : Matches(all[k], name)}
<1>1. /\ all = AllRecords(Dir(n)) /\ DOMAIN all \subseteq Nat
      /\ \A k \in DOMAIN all : all[k].obj # "none" /\ <<all[k].name, all[k].name>> \in PrefixOf
      /\ \A j, k \in DOMAIN all : all[j].name = all[k].name => j = k
  BY SeenIs
<1>2. Found(all, name) = IF hits = {} THEN {} ELSE {all[Smallest(hits)]}
  BY DEF Found
<1>3. \A k : k \in hits <=> k \in DOMAIN all /\ <<all[k].name, name>> \in PrefixOf
  BY DEF Matches
<1>4. Image.fs \in {"isofs", "ext2fs"}
  BY RunFacts
<1>5. AllRecords(Dir(n)) = AllRecords(Image.dirs[tree[n].obj])
  BY DEF Dir
<1>. HIDE DEF all, hits
<1>6. \A x : x \in BelowOf(n, name) <=> \E k \in DOMAIN all : all[k].name = name /\ x = <<Image.fs, all[k].obj>>
  <2>1. BelowOf(n, name) = Below(Image, Devices, <<Image.fs, tree[n].obj>>, name)
    BY DEF BelowOf, Key
  <2>2. tree[n].obj \in DOMAIN Image.dirs => all = AllRecords(Image.dirs[tree[n].obj])
    BY <1>1, <1>5
  <2>3. \A x : x \in Below(Image, Devices, <<Image.fs, tree[n].obj>>, name) <=>
          /\ tree[n].obj \in DOMAIN Image.dirs
          /\ \E k \in DOMAIN all : all[k].name = name /\ x = <<Image.fs, all[k].obj>>
    BY <1>4, <2>2, BelowDir
  <2>. QED BY <2>1, <2>3
<1>7. ASSUME NEW k \in hits PROVE all[k].name = name
  <2>1. k \in DOMAIN all /\ <<all[k].name, name>> \in PrefixOf
    BY <1>3
  <2>2. ~ (all[k].name # name /\ <<all[k].name, name>> \in PrefixOf)
    BY <1>1, <1>5, <2>1 DEF ShadowedName
  <2>. QED BY <2>1, <2>2
<1>8. ASSUME NEW k \in DOMAIN all, all[k].name = name PROVE k \in hits
  BY <1>1, <1>3, <1>8
<1>9. CASE hits = {}
  <2>1. BelowOf(n, name) = {}
    BY <1>6, <1>8, <1>9
  <2>2. Found(all, name) = {}
    BY <1>2, <1>9
  <2>. QED BY <2>1, <2>2 DEF all
<1>10. CASE hits # {}
  <2>1. PICK k \in hits : \A j \in hits : k <= j
    <3>1. hits \subseteq Nat
      BY <1>1, <1>3
    <3>. QED BY <1>10, <3>1, LeastNat
  <2>. DEFINE s == Smallest(hits)
  <2>2. s \in hits
    BY <2>1 DEF Smallest
  <2>. HIDE DEF s
  <2>3. s \in DOMAIN all /\ all[s].name = name /\ all[s].obj # "none"
    BY <1>1, <1>3, <1>7, <2>2
  <2>4. Found(all, name) = {all[s]}
    BY <1>2, <1>10 DEF s
  <2>5. BelowOf(n, name) = {<<Image.fs, all[s].obj>>}
    <3>1. \A j \in DOMAIN all : all[j].name = name => j = s
      BY <1>1, <2>3
    <3>. QED BY <1>6, <2>3, <3>1
  <2>6. all[s] # Nothing
    BY <2>3 DEF Nothing
  <2>. QED BY <2>4, <2>5, <2>6 DEF all
<1>. QED BY <1>9, <1>10

LEMMA FindDirIs ==
  ASSUME NEW n, NEW name
  PROVE  /\ tree[n].kind \notin {"isofs", "ext2fs"} => FindDir(n, name) = {Nothing}
         /\ tree[n].kind \in {"isofs", "ext2fs"} /\ tree[n].obj \notin DOMAIN Image.dirs
              => FindDir(n, name) = Strayed
         /\ tree[n].kind \in {"isofs", "ext2fs"} /\ tree[n].obj \in DOMAIN Image.dirs =>
              /\ Found(Seen(n), name) # {} => FindDir(n, name) = Found(Seen(n), name)
              /\ Found(Seen(n), name) = {} => FindDir(n, name) \subseteq Strayed
<1>1. ASSUME tree[n].kind \in {"isofs", "ext2fs"}, tree[n].obj \in DOMAIN Image.dirs
      PROVE  FindDir(n, name) =
               IF Found(Seen(n), name) # {} THEN Found(Seen(n), name)
               ELSE IF tree[n].kind = "isofs" /\ ~ IsoLost(Dir(n)) THEN {Nothing}
               ELSE Strayed
  BY <1>1 DEF FindDir, Seen, Dir
<1>2. tree[n].kind \notin {"isofs", "ext2fs"} => FindDir(n, name) = {Nothing}
  BY DEF FindDir
<1>3. tree[n].kind \in {"isofs", "ext2fs"} /\ tree[n].obj \notin DOMAIN Image.dirs
              => FindDir(n, name) = Strayed
  BY DEF FindDir
<1>4. ASSUME tree[n].kind \in {"isofs", "ext2fs"}, tree[n].obj \in DOMAIN Image.dirs
      PROVE  /\ Found(Seen(n), name) # {} => FindDir(n, name) = Found(Seen(n), name)
             /\ Found(Seen(n), name) = {} => FindDir(n, name) \subseteq Strayed
  BY <1>1, <1>4 DEF Strayed
<1>. QED BY <1>2, <1>3, <1>4

(* A name that the code does not find is not there.                        *)
LEMMA NoChild ==
  ASSUME TreeInv, phase = "run", Kinds, Trusted, NEW n \in DOMAIN tree,
         NEW name, ~ ShadowedName(name), Nothing \in FindDir(n, name),
         \A i \in DOMAIN tree : ~ (tree[i].parent = n /\ tree[i].name = name)
  PROVE  BelowOf(n, name) = {}
<1>1. /\ Len(tree) \in Nat /\ Len(tree) >= 2 /\ DOMAIN tree = 1 .. Len(tree)
      /\ tree[2] = DevRoot /\ Image.fs \in {"isofs", "ext2fs"}
      /\ Devices = {<<tree[k].kind, tree[k].name>> : k \in Children(2)}
  BY RunFacts
<1>2. Image.fs \in {"isofs", "ext2fs"}
  BY <1>1
<1>3. BelowOf(n, name) = Below(Image, Devices, Key(n), name)
  BY DEF BelowOf
<1>4. CASE n = 1 /\ Key(n) = <<"ramfs", "[root]">>
  <2>1. Below(Image, Devices, <<"ramfs", "[root]">>, name)
          = IF name = "dev" THEN {<<"ramfs", "dev">>}
            ELSE IF name = "root" THEN {<<Image.fs, RootInode>>} ELSE {}
    BY <1>2, BelowRoot
  <2>2. name # "dev"
    BY <1>1, <1>4 DEF DevRoot, Node, Root
  <2>3. name # "root"
    <3>1. PICK j \in DOMAIN tree : tree[j].parent = 1 /\ tree[j].name = "root"
      BY DEF TreeInv, BootDisk, Root
    <3>. QED BY <1>4, <3>1
  <2>. QED BY <1>3, <1>4, <2>1, <2>2, <2>3
<1>5. CASE n = 2 /\ Key(n) = <<"ramfs", "dev">>
  <2>1. \A d : d \in Below(Image, Devices, <<"ramfs", "dev">>, name) <=> d \in Devices /\ d[2] = name
    BY <1>2, BelowDev
  <2>2. ASSUME NEW d \in Devices, d[2] = name PROVE FALSE
    <3>1. PICK k \in Children(2) : d = <<tree[k].kind, tree[k].name>>
      BY <1>1
    <3>2. k \in DOMAIN tree /\ tree[k].parent = 2 /\ tree[k].name = name
      BY <2>2, <3>1 DEF Children
    <3>. QED BY <1>5, <3>2
  <2>. QED BY <1>3, <1>5, <2>1, <2>2
<1>6. CASE tree[n].kind \in {"cdev", "bdev"}
  <2>1. Below(Image, Devices, <<tree[n].kind, tree[n].obj>>, name) = {}
    BY <1>2, <1>6, BelowDevice
  <2>. QED BY <1>3, <2>1 DEF Key
<1>7. CASE tree[n].kind = Image.fs
  <2>1. CASE tree[n].obj \notin DOMAIN Image.dirs
    <3>1. \A x : ~ (x \in Below(Image, Devices, <<Image.fs, tree[n].obj>>, name))
      BY <1>2, <2>1, BelowDir
    <3>. QED BY <1>3, <1>7, <3>1 DEF Key
  <2>2. CASE tree[n].obj \in DOMAIN Image.dirs
    <3>1. CASE Found(Seen(n), name) = {}
      BY <1>7, <2>2, <3>1, WalkIs
    <3>2. CASE Found(Seen(n), name) # {}
      <4>1. FindDir(n, name) = Found(Seen(n), name)
        BY <1>2, <1>7, <2>2, <3>2, FindDirIs
      <4>2. \A r \in Found(Seen(n), name) : r # Nothing
        BY <1>7, <2>2, WalkIs
      <4>. QED BY <4>1, <4>2
    <3>. QED BY <3>1, <3>2
  <2>. QED BY <2>1, <2>2
<1>. QED BY <1>4, <1>5, <1>6, <1>7, NodeKinds

(* A record that the code finds is what the disk has.                      *)
LEMMA NewChild ==
  ASSUME TreeInv, phase = "run", Kinds, Trusted, NEW n \in DOMAIN tree,
         NEW name, ~ ShadowedName(name), NEW r \in FindDir(n, name) \ {Nothing, Endless},
         r # Behind
  PROVE  tree[n].kind = Image.fs /\ n \notin {1, 2} /\ BelowOf(n, name) = {<<Image.fs, r.obj>>}
<1>1. tree[n].kind \in {"isofs", "ext2fs"}
  BY OnDisk
<1>2. tree[n].kind = Image.fs /\ n \notin {1, 2}
  BY <1>1, NodeKinds
<1>3. tree[n].obj \in DOMAIN Image.dirs
  BY <1>1, FindDirIs DEF Strayed
<1>4. r \in Found(Seen(n), name)
  BY <1>1, <1>3, FindDirIs DEF Strayed
<1>. QED BY <1>2, <1>3, <1>4, WalkIs

-----------------------------------------------------------------------------
(* The steps of a lookup                                                   *)

LEMMA DownIs ==
  ASSUME NEW disk, NEW devices, NEW s, s # <<>>, NEW name
  PROVE  /\ name = "." => Down(disk, devices, s, name) = s
         /\ name = ".." => Down(disk, devices, s, name) = Tail(s)
<1>1. ASSUME name = "." PROVE Down(disk, devices, s, name) = s
  <2>1. name # ".."
    BY <1>1
  <2>. QED BY <1>1, <2>1 DEF Down
<1>2. ASSUME name = ".." PROVE Down(disk, devices, s, name) = Tail(s)
  <2>1. name # "."
    BY <1>2
  <2>. QED BY <1>2, <2>1 DEF Down
<1>. QED BY <1>1, <1>2

LEMMA DownNowhere ==
  ASSUME NEW disk, NEW devices, NEW s, s # <<>>, NEW name, name \notin {".", ".."},
         Below(disk, devices, Head(s), name) = {}
  PROVE  Down(disk, devices, s, name) = <<>>
  BY DEF Down

LEMMA DownTo ==
  ASSUME NEW disk, NEW devices, NEW s, s # <<>>, NEW name, name \notin {".", ".."},
         NEW x, \A y : y \in Below(disk, devices, Head(s), name) <=> y = x,
         NEW more, more = <<x>> \o s
  PROVE  Down(disk, devices, s, name) = more
<1>. DEFINE below == Below(disk, devices, Head(s), name)
            first == CHOOSE y \in below : TRUE
<1>1. Down(disk, devices, s, name) = IF below = {} THEN <<>> ELSE <<first>> \o s
  <2>1. name # "." /\ name # ".."
    OBVIOUS
  <2>. QED BY <2>1 DEF Down
<1>2. first = x /\ below # {}
  OBVIOUS
<1>. HIDE DEF below, first
<1>. QED BY <1>1, <1>2

(* One part of the path more.                                              *)
LEMMA PathStep ==
  ASSUME path \in Seq(STRING), rest \in Seq(STRING), rest # <<>>,
         NEW k \in 0 .. Len(path), NEW ch, PathTo(k, ch)
  PROVE  /\ k + 1 \in 1 .. Len(path) /\ k + 1 \in 0 .. Len(path) /\ Part = path[k + 1]
         /\ Tail(rest) \in Seq(STRING) /\ Len(Tail(rest)) = Len(path) - (k + 1)
         /\ \A j \in 1 .. Len(Tail(rest)) : Tail(rest)[j] = path[(k + 1) + j]
         /\ Stack(k + 1) = Down(Image, Devices, Stack(k), Part)
<1>1. Len(path) \in Nat /\ Len(rest) \in Nat \ {0} /\ Len(rest) = Len(path) - k
  BY EmptySeq DEF PathTo
<1>2. /\ Tail(rest) \in Seq(STRING) /\ Len(Tail(rest)) = Len(rest) - 1
      /\ \A j \in 1 .. Len(Tail(rest)) : Tail(rest)[j] = rest[j + 1]
  BY HeadTailProperties
<1>3. k + 1 \in 1 .. Len(path) /\ (k + 1) - 1 = k
  BY <1>1
<1>4. Part = path[k + 1]
  <2>1. 1 \in 1 .. Len(rest)
    BY <1>1
  <2>. QED BY <2>1 DEF Part, PathTo
<1>5. ASSUME NEW j \in 1 .. Len(Tail(rest)) PROVE Tail(rest)[j] = path[(k + 1) + j]
  <2>1. j + 1 \in 1 .. Len(rest) /\ k + (j + 1) = (k + 1) + j
    BY <1>1, <1>2
  <2>2. rest[j + 1] = path[k + (j + 1)]
    BY <2>1 DEF PathTo
  <2>. QED BY <1>2, <2>1, <2>2
<1>6. Stack(k + 1) = Down(Image, Devices, Stack(k), Part)
  <2>1. After(Image, Devices, path)[k + 1]
          = Down(Image, Devices, After(Image, Devices, path)[(k + 1) - 1], path[k + 1])
    BY <1>3, AfterIs
  <2>. QED BY <1>3, <1>4, <2>1 DEF Stack
<1>. QED BY <1>1, <1>2, <1>3, <1>4, <1>5, <1>6

(* No node of the path is shadowed when the path is not.                   *)
LEMMA PartHonest ==
  ASSUME path \in Seq(STRING), rest \in Seq(STRING), rest # <<>>, Honest,
         NEW k \in 0 .. Len(path), NEW ch, PathTo(k, ch)
  PROVE  ~ ShadowedName(Part)
<1>1. k + 1 \in DOMAIN path /\ Part = path[k + 1]
  BY PathStep
<1>. QED BY <1>1 DEF Honest, Shadowed

(* What a step leaves alone that leaves the tree alone.                    *)
LEMMA TreeStays ==
  ASSUME UNCHANGED <<phase, disks, tree, bootdisk, strays>>
  PROVE  /\ Image' = Image /\ Devices' = Devices /\ Trusted' = Trusted
         /\ Kinds' = Kinds /\ RightNodes' = RightNodes
<1>1. Image' = Image /\ Devices' = Devices /\ Trusted' = Trusted
  BY DEF Image, Devices, Trusted, OneSector, Children, DevNode, Cached
<1>2. Kinds' = Kinds
  BY <1>1 DEF Kinds, DeviceNode, RootNode, OnFs
<1>3. RightNodes' = RightNodes
  BY <1>1 DEF RightNodes, OnFs, BelowOf, Key, ShadowedName
<1>. QED BY <1>1, <1>2, <1>3

Still == UNCHANGED <<phase, disks, tree, bootdisk, strays, path>>

LEMMA StillIs ==
  ASSUME Still
  PROVE  /\ Image' = Image /\ Devices' = Devices /\ Trusted' = Trusted /\ Honest' = Honest
         /\ Kinds' = Kinds /\ RightNodes' = RightNodes
         /\ \A k : Stack(k)' = Stack(k)
<1>1. /\ Image' = Image /\ Devices' = Devices /\ Trusted' = Trusted
      /\ Kinds' = Kinds /\ RightNodes' = RightNodes
  BY TreeStays DEF Still
<1>2. Honest' = Honest
  BY <1>1 DEF Still, Honest, Shadowed, ShadowedName
<1>3. \A k : Stack(k)' = Stack(k)
  BY <1>1 DEF Still, Stack
<1>. QED BY <1>1, <1>2, <1>3

(* The rest of LookInv, when a lookup goes on and when it has ended.       *)
LEMMA GoesOn ==
  ASSUME LookInv, phase = "run", Still, UNCHANGED opens, rest' \in Seq(STRING), Looking',
         Honest => OnPath'
  PROVE  LookInv'
<1>1. Kinds' /\ RightNodes' /\ (Honest' <=> Honest)
  BY StillIs DEF LookInv
<1>2. opens' \in Nat /\ path' \in Seq(STRING) /\ phase' = "run"
  BY DEF LookInv, Still
<1>. QED BY <1>1, <1>2 DEF LookInv

LEMMA EndsAt ==
  ASSUME LookInv, phase = "run", NEW n, NEW failed, EndWith(n, failed), n = Wild => ~ failed,
         Honest /\ ~ failed =>
           /\ n = 0 => Meaning(path) = <<>>
           /\ n > 0 => Meaning(path) # <<>> /\ Key(n) = Head(Meaning(path))
           /\ n = Wild => Meaning(path) = <<>>
  PROVE  LookInv'
<1>1. Still /\ opens' = opens /\ result' = n /\ faulty' = (faulty \/ failed) /\ ~ Looking'
      /\ rest' = <<>>
  BY DEF EndWith, Still, Looking
<1>2. Kinds' /\ RightNodes' /\ (Honest' <=> Honest)
  BY <1>1, StillIs DEF LookInv
<1>3. Meaning(path)' = Meaning(path)
  BY <1>1, StillIs DEF Meaning, Still
<1>4. ASSUME Honest, ~ failed PROVE Agrees'
  <2>1. tree' = tree
    BY <1>1 DEF Still
  <2>. QED BY <1>1, <1>3, <1>4, <2>1 DEF Agrees, Key
<1>5. opens' \in Nat /\ path' \in Seq(STRING) /\ phase' = "run" /\ rest' \in Seq(STRING)
  BY <1>1 DEF LookInv, Still
<1>. QED BY <1>1, <1>2, <1>4, <1>5 DEF LookInv

(* A step to a node of the tree, to which the climb leads.                 *)
LEMMA StepsTo ==
  ASSUME LookInv, phase = "run", Looking, rest # <<>>, NEW n \in DOMAIN tree, n # 0, StepTo(n),
         ASSUME NEW k \in 0 .. Len(path), NEW ch \in Seq(DOMAIN tree), Honest, PathTo(k, ch)
         PROVE  \E up \in Seq(DOMAIN tree) : Climbs(tree, up, Stack(k + 1)) /\ up[1] = n
  PROVE  LookInv'
<1>1. Still /\ opens' = opens /\ at' = n /\ rest' = Tail(rest) /\ Looking'
  BY DEF StepTo, Still, Looking
<1>2. path \in Seq(STRING) /\ rest \in Seq(STRING)
  BY DEF LookInv
<1>3. rest' \in Seq(STRING)
  BY <1>1, <1>2, HeadTailProperties
<1>4. ASSUME Honest PROVE OnPath'
  <2>1. PICK k \in 0 .. Len(path) : \E ch \in Seq(DOMAIN tree) : PathTo(k, ch)
    BY <1>4 DEF LookInv, OnPath
  <2>2. PICK ch \in Seq(DOMAIN tree) : PathTo(k, ch)
    BY <2>1
  <2>3. PICK up \in Seq(DOMAIN tree) : Climbs(tree, up, Stack(k + 1)) /\ up[1] = n
    BY <1>4, <2>2
  <2>4. /\ k + 1 \in 0 .. Len(path) /\ Len(Tail(rest)) = Len(path) - (k + 1)
        /\ \A j \in 1 .. Len(Tail(rest)) : Tail(rest)[j] = path[(k + 1) + j]
    BY <1>2, <2>2, PathStep
  <2>5. Stack(k + 1)' = Stack(k + 1) /\ tree' = tree /\ path' = path
    BY <1>1, StillIs DEF Still
  <2>6. PathTo(k + 1, up)'
    BY <1>1, <2>3, <2>4, <2>5 DEF PathTo
  <2>. QED BY <2>3, <2>4, <2>5, <2>6 DEF OnPath
<1>. QED BY <1>1, <1>3, <1>4, GoesOn

(* Where the lookup stands, and what the next part adds.                   *)
LEMMA StandsAt ==
  ASSUME TreeInv, LookInv, phase = "run", NEW k \in 0 .. Len(path), NEW ch \in Seq(DOMAIN tree), PathTo(k, ch)
  PROVE  /\ Stack(k) # <<>> /\ Head(Stack(k)) = Key(at)
         /\ rest # <<>> /\ Part \notin {".", ".."} =>
              /\ BelowOf(at, Part) = {} => Stack(k + 1) = <<>>
              /\ \A x : BelowOf(at, Part) = {x} => Stack(k + 1) = <<x>> \o Stack(k)
<1>1. Climbs(tree, ch, Stack(k)) /\ ch[1] = at
  BY DEF PathTo
<1>2. Stack(k) # <<>> /\ Head(Stack(k)) = Key(at)
  BY <1>1, ClimbHead DEF Key
<1>3. ASSUME rest # <<>>, Part \notin {".", ".."}
      PROVE  /\ BelowOf(at, Part) = {} => Stack(k + 1) = <<>>
             /\ \A x : BelowOf(at, Part) = {x} => Stack(k + 1) = <<x>> \o Stack(k)
  <2>1. Stack(k + 1) = Down(Image, Devices, Stack(k), Part)
    BY <1>3, PathStep DEF LookInv
  <2>. DEFINE s == Stack(k)
  <2>2. s # <<>> /\ Head(s) = Key(at)
    BY <1>2
  <2>3. BelowOf(at, Part) = Below(Image, Devices, Key(at), Part)
    BY DEF BelowOf
  <2>. HIDE DEF s
  <2>4. /\ Below(Image, Devices, Head(s), Part) = {} => Down(Image, Devices, s, Part) = <<>>
        /\ \A x : Below(Image, Devices, Head(s), Part) = {x}
                    => Down(Image, Devices, s, Part) = <<x>> \o s
    <3>1. Below(Image, Devices, Head(s), Part) = {} => Down(Image, Devices, s, Part) = <<>>
      BY <1>3, <2>2, DownNowhere
    <3>2. ASSUME NEW x, Below(Image, Devices, Head(s), Part) = {x}
          PROVE  Down(Image, Devices, s, Part) = <<x>> \o s
      <4>1. \A y : y \in Below(Image, Devices, Head(s), Part) <=> y = x
        BY <3>2
      <4>2. s # <<>> /\ Part \notin {".", ".."}
        BY <1>3, <2>2
      <4>. DEFINE more == <<x>> \o s
      <4>3. more = <<x>> \o s
        OBVIOUS
      <4>. HIDE DEF more
      <4>4. Down(Image, Devices, s, Part) = more
        BY <4>1, <4>2, <4>3, DownTo
      <4>. QED BY <4>3, <4>4
    <3>. QED BY <3>1, <3>2
  <2>5. Stack(k + 1) = Down(Image, Devices, s, Part)
    BY <2>1 DEF s
  <2>6. /\ BelowOf(at, Part) = {} => Stack(k + 1) = <<>>
        /\ \A x : BelowOf(at, Part) = {x} => Stack(k + 1) = <<x>> \o s
    BY <2>2, <2>3, <2>4, <2>5, Zenon
  <2>. QED BY <2>6 DEF s
<1>. QED BY <1>2, <1>3

(* A path that a part of it leads nowhere has no meaning.                  *)
LEMMA LeadsNowhere ==
  ASSUME LookInv, rest # <<>>, NEW k \in 0 .. Len(path), NEW ch, PathTo(k, ch), Stack(k + 1) = <<>>
  PROVE  Meaning(path) = <<>>
<1>1. path \in Seq(STRING) /\ k + 1 \in 0 .. Len(path)
  BY PathStep DEF LookInv
<1>. QED BY <1>1, NowhereStays DEF Stack, Meaning

LEMMA DotsLook ==
  ASSUME TreeInv, LookInv, Dots
  PROVE  LookInv'
<1>1. phase = "run" /\ at \in DOMAIN tree /\ Looking /\ rest # <<>> /\ at # 0
  BY DEF TreeInv, Dots, Looking
<1>2. /\ Len(tree) \in Nat /\ DOMAIN tree = 1 .. Len(tree) /\ tree[1] = FsRoot
  BY <1>1, RunFacts
<1>3. path \in Seq(STRING) /\ rest \in Seq(STRING)
  BY DEF LookInv
<1>4. ASSUME NEW k \in 0 .. Len(path), NEW ch \in Seq(DOMAIN tree), PathTo(k, ch)
      PROVE  /\ Climbs(tree, ch, Stack(k)) /\ ch[1] = at /\ Stack(k) # <<>>
             /\ Stack(k + 1) = Down(Image, Devices, Stack(k), Part)
  BY <1>1, <1>3, <1>4, PathStep, StandsAt DEF PathTo
<1>5. CASE Part = "." /\ StepTo(at)
  <2>1. ASSUME NEW k \in 0 .. Len(path), NEW ch \in Seq(DOMAIN tree), Honest, PathTo(k, ch)
        PROVE  \E up \in Seq(DOMAIN tree) : Climbs(tree, up, Stack(k + 1)) /\ up[1] = at
    <3>1. Stack(k + 1) = Stack(k)
      BY <1>4, <1>5, <2>1, DownIs
    <3>. QED BY <1>4, <2>1, <3>1
  <2>. QED BY <1>1, <1>5, <2>1, StepsTo
<1>6. CASE Part = ".." /\ at # Root /\ StepTo(tree[at].parent)
  <2>1. tree[at].parent \in 0 .. at - 1 /\ tree[at].parent # 0
    BY <1>1, <1>6 DEF TreeInv, Parents, OneNodePerName
  <2>2. tree[at].parent \in DOMAIN tree
    BY <1>1, <1>2, <2>1
  <2>3. ASSUME NEW k \in 0 .. Len(path), NEW ch \in Seq(DOMAIN tree), Honest, PathTo(k, ch)
        PROVE  \E up \in Seq(DOMAIN tree) : Climbs(tree, up, Stack(k + 1)) /\ up[1] = tree[at].parent
    <3>1. Stack(k + 1) = Tail(Stack(k))
      BY <1>4, <1>6, <2>3, DownIs
    <3>2. /\ Climbs(tree, Tail(ch), Tail(Stack(k))) /\ Tail(ch)[1] = tree[at].parent
          /\ Tail(ch) \in Seq(DOMAIN tree)
      <4>1. Climbs(tree, ch, Stack(k)) /\ ch[1] = at /\ ch[1] # Root
        BY <1>4, <1>6, <2>3
      <4>. QED BY <4>1, ClimbUp
    <3>. QED BY <3>1, <3>2
  <2>. QED BY <1>1, <1>6, <2>1, <2>2, <2>3, StepsTo
<1>7. CASE Part = ".." /\ at = Root /\ EndWith(Wild, FALSE)
  <2>1. ASSUME Honest PROVE Meaning(path) = <<>>
    <3>1. PICK k \in 0 .. Len(path) : \E ch \in Seq(DOMAIN tree) : PathTo(k, ch)
      BY <1>1, <2>1 DEF LookInv, OnPath
    <3>2. PICK ch \in Seq(DOMAIN tree) : PathTo(k, ch)
      BY <3>1
    <3>3. tree[Root].parent = 0 /\ 0 \notin DOMAIN tree
      BY <1>2 DEF Root, FsRoot, Node
    <3>4. Tail(Stack(k)) = <<>>
      BY <1>4, <1>7, <3>2, <3>3, ClimbTop
    <3>5. Stack(k + 1) = <<>>
      <4>1. Stack(k) # <<>> /\ Stack(k + 1) = Down(Image, Devices, Stack(k), Part)
        BY <1>4, <3>2
      <4>2. Down(Image, Devices, Stack(k), Part) = Tail(Stack(k))
        BY <1>7, <4>1, DownIs
      <4>. QED BY <3>4, <4>1, <4>2
    <3>. QED BY <1>1, <3>2, <3>5, LeadsNowhere
  <2>2. ~ (Wild = 0) /\ ~ (Wild > 0)
    BY DEF Wild
  <2>. QED BY <1>1, <1>7, <2>1, <2>2, EndsAt
<1>. QED BY <1>5, <1>6, <1>7 DEF Dots

LEMMA FastLook ==
  ASSUME TreeInv, LookInv, Fast
  PROVE  LookInv'
<1>1. /\ phase = "run" /\ at \in DOMAIN tree /\ Looking /\ rest # <<>> /\ Part \notin {".", ".."}
      /\ Cached(at, Part) # 0 /\ StepTo(Cached(at, Part))
  BY DEF TreeInv, Fast
<1>. DEFINE i == Cached(at, Part)
<1>2. i \in DOMAIN tree /\ tree[i].parent = at /\ tree[i].name = Part /\ i # 0 /\ StepTo(i)
  BY <1>1, CachedIs DEF TreeInv
<1>. HIDE DEF i
<1>3. ASSUME NEW k \in 0 .. Len(path), NEW ch \in Seq(DOMAIN tree), Honest, PathTo(k, ch)
      PROVE  \E up \in Seq(DOMAIN tree) : Climbs(tree, up, Stack(k + 1)) /\ up[1] = i
  <2>1. ~ ShadowedName(tree[i].name) /\ tree[i].parent \in DOMAIN tree
    BY <1>1, <1>2, <1>3, PartHonest DEF LookInv
  <2>2. BelowOf(at, Part) = {Key(i)}
    <3>1. Kinds /\ RightNodes /\ Trusted
      BY <1>1, <1>3 DEF LookInv, Honest
    <3>2. BelowOf(tree[i].parent, tree[i].name) = {Key(i)}
      BY <1>1, <1>2, <2>1, <3>1, ChildIs
    <3>. QED BY <1>2, <3>2
  <2>3. Stack(k + 1) = <<Key(i)>> \o Stack(k)
    BY <1>1, <1>3, <2>2, StandsAt
  <2>4. /\ Climbs(tree, <<i>> \o ch, <<Key(i)>> \o Stack(k)) /\ (<<i>> \o ch)[1] = i
        /\ <<i>> \o ch \in Seq(DOMAIN tree)
    <3>1. Climbs(tree, ch, Stack(k)) /\ ch[1] = at
      BY <1>3 DEF PathTo
    <3>. QED BY <1>2, <3>1, ClimbDown DEF Key
  <2>. QED BY <2>3, <2>4
<1>. QED BY <1>1, <1>2, <1>3, StepsTo

LEMMA EndLook ==
  ASSUME TreeInv, LookInv, LookupEnds
  PROVE  LookInv'
<1>1. /\ phase = "run" /\ at \in DOMAIN tree /\ Looking /\ rest = <<>> /\ EndWith(at, FALSE)
      /\ DOMAIN tree = 1 .. Len(tree) /\ Len(tree) \in Nat
  BY DEF TreeInv, LookupEnds, IsSeq
<1>2. at > 0 /\ at # 0 /\ at # Wild
  BY <1>1 DEF Wild
<1>3. ASSUME Honest PROVE Meaning(path) # <<>> /\ Key(at) = Head(Meaning(path))
  <2>1. PICK k \in 0 .. Len(path) : \E ch \in Seq(DOMAIN tree) : PathTo(k, ch)
    BY <1>1, <1>3 DEF LookInv, OnPath
  <2>2. PICK ch \in Seq(DOMAIN tree) : PathTo(k, ch)
    BY <2>1
  <2>3. k = Len(path)
    <3>1. Len(rest) = 0 /\ Len(path) \in Nat
      BY <1>1, EmptySeq DEF LookInv
    <3>. QED BY <2>2, <3>1 DEF PathTo
  <2>4. Stack(k) # <<>> /\ Head(Stack(k)) = Key(at)
    BY <1>1, <2>2, StandsAt
  <2>. QED BY <2>3, <2>4 DEF Stack, Meaning
<1>. QED BY <1>1, <1>2, <1>3, EndsAt

(* A node found on the disk is put behind the others.                      *)
LEMMA Grows ==
  ASSUME TreeInv, LookInv, phase = "run", NEW n \in DOMAIN tree, n \notin {1, 2}, tree[n].kind = Image.fs,
         NEW new, tree' = Append(tree, new), new.parent = n, new.kind = Image.fs,
         UNCHANGED <<phase, disks, bootdisk>>
  PROVE  /\ Image' = Image /\ Devices' = Devices /\ Kinds'
         /\ DOMAIN tree = 1 .. Len(tree) /\ DOMAIN tree' = 1 .. Len(tree) + 1 /\ Len(tree)' = Len(tree) + 1
         /\ Len(tree) \in Nat /\ tree'[Len(tree) + 1] = new
         /\ \A i \in DOMAIN tree : tree'[i] = tree[i]
<1>1. /\ DOMAIN tree = 1 .. Len(tree) /\ DOMAIN tree' = 1 .. Len(tree) + 1 /\ Len(tree)' = Len(tree) + 1
      /\ Len(tree) \in Nat /\ tree'[Len(tree) + 1] = new
      /\ \A i \in DOMAIN tree : tree'[i] = tree[i]
  BY AppendIs DEF TreeInv, IsSeq
<1>2. Image' = Image
  BY DEF Image
<1>3. ASSUME NEW m \in {1, 2} PROVE Children(m)' = Children(m)
  <2>1. \A i : i \in Children(m)' <=> i \in DOMAIN tree' /\ tree'[i].parent = m
    BY DEF Children
  <2>2. \A i : i \in Children(m) <=> i \in DOMAIN tree /\ tree[i].parent = m
    BY DEF Children
  <2>3. \A i : i \in Children(m)' <=> i \in Children(m)
    BY <1>1, <2>1, <2>2
  <2>. QED BY <2>3
<1>4. DevNode' = DevNode /\ DevNode = 2
  <2>1. Children(1)' = Children(1) /\ Children(1) \subseteq DOMAIN tree
    BY <1>3 DEF Children
  <2>2. {i \in Children(1) : tree'[i].name = "dev"} = {i \in Children(1) : tree[i].name = "dev"}
    BY <1>1, <2>1
  <2>3. Cached(1, "dev")' = Cached(1, "dev")
    BY <2>1, <2>2 DEF Cached
  <2>. QED BY <2>3, DevNodeIs DEF DevNode, Root, TreeBuilt
<1>5. Devices' = Devices
  <2>1. Children(2)' = Children(2) /\ Children(2) \subseteq DOMAIN tree
    BY <1>3 DEF Children
  <2>2. {<<tree'[i].kind, tree'[i].name>> : i \in Children(2)} = {<<tree[i].kind, tree[i].name>> : i \in Children(2)}
    BY <1>1, <2>1
  <2>. QED BY <1>4, <2>1, <2>2 DEF Devices
<1>6. Kinds'
  <2>1. ASSUME NEW i \in 3 .. Len(tree)'
        PROVE  (DeviceNode(i) \/ tree[i] = RootNode \/ OnFs(i))'
    <3>1. CASE i \in 3 .. Len(tree)
      <4>1. i \in DOMAIN tree /\ tree'[i] = tree[i]
        BY <1>1, <3>1
      <4>2. DeviceNode(i) \/ tree[i] = RootNode \/ OnFs(i)
        BY <3>1 DEF LookInv, Kinds
      <4>3. ASSUME OnFs(i) PROVE OnFs(i)'
        <5>1. tree[i].parent \in DOMAIN tree
          <6>1. tree[i].parent \in 0 .. i - 1 /\ tree[i].parent # 0
            BY <1>1, <3>1, <4>1 DEF TreeInv, Parents, OneNodePerName, Root
          <6>. QED BY <1>1, <3>1, <6>1
        <5>. QED BY <1>1, <1>2, <4>1, <4>3, <5>1 DEF OnFs
      <4>. QED BY <1>2, <4>1, <4>2, <4>3 DEF DeviceNode, RootNode
    <3>2. CASE i = Len(tree) + 1
      <4>1. tree'[i] = new /\ tree'[n] = tree[n]
        BY <1>1, <3>2
      <4>. QED BY <1>2, <4>1 DEF OnFs, Root
    <3>. QED BY <1>1, <3>1, <3>2
  <2>. QED BY <2>1 DEF Kinds
<1>. QED BY <1>1, <1>2, <1>5, <1>6

(* The node found is what the disk has, and so are the others still.       *)
LEMMA GrowsRight ==
  ASSUME TreeInv, LookInv, phase = "run", NEW n \in DOMAIN tree, n \notin {1, 2}, tree[n].kind = Image.fs,
         NEW new, tree' = Append(tree, new), new.parent = n, new.kind = Image.fs,
         UNCHANGED <<phase, disks, bootdisk>>, Trusted' => Trusted,
         Trusted' /\ ~ ShadowedName(new.name) => BelowOf(n, new.name) = {<<new.kind, new.obj>>}
  PROVE  RightNodes'
<1>1. /\ Image' = Image /\ Devices' = Devices
      /\ DOMAIN tree = 1 .. Len(tree) /\ DOMAIN tree' = 1 .. Len(tree) + 1 /\ Len(tree)' = Len(tree) + 1
      /\ Len(tree) \in Nat /\ tree'[Len(tree) + 1] = new
      /\ \A i \in DOMAIN tree : tree'[i] = tree[i]
  BY Grows
<1>2. ASSUME NEW i \in DOMAIN tree, NEW name PROVE BelowOf(i, name)' = BelowOf(i, name) /\ Key(i)' = Key(i)
  BY <1>1 DEF BelowOf, Key
<1>3. \A name : ShadowedName(name)' = ShadowedName(name)
  BY <1>1 DEF ShadowedName
<1>4. ASSUME Trusted', NEW i \in 3 .. Len(tree)', OnFs(i)', ~ ShadowedName(tree'[i].name)
      PROVE  BelowOf(tree[i].parent, tree[i].name)' = {Key(i)'}
  <2>1. CASE i \in 3 .. Len(tree)
    <3>1. i \in DOMAIN tree /\ tree'[i] = tree[i]
      BY <1>1, <2>1
    <3>2. tree[i].parent \in DOMAIN tree
      <4>1. tree[i].parent \in 0 .. i - 1 /\ tree[i].parent # 0
        BY <1>1, <2>1, <3>1 DEF TreeInv, Parents, OneNodePerName, Root
      <4>. QED BY <1>1, <2>1, <4>1
    <3>3. OnFs(i)
      BY <1>1, <1>4, <3>1, <3>2 DEF OnFs
    <3>4. BelowOf(tree[i].parent, tree[i].name) = {Key(i)}
      BY <1>4, <2>1, <3>1, <3>3 DEF LookInv, RightNodes
    <3>5. BelowOf(tree[i].parent, tree[i].name)' = BelowOf(tree[i].parent, tree[i].name)
      BY <1>1, <3>1, <3>2 DEF BelowOf, Key
    <3>. QED BY <1>2, <3>1, <3>4, <3>5
  <2>2. CASE i = Len(tree) + 1
    <3>1. tree'[i] = new /\ tree'[n] = tree[n]
      BY <1>1, <2>2
    <3>2. BelowOf(n, new.name) = {<<new.kind, new.obj>>}
      BY <1>4, <3>1
    <3>3. Key(i)' = <<new.kind, new.obj>>
      BY <3>1 DEF Key
    <3>4. BelowOf(tree[i].parent, tree[i].name)' = BelowOf(n, new.name)
      BY <1>1, <3>1 DEF BelowOf, Key
    <3>. QED BY <3>2, <3>3, <3>4
  <2>3. i \in 3 .. Len(tree) \/ i = Len(tree) + 1
    BY <1>1
  <2>. QED BY <2>1, <2>2, <2>3
<1>. QED BY <1>3, <1>4 DEF RightNodes

LEMMA SlowEnds ==
  ASSUME TreeInv, LookInv, Slow, \E failed : EndWith(0, failed)
  PROVE  LookInv'
<1>1. /\ phase = "run" /\ at \in DOMAIN tree /\ Looking /\ rest # <<>> /\ Part \notin {".", ".."}
      /\ \A i \in DOMAIN tree : ~ (tree[i].parent = at /\ tree[i].name = Part)
  BY CachedIs DEF TreeInv, Slow
<1>2. 0 # Wild /\ ~ (0 > 0)
  BY DEF Wild
<1>3. at' = 0
  BY DEF EndWith
<1>4. at' # Len(tree) + 1
  BY <1>3 DEF TreeInv, IsSeq
<1>5. CASE EndWith(0, TRUE)
  BY <1>1, <1>2, <1>5, EndsAt
<1>6. CASE Nothing \in FindDir(at, Part) /\ EndWith(0, FALSE)
  <2>1. ASSUME Honest PROVE Meaning(path) = <<>>
    <3>1. PICK k \in 0 .. Len(path) : \E ch \in Seq(DOMAIN tree) : PathTo(k, ch)
      BY <1>1, <2>1 DEF LookInv, OnPath
    <3>2. PICK ch \in Seq(DOMAIN tree) : PathTo(k, ch)
      BY <3>1
    <3>3. ~ ShadowedName(Part)
      BY <1>1, <2>1, <3>2, PartHonest DEF LookInv
    <3>4. Kinds /\ Trusted
      BY <2>1 DEF LookInv, Honest
    <3>5. BelowOf(at, Part) = {}
      BY <1>1, <1>6, <3>3, <3>4, NoChild
    <3>6. Stack(k + 1) = <<>>
      BY <1>1, <3>2, <3>5, StandsAt
    <3>. QED BY <1>1, <3>2, <3>6, LeadsNowhere
  <2>. QED BY <1>1, <1>2, <1>6, <2>1, EndsAt
<1>7. ~ UNCHANGED at
  BY <1>1, <1>3 DEF Looking
<1>. QED BY <1>4, <1>5, <1>6, <1>7 DEF Slow

LEMMA SlowFinds ==
  ASSUME TreeInv, LookInv, Slow, ~ \E failed : EndWith(0, failed), at' # at
  PROVE  LookInv'
<1>1. /\ phase = "run" /\ at \in DOMAIN tree /\ Looking /\ rest # <<>> /\ Part \notin {".", ".."}
      /\ path \in Seq(STRING) /\ rest \in Seq(STRING) /\ Kinds
  BY DEF TreeInv, LookInv, Slow
<1>2. PICK r \in FindDir(at, Part) \ {Nothing, Endless} :
        /\ tree' = Append(tree, Inserted(Dent(tree[at].kind, Part, r.obj)))
        /\ strays' = IF r = Behind THEN strays \cup {Len(tree) + 1} ELSE strays
        /\ at' = Len(tree) + 1 /\ rest' = Tail(rest)
        /\ UNCHANGED <<phase, disks, bdevs, supers, bootdisk, result, path, faulty, opens>>
  BY DEF Slow
<1>3. tree[at].kind = Image.fs /\ at \notin {1, 2} /\ tree[at].kind \in {"isofs", "ext2fs"}
  <2>1. tree[at].kind \in {"isofs", "ext2fs"}
    BY OnDisk
  <2>. QED BY <1>1, <2>1, NodeKinds
<1>. DEFINE new == Inserted(Dent(tree[at].kind, Part, r.obj))
<1>4. /\ new.parent = at /\ new.name = Part /\ new.kind = Image.fs /\ new.obj = r.obj
      /\ tree' = Append(tree, new) /\ UNCHANGED <<phase, disks, bootdisk, path>>
  BY <1>2, <1>3 DEF Inserted, Dent, IsoDent, ExtDent, Node
<1>. HIDE DEF new
<1>5. /\ Image' = Image /\ Devices' = Devices /\ Kinds'
      /\ DOMAIN tree = 1 .. Len(tree) /\ DOMAIN tree' = 1 .. Len(tree) + 1
      /\ Len(tree) \in Nat /\ tree'[Len(tree) + 1] = new
      /\ \A i \in DOMAIN tree : tree'[i] = tree[i]
  BY <1>1, <1>3, <1>4, Grows
<1>6. ASSUME Trusted' PROVE Trusted /\ r # Behind
  <2>1. strays' = {}
    BY <1>6 DEF Trusted
  <2>2. r # Behind /\ strays = {}
    BY <1>2, <2>1
  <2>3. Image.fs = "isofs" => OneSector
    BY <1>5, <1>6 DEF Trusted, OneSector
  <2>. QED BY <2>2, <2>3 DEF Trusted
<1>7. ASSUME Trusted', ~ ShadowedName(Part) PROVE BelowOf(at, Part) = {<<Image.fs, r.obj>>}
  BY <1>1, <1>6, <1>7, NewChild
<1>8. RightNodes'
  <2>1. Trusted' => Trusted
    BY <1>6
  <2>2. Trusted' /\ ~ ShadowedName(new.name) => BelowOf(at, new.name) = {<<new.kind, new.obj>>}
    BY <1>4, <1>7
  <2>. QED BY <1>1, <1>3, <1>4, <2>1, <2>2, GrowsRight
<1>9. ASSUME Honest' PROVE OnPath'
  <2>1. Honest
    BY <1>4, <1>5, <1>6, <1>9 DEF Honest, Shadowed, ShadowedName
  <2>2. PICK k \in 0 .. Len(path) : \E ch \in Seq(DOMAIN tree) : PathTo(k, ch)
    BY <1>1, <2>1 DEF LookInv, OnPath
  <2>3. PICK ch \in Seq(DOMAIN tree) : PathTo(k, ch)
    BY <2>2
  <2>4. ~ ShadowedName(Part)
    BY <1>1, <2>1, <2>3, PartHonest
  <2>5. BelowOf(at, Part) = {<<Image.fs, r.obj>>}
    BY <1>7, <1>9, <2>4 DEF Honest
  <2>6. Stack(k + 1) = << <<Image.fs, r.obj>> >> \o Stack(k)
    BY <1>1, <2>3, <2>5, StandsAt
  <2>. DEFINE i == Len(tree) + 1
  <2>7. Climbs(tree', ch, Stack(k)) /\ ch[1] = at
    <3>1. Climbs(tree, ch, Stack(k)) /\ ch[1] = at /\ DOMAIN tree \subseteq DOMAIN tree'
      BY <1>5, <2>3 DEF PathTo
    <3>. QED BY <1>5, <3>1, ClimbKept
  <2>8. i \in DOMAIN tree' /\ tree'[i].parent = ch[1] /\ tree'[i].kind = Image.fs /\ tree'[i].obj = r.obj
    BY <1>4, <1>5, <2>7
  <2>. HIDE DEF i
  <2>9. /\ Climbs(tree', <<i>> \o ch, << <<tree'[i].kind, tree'[i].obj>> >> \o Stack(k))
        /\ (<<i>> \o ch)[1] = i /\ <<i>> \o ch \in Seq(DOMAIN tree')
    BY <2>7, <2>8, ClimbDown
  <2>10. PICK up \in Seq(DOMAIN tree') : Climbs(tree', up, Stack(k + 1)) /\ up[1] = i
    BY <2>6, <2>8, <2>9
  <2>11. /\ k + 1 \in 0 .. Len(path) /\ Len(Tail(rest)) = Len(path) - (k + 1)
         /\ \A j \in 1 .. Len(Tail(rest)) : Tail(rest)[j] = path[(k + 1) + j]
    BY <1>1, <2>3, PathStep
  <2>12. Stack(k + 1)' = Stack(k + 1)
    BY <1>4, <1>5 DEF Stack
  <2>13. at' = i /\ rest' = Tail(rest) /\ path' = path
    BY <1>2, <1>4 DEF i
  <2>14. PathTo(k + 1, up)'
    BY <2>10, <2>11, <2>12, <2>13 DEF PathTo
  <2>. QED BY <2>10, <2>11, <2>13, <2>14 DEF OnPath
<1>10. rest' \in Seq(STRING)
  BY <1>1, <1>2, HeadTailProperties
<1>11. Looking' /\ phase' = "run" /\ path' \in Seq(STRING) /\ opens' \in Nat
  BY <1>1, <1>2, <1>5 DEF Looking, LookInv
<1>. QED BY <1>5, <1>8, <1>9, <1>10, <1>11 DEF LookInv

(* A step the lookup does not take part in, or one where its walk goes on  *)
(* for ever.                                                               *)
LEMMA LooksAlone ==
  ASSUME LookInv, Still, UNCHANGED <<at, rest, result, faulty, opens>>
  PROVE  LookInv'
<1>1. Still /\ UNCHANGED <<at, rest, result, faulty, opens>>
  OBVIOUS
<1>2. /\ Kinds' = Kinds /\ RightNodes' = RightNodes /\ Honest' = Honest /\ \A k : Stack(k)' = Stack(k)
  BY <1>1, StillIs
<1>3. Looking' = Looking
  BY <1>1 DEF Looking
<1>4. Agrees' = Agrees
  <2>1. Meaning(path)' = Meaning(path)
    BY <1>1, StillIs DEF Meaning, Still
  <2>. QED BY <1>1, <2>1 DEF Agrees, Still
<1>5. OnPath' = OnPath
  <2>1. ASSUME NEW k, NEW ch PROVE PathTo(k, ch)' = PathTo(k, ch)
    BY <1>1, <1>2 DEF PathTo, Still
  <2>. QED BY <1>1, <2>1 DEF OnPath, Still
<1>. QED BY <1>1, <1>2, <1>3, <1>4, <1>5 DEF LookInv, Still

LEMMA LookupLook ==
  ASSUME TreeInv, LookInv, Lookup
  PROVE  LookInv'
<1>1. CASE Slow
  <2>1. CASE \E failed : EndWith(0, failed)
    BY <1>1, <2>1, SlowEnds
  <2>2. CASE ~ (\E failed : EndWith(0, failed)) /\ at' # at
    BY <1>1, <2>2, SlowFinds
  <2>3. CASE ~ (\E failed : EndWith(0, failed)) /\ at' = at
    <3>1. at' # Len(tree) + 1
      BY <1>1, <2>3 DEF Slow, TreeInv, IsSeq
    <3>2. Still /\ UNCHANGED <<at, rest, result, faulty, opens>>
      BY <1>1, <2>3, <3>1 DEF Slow, Still
    <3>. QED BY <3>2, LooksAlone
  <2>. QED BY <2>1, <2>2, <2>3
<1>. QED BY <1>1, DotsLook, FastLook, EndLook DEF Lookup

(* The start of a lookup, at the root.                                     *)
LEMMA OpenLook ==
  ASSUME TreeInv, LookInv, NEW p \in Paths, Open(p)
  PROVE  LookInv'
<1>1. /\ phase = "run" /\ at' = Root /\ rest' = p /\ path' = p /\ opens' = opens + 1
      /\ UNCHANGED <<phase, disks, tree, bootdisk, strays>>
  BY DEF Open
<1>2. p \in Seq(STRING) /\ Len(p) \in Nat
  BY DisksAssumption
<1>3. Image' = Image /\ Devices' = Devices /\ Kinds' = Kinds /\ RightNodes' = RightNodes
  BY <1>1, TreeStays
<1>4. /\ Len(tree) \in Nat /\ Len(tree) >= 2 /\ DOMAIN tree = 1 .. Len(tree) /\ tree[1] = FsRoot
  BY <1>1, RunFacts
<1>5. Looking' /\ opens' \in Nat /\ phase' = "run"
  BY <1>1 DEF Looking, Root, LookInv
<1>6. OnPath'
  <2>. DEFINE ch == <<1>>
              top == <<"ramfs", "[root]">>
              Keys == {<<tree[i].kind, tree[i].obj>> : i \in DOMAIN tree}
  <2>1. Stack(0)' = <<top>>
    <3>1. After(Image, Devices, p)[0] = <<top>>
      BY <1>2, AfterIs
    <3>. QED BY <1>1, <1>3, <3>1 DEF Stack
  <2>2. 1 \in DOMAIN tree /\ <<tree[1].kind, tree[1].obj>> = top
    BY <1>4 DEF FsRoot, Node
  <2>3. ch \in Seq(DOMAIN tree) /\ Len(ch) = 1 /\ ch[1] = 1 /\ ch # <<>>
    BY <2>2
  <2>4. top \in Keys
    BY <2>2
  <2>5. <<top>> \in Seq(Keys) /\ Len(<<top>>) = 1 /\ <<top>>[1] = top
    <3>. HIDE DEF top, Keys
    <3>. QED BY <2>4
  <2>6. Climbs(tree, ch, <<top>>)
    <3>. HIDE DEF top, ch
    <3>1. \A j \in 1 .. 1 : j = 1
      OBVIOUS
    <3>2. ~ \E j \in 1 .. 1 - 1 : TRUE
      OBVIOUS
    <3>. QED BY <2>2, <2>3, <2>5, <3>1, <3>2 DEF Climbs, Root
  <2>7. PathTo(0, ch)'
    <3>1. \A j \in 1 .. Len(p) : p[j] = p[0 + j]
      OBVIOUS
    <3>2. Climbs(tree, ch, Stack(0))'
      BY <1>1, <2>1, <2>6
    <3>3. Len(p) = Len(p) - 0
      BY <1>2
    <3>. HIDE DEF ch
    <3>. QED BY <1>1, <2>3, <3>1, <3>2, <3>3 DEF PathTo, Root
  <2>8. 0 \in 0 .. Len(p)
    BY <1>2
  <2>. HIDE DEF ch
  <2>. QED BY <1>1, <2>3, <2>7, <2>8 DEF OnPath
<1>. QED BY <1>1, <1>2, <1>3, <1>5, <1>6 DEF LookInv

(* Before the disk is mounted nothing is looked up.                        *)
LEMMA NotYet ==
  ASSUME TreeInv, LookInv, phase # "run", UNCHANGED <<opens, at, path, rest>>, Kinds',
         phase' = "run" => RightNodes'
  PROVE  LookInv'
<1>1. ~ Looking' /\ opens' = 0
  BY DEF TreeInv, LookInv, Looking
<1>. QED BY <1>1 DEF LookInv

LEMMA BootLook ==
  ASSUME TreeInv, LookInv, Boot
  PROVE  LookInv'
<1>1. IsSeq(tree) /\ Len(tree) \in Nat
  BY DEF TreeInv, IsSeq
<1>2. ASSUME phase # "run", phase' = "halt", UNCHANGED <<opens, at, path, rest>> PROVE LookInv'
  <2>1. Kinds'
    BY <1>2 DEF Kinds
  <2>. QED BY <1>2, <2>1, NotYet
<1>3. ASSUME NEW fs, NEW name, AllocSuper(fs, name), phase # "run" PROVE LookInv'
  <2>1. CASE Halt
    BY <1>2, <1>3, <2>1 DEF Halt, asking
  <2>2. CASE ~ Halt
    <3>1. UNCHANGED <<phase, tree, opens, at, path, rest>>
      BY <1>3, <2>2 DEF AllocSuper, asking
    <3>2. Kinds'
      BY <1>3, <3>1 DEF LookInv, Kinds, DeviceNode
    <3>. QED BY <1>3, <3>1, <3>2, NotYet
  <2>. QED BY <2>1, <2>2
<1>4. ASSUME NEW to, FillFails(to), phase # "run", to = "halt" \/ to = phase PROVE LookInv'
  <2>1. phase' = to /\ UNCHANGED <<tree, opens, at, path, rest>>
    BY <1>4 DEF FillFails, asking
  <2>2. CASE to = phase
    <3>1. Kinds'
      BY <1>4, <2>1, <2>2 DEF LookInv, Kinds, DeviceNode
    <3>. QED BY <1>4, <2>1, <2>2, <3>1, NotYet
  <2>. QED BY <1>2, <1>4, <2>1, <2>2
<1>5. ASSUME NEW from, NEW to, NEW name, NEW parent, MountRamfs(from, to, name, parent),
             from # "run", to = "devfs" \/ (to = "drivers" /\ from = "devfs")
      PROVE  LookInv'
  <2>1. CASE AllocSuper("ramfs", name) \/ FillFails("halt")
    BY <1>3, <1>4, <1>5, <2>1 DEF MountRamfs
  <2>2. CASE FillMakes(to, parent, Node(name, 0, "ramfs", name))
    <3>. DEFINE new == [Node(name, 0, "ramfs", name) EXCEPT !.parent = parent]
    <3>1. /\ phase = from /\ phase' = to /\ tree' = Append(tree, new)
          /\ UNCHANGED <<opens, at, path, rest>>
      BY <1>5, <2>2 DEF MountRamfs, FillMakes, asking
    <3>. HIDE DEF new
    <3>2. Len(tree)' = Len(tree) + 1
      BY <1>1, <3>1, AppendIs
    <3>3. CASE to = "devfs"
      <4>1. Kinds'
        BY <3>1, <3>3 DEF Kinds
      <4>. QED BY <1>5, <3>1, <3>3, <4>1, NotYet
    <3>4. CASE to = "drivers" /\ from = "devfs"
      <4>1. Len(tree)' = 2
        <5>1. phase = "devfs"
          BY <3>1, <3>4
        <5>2. Len(tree) = 1
          BY <5>1 DEF TreeInv, TreeStages
        <5>. QED BY <3>2, <5>2
      <4>2. Kinds'
        BY <3>1, <3>4, <4>1 DEF Kinds
      <4>. QED BY <1>5, <3>1, <3>4, <4>2, NotYet
    <3>. QED BY <1>5, <3>3, <3>4
  <2>. QED BY <1>5, <2>1, <2>2 DEF MountRamfs
<1>6. ASSUME phase = "drivers", NEW d, NEW kind \in {"cdev", "bdev"},
             tree' = Append(tree, Node(d, DevNode, kind, d)), UNCHANGED <<phase, opens, at, path, rest>>
      PROVE  LookInv'
  <2>1. DevNode = 2
    BY <1>6, DevNodeIs DEF TreeBuilt
  <2>. DEFINE new == Node(d, DevNode, kind, d)
  <2>2. new.parent = 2 /\ new.kind = kind /\ new.obj = new.name
    BY <2>1 DEF Node
  <2>3. tree' = Append(tree, new)
    BY <1>6
  <2>. HIDE DEF new
  <2>4. /\ Len(tree)' = Len(tree) + 1 /\ tree'[Len(tree) + 1] = new
        /\ \A i \in 1 .. Len(tree) : tree'[i] = tree[i]
    BY <1>1, <2>3, AppendIs
  <2>5. ASSUME NEW i \in 3 .. Len(tree)' PROVE DeviceNode(i)'
    <3>1. CASE i = Len(tree) + 1
      BY <1>6, <2>2, <2>4, <3>1 DEF DeviceNode
    <3>2. CASE i \in 3 .. Len(tree)
      <4>1. DeviceNode(i) /\ tree'[i] = tree[i]
        BY <1>1, <1>6, <2>4, <3>2 DEF LookInv, Kinds
      <4>. QED BY <4>1 DEF DeviceNode
    <3>3. i = Len(tree) + 1 \/ i \in 3 .. Len(tree)
      BY <1>1, <2>4
    <3>. QED BY <3>1, <3>2, <3>3
  <2>6. Kinds'
    BY <1>6, <2>5 DEF Kinds
  <2>. QED BY <1>6, <2>6, NotYet
<1>7. CASE InitRootfs
  BY <1>5, <1>7 DEF InitRootfs
<1>8. CASE InitDevfs
  BY <1>5, <1>8 DEF InitDevfs
<1>9. CASE CdevInit
  <2>1. PICK c \in Cdevs : tree' = Append(tree, Node(c, DevNode, "cdev", c))
    BY <1>9 DEF CdevInit
  <2>2. phase = "drivers" /\ UNCHANGED <<phase, opens, at, path, rest>>
    BY <1>9 DEF CdevInit, asking
  <2>. QED BY <1>6, <2>1, <2>2
<1>10. CASE BdevInit
  <2>1. PICK d \in DOMAIN disks : tree' = Append(tree, Node(d, DevNode, "bdev", d))
    BY <1>10 DEF BdevInit, DiskNode
  <2>2. phase = "drivers" /\ UNCHANGED <<phase, opens, at, path, rest>>
    BY <1>10 DEF BdevInit, asking
  <2>. QED BY <1>6, <2>1, <2>2
<1>11. CASE FindBootDisk
  <2>1. phase = "drivers" /\ phase' \in {"mount", "halt"} /\ UNCHANGED <<tree, opens, at, path, rest>>
    BY <1>11 DEF FindBootDisk
  <2>2. Kinds'
    BY <2>1 DEF LookInv, Kinds, DeviceNode
  <2>. QED BY <2>1, <2>2, NotYet
<1>12. CASE MountRoot
  <2>1. phase = "mount"
    BY <1>12 DEF MountRoot
  <2>2. CASE \/ \E fs : AllocSuper(fs, "root")
             \/ Halt
             \/ FillFails("mount")
    <3>1. CASE \E fs : AllocSuper(fs, "root")
      BY <1>3, <2>1, <3>1
    <3>2. CASE Halt
      BY <1>2, <2>1, <3>2 DEF Halt, asking
    <3>3. CASE FillFails("mount")
      BY <1>4, <2>1, <3>3
    <3>. QED BY <2>2, <3>1, <3>2, <3>3
  <2>3. CASE /\ filling # NoSuper
             /\ \E node \in FillSuper(filling[1], bootdisk) : FillMakes("run", Root, node)
    <3>1. PICK node \in FillSuper(filling[1], bootdisk) : FillMakes("run", Root, node)
      BY <2>3
    <3>2. /\ phase' = "run" /\ tree' = Append(tree, Node("root", Root, Image.fs, RootInode))
          /\ UNCHANGED <<disks, bootdisk, opens, at, path, rest>>
      BY <2>1, <2>3, <3>1, RootMade
    <3>3. RootNode = Node("root", Root, Image.fs, RootInode) /\ RootNode.parent = Root
      BY DEF RootNode, Node
    <3>4. RootNode' = RootNode
      BY <3>2 DEF RootNode, Image
    <3>5. /\ Len(tree)' = Len(tree) + 1 /\ tree'[Len(tree) + 1] = RootNode
          /\ \A i \in 1 .. Len(tree) : tree'[i] = tree[i]
      BY <1>1, <3>2, <3>3, AppendIs
    <3>6. ASSUME NEW i \in 3 .. Len(tree)'
          PROVE  (DeviceNode(i)' \/ tree'[i] = RootNode') /\ tree'[i].parent \in {Root, 2}
      <4>1. CASE i = Len(tree) + 1
        BY <3>3, <3>4, <3>5, <4>1
      <4>2. CASE i \in 3 .. Len(tree)
        <5>1. DeviceNode(i) /\ tree'[i] = tree[i]
          BY <1>1, <2>1, <3>5, <4>2 DEF LookInv, Kinds
        <5>. QED BY <5>1 DEF DeviceNode
      <4>3. i = Len(tree) + 1 \/ i \in 3 .. Len(tree)
        BY <1>1, <3>5
      <4>. QED BY <4>1, <4>2, <4>3
    <3>7. Kinds'
      BY <3>2, <3>6 DEF Kinds
    <3>8. RightNodes'
      BY <3>6 DEF RightNodes, OnFs
    <3>. QED BY <2>1, <3>2, <3>7, <3>8, NotYet
  <2>. QED BY <1>12, <2>2, <2>3 DEF MountRoot
<1>. QED BY <1>7, <1>8, <1>9, <1>10, <1>11, <1>12 DEF Boot

(* The nodes of the disk are what the disk has under their names, and a    *)
(* lookup is where the parts of its path that were taken lead.             *)
THEOREM LookupsInductive == FilesSpec => []LookInv
<1>1. FilesInit => LookInv
  <2>. SUFFICES ASSUME FilesInit PROVE LookInv
    OBVIOUS
  <2>1. phase = "rootfs" /\ at = 0 /\ opens = 0 /\ path = <<>> /\ rest = <<>>
    BY DEF FilesInit, VfsInit
  <2>. QED BY <2>1 DEF LookInv, Kinds, Looking
<1>2. TreeInv /\ LookInv /\ [FilesNext]_fvars => LookInv'
  <2>. SUFFICES ASSUME TreeInv, LookInv, [FilesNext]_fvars PROVE LookInv'
    OBVIOUS
  <2>1. CASE UNCHANGED vvars
    BY <2>1, LooksAlone DEF vvars, asking, Still
  <2>2. CASE BootStep
    BY <2>2, BootLook DEF BootStep
  <2>3. CASE StartOpen
    BY <2>3, OpenLook DEF StartOpen
  <2>4. CASE LookupStep
    BY <2>4, LookupLook DEF LookupStep
  <2>5. CASE FileOpen \/ FileStep \/ DiskStep
    BY <2>1, <2>5 DEF FileOpen, FileStep, DiskStep
  <2>. QED BY <2>1, <2>2, <2>3, <2>4, <2>5 DEF FilesNext, fvars
<1>. QED BY <1>1, <1>2, TreeInductive, PTL DEF FilesSpec

(* vfs_open finds what the disk says, from the tree or from the directory, *)
(* in any order of lookups (vfs_lookup_tree, isofs_finddir,                *)
(* ext2fs_finddir).                                                        *)
THEOREM LookupsAgree == FilesSpec => []LookupAgrees
<1>1. LookInv => LookupAgrees
  BY DEF LookInv, LookupAgrees, Ran, Honest, Trusted
<1>. QED BY <1>1, LookupsInductive, PTL
=============================================================================
