------------------------------ MODULE MemBlock ------------------------------
(***************************************************************************)
(* The boot time memory allocator of src/mm/memblock.c, and the calls the  *)
(* boot makes of it: the e820 map is added (e820_memblock_setup), regions  *)
(* are reserved (bootmem_reserve_regions), and then memblock_alloc runs.   *)
(*                                                                         *)
(* regions is the array type->regions with what lies beyond type->cnt, as  *)
(* memmove leaves stale elements there.  Each iteration of the loops over  *)
(* the regions is a step.  type->total_size, which no code reads, is left  *)
(* out; memblock.kernmem is another instance of the same code.             *)
(***************************************************************************)
EXTENDS Integers, Sequences, FiniteSets

CONSTANTS
  PageSize,     (* PAGE_SIZE                                                *)
  Start, Limit, (* MEMBLOCK_START and MEMBLOCK_LIMIT                        *)
  Tables,       (* the available entries [addr, size] of each e820 map      *)
  Reserves,     (* the regions [addr, size] memblock_reserve is called with *)
  MaxReserves,  (* bound: how many such calls there are                     *)
  AllocSizes,   (* the sizes memblock_alloc is called with                  *)
  MaxAllocs,    (* bound: how many such calls there are                     *)
  MaxRegions    (* MEMBLOCK_MAX_REGIONS; no code checks it, and the model   *)
                (* stops where the array would overflow                     *)

ASSUME MemBlockAssumption ==
  /\ PageSize \in Nat \ {0}
  /\ {Start, Limit, MaxReserves, MaxAllocs} \subseteq Nat
  /\ MaxRegions \in Nat \ {0}
  /\ Tables \subseteq Seq([addr : Nat, size : Nat \ {0}])
  /\ Reserves \subseteq [addr : Nat, size : Nat \ {0}]
  /\ AllocSizes \subseteq Nat \ {0}
  /\ Start % PageSize = 0 /\ Start > 0

VARIABLES
  regions, cnt,   (* type->regions and type->cnt                            *)
  pc,             (* "idle", or in the loop of "add" or of "del"            *)
  phase,          (* "detect", "reserve" or "alloc": how far the boot is    *)
  table,          (* the e820 map of this machine                           *)
  calls,          (* the calls made in this phase                           *)
  i, base, nend,  (* locals of memblock_add_region and memblock_del_region  *)
  want,           (* the region [addr, size] the call was made for          *)
  avail,          (* history: the pages added                               *)
  reserved,       (* history: the pages reserved                            *)
  given,          (* history: the blocks memblock_alloc returned            *)
  lost            (* history: the pages of calls that removed them and then *)
                  (* returned NULL                                          *)

locals  == <<i, base, nend, want>>
history == <<avail, reserved, given, lost>>
vars    == <<regions, cnt, pc, phase, table, calls, locals, history>>

-----------------------------------------------------------------------------
RoundDown(a) == a - (a % PageSize)
RoundUp(a)   == RoundDown(a + (PageSize - 1))
Lesser(a, b)  == IF a < b THEN a ELSE b
Greater(a, b) == IF a < b THEN b ELSE a
Clamp(a, lo, hi) == Lesser(Greater(a, lo), hi)

Region(b, s) == [base |-> b, size |-> s]
End(r)       == r.base + r.size

(* The page aligned addresses from b up to e: the pages of [b, e).         *)
PagesIn(b, e) == {a \in RoundDown(b) .. e - 1 : a % PageSize = 0}
PagesOf(r)    == PagesIn(r.base, End(r))
PagesFor(w)   == PagesIn(w.addr, w.addr + w.size)

(* memmove of n elements of the array, from one index to another.          *)
Move(rs, to, from, n) ==
  [k \in DOMAIN rs |-> IF k \in to .. to + n - 1 THEN rs[k - to + from] ELSE rs[k]]

(* Mutant: the element at k is not saved.                                  *)
InsertOver(rs, n, k, r) == [rs EXCEPT ![k] = r]

(* memblock_insert_region                                                  *)
Insert(rs, n, k, r) == [Move(rs, k + 1, k, n - k) EXCEPT ![k] = r]

(* memblock_fusion_region on the region at k.  Neither branch lowers cnt,  *)
(* and the second works on index k although the first moved its region.    *)
FuseLeft(rs, n, k) ==
  IF k > 0 /\ End(rs[k - 1]) = rs[k].base
  THEN Move([rs EXCEPT ![k] = Region(rs[k - 1].base, @.size + rs[k - 1].size)],
            k - 1, k, n - k)
  ELSE rs

FuseRight(rs, n, k) ==
  IF k < n /\ End(rs[k]) = rs[k + 1].base
  THEN Move([rs EXCEPT ![k + 1] = Region(rs[k].base, @.size + rs[k].size)],
            k, k + 1, n - (k + 1))
  ELSE rs

Fuse(rs, n, k) == IF n = 1 THEN rs ELSE FuseRight(FuseLeft(rs, n, k), n, k)

Init ==
  /\ regions = [k \in 0 .. MaxRegions |-> Region(0, 0)]
  /\ cnt = 1
  /\ pc = "idle" /\ phase = "detect" /\ table \in Tables /\ calls = 0
  /\ i = 0 /\ base = 0 /\ nend = 0 /\ want = [addr |-> 0, size |-> 0]
  /\ avail = {} /\ reserved = {} /\ given = <<>> /\ lost = {}

(* memblock_adjust_region and the start of a loop over the regions.        *)
StartLoop(loop, a, s) ==
  /\ pc' = loop
  /\ i' = 0
  /\ base' = RoundDown(a)
  /\ nend' = RoundUp(a + s)
  /\ want' = [addr |-> a, size |-> s]

Room == cnt < MaxRegions

-----------------------------------------------------------------------------
(* e820_memblock_setup and memblock_add_region *)

AddEntry(e) ==
  LET b == Greater(e.addr, Start)
      s == e.addr + e.size - b
  IN  /\ e.addr + e.size > Start /\ e.addr < Limit
      /\ avail' = avail \cup PagesIn(b, b + s)
      /\ IF regions[0].size = 0
         THEN /\ regions' = [regions EXCEPT ![0] =
                               Region(RoundDown(b), RoundUp(b + s) - RoundDown(b))]
              /\ UNCHANGED <<pc, locals>>
         ELSE StartLoop("add", b, s) /\ UNCHANGED regions
      /\ UNCHANGED <<cnt, reserved, given, lost>>

(* Entries below MEMBLOCK_START are skipped, entries from MEMBLOCK_LIMIT   *)
(* on go to memblock.kernmem.                                              *)
SkipEntry(e) ==
  /\ e.addr + e.size <= Start \/ e.addr >= Limit
  /\ UNCHANGED <<regions, cnt, pc, locals, history>>

Detect ==
  /\ phase = "detect" /\ pc = "idle"
  /\ calls < Len(table)
  /\ calls' = calls + 1
  /\ AddEntry(table[calls + 1]) \/ SkipEntry(table[calls + 1])
  /\ UNCHANGED <<phase, table>>

AddOn == i < cnt /\ regions[i].base < nend

AddStep ==
  LET r == regions[i]
      gap == r.base >= base
  IN  /\ pc = "add" /\ AddOn
      /\ IF End(r) <= base
         THEN /\ i' = i + 1
              /\ UNCHANGED <<regions, cnt, base>>
         ELSE /\ base' = Lesser(End(r), nend)
              /\ gap => Room
              /\ i' = IF gap THEN i + 2 ELSE i + 1
              /\ cnt' = IF gap THEN cnt + 1 ELSE cnt
              /\ regions' =
                   IF gap THEN Insert(regions, cnt, i, Region(base, r.base - base))
                          ELSE regions
      /\ UNCHANGED <<pc, phase, table, calls, nend, want, history>>

AddEnd ==
  /\ pc = "add" /\ ~ AddOn
  /\ IF base < nend
     THEN /\ Room
          /\ cnt' = cnt + 1
          /\ regions' =
               Fuse(Insert(regions, cnt, i, Region(base, nend - base)), cnt + 1, i)
     ELSE /\ cnt' = cnt
          /\ regions' = Fuse(regions, cnt, i)
  /\ pc' = "idle"
  /\ UNCHANGED <<phase, table, calls, locals, history>>

-----------------------------------------------------------------------------
(* memblock_reserve, memblock_alloc and memblock_del_region *)

NextPhase ==
  /\ pc = "idle"
  /\ \/ phase = "detect" /\ calls = Len(table) /\ phase' = "reserve"
     \/ phase = "reserve" /\ phase' = "alloc"
  /\ calls' = 0
  /\ UNCHANGED <<regions, cnt, pc, table, locals, history>>

Reserve(w) ==
  /\ phase = "reserve" /\ pc = "idle" /\ calls < MaxReserves
  /\ calls' = calls + 1
  /\ StartLoop("del", w.addr, w.size)
  /\ UNCHANGED <<regions, cnt, phase, table, history>>

(* memblock_find_in_range: where a block would start in a region.          *)
Candidate(r) == RoundUp(Clamp(r.base, Start, Limit))

Holds(r, s) == LET rend == Clamp(End(r), Start, Limit)
               IN  Candidate(r) < rend /\ rend - Candidate(r) >= s

Alloc(s) ==
  /\ phase = "alloc" /\ pc = "idle" /\ calls < MaxAllocs
  /\ calls' = calls + 1
  /\ \E k \in 0 .. cnt - 1 :
       /\ Holds(regions[k], s)
       /\ \A l \in 0 .. k - 1 : ~ Holds(regions[l], s)
       /\ StartLoop("del", Candidate(regions[k]), s)
  /\ UNCHANGED <<regions, cnt, phase, table, history>>

AllocFail(s) ==
  /\ phase = "alloc" /\ pc = "idle"
  /\ \A k \in 0 .. cnt - 1 : ~ Holds(regions[k], s)
  /\ UNCHANGED vars

(* Mutant: no value tells that memory was removed.                         *)
ReturnInvalid(valid) ==
  /\ pc' = "idle"
  /\ reserved' = IF phase = "reserve" THEN reserved \cup PagesFor(want) ELSE reserved
  /\ given' = given
  /\ lost'  = IF phase = "alloc" THEN lost \cup PagesFor(want) ELSE lost
  /\ UNCHANGED avail

(* What the caller makes of the value memblock_del_region returns: it is   *)
(* MEMBLOCK_INVLD unless the loop ended within a region.                   *)
Return(valid) ==
  /\ pc' = "idle"
  /\ reserved' = IF phase = "reserve" THEN reserved \cup PagesFor(want) ELSE reserved
  /\ given' = IF phase = "alloc" /\ valid THEN Append(given, want) ELSE given
  /\ lost'  = IF phase = "alloc" /\ ~ valid THEN lost \cup PagesFor(want) ELSE lost
  /\ UNCHANGED avail

DelOn == i < cnt /\ regions[i].base < nend

DelSkip ==
  /\ pc = "del" /\ DelOn
  /\ End(regions[i]) <= base
  /\ i' = i + 1
  /\ UNCHANGED <<regions, cnt, pc, phase, table, calls, base, nend, want, history>>

Inside(r) == r.base < base /\ End(r) > nend

DelSplit ==
  LET r == regions[i]
  IN  /\ pc = "del" /\ DelOn
      /\ Inside(r) /\ Room
      /\ regions' = Insert([regions EXCEPT ![i].size = base - r.base],
                           cnt, i + 1, Region(nend, End(r) - nend))
      /\ cnt' = cnt + 1
      /\ Return(TRUE)
      /\ UNCHANGED <<phase, table, calls, locals>>

(* Mutant: the loop moves on from the region that took the place.          *)
AfterWholeSkips(k) == k + 1
AfterWhole(k) == k                             \* i-- before the loop's i++

DelWhole ==
  LET r == regions[i]
  IN  /\ pc = "del" /\ DelOn
      /\ End(r) > base
      /\ base <= r.base /\ End(r) <= nend
      /\ regions' = Move([regions EXCEPT ![i].size = 0], i, i + 1, cnt - (i + 1))
      /\ cnt' = cnt - 1
      /\ i' = AfterWhole(i)
      /\ UNCHANGED <<pc, phase, table, calls, base, nend, want, history>>

DelFront ==
  LET r == regions[i]
  IN  /\ pc = "del" /\ DelOn
      /\ End(r) > base
      /\ base <= r.base /\ End(r) > nend
      /\ regions' = [regions EXCEPT ![i] = Region(nend, End(r) - nend)]
      /\ Return(TRUE)
      /\ UNCHANGED <<cnt, phase, table, calls, locals>>

DelTail ==
  LET r == regions[i]
  IN  /\ pc = "del" /\ DelOn
      /\ End(r) > base
      /\ r.base < base /\ End(r) <= nend
      /\ regions' = [regions EXCEPT ![i].size = base - r.base]
      /\ base' = End(r)
      /\ i' = i + 1
      /\ UNCHANGED <<cnt, pc, phase, table, calls, nend, want, history>>

DelEnd ==
  /\ pc = "del" /\ ~ DelOn
  /\ Return(FALSE)
  /\ UNCHANGED <<regions, cnt, phase, table, calls, locals>>

Loop == AddStep \/ AddEnd \/ DelSkip \/ DelSplit \/ DelWhole \/ DelFront
        \/ DelTail \/ DelEnd

Next ==
  \/ Loop
  \/ NextPhase
  \/ Detect
  \/ \E w \in Reserves : Reserve(w)
  \/ \E s \in AllocSizes : Alloc(s) \/ AllocFail(s)

Spec == Init /\ [][Next]_vars

(* Nothing else runs on the processor: a loop that can go on does.         *)
FairSpec == Spec /\ WF_vars(Loop)
==============================================================================
