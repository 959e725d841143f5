------------------------------ MODULE ModuleLoad ------------------------------
(***************************************************************************)
(* External modules: the symbol map of src/core/symbol.c and module_open   *)
(* of src/core/module.c, which reads an object file, gives its sections    *)
(* memory, resolves its symbols, applies its relocations and runs its init *)
(* function.  Every allocation and every read may fail.                    *)
(*                                                                         *)
(* An address is known by what it points to: a line of the map, or a       *)
(* section of the object.  A module is known by the number of its load.    *)
(***************************************************************************)
EXTENDS Integers, Sequences, FiniteSets, SequencesExt

CONSTANTS
  Discs,         (* the files under /root/modules of a boot, by name        *)
  MapLines,      (* elfboot.map: a sequence of [name, addr]                 *)
  Hidden,        (* the names that begin with an underscore                 *)
  Leftovers      (* what memory may hold that is parsed as lines            *)

(* An object: its sections after the null section, [kind, info, rels], its *)
(* symbols after the null symbol, [name, sec], and whether it has tables.  *)
(* What the linker writes: relocations are of a section and have a symbol, *)
(* symbols are of a section, and init_module is code.                      *)
WellFormed(obj) ==
  /\ obj.secs \in Seq([kind : STRING, info : Nat,
                       rels : Seq([offset : Nat, sym : Nat, kind : STRING])])
  /\ obj.syms \in Seq([name : STRING, sec : Int])
  /\ \A i \in DOMAIN obj.secs : obj.secs[i].kind = "rel" =>
       /\ obj.secs[i].info <= Len(obj.secs)
       /\ \A k \in DOMAIN obj.secs[i].rels : obj.secs[i].rels[k].sym \in DOMAIN obj.syms
  /\ \A k \in DOMAIN obj.syms :
       /\ obj.syms[k].sec \in {-1, 0} \cup DOMAIN obj.secs
       /\ obj.syms[k].name = "init_module" =>
            obj.syms[k].sec > 0 /\ obj.secs[obj.syms[k].sec].kind # "nobits"

ASSUME ModuleAssumption ==
  /\ MapLines \in Seq([name : STRING, addr : Nat])
  /\ Leftovers \subseteq Seq([name : STRING, addr : Nat])
  /\ \A disc \in Discs : \A name \in DOMAIN disc : WellFormed(disc[name])

VARIABLES
  objects,       (* the object files on the boot disk                       *)
  line,          (* the lines of the map that are read                      *)
  symbols,       (* the list of symbols: sequence of [name, addr]           *)
  misread,       (* whether the read of the map failed unnoticed            *)
  leftover,      (* what the memory held behind the map, or in its place    *)
  mpc,           (* the step of module_open                                 *)
  opened,        (* the names of the loads, the last one in progress        *)
  shndx,         (* the section of the loop                                 *)
  ret,           (* ret of module_resolve_relocations                       *)
  st_value,      (* the symbols resolved so far                             *)
  patched,       (* the relocations applied: [place, kind, value]           *)
  heap,          (* what is allocated: <<load, what, section or 0>>         *)
  refs,          (* pointers into modules: [list, load]                     *)
  key,           (* a byte waits in the keyboard controller                 *)
  ran,           (* history: the loads whose init ran: [load, entry, fixed] *)
  garbage        (* history: loads steered by a value nobody set            *)

symtab == <<line, symbols, misread, leftover>>
mvars  == <<objects, symtab, mpc, opened, shndx, ret, st_value, patched, heap, refs, key, ran,
            garbage>>

ModuleInit ==
  /\ objects \in Discs /\ line = 0 /\ symbols = <<>> /\ misread = FALSE /\ leftover = <<>>
  /\ mpc = "idle" /\ opened = <<>> /\ shndx = 0
  /\ ret = 0 /\ st_value = <<>> /\ patched = {} /\ heap = {} /\ refs = {}
  /\ key \in BOOLEAN /\ ran = {} /\ garbage = {}

-----------------------------------------------------------------------------
(* symbols_init and symbol_parse_map *)

(* What strtok gives, up to a zero: nobody writes one behind the map.      *)
MapText == IF misread THEN leftover ELSE MapLines \o leftover

(* A negative result of file_read passes the test of it: what was in the   *)
(* buffer is then parsed.                                                  *)
ReadMap ==
  /\ misread' \in BOOLEAN /\ leftover' \in Leftovers
  /\ UNCHANGED <<objects, line, symbols, mpc, opened, shndx, ret, st_value, patched, heap,
                 refs, key, ran, garbage>>

MapRead == line = Len(MapText)

(* Mutant: the newest symbol of a name comes first.                        *)
AddFirst(s) == <<s>> \o symbols

(* symbol_add, at the end of the list.                                     *)
SymbolAdd(s) == Append(symbols, s)

ParseLine ==
  /\ ~ MapRead /\ line' = line + 1
  /\ LET s == MapText[line + 1]
     IN  symbols' = IF s.name \in Hidden THEN symbols ELSE SymbolAdd(s)
  /\ UNCHANGED <<objects, misread, leftover, mpc, opened, shndx, ret, st_value, patched,
                 heap, refs, key, ran, garbage>>

(* symbol_lookup_name: the first of the name, or 0.                        *)
LookupName(name) ==
  LET hits == {k \in DOMAIN symbols : symbols[k].name = name}
  IN  IF hits = {} THEN 0 ELSE symbols[CHOOSE k \in hits : \A j \in hits : k <= j].addr

-----------------------------------------------------------------------------
(* module_read_file *)

Load == Len(opened)
Object == objects[Last(opened)]
ShNum == Len(Object.secs) + 1
Takes(what) == heap' = heap \cup {<<Load, what, 0>>}

Bss(sections) == {<<Load, "bss", k>> : k \in sections}
NoBits == {k \in DOMAIN Object.secs : Object.secs[k].kind = "nobits"}

ModuleOpen(name) ==
  /\ mpc = "idle" /\ mpc' = "mod"
  /\ name \in DOMAIN objects
  /\ opened' = Append(opened, name)
  /\ heap' = heap \cup {<<Len(opened) + 1, what, 0>> : what \in {"file", "name"}}
  /\ shndx' = 0 /\ st_value' = <<>> /\ patched' = {}
  /\ UNCHANGED <<objects, symtab, ret, refs, key, ran, garbage>>

(* Mutant: the file is freed and the buffer is kept.                       *)
FreeFile(from) == {<<Load, "file", 0>>}

(* The labels of module_read_file, then the one of module_open; sections   *)
(* of their own and the name of the file are not freed.                    *)
Unwind(from) ==
  {<<Load, "file", 0>>} \cup (IF from = "mod" THEN {} ELSE {<<Load, "mod", 0>>})
                     \cup (IF from \in {"mod", "buffer"} THEN {} ELSE {<<Load, "buf", 0>>})

Fails(from) ==
  /\ mpc' = "failed" /\ heap' = heap \ Unwind(from)
  /\ UNCHANGED <<objects, symtab, opened, shndx, ret, st_value, patched, refs, key, ran,
                 garbage>>

AllocModule ==
  /\ mpc = "mod"
  /\ \/ /\ mpc' = "buffer" /\ Takes("mod")
        /\ UNCHANGED <<objects, symtab, opened, shndx, ret, st_value, patched, refs, key,
                       ran, garbage>>
     \/ Fails("mod")

AllocBuffer ==
  /\ mpc = "buffer"
  /\ \/ /\ mpc' = "read" /\ Takes("buf")
        /\ UNCHANGED <<objects, symtab, opened, shndx, ret, st_value, patched, refs, key,
                       ran, garbage>>
     \/ Fails("buffer")

(* file_read and module_find_sections, then module_load_sections, which    *)
(* stops at the first section that gets no memory.  A negative result of   *)
(* file_read passes the test of it: what was in the buffer is then taken   *)
(* for the object, and nothing is said of the program from there on.       *)
LoadSections ==
  /\ mpc = "read"
  /\ \/ /\ Object.tables
        /\ mpc' = "symbols" /\ heap' = heap \cup Bss(NoBits)
        /\ UNCHANGED <<objects, symtab, opened, shndx, ret, st_value, patched, refs, key,
                       ran, garbage>>
     \/ Fails("read")
     \/ /\ mpc' = "astray" /\ garbage' = garbage \cup {Load}
        /\ UNCHANGED <<objects, symtab, opened, shndx, ret, st_value, patched, heap, refs,
                       key, ran>>
     \/ \E k \in NoBits :
          /\ Object.tables
          /\ mpc' = "failed"
          /\ heap' = (heap \cup Bss({i \in NoBits : i < k})) \ Unwind("read")
          /\ UNCHANGED <<objects, symtab, opened, shndx, ret, st_value, patched, refs, key,
                         ran, garbage>>

(* Where a section is: in the buffer, or in memory of its own.             *)
ShAddr(k) == <<IF k \in NoBits THEN "bss" ELSE "buf", k>>

SHN_UNDEF == 0
SHN_ABS   == -1        \* SHN_COMMON and SHN_LIVEPATCH are treated alike

(* module_resolve_symbols, for one symbol; an undefined one that is not in *)
(* the map ends the load, even when it is weak.                            *)
ResolveSymbol ==
  /\ mpc = "symbols" /\ Len(st_value) < Len(Object.syms)
  /\ LET s == Object.syms[Len(st_value) + 1]
         v == CASE s.sec = SHN_ABS   -> <<"file", 0>>
                [] s.sec = SHN_UNDEF -> <<"map", LookupName(s.name)>>
                [] OTHER             -> ShAddr(s.sec)
     IN  \/ /\ v # <<"map", 0>> /\ st_value' = Append(st_value, v)
            /\ UNCHANGED <<objects, symtab, mpc, opened, shndx, ret, patched, heap, refs,
                           key, ran, garbage>>
         \/ v = <<"map", 0>> /\ Fails("symbols")

(* ret has the value of whatever was on the stack.                         *)
SymbolsResolved ==
  /\ mpc = "symbols" /\ Len(st_value) = Len(Object.syms)
  /\ mpc' = "relocations" /\ shndx' = 1 /\ ret' \in {0, 1}
  /\ UNCHANGED <<objects, symtab, opened, st_value, patched, heap, refs, key, ran, garbage>>

-----------------------------------------------------------------------------
(* module_resolve_relocations *)

Known == {"R_386_32", "R_386_PC32"}

(* The relocations of a section before the first of an unknown type.       *)
Good(rels) == {k \in DOMAIN rels : \A j \in 1 .. k : rels[j].kind \in Known}

Patch(s, k) ==
  [place |-> <<s.info, s.rels[k].offset>>, kind |-> s.rels[k].kind,
   value |-> st_value[s.rels[k].sym]]

(* One turn of the loop.  A section without relocations leaves ret alone,  *)
(* and the result of the function is 0 however the loop ends.              *)
ResolveRelocations ==
  /\ mpc = "relocations" /\ shndx < ShNum
  /\ LET s == Object.secs[shndx]
         counts == s.info < ShNum
         rel == counts /\ s.kind = "rel"
     IN  /\ patched' = patched \cup (IF rel THEN {Patch(s, k) : k \in Good(s.rels)} ELSE {})
         /\ ret' = IF rel THEN (IF Good(s.rels) = DOMAIN s.rels THEN 0 ELSE 8) ELSE ret
         /\ garbage' = IF counts /\ ~ rel /\ ret = 1 THEN garbage \cup {Load} ELSE garbage
         /\ IF counts /\ ret' # 0 THEN mpc' = "init" /\ UNCHANGED shndx
            ELSE shndx' = shndx + 1 /\ UNCHANGED mpc
  /\ UNCHANGED <<objects, symtab, opened, st_value, heap, refs, key, ran>>

RelocationsDone ==
  /\ mpc = "relocations" /\ shndx = ShNum /\ mpc' = "init"
  /\ UNCHANGED <<objects, symtab, opened, shndx, ret, st_value, patched, heap, refs, key,
                 ran, garbage>>

-----------------------------------------------------------------------------
(* module_initialize *)

(* module_find_symbol; mod->init and mod->exit are not set when it fails.  *)
Entry(name) ==
  LET hits == {k \in DOMAIN Object.syms : Object.syms[k].name = name}
  IN  IF hits = {} THEN <<"garbage", name>>
      ELSE st_value[CHOOSE k \in hits : \A j \in hits : k <= j]

Missing == {n \in {"init_module", "exit_module"} : Entry(n) = <<"garbage", n>>}

CallInit ==
  /\ mpc = "init" /\ mpc' = "running"
  /\ ran' = ran \cup {[load |-> Load, entry |-> Entry("init_module"), fixed |-> patched]}
  /\ garbage' = IF "init_module" \in Missing THEN garbage \cup {Load} ELSE garbage
  /\ UNCHANGED <<objects, symtab, opened, shndx, ret, st_value, patched, heap, refs, key>>

(* A pointer that nobody set happens to be NULL.                           *)
NoEntry == mpc = "init" /\ Missing # {} /\ Fails("init")

(* What an init function returns and what it has registered by then.       *)
Outcome(value, lists) == [value |-> value, lists |-> lists]

PitOutcomes    == {Outcome(0, {})}
LoaderOutcomes == {Outcome(0, {"loaders"})}

(* kbd_init fails before it registers its handler.                         *)
KbdOutcomes == {Outcome(0, {"interrupts"}), Outcome(1, {})}

(* tty_init may fail also behind cdev_init.                                *)
TtyOutcomes == {Outcome(0, {"cdevs"}), Outcome(1, {}), Outcome(1, {"cdevs"})}

Outcomes(name) ==
  CASE name = "pit" -> PitOutcomes
    [] name = "kbd" -> KbdOutcomes
    [] name = "tty" -> TtyOutcomes
    [] OTHER        -> LoaderOutcomes

(* Mutant: the loop waits for a full controller.                           *)
WaitsEmpty == Last(opened) = "kbd" /\ ~ key

(* kbd_init waits for the controller to be empty without reading from it.  *)
Waits == Last(opened) = "kbd" /\ key

Registered(lists) == refs \cup {[list |-> l, load |-> Load] : l \in lists}

(* Mutant: the module is on the list before its init runs.                 *)
KeptAnyway(o) == Registered(o.lists \cup {"modules"})
Kept(o) == Registered(o.lists \cup (IF o.value = 0 THEN {"modules"} ELSE {}))

(* All relocations that the object asks for.                               *)
Complete ==
  patched = UNION {{Patch(Object.secs[j], k) : k \in DOMAIN Object.secs[j].rels} :
                     j \in {i \in DOMAIN Object.secs : Object.secs[i].kind = "rel"}}

(* A symbol has its address from a line that is not in the map.            *)
Foreign ==
  \E k \in DOMAIN Object.syms :
    /\ Object.syms[k].sec = SHN_UNDEF
    /\ misread \/ \A j \in DOMAIN MapLines : MapLines[j].name # Object.syms[k].name

(* Code that is not complete, uses wrong addresses or is at one that       *)
(* nobody set does anything: nothing is said of the program from there on. *)
InitReturns ==
  /\ mpc = "running" /\ ~ Waits /\ Complete /\ ~ Foreign
  /\ Entry("init_module") # <<"garbage", "init_module">>
  /\ \E o \in Outcomes(Last(opened)) :
       /\ refs' = Kept(o)
       /\ IF o.value = 0 THEN mpc' = "loaded" /\ UNCHANGED heap
          ELSE mpc' = "failed" /\ heap' = heap \ Unwind("init")
  /\ UNCHANGED <<objects, symtab, opened, shndx, ret, st_value, patched, key, ran, garbage>>

(* module_open returns.                                                    *)
ModuleDone ==
  /\ mpc \in {"loaded", "failed"} /\ mpc' = "idle"
  /\ UNCHANGED <<objects, symtab, opened, shndx, ret, st_value, patched, heap, refs, key,
                 ran, garbage>>

ModuleStep ==
  \/ AllocModule \/ AllocBuffer \/ LoadSections \/ ResolveSymbol \/ SymbolsResolved
  \/ ResolveRelocations \/ RelocationsDone \/ CallInit \/ NoEntry \/ InitReturns
==============================================================================
