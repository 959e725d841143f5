----------------------------- MODULE BootModules -----------------------------
(***************************************************************************)
(* elfboot_main: the stages before, of which other modules tell more, then *)
(* symbols_init, modules_load and, for the entry chosen in the menu,       *)
(* loader_init_module and loader_boot_kernel of src/core/loader.c.         *)
(***************************************************************************)
EXTENDS ModuleLoad, KernelLoad

CONSTANTS
  Wanted,        (* the modules that modules_load opens                     *)
  LoaderModules  (* loader_modules: the module of a protocol                *)

(* There is a loader for each protocol.                                    *)
ASSUME LoadersAssumption ==
  \A prot \in DOMAIN LoaderModules : LoaderModules[prot] \in {"lxboot", "mboot1", "mboot2"}

VARIABLE main    (* how far the boot has come                               *)

vars == <<main, mvars, kvars>>

(* The stages in front of the symbol map.                                  *)
Stages == <<"page_alloc_init", "bmalloc_init", "vfs_init", "pci_init", "modules_init",
            "arch_init_late", "symbols">>

Init == main = Stages[1] /\ ModuleInit /\ KernelInit

(* Any error ends the boot.                                                *)
Dies == main' = "dead" /\ UNCHANGED <<mvars, kvars>>

EarlyStage ==
  \E k \in 1 .. Len(Stages) - 1 :
    /\ main = Stages[k]
    /\ main' \in {Stages[k + 1], "dead"}
    /\ UNCHANGED <<mvars, kvars>>

(* symbols_init: no file, no memory, or a read that returns 0.             *)
SymbolsInit ==
  /\ main = "symbols"
  /\ \/ ReadMap /\ main' = "map" /\ UNCHANGED kvars
     \/ Dies

ParseMap ==
  /\ main = "map"
  /\ \/ ParseLine /\ UNCHANGED <<main, kvars>>
     \/ MapRead /\ main' = "modules" /\ UNCHANGED <<mvars, kvars>>
     \/ Dies

(* module_open, or an error of file_open.                                  *)
OpenModule ==
  /\ main = "modules" /\ mpc = "idle"
  /\ \/ ModuleOpen(Wanted[Len(opened) + 1]) /\ UNCHANGED <<main, kvars>>
     \/ Dies

ModuleEnds ==
  /\ ModuleDone
  /\ main' = CASE mpc = "failed" -> "dead"
               [] main = "modules" /\ Len(opened) = Len(Wanted) -> "menu"
               [] main = "loader" -> "boot"
               [] OTHER -> main
  /\ UNCHANGED kvars

(* loader_init_module; the entry may ask for a module that does not exist. *)
InitLoader ==
  /\ main = "menu"
  /\ \/ /\ kernel.prot \in DOMAIN LoaderModules /\ main' = "loader"
        /\ ModuleOpen(LoaderModules[kernel.prot]) /\ UNCHANGED kvars
     \/ Dies

(* loader_get_loader finds the loader that has just registered.            *)
BootKernel ==
  /\ main = "boot" /\ kpc = "idle"
  /\ kpc' = LoaderModules[kernel.prot]
  /\ UNCHANGED <<main, mvars, kernel, header, memory, rmcode, kheap, cmdline, found, mbi,
                 stale>>

RunModule == ModuleStep /\ UNCHANGED <<main, kvars>>
RunKernel == KernelStep /\ UNCHANGED <<main, mvars>>

Next == EarlyStage \/ SymbolsInit \/ ParseMap \/ OpenModule \/ ModuleEnds \/ InitLoader
        \/ BootKernel \/ RunModule \/ RunKernel

(* One thread of control, which never waits here.                          *)
Spec == Init /\ [][Next]_vars /\ WF_vars(Next)

-----------------------------------------------------------------------------
(* Properties *)

(* What an undefined symbol means, read from a text as a whole.            *)
Meant(text, name) ==
  LET hits == {k \in DOMAIN text : text[k].name = name /\ name \notin Hidden}
  IN  <<"map", text[CHOOSE k \in hits : \A j \in hits : k <= j].addr>>

Value(text, obj, sym) ==
  CASE sym.sec = SHN_UNDEF -> Meant(text, sym.name)
    [] sym.sec = SHN_ABS   -> <<"file", 0>>
    [] OTHER -> <<IF obj.secs[sym.sec].kind = "nobits" THEN "bss" ELSE "buf", sym.sec>>

Linked(text, obj) ==
  UNION {{[place |-> <<obj.secs[j].info, obj.secs[j].rels[k].offset>>,
           kind |-> obj.secs[j].rels[k].kind,
           value |-> Value(text, obj, obj.syms[obj.secs[j].rels[k].sym])] :
             k \in DOMAIN obj.secs[j].rels} :
         j \in {i \in DOMAIN obj.secs : obj.secs[i].kind = "rel"}}

Linkable(obj) ==
  \A i \in DOMAIN obj.secs : \A k \in DOMAIN obj.secs[i].rels :
    obj.secs[i].rels[k].kind \in Known

(* When init_module of a module is called, every relocation of its object  *)
(* is applied, each with the address its symbol has in the map or in the   *)
(* module, and the call goes to init_module - unless ret was not 0 by      *)
(* chance, a type is unknown or there is no init_module (module.c:145-183).*)
(* A name that the map does not have is taken from the text that the       *)
(* memory held behind it, and every name from what it held in place of the *)
(* map when the read failed with a negative number (main.c:31).            *)
LinkedBeforeRun ==
  \A r \in ran : LET obj == objects[opened[r.load]]
                 IN  (r.load \notin garbage /\ Linkable(obj)) =>
                       r.fixed = Linked(MapText, obj) /\ r.entry[1] = "buf"

(* Nothing that can still be called lies in memory that a failed load gave *)
(* back, but for a terminal whose console cannot be opened after its       *)
(* device was made (tty.c:254-259).                                        *)
PointersLive ==
  \A r \in refs :
    \/ {<<r.load, "mod", 0>>, <<r.load, "buf", 0>>} \subseteq heap
    \/ opened[r.load] = "tty" /\ r.list = "cdevs"

(* At whatever step a load fails, it gives back all it took but the name   *)
(* of the file and the memory of sections of their own, and a module that  *)
(* stays keeps everything (module.c:202-262).                              *)
GivesBack ==
  \A n \in DOMAIN opened : (mpc = "idle" \/ n < Load) =>
    LET held == {h[2] : h \in {x \in heap : x[1] = n}}
    IN  IF [list |-> "modules", load |-> n] \in refs
        THEN {"file", "name", "mod", "buf"} \subseteq held
        ELSE held \subseteq {"name", "bss"}

Holds(a, cell) == a \in DOMAIN memory /\ memory[a] = cell

(* The jump is made to a kernel whose parts are all in memory, where the   *)
(* initrd does not cover them, and a multiboot header is the first one of  *)
(* the file, unless a failed read was taken for success or the word was    *)
(* compared behind the buffer.                                             *)
HandedOver ==
  /\ (kpc = "jumped" /\ ~ stale) =>
       /\ rmcode = "kernel" /\ header.version >= 2
       /\ \A i \in RmCells .. kernel.length - 1 :
            LET a == KernelAddr + i - RmCells
            IN  a < InitrdAddr => Holds(a, <<"kernel", i>>)
       /\ \A i \in 0 .. kernel.initrd - 1 : Holds(InitrdAddr + i, <<"initrd", i>>)
  /\ (found >= 0 /\ found < SearchLimit /\ ~ stale) =>
       found \in kernel.headers \cap FirstWord(kernel.magics)

(* The program is in code of a module that is not linked, or not with the  *)
(* map, or was not read.                                                   *)
Astray ==
  \/ mpc = "astray"
  \/ mpc = "running" /\ (~ Complete \/ "init_module" \in Missing \/ Foreign)

(* The boot ends, at a kernel or with an error, unless it is led astray or *)
(* a byte waits in the keyboard controller when kbd_init runs.             *)
BootEnds ==
  <> (main = "dead" \/ kpc \in {"jumped", "prepared", "failed"} \/ Astray
        \/ (mpc = "running" /\ key))

(* kbd_init means to "drain keyboard buffer before continuing".            *)
Drains == (mpc = "running" /\ Last(opened) = "kbd" /\ ~ Astray) ~> (mpc # "running")
==============================================================================
