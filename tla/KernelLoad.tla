------------------------------ MODULE KernelLoad ------------------------------
(***************************************************************************)
(* The boot of an entry by the loaders: lxboot_boot of src/loaders/        *)
(* lxboot.c, which copies a Linux kernel and its initrd to fixed addresses *)
(* and jumps to the kernel, and mboot1_boot of src/loaders/mboot1.c, which *)
(* checks a multiboot header and prepares the information for the kernel.  *)
(*                                                                         *)
(* A read gives the data, or 0, or a negative number that the callers take *)
(* for success: the buffer then holds what was there before.  Memory is    *)
(* counted in cells; what is in a cell is known by its source.             *)
(***************************************************************************)
EXTENDS Integers, Sequences, FiniteSets

CONSTANTS
  Kernels,       (* the kernels: the entry chosen and what is in the file   *)
  KernelAddr,    (* LXBOOT_KERNEL_ADDR                                      *)
  InitrdAddr,    (* LXBOOT_INITRD_ADDR                                      *)
  SearchLimit,   (* words of the buffer of mboot1_compare_signature         *)
  SearchCount,   (* MBOOT1_SEARCH_COUNT                                     *)
  Heaps,         (* heap_end of old and new protocols, in cells             *)
  Signs          (* the fields of a header that memory may hold             *)

(* The fields of the header of a Linux kernel that the loader looks at.    *)
Headers == [magic : BOOLEAN, version : Nat, high : BOOLEAN, setup : Nat]

ASSUME KernelAssumption ==
  /\ {KernelAddr, InitrdAddr, SearchLimit, SearchCount} \subseteq Nat
  /\ KernelAddr < InitrdAddr /\ SearchLimit < SearchCount
  /\ Signs \subseteq Headers
  /\ \A k \in Kernels : /\ k.head \in Headers /\ k.length \in Nat /\ k.initrd \in Nat
                       /\ k.magics \subseteq Nat /\ k.headers \subseteq Nat

(* Of a kernel: its protocol, the header of a Linux kernel [magic, version,*)
(* high, setup], the lengths of the kernel and the initrd, whether there   *)
(* is an initrd, the words that are the magic of multiboot, and the words  *)
(* a header with a right checksum begins at.                               *)
VARIABLES
  kpc,           (* the step of the loader                                  *)
  kernel,        (* the entry that boots                                    *)
  header,        (* the fields lxboot_prepare_kernel has read               *)
  memory,        (* the cells above KernelAddr: <<source, cell>>            *)
  rmcode,        (* what rmcodebuf holds: "none", "kernel" or "stale"       *)
  kheap,         (* what the loader has allocated                           *)
  cmdline,       (* the cell of rmcodebuf the command line is copied to     *)
  found,         (* the word the multiboot header was taken from            *)
  mbi,           (* the fields of the multiboot information that are filled *)
  stale          (* history: a read failed and was taken for success        *)

kvars == <<kpc, kernel, header, memory, rmcode, kheap, cmdline, found, mbi, stale>>

NoHeader == [magic |-> FALSE, version |-> 0, high |-> FALSE, setup |-> 0]

KernelInit ==
  /\ kpc = "idle" /\ kernel \in Kernels /\ header = NoHeader /\ memory = <<>>
  /\ rmcode = "none" /\ kheap = {} /\ cmdline = 0 /\ found = -1 /\ mbi = {} /\ stale = FALSE

Goes(to) == kpc' = to
GivesUp == Goes("failed")
Allocs(what) == kheap' = kheap \cup {what}

(* What file_read returns and the callers see.                             *)
Reads == {"data", "zero", "negative"}

(* Mutant: the result of a read is not looked at.                          *)
SucceedsAlways(r) == TRUE

(* if (!file_read(...))                                                    *)
Succeeds(r) == r # "zero"

-----------------------------------------------------------------------------
(* lxboot_boot *)

LxOpen ==
  /\ kpc = "lxboot"
  /\ \/ kernel.initrd > 0 /\ Goes("header") /\ kheap' = kheap \cup {"kernel", "initrd"}
     \/ GivesUp /\ kheap' \in {kheap, kheap \cup {"kernel"}}
  /\ UNCHANGED <<kernel, header, memory, rmcode, cmdline, found, mbi, stale>>

(* The header at 0x1f1, in a buffer that is freed only here; 4 sectors are *)
(* assumed when none are given.                                            *)
LxHeader ==
  /\ kpc = "header"
  /\ \E r \in Reads : \E h \in (IF r = "data" THEN {kernel.head} ELSE Signs) :
       /\ stale' = (stale \/ r = "negative")
       /\ IF Succeeds(r) /\ h.magic
          THEN /\ Goes("setup") /\ UNCHANGED kheap
               /\ header' = [h EXCEPT !.setup = IF @ = 0 THEN 4 ELSE @]
          ELSE /\ GivesUp /\ kheap' \in {kheap, kheap \cup {"rmcodehdr"}}
               /\ UNCHANGED header
  /\ UNCHANGED <<kernel, memory, rmcode, cmdline, found, mbi>>

RmCells == header.setup + 1

(* The real mode code, and lxboot_prepare_fields: only version 2.2 and     *)
(* newer can boot.  The command line lies behind the heap.                 *)
LxSetup ==
  /\ kpc = "setup"
  /\ \E r \in Reads :
       /\ stale' = (stale \/ r = "negative")
       /\ rmcode' = CASE r = "data" -> "kernel" [] r = "negative" -> "stale" [] OTHER -> rmcode
       /\ IF Succeeds(r) /\ header.version >= 2
          THEN /\ Goes("code") /\ Allocs("rmcodebuf")
               /\ \E high \in (IF r = "data" THEN {kernel.head.high} ELSE BOOLEAN) :
                    cmdline' = Heaps[IF high THEN 2 ELSE 1]
          ELSE GivesUp /\ kheap' \in {kheap, kheap \cup {"rmcodebuf"}} /\ UNCHANGED cmdline
  /\ UNCHANGED <<kernel, header, memory, found, mbi>>

(* len cells of the source, from its cell first, at the address base.      *)
Fill(source, first, base, len) ==
  [a \in DOMAIN memory \cup (base .. base + len - 1) |->
     IF a \in base .. base + len - 1 THEN <<source, first + a - base>> ELSE memory[a]]

(* A part that is read to its address, in lxboot_prepare_kernel and in     *)
(* lxboot_prepare_initrd.                                                  *)
LxCopy(from, to, source, first, base, len) ==
  /\ kpc = from
  /\ \E r \in Reads :
       /\ stale' = (stale \/ r = "negative")
       /\ memory' = IF r = "data" THEN Fill(source, first, base, len) ELSE memory
       /\ IF Succeeds(r) THEN Goes(to) ELSE GivesUp
  /\ UNCHANGED <<kernel, header, rmcode, kheap, cmdline, found, mbi>>

LxCode   == LxCopy("code", "initrd", "kernel", RmCells, KernelAddr,
                   kernel.length - RmCells)
LxInitrd == LxCopy("initrd", "jumped", "initrd", 0, InitrdAddr, kernel.initrd)

-----------------------------------------------------------------------------
(* mboot1_boot *)

MbOpen ==
  /\ kpc = "mboot1"
  /\ \/ Goes("search") /\ Allocs("kernel")
     \/ GivesUp /\ UNCHANGED kheap
  /\ UNCHANGED <<kernel, header, memory, rmcode, cmdline, found, mbi, stale>>

(* The loop looks at the first word that is the magic.                     *)
FirstWord(words) == {w \in words : \A v \in words : w <= v}

(* mboot1_compare_signature: the buffer is shorter than the words the loop *)
(* compares, and the header is read again from the file.                   *)
MbSearch ==
  /\ kpc = "search"
  /\ \E r, again \in Reads, dirt \in SUBSET (0 .. SearchCount - 1) :
       LET words == IF r = "data" THEN {w \in kernel.magics : w < SearchLimit}
                                         \cup {w \in dirt : w >= SearchLimit}
                    ELSE dirt
       IN  /\ stale' = (stale \/ "negative" \in {r, again})
           /\ \/ /\ Succeeds(r) /\ Succeeds(again)
                 /\ \E w \in FirstWord(words) :
                      /\ again = "negative" \/ w \in kernel.headers
                      /\ found' = w /\ Goes("elf") /\ Allocs("header")
              \/ /\ GivesUp /\ found' = found
                 /\ kheap' \in {kheap, kheap \cup {"buffer"}, kheap \cup {"header"}}
  /\ UNCHANGED <<kernel, header, memory, rmcode, cmdline, mbi>>

(* mboot1_prepare_mem to mboot1_prepare_fbi: three of them fill something. *)
InfoParts == {"memory", "bootdev", "cmdline"}

(* mboot1_prepare_kernel reads the ELF header, to address 0 when there is  *)
(* no memory, and does no more with it; mboot1_prepare_info makes the      *)
(* structure, but nothing jumps.                                           *)
MbPrepare ==
  /\ kpc = "elf"
  /\ \E r \in Reads, ehdr \in {{}, {"ehdr"}} :
       /\ stale' = (stale \/ r = "negative")
       /\ \/ /\ Succeeds(r) /\ Goes("prepared")
             /\ kheap' = kheap \cup ehdr \cup {"mbinfo"} /\ mbi' = InfoParts
          \/ /\ GivesUp /\ UNCHANGED mbi
             /\ kheap' = IF Succeeds(r) THEN kheap \cup ehdr ELSE kheap
  /\ UNCHANGED <<kernel, header, memory, rmcode, cmdline, found>>

KernelStep == LxOpen \/ LxHeader \/ LxSetup \/ LxCode \/ LxInitrd \/ MbOpen \/ MbSearch \/ MbPrepare
==============================================================================
