# A TLA+ development for elfboot

elfboot is a BIOS boot loader for 32 bit x86: it finds memory and devices, loads
modules and a configuration from a CD or disk, shows a menu and boots a kernel.
This directory holds TLA+ models of its parts, the TLC configurations that check
them and proofs about every modelled part that TLAPS checks. Paths
below are relative to the repository's `src/`, where the C sources live; `PROJECT.json`
names for every definition the lines it stands for.

## 1. Inventory

elfboot runs on one processor and starts no thread. The only concurrency is that of
the program and two interrupt handlers, timer (1 kHz) and keyboard. They are entered
through interrupt gates, so that no interrupt comes into a handler. No code disables
interrupts around a critical section. Devices (AHCI, IDE) work on their own but are
polled. Nothing is persisted: a crash ends the boot, and there is no recovery.

| Component | State | Operations | What makes it correct |
|---|---|---|---|
| Boot time memory: `mm/memblock.c`, `arch/x86/memory.c` | a sorted array of at most 8 regions and its count | add the e820 map, reserve, allocate | regions sorted and apart; just the memory added and not taken is in them; blocks never overlap |
| Page allocator: `mm/page_alloc.c` | a `struct page` per page (flag, order, compound head), a list and a count for each order | take over what memblock left, `alloc_pages`, `free_page` | no page in two blocks, none lost; counts exact; failure only for want of a run |
| Slab allocator: `mm/slub.c` | caches with lists of full, partial and free slabs, counters, a free list and use count per slab | `bmalloc`, `bfree`, creation of caches | an object has one owner; a slab is on one list of one cache or with the page allocator |
| Interrupts: `core/interrupt.c`, `list.h`, `arch/x86/{idt,pic}.c` | a list of handlers per vector, IDT, PIC masks | register, unregister, dispatch | an interrupt between any two stores finds a whole list |
| Keyboard: `drivers/input/kbd.c`, `core/input.c` | modifier bits, a buffer of 127 keys and its index | key interrupt, `bgetch`, `bgetch_noblock` | keys are read once, in the order typed; a waiting reader wakes; no modifier sticks |
| Boot loader: `core/loader.c` | entries of `elfboot.cfg`, choice, timeout, attributes of the menu, the screen | parse, draw, count down, choose, boot | the entry highlighted is the one booted, and only if confirmed or counted down |
| VFS: `fs/fs.c`, `file.c`, `super.c`, `tree.h` | a tree of nodes, file systems, superblocks | mount, lookup, open, read, seek | a path leads to the node mounted or found; reads return the bytes asked for |
| File systems: `fs/isofs`, `fs/ext2fs`, `fs/ramfs` | what the nodes of a device hold | `fill_super`, `finddir`, `read` | directory walks end and find just the entry named; the block map is right |
| Devices: `core/bdev.c`, `core/cdev.c`, `drivers/char/tty.c` | lists of devices, the cursor | register, read, write, scroll | the cursor stays on the screen |
| AHCI: `drivers/ahci/ahci.c` | command slots, command tables | prepare, send, wait | a table lives as long as the device may use it; every command ends |
| IDE: `drivers/ide/ide.c` | the registers of a channel | send, poll, identify | an error of the device reaches the caller; a failed probe leaves the device usable |
| PCI: `core/pci.c` | devices, drivers, the buses seen | enumerate, match | each function found once, each matched once |
| Modules: `core/module.c`, `core/symbol.c`, `lib/elf` | loaded sections, relocations, the symbol table | load, resolve, relocate, initialise | each failure gives back what was taken; relocated words point at their symbols |
| Kernel loaders: `loaders/lxboot.c`, `mboot1.c` | the place of the parts of an image | load, jump | parts do not overlap |
| Boot sequence: `core/main.c`, `arch/x86/setup.c` | - | a list of calls, stopped at the first error | the order of the initialisations |
| Helpers: strings, printf, checksums; firmware calls, real mode, assembly; build tools | - | - | not state machines of this code |

How they interact: `arch/x86/setup.c` fills memblock; `page_alloc_init` takes the page
map from `memblock_alloc` and then every region left (`page_map_free_bootmem`);
`bmalloc` takes its slabs from `alloc_pages` and finds the slab of an object through
`compound_head`; everything else calls `bmalloc`. The timer interrupt runs
`loader_timeout_callback`, which itself calls `bmalloc` and writes to the console; the
keyboard interrupt fills the buffer that the menu polls. The VFS calls file systems,
they call the drivers, all on the stack of the caller.

What is hard to test here, in the order of `PROJECT.json` "hazards": stale fields of
`struct page` that a later merge reads as current; the merges and removals of memblock
around the array's end; a slab's move between lists; a key that arrives between the
load of the index and the last byte of `memcpy`; links the compiler may store in
another order than written; an interrupt that changes what the program redraws from;
a device that never answers; partial failures while a module is loaded; walks over a
directory that end at nothing.

## 2. The modules

Order: memory first (everything rests on it), then the interrupts and what they share
with the program, the menu, devices, file systems, and the boot as a whole.

| Part | Modules | Checked by run |
|---|---|---|
| Boot time memory | `MemBlock`, `MemBlockProps`, `MemBlockProofs` | `memblock` |
| Page allocator | `PageAlloc`, `PageAllocProps`; the promise `PageSpec`; `PageAllocInv`, `PageAllocProofs` | `pages`, `pages_merge_in_use` |
| Slab allocator | `Slab`, `SlabProofs` | `slab` |
| Interrupts, keyboard | `HandlerList`, `DriverProofs`, `KeyInput`, `KeyInputProofs` | `handler_list`, `key_input` |
| Parser and menu | `BootConfig`, `BootMenu`, `BootMenuProps`, composed by `Loader`; `LoaderProofs` | `loader` |
| PCI and AHCI | `Pci`, `Ahci`, composed by `Sata`; the promise `DiskSpec`; `SataProofs` | `sata` |
| IDE | `Ide`; the promise `DiskSpec`; `DriverProofs` | `ide` |
| VFS and file systems | `Vfs`, `BlockRead`, composed by `Files`; `BootProofs` | `files` |
| Modules, kernels, boot | `ModuleLoad`, `KernelLoad`, composed by `BootModules`; `BootProofs` | `boot` |
| Terminal | `Tty`; `LoaderProofs` | `tty` |

A module `MCx` with its `.cfg` gives the constants of `x` their values.

Abstract specifications: `PageSpec` (a set of pages that are taken in aligned runs and
given back), implemented by `PageAlloc`; `DiskSpec` (a read that returns 0 has filled the
buffer), implemented by `Ahci` and `Ide`.

What is left of the plan:

- `Heap`: `Slab` over `PageAlloc` in place of the pool, to see which slab `bfree` takes
  an object for after `get_free_pages` has overwritten a compound head;
- `BootModules` over `Files`: the reads of modules and kernels through `BlockRead` in place
  of outcomes.

## 3. The models

### Boot time memory: `MemBlock`, `MemBlockProps`

`regions` and `cnt` are `type->regions` and `type->cnt`; what lies beyond `cnt` is kept,
for `memmove` leaves stale elements there and the code later reads one. Each iteration of
the loops of `memblock_add_region` (`AddStep`, `AddEnd`) and `memblock_del_region`
(`DelSkip`, `DelSplit`, `DelWhole`, `DelFront`, `DelTail`, `DelEnd`) is a step; the boot
goes through the phases "detect" (`e820_memblock_setup`), "reserve" and "alloc", in the
order of `arch/x86/setup.c`. `Fuse` is `memblock_fusion_region` as written: it never
lowers `cnt`, and its second half works on an index whose region has moved.
`lost` records memory that `memblock_alloc` removed and then did not return: `dbeg`
starts as `MEMBLOCK_INVLD`, is compared with 0 and is thus never set, so that a removal
which ends outside a region is reported as a failure.

Because of the first of these the order and the accounting of regions (`SortedApart`,
`MemoryAccounted`, `AllocFresh`, `LostAtRegionEnd`) hold only of maps whose entries do not
touch (`Separate`); `MapCovered` and the end of every call hold of all. The runs check
them as `RegionsSound`, `PagesAccounted` and `RemovalsEnd`. The model counts
addresses without wrapping and stops where the array would overflow.

### Page allocator: `PageAlloc`, `PageAllocProps`, `PageSpec`

A page is its frame number; `struct page` is spread over `free_flag`, `order` and
`compound_head`, and a list is a set, as no property depends on which free block of an
order is taken first. One action is one iteration: `NextRegion`, `FreeChunk`, `BootDone`
(`page_map_free_bootmem`), `AllocTake`, `SplitStep`, `AllocDone` (`get_free_pages`,
`free_page_fix`), `FreePages`, `MergeStep`, `MergeDone` (`free_page`,
`merge_free_page`, `merge_pages`). The flags of the page map are arbitrary at first,
because memblock does not clear it.

The code merges a buddy when its flag is set and does not compare orders. `wrecked`
becomes true when a merge takes a page that is no free block of that order, and the
model stops there: the properties speak of the behaviour before. That this
does happen is the finding of `pages_merge_in_use`. `OrderTellsBuddy`, a part of `BlocksComplete`, says that comparing
the order would be enough for every page the allocator was given.

`PageSpec` is the promise: pages are donated, taken in aligned runs, and released. With
`free` mapped to the pages of all free blocks and of the one being split, and `owned` to
the blocks held, each step of `PageAlloc` is a step of `PageSpec` or a stutter
(`KeepsPromise`); a wrong merge is the step `Break`.

### Slab allocator: `Slab`

The boot makes the caches: `CreateCache` takes the structure of each cache of `bmalloc`
from the cache of caches (`bmalloc_init`), `CacheCreate`, `CacheName` and `CacheUndo` are
`bmem_cache_create` as `vfs_init` calls it. After that a call of `bmalloc` or `bfree` is one
step: the interrupt that calls `bmalloc` runs only while the program does not (checked as
part of `DrawsInPlace` in `Loader`). `AllocFromSlab`, `AllocGrow` and `AllocFail` are the
ways through `bmem_cache_alloc`, `Free` is `bfree` with `__bfree`. Blocks come from a pool,
as `PageSpec` promises, with any number of blocks in it at first. Sizes are numbers of
`Bits` bits, and `Fls`, `Log2`, `RoundUpPow2`, `CacheOrder` and `BmallocIndex` are computed
as in the code: rounding up a size above half the word leaves the word, and such a
request gets the shortest object there is (`ObjectsFit` allows just this).

### Interrupt handlers: `HandlerList`

Every store of `__list_add` and `__list_del` is a step, and an interrupt walks the list
between any two of them. `ordered` is the compiler's choice: with FALSE the stores of a
call may take any order, since the links are not volatile and there is no barrier.
`InterruptCallsAll` holds of the order written, by the store `prev->next = new` coming
last; with another order only `LinksAgree` (between calls) holds. `HandlersFound` is both.

### Keyboard: `KeyInput`

The handler of the keyboard is one step (`PressedKey`, `PressedModifier`, `Released`),
the timer another (`Tick`); each access of `bgetch` and `__bgetch` to the buffer or its
index, and each byte `memcpy` moves, is a step of the program. Two choices are the
compiler's: `hoisted`, whether `bgetch` loads the index once for its loop, and `reuses`,
whether `__bgetch` takes it from a register. `torn` becomes true when a key comes into
one of the windows `Tearing` names, and the model stops there: these are the keys the
code may lose or read twice. `KeysKept` shows that there is no other
such window, in particular none between two calls or before the first load. `KeyWakes`
holds where the index is loaded again (`~ hoisted`).

### Boot menu: `BootMenu`, `BootMenuProps`

From the copy of the options to the entry booted: `loader_menu_show_entry` is four steps
(`EntryAlloc`, `EntryReset`, `EntryWrite`, `EntryFree`), the interrupt (`Tick`) comes
between any two while its handler is registered. `reentered` records whether it came
into the heap or between moving the cursor and writing. Of the screen the model keeps
the place and the font of each entry and the seconds shown.

### Parser and loader: `BootConfig`, `Loader`

`BootConfig` is `loader_parse_entries`, a line per step: `Title`, `Option`, `Close`,
`Skip`, and `Comment`, which does not move on. Each allocation may fail. A line is its
kind, an entry the number of its first line, so that a property can compare what the
parser made with the text. An entry left open is freed by the next title and its links,
which are null, are followed (`nulled`); without a name on that title `boot_entry` still
points to it, and the model stops at its next use (`UseFreed`). `Loader` is `loader_init`: it runs
the parser, then the menu over the same `boot_number` and `boot_choice`.
`ParsedAsWritten` compares the list with a reading of the text as a whole (`Blocks`,
`AsWritten`) and says where an entry left open does harm; `BootsChosen` follows an entry
from its block to the highlight, the confirmation and the boot; `LoaderEnds` says which
line the parser never leaves.

### PCI and AHCI: `Pci`, `Ahci`, `Sata`

`Pci` is the scan: `frames` is the stack of calls of `pci_probe_bus`, a step probes one
function. A machine says which functions there are, so that buses reached through two
bridges and bridges that lead back are cases. `Ahci` is the driver: `PortReady`,
`Prepare`, `Issue`, `Idle`, `Destroy`, `Sense` and the steps that fill in a disk, beside the
controller (`Complete`, `Fail`), which works on the commands of `ci` whenever it likes and
reads the command table at that moment. A port may be silent. `heap` holds the live
blocks, so that a table freed too early, twice or never is seen. The error bit of a port
stays set once it is, because the driver never clears it. `Sata` runs the scan, hands the
controller it lists to the driver and lets the layers above read.

`TablesSafe` says that no table is freed while its slot can run and that none leaks,
except where the identification of an ATAPI drive frees the newer table of its slot a
second time. `KeepsDisk` shows that reads from ATAPI drives implement `DiskSpec`;
`ahci_sata_read`, which returns 0 and reads nothing, is the step `Lie`.

### IDE: `Ide`

`ide_send_command` in the steps between two polls: `Send`, `Packet`, `Chunk`, `DataEnds` with
their failing counterparts. Every poll may return any status, also "busy" when the count
of reads runs out, and the device chooses how many bytes it offers. The status tested at
the end is one the code does not read again; the model keeps that. `ide_init_ata` reads 512
bytes of identification whatever the last status was (`ide.c:414`), also behind a packet probe
that failed: `InitAta` does so, and `unasked` keeps the units it did that to. `SizesFromDevice`
says what is still true: an ATAPI disk has given its capacity in whole (`capacity` counts its
bytes; the test `cmd.bufsize != buflen` is `Whole`), and the identification of an ATA device that
offers one is the one taken. Of a unit that offers none nothing is claimed.

### VFS and file systems: `Vfs`, `BlockRead`, `Files`

`tree` is the tree of nodes, which is also the cache of lookups. `InitRootfs` to
`MountRoot` are the boot up to the mount of the disk with the signature. A mount is a step for
each of `superblock_alloc` (`AllocSuper`), a `fill_super` that makes a node (`FillMakes`) and one
that fails and frees the superblock (`FillFails`); `vfs_mount_bdev` repeats them for each file
system (`tried`). `sbs` holds the superblocks allocated, and `TreeSound` says that those left are
of the file systems in the tree and of the one being tried. `Dots`, `Fast`,
`Slow` and `LookupEnds` are a part of a path each. Directories are sequences of sectors
of records, names are model values with a relation for "is a prefix of", since the file
systems compare with the length of the name on the disk. `FindDir` gives what the code may
return, including what lies behind the buffer: neither walk counts what it passes, so that one
which does not find its name may end at a zero, take what looks like a record, or not end
(`Endless`, after which `lost` holds and no step of the lookup is left). `CallsEnd` says that
lookups and reads end but for walks that leave their directory (`WalksOff`), and
`WalkBounded` which walks do not: those to a name that is there, in isofs in a directory of one
sector, and in isofs any in a directory of one padded sector.
`LookupAgrees` compares every lookup with `Meaning`, a reading of the path that knows no
tree and no cache, and states when they agree: no name of the directory is a prefix of
the one asked for, directories of isofs fit a sector, and nothing was taken from
behind a directory.

`BlockRead` is `file_seek` and `file_read` with the loops of `super.c` and of ext2 inodes, a
block per step. A byte is its position in the file, so that a read is right when it
delivers the positions asked for. Lengths wrap at `Width`. The block map of ext2 is that
of the code; `ReadsInPlace` holds up to the blocks of the third level, which the code looks
for in the wrong place (`Mapped`).

### Modules, kernels and the boot: `ModuleLoad`, `KernelLoad`, `BootModules`

`ModuleLoad` reads the symbol map and loads an object: `AllocModule`, `AllocBuffer`,
`LoadSections`, `ResolveSymbol`, `Patch`, `CallInit`, `InitReturns`, each of which may fail
into `Unwind`. `ReadMap` is the read of the map: `main.c:31` takes a negative result for success
(`misread`) and then parses what the buffer held, and nobody writes the zero at which `strtok`
would stop, so that lines of what memory holds behind the map may follow (`leftover`, any of
`Leftovers`). `LinkedBeforeRun` therefore speaks of the text parsed (`MapText`): modules are
linked against it and nothing else. A module that uses an address from outside the map
(`Foreign`) does anything; the model stops when it is called. `Outcomes` is what the init functions of
the shipped modules return and have registered by then. An address is what it points to, a module the number of its load, and `refs`
are the lists that point into modules. `garbage` holds the loads for which a variable that
was never set (`module.c:171`) was not 0. `KernelLoad` is `lxboot_boot` and `mboot1_boot`:
memory is a function from cells to the part of the image that is there, a read gives data,
0 or a negative number, and `stale` records that the code took a failed read for
success. `BootModules` is `elfboot_main`, a stage per call, up to the jump.

### Terminal: `Tty`

A character is a step (`PutChar`): scroll if the cursor is below the frame, store, advance.
Beside `frame` there is `page`, the rows without end that the writer has in mind, of which
the frame shows `Height` from row `top` on. `MaxScroll` bounds `top`.

## 4. The runs

| Run | Instance | What it shows |
|---|---|---|
| `pages` | 8 pages, orders 0-3, requests of order 0-2, three regions of which one lies beyond the limit | no overlap (`NoOverlap`), no loss and heads that tell their order (`BlocksComplete`), exact counts, failure only for want of a run, frees that keep other heads and end (`FreesEnd`), the promise of `PageSpec` |
| `pages_merge_in_use` (violation) | one block of 4 pages | `free_page` merges a block in use |
| `memblock` | 2 bytes per page, memory from page 1 to 8; three separate regions in all orders with entries below and above, and all maps of up to 3 of 4 overlapping entries; 3 reservations, 3 allocations | regions sorted, apart and covering the map; every page accounted for and none given out twice; removals end and lose memory only at the end of a region |
| `slab` | pages of 16 bytes, caches of 4, 2, 1 and 1 objects, 0 to 4 blocks, sizes at every edge | owners, lists and counters agree, objects hold what was asked for, nothing is held back |
| `key_input` | buffer of 3, two shifts, altgr, caps lock, two letters, backspace; 5 presses or releases | keys are read in order outside the windows, no modifier sticks, a key wakes the reader |
| `handler_list` | 3 handlers, 2 vectors | an interrupt in the middle of a registration or removal |
| `loader` | all texts of up to 4 lines of 5 kinds (but four closing lines) and longer ones of all kinds, up to 3 entries, a count of 2 seconds of 2 ticks, allocations that fail | the entries stored, the choice, the highlight, the count and the interrupt |
| `sata` | six machines of 3 buses, 2 slots and 2 functions; 2 ports of every kind with 2 slots, 2 reads | each function listed once, tables and disks live as long as they are used, reads keep `DiskSpec`, everything ends |
| `ide` | 2 units, sectors of 2 and blocks of 4 bytes, reads of up to 2 blocks | the sizes of a disk come from the device, probes leave a usable disk, reads keep `DiskSpec`, everything ends |
| `files` | an ext2 disk, and an iso disk beside a disk without signature; 8 paths, 2 lookups; blocks of 2 bytes, 1 direct and 3 indirect entries, reads at, across and behind every edge | lookups agree with the disk, the tree stays a tree, superblocks of failed mounts are given back, reads deliver the right bytes and say how many, calls end but for walks that leave their directory |
| `boot` | a map with a name twice, behind it or in its place nothing or two lines of which one names a symbol of the map; discs with good, unlinkable, unreadable and missing modules, kernels of both protocols | modules are linked before they run, nothing points into freed memory, failures give back, the kernel jumped to is whole, the boot ends |
| `tty` | 2 columns, 2 rows, strings that wrap and end at the edge, four rows of scrolling | nothing behind the frame, the frame shows the last rows written |

Why these bounds: eight pages with a hole have blocks of each order, chunks cut by
alignment and by the rest, splits over two orders and merges that stop at a hole, at
a block in use and at the largest order. Three entries are the fewest of which a new one
can come before, between and after others, and two removals can meet in a region. Slabs of
four, two and one object are empty, partial and full and pass each boundary; four blocks
make six caches compete, and two slabs a cache (`MaxSlabs`) are one given back and taken
anew. A buffer of three can be empty, full and in between while `memcpy` moves two bytes;
five keys fill it and take one back. A list of three has a first, a middle and a last
handler. Three menu entries give both ends and a middle; two ticks a second show ticks with
and without a redraw. Four lines hold an entry closed, left open, without a name or memory,
and a use after each. Two ports show that the error of one does not touch the other; two
slots that a slot is reused; two reads that an error bit stays. Three buses hold a chain
of bridges and one that leads back. Two lookups are one that fills the tree and one that
uses it. One direct block and three entries give a file all levels of the map within
eight blocks. A frame of two by two has a first and a last column and row.

Deadlock is checked for `handler_list` and `tty`. The other systems do stop: at a bound on
calls or keys, where a history variable says the promise has ended, when the menu has
booted an entry or the boot has ended. The blocks of `slab` are interchangeable, so the run
uses them as a symmetry set; it checks no liveness.

Fairness. `MemBlock` and `PageAlloc` assume that a call in progress goes on (`WF` of the loop
steps): the processor does nothing else, and interrupt handlers return. The same is
assumed of the lookups and reads of `Files`, the commands of `Ide`, and of `BootModules`,
which is one thread that never waits for anybody (`WF` of the whole step; the wait of
`kbd_init` is a step that does not move on). `Sata` adds that a device that is not silent
answers in the end. `KeyInput` adds that the timer keeps interrupting a halted processor,
as the PIT is programmed for a periodic 1 kHz, and `Loader` that parser, program and timer
go on. Nothing is assumed of keys or of callers. `Slab`, `HandlerList` and `Tty` claim no
liveness.

## 5. Findings

`pages_merge_in_use` is the run that expects a violation: at `page_alloc.c:205` a buddy that
was split, and is half in use, is merged.

Further disagreements of the code with its comments, met while modelling. Each is a
definition that TLC refutes: a `.cfg` that names it as the only property, with the constants
in the last column, gives the behaviour.

| Definition | Where | What the code does | Constants |
|---|---|---|---|
| `PageAllocProps!HeadTellsOrder` | `page_alloc.c:149` | an allocation overwrites the compound heads of its buddy's pages, by which `bfree` finds a slab; the comment at 95-100 says the head tells the order pages were allocated with | those of `MCPageAllocMerge.cfg` |
| `MemBlockProps!ReservedStaysOut` | `memblock.c:78` | after a merge the last region is in the array twice; reserving cuts one copy | `Tables <- AdjoiningTables` |
| `MemBlockProps!NeighboursMerged` | `memblock.c:91` | the merge with the second neighbour looks at the wrong element | `Tables <- AdjoiningTables` |
| `Slab!TotalSlabsExact` | `slub.c:224` | `total_slabs`, printed as "tot. slabs", never falls | those of `MCSlab.cfg` |
| `BootMenuProps!MenuAttrKept` | `loader.c:346` | the interrupt changes attributes that the comment at 555-557 calls untouched; with the shipped logo redrawing is in place only thanks to that | `Configs <- OneEntry` |
| `Files!CorrectAmount` | `ext2fs.c:157` | a read that starts inside a block drops the block it ends in | those of `MCFiles.cfg` |
| `Files!NextSectorFound` | `isofs.c:178` | the pointer to the next sector of a directory advances by records, not bytes, so nothing behind the first padding is found | `Disks <- MCLargeDisks` |
| `BootModules!Drains` | `kbd.c:182` | "Drain keyboard buffer before continuing" waits for an empty buffer without reading it | those of `MCBootModules.cfg` |

What the properties of the passing runs leave out on purpose is named in them: the
windows of `Tearing`, texts with an entry left open, `ahci_sata_read`, the second free of an
ATAPI identification, walks that leave their directory, the third level of the block map, a
failed read of a kernel or an object taken for success, the text behind the map.

## 6. Proofs

TLAPS checks the theorems below for every value of the constants that satisfies the named
assumptions of the modules; TLC evaluates those assumptions on every run. Each invariant was
first checked by TLC on the instance of the run. No installed prover can instantiate an induction
principle, so where an argument goes step by step through orders, list nodes or powers of two,
`LeastNat` (a set of naturals that is not empty has a least element) gives a
minimal counterexample instead.

**Boot time memory** (`MemBlockProofs`). Every page size, limits, set of e820 maps, reservations
and sizes, and every length of the array except 0: `BootMemoryInductive` (`Spec => []IInv`),
`RegionsAreSound` (`RegionsSound`), `PagesAreAccounted` (`PagesAccounted`) and `LostOnlyAtEnd`
(`Spec => LostAtRegionEnd`). `IInv` has two halves. `Covered` holds for every map, overlapping or
not: while it is read, the regions and the part of the entry still to be added hold the memory
so far; `Fuses` proves that `memblock_fusion_region` keeps the memory of the regions, although it
does not lower the count and looks one element past them. `SepInv` is about maps whose entries
are separate (`Separate`, the hypothesis of the properties themselves): each region is that of an
entry, with room between them, so that an addition goes in whole (`AddPlace`, `AddEndReads`) and a
fusion does nothing. A removal then works on what is left: the regions before `i` lie below the
pages to remove, those from `i` on do not reach back to them (`Removing`), the regions hold the
rest with some of the pages to remove gone (`Kept`), and the block found for `memblock_alloc` lies
in one region until that is cut, after which none starts at its end (`Found`); there is a lemma
for each way to cut a region. A `return` gives the pages to the caller (`ReturnKeeps`).

**Page allocator** (`PageAllocProofs`). Every number of pages and orders,
every list of regions and every set of requested orders with: block sizes double from 1, a
block of any order fits the map a whole number of times, counters wrap beyond the number of pages, regions
sorted and apart, requests below the largest order.

| Theorem | States |
|---|---|
| `TypeCorrect`, `Inductive` | `Spec => []TypeOK`, `Spec => []IInv` |
| `BlocksApart` | `Spec => []NoOverlap` |
| `CountsExact` | `Spec => []FreeCountExact` |
| `ImplementsPromise` | `Spec => KeepsPromise`: the refinement of `PageSpec` |
| `CompleteInductive`, `NothingLost` | `Spec => []Complete`, `Spec => []BlocksComplete` |
| `HeadsKept` | `Spec => FreeKeepsHeads` |
| `BuddiesAreJoined` | `RegionsApart` gives `Spec => []Joined` |
| `NullMeansNoRun` | `RegionsApart` gives `Spec => []NullOnlyWhenNoRun` |

`NoOverlap` is not inductive: a split needs the block in hand to be aligned, a merge needs
the order of the free block and its alignment to know that the buddy is next to it, and
taking over bootmem needs that everything handed out lies below `addr`. `IInv`
(`PageAllocInv`) adds these: blocks are aligned runs inside the map and carry their
order (`FreeOK`, `HeldOK`, `SplitOK`, `MergeOK`), and the boot works upwards (`BootOK`).
After a wrong merge only `TypeOK` is left of it, hence `~ wrecked => Clean`. There is one
lemma per action. The arithmetic of buddies (the two halves of an aligned
block are aligned, the buddy of a block is the other half and lies within the map) comes
first in the module. `CountsExact` carries its own invariant, that the counts are the
cardinalities of finite sets below the word, from which no wrap follows.

The refinement has a lemma per action on the set of free pages (`TakeKeeps`, `SplitKeeps`,
`MergeKeeps` leave it, `DoneTakes`, `ReleaseGives`, `ChunkGives` change it by a run) and a
lemma that the step is one of `PageSpec` or a stutter. `NothingLost` needs a sum of the pages
the boot has passed (`AccountOK`) and what the flag says of a page (`FlagsOK`). For
`NullMeansNoRun` the invariant is that buddies are joined between the calls (`BuddiesJoined`)
and, at boot, that the chunk before `addr` could not have been larger (`Greedy`); then a run of
free pages with no block of its order or above leads down to a pair of free buddies, which
cannot be. It assumes `RegionsApart`, no two regions adjoin: adjoining ones are handed over as
separate chunks that nothing joins, and memblock may leave two neighbours unmerged
(`NeighboursMerged` in section 5).

**Slab allocator** (`SlabProofs`). Every finite set of blocks, page size, word and table of
doubling sizes. The powers of two are a constant function `Pow2` with its recurrence as
the assumption, because the provers know nothing of `2^k` with a variable exponent.
`HeapInductive` (`Spec => []IInv`), `OneOwner` (`ObjectHasOneOwner`), `NothingSpare`
(`NoneSpare`), `SlabsAreSound` (`SlabsSound`). `IInv` says for each cache and each slab which
list it is on, that the use count is the number of objects off the free list and that
the counters are cardinalities; `StepInv`, `TakeInv`, `FreeInv` and `GrowInv` treat moves between
lists once, and the actions cite them. `ObjectsFit` rests on `fls` and `round_up_pow2`
(`FlsIs`, `RoundsUp`, `IndexFacts`): the index found is that of the smallest size that holds the
request.

**Interrupt handlers** (`DriverProofs`). Every finite set of vectors and handlers, and
stores in program order or in any order: `ListsInductive` (`Spec => []IInv`) and
`InterruptsFindHandlers` (`Spec => []HandlersFound`). In the middle of `list_add` and `list_del` the links are
no ring; the invariant is about `VNext`, `VPrev` and `VReg`, links and lists as they will be with
the stores still to do done. A store leaves those as they are, in any order, so the
proof of a store is that, plus, for stores in order, that the forward links lead through the
registered handlers at each of them. That the walk of the interrupt ends and sees the list
(`WalkList`) is a minimal counterexample over its steps.

**Keyboard** (`KeyInputProofs`). Every buffer, layout and number of keys: `InputInductive`
(`Spec => []IInv`) and `KeysAreKept` (`Spec => []KeysKept`). The buffer alone does not say
what is unread while `memcpy` moves it: `Place` gives the place of the b-th pending key
before, in and after the move, `Knows` what the program still knows of the index it read. Both
hold until a key comes into a window of `Tearing`.

**IDE driver** (`DriverProofs`, the same module as the handlers, with which it shares nothing). Every number of units, sector and block size:
`ProbesInductive`, `DisksLeftAlone` (`ProbesLeaveDisk`), `SizesKnown` (`SizesFromDevice`), and, with
`EvenBlocks`, `ReadsInductive` and `ImplementsDisk` (`Spec => KeepsDisk`, the refinement of
`DiskSpec`). The invariant of the probes follows the capacity through the request sense
(`CapacityInv`): while the capacity command runs, its bytes counted are those of the unit, and
once it has succeeded they stay while the sense runs. The invariant of a read is that the bytes counted are the bytes stored and even,
that a command that succeeded has stored what was asked for, and that the request sense behind it
keeps its result. `EvenBlocks` says that a block is whole words: the data register gives words,
and `bdev_init` takes powers of two (`bdev.c:83`).

**PCI and AHCI** (`SataProofs`). Every number of buses, slots and functions, except 0, and every
machine on them; every number of ports, command slots (except 0) and reads. The scan and the
driver share no variable, so each has its own invariant.

`FoundOnce` (`AllFoundOnce`) is about a recursion over a graph that may have loops. `ScanInv` says
of each call of `pci_probe_bus` in progress that all it has passed of its bus is found (`Fits`),
and of each bus a bridge has led to that it is being scanned by one of the calls or all found
(`AllCovered`), where `Done` counts a function that memory ran out for as found; the list has
as many entries as addresses. At the end the buses that are all found are closed under
`Behind`, and `ReachLeast` says that `Reachable` is the least such set: the steps of `Reached` are
solved by minimal counterexamples, and `NumBuses` of them reach a fixed point by counting.

`DriverInv` has one part per question: at most the command that is polled runs
(`OneCommand`), its slot has the newest table of the port, which lives (`Current`), no other
table lives but the first one of an ATAPI drive (`LiveTables`), ports not yet probed are
untouched (`NotYet`), the blocks a disk under identification will point to live
(`DiskParts`), and a read whose command succeeded has been filled, across the request sense
behind it (`Reading`). From these follow `TablesStaySafe` (`TablesSafe`), `DisksStayLive`
(`RegisteredLive`) and `DriverKeepsDisk` (`Spec => KeepsDisk`, the refinement of `DiskSpec`), where
only `Complete`, `ReadDone` and the two reads are steps of `DiskSpec`.

**Modules and the boot** (`BootProofs`). Every symbol map, set of discs and modules, every set
of kernels and the addresses they are copied to, and every step that may fail. What is assumed
is the types of the constants, that the sections, symbols and relocations of an object refer to
each other as a linker writes them (`WellFormed`: the code checks none of it), and that each
protocol has a loader (`LoadersAssumption`). Three invariants build on each other.

`HeapInv` is about memory: what the load in progress has taken at its step (`Taken`), that a
load before it has all or has given it back (`Over`), and that only a module that has come to the
end of `module_open` is in a list (`RefsOwned`). `CalledIsLive` (`PointersLive`) and
`FailedLoadsGiveBack` (`GivesBack`) follow, in which `Unwind` and the return of `init_module`
are the steps to look at.

`LinkInv` is about the link. The first symbol of a name in the list is the first line of
that name in the text parsed, hidden ones left out (`SymbolsInv`), so that `symbol_lookup_name`
gives what the property asks of that text, which does not change once it is read. While sections are walked, the relocations applied are those that the
sections passed ask for, with the values resolved before, unless a type is unknown or `ret` was
not 0 by chance. `RunsLinked` (`LinkedBeforeRun`) reads this off where `init_module` is called.

`HandInv` says what is in memory at each step of a loader (`CodeInMemory`, `InitrdInMemory`,
where the initrd has not been copied over the kernel) and that the search has found the first
magic word (`HeaderFound`), as long as no failed read was taken for success. `JumpsToKernel`
is `HandedOver`.

**VFS and file systems** (`BootProofs`, the module of the boot that reads from them, with which it
shares no variable). Every set of disks, devices and paths, every size of blocks and maps. What
is assumed is what a disk holds (`DisksAssumption`: lengths are numbers, the names of a directory
differ, no disk is named like a character device) and that the blocks a map reaches
before its third level can be counted in a word (`BlockAssumption`).

`TreeInv` says what is in the tree at each stage of the boot (`TreeStages`), from where the disk
comes (`BootDisk`), and that a node is added only where `vfs_lookup_tree_fast` has found none: so no
two children of a node have one name (`OneNodePerName`), however often a path is looked up. Its part
`SupersLive` says which superblocks live: those of the nodes file systems were mounted at, and the one
being tried. There is a lemma for each step of a mount (`AllocTree`, `MakesNode`, `FailsTree`); the one to
look at is that the superblock given back is not that of a file system mounted before.
`TreeIsSound` is `TreeSound`.

`ReadInv` says where the loop of a read stands: block, bytes left and bytes copied belong together,
and the rounds left are enough for the bytes left, which needs that the length has not wrapped.
`InodeBlockIs` is the map of ext2 up to its second indirect level: the block it names is the block
asked for. From these follow `BytesInPlace` (`ReadsInPlace`) and `AnswersAreTrue`
(`ReadAnswersTrue`).

`LookInv` compares the tree with the disk. A node behind the first two is a device, the root of the
disk or a node below it (`Kinds`), and one below it is the record the disk has under its name
(`RightNodes`): a node that was made of a wrong record would be found again by every later lookup.
While a lookup goes on, the nodes from `at` up to the root are those that the
parts taken so far lead to (`OnPath`), which is what makes `..` right. That the recursions `After` and
`Records` have solutions is shown by a smallest number for which they had none (`AfterIs`,
`RecordsAre`). `LookupsAgree` is `LookupAgrees`; what its conditions leave out are the directories
`NextSectorFound` and the hazards at `isofs.c` and `ext2fs.c` are about.

**Parser, menu and countdown** (`LoaderProofs`). Every set of texts, timeout, ticks per second and
width of the screen, any allocation that fails, any keys and any interrupts. What is assumed is that
the arrays are as long as there are braces in a text (`ConfigsAssumption`) and, for the
columns, that the shipped logo is four characters wider than the control string (`ShippedLogo`: 52
columns in `elfboot.tmg`, 48 at `loader.c:58`).

The properties of the parser speak of the whole text, so `ParserInv` says them of the part already
read: the open block, if there is one, is that of `boot_entry` unless it was freed
(`EntryIs`, `ListedSoFar`), the blocks closed so far are those listed, in their order, and the
open one has the options seen so far (`KnownSoFar`). `Knows` says for each option which line is
its last; `KnowsNext` is the step that reads an option, `KnowsWritten` that at the brace this is
what the text says. At the end the list is a strictly increasing sequence through all blocks,
so that a place in it is the ordinal number of a block (`CountIncreasing`). `EntriesRead` is
`ParsedAsWritten`; that no entry is freed holds because a title while a named block is
open is what `AllClosed` excludes.

`MenuInv` makes three properties inductive that hold only between drawings. `DrawInv`
and `ColumnInv` say of the screen what is right but for the entries still to be drawn
(`Pending`), through every step of a redraw. `CountInv` says that the handler is registered only
while the program waits for the first key, so that the interrupt comes neither into the heap nor between
`ioctl` and `write`, and that a count on the screen is cleared from where `menu_attr` says it is.
`KeyInv` says what the program knows of the keys, and that without one the selection is the
first entry. `ChosenBoots` (`BootsChosen`) joins the two halves, with the copy of the list to
`boot_options` (`OptionsInv`); `RedrawnInPlace` is `DrawsInPlace`. The theorems are about `LoaderSpec`,
which `FairSpec` of the run implies.

**Terminal** (`LoaderProofs`, with the loader that draws on it; they share no variable). Every size of the frame, every set of strings, colours, attributes and
logos (cursor positions inside the frame or on the row below it, `AttrAssumption`):
`TtyInductive`, `CursorInFrame`, `NeverOutside` (`InFrame`), `FrameShowsText` (`ShowsText`).
`ShowsText` is not inductive: when the frame scrolls, its new last row is blank, and the page
has to be empty there. `TtyInv` adds `BelowEmpty` (the page is empty from the row below the
frame on), `BufferBounded` (the rows scrolled away plus what is left of the string stay within
`MaxScroll`, which bounds the page) and `TtyFunctions` (frame and page are functions on all units
and rows, as updates need). The arithmetic is that a unit of the frame determines its row
and column (`UnitInjective`, `UnitInFrame`, `UnitBelow`); there is a lemma per action, and
`PutInv` splits a character into scrolling (`ScrollShows`, `TargetShows`), storing (`PutPlace`)
and advancing.

Only model-checked: liveness (`CallsReturn` in `FreesEnd` and in `RemovalsEnd`, `KeyWakes`, `LoaderEnds`,
`DriverReturns`, `CallsEnd`, `BootEnds`), which is out of the prover's reach. Every invariant of
a passing run is a theorem.

## 7. Not modelled

Firmware and processor (BIOS calls, real mode, mode switches), formatting and string helpers,
checksums, and the build tools: they keep no state of this code, or are not part of it.

Of the modelled components: `memblock.kernmem` (the same code on another array) and
`total_size` (never read); addresses that wrap at 4 GiB and an array of more than 8 regions in
`memblock.c`; PIC masks and the IDT (set once); the control key (its bit is never read) and
`bgets` (no caller); the layout of superblocks, group descriptors and inodes on a disk, the inode that a failed
`ext2fs_inode_find` does not free; the numbers in the fields of the real mode header and of the
multiboot information; whether the heap reaches into the fixed addresses kernels are copied to;
writes, which no driver implements; dumps, which only print.

Hazards without a property carry a note in `PROJECT.json`.
