--------------------------------- MODULE Vfs ---------------------------------
(***************************************************************************)
(* The tree of nodes of src/fs/fs.c: vfs_init, the devices that bdev_init  *)
(* and cdev_init add, the mount of the boot disk by arch_init_bootdevice   *)
(* and path lookup, which adds what the file systems find on the disk.     *)
(*                                                                         *)
(* A node is known by its index: nodes are never freed, and the children   *)
(* of a node are in the order they were added.  Names are model values;    *)
(* PrefixOf says which comparison with strncmp succeeds.  A directory on a *)
(* disk is a sequence of sectors, each a sequence of records, the rest of  *)
(* the sector being zero.  Every allocation and every read may fail.       *)
(***************************************************************************)
EXTENDS Integers, Sequences, FiniteSets

CONSTANTS
  Disks,         (* the disks of a boot: functions from names to images     *)
  Cdevs,         (* the names of character devices                          *)
  FsOrder,       (* the list of file systems, the last registered first     *)
  Paths,         (* the paths that are looked up                            *)
  PrefixOf,      (* <<a, b>>: a is a prefix of b                            *)
  PerSector,     (* the records that fill a sector                          *)
  MaxOpens       (* bound: the lookups                                      *)

(* Of an image: the file system, whether the signature of the boot loader  *)
(* is there, its directories and its files.                                *)
VARIABLES
  phase,         (* how far the boot has come                               *)
  disks,         (* the disks plugged in                                    *)
  tree,          (* the nodes: [name, parent, kind, obj]                    *)
  bdevs,         (* the list of block devices                               *)
  sbs,           (* history: the superblocks not freed                      *)
  filling,       (* the superblock that fill_super works on, or NoSuper     *)
  tried,         (* the file systems that filled no superblock              *)
  bootdisk,      (* the disk found by arch_init_bootdevice                  *)
  at,            (* lookup_request->node, 0 when there is no lookup         *)
  rest,          (* the parts of the path that strtok has not returned      *)
  result,        (* what vfs_open returned: a node, 0 or Wild               *)
  path,          (* history: the path of the lookup                         *)
  faulty,        (* history: memory or the disk failed during the lookup    *)
  strays,        (* history: nodes made of what was not a record            *)
  lost,          (* whether the walk of a directory goes on for ever        *)
  opens

supers == <<sbs, filling, tried>>
asking == <<bootdisk, at, rest, result, path, faulty, strays, lost, opens>>
vvars  == <<phase, disks, tree, bdevs, supers, asking>>

Wild == -1              \* the address of a node that is none
NoSuper == <<"none", "none">>
Root == 1
RootInode == "root"

(* fs_node_alloc and tree_node_insert                                      *)
Node(name, parent, kind, obj) ==
  [name |-> name, parent |-> parent, kind |-> kind, obj |-> obj]

(* The node of a record, on no tree yet: isofs takes place and length from *)
(* the record, ext2fs from the inode the record names.                     *)
IsoDent(name, obj) == Node(name, 0, "isofs", obj)
ExtDent(name, obj) == Node(name, 0, "ext2fs", obj)
Dent(fs, name, obj) == IF fs = "isofs" THEN IsoDent(name, obj) ELSE ExtDent(name, obj)

VfsInit ==
  /\ phase = "rootfs" /\ disks \in Disks /\ tree = <<>> /\ bdevs = <<>>
  /\ sbs = {} /\ filling = NoSuper /\ tried = 0
  /\ bootdisk = "none" /\ at = 0 /\ rest = <<>> /\ result = 0 /\ path = <<>> /\ faulty = FALSE
  /\ strays = {} /\ lost = FALSE /\ opens = 0

Smallest(s) == CHOOSE x \in s : \A y \in s : x <= y

Children(n) == {i \in DOMAIN tree : tree[i].parent = n}

(* vfs_lookup_tree_fast: the first child with the name, or 0.              *)
Cached(n, name) ==
  LET hits == {i \in Children(n) : tree[i].name = name}
  IN  IF hits = {} THEN 0 ELSE Smallest(hits)

DevNode == Cached(Root, "dev")

-----------------------------------------------------------------------------
(* vfs_init and the devices *)

(* Any error before the menu ends the boot.                                *)
Halt == phase' = "halt" /\ UNCHANGED <<disks, tree, bdevs, supers, asking>>

(* superblock_alloc, by vfs_init_rootfs, vfs_mount_node or vfs_mount_bdev, *)
(* which give up when there is no memory.                                  *)
AllocSuper(fs, name) ==
  \/ /\ filling' = <<fs, name>> /\ sbs' = sbs \cup {<<fs, name>>}
     /\ UNCHANGED <<phase, disks, tree, bdevs, tried, asking>>
  \/ Halt

(* fill_super makes a node, which is inserted and keeps the superblock.    *)
FillMakes(to, parent, node) ==
  /\ phase' = to /\ filling' = NoSuper
  /\ tree' = Append(tree, [node EXCEPT !.parent = parent])
  /\ UNCHANGED <<disks, bdevs, sbs, tried, asking>>

(* Mutant: the superblock is not freed.                                    *)
SuperKept  == sbs
SuperFreed == sbs \ {filling}

(* fill_super returns NULL.                                                *)
FillFails(to) ==
  /\ phase' = to /\ filling' = NoSuper /\ sbs' = SuperFreed /\ tried' = tried + 1
  /\ UNCHANGED <<disks, tree, bdevs, asking>>

(* vfs_init_rootfs and vfs_mount_type: ramfs_fill_super may have no memory.*)
MountRamfs(from, to, name, parent) ==
  /\ phase = from
  /\ \/ filling = NoSuper /\ AllocSuper("ramfs", name)
     \/ /\ filling # NoSuper
        /\ FillMakes(to, parent, Node(name, 0, "ramfs", name)) \/ FillFails("halt")

InitRootfs == MountRamfs("rootfs", "devfs", "[root]", 0)
InitDevfs  == MountRamfs("devfs", "drivers", "dev", Root)

(* cdev_init: the node first, then the list.                               *)
CdevInit ==
  /\ phase = "drivers"
  /\ \E c \in Cdevs :
       /\ Cached(DevNode, c) = 0
       /\ tree' = Append(tree, Node(c, DevNode, "cdev", c))
  /\ UNCHANGED <<phase, disks, bdevs, supers, asking>>

DiskNode(d) == Node(d, DevNode, "bdev", d)

(* bdev_init, or nothing when there is no memory for the node.             *)
BdevInit ==
  /\ phase = "drivers"
  /\ \E d \in DOMAIN disks :
       /\ \A i \in DOMAIN bdevs : bdevs[i] # d
       /\ bdevs' = <<d>> \o bdevs
       /\ tree' = Append(tree, DiskNode(d))
  /\ UNCHANGED <<phase, disks, supers, asking>>

-----------------------------------------------------------------------------
(* arch_init_bootdevice, vfs_mount and vfs_mount_bdev *)

BlockNodes == {i \in Children(DevNode) : tree[i].kind = "bdev"}

(* arch_init_boot_verify, of a disk that can be read.                      *)
Verified(i) == disks[tree[i].obj].boot

(* The first disk that passes the test; one with the signature may fail    *)
(* it for want of memory or because of a read.                             *)
FindBootDisk ==
  /\ phase = "drivers"
  /\ \/ \E i \in BlockNodes :
          Verified(i) /\ phase' = "mount" /\ bootdisk' = tree[i].obj
     \/ phase' = "halt" /\ bootdisk' = bootdisk
  /\ UNCHANGED <<disks, tree, bdevs, supers, at, rest, result, path, faulty, strays,
                 lost, opens>>

(* Each file system looks for its mark on the disk and makes the node of   *)
(* its root; ramfs refuses a disk.                                         *)
IsoFillSuper(d) == IF disks[d].fs = "isofs" THEN {IsoDent("root", RootInode)} ELSE {}
ExtFillSuper(d) == IF disks[d].fs = "ext2fs" THEN {ExtDent("root", RootInode)} ELSE {}
FillSuper(fs, d) ==
  CASE fs = "isofs"  -> IsoFillSuper(d)
    [] fs = "ext2fs" -> ExtFillSuper(d)
    [] OTHER         -> {}

(* The file systems are tried in order, each with a superblock of its own: *)
(* one that is not on the disk, has no memory or cannot read fails.        *)
MountRoot ==
  /\ phase = "mount"
  /\ \/ /\ filling = NoSuper /\ tried < Len(FsOrder)
        /\ AllocSuper(FsOrder[tried + 1], "root")
     \/ filling = NoSuper /\ tried = Len(FsOrder) /\ Halt
     \/ /\ filling # NoSuper
        /\ \/ \E node \in FillSuper(filling[1], bootdisk) : FillMakes("run", Root, node)
           \/ FillFails("mount")

-----------------------------------------------------------------------------
(* The directories of the file systems *)

Image == disks[bootdisk]

(* The records of the first k sectors.                                     *)
Records(dir) ==
  LET upto[k \in 0 .. Len(dir)] == IF k = 0 THEN <<>> ELSE upto[k - 1] \o dir[k]
  IN  upto

AllRecords(dir) == Records(dir)[Len(dir)]

(* What a disk holds: files with a length, and directories whose records   *)
(* have names of their own and a place; a name is a prefix of itself.      *)
WellFormedDisk(disk) ==
  /\ \A f \in DOMAIN disk.files : disk.files[f].length \in Nat
  /\ \A ino \in DOMAIN disk.dirs :
       LET all == AllRecords(disk.dirs[ino])
       IN  /\ disk.dirs[ino] \in Seq(Seq([name : STRING, obj : STRING]))
           /\ \A k \in DOMAIN all : /\ all[k].obj # "none"
                                    /\ <<all[k].name, all[k].name>> \in PrefixOf
           /\ \A j, k \in DOMAIN all : all[j].name = all[k].name => j = k

(* No disk has the name of a character device.                             *)
ASSUME DisksAssumption ==
  /\ Paths \subseteq Seq(STRING)
  /\ \A plugged \in Disks : /\ DOMAIN plugged \cap Cdevs = {}
                            /\ \A d \in DOMAIN plugged : WellFormedDisk(plugged[d])

Padded(dir) == {k \in DOMAIN dir : Len(dir[k]) < PerSector}

(* Mutant: the names are compared to their end.                            *)
SameName(rec, name) == <<name, rec.name>> \in PrefixOf

(* strncmp with the length of the name in the record.                      *)
Matches(rec, name) == <<rec.name, name>> \in PrefixOf

Found(seen, name) ==
  LET hits == {k \in DOMAIN seen : Matches(seen[k], name)}
  IN  IF hits = {} THEN {} ELSE {seen[Smallest(hits)]}

(* isofs_finddir: the records up to the first zero.  From there the walk   *)
(* goes on at the wrong place, unless there is one sector only, which uses *)
(* up the size; a record lowers nothing.                                   *)
IsoSeen(dir) == Records(dir)[IF Padded(dir) = {} THEN Len(dir) ELSE Smallest(Padded(dir))]
IsoAlwaysLost(dir) == TRUE      \* mutant: a sector does not lower the size
IsoLost(dir) == ~ (Len(dir) = 1 /\ Padded(dir) # {})

(* ext2fs_finddir: all records.  The size left is not counted, so a name   *)
(* that is not there is searched behind the buffer.                        *)
ExtSeen(dir) == AllRecords(dir)

Nothing == [name |-> "none", obj |-> "none"]
Behind  == [name |-> "none", obj |-> "stray"]
Endless == [name |-> "none", obj |-> "endless"]

(* What a walk over memory may come to: a zero or an end of the size, what *)
(* passes for a record, or neither.                                        *)
Strayed == {Nothing, Behind, Endless}

(* What vfs_finddir may return for a node: a record, or what comes of the  *)
(* memory behind the directory.  A file is walked like a directory.        *)
FindDir(n, name) ==
  CASE tree[n].kind \notin {"isofs", "ext2fs"} -> {Nothing}
    [] OTHER ->
         IF tree[n].obj \notin DOMAIN Image.dirs THEN Strayed
         ELSE LET dir  == Image.dirs[tree[n].obj]
                  seen == IF tree[n].kind = "isofs" THEN IsoSeen(dir) ELSE ExtSeen(dir)
              IN  IF Found(seen, name) # {} THEN Found(seen, name)
                  ELSE IF tree[n].kind = "isofs" /\ ~ IsoLost(dir) THEN {Nothing}
                  ELSE Strayed

-----------------------------------------------------------------------------
(* vfs_lookup_tree *)

Looking == at # 0

Open(p) ==
  /\ phase = "run" /\ ~ Looking /\ opens < MaxOpens
  /\ at' = Root /\ rest' = p /\ path' = p /\ opens' = opens + 1
  /\ result' = 0 /\ faulty' = FALSE
  /\ UNCHANGED <<phase, disks, tree, bdevs, supers, bootdisk, strays, lost>>

Part == Head(rest)

(* The lookup goes on at a node of the tree.                               *)
StepTo(n) ==
  /\ at' = n /\ rest' = Tail(rest)
  /\ UNCHANGED <<phase, disks, tree, bdevs, supers, bootdisk, result, path, faulty,
                 strays, lost, opens>>

EndWith(n, failed) ==
  /\ at' = 0 /\ rest' = <<>> /\ result' = n /\ faulty' = (faulty \/ failed)
  /\ UNCHANGED <<phase, disks, tree, bdevs, supers, bootdisk, path, strays, lost,
                 opens>>

(* vfs_lookup_tree_node; the root has no parent, and the address taken     *)
(* from it is not NULL.                                                    *)
Dots ==
  /\ Looking /\ rest # <<>>
  /\ \/ Part = "." /\ StepTo(at)
     \/ Part = ".." /\ at # Root /\ StepTo(tree[at].parent)
     \/ Part = ".." /\ at = Root /\ EndWith(Wild, FALSE)

Fast ==
  /\ Looking /\ rest # <<>> /\ Part \notin {".", ".."}
  /\ Cached(at, Part) # 0
  /\ StepTo(Cached(at, Part))

Inserted(node) == [node EXCEPT !.parent = at]

(* vfs_lookup_tree_slow; without memory, or when the directory cannot be   *)
(* read, it finds nothing.                                                 *)
Slow ==
  /\ Looking /\ rest # <<>> /\ Part \notin {".", ".."} /\ Cached(at, Part) = 0
  /\ \/ \E r \in FindDir(at, Part) \ {Nothing, Endless} :
          /\ tree' = Append(tree, Inserted(Dent(tree[at].kind, Part, r.obj)))
          /\ strays' = IF r = Behind THEN strays \cup {Len(tree) + 1} ELSE strays
          /\ at' = Len(tree) + 1 /\ rest' = Tail(rest)
          /\ UNCHANGED <<phase, disks, bdevs, supers, bootdisk, result, path, faulty,
                         lost, opens>>
     \/ Nothing \in FindDir(at, Part) /\ EndWith(0, FALSE)
     \/ Nothing \notin FindDir(at, Part) /\ EndWith(0, TRUE)
     \/ /\ Endless \in FindDir(at, Part) /\ lost' = TRUE
        /\ UNCHANGED <<phase, disks, tree, bdevs, supers, bootdisk, at, rest, result, path,
                       faulty, strays, opens>>

LookupEnds == Looking /\ rest = <<>> /\ EndWith(at, FALSE)

Boot == InitRootfs \/ InitDevfs \/ CdevInit \/ BdevInit \/ FindBootDisk \/ MountRoot
Lookup == ~ lost /\ (Dots \/ Fast \/ Slow \/ LookupEnds)
==============================================================================
