-------------------------------- MODULE Files --------------------------------
(***************************************************************************)
(* Files as the rest of the boot loader sees them: the tree of Vfs, and    *)
(* reads from the files that lookups find on the boot disk.                *)
(***************************************************************************)
EXTENDS Vfs, BlockRead

fvars == <<vvars, rvars>>

FilesInit == VfsInit /\ ReadInit

BootStep   == Boot /\ UNCHANGED rvars
StartOpen  == rpc = "closed" /\ (\E p \in Paths : Open(p)) /\ UNCHANGED rvars
LookupStep == Lookup /\ UNCHANGED rvars

(* file_open of what was found.                                            *)
FileOpen ==
  /\ phase = "run" /\ ~ Looking /\ result > 0
  /\ tree[result].kind \in {"isofs", "ext2fs"}
  /\ tree[result].obj \in DOMAIN Image.files
  /\ OpenFile([fs |-> tree[result].kind,
               length |-> Image.files[tree[result].obj].length,
               holes |-> Image.files[tree[result].obj].holes])
  /\ UNCHANGED vvars

FileStep == (Seek \/ Read \/ ReadNoMemory \/ CloseFile) /\ UNCHANGED vvars
DiskStep == ReadStep /\ UNCHANGED vvars

FilesNext == BootStep \/ StartOpen \/ LookupStep \/ FileOpen \/ FileStep \/ DiskStep

(* The code runs; nothing forces the callers to open, seek or read.        *)
FilesSpec == FilesInit /\ [][FilesNext]_fvars /\ WF_fvars(LookupStep \/ DiskStep)

-----------------------------------------------------------------------------
(* What a path means on a disk beside some devices, without the tree of    *)
(* the loader: the nodes from the root to the one it names, the last first.*)

Devices == {<<tree[i].kind, tree[i].name>> : i \in Children(DevNode)}

Below(disk, devices, top, name) ==
  CASE top = <<"ramfs", "[root]">> ->
         {x \in {<<"ramfs", "dev">>, <<disk.fs, RootInode>>} :
            name = IF x[1] = "ramfs" THEN "dev" ELSE "root"}
    [] top = <<"ramfs", "dev">> -> {d \in devices : d[2] = name}
    [] top[1] = disk.fs /\ top[2] \in DOMAIN disk.dirs ->
         LET all == AllRecords(disk.dirs[top[2]])
         IN  {<<disk.fs, all[k].obj>> : k \in {j \in DOMAIN all : all[j].name = name}}
    [] OTHER -> {}

Down(disk, devices, stack, name) ==
  CASE stack = <<>> -> <<>>
    [] stack # <<>> /\ name = "." -> stack
    [] stack # <<>> /\ name = ".." -> Tail(stack)
    [] OTHER -> LET below == Below(disk, devices, Head(stack), name)
                IN  IF below = {} THEN <<>>
                    ELSE <<CHOOSE x \in below : TRUE>> \o stack

After(disk, devices, p) ==
  LET after[k \in 0 .. Len(p)] ==
        IF k = 0 THEN << <<"ramfs", "[root]">> >> ELSE Down(disk, devices, after[k - 1], p[k])
  IN  after

Meaning(p) == After(Image, Devices, p)[Len(p)]

-----------------------------------------------------------------------------
(* Properties *)

Ran == phase = "run" /\ ~ Looking /\ opens > 0 /\ rpc = "closed"

(* A name of the disk that begins with another name of its directory.      *)
ShadowedName(name) ==
  \E ino \in DOMAIN Image.dirs :
    LET all == AllRecords(Image.dirs[ino])
    IN  \E j \in DOMAIN all : all[j].name # name /\ <<all[j].name, name>> \in PrefixOf

Shadowed(p) == \E k \in DOMAIN p : ShadowedName(p[k])

OneSector == \A ino \in DOMAIN Image.dirs : Len(Image.dirs[ino]) = 1

Agrees ==
  LET m == Meaning(path)
  IN  /\ result = 0 => m = <<>>
      /\ result > 0 => m # <<>> /\ <<tree[result].kind, tree[result].obj>> = Head(m)
      /\ result = Wild => m = <<>>

(* vfs_open finds what the disk says, from the tree or from the directory, *)
(* in any order of lookups - as long as no other name of a directory is a  *)
(* prefix of the one looked for, directories of isofs have one sector, and *)
(* nothing was taken from behind a directory.                              *)
LookupAgrees ==
  (Ran /\ ~ faulty /\ strays = {} /\ ~ Shadowed(path)
     /\ (Image.fs = "isofs" => OneSector)) => Agrees

(* isofs_finddir goes on with the next sector of a directory where the one *)
(* before is padded: what is there is found.                               *)
NextSectorFound ==
  (Ran /\ ~ faulty /\ strays = {} /\ ~ Shadowed(path)) => Agrees

(* The nodes are one tree however often they are looked up: a parent is    *)
(* older than its children, and no directory of a disk has two nodes with  *)
(* one name, so that a node found once is found again.                     *)
OneNodePerName ==
  /\ \A i \in DOMAIN tree : tree[i].parent < i /\ (tree[i].parent = 0 <=> i = Root)
  /\ \A i, k \in DOMAIN tree :
       <<tree[i].parent, tree[i].name>> = <<tree[k].parent, tree[k].name>> => i = k

Mounts == {i \in DOMAIN tree : tree[i].parent \in {0, Root} /\ tree[i].kind # "cdev"}

(* The root comes from a disk with the signature and the file system that  *)
(* is on it.  Superblocks stay for the file systems in the tree and for    *)
(* the one that is tried: every one tried in vain has given its own back,  *)
(* also where the boot ends.                                               *)
RootIsBootDisk ==
  /\ phase = "run" => /\ Image.boot
                      /\ tree[Cached(Root, "root")].kind = Image.fs
                      /\ Cached(DevNode, bootdisk) # 0
  /\ sbs = {<<tree[i].kind, tree[i].name>> : i \in Mounts}
             \cup (IF filling = NoSuper THEN {} ELSE {filling})

(* The end of what ext2fs_inode_block maps: the blocks of the third level  *)
(* are found in the wrong place.                                           *)
Mapped == IF file.fs = "ext2fs" THEN Base(2) * BlockSize ELSE DiskBlocks * BlockSize

(* What a read delivers is what is in the file at its offset, in order and *)
(* without a gap, whatever fails on the way.                               *)
ReadsInPlace ==
  \A i \in DOMAIN got : offset + i <= Mapped => got[i] = offset + i - 1

(* A read that does not fail ends with all bytes, but for ext2fs, which    *)
(* drops the block a read that starts inside a block ends in.              *)
ReadComplete ==
  (rpc = "open" /\ ~ fault /\ file.holes = {} /\ asked > 0) =>
    \/ Len(got) = asked /\ rret = asked
    \/ /\ file.fs = "ext2fs" /\ rret = Len(got)
       /\ asked - Len(got) < BlockSize

(* What file_read returns is the number of bytes it copied, or negative    *)
(* after a fault: the callers, which take only 0 for an error, go on with  *)
(* a buffer that is not filled.                                            *)
CountIsTrue ==
  rpc = "open" => rret = Len(got) \/ (rret < 0 /\ fault)

Busy == Looking \/ rpc = "block"

(* The walk over a directory ends with its only sector, which is padded,   *)
(* or at the name; no other walk knows where the directory does.           *)
WalkBounded(dir, name) ==
  \/ Image.fs = "isofs" /\ Len(dir) = 1 /\ Padded(dir) # {}
  \/ /\ \E k \in DOMAIN AllRecords(dir) : AllRecords(dir)[k].name = name
     /\ Image.fs = "isofs" => Len(dir) = 1

WalksOff ==
  /\ Looking /\ rest # <<>> /\ tree[at].kind = Image.fs
  /\ tree[at].obj \in DOMAIN Image.dirs => ~ WalkBounded(Image.dirs[tree[at].obj], Part)

(* Every read ends, the loops over blocks that count from a wrapped length *)
(* included, and every lookup - but the one that leaves a directory: the   *)
(* walks of isofs_finddir and ext2fs_finddir do not count what they pass.  *)
CallsEnd == Busy ~> (~ Busy \/ WalksOff)

(* Every file system reads "the correct amount of bytes from the file".    *)
CorrectAmount ==
  (rpc = "open" /\ ~ fault /\ file.holes = {} /\ rret # 0) => Len(got) = asked

(* The tree of nodes is a tree, finds again what it found once, and has    *)
(* the boot disk at its root; file systems tried in vain have given their  *)
(* superblock back (vfs_mount, vfs_mount_bdev, vfs_lookup_tree_slow).      *)
TreeSound == OneNodePerName /\ RootIsBootDisk

(* The callers of file_read can trust its result: it counts the bytes that *)
(* were copied, and these are all bytes unless something failed.           *)
ReadAnswersTrue == ReadComplete /\ CountIsTrue
==============================================================================
