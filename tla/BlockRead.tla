------------------------------ MODULE BlockRead ------------------------------
(***************************************************************************)
(* A read from a file: file_seek and file_read of src/fs/file.c, then      *)
(* superblock_read_offset of src/fs/super.c for isofs, or                  *)
(* ext2fs_inode_read with the map of blocks of src/fs/ext2fs/ext2fs.c.     *)
(* A step reads one block, which may fail.                                 *)
(*                                                                         *)
(* Data is known by its position in the file: a read is right when it      *)
(* delivers the positions it was asked for.                                *)
(***************************************************************************)
EXTENDS Integers, Sequences

CONSTANTS
  BlockSize,     (* sb->block_size                                          *)
  Direct,        (* EXT2_DLP_NUM                                            *)
  PerBlock,      (* block_size / EXT2_MLP_LEN                               *)
  DiskBlocks,    (* blocks from the start of the file to the end of a disk  *)
  Width,         (* 2^32: subtraction of uint32_t                           *)
  Sizes,         (* the bytes callers ask for                               *)
  Seeks,         (* the offsets callers pass to file_seek                   *)
  Offsets        (* bound: the offsets a file may reach                     *)

ASSUME BlockAssumption ==
  /\ {BlockSize, Direct, PerBlock, DiskBlocks, Width} \subseteq Nat \ {0}
  /\ \A s \in {Sizes, Seeks, Offsets} : s \subseteq 0 .. Width - 1
  /\ BlockSize <= Width /\ Direct + PerBlock + PerBlock * PerBlock <= Width

VARIABLES
  rpc,
  file,          (* the open file: [fs, length, holes]                      *)
  offset,        (* file->offset                                            *)
  length,        (* the bytes left to read                                  *)
  blkoff,        (* the block of the read                                   *)
  blknum,        (* the blocks the loop is to read                          *)
  got,           (* history: the positions copied to the buffer             *)
  asked,         (* history: the bytes asked of the file system             *)
  fault,         (* history: a block could not be read                      *)
  rret           (* what file_read returned                                 *)

rvars == <<rpc, file, offset, length, blkoff, blknum, got, asked, fault, rret>>

NoFile == [fs |-> "none", length |-> 0, holes |-> {}]
Stray  == -1           \* data from somewhere else
EFAULT == 14
ENOMEM == 12

ReadInit ==
  /\ rpc = "closed" /\ file = NoFile /\ offset = 0 /\ length = 0
  /\ blkoff = 0 /\ blknum = 0 /\ got = <<>> /\ asked = 0 /\ fault = FALSE
  /\ rret = 0

(* file_open and file_close                                                *)
OpenFile(f) ==
  /\ rpc = "closed" /\ rpc' = "open"
  /\ file' = f /\ offset' = 0
  /\ UNCHANGED <<length, blkoff, blknum, got, asked, fault, rret>>

CloseFile ==
  /\ rpc = "open" /\ rpc' = "closed"
  /\ file' = NoFile /\ offset' = 0 /\ length' = 0 /\ blkoff' = 0 /\ blknum' = 0
  /\ got' = <<>> /\ asked' = 0 /\ fault' = FALSE /\ rret' = 0

(* What file_seek makes of an offset with FILE_SET, FILE_CUR and FILE_END; *)
(* it does not look at the length.                                         *)
Positions(s) == {s, (offset + s) % Width, (file.length - s) % Width}

Seek ==
  /\ rpc = "open"
  /\ \E s \in Seeks : offset' \in Positions(s) \cap Offsets
  /\ got' = <<>> /\ asked' = 0 /\ rret' = 0 /\ fault' = FALSE
  /\ UNCHANGED <<rpc, file, length, blkoff, blknum>>

-----------------------------------------------------------------------------
(* The map of blocks *)

Power[k \in 0 .. 3] == IF k = 0 THEN 1 ELSE PerBlock * Power[k - 1]

(* The first block behind the indirect pointer of a level.                 *)
Base(level) ==
  CASE level = 0 -> Direct
    [] level = 1 -> Direct + PerBlock
    [] level = 2 -> Direct + PerBlock + Power[2]

(* indirect_block: one index for each level, down to the data block.       *)
Index(c, level) == (c \div Power[level]) % PerBlock

IndirectBlock(c, depth) ==
  LET part(level) == IF level <= depth THEN Index(c, level) * Power[level] ELSE 0
  IN  Base(depth) + part(2) + part(1) + part(0)

(* Mutant: blkmlp stays 1.                                                 *)
SpanKept(level) == 1

(* blkmlp: in the third round it is multiplied by its square.              *)
Span(level) == CASE level = 0 -> 1 [] level = 1 -> PerBlock [] level = 2 -> Power[3]

Left[level \in 0 .. 2] ==
  [c \in Nat |->
     ((IF level = 0 THEN c - (Direct - 1) ELSE Left[level - 1][c]) - Span(level))
     % Width]

(* ext2fs_inode_block, as the block of the file whose data it names.       *)
InodeBlock(c) ==
  LET fits == {level \in 0 .. 2 : Left[level][c] \div Span(level) < PerBlock}
  IN  IF c < Direct THEN c
      ELSE IF fits = {} THEN Stray
      ELSE LET level == CHOOSE l \in fits : \A o \in fits : l <= o
           IN  IndirectBlock(Left[level][c], level)

-----------------------------------------------------------------------------
(* Reading *)

Lower(a, b) == IF a < b THEN a ELSE b

(* The length file_read passes on: beyond the end the difference wraps.    *)
Allowed(n) == Lower(n, (file.length - offset) % Width)

(* superblock_blockno; a length of zero wraps.                             *)
BlockNo(mod, len) ==
  (((mod + len - 1) % (Width * Width)) \div BlockSize) - (mod \div BlockSize) + 1

(* The same in ext2fs_inode_read, without the offset in the first block.   *)
InodeBlocks(len) == ((len - 1) % Width) \div BlockSize + 1

Read ==
  /\ rpc = "open" /\ rpc' = "block"
  /\ \E n \in Sizes : asked' = Allowed(n) /\ length' = Allowed(n)
  /\ blkoff' = 0 /\ got' = <<>> /\ fault' = FALSE
  /\ blknum' = IF file.fs = "isofs" THEN BlockNo(offset % BlockSize, length')
               ELSE InodeBlocks(length')
  /\ UNCHANGED <<file, offset, rret>>

(* There is no memory for the buffer of a block.                           *)
ReadNoMemory ==
  /\ rpc = "open" /\ rpc' = "open"
  /\ \E n \in Sizes : asked' = Allowed(n)
  /\ rret' = IF file.fs = "isofs" THEN - EFAULT ELSE - ENOMEM
  /\ got' = <<>> /\ fault' = TRUE
  /\ UNCHANGED <<file, offset, length, blkoff, blknum>>

(* The block of the file the next step reads, and what it copies of it.    *)
First == IF blkoff = 0 THEN offset % BlockSize ELSE 0
Block == offset \div BlockSize + blkoff

(* Mutant: a whole block is copied.                                        *)
ChunkWhole == BlockSize - First
Chunk == Lower(BlockSize - First, length)

Data(b) == [i \in 1 .. Chunk |-> IF b = Stray THEN Stray
                                 ELSE b * BlockSize + First + i - 1]

More == blkoff < blknum /\ (file.fs = "ext2fs" => length > 0)

Return(value) ==
  /\ rpc' = "open" /\ rret' = value
  /\ length' = 0 /\ blkoff' = 0 /\ blknum' = 0
  /\ UNCHANGED <<file, offset, asked>>

Source == IF file.fs = "isofs" THEN Block ELSE InodeBlock(Block)

ReadBlock ==
  /\ rpc = "block" /\ More
  /\ file.fs = "isofs" => Block < DiskBlocks
  /\ file.fs = "ext2fs" => Source \notin file.holes
  /\ got' = got \o Data(Source)
  /\ length' = length - Chunk
  /\ blkoff' = blkoff + 1
  /\ UNCHANGED <<rpc, file, offset, blknum, asked, fault, rret>>

(* The device fails, or there is no memory for a map; ext2fs also stops at *)
(* a hole.                                                                 *)
BlockFails ==
  /\ rpc = "block" /\ More
  /\ fault' = (fault \/ ~ (file.fs = "ext2fs" /\ Source \in file.holes))
  /\ Return(IF file.fs = "isofs" THEN - EFAULT ELSE asked - length)
  /\ UNCHANGED got

ReadEnds ==
  /\ rpc = "block" /\ ~ More
  /\ Return(IF file.fs = "isofs" THEN asked ELSE asked - length)
  /\ UNCHANGED <<got, fault>>

ReadStep == ReadBlock \/ BlockFails \/ ReadEnds
==============================================================================
