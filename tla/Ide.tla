--------------------------------- MODULE Ide ---------------------------------
(***************************************************************************)
(* The driver of src/drivers/ide/ide.c against devices that answer a poll  *)
(* with any status.  ide_poll_status gives up after ATA_IO_TIMEOUT reads,  *)
(* so a status may say that the device is still busy.                      *)
(*                                                                         *)
(* Of a status the model keeps the bits the driver looks at.  Sizes are in *)
(* bytes, and the data register gives words of two.                        *)
(***************************************************************************)
EXTENDS Integers

CONSTANTS
  Units,        (* the units of both channels: 0 .. n                       *)
  Sector,       (* 512: what an ATA device gives at once                    *)
  Block,        (* bdev->block_size                                         *)
  Aux,          (* the size of the answers to capacity and sense: even      *)
  MaxBlocks,    (* bound: the blocks of a read                              *)
  MaxReads      (* bound: the reads of the layers above                     *)

ASSUME IdeAssumption ==
  /\ Units \subseteq Nat
  /\ Sector \in Nat \ {0} /\ Sector % 2 = 0
  /\ Block \in Nat \ {0}
  /\ {Aux, MaxBlocks, MaxReads} \subseteq Nat /\ Aux % 2 = 0

Bits == {"BSY", "DRQ", "ERR", "DF"}

VARIABLES
  disk,         (* disk[u]: whether there is a device                       *)
  pc, unit,
  status,       (* what the last poll returned                              *)
  kind,         (* capacity or read                                         *)
  packet,       (* whether the command is an ATAPI packet                   *)
  sensing,      (* whether it is the request sense behind a command         *)
  ret, first,   (* the success of the command, and of the one before it     *)
  bufsize, nbread,
  private,      (* private[u]: garbage, null, live or freed                 *)
  bdevs,        (* bdevs[u]: none, or the operations registered: ata, atapi *)
  reads, answer,
  want, got,    (* history: the bytes of the read asked for and stored      *)
  badfree,      (* history: units for which bfree got an address nobody set *)
  offers,       (* history: units that answer the identification with data  *)
  unasked,      (* history: units whose identification was taken unoffered  *)
  capacity      (* history: the bytes of the capacity each unit has given   *)

probe  == <<disk, unit, private, bdevs>>
cmd    == <<kind, packet, sensing, ret, first, bufsize, nbread>>
client == <<reads, answer, want, got>>
seen   == <<offers, unasked, capacity>>
ivars  == <<probe, pc, status, cmd, client, badfree, seen>>

IdeInit ==
  /\ disk \in [Units -> BOOLEAN]
  /\ pc = "probe" /\ unit = 0
  /\ status = {} /\ kind = "capacity" /\ packet = FALSE /\ sensing = FALSE
  /\ ret = TRUE /\ first = TRUE /\ bufsize = 0 /\ nbread = 0
  /\ private = [u \in Units |-> "garbage"]
  /\ bdevs = [u \in Units |-> "none"]
  /\ reads = 0 /\ answer = "none" /\ want = 0 /\ got = 0
  /\ badfree = {} /\ offers = {} /\ unasked = {} /\ capacity = [u \in Units |-> 0]

Goto(from, to) == pc = from /\ pc' = to

(* status & ATA_SR_POLL                                                    *)
Polled == status \cap {"DRQ", "ERR", "DF"}

-----------------------------------------------------------------------------
(* ide_send_command *)

(* The command is written, with all registers, and the device polled.      *)
Send ==
  /\ Goto("send", IF packet THEN "packet" ELSE "data")
  /\ status' \in SUBSET Bits
  /\ nbread' = 0
  /\ UNCHANGED <<probe, kind, packet, sensing, ret, first, bufsize, client,
                 badfree, seen>>

Ready == Polled = {"DRQ"}

Packet ==
  /\ Ready /\ Goto("packet", "data")
  /\ status' \in SUBSET Bits
  /\ UNCHANGED <<probe, cmd, client, badfree, seen>>

Return(success) ==
  /\ pc' = "sent"
  /\ ret' = success
  /\ UNCHANGED <<probe, status, kind, packet, sensing, first, bufsize, nbread,
                 client, badfree, seen>>

(* The device asks for no packet, or gives another reason.                 *)
PacketFails == pc = "packet" /\ Return(FALSE)

(* Mutant: a count of zero is accepted.                                    *)
CountUnchecked(cnt, rem) == cnt <= rem
CountOK(cnt, rem) == cnt > 0 /\ cnt <= rem /\ (cnt % 2 = 0 \/ cnt = rem)

(* ide_read_io: words of two bytes.                                        *)
Words(cnt) == 2 * (cnt \div 2)

Smaller(a, b) == IF a < b THEN a ELSE b

(* A chunk of the size the device names, or of a sector, in whole words.   *)
Chunk ==
  /\ pc = "data" /\ nbread < bufsize /\ Ready
  /\ \E cnt \in IF packet THEN 0 .. bufsize ELSE {Smaller(Sector, bufsize - nbread)} :
       /\ packet => CountOK(cnt, bufsize - nbread)
       /\ nbread' = nbread + cnt
       /\ got' = IF kind = "read" /\ ~ sensing THEN got + Words(cnt) ELSE got
       /\ capacity' = IF kind = "capacity" /\ ~ sensing
                      THEN [capacity EXCEPT ![unit] = @ + Words(cnt)] ELSE capacity
  /\ status' \in SUBSET Bits
  /\ UNCHANGED <<probe, pc, kind, packet, sensing, ret, first, bufsize, reads,
                 answer, want, badfree, offers, unasked>>

(* The interrupt reason or the count of a packet device is wrong.          *)
ChunkFails ==
  /\ pc = "data" /\ nbread < bufsize /\ Ready /\ packet
  /\ Return(FALSE)

(* Mutant: cmd.bufsize is not compared with the size asked for.            *)
AnySize == TRUE
Whole == nbread = bufsize

(* The registers read back do not include the status: reg->status holds    *)
(* the command, none of which has the bits of the last test.               *)
DataEnds ==
  /\ pc = "data" /\ (nbread = bufsize \/ ~ Ready)
  /\ Return(Whole)

-----------------------------------------------------------------------------
(* ide_atapi_send, ide_atapi_request_sense                                 *)

Command(k, atapi, size) ==
  /\ kind' = k /\ packet' = atapi /\ sensing' = FALSE
  /\ bufsize' = size
  /\ UNCHANGED <<ret, first, nbread>>

Sense ==
  /\ packet /\ ~ sensing /\ Goto("sent", "send")
  /\ sensing' = TRUE /\ first' = ret
  /\ bufsize' = Aux
  /\ UNCHANGED <<probe, status, kind, packet, ret, nbread, client, badfree,
                 seen>>

(* Mutant: the sense alone decides.                                        *)
SenseDecides == ret
BothSucceeded == ret /\ (packet => first)

-----------------------------------------------------------------------------
(* ide_init_controller, ide_init_devchn and ide_identify *)

(* ide_init, with or without a controller on the list of PCI devices.      *)
Attach ==
  /\ pc = "probe" /\ pc' \in {"unit", "idle"}
  /\ UNCHANGED <<probe, status, cmd, client, badfree, seen>>

Unit == pc = "unit" /\ unit \in Units

NoDevice ==
  /\ Unit /\ pc' = pc
  /\ unit' = unit + 1
  /\ UNCHANGED <<disk, private, bdevs, status, cmd, client, badfree, seen>>

(* An error, and no fault, is the answer of an ATAPI device.               *)
Identify ==
  /\ Unit /\ disk[unit]
  /\ status' \in SUBSET Bits
  /\ pc' = IF Polled' = {"ERR"} THEN "atapi" ELSE "ata"
  /\ offers' = IF Polled' = {"DRQ"} THEN offers \cup {unit} ELSE offers
  /\ UNCHANGED <<probe, cmd, client, badfree, unasked, capacity>>

AllUnits ==
  /\ pc = "unit" /\ unit \notin Units /\ pc' = "idle"
  /\ UNCHANGED <<probe, status, cmd, client, badfree, seen>>

InitAtapi ==
  /\ Goto("atapi", "send")
  /\ Command("capacity", TRUE, Aux)
  /\ UNCHANGED <<probe, status, client, badfree, seen>>

(* ide_free_ibuf_atapi: private, which has not been set, is freed, and     *)
(* ide_identify goes on with ide_init_ata.                                 *)
AtapiFails ==
  /\ \/ Goto("atapi", "ata")
     \/ Goto("sent", "ata") /\ kind = "capacity" /\ sensing /\ ~ BothSucceeded
  /\ badfree' = IF private[unit] = "live" THEN badfree ELSE badfree \cup {unit}
  /\ private' = [private EXCEPT ![unit] = "freed"]
  /\ UNCHANGED <<disk, unit, bdevs, status, cmd, client, seen>>

NextUnit(ops) ==
  /\ pc' = "unit" /\ unit' = unit + 1
  /\ bdevs' = [bdevs EXCEPT ![unit] = ops]

(* bdev_init, or an error of it, after which the unit is probed as ATA.    *)
AtapiReady ==
  /\ pc = "sent" /\ kind = "capacity" /\ sensing /\ BothSucceeded
  /\ \/ NextUnit("atapi")
     \/ pc' = "ata" /\ UNCHANGED <<unit, bdevs>>
  /\ UNCHANGED <<disk, private, status, cmd, client, badfree, seen>>

(* Mutant: the buffer is freed with the device registered.                 *)
AtaDrops == "freed"
AtaKeeps == "live"

(* ide_init_ata: the words are read whatever the status was, also behind a *)
(* packet probe that failed.                                               *)
InitAta ==
  /\ pc = "ata"
  /\ unasked' = IF Ready THEN unasked ELSE unasked \cup {unit}
  /\ \/ NextUnit("ata") /\ private' = [private EXCEPT ![unit] = AtaKeeps]
     \/ /\ NextUnit("none")
        /\ \E p \in {"null", "freed", "live"} : private' = [private EXCEPT ![unit] = p]
  /\ UNCHANGED <<disk, status, cmd, client, badfree, offers, capacity>>

-----------------------------------------------------------------------------
(* ide_ata_read and ide_atapi_read *)

Read ==
  /\ reads < MaxReads /\ Goto("idle", "send")
  /\ unit' \in {u \in Units : bdevs[u] # "none"}
  /\ \E n \in 1 .. MaxBlocks :
       Command("read", bdevs[unit'] = "atapi", n * Block) /\ want' = n * Block
  /\ got' = 0 /\ answer' = "pending" /\ reads' = reads + 1
  /\ UNCHANGED <<disk, private, bdevs, status, badfree, seen>>

ReadDone ==
  /\ kind = "read" /\ (packet => sensing) /\ Goto("sent", "idle")
  /\ answer' = IF BothSucceeded THEN "ok" ELSE "error"
  /\ UNCHANGED <<probe, status, cmd, reads, want, got, badfree, seen>>

IdeStep ==
  \/ Send \/ Packet \/ PacketFails \/ Chunk \/ ChunkFails \/ DataEnds \/ Sense
  \/ Attach \/ NoDevice \/ Identify \/ AllUnits \/ InitAtapi \/ AtapiFails
  \/ AtapiReady \/ InitAta \/ ReadDone

IdeNext == IdeStep \/ Read

(* Every poll gives up after ATA_IO_TIMEOUT, so the driver always goes on. *)
IdeSpec == IdeInit /\ [][IdeNext]_ivars /\ WF_ivars(IdeStep)

-----------------------------------------------------------------------------
(* Properties *)

Disk == INSTANCE DiskSpec WITH Sizes <- {n * Block : n \in 1 .. MaxBlocks}

(* ide_ata_read and ide_atapi_read return 0 only when as many bytes were   *)
(* stored as asked for, however the device splits them and whatever it     *)
(* answers to the request sense behind the command.                        *)
KeepsDisk == Disk!Spec

(* The sizes of a disk come from the device: an ATAPI disk has given its   *)
(* capacity in whole, although the request sense runs between it and the   *)
(* test of it, and the identification an ATA device offers is the one that *)
(* is taken.  Of a unit that offers none nothing can be said: ide_init_ata *)
(* reads it all the same.                                                  *)
SizesFromDevice ==
  \A u \in Units :
    /\ bdevs[u] = "atapi" => capacity[u] = Aux
    /\ u \in offers => u \notin unasked

(* A disk is registered with what ide_init_ata read, which stays; an       *)
(* address nobody stored is freed only where the ATAPI probe failed, and   *)
(* such a unit is never an ATAPI disk.                                     *)
ProbesLeaveDisk ==
  \A u \in Units :
    /\ bdevs[u] = "ata" => private[u] = "live"
    /\ bdevs[u] = "atapi" => u \notin badfree

(* Whatever the devices answer, the probe of all units and every read end. *)
DriverReturns == (pc # "idle") ~> (pc = "idle")
==============================================================================
