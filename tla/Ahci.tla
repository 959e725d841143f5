-------------------------------- MODULE Ahci --------------------------------
(***************************************************************************)
(* The driver of src/drivers/ahci/ahci.c and the ports of its controller.  *)
(* The driver is a program that polls; the controller runs beside it and   *)
(* completes a command, fails it, or never answers.                        *)
(*                                                                         *)
(* Memory is a set of live blocks.  A command table is named by its port   *)
(* and the number of the command, so that a table freed twice is seen.     *)
(* Every allocation may fail.                                              *)
(***************************************************************************)
EXTENDS Integers, FiniteSets

CONSTANTS
  NumPorts,     (* HBA_CAP_NP(cap) + 1                                      *)
  NumCmds,      (* AHCI_MAX_DEVICES                                         *)
  MaxReads      (* bound: the reads of the layers above                     *)

(* The register holds the number of ports minus one.                       *)
ASSUME AhciAssumption ==
  NumPorts \in Nat \ {0} /\ NumCmds \in Nat \ {0} /\ MaxReads \in Nat

Ports == 0 .. NumPorts - 1
Slots == 0 .. NumCmds - 1
Kinds == {"none", "ata", "atapi", "other"}   \* none: not there or not active

VARIABLES
  (* the controller *)
  drive,        (* drive[p]: the kind of the device at a port               *)
  silent,       (* the ports whose device never answers a command           *)
  ci,           (* ci[p]: the slots with a command                          *)
  tfes,         (* tfes[p]: the error bit of the port, which stays set      *)
  ctba,         (* ctba[p][s]: the command table of a slot                  *)
  (* the driver *)
  pc, port,
  slot,         (* the slot of the command                                  *)
  kind,         (* identify, capacity or read                               *)
  sensing,      (* whether it is the request sense behind a command         *)
  idslot,       (* the slot ahci_identify_ahcidev keeps                     *)
  ret, first,   (* the success of the command, and of the one before it     *)
  heap,         (* the live blocks of memory                                *)
  bdevs,        (* the ports registered as block devices                    *)
  sent,         (* sent[p]: the commands prepared at a port                 *)
  reads,
  answer,       (* what the last read returned                              *)
  filled,       (* history: the device has filled the buffer of the read    *)
  twice         (* history: the commands whose table was freed twice        *)

hba    == <<drive, silent, ci, tfes, ctba>>
call   == <<slot, kind, sensing, idslot, ret, first>>
client == <<reads, answer, filled>>
avars  == <<hba, pc, port, call, heap, bdevs, sent, client, twice>>

NoTable == <<"none", 0, 0>>
Table(p, n) == <<"table", p, n>>

AhciInit ==
  /\ drive \in [Ports -> Kinds]
  /\ silent \in SUBSET Ports
  /\ ci = [p \in Ports |-> {}]
  /\ tfes = [p \in Ports |-> FALSE]
  /\ ctba = [p \in Ports |-> [s \in Slots |-> NoTable]]
  /\ pc = "probe" /\ port = 0 /\ slot = 0 /\ kind = "identify"
  /\ sensing = FALSE /\ idslot = 0 /\ ret = TRUE /\ first = TRUE
  /\ heap = {} /\ bdevs = {} /\ sent = [p \in Ports |-> 0]
  /\ reads = 0 /\ answer = "none" /\ filled = FALSE /\ twice = {}

Goto(from, to) == pc = from /\ pc' = to

-----------------------------------------------------------------------------
(* The controller *)

(* The commands the controller may still run: it stops at an error.        *)
Running(p) == IF tfes[p] THEN {} ELSE ci[p]

Complete ==
  \E p \in Ports \ silent : \E s \in Running(p) :
    /\ ci' = [ci EXCEPT ![p] = @ \ {s}]
    /\ filled' = (filled \/ (<<p, s, kind>> = <<port, slot, "read">> /\ ~ sensing))
    /\ UNCHANGED <<drive, silent, tfes, ctba, pc, port, call, heap, bdevs, sent,
                   reads, answer, twice>>

Fail ==
  \E p \in Ports \ silent : Running(p) # {} /\
    /\ tfes' = [tfes EXCEPT ![p] = TRUE]
    /\ UNCHANGED <<drive, silent, ci, ctba, pc, port, call, heap, bdevs, sent,
                   client, twice>>

Controller == Complete \/ Fail

-----------------------------------------------------------------------------
(* ahci_init, ahci_init_controller and ahci_init_port *)

(* The controller pci_get_class finds, if any.  One that is not a master   *)
(* of the bus cannot fetch a command and answers none.                     *)
Begin(found, master) ==
  /\ Goto("probe", IF found THEN "port" ELSE "idle")
  /\ silent' = IF master THEN silent ELSE Ports
  /\ UNCHANGED <<drive, ci, tfes, ctba, port, call, heap, bdevs, sent, client,
                 twice>>

(* ahci_probe_port, and the end of the loop over the ports.                *)
NoDevice ==
  /\ pc = "port" /\ port < NumPorts /\ drive[port] = "none"
  /\ port' = port + 1
  /\ UNCHANGED <<hba, pc, call, heap, bdevs, sent, client, twice>>

AllPorts ==
  /\ port = NumPorts /\ Goto("port", "idle")
  /\ UNCHANGED <<hba, port, call, heap, bdevs, sent, client, twice>>

Own(what) == <<what, port, 0>>

(* The tables of ahci_port_rebase_headers, which no command uses.          *)
Headers(n) == {<<"header", port, s>> : s \in 0 .. n - 1}

(* ahci_port_rebase or the next allocation fails, with what is not freed.  *)
PortFails ==
  /\ pc = "port" /\ port < NumPorts /\ drive[port] # "none"
  /\ \E lost \in {Headers(n) : n \in 0 .. NumCmds - 1}
                 \cup {Headers(NumCmds) \cup {Own("clb"), Own("fb")}} :
       heap' = heap \cup lost
  /\ port' = port + 1
  /\ UNCHANGED <<hba, pc, call, bdevs, sent, client, twice>>

PortReady ==
  /\ Goto("port", "prepare") /\ port < NumPorts /\ drive[port] # "none"
  /\ heap' = heap \cup Headers(NumCmds)
             \cup {Own("dev"), Own("clb"), Own("fb"), Own("ident")}
  /\ ctba' = [ctba EXCEPT ![port] = [s \in Slots |-> <<"header", port, s>>]]
  /\ kind' = "identify" /\ sensing' = FALSE
  /\ UNCHANGED <<drive, silent, ci, tfes, port, slot, idslot, ret, first, bdevs,
                 sent, client, twice>>

-----------------------------------------------------------------------------
(* ahci_prepare_command, ahci_idle and ahci_destroy_command *)

(* ahci_find_slot                                                          *)
FreeSlots == Slots \ ci[port]

Prepare ==
  /\ Goto("prepare", "issue") /\ FreeSlots # {}
  /\ slot' = CHOOSE s \in FreeSlots : \A o \in FreeSlots : s <= o
  /\ idslot' = IF kind = "identify" THEN slot' ELSE idslot
  /\ sent' = [sent EXCEPT ![port] = @ + 1]
  /\ heap' = heap \cup {Table(port, sent[port] + 1)}
  /\ ctba' = [ctba EXCEPT ![port][slot'] = Table(port, sent[port] + 1)]
  /\ UNCHANGED <<drive, silent, ci, tfes, port, kind, sensing, ret, first, bdevs,
                 client, twice>>

(* No slot, or no memory.                                                  *)
PrepareFails ==
  /\ Goto("prepare", IF kind = "identify" THEN "leave" ELSE "sent")
  /\ ret' = FALSE
  /\ UNCHANGED <<hba, port, slot, kind, sensing, idslot, first, heap, bdevs, sent,
                 client, twice>>

(* ahci_port_wait and the write to ci.                                     *)
Issue ==
  /\ Goto("issue", "poll") /\ Running(port) = {}
  /\ ci' = [ci EXCEPT ![port] = @ \cup {slot}]
  /\ UNCHANGED <<drive, silent, tfes, ctba, port, call, heap, bdevs, sent, client,
                 twice>>

(* Mutant: the loop ends without an answer.                                *)
AnsweredSoon == TRUE

(* Mutant: the loop does not look at the error bit.                        *)
AnsweredOnly == slot \notin ci[port]

(* The loop of ahci_idle ends.                                             *)
Answered == slot \notin ci[port] \/ tfes[port]

NoError == ~ tfes[port]

Idle ==
  /\ pc = "poll" /\ Answered
  /\ ret' = NoError
  /\ pc' = IF kind = "identify" THEN "identified" ELSE "destroy"
  /\ UNCHANGED <<hba, port, slot, kind, sensing, idslot, first, heap, bdevs, sent,
                 client, twice>>

(* bfree of the table the header of the slot names.                        *)
Free(s) ==
  /\ heap' = heap \ {ctba[port][s]}
  /\ twice' = IF ctba[port][s] \in heap THEN twice ELSE twice \cup {<<kind, port>>}

(* ahci_send_command frees its table whether or not the command ended.     *)
Destroy ==
  /\ Goto("destroy", "sent")
  /\ Free(slot)
  /\ UNCHANGED <<hba, port, call, bdevs, sent, client>>

(* ahci_satapi_request_sense follows a command, whatever that returned.    *)
Sense ==
  /\ ~ sensing /\ Goto("sent", "prepare")
  /\ sensing' = TRUE
  /\ first' = ret
  /\ UNCHANGED <<hba, port, slot, kind, idslot, ret, heap, bdevs, sent, client,
                 twice>>

(* Mutant: the sense alone decides.                                        *)
SenseDecides == ret
BothSucceeded == ret /\ first

-----------------------------------------------------------------------------
(* ahci_identify_ahcidev: the slot of the identification is free while     *)
(* ahci_satapi_read_capacity takes one.                                    *)

(* Mutant: a device without a node stays on the list.                      *)
RegisterEarly(done) == bdevs' = bdevs \cup {port}

(* bdev_init adds the device to the list once its node is there.           *)
Register(done) == bdevs' = IF done THEN bdevs \cup {port} ELSE bdevs

Bdev == {Own("bdev"), Own("name"), Own("node")}

(* ahci_fill_sata, for an unknown device nothing, and an error.            *)
FillSata ==
  /\ Goto("identified", "release")
  /\ drive[port] # "atapi" \/ ~ ret
  /\ \/ ret /\ drive[port] = "ata" /\ ret' = TRUE /\ Register(TRUE)
        /\ heap' = heap \cup Bdev
     \/ ret /\ drive[port] = "ata" /\ ret' = FALSE /\ Register(FALSE)
        /\ \E lost \in {{}, {Own("bdev"), Own("name")}} : heap' = heap \cup lost
     \/ ~ (ret /\ drive[port] = "ata") /\ UNCHANGED <<ret, bdevs, heap>>
  /\ UNCHANGED <<hba, port, slot, kind, sensing, idslot, first, sent, client,
                 twice>>

(* ahci_fill_satapi up to the read of the capacity, or not that far.       *)
FillSatapi ==
  /\ pc = "identified" /\ drive[port] = "atapi" /\ ret
  /\ \/ /\ Goto("identified", "prepare")
        /\ heap' = heap \cup {Own("bdev"), Own("name")}
        /\ kind' = "capacity" /\ sensing' = FALSE
        /\ ret' = ret
     \/ /\ Goto("identified", "release")
        /\ ret' = FALSE
        /\ UNCHANGED <<heap, kind, sensing>>
  /\ UNCHANGED <<hba, port, slot, idslot, first, bdevs, sent, client, twice>>

(* The end of ahci_fill_satapi; the name is not freed with the bdev.       *)
Capacity ==
  /\ kind = "capacity" /\ sensing /\ Goto("sent", "release")
  /\ kind' = "identify"
  /\ \/ BothSucceeded /\ ret' = TRUE /\ Register(TRUE)
        /\ heap' = heap \cup {Own("node")}
     \/ BothSucceeded /\ ret' = FALSE /\ Register(FALSE) /\ heap' = heap
     \/ ~ BothSucceeded /\ ret' = FALSE /\ bdevs' = bdevs
        /\ heap' = heap \ {Own("bdev")}
  /\ UNCHANGED <<hba, port, slot, sensing, idslot, first, sent, client, twice>>

(* ahci_identify_destroy_command                                           *)
Release ==
  /\ Goto("release", "leave")
  /\ Free(idslot)
  /\ UNCHANGED <<hba, port, call, bdevs, sent, client>>

Leave ==
  /\ Goto("leave", "port")
  /\ heap' = heap \ ({Own("ident")} \cup (IF ret THEN {} ELSE {Own("dev")}))
  /\ port' = port + 1
  /\ UNCHANGED <<hba, call, bdevs, sent, client, twice>>

-----------------------------------------------------------------------------
(* The operations of the block devices *)

(* ahci_satapi_read                                                        *)
Read ==
  /\ reads < MaxReads /\ Goto("idle", "prepare")
  /\ port' \in {p \in bdevs : drive[p] = "atapi"}
  /\ kind' = "read" /\ sensing' = FALSE
  /\ reads' = reads + 1 /\ answer' = "pending" /\ filled' = FALSE
  /\ UNCHANGED <<hba, slot, idslot, ret, first, heap, bdevs, sent, twice>>

ReadDone ==
  /\ kind = "read" /\ sensing /\ Goto("sent", "idle")
  /\ answer' = IF BothSucceeded THEN "ok" ELSE "error"
  /\ UNCHANGED <<hba, port, call, heap, bdevs, sent, reads, filled, twice>>

(* ahci_sata_read returns 0 and reads nothing.                             *)
ReadSata ==
  /\ pc = "idle" /\ reads < MaxReads
  /\ port' \in {p \in bdevs : drive[p] = "ata"}
  /\ kind' = "read" /\ sensing' = FALSE
  /\ reads' = reads + 1 /\ answer' = "ok" /\ filled' = FALSE
  /\ UNCHANGED <<hba, pc, slot, idslot, ret, first, heap, bdevs, sent, twice>>

Drive ==
  \/ NoDevice \/ AllPorts \/ PortFails \/ PortReady
  \/ Prepare \/ PrepareFails \/ Issue \/ Idle \/ Destroy \/ Sense
  \/ FillSata \/ FillSatapi \/ Capacity \/ Release \/ Leave \/ ReadDone

==============================================================================
