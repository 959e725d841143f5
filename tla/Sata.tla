-------------------------------- MODULE Sata --------------------------------
(***************************************************************************)
(* A boot loader built with the AHCI driver: pci_init, then ahci_init with *)
(* the controller of the list of devices, then reads.                      *)
(***************************************************************************)
EXTENDS Pci, Ahci

vars == <<pvars, avars>>

Init == PciInit /\ AhciInit

(* pci_init returns before the built-in modules are initialised.           *)
PciStep == Scan /\ UNCHANGED avars

Controllers == {GetClass("sata"), GetClass("raid")} \ {NoBridge}

(* ahci_init                                                               *)
Attach ==
  /\ Scanned
  /\ Begin(Controllers # {},
           LET a == IF GetClass("sata") # NoBridge THEN GetClass("sata")
                    ELSE GetClass("raid")
           IN  a # NoBridge /\ SetMaster(a))
  /\ UNCHANGED pvars

DriverStep == Drive /\ UNCHANGED pvars
DeviceStep == Controller /\ UNCHANGED pvars
ReadStep   == (Read \/ ReadSata) /\ UNCHANGED pvars

Next == PciStep \/ Attach \/ DriverStep \/ DeviceStep \/ ReadStep

(* The code runs when the processor does, and a device that is not silent  *)
(* answers.  Nothing forces the layers above to read.                      *)
Spec ==
  /\ Init /\ [][Next]_vars
  /\ WF_vars(PciStep) /\ WF_vars(Attach) /\ WF_vars(DriverStep)
  /\ WF_vars(DeviceStep)

-----------------------------------------------------------------------------
(* Properties *)

(* pci_init lists each function that a bridge leads to once, with the      *)
(* bridge it was found through, unless memory ran out; loops of bridges    *)
(* and several host controllers included.                                  *)
AllFoundOnce ==
  Scanned =>
    /\ starved = {} => Found = Reachable
    /\ Found \subseteq Reachable
    /\ Cardinality(Found) = Len(pci_devs)
    /\ \A i \in DOMAIN pci_devs :
         LET bus == pci_devs[i].addr[1]
             up  == pci_devs[i].parent
         IN  IF up = NoBridge THEN bus \in HostBuses
             ELSE up \in Found /\ machine[up].second = bus

(* The controller fetches a command from its table when it gets to it: a   *)
(* table is not freed as long as its slot can run, even after errors.      *)
RunningTablesLive ==
  \A p \in Ports : \A s \in Running(p) : ctba[p][s] \in heap

(* What a registered disk points to lives as long as the list of disks.    *)
RegisteredLive ==
  \A p \in bdevs :
    {<<x, p, 0>> : x \in {"dev", "bdev", "name", "node", "clb", "fb"}} \subseteq heap

(* Between calls a command table is neither leaked nor freed twice, except *)
(* by the identification of an ATAPI drive: reading the capacity reuses    *)
(* the slot of the identification, which frees the newer table again and   *)
(* never its own.                                                          *)
TablesReturned ==
  /\ twice \subseteq {<<"identify", p>> : p \in {q \in Ports : drive[q] = "atapi"}}
  /\ pc = "idle" =>
       \A p \in Ports : \A n \in 1 .. sent[p] :
         Table(p, n) \in heap => n = 1 /\ drive[p] = "atapi"

Disk == INSTANCE DiskSpec WITH
  Sizes <- {1},
  want <- IF answer = "none" THEN 0 ELSE 1,
  got <- IF filled THEN 1 ELSE 0,
  answer <- IF answer = "ok" /\ drive[port] = "ata" THEN "unread" ELSE answer

(* ahci_satapi_read returns 0 only when the drive has filled the buffer;   *)
(* ahci_sata_read returns 0 and has read nothing.                          *)
KeepsDisk == Disk!Spec

(* The scan ends, and with drives that answer every probe and every read   *)
(* comes back, errors included.                                            *)
DriverReturns ==
  /\ <> Scanned
  /\ (Scanned /\ pc # "probe" /\ silent = {}) ~> (pc = "idle")

(* Command tables are handled as the controller needs it: none is freed    *)
(* while its slot can run, and each is freed once when its command is over *)
(* (ahci_send_command).                                                    *)
TablesSafe == RunningTablesLive /\ TablesReturned
==============================================================================
