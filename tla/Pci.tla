--------------------------------- MODULE Pci ---------------------------------
(***************************************************************************)
(* The scan of the PCI buses in src/core/pci.c.  The recursion through the *)
(* bridges is a stack of frames, one for each pci_probe_bus in progress; a *)
(* step probes one function.                                               *)
(*                                                                         *)
(* Of the configuration space the model keeps the class, the bit for       *)
(* several functions, the secondary bus of a bridge and the bus master bit.*)
(***************************************************************************)
EXTENDS Integers, Sequences, FiniteSets

CONSTANTS
  Machines,                    (* the functions of a machine, by address    *)
  NumBuses, NumSlots, NumFuncs (* PCI_NUM_BUSES, PCI_NUM_SLOTS, ...         *)

Classes == {"bridge", "sata", "raid", "ide", "other"}

Addresses == (0 .. NumBuses - 1) \X (0 .. NumSlots - 1) \X (0 .. NumFuncs - 1)
Devices   == [class : Classes, multi : BOOLEAN, second : 0 .. NumBuses - 1,
              master : BOOLEAN]

(* A machine is a partial function from addresses to devices.              *)
ASSUME MachinesAssumption ==
  \A m \in Machines : DOMAIN m \subseteq Addresses /\ \A a \in DOMAIN m : m[a] \in Devices

ASSUME PciAssumption ==
  NumBuses \in Nat \ {0} /\ NumSlots \in Nat \ {0} /\ NumFuncs \in Nat \ {0}

VARIABLES
  machine,    (* what is plugged in                                         *)
  frames,     (* the calls of pci_probe_bus, the innermost first            *)
  pci_devs,   (* the list: addresses with the bridge found through          *)
  starved     (* history: the functions bmalloc failed for                  *)

pvars == <<machine, frames, pci_devs, starved>>

NoBridge == <<>>

Present(a) == a \in DOMAIN machine

(* pci_probe_multifunction, which reads ones where there is no device.     *)
Multi(a) == Present(a) => machine[a].multi

Frame(bus, parent) == [bus |-> bus, slot |-> 0, func |-> 0, parent |-> parent]

PciInit ==
  /\ machine \in Machines
  /\ frames = <<Frame(0, NoBridge)>>
  /\ pci_devs = <<>>
  /\ starved = {}

Scanned == frames = <<>>

Top     == Head(frames)
Here    == <<Top.bus, Top.slot, Top.func>>
First   == <<Top.bus, Top.slot, 0>>
Found   == {d.addr : d \in {pci_devs[i] : i \in DOMAIN pci_devs}}
Probing == ~ Scanned /\ Top.slot < NumSlots

(* The next function of pci_probe_slot, or the next slot.                  *)
Advance(f) ==
  IF (f.func = 0 /\ ~ (Present(First) /\ Multi(First))) \/ f.func = NumFuncs - 1
  THEN [f EXCEPT !.slot = @ + 1, !.func = 0]
  ELSE [f EXCEPT !.func = @ + 1]

(* pci_probe_func: a device there, and not on the list yet.                *)
New(a) == Present(a) /\ a \notin Found

Skip ==
  /\ Probing /\ ~ New(Here)
  /\ frames' = <<Advance(Top)>> \o Tail(frames)
  /\ UNCHANGED <<machine, pci_devs, starved>>

(* Mutant: the devices behind a bridge are those of the outer bridge.      *)
ParentOuter == Top.parent
Parent == Here

(* pci_alloc_device and, for a bridge, pci_probe_bridge.                   *)
Add ==
  /\ Probing /\ New(Here)
  /\ pci_devs' = <<[addr |-> Here, parent |-> Top.parent]>> \o pci_devs
  /\ frames' =
       (IF machine[Here].class = "bridge"
        THEN <<Frame(machine[Here].second, Parent)>> ELSE <<>>)
       \o <<Advance(Top)>> \o Tail(frames)
  /\ UNCHANGED <<machine, starved>>

NoMemory ==
  /\ Probing /\ New(Here)
  /\ starved' = starved \cup {Here}
  /\ frames' = <<Advance(Top)>> \o Tail(frames)
  /\ UNCHANGED <<machine, pci_devs>>

(* The end of a bus: back to the bridge, or to the loop over the buses     *)
(* that pci_init runs for several host controllers.                        *)
EndBus ==
  /\ ~ Scanned /\ Top.slot = NumSlots
  /\ frames' =
       IF Len(frames) = 1 /\ Multi(<<0, 0, 0>>) /\ Top.bus < NumBuses - 1
       THEN <<Frame(Top.bus + 1, NoBridge)>>
       ELSE Tail(frames)
  /\ UNCHANGED <<machine, pci_devs, starved>>

Scan == Skip \/ Add \/ NoMemory \/ EndBus

(* pci_get_class(class, NULL): the first of the list, which grows at its   *)
(* head.                                                                   *)
GetClass(class) ==
  LET hits == {i \in DOMAIN pci_devs : machine[pci_devs[i].addr].class = class}
  IN  IF hits = {} THEN NoBridge
      ELSE pci_devs[CHOOSE i \in hits : \A k \in hits : i <= k].addr

(* pci_set_master.  write_pci_config_word passes the value as the port and *)
(* the port as the value: the command register stays as it was.            *)
SetMaster(a) == machine[a].master

-----------------------------------------------------------------------------
(* What can be reached, without the order of the scan.                     *)

Visible(bus) ==
  {a \in DOMAIN machine :
     a[1] = bus /\ Present(<<bus, a[2], 0>>) /\ (a[3] = 0 \/ Multi(<<bus, a[2], 0>>))}

HostBuses == IF Multi(<<0, 0, 0>>) THEN 0 .. NumBuses - 1 ELSE {0}

Behind(buses) ==
  {machine[a].second : a \in
     {b \in UNION {Visible(bus) : bus \in buses} : machine[b].class = "bridge"}}

Reached[n \in 0 .. NumBuses] ==
  IF n = 0 THEN HostBuses ELSE Reached[n - 1] \cup Behind(Reached[n - 1])

Reachable == UNION {Visible(bus) : bus \in Reached[NumBuses]}
==============================================================================
