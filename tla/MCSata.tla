------------------------------- MODULE MCSata -------------------------------
(***************************************************************************)
(* Machines with three buses of two slots and two functions.               *)
(***************************************************************************)
EXTENDS Sata, TLC

Dev(class, multi, second, master) ==
  [class |-> class, multi |-> multi, second |-> second, master |-> master]

Plain(class) == Dev(class, FALSE, 0, TRUE)
Bridge(second) == Dev("bridge", FALSE, second, TRUE)

MCMachines == {
  \* no controller; a function 1 nobody announces
  (<<0, 0, 0>> :> Plain("other") @@ <<0, 0, 1>> :> Plain("sata")),
  \* two controllers; the later one in the scan is taken
  (<<0, 0, 0>> :> Plain("sata") @@ <<0, 1, 0>> :> Dev("sata", FALSE, 0, FALSE)),
  \* a bridge to a bus with a bridge back
  (<<0, 0, 0>> :> Plain("other") @@ <<0, 1, 0>> :> Bridge(2)
     @@ <<2, 0, 0>> :> Bridge(0) @@ <<2, 1, 0>> :> Plain("raid")),
  \* bridges behind bridges
  (<<0, 0, 0>> :> Bridge(1) @@ <<1, 1, 0>> :> Bridge(2)
     @@ <<2, 0, 0>> :> Plain("ide") @@ <<1, 0, 0>> :> Plain("other")),
  \* several host controllers: every bus is scanned
  (<<0, 0, 0>> :> Dev("other", TRUE, 0, TRUE) @@ <<0, 0, 1>> :> Bridge(1)
     @@ <<1, 0, 0>> :> Plain("other") @@ <<2, 1, 0>> :> Plain("ide")),
  \* nothing at the first address
  (<<0, 1, 0>> :> Plain("other") @@ <<1, 0, 0>> :> Plain("other"))}
==============================================================================
