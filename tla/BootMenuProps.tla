---------------------------- MODULE BootMenuProps ----------------------------
(***************************************************************************)
(* What the boot menu of src/core/loader.c promises its user.              *)
(***************************************************************************)
EXTENDS BootMenu

InMenu == pc \in {"poll", "get", "unregister", "noption", "clear", "cleared",
                  "key", "wait"}

(* The selection never leaves the array of entries, and the count never    *)
(* drops below zero (loader.c:481-489, :332).                              *)
MenuTypeOK ==
  /\ boot_number \in 0 .. MaxEntries
  /\ boot_choice \in 0 .. boot_number
  /\ pc \notin {"start", "options", "failed"} => boot_choice \in Entries
  /\ boot_timeout \in 0 .. Timeout
  /\ autoboot \in BOOLEAN /\ listed \in BOOLEAN
  /\ c \in Keys \cup {NoKey}
  /\ todo \in Seq(Entries)

(* While the menu waits, just the entry enter would boot is highlighted,   *)
(* after any number of moves and redraws (loader_init_update).             *)
HighlightIsChoice ==
  InMenu => \A i \in Entries : shown[i][2] <=> i = boot_choice

(* loader.c:473 "wait until the user changes the current selection, and    *)
(* confirms the highlighted entry": once a key has been read only enter    *)
(* boots, and without one only the end of the whole count, the first entry.*)
BootIsConfirmed ==
  pc = "boot" =>
    \/ typed /\ c = Enter
    \/ ~ typed /\ boot_choice = 0 /\ (boot_timeout = 0 \/ autoboot)

(* The interrupt, which calls bmalloc and moves the cursor, never comes    *)
(* while the program is in the heap or between its ioctl and its write     *)
(* (loader.c:511-519), and while the user chooses no count is drawn:       *)
(* loader.c:464 "Clear out message which contains number of seconds until  *)
(* auto boot".                                                             *)
InterruptDrawsAlone ==
  /\ ~ reentered
  /\ pc = "write" => place = <<column, Head(todo)>>
  /\ pc \in {"key", "wait"} => countdown = -1

(* An entry is redrawn over its old drawing: once the interrupt has drawn  *)
(* the seconds the column it left in menu_attr, less two, is the first one *)
(* (loader.c:346, :443); a key before that shifts the entries.             *)
RedrawInPlace ==
  counted /\ InMenu => \A i \in Entries : shown[i][1] = LogoX

(* Without a key the menu boots, or gives up for want of memory.           *)
MenuEnds == (pc = "poll") ~> (typed \/ pc \in {"boot", "failed"})

(* loader.c:555 "we don't want to modify the global values anymore since   *)
(* they are needed for redrawing": the column of menu_attr stays.          *)
MenuAttrKept == InMenu => xpos = LogoX
==============================================================================
