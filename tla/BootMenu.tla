------------------------------ MODULE BootMenu ------------------------------
(***************************************************************************)
(* The boot menu of src/core/loader.c: the program draws the entries, then *)
(* waits for a key while the timer interrupt counts down and redraws the   *)
(* seconds left; arrows move the selection, enter or the end of the count  *)
(* boots an entry.                                                         *)
(*                                                                         *)
(* Of the console the model keeps where the next write goes and, for each  *)
(* entry, where and how it was last drawn.  The interrupt is one step; the *)
(* program's calls of bmalloc, ioctl and write are steps of their own, so  *)
(* that the interrupt comes between.  Keys come from bgetch.               *)
(***************************************************************************)
EXTENDS Integers, Sequences

CONSTANTS
  MaxEntries,       (* bound: the boot entries of elfboot.cfg               *)
  Timeout,          (* the initial boot_timeout, in ticks of the timer      *)
  TicksPerSec,      (* 1000: a tick is a millisecond                        *)
  LogoX, ControlX,  (* (width - logo->width) / 2 and                        *)
                    (* (width - strlen(control)) / 2                        *)
  Up, Down, Enter,  (* the keys the menu knows, and any other               *)
  Other,
  NoKey             (* bgetch_noblock without a key: 0                      *)

ASSUME BootMenuAssumption ==
  /\ MaxEntries \in Nat /\ Timeout \in Nat
  /\ TicksPerSec \in Nat \ {0}
  /\ LogoX \in Nat /\ ControlX \in Nat

(* The logo of elfboot.tmg is 52 characters wide, the control string of    *)
(* loader.c:58 has 48: half of what is left differs by 2 on every screen.  *)
ASSUME ShippedLogo == ControlX = LogoX + 2

Keys == {Up, Down, Enter, Other}

VARIABLES
  boot_number, boot_choice, boot_timeout,
  boot_options,  (* boot_options[i]: the place in elfboot.cfg of entry i    *)
  autoboot,      (* whether the build has CONFIG_LOADER_AUTOBOOT            *)
  pc,            (* where the program is, see the actions                   *)
  xpos, ypos,    (* menu_attr->xpos, ypos: Above or Bottom                  *)
  todo,          (* the entries loader_menu_show_entry has still to draw    *)
  column,        (* cons_attr.xpos of these calls                           *)
  then,          (* where the program goes after them                       *)
  listed,        (* whether loader_interrupt_handler is registered          *)
  c,             (* the key the program looks at                            *)
  place,         (* where the console writes next: <<column, line>>         *)
  shown,         (* shown[i]: where entry i is and if it is highlighted     *)
  countdown,     (* the seconds on the screen, -1 without                   *)
  counted,       (* history: the countdown has been drawn                   *)
  typed,         (* history: a key has been read                            *)
  reentered      (* history: the interrupt came into the heap or the        *)
                 (* console while the program was in it                     *)

menu   == <<boot_number, boot_options, autoboot>>
screen == <<place, shown, countdown>>
mvars  == <<menu, boot_choice, boot_timeout, pc, xpos, ypos, todo, column,
            then, listed, c, screen, counted, typed, reentered>>

Entries == 0 .. boot_number - 1

(* The rows of the screen: entry i is in row i, the logo above all of them *)
(* and the seconds below.                                                  *)
Above  == -1
Bottom == MaxEntries

(* Everything but boot_number and boot_choice, in which loader_store_entry *)
(* counts the entries of elfboot.cfg.                                      *)
MenuInit ==
  /\ boot_timeout = Timeout
  /\ boot_options = [i \in 0 .. MaxEntries - 1 |-> 0]
  /\ autoboot \in BOOLEAN
  /\ pc = "start"
  /\ xpos = 0 /\ ypos = Above
  /\ todo = <<>> /\ column = 0 /\ then = "wait"
  /\ listed = FALSE
  /\ c = NoKey
  /\ place = <<0, Above>>
  /\ shown = [i \in 0 .. MaxEntries - 1 |-> <<0, FALSE>>]
  /\ countdown = -1
  /\ counted = FALSE /\ typed = FALSE /\ reentered = FALSE

Transition(from, to) == pc = from /\ pc' = to

-----------------------------------------------------------------------------
(* loader_init_boot_options and loader_menu *)

(* The entries are counted, and bmalloc of boot_options.                   *)
Start ==
  /\ Transition("start", IF boot_number = 0 THEN "failed" ELSE "options")
  /\ UNCHANGED <<menu, boot_choice, boot_timeout, xpos, ypos, todo, column,
                 then, listed, c, screen, counted, typed, reentered>>

(* Mutant: the first entry goes to the second place.                       *)
SlotNext == boot_number - (boot_choice - 1)
Slot == boot_number - boot_choice

CopyOption ==
  /\ pc = "options" /\ boot_choice > 0
  /\ boot_options' = [boot_options EXCEPT ![Slot] = boot_number - boot_choice + 1]
  /\ boot_choice' = boot_choice - 1
  /\ UNCHANGED <<boot_number, autoboot, boot_timeout, pc, xpos, ypos, todo,
                 column, then, listed, c, screen, counted, typed, reentered>>

AutoBoot ==
  /\ boot_choice = 0 /\ autoboot /\ boot_number = 1
  /\ Transition("options", "boot")
  /\ UNCHANGED <<menu, boot_choice, boot_timeout, xpos, ypos, todo, column,
                 then, listed, c, screen, counted, typed, reentered>>

(* A call of loader_menu_show_entry for each of some entries.              *)
Draw(entries, x, after) ==
  /\ pc' = "alloc"
  /\ todo' = entries
  /\ column' = x
  /\ then' = after

(* loader_menu_init and loader_menu_show                                   *)
Show ==
  /\ pc = "options" /\ boot_choice = 0
  /\ ~ (autoboot /\ boot_number = 1)
  /\ xpos' = LogoX
  /\ ypos' = Above
  /\ Draw([i \in 1 .. boot_number |-> i - 1], LogoX, "enable")
  /\ UNCHANGED <<menu, boot_choice, boot_timeout, listed, c, screen, counted,
                 typed, reentered>>

-----------------------------------------------------------------------------
(* loader_menu_show_entry: bmalloc, ioctl, write, bfree.                   *)

Drawing == <<menu, boot_choice, boot_timeout, xpos, ypos, column, then, listed,
             c, countdown, counted, typed, reentered>>

EntryAlloc ==
  /\ Transition("alloc", "reset")
  /\ UNCHANGED <<Drawing, todo, place, shown>>

(* bmalloc returns NULL: every caller gives up with an error.              *)
AllocFails ==
  /\ pc \in {"start", "alloc", "noption"}
  /\ pc' = "failed"
  /\ UNCHANGED <<Drawing, todo, place, shown>>

EntryReset ==
  /\ Transition("reset", "write")
  /\ place' = <<column, Head(todo)>>
  /\ UNCHANGED <<Drawing, todo, shown>>

(* loader_menu_font                                                        *)
Font(i) == i = boot_choice

EntryWrite ==
  /\ Transition("write", "free")
  /\ shown' = [i \in DOMAIN shown |->
                 IF i = place[2] THEN <<place[1], Font(Head(todo))>> ELSE shown[i]]
  /\ UNCHANGED <<Drawing, todo, place>>

EntryFree ==
  /\ pc = "free"
  /\ todo' = Tail(todo)
  /\ pc' = IF Len(todo) = 1 THEN then ELSE "alloc"
  /\ UNCHANGED <<Drawing, place, shown>>

-----------------------------------------------------------------------------
(* loader_timeout_callback *)

(* Where the program must not be while the interrupt draws.                *)
Busy == pc \in {"alloc", "reset", "write", "free", "noption", "clear", "cleared"}

Seconds(ms) == ms \div TicksPerSec

CountdownAt == <<ControlX, Bottom>>

CountTicks(ms)   == ms - 1

(* The interrupt draws when a second is over and bmalloc has the memory.   *)
Tick ==
  /\ listed /\ boot_timeout > 0
  /\ boot_timeout' = CountTicks(boot_timeout)
  /\ \/ /\ Seconds(boot_timeout') # Seconds(boot_timeout)
        /\ place' = CountdownAt
        /\ xpos' = CountdownAt[1] /\ ypos' = CountdownAt[2]
        /\ countdown' = Seconds(boot_timeout')
        /\ counted' = TRUE
        /\ reentered' = (reentered \/ Busy)
     \/ UNCHANGED <<place, xpos, ypos, countdown, counted, reentered>>
  /\ UNCHANGED <<menu, boot_choice, pc, todo, column, then, listed, c, shown,
                 typed>>

-----------------------------------------------------------------------------
(* loader_menu_init_keyboard *)

Waiting == <<menu, boot_choice, boot_timeout, xpos, ypos, todo, column, then,
             screen, counted, reentered>>

Enable ==
  /\ Transition("enable", "poll")
  /\ listed' = TRUE
  /\ UNCHANGED <<Waiting, c, typed>>

Poll ==
  /\ boot_timeout > 0
  /\ Transition("poll", "get")
  /\ UNCHANGED <<Waiting, listed, c, typed>>

GetKey ==
  /\ pc = "get"
  /\ \E key \in Keys \cup {NoKey} :
       /\ c' = key
       /\ pc' = IF key = NoKey THEN "poll" ELSE "unregister"
       /\ typed' = (typed \/ key # NoKey)
  /\ UNCHANGED <<Waiting, listed>>

TimedOut ==
  /\ boot_timeout = 0
  /\ Transition("poll", "unregister")
  /\ UNCHANGED <<Waiting, listed, c, typed>>

(* Mutant: the handler stays registered.                                   *)
UnregisterLate ==
  /\ Transition("unregister", "noption")
  /\ UNCHANGED <<Waiting, listed, c, typed>>

Unregister ==
  /\ Transition("unregister", "noption")
  /\ listed' = FALSE
  /\ UNCHANGED <<Waiting, c, typed>>

-----------------------------------------------------------------------------
(* loader_menu_init_selected *)

Confirms(key) == key \in {NoKey, Enter}

(* bmalloc of noption, and the first look at the key.                      *)
Selected ==
  /\ Transition("noption", IF Confirms(c) THEN "boot" ELSE "clear")
  /\ UNCHANGED <<Waiting, listed, c, typed>>

ClearReset ==
  /\ Transition("clear", "cleared")
  /\ place' = <<xpos, ypos>>
  /\ UNCHANGED <<menu, boot_choice, boot_timeout, xpos, ypos, todo, column,
                 then, listed, c, shown, countdown, counted, typed, reentered>>

(* The blank line is written over whatever is at the cursor.               *)
ClearWrite ==
  /\ Transition("cleared", "key")
  /\ countdown' = IF place[2] = Bottom THEN -1 ELSE countdown
  /\ UNCHANGED <<menu, boot_choice, boot_timeout, xpos, ypos, todo, column,
                 then, listed, c, place, shown, counted, typed, reentered>>

(* loader_init_update, which redraws the old and the new selection.        *)
Update(prev, choice) ==
  /\ boot_choice' = choice
  /\ ypos' = Above
  /\ Draw(<<prev, choice>>, xpos - 2, "wait")
  /\ UNCHANGED <<menu, boot_timeout, xpos, listed, c, screen, counted, typed,
                 reentered>>

LastEntry == boot_choice >= boot_number - 1

MoveUp ==
  /\ pc = "key" /\ c = Up /\ boot_choice > 0
  /\ Update(boot_choice, boot_choice - 1)

MoveDown ==
  /\ pc = "key" /\ c = Down /\ ~ LastEntry
  /\ Update(boot_choice, boot_choice + 1)

NoMove ==
  /\ c = Up => boot_choice <= 0
  /\ c = Down => LastEntry
  /\ c # Enter
  /\ Transition("key", "wait")
  /\ UNCHANGED <<Waiting, listed, c, typed>>

NextKey ==
  /\ Transition("wait", "key")
  /\ c' \in Keys
  /\ typed' = TRUE
  /\ UNCHANGED <<Waiting, listed>>

Confirm ==
  /\ c = Enter
  /\ Transition("key", "boot")
  /\ UNCHANGED <<Waiting, listed, c, typed>>

Program ==
  \/ Start \/ CopyOption \/ AutoBoot \/ Show
  \/ EntryAlloc \/ AllocFails \/ EntryReset \/ EntryWrite \/ EntryFree
  \/ Enable \/ Poll \/ GetKey \/ TimedOut \/ Unregister
  \/ Selected \/ ClearReset \/ ClearWrite \/ MoveUp \/ MoveDown \/ NoMove
  \/ Confirm

MenuNext == Program \/ Tick \/ NextKey
==============================================================================
