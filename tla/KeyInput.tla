------------------------------ MODULE KeyInput ------------------------------
(***************************************************************************)
(* Keyboard input: the interrupt handler of src/drivers/input/kbd.c fills  *)
(* the buffer that bgetch and bgetch_noblock of src/core/input.c empty.    *)
(*                                                                         *)
(* An interrupt gate keeps interrupts off, so a handler runs as one step,  *)
(* between any two steps of the program; every access of the program to    *)
(* the buffer and its index, each byte of memcpy included, is a step.      *)
(* Characters are model values; the keys that are no letters have a field  *)
(* of the layout each.                                                     *)
(***************************************************************************)
EXTENDS Integers, Sequences

CONSTANTS
  BufferSize,    (* KEYBOARD_BUFFER_SIZE; the buffer has one byte more      *)
  Shifts,        (* the scan codes of the two shift keys                    *)
  AltGr,         (* KBD_CODE_ALT                                            *)
  CapsLock,      (* KBD_CODE_CAPSLOCK                                       *)
  Codes,         (* the scan codes with characters                          *)
  regular, shifted, altgram, (* the maps of kbd_layout from codes to        *)
                 (* characters                                              *)
  Backspace,     (* KEY_BACKSPACE                                           *)
  Nul,           (* INV: no character, and what an empty byte holds         *)
  MaxKeys        (* bound: the presses and releases of keys                 *)

Modifiers == Shifts \cup {AltGr, CapsLock}
Chars     == {regular[k] : k \in Codes} \cup {shifted[k] : k \in Codes}
             \cup {altgram[k] : k \in Codes} \cup {Nul}

ASSUME KeyInputAssumption ==
  /\ BufferSize \in Nat \ {0}
  /\ MaxKeys \in Nat
  /\ Codes \cap Modifiers = {}
  /\ DOMAIN regular = Codes /\ DOMAIN shifted = Codes /\ DOMAIN altgram = Codes

VARIABLES
  keybuffer,
  keybuffer_index,
  shift, altgr, capslock,  (* the bits of kbd_status.status                 *)
  pc,            (* the program: "idle", in bgetch at its "test" or "hlt",  *)
                 (* in __bgetch at "first", "index", "copy"                 *)
  cached,        (* the index bgetch tests                                  *)
  hoisted,       (* whether the build loads it once for the loop of bgetch: *)
                 (* it is not volatile and hlt does not clobber memory      *)
  reuses,        (* whether __bgetch gets it in a register from its caller  *)
  c,             (* the character __bgetch returns                          *)
  n, k,          (* memcpy: the bytes to copy and those copied              *)
  down,          (* history: the modifier keys held down                    *)
  presses,       (* history: the interrupts of the keyboard so far          *)
  pending,       (* history: the characters typed and not yet read          *)
  read,          (* history: what the next character read should be         *)
  torn           (* history: a key came between two steps that should have  *)
                 (* been one                                                *)

program == <<pc, cached, hoisted, reuses, c, n, k>>
status  == <<shift, altgr, capslock>>
buffer  == <<keybuffer, keybuffer_index>>
vars    == <<buffer, status, program, down, presses, pending, read, torn>>

Init ==
  /\ keybuffer = [b \in 0 .. BufferSize |-> Nul]         \* bzalloc
  /\ keybuffer_index = 0
  /\ shift = FALSE /\ altgr = FALSE /\ capslock = FALSE
  /\ pc = "idle" /\ cached = 0
  /\ hoisted \in BOOLEAN /\ reuses \in BOOLEAN
  /\ c = Nul /\ n = 0 /\ k = 0
  /\ down = {} /\ presses = 0
  /\ pending = <<>> /\ read = Nul
  /\ torn = FALSE

Transition(from, to) == pc = from /\ pc' = to

-----------------------------------------------------------------------------
(* kbd_interrupt_callback *)

(* Mutant: the test does not see what the interrupt did.                   *)
WakeStale ==
  /\ pc' = IF pc = "hlt" THEN "test" ELSE pc
  /\ UNCHANGED <<cached, hoisted, reuses, c, n, k>>

(* An interrupt ends the hlt; bgetch then tests the index, or the value it *)
(* loaded before, again.                                                   *)
Wake ==
  /\ pc' = IF pc = "hlt" THEN "test" ELSE pc
  /\ cached' = IF hoisted \/ pc # "hlt" THEN cached ELSE keybuffer_index'
  /\ UNCHANGED <<hoisted, reuses, c, n, k>>

(* kbd_handle_release                                                      *)
Release(key) ==
  /\ shift' = (shift /\ key \notin Shifts)
  /\ altgr' = (altgr /\ key # AltGr)
  /\ UNCHANGED capslock

Released ==
  /\ presses < MaxKeys
  /\ \E key \in down :
       /\ down' = down \ {key}
       /\ Release(key)
  /\ presses' = presses + 1
  /\ UNCHANGED <<buffer, pending, read, torn>>
  /\ Wake

(* kbd_handle_pressed on a modifier                                        *)
PressedModifier ==
  /\ presses < MaxKeys
  /\ \E key \in Modifiers :
       /\ down' = down \cup {key}
       /\ shift' = (shift \/ key \in Shifts)
       /\ altgr' = (altgr \/ key = AltGr)
       /\ capslock' = IF key = CapsLock THEN ~ capslock ELSE capslock
  /\ presses' = presses + 1
  /\ UNCHANGED <<buffer, pending, read, torn>>
  /\ Wake

(* key_getchar: shift undoes caps lock, and shift and altgr type nothing.  *)
GetChar(key) ==
  LET up == shift # capslock
  IN  CASE up /\ altgr -> Nul
        [] up          -> shifted[key]
        [] altgr       -> altgram[key]
        [] OTHER       -> regular[key]

(* input_verify                                                            *)
Verify(ch) == IF ch = Backspace THEN keybuffer_index > 0
                                ELSE keybuffer_index < BufferSize

(* The steps of the program a key must not come between: from the load of  *)
(* the index to the end of memcpy; and from the test that found a key to   *)
(* that load, when a backspace takes the last one back.  A build that      *)
(* keeps the index in a register loads it with the test.                   *)
Found == pc \in {"first", "index"} \/ (pc = "test" /\ cached # 0)

Tearing(ch) ==
  \/ pc = "copy" /\ k < n
  \/ Found /\ (reuses \/ (ch = Backspace /\ keybuffer_index = 1))

(* input_copy_to_buffer on a character input_verify lets pass              *)
Store(ch) ==
  IF ch = Backspace
  THEN /\ keybuffer' = [keybuffer EXCEPT ![keybuffer_index - 1] = Nul]
       /\ keybuffer_index' = keybuffer_index - 1
  ELSE /\ keybuffer' = [keybuffer EXCEPT ![keybuffer_index] = ch]
       /\ keybuffer_index' = keybuffer_index + 1

(* A key with a character, and input_copy_to_buffer.                       *)
PressedKey ==
  /\ presses < MaxKeys
  /\ \E key \in Codes :
       LET ch == GetChar(key)
       IN  IF ch # Nul /\ Verify(ch)
           THEN /\ Store(ch)
                /\ pending' = IF ch # Backspace THEN Append(pending, ch)
                              ELSE IF pending = <<>> THEN pending
                              ELSE SubSeq(pending, 1, Len(pending) - 1)
                /\ torn' = (torn \/ Tearing(ch))
           ELSE UNCHANGED <<buffer, pending, torn>>
  /\ presses' = presses + 1
  /\ UNCHANGED <<status, down, read>>
  /\ Wake

(* The timer interrupts every millisecond (pit.c).                         *)
Tick ==
  /\ pc = "hlt"
  /\ UNCHANGED <<buffer, status, down, presses, pending, read, torn>>
  /\ Wake

-----------------------------------------------------------------------------
(* The program *)

ProgramStep == UNCHANGED <<status, down, presses, torn, hoisted, reuses>>

(* bgetch, or bgetch_noblock when there is a key: it loads the index.      *)
Call ==
  /\ Transition("idle", "test")
  /\ cached' = keybuffer_index
  /\ UNCHANGED <<buffer, c, n, k, pending, read>>
  /\ ProgramStep

(* bgetch_noblock returns 0.                                               *)
NoKey ==
  /\ cached = 0
  /\ Transition("test", "idle")
  /\ c' = Nul
  /\ UNCHANGED <<buffer, cached, n, k, pending, read>>
  /\ ProgramStep

(* bgetch waits.                                                           *)
Suspend ==
  /\ cached = 0
  /\ Transition("test", "hlt")
  /\ UNCHANGED <<buffer, cached, c, n, k, pending, read>>
  /\ ProgramStep

Ready ==
  /\ cached # 0
  /\ Transition("test", "first")
  /\ UNCHANGED <<buffer, cached, c, n, k, pending, read>>
  /\ ProgramStep

(* __bgetch: the first byte, the index, and then memcpy.                   *)
First ==
  /\ Transition("first", "index")
  /\ c' = keybuffer[0]
  /\ read' = IF pending = <<>> THEN Nul ELSE Head(pending)
  /\ pending' = IF pending = <<>> THEN pending ELSE Tail(pending)
  /\ UNCHANGED <<buffer, cached, n, k>>
  /\ ProgramStep

Loaded == IF reuses THEN cached ELSE keybuffer_index

Index ==
  /\ Transition("index", "copy")
  /\ n' = Loaded
  /\ keybuffer_index' = Loaded - 1
  /\ k' = 0
  /\ UNCHANGED <<keybuffer, cached, c, pending, read>>
  /\ ProgramStep

(* Mutant: memcpy starts at the end, over the bytes it has yet to read.    *)
CopyFromEnd ==
  /\ pc = "copy" /\ k < n
  /\ keybuffer' = [keybuffer EXCEPT ![n - 1 - k] = keybuffer[n - k]]
  /\ k' = k + 1
  /\ UNCHANGED <<keybuffer_index, pc, cached, c, n, pending, read>>
  /\ ProgramStep

CopyByte ==
  /\ pc = "copy" /\ k < n
  /\ keybuffer' = [keybuffer EXCEPT ![k] = keybuffer[k + 1]]
  /\ k' = k + 1
  /\ UNCHANGED <<keybuffer_index, pc, cached, c, n, pending, read>>
  /\ ProgramStep

Return ==
  /\ k = n
  /\ Transition("copy", "idle")
  /\ UNCHANGED <<buffer, cached, c, n, k, pending, read>>
  /\ ProgramStep

-----------------------------------------------------------------------------
(* The model says nothing of what follows a torn access.                   *)

Interrupt == PressedModifier \/ PressedKey \/ Released \/ Tick
Program   == Call \/ NoKey \/ Suspend \/ Ready \/ First \/ Index \/ CopyByte
             \/ Return

Next == ~ torn /\ (Interrupt \/ Program)

Spec == Init /\ [][Next]_vars

(* The processor goes on with a call in progress, and the timer keeps      *)
(* interrupting; no key has to come.                                       *)
FairSpec ==
  /\ Spec
  /\ WF_vars(~ torn /\ pc # "idle" /\ Program)
  /\ WF_vars(~ torn /\ Tick)

-----------------------------------------------------------------------------
(* Properties *)

(* The index stays within the buffer and its spare byte (input.h:23,       *)
(* kbd.c:177), so that neither a key nor memcpy goes beyond it.            *)
TypeOK ==
  /\ keybuffer \in [0 .. BufferSize -> Chars]
  /\ keybuffer_index \in -1 .. BufferSize
  /\ keybuffer_index = -1 => torn
  /\ shift \in BOOLEAN /\ altgr \in BOOLEAN /\ capslock \in BOOLEAN
  /\ pc \in {"idle", "test", "hlt", "first", "index", "copy"}
  /\ cached \in 0 .. BufferSize
  /\ hoisted \in BOOLEAN /\ reuses \in BOOLEAN
  /\ c \in Chars /\ n \in 0 .. BufferSize /\ k \in 0 .. n
  /\ down \subseteq Modifiers
  /\ presses \in 0 .. MaxKeys
  /\ pending \in Seq(Chars) /\ read \in Chars
  /\ torn \in BOOLEAN

(* Unless a key comes into one of the windows Tearing names, the buffer    *)
(* holds the characters typed and not read, in order, also while memcpy    *)
(* moves them (input.c:28-50).                                             *)
BufferHoldsPending ==
  ~ torn =>
    /\ Len(pending) = IF pc = "index" THEN keybuffer_index - 1 ELSE keybuffer_index
    /\ \A b \in 1 .. Len(pending) :
         pending[b] = keybuffer[IF pc = "index" \/ (pc = "copy" /\ k < n /\ b > k)
                                THEN b ELSE b - 1]

(* And then every character read is the first one typed and not yet read,  *)
(* never the empty byte: bgetch returns a key, once, in the order typed.   *)
ReadInOrder ==
  ~ torn /\ pc \in {"index", "copy"} => c = read /\ c # Nul

(* No modifier sticks: a bit of kbd_status is set only while a key for it  *)
(* is down, whatever keys are pressed and released in between.             *)
NoStuckModifier ==
  /\ shift => down \cap Shifts # {}
  /\ altgr => AltGr \in down

(* A key wakes bgetch, also one that comes between the test of the index   *)
(* and the hlt: the next timer interrupt makes up for the lost one, if the *)
(* build loads the index again (input.c:62).                               *)
KeyWakes ==
  (~ hoisted /\ keybuffer_index > 0 /\ pc \in {"test", "hlt"})
     ~> (torn \/ keybuffer_index = 0 \/ pc \in {"first", "idle"})

(* Keys are kept: outside the windows named by Tearing the buffer holds    *)
(* the keys typed and not read, each is read once and in order, the index  *)
(* stays in the buffer, and no modifier sticks (input.c, kbd.c).           *)
KeysKept == TypeOK /\ BufferHoldsPending /\ ReadInOrder /\ NoStuckModifier
==============================================================================
