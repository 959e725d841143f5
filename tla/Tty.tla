--------------------------------- MODULE Tty ---------------------------------
(***************************************************************************)
(* The terminal, src/drivers/char/tty.c: a frame of Width times Height     *)
(* units in memory, written character by character with wrapping and       *)
(* scrolling, and the requests IOCTL_RESET, IOCTL_CLEAN and IOCTL_PAINT.   *)
(* IOCTL_GATTR only reads.                                                 *)
(*                                                                         *)
(* Beside the frame there is the page the writer has in mind: rows without *)
(* end, of which the frame shows Height.  It is a history variable.        *)
(***************************************************************************)
EXTENDS Integers, Sequences

CONSTANTS
  Width, Height,     (* TTY_MAX_WIDTH and TTY_MAX_HEIGHT                    *)
  Letters,           (* the characters that are shown                       *)
  Signed,            (* those of them that are negative as a char           *)
  Colors,            (* bytes of two colours                                *)
  Strings,           (* what is written: sequences of characters            *)
  Attrs,             (* struct console_attr: [active, xpos, ypos, color]    *)
  Logos,             (* sizes of a logo: <<columns, lines>>                 *)
  MaxScroll          (* bound: lines that may be scrolled away              *)

NewLine == "newline"      \* CONSOLE_CHAR_NEWLINE
Return  == "return"       \* CONSOLE_CHAR_CRETURN
Nul     == "nul"
Space   == "space"        \* CONSOLE_CHAR_SPACE

ASSUME SizeAssumption == Width \in Nat \ {0} /\ Height \in Nat \ {0}

ASSUME AttrAssumption ==
  Attrs \subseteq [active : BOOLEAN, xpos : 0 .. Width - 1, ypos : 0 .. Height, color : Colors]

ASSUME StringAssumption == Strings \subseteq Seq(Letters \cup {NewLine, Return, Nul})

ASSUME LogoAssumption == Logos \subseteq (Nat \X Nat) /\ MaxScroll \in Nat

VARIABLES
  cons,              (* struct console: [active, xpos, ypos, color]         *)
  frame,             (* the units at fbaddr: [char, color]                  *)
  cursor,            (* the position in the registers of the display        *)
  buffer,            (* what is left of the string that is written          *)
  outside,           (* history: a unit behind the frame was written        *)
  page,              (* history: the characters of row r from column 0      *)
  top                (* history: the lines that were scrolled away          *)

vars == <<cons, frame, cursor, buffer, outside, page, top>>

Units == 0 .. Width * Height - 1

(* console_unit, in units of the frame.                                    *)
Unit(xpos, ypos) == xpos + Width * ypos

(* tty_char: a negative character covers the byte of the colours.          *)
TtyChar(c) == [char |-> c, color |-> IF c \in Signed THEN "all" ELSE cons.color]

Blank == [k \in Units |-> TtyChar(Space)]
NoText == [k \in 0 .. MaxScroll + Height - 1 |-> [x \in 0 .. Width - 1 |-> Space]]

Init ==
  /\ cons \in [active : {TRUE}, xpos : {0}, ypos : {0}, color : Colors]
  /\ frame = Blank /\ cursor = 0 /\ buffer = <<>>
  /\ outside = FALSE /\ page = NoText /\ top = 0

-----------------------------------------------------------------------------
(* __tty_write *)

(* The offset of the file is 0: nobody seeks in a terminal.                *)
TtyWrite(s) ==
  /\ buffer = <<>> /\ buffer' = s
  /\ top + Len(s) <= MaxScroll
  /\ UNCHANGED <<cons, frame, cursor, outside, page, top>>

(* The loop ends at the first NUL.                                         *)
WriteEnds ==
  /\ buffer # <<>> /\ Head(buffer) = Nul /\ buffer' = <<>>
  /\ UNCHANGED <<cons, frame, cursor, outside, page, top>>

(* tty_scroll by one line: memmove, then spaces in the last line.          *)
TtyScroll ==
  [k \in Units |-> IF k + Width \in Units THEN frame[k + Width] ELSE TtyChar(Space)]

(* Mutant: the last line is not scrolled.                                  *)
BelowLast == cons.ypos > Height

Below == cons.ypos >= Height

(* Mutant: the character behind the last column stays on the line.         *)
AdvanceLate(x, y) == IF x > Width THEN [cons EXCEPT !.xpos = 0, !.ypos = y + 1]
                     ELSE [cons EXCEPT !.xpos = x, !.ypos = y]

(* Where the cursor is after column x - 1 was written.                     *)
Advance(x, y) == IF x >= Width THEN [cons EXCEPT !.xpos = 0, !.ypos = y + 1]
                 ELSE [cons EXCEPT !.xpos = x, !.ypos = y]

(* One turn of the loop.                                                   *)
PutChar ==
  /\ buffer # <<>> /\ Head(buffer) # Nul
  /\ LET c == Head(buffer)
         y == IF Below THEN cons.ypos - 1 ELSE cons.ypos
         shown == IF Below THEN TtyScroll ELSE frame
         unit == Unit(cons.xpos, y)
     IN  /\ top' = IF Below THEN top + 1 ELSE top
         /\ cursor' = IF cons.active THEN unit ELSE cursor
         /\ IF c \in {NewLine, Return}
            THEN /\ cons' = [cons EXCEPT !.xpos = 0, !.ypos = IF c = NewLine THEN y + 1 ELSE y]
                 /\ frame' = shown /\ UNCHANGED <<outside, page>>
            ELSE /\ cons' = Advance(cons.xpos + 1, y)
                 /\ frame' = [k \in Units |-> IF k = unit THEN TtyChar(c) ELSE shown[k]]
                 /\ outside' = (outside \/ unit \notin Units)
                 /\ page' = [page EXCEPT ![top + cons.ypos][cons.xpos] = c]
  /\ buffer' = Tail(buffer)

-----------------------------------------------------------------------------
(* tty_ioctl *)

(* tty_reset: tty_cursor_enable when the attributes say so.                *)
Reset(a) ==
  /\ cons' = [a EXCEPT !.active = cons.active \/ a.active]
  /\ cursor' = IF a.active THEN Unit(a.xpos, a.ypos) ELSE cursor

TtyReset(a) ==
  /\ buffer = <<>> /\ Reset(a)
  /\ UNCHANGED <<frame, buffer, outside, page, top>>

(* What is on the rows the frame shows, and on none above.                 *)
Shown(r) == r \in top .. top + Height - 1

(* tty_clean with attributes, whose colours it uses.                       *)
TtyClean(a) ==
  /\ buffer = <<>> /\ Reset(a)
  /\ frame' = [k \in Units |-> [char |-> Space, color |-> a.color]]
  /\ page' = [r \in DOMAIN page |-> IF Shown(r) THEN NoText[r] ELSE page[r]]
  /\ UNCHANGED <<buffer, outside, top>>

(* tty_clean without: the position stays and the cursor is disabled.       *)
TtyCleanAll ==
  /\ buffer = <<>>
  /\ frame' = Blank
  /\ cursor' = Unit(cons.xpos, cons.ypos) /\ cons' = [cons EXCEPT !.active = FALSE]
  /\ page' = [r \in DOMAIN page |-> IF Shown(r) THEN NoText[r] ELSE page[r]]
  /\ UNCHANGED <<buffer, outside, top>>

(* tty_paint: two lines of the logo make a row, and the number of lines is *)
(* cut off at the height of the frame as if each made one.                 *)
PaintRows(lines) ==
  LET maxh == IF cons.ypos + lines < Height THEN cons.ypos + lines ELSE Height
  IN  {cons.ypos + n : n \in {m \in 0 .. Height : cons.ypos + 2 * m < maxh}}

PaintColumns(columns) ==
  LET maxw == IF cons.xpos + columns < Width THEN cons.xpos + columns ELSE Width
  IN  cons.xpos .. maxw - 1

TtyPaint(columns, lines) ==
  /\ buffer = <<>>
  /\ LET painted == {Unit(x, y) : x \in PaintColumns(columns), y \in PaintRows(lines)}
     IN  /\ frame' = [k \in Units |-> IF k \in painted THEN [char |-> "logo", color |-> "logo"]
                                      ELSE frame[k]]
         /\ outside' = (outside \/ ~ (painted \subseteq Units))
  /\ page' = [r \in DOMAIN page |-> [x \in 0 .. Width - 1 |->
                IF r - top \in PaintRows(lines) /\ x \in PaintColumns(columns) THEN "logo"
                ELSE page[r][x]]]
  /\ UNCHANGED <<cons, cursor, buffer, top>>

Write   == \E s \in Strings : TtyWrite(s)
Request == \/ \E a \in Attrs : TtyReset(a) \/ TtyClean(a)
           \/ TtyCleanAll
           \/ \E size \in Logos : TtyPaint(size[1], size[2])

Next == Write \/ WriteEnds \/ PutChar \/ Request

Spec == Init /\ [][Next]_vars

-----------------------------------------------------------------------------
(* Properties *)

(* The types of the state.                                                 *)
TypeOK ==
  /\ cons \in [active : BOOLEAN, xpos : 0 .. Width - 1, ypos : 0 .. Height, color : Colors]
  /\ outside \in BOOLEAN

(* No character and no logo is ever stored behind the frame, whatever is   *)
(* written, wherever the cursor was put and however often the text wraps   *)
(* and scrolls: tty.c:179-182 scrolls before it writes, and tty.c:197-200  *)
(* never leaves the column behind the last.                                *)
InFrame == ~ outside

(* The frame shows the last rows of all that was written, each character   *)
(* at the row and the column the writer had in mind: no line is lost, shown*)
(* twice or broken at another column by scrolling (tty.c:151-202).         *)
ShowsText ==
  \A y \in 0 .. Height - 1, x \in 0 .. Width - 1 :
    frame[Unit(x, y)].char = page[top + y][x]
==============================================================================
