---------------------------- MODULE LoaderProofs ----------------------------
(***************************************************************************)
(* Proofs for the loader and for the terminal it draws on.                 *)
(*                                                                         *)
(* Loader: for every set of texts of elfboot.cfg, every timeout and every  *)
(* screen.  The invariant of the parser says what it has made of the lines *)
(* read so far, the one of the menu what is on the screen but for what is  *)
(* still to be drawn, and where the interrupt may come.                    *)
(*                                                                         *)
(* Terminal: for frames, strings, attributes and logos of any size.  The   *)
(* invariant adds to the properties that the page is a function wide       *)
(* enough for what is left of the string, and that the rows below the      *)
(* frame are still empty: this is what a scroll brings into it.            *)
(***************************************************************************)
EXTENDS Tty, Loader, FiniteSetTheorems, TLAPS

-----------------------------------------------------------------------------
(* The terminal *)

Rows    == 0 .. MaxScroll + Height - 1
Columns == 0 .. Width - 1

(* The bound on the lines scrolled away covers the string in the buffer.   *)
BufferBounded == top \in Nat /\ buffer \in Seq(Letters \cup {NewLine, Return, Nul})
           /\ top + Len(buffer) <= MaxScroll

(* The page and the frame are functions on rows, columns and units.        *)
TtyFunctions ==
             /\ page = [r \in Rows |-> [x \in Columns |-> page[r][x]]]
             /\ frame = [k \in Units |-> frame[k]]

(* Nothing is written below the frame, but by a cursor that was put there: *)
(* the row under the last is written only after it has scrolled in.        *)
BelowEmpty == \A r \in Rows, x \in Columns : r >= top + Height => page[r][x] = Space

TtyInv == TypeOK /\ InFrame /\ BufferBounded /\ TtyFunctions /\ BelowEmpty /\ ShowsText

-----------------------------------------------------------------------------
(* Arithmetic of the frame *)

(* A longer column of rows takes at least as many units.                   *)
LEMMA MonotoneRows ==
  ASSUME NEW a \in Nat, NEW b \in Nat, a < b
  PROVE  Width * a + Width <= Width * b
<1>1. PICK d \in Nat : b = a + 1 + d
  <2>1. b - a - 1 \in Nat /\ b = a + 1 + (b - a - 1)
    OBVIOUS
  <2> QED BY <2>1
<1>2. Width * b = Width * a + Width + Width * d /\ Width * d >= 0
  BY <1>1, SizeAssumption
<1>3. Width * a \in Nat /\ Width * b \in Nat /\ Width * d \in Nat
  BY <1>1, SizeAssumption
<1> QED BY <1>2, <1>3, SizeAssumption

(* A row and a column of the frame give a unit of the frame.               *)
LEMMA UnitInFrame ==
  ASSUME NEW x \in Columns, NEW y \in 0 .. Height - 1
  PROVE  Unit(x, y) \in Units
<1>1. y \in Nat /\ Height \in Nat /\ y < Height /\ Width \in Nat
  BY SizeAssumption
<1>2. Width * y + Width <= Width * Height
  BY <1>1, MonotoneRows
<1>3. Width * y \in Nat /\ Width * Height \in Nat
  BY <1>1
<1> QED BY <1>1, <1>2, <1>3 DEF Unit, Units, Columns

(* Two places of the frame with the same unit are the same place.           *)
LEMMA UnitInjective ==
  ASSUME NEW x \in Columns, NEW y \in Nat, NEW u \in Columns, NEW v \in Nat,
         Unit(x, y) = Unit(u, v)
  PROVE  x = u /\ y = v
<1>1. Width \in Nat /\ Width * y \in Nat /\ Width * v \in Nat /\ x \in Nat /\ u \in Nat
      /\ x < Width /\ u < Width
  BY SizeAssumption DEF Columns
<1>2. ~ (y < v)
  <2>1. SUFFICES ASSUME y < v PROVE FALSE
    OBVIOUS
  <2>2. Width * y + Width <= Width * v
    BY <2>1, MonotoneRows
  <2> QED BY <1>1, <2>2 DEF Unit
<1>3. ~ (v < y)
  <2>1. SUFFICES ASSUME v < y PROVE FALSE
    OBVIOUS
  <2>2. Width * v + Width <= Width * y
    BY <2>1, MonotoneRows
  <2> QED BY <1>1, <2>2 DEF Unit
<1>4. y = v
  BY <1>2, <1>3
<1> QED BY <1>1, <1>4 DEF Unit

(* The unit below is a line further.                                       *)
LEMMA UnitBelow ==
  ASSUME NEW x \in Columns, NEW y \in Nat
  PROVE  Unit(x, y) + Width = Unit(x, y + 1)
<1>1. Width * (y + 1) = Width * y + Width /\ Width * y \in Nat /\ Width \in Nat /\ x \in Nat
  BY SizeAssumption DEF Columns
<1> QED BY <1>1 DEF Unit

(* No unit of the frame is below the last row.                             *)
LEMMA UnitOutside ==
  ASSUME NEW x \in Columns
  PROVE  Unit(x, Height) \notin Units
<1>1. Width * Height \in Nat /\ x \in Nat
  BY SizeAssumption DEF Columns
<1> QED BY <1>1 DEF Unit, Units

-----------------------------------------------------------------------------
(* The initial state *)

LEMMA InitTty == Init => TtyInv
<1> SUFFICES ASSUME Init PROVE TtyInv
  OBVIOUS
<1>1. TypeOK /\ InFrame
  <2>1. PICK color \in Colors : cons = [active |-> TRUE, xpos |-> 0, ypos |-> 0, color |-> color]
    BY DEF Init
  <2>2. 0 \in 0 .. Width - 1 /\ 0 \in 0 .. Height
    BY SizeAssumption
  <2> QED BY <2>1, <2>2 DEF Init, TypeOK, InFrame
<1>2. BufferBounded
  BY LogoAssumption DEF Init, BufferBounded
<1>3. TtyFunctions
  BY DEF Init, TtyFunctions, NoText, Blank, Rows, Columns
<1>4. BelowEmpty
  BY DEF Init, BelowEmpty, NoText, Rows, Columns
<1>5. ShowsText
  <2> SUFFICES ASSUME NEW y \in 0 .. Height - 1, NEW x \in Columns
               PROVE  frame[Unit(x, y)].char = page[top + y][x]
    BY DEF ShowsText, Columns
  <2>1. frame[Unit(x, y)] = TtyChar(Space)
    BY UnitInFrame DEF Init, Blank
  <2>2. top + y \in Rows
    BY SizeAssumption, LogoAssumption DEF Init, Rows
  <2>3. page[top + y][x] = Space
    BY <2>2 DEF Init, NoText, Rows, Columns
  <2> QED BY <2>1, <2>3 DEF TtyChar
<1> QED BY <1>1, <1>2, <1>3, <1>4, <1>5 DEF TtyInv

-----------------------------------------------------------------------------
(* __tty_write *)

LEMMA WriteInv ==
  ASSUME TtyInv, NEW s \in Strings, TtyWrite(s)
  PROVE  TtyInv'
<1>1. BufferBounded'
  BY StringAssumption DEF TtyInv, BufferBounded, TtyWrite
<1>2. UNCHANGED <<cons, frame, outside, page, top>>
  BY DEF TtyWrite
<1> QED BY <1>1, <1>2 DEF TtyInv, TypeOK, InFrame, TtyFunctions, BelowEmpty, ShowsText, Rows,
           Columns, Units, Unit

LEMMA EndsInv ==
  ASSUME TtyInv, WriteEnds
  PROVE  TtyInv'
<1>1. BufferBounded'
  BY LogoAssumption DEF TtyInv, BufferBounded, WriteEnds
<1>2. UNCHANGED <<cons, frame, outside, page, top>>
  BY DEF WriteEnds
<1> QED BY <1>1, <1>2 DEF TtyInv, TypeOK, InFrame, TtyFunctions, BelowEmpty, ShowsText, Rows,
           Columns, Units, Unit

(* What the frame shows after a scroll: the rows one further down.         *)
LEMMA ScrollShows ==
  ASSUME TtyInv, top + Height \in Rows, NEW y \in 0 .. Height - 1, NEW x \in Columns
  PROVE  TtyScroll[Unit(x, y)].char = page[top + 1 + y][x]
<1>1. y \in Nat /\ Height \in Nat /\ top \in Nat
  BY SizeAssumption DEF TtyInv, BufferBounded
<1>2. Unit(x, y) \in Units /\ Unit(x, y) + Width = Unit(x, y + 1)
  BY <1>1, UnitInFrame, UnitBelow
<1>3. CASE y + 1 < Height
  <2>1. y + 1 \in 0 .. Height - 1
    BY <1>1, <1>3
  <2>2. Unit(x, y + 1) \in Units
    BY <2>1, UnitInFrame
  <2>3. TtyScroll[Unit(x, y)] = frame[Unit(x, y + 1)]
    BY <1>2, <2>2 DEF TtyScroll
  <2>4. frame[Unit(x, y + 1)].char = page[top + (y + 1)][x]
    BY <2>1 DEF TtyInv, ShowsText, Columns
  <2>5. top + (y + 1) = top + 1 + y
    BY <1>1
  <2> QED BY <2>3, <2>4, <2>5
<1>4. CASE y + 1 = Height
  <2>1. Unit(x, y + 1) \notin Units
    BY <1>4, UnitOutside
  <2>2. TtyScroll[Unit(x, y)] = TtyChar(Space)
    BY <1>2, <2>1 DEF TtyScroll
  <2>3. top + 1 + y = top + Height
    BY <1>1, <1>4
  <2>4. page[top + Height][x] = Space
    BY <1>1 DEF TtyInv, BelowEmpty
  <2> QED BY <2>2, <2>3, <2>4 DEF TtyChar
<1> QED BY <1>1, <1>3, <1>4

(* A row under the frame is under the row that is written.                 *)
LEMMA UnderFrame ==
  \A r, t, u, y, h \in Nat :
    (r >= u + h /\ y < h /\ t <= u) => (r # u + y /\ r >= t + h)
  OBVIOUS

(* A row of the frame is a row of the page.                                *)
LEMMA FrameRow ==
  \A t, y, h, m \in Nat : (t <= m /\ y < h) => t + y \in 0 .. m + h - 1
  OBVIOUS

(* The row and the frame a character is written to, after the scroll.      *)
Row    == IF Below THEN cons.ypos - 1 ELSE cons.ypos
Target == IF Below THEN TtyScroll ELSE frame

(* Where PutChar works: inside the frame, on the row the writer means.     *)
LEMMA PutPlace ==
  ASSUME TtyInv, PutChar
  PROVE  /\ cons.xpos \in Columns /\ Row \in 0 .. Height - 1 /\ top \in Nat /\ top' \in Nat
         /\ top' + Row = top + cons.ypos /\ top + cons.ypos \in Rows
         /\ Unit(cons.xpos, Row) \in Units
         /\ Below => top' = top + 1 /\ top + Height \in Rows
         /\ ~ Below => top' = top
         /\ top' + Len(buffer') <= MaxScroll
         /\ buffer' \in Seq(Letters \cup {NewLine, Return, Nul})
<1>1. /\ Width \in Nat \ {0} /\ Height \in Nat \ {0} /\ MaxScroll \in Nat
      /\ cons.xpos \in 0 .. Width - 1 /\ cons.ypos \in 0 .. Height
      /\ top \in Nat /\ top + Len(buffer) <= MaxScroll
  BY SizeAssumption, LogoAssumption DEF TtyInv, TypeOK, BufferBounded
<1>2. /\ buffer' \in Seq(Letters \cup {NewLine, Return, Nul})
      /\ Len(buffer) \in Nat /\ Len(buffer) >= 1 /\ Len(buffer') = Len(buffer) - 1
  <2>1. buffer \in Seq(Letters \cup {NewLine, Return, Nul}) /\ buffer # <<>>
        /\ buffer' = Tail(buffer)
    BY DEF TtyInv, BufferBounded, PutChar
  <2> QED BY <2>1
<1>3. top' = IF Below THEN top + 1 ELSE top
  BY DEF PutChar
<1>4. cons.xpos \in Columns /\ Row \in 0 .. Height - 1
  BY <1>1 DEF Row, Below, Columns
<1>5. Unit(cons.xpos, Row) \in Units
  BY <1>4, UnitInFrame
<1>6. top' \in Nat /\ top' + Row = top + cons.ypos
  BY <1>1, <1>3 DEF Row
<1>7. top + cons.ypos \in Rows
  BY <1>1, <1>2 DEF Rows
<1>8. (Below => top' = top + 1 /\ top + Height \in Rows) /\ (~ Below => top' = top)
  BY <1>1, <1>2, <1>3 DEF Rows
<1>9. top' + Len(buffer') <= MaxScroll
  <2>1. CASE Below
    BY <1>1, <1>2, <1>3, <2>1
  <2>2. CASE ~ Below
    BY <1>1, <1>2, <1>3, <2>2
  <2> QED BY <2>1, <2>2
<1> QED BY <1>1, <1>2, <1>4, <1>5, <1>6, <1>7, <1>8, <1>9

(* Before the character is stored the frame shows the page.                *)
LEMMA TargetShows ==
  ASSUME TtyInv, PutChar, NEW y \in 0 .. Height - 1, NEW x \in Columns
  PROVE  Target[Unit(x, y)].char = page[top' + y][x]
<1>1. CASE Below
  <2>1. top' = top + 1 /\ top + Height \in Rows
    BY <1>1, PutPlace
  <2> QED BY <1>1, <2>1, ScrollShows DEF Target
<1>2. CASE ~ Below
  <2>1. top' = top
    BY <1>2, PutPlace
  <2> QED BY <1>2, <2>1 DEF Target, TtyInv, ShowsText, Columns
<1> QED BY <1>1, <1>2

LEMMA PutInv ==
  ASSUME TtyInv, PutChar
  PROVE  TtyInv'
<1> DEFINE ch == Head(buffer)
           unit == Unit(cons.xpos, Row)
           control == ch \in {NewLine, Return}
<1>1. /\ cons.xpos \in Columns /\ Row \in 0 .. Height - 1 /\ top \in Nat /\ top' \in Nat
      /\ top' + Row = top + cons.ypos /\ top + cons.ypos \in Rows /\ unit \in Units
      /\ Below => top' = top + 1
      /\ ~ Below => top' = top
  BY PutPlace
<1>2. control =>
        /\ cons' = [cons EXCEPT !.xpos = 0, !.ypos = IF ch = NewLine THEN Row + 1 ELSE Row]
        /\ frame' = Target /\ outside' = outside /\ page' = page
  BY DEF PutChar, Row, Target
<1>3. ~ control =>
        /\ cons' = Advance(cons.xpos + 1, Row)
        /\ frame' = [k \in Units |-> IF k = unit THEN TtyChar(ch) ELSE Target[k]]
        /\ outside' = (outside \/ unit \notin Units)
        /\ page' = [page EXCEPT ![top + cons.ypos][cons.xpos] = ch]
  BY DEF PutChar, Row, Target
<1>4. TypeOK'
  <2>1. cons \in [active : BOOLEAN, xpos : 0 .. Width - 1, ypos : 0 .. Height, color : Colors]
        /\ outside \in BOOLEAN
    BY DEF TtyInv, TypeOK
  <2>2. Row + 1 \in 0 .. Height /\ Row \in 0 .. Height /\ 0 \in 0 .. Width - 1
    BY <1>1, SizeAssumption
  <2>3. CASE control
    BY <1>2, <2>1, <2>2, <2>3 DEF TypeOK
  <2>4. CASE ~ control
    <3>1. cons.xpos + 1 < Width => cons.xpos + 1 \in 0 .. Width - 1
      BY <2>1, SizeAssumption
    <3>2. ~ (cons.xpos + 1 >= Width) => cons.xpos + 1 < Width
      BY <2>1, SizeAssumption
    <3> QED BY <1>3, <2>1, <2>2, <2>4, <3>1, <3>2 DEF TypeOK, Advance
  <2> QED BY <2>3, <2>4
<1>5. InFrame'
  BY <1>1, <1>2, <1>3 DEF TtyInv, InFrame
<1>6. BufferBounded'
  BY PutPlace DEF BufferBounded
<1>7. TtyFunctions'
  <2>1. Target = [k \in Units |-> Target[k]]
    BY DEF Target, TtyScroll, TtyInv, TtyFunctions
  <2>2. page = [r \in Rows |-> [x \in Columns |-> page[r][x]]]
    BY DEF TtyInv, TtyFunctions
  <2>3. frame' = [k \in Units |-> frame'[k]]
    BY <1>2, <1>3, <2>1
  <2>4. page' = [r \in Rows |-> [x \in Columns |-> page'[r][x]]]
    BY <1>2, <1>3, <2>2
  <2> QED BY <2>3, <2>4 DEF TtyFunctions, Rows, Columns, Units
<1>8. \A r \in Rows, x \in Columns :
        page'[r][x] = IF ~ control /\ r = top' + Row /\ x = cons.xpos THEN ch ELSE page[r][x]
  <2>1. page = [r \in Rows |-> [x \in Columns |-> page[r][x]]]
    BY DEF TtyInv, TtyFunctions
  <2> QED BY <1>1, <1>2, <1>3, <2>1
<1>9. BelowEmpty'
  <2> SUFFICES ASSUME NEW r \in Rows, NEW x \in Columns, r >= top' + Height
               PROVE  page'[r][x] = Space
    BY DEF BelowEmpty, Rows, Columns
  <2>1. Height \in Nat /\ r \in Nat
    BY SizeAssumption, LogoAssumption DEF Rows
  <2>2. r # top' + Row /\ r >= top + Height
    <3>1. Row \in Nat /\ Row < Height /\ top \in Nat /\ top' \in Nat
      BY <1>1, <2>1
    <3>2. top <= top'
      BY <1>1, <3>1
    <3> HIDE DEF unit, ch, control
    <3> QED BY <2>1, <3>1, <3>2, UnderFrame
  <2>3. page[r][x] = Space
    BY <2>2 DEF TtyInv, BelowEmpty
  <2> QED BY <1>8, <2>2, <2>3
<1>10. ShowsText'
  <2> SUFFICES ASSUME NEW y \in 0 .. Height - 1, NEW x \in Columns
               PROVE  frame'[Unit(x, y)].char = page'[top' + y][x]
    BY DEF ShowsText, Columns, Unit
  <2>1. Target[Unit(x, y)].char = page[top' + y][x]
    BY TargetShows
  <2>2. top' + y \in Rows /\ y \in Nat /\ Row \in Nat
    <3>1. top' <= MaxScroll
      <4>1. top' + Len(buffer') <= MaxScroll
            /\ buffer' \in Seq(Letters \cup {NewLine, Return, Nul})
        BY PutPlace
      <4>2. Len(buffer') \in Nat
        BY <4>1
      <4> QED BY <1>1, <4>1, <4>2, LogoAssumption
    <3>2. y \in Nat /\ y < Height /\ Row \in Nat /\ top' \in Nat /\ Height \in Nat
      BY <1>1, SizeAssumption
    <3>3. top' + y \in 0 .. MaxScroll + Height - 1
      BY <3>1, <3>2, LogoAssumption, FrameRow
    <3> QED BY <3>2, <3>3 DEF Rows
  <2>3. Unit(x, y) \in Units
    BY UnitInFrame
  <2>4. CASE control
    BY <1>2, <1>8, <2>1, <2>2, <2>4
  <2>5. CASE ~ control /\ Unit(x, y) = unit
    <3>1. x = cons.xpos /\ y = Row
      BY <1>1, <2>2, <2>5, UnitInjective
    <3>2. frame'[Unit(x, y)] = TtyChar(ch)
      BY <1>3, <2>3, <2>5
    <3> QED BY <1>8, <2>2, <2>5, <3>1, <3>2 DEF TtyChar
  <2>6. CASE ~ control /\ Unit(x, y) # unit
    <3>1. ~ (x = cons.xpos /\ y = Row)
      BY <2>6
    <3>2. ~ (x = cons.xpos /\ top' + y = top' + Row)
      BY <1>1, <2>2, <3>1
    <3>3. frame'[Unit(x, y)] = Target[Unit(x, y)]
      BY <1>3, <2>3, <2>6
    <3> QED BY <1>8, <2>1, <2>2, <3>2, <3>3
  <2> QED BY <2>4, <2>5, <2>6
<1> QED BY <1>4, <1>5, <1>6, <1>7, <1>9, <1>10 DEF TtyInv

-----------------------------------------------------------------------------
(* tty_ioctl *)

(* The attributes of a request put the cursor into the frame or below it.  *)
LEMMA ResetType ==
  ASSUME TtyInv, NEW a \in Attrs, Reset(a), outside' \in BOOLEAN
  PROVE  TypeOK'
<1>1. a \in [active : BOOLEAN, xpos : 0 .. Width - 1, ypos : 0 .. Height, color : Colors]
  BY AttrAssumption
<1>2. cons.active \in BOOLEAN
  BY DEF TtyInv, TypeOK
<1>3. (cons.active \/ a.active) \in BOOLEAN
  BY <1>1, <1>2
<1> QED BY <1>1, <1>3 DEF Reset, TypeOK

LEMMA ResetInv ==
  ASSUME TtyInv, NEW a \in Attrs, TtyReset(a)
  PROVE  TtyInv'
<1>1. UNCHANGED <<frame, buffer, outside, page, top>> /\ Reset(a)
  BY DEF TtyReset
<1>2. TypeOK'
  BY <1>1, ResetType DEF TtyInv, TypeOK
<1> QED BY <1>1, <1>2 DEF TtyInv, InFrame, BufferBounded, TtyFunctions, BelowEmpty, ShowsText, Rows,
           Columns, Units, Unit

(* When the frame and the rows it shows are cleared, it shows the page.    *)
LEMMA CleanShows ==
  ASSUME TtyInv, NEW color,
         frame' = [k \in Units |-> [char |-> Space, color |-> color]],
         page' = [r \in DOMAIN page |-> IF Shown(r) THEN NoText[r] ELSE page[r]],
         UNCHANGED <<buffer, outside, top>>
  PROVE  InFrame' /\ BufferBounded' /\ TtyFunctions' /\ BelowEmpty' /\ ShowsText'
<1>1. page = [r \in Rows |-> [x \in Columns |-> page[r][x]]]
  BY DEF TtyInv, TtyFunctions
<1>2. \A r \in Rows : NoText[r] = [x \in Columns |-> Space]
  BY DEF NoText, Rows, Columns
<1>3. DOMAIN page = Rows
  BY <1>1
<1>4. \A r \in Rows : page'[r] = IF Shown(r) THEN [x \in Columns |-> Space] ELSE page[r]
  BY <1>2, <1>3
<1>5. \A r \in Rows, x \in Columns : page'[r][x] = IF Shown(r) THEN Space ELSE page[r][x]
  BY <1>4
<1>6. InFrame' /\ BufferBounded'
  BY DEF TtyInv, InFrame, BufferBounded
<1>7. TtyFunctions'
  <2>1. \A r \in Rows : page'[r] = [x \in Columns |-> page'[r][x]]
    <3> SUFFICES ASSUME NEW r \in Rows PROVE page'[r] = [x \in Columns |-> page'[r][x]]
      OBVIOUS
    <3>1. page[r] = [x \in Columns |-> page[r][x]]
      BY <1>1
    <3>2. CASE Shown(r)
      BY <1>4, <3>2
    <3>3. CASE ~ Shown(r)
      BY <1>4, <3>1, <3>3
    <3> QED BY <3>2, <3>3
  <2>2. page' = [r \in Rows |-> page'[r]]
    BY <1>3
  <2>3. page' = [r \in Rows |-> [x \in Columns |-> page'[r][x]]]
    BY <2>1, <2>2
  <2> QED BY <2>3 DEF TtyFunctions, Rows, Columns, Units
<1>8. BelowEmpty'
  BY <1>5 DEF TtyInv, BelowEmpty, Rows, Columns
<1>9. ShowsText'
  <2> SUFFICES ASSUME NEW y \in 0 .. Height - 1, NEW x \in Columns
               PROVE  frame'[Unit(x, y)].char = page'[top' + y][x]
    BY DEF ShowsText, Columns, Unit
  <2>1. y \in Nat /\ y < Height /\ top \in Nat /\ top <= MaxScroll
    <3>1. Len(buffer) \in Nat
      BY DEF TtyInv, BufferBounded
    <3> QED BY <3>1, SizeAssumption, LogoAssumption DEF TtyInv, BufferBounded
  <2>2. top + y \in Rows
    BY <2>1, SizeAssumption, LogoAssumption, FrameRow DEF Rows
  <2>3. Shown(top + y)
    BY <2>1, SizeAssumption DEF Shown
  <2>4. frame'[Unit(x, y)].char = Space
    BY UnitInFrame
  <2> QED BY <1>5, <2>2, <2>3, <2>4
<1> QED BY <1>6, <1>7, <1>8, <1>9

LEMMA CleanInv ==
  ASSUME TtyInv, NEW a \in Attrs, TtyClean(a)
  PROVE  TtyInv'
<1>1. TypeOK'
  BY ResetType DEF TtyClean, TtyInv, TypeOK
<1>2. InFrame' /\ BufferBounded' /\ TtyFunctions' /\ BelowEmpty' /\ ShowsText'
  BY CleanShows DEF TtyClean
<1> QED BY <1>1, <1>2 DEF TtyInv

LEMMA CleanAllInv ==
  ASSUME TtyInv, TtyCleanAll
  PROVE  TtyInv'
<1>1. TypeOK'
  BY DEF TtyCleanAll, TtyInv, TypeOK
<1>2. TtyChar(Space) = [char |-> Space, color |-> IF Space \in Signed THEN "all" ELSE cons.color]
  BY DEF TtyChar
<1>3. frame' = [k \in Units |-> [char |-> Space,
                                 color |-> IF Space \in Signed THEN "all" ELSE cons.color]]
  BY <1>2 DEF TtyCleanAll, Blank
<1>4. InFrame' /\ BufferBounded' /\ TtyFunctions' /\ BelowEmpty' /\ ShowsText'
  BY <1>3, CleanShows DEF TtyCleanAll
<1> QED BY <1>1, <1>4 DEF TtyInv

(* A logo is cut off at the borders of the frame.                          *)
LEMMA PaintedInFrame ==
  ASSUME TtyInv, NEW columns \in Nat, NEW lines \in Nat
  PROVE  /\ PaintColumns(columns) \subseteq Columns
         /\ PaintRows(lines) \subseteq 0 .. Height - 1
<1>1. cons.xpos \in 0 .. Width - 1 /\ cons.ypos \in 0 .. Height
  BY DEF TtyInv, TypeOK
<1> QED BY <1>1, SizeAssumption DEF PaintColumns, PaintRows, Columns

LEMMA PaintInv ==
  ASSUME TtyInv, NEW columns \in Nat, NEW lines \in Nat, TtyPaint(columns, lines)
  PROVE  TtyInv'
<1> DEFINE painted == {Unit(x, y) : x \in PaintColumns(columns), y \in PaintRows(lines)}
           inside(r, x) == r - top \in PaintRows(lines) /\ x \in PaintColumns(columns)
<1>1. painted \subseteq Units
  BY PaintedInFrame, UnitInFrame
<1>2. /\ frame' = [k \in Units |-> IF k \in painted THEN [char |-> "logo", color |-> "logo"]
                                   ELSE frame[k]]
      /\ page' = [r \in DOMAIN page |-> [x \in 0 .. Width - 1 |->
                    IF inside(r, x) THEN "logo" ELSE page[r][x]]]
      /\ outside' = (outside \/ ~ (painted \subseteq Units))
      /\ UNCHANGED <<cons, cursor, buffer, top>>
  BY DEF TtyPaint
<1>3. TypeOK' /\ InFrame' /\ BufferBounded'
  BY <1>1, <1>2 DEF TtyInv, TypeOK, InFrame, BufferBounded
<1>4. DOMAIN page = Rows
  BY DEF TtyInv, TtyFunctions
<1>5. page' = [r \in Rows |-> [x \in Columns |-> IF inside(r, x) THEN "logo" ELSE page[r][x]]]
  BY <1>2, <1>4 DEF Columns
<1>6. TtyFunctions'
  <2>1. page' = [r \in Rows |-> [x \in Columns |-> page'[r][x]]]
    BY <1>5
  <2> QED BY <1>2, <2>1 DEF TtyFunctions, Rows, Columns, Units
<1>7. BelowEmpty'
  <2> SUFFICES ASSUME NEW r \in Rows, NEW x \in Columns, r >= top + Height
               PROVE  page'[r][x] = Space
    BY <1>2 DEF BelowEmpty, Rows, Columns
  <2>1. r \in Nat /\ top \in Nat /\ Height \in Nat
    BY SizeAssumption, LogoAssumption DEF Rows, TtyInv, BufferBounded
  <2>2. r - top \notin 0 .. Height - 1
    BY <2>1
  <2>3. ~ inside(r, x)
    BY <2>2, PaintedInFrame
  <2>4. page'[r][x] = page[r][x]
    BY <1>5, <2>3
  <2> QED BY <2>4 DEF TtyInv, BelowEmpty
<1>8. ShowsText'
  <2> SUFFICES ASSUME NEW y \in 0 .. Height - 1, NEW x \in Columns
               PROVE  frame'[Unit(x, y)].char = page'[top + y][x]
    BY <1>2 DEF ShowsText, Columns, Unit
  <2>1. y \in Nat /\ y < Height /\ top \in Nat /\ top <= MaxScroll
    <3>1. Len(buffer) \in Nat
      BY DEF TtyInv, BufferBounded
    <3> QED BY <3>1, SizeAssumption, LogoAssumption DEF TtyInv, BufferBounded
  <2>2. top + y \in Rows /\ (top + y) - top = y
    BY <2>1, SizeAssumption, LogoAssumption, FrameRow DEF Rows
  <2>3. Unit(x, y) \in Units
    BY UnitInFrame
  <2>4. Unit(x, y) \in painted <=> inside(top + y, x)
    <3>1. ASSUME inside(top + y, x) PROVE Unit(x, y) \in painted
      BY <2>2, <3>1
    <3>2. ASSUME Unit(x, y) \in painted PROVE inside(top + y, x)
      <4>1. PICK u \in PaintColumns(columns), v \in PaintRows(lines) : Unit(x, y) = Unit(u, v)
        BY <3>2
      <4>2. u \in Columns /\ v \in Nat
        BY PaintedInFrame
      <4>3. x = u /\ y = v
        BY <2>1, <4>1, <4>2, UnitInjective
      <4> QED BY <2>2, <4>1, <4>3
    <3> QED BY <3>1, <3>2
  <2>5. frame[Unit(x, y)].char = page[top + y][x]
    BY DEF TtyInv, ShowsText, Columns
  <2>6. page'[top + y][x] = IF inside(top + y, x) THEN "logo" ELSE page[top + y][x]
    BY <1>5, <2>2
  <2>7. frame'[Unit(x, y)] = IF Unit(x, y) \in painted THEN [char |-> "logo", color |-> "logo"]
                             ELSE frame[Unit(x, y)]
    BY <1>2, <2>3
  <2> QED BY <2>4, <2>5, <2>6, <2>7
<1> QED BY <1>3, <1>6, <1>7, <1>8 DEF TtyInv

-----------------------------------------------------------------------------
(* Every step keeps the invariant *)

LEMMA NextTty == TtyInv /\ [Next]_vars => TtyInv'
<1> SUFFICES ASSUME TtyInv, [Next]_vars PROVE TtyInv'
  OBVIOUS
<1>1. CASE Write
  BY <1>1, WriteInv DEF Write
<1>2. CASE WriteEnds
  BY <1>2, EndsInv
<1>3. CASE PutChar
  BY <1>3, PutInv
<1>4. ASSUME NEW a \in Attrs, TtyReset(a) PROVE TtyInv'
  BY <1>4, ResetInv
<1>5. ASSUME NEW a \in Attrs, TtyClean(a) PROVE TtyInv'
  BY <1>5, CleanInv
<1>6. CASE TtyCleanAll
  BY <1>6, CleanAllInv
<1>7. ASSUME NEW size \in Logos, TtyPaint(size[1], size[2]) PROVE TtyInv'
  <2>1. size[1] \in Nat /\ size[2] \in Nat
    BY LogoAssumption
  <2> QED BY <1>7, <2>1, PaintInv
<1>8. CASE UNCHANGED vars
  BY <1>8 DEF vars, TtyInv, TypeOK, InFrame, BufferBounded, TtyFunctions, BelowEmpty, ShowsText, Rows,
     Columns, Units, Unit
<1> QED BY <1>1, <1>2, <1>3, <1>4, <1>5, <1>6, <1>7, <1>8 DEF Next, Request

(* The invariant above holds in every behaviour of the terminal.           *)
THEOREM TtyInductive == Spec => []TtyInv
  BY InitTty, NextTty, PTL DEF Spec

(* The cursor of the terminal stays in the frame or on the row below it    *)
(* (struct console of tty.c), for a frame of any size.                     *)
THEOREM CursorInFrame == Spec => []TypeOK
<1>1. TtyInv => TypeOK
  BY DEF TtyInv
<1> QED BY <1>1, TtyInductive, PTL

(* Whatever is written, nothing is stored behind the frame: the test of    *)
(* tty.c:179 and the one of tty.c:197 suffice for a frame of any size.     *)
THEOREM NeverOutside == Spec => []InFrame
<1>1. TtyInv => InFrame
  BY DEF TtyInv
<1> QED BY <1>1, TtyInductive, PTL

(* The frame always shows the last rows of what was written: scrolling in  *)
(* __tty_write neither loses nor repeats a line.                           *)
THEOREM FrameShowsText == Spec => []ShowsText
<1>1. TtyInv => ShowsText
  BY DEF TtyInv
<1> QED BY <1>1, TtyInductive, PTL

-----------------------------------------------------------------------------
(* The invariant of the parser *)

(* The lines that close an open block, the title of another one or a brace.*)
Ender == C!Titles \cup {"}"}

(* The block of the title b is open at the line l.                         *)
OpenAt(b, l) ==
  /\ b \in 1 .. l - 1 /\ config[b] = "bootentry"
  /\ \A i \in b + 1 .. l - 1 : config[i] \notin Ender

(* The block of the title b is closed before the line l.                   *)
ClosedBefore(b, l) == b \in Blocks /\ \E e \in Ends(b) : e < l

(* m is the last of the lines S, or zero without any.                      *)
Newest(m, S) == m \in S \cup {0} /\ \A k \in S : k <= m

OwnLines(b, L, l) == {i \in L : b < i /\ i < l}

(* An entry has the options of the block of b up to the line l.            *)
Knows(entry, b, l) ==
  /\ \E m : /\ Newest(m, OwnLines(b, Lines({"kernel"}), l))
            /\ entry.prot <=> m # 0
  /\ Newest(entry.kernel, OwnLines(b, PathLines(b), l))
  /\ Newest(entry.initrd, OwnLines(b, Lines({"initrd"}), l))
  /\ Newest(entry.cmdline, OwnLines(b, Lines({"cmdline"}), l))

Closing(l) == l \in DOMAIN config /\ config[l] = "}"

Enders(l) == {i \in 1 .. l - 1 : config[i] = "}"}

Entry == [prot : BOOLEAN, kernel : Nat, initrd : Nat, cmdline : Nat]

ParserType ==
  /\ config \in Configs /\ line \in 1 .. Len(config) + 1
  /\ boot_entry \in 0 .. line - 1 /\ freed \subseteq 1 .. line - 1
  /\ boot_list \in Seq(Nat) /\ boot_number = Len(boot_list)
  /\ boot_number <= Cardinality(Enders(line))
  /\ fields \in [DOMAIN config -> Entry]
  /\ \A i \in DOMAIN config : i >= line => fields[i] = C!Empty
  /\ nulled \in BOOLEAN /\ short \in BOOLEAN /\ spoiled \in BOOLEAN
  /\ spoiled => ~ C!Parsed

(* The lines are about a block without a closing brace so far.             *)
EntryIs ==
  boot_entry # 0 =>
    /\ config[boot_entry] = "bootentry"
    /\ \A i \in boot_entry + 1 .. line - 1 : config[i] # "}"

(* While memory lasts the blocks closed so far are listed in their order,  *)
(* and boot_entry is the open one, or one that has been freed.             *)
ListedSoFar ==
  ~ spoiled /\ ~ short =>
    /\ \A b \in 1 .. line - 1 : OpenAt(b, line) <=> b = boot_entry /\ b \notin freed
    /\ \A j, k \in 1 .. boot_number : j < k => boot_list[j] < boot_list[k]
    /\ \A b \in DOMAIN config :
         ClosedBefore(b, line) <=> \E k \in 1 .. boot_number : boot_list[k] = b
    /\ \A k \in 1 .. boot_number : boot_list[k] \in DOMAIN config

(* The entries of those blocks have the options read so far.               *)
KnownSoFar ==
  ~ spoiled /\ ~ short =>
    /\ \A b \in DOMAIN config : ClosedBefore(b, line) => fields[b] = AsWritten(b)
    /\ boot_entry # 0 /\ boot_entry \notin freed => Knows(fields[boot_entry], boot_entry, line)

ParserInv == ParserType /\ EntryIs /\ ClosedBlocksSafe /\ ListedSoFar /\ KnownSoFar

-----------------------------------------------------------------------------
(* A text is a sequence of kinds of lines.                                 *)
LEMMA TextType ==
  ASSUME NEW text \in Configs
  PROVE  /\ Len(text) \in Nat /\ DOMAIN text = 1 .. Len(text)
         /\ \A i \in DOMAIN text : text[i] \in C!Kinds
<1>1. text \in Seq(C!Kinds)
  BY ConfigsAssumption
<1> QED BY <1>1

(* No more entries are stored than there are places in the arrays.         *)
LEMMA FewEnders ==
  ASSUME NEW text \in Configs, NEW l \in 1 .. Len(text) + 1
  PROVE  /\ IsFiniteSet({i \in 1 .. l - 1 : text[i] = "}"})
         /\ Cardinality({i \in 1 .. l - 1 : text[i] = "}"}) <= MaxEntries
<1> DEFINE All  == {i \in DOMAIN text : text[i] = "}"}
           Some == {i \in 1 .. l - 1 : text[i] = "}"}
<1>1. Len(text) \in Nat /\ DOMAIN text = 1 .. Len(text)
  BY TextType
<1>2. Some \in SUBSET All
  <2>1. \A i : i \in 1 .. l - 1 => i \in DOMAIN text
    BY <1>1
  <2> QED BY <2>1
<1>3. IsFiniteSet(All)
  <2>1. IsFiniteSet(1 .. Len(text))
    BY <1>1, FS_Interval
  <2>2. All \in SUBSET (1 .. Len(text))
    BY <1>1
  <2> QED BY <2>1, <2>2, FS_Subset
<1>4. IsFiniteSet(Some) /\ IsFiniteSet(All) /\ Cardinality(Some) <= Cardinality(All)
  BY <1>2, <1>3, FS_Subset
<1>5. Cardinality(All) <= MaxEntries
  BY ConfigsAssumption
<1>6. Cardinality(Some) \in Nat /\ Cardinality(All) \in Nat /\ MaxEntries \in Nat
  BY <1>3, <1>4, FS_CardinalityType, BootMenuAssumption
<1>7. Cardinality(Some) <= MaxEntries
  <2> HIDE DEF Some, All
  <2> QED BY <1>4, <1>5, <1>6
<1> QED BY <1>4, <1>7

(* What one more line closes and opens.                                    *)
LEMMA OpenNext ==
  ASSUME config \in Configs, NEW l \in DOMAIN config, NEW b \in 1 .. l
  PROVE  OpenAt(b, l + 1) <=> \/ OpenAt(b, l) /\ config[l] \notin Ender
                              \/ b = l /\ config[l] = "bootentry"
<1>1. Len(config) \in Nat /\ DOMAIN config = 1 .. Len(config) /\ l \in Nat
  BY TextType
<1>2. CASE b = l
  BY <1>1, <1>2 DEF OpenAt
<1>3. CASE b < l
  <2>1. \A i : i \in b + 1 .. (l + 1) - 1 <=> i \in b + 1 .. l - 1 \/ i = l
    BY <1>1, <1>3
  <2>2. b # l /\ b \in 1 .. l - 1 /\ b \in 1 .. (l + 1) - 1
    BY <1>1, <1>3
  <2> QED BY <2>1, <2>2 DEF OpenAt
<1> QED BY <1>1, <1>2, <1>3

LEMMA ClosedNext ==
  ASSUME config \in Configs, NEW l \in DOMAIN config, NEW b \in DOMAIN config
  PROVE  ClosedBefore(b, l + 1) <=> ClosedBefore(b, l) \/ (OpenAt(b, l) /\ Closing(l))
<1>1. Len(config) \in Nat /\ DOMAIN config = 1 .. Len(config) /\ l \in Nat /\ b \in Nat /\ b >= 1
  BY TextType
<1>2. b \in 1 .. l - 1 <=> b < l
  BY <1>1
<1>5. OpenAt(b, l) /\ Closing(l) <=> config[b] = "bootentry" /\ Closes(b, l)
  BY <1>2 DEF OpenAt, Closes, Ender, Closing
<1>3. \A m : ClosedBefore(b, m) <=> config[b] = "bootentry" /\ \E e \in DOMAIN config : Closes(b, e) /\ e < m
  BY DEF ClosedBefore, Blocks, Ends
<1>4. \A e \in DOMAIN config : e < l + 1 <=> e < l \/ e = l
  BY <1>1
<1> QED BY <1>3, <1>4, <1>5

(* A block that is open has not been closed, and nor has a later one.      *)
LEMMA ClosedAreEarlier ==
  ASSUME config \in Configs, NEW l \in DOMAIN config, NEW a \in DOMAIN config, NEW b \in Nat,
         OpenAt(b, l), ClosedBefore(a, l)
  PROVE  a < b
<1>1. Len(config) \in Nat /\ DOMAIN config = 1 .. Len(config) /\ l \in Nat /\ a \in Nat /\ b \in Nat
  BY TextType DEF OpenAt
<1>2. PICK e \in DOMAIN config : a < e /\ config[e] = "}" /\ e < l
  BY DEF ClosedBefore, Ends, Closes
<1>3. config[a] = "bootentry"
  BY DEF ClosedBefore, Blocks
<1>5. e \in Nat /\ a < e /\ e < l
  <2>1. e \in Nat
    BY <1>1
  <2>2. a < e /\ e < l
    BY <1>2
  <2> QED BY <2>1, <2>2
<1>4. a = b \/ a > b => FALSE
  <2>1. CASE a = b
    <3>1. e \in b + 1 .. l - 1
      BY <1>1, <1>5, <2>1
    <3>2. config[e] \in Ender
      BY <1>2 DEF Ender
    <3> QED BY <3>1, <3>2 DEF OpenAt
  <2>2. CASE a > b
    <3>1. a \in b + 1 .. l - 1
      BY <1>1, <1>5, <2>2
    <3>2. config[a] \in Ender
      BY <1>3 DEF Ender, C!Titles
    <3> QED BY <3>1, <3>2 DEF OpenAt
  <2> QED BY <2>1, <2>2
<1> QED BY <1>1, <1>4

-----------------------------------------------------------------------------
(* The options of a block *)

(* A line of the set is the last one when it is read, any other leaves the *)
(* last one what it was.                                                   *)
LEMMA NewestLine ==
  ASSUME NEW L, L \subseteq Nat, NEW l \in L, NEW b \in Nat, b < l
  PROVE  Newest(l, OwnLines(b, L, l + 1))
BY DEF Newest, OwnLines

LEMMA NewestKept ==
  ASSUME NEW L, L \subseteq Nat, NEW l \in Nat, l \notin L, NEW b \in Nat, NEW m,
         Newest(m, OwnLines(b, L, l))
  PROVE  Newest(m, OwnLines(b, L, l + 1))
<1>1. \A i \in L : i < l + 1 <=> i < l
  OBVIOUS
<1>2. OwnLines(b, L, l + 1) = OwnLines(b, L, l)
  BY <1>1 DEF OwnLines
<1> QED BY <1>2

(* Before the first line of a block there is no last one.                  *)
LEMMA NewestNone == ASSUME NEW L, L \subseteq Nat, NEW b \in Nat PROVE Newest(0, OwnLines(b, L, b + 1))
BY DEF Newest, OwnLines

(* The last line is the one the text is read to mean.                      *)
LEMMA NewestUnique ==
  ASSUME NEW S, S \subseteq Nat, NEW m, Newest(m, S)
  PROVE  m = CHOOSE i \in S \cup {0} : \A k \in S : k <= i
<1> DEFINE n == CHOOSE i \in S \cup {0} : \A k \in S : k <= i
<1>1. m \in S \cup {0} /\ \A k \in S : k <= m
  BY DEF Newest
<1>2. n \in S \cup {0} /\ \A k \in S : k <= n
  BY <1>1
<1> HIDE DEF n
<1>3. m \in Nat /\ n \in Nat
  BY <1>1, <1>2
<1>4. m <= n
  BY <1>1, <1>2, <1>3
<1>5. n <= m
  BY <1>1, <1>2, <1>3
<1>6. m = n
  BY <1>3, <1>4, <1>5
<1> QED BY <1>6 DEF n

(* What lines of some kinds are, and those that name a path.               *)
LEMMA LinesAre ==
  ASSUME config \in Configs, NEW kinds, NEW b
  PROVE  /\ Lines(kinds) \subseteq Nat /\ PathLines(b) \subseteq Nat
         /\ \A i \in DOMAIN config : i \in Lines(kinds) <=> config[i] \in kinds
         /\ \A i \in DOMAIN config :
              i \in PathLines(b) <=>
                \/ config[i] = "kernel"
                \/ /\ config[i] = "path" 
                   /\ \E k \in Lines({"kernel"}) : b < k /\ k < i
<1>1. DOMAIN config \subseteq Nat
  BY TextType
<1> QED BY <1>1 DEF Lines, PathLines

(* The protocol of an entry is set when a line of its block named one.     *)
LEMMA ProtIs ==
  ASSUME config \in Configs, NEW b \in Nat, NEW l, NEW entry, Knows(entry, b, l)
  PROVE  entry.prot <=> \E k \in Lines({"kernel"}) : b < k /\ k < l
<1> DEFINE own == OwnLines(b, Lines({"kernel"}), l)
<1>1. PICK m : Newest(m, own) /\ (entry.prot <=> m # 0)
  BY DEF Knows
<1>2. \A k \in own : k \in Nat /\ k # 0
  <2>1. \A k \in own : k \in Nat /\ b < k
    BY LinesAre DEF OwnLines
  <2> QED BY <2>1
<1>3. m # 0 <=> own # {}
  <2>1. m # 0 => own # {}
    BY <1>1 DEF Newest
  <2>2. ASSUME NEW k \in own PROVE m # 0
    <3>1. k <= m /\ k \in Nat /\ k # 0
      BY <1>1, <1>2 DEF Newest
    <3> QED BY <3>1
  <2> QED BY <2>1, <2>2
<1> QED BY <1>1, <1>3 DEF OwnLines

(* A line of no option of the block leaves what is known of it.            *)
LEMMA KnowsKept ==
  ASSUME config \in Configs, line \in DOMAIN config, NEW b \in 1 .. line - 1, NEW entry,
         Knows(entry, b, line), C!Kind \notin {"kernel", "initrd", "cmdline"},
         C!Kind = "path" => ~ entry.prot
  PROVE  Knows(entry, b, line + 1)
<1>1. line \in Nat /\ b \in Nat
  BY TextType
<1>2. \A kinds : kinds \subseteq {"kernel", "initrd", "cmdline"} => line \notin Lines(kinds)
  BY DEF Lines, C!Kind
<1>3. line \notin PathLines(b)
  <2>1. entry.prot <=> \E k \in Lines({"kernel"}) : b < k /\ k < line
    BY <1>1, ProtIs
  <2> QED BY <2>1, LinesAre DEF C!Kind
<1>4. PICK m : Newest(m, OwnLines(b, Lines({"kernel"}), line)) /\ (entry.prot <=> m # 0)
  BY DEF Knows
<1>5. Newest(m, OwnLines(b, Lines({"kernel"}), line + 1))
  BY <1>1, <1>2, <1>4, LinesAre, NewestKept
<1>6. Newest(entry.kernel, OwnLines(b, PathLines(b), line + 1))
  BY <1>1, <1>3, LinesAre, NewestKept DEF Knows
<1>7. Newest(entry.initrd, OwnLines(b, Lines({"initrd"}), line + 1))
  BY <1>1, <1>2, LinesAre, NewestKept DEF Knows
<1>8. Newest(entry.cmdline, OwnLines(b, Lines({"cmdline"}), line + 1))
  BY <1>1, <1>2, LinesAre, NewestKept DEF Knows
<1> QED BY <1>4, <1>5, <1>6, <1>7, <1>8 DEF Knows

(* The parser makes of a line of an option what the text means by it.      *)
LEMMA KnowsNext ==
  ASSUME config \in Configs, line \in DOMAIN config, NEW b \in 1 .. line - 1, NEW entry \in Entry,
         Knows(entry, b, line)
  PROVE  Knows(C!Set(C!Kind, entry), b, line + 1)
<1>1. line \in Nat /\ b \in Nat /\ b < line
  BY TextType
<1>2. PICK m : Newest(m, OwnLines(b, Lines({"kernel"}), line)) /\ (entry.prot <=> m # 0)
  BY DEF Knows
<1>3. /\ C!Kind # "kernel" => Newest(m, OwnLines(b, Lines({"kernel"}), line + 1))
      /\ C!Kind # "initrd" => Newest(entry.initrd, OwnLines(b, Lines({"initrd"}), line + 1))
      /\ C!Kind # "cmdline" => Newest(entry.cmdline, OwnLines(b, Lines({"cmdline"}), line + 1))
      /\ line \notin PathLines(b) => Newest(entry.kernel, OwnLines(b, PathLines(b), line + 1))
  <2>1. \A k : C!Kind # k => line \notin Lines({k})
    BY LinesAre DEF C!Kind
  <2>2. C!Kind # "kernel" => Newest(m, OwnLines(b, Lines({"kernel"}), line + 1))
    BY <1>1, <1>2, <2>1, LinesAre, NewestKept
  <2>3. C!Kind # "initrd" => Newest(entry.initrd, OwnLines(b, Lines({"initrd"}), line + 1))
    BY <1>1, <2>1, LinesAre, NewestKept DEF Knows
  <2>4. C!Kind # "cmdline" => Newest(entry.cmdline, OwnLines(b, Lines({"cmdline"}), line + 1))
    BY <1>1, <2>1, LinesAre, NewestKept DEF Knows
  <2>5. line \notin PathLines(b) => Newest(entry.kernel, OwnLines(b, PathLines(b), line + 1))
    BY <1>1, LinesAre, NewestKept DEF Knows
  <2> QED BY <2>2, <2>3, <2>4, <2>5
<1>4. /\ \A k : C!Kind = k => Newest(line, OwnLines(b, Lines({k}), line + 1))
      /\ line \in PathLines(b) => Newest(line, OwnLines(b, PathLines(b), line + 1))
  <2>1. \A k : C!Kind = k => line \in Lines({k})
    BY LinesAre DEF C!Kind
  <2> QED BY <1>1, <2>1, LinesAre, NewestLine
<1>5. line \in PathLines(b) <=> C!Kind = "kernel" \/ (C!Kind = "path" /\ entry.prot)
  <2>1. entry.prot <=> \E k \in Lines({"kernel"}) : b < k /\ k < line
    BY <1>1, ProtIs
  <2>2. line \in PathLines(b) <=>
          \/ config[line] = "kernel"
          \/ /\ config[line] = "path" 
             /\ \E k \in Lines({"kernel"}) : b < k /\ k < line
    BY LinesAre
  <2> QED BY <2>1, <2>2, Zenon DEF C!Kind
<1>6. CASE C!Kind = "kernel"
  <2>1. C!Set(C!Kind, entry) = [entry EXCEPT !.prot = TRUE, !.kernel = line]
    BY <1>6 DEF C!Set
  <2>2. Newest(line, OwnLines(b, Lines({"kernel"}), line + 1)) /\ line # 0
    BY <1>1, <1>4, <1>6
  <2>3. Newest(line, OwnLines(b, PathLines(b), line + 1))
    BY <1>4, <1>5, <1>6, Zenon
  <2>4. /\ Newest(entry.initrd, OwnLines(b, Lines({"initrd"}), line + 1))
        /\ Newest(entry.cmdline, OwnLines(b, Lines({"cmdline"}), line + 1))
    BY <1>3, <1>6
  <2>5. /\ C!Set(C!Kind, entry).prot = TRUE /\ C!Set(C!Kind, entry).kernel = line
        /\ C!Set(C!Kind, entry).initrd = entry.initrd /\ C!Set(C!Kind, entry).cmdline = entry.cmdline
    BY <2>1 DEF Entry
  <2> QED BY <2>2, <2>3, <2>4, <2>5 DEF Knows
<1>7. CASE C!Kind = "path"
  <2>1. CASE entry.prot
    <3>1. C!Set(C!Kind, entry) = [entry EXCEPT !.kernel = line]
      BY <1>7, <2>1 DEF C!Set, Entry
    <3> QED BY <1>2, <1>3, <1>4, <1>5, <1>7, <2>1, <3>1 DEF Knows, Entry
  <2>2. CASE ~ entry.prot
    <3>1. C!Set(C!Kind, entry) = [entry EXCEPT !.kernel = entry.kernel]
      BY <1>7, <2>2 DEF C!Set, Entry
    <3> QED BY <1>2, <1>3, <1>5, <1>7, <2>2, <3>1 DEF Knows, Entry
  <2> QED BY <2>1, <2>2
<1>8. CASE C!Kind = "initrd"
  <2>1. C!Set(C!Kind, entry) = [entry EXCEPT !.initrd = line]
    BY <1>8 DEF C!Set
  <2> QED BY <1>2, <1>3, <1>4, <1>5, <1>8, <2>1 DEF Knows, Entry
<1>9. CASE C!Kind = "cmdline"
  <2>1. C!Set(C!Kind, entry) = [entry EXCEPT !.cmdline = line]
    BY <1>9 DEF C!Set
  <2> QED BY <1>2, <1>3, <1>4, <1>5, <1>9, <2>1 DEF Knows, Entry
<1>10. CASE C!Kind \notin {"kernel", "path", "initrd", "cmdline"}
  <2>1. C!Set(C!Kind, entry) = entry
    BY <1>10 DEF C!Set
  <2> QED BY <1>2, <1>3, <1>5, <1>10, <2>1 DEF Knows
<1> QED BY <1>6, <1>7, <1>8, <1>9, <1>10

(* At the brace the entry is what the block says.                          *)
LEMMA KnowsWritten ==
  ASSUME config \in Configs, NEW l \in Nat, Closing(l), NEW b \in Nat, OpenAt(b, l),
         NEW entry \in Entry, Knows(entry, b, l)
  PROVE  entry = AsWritten(b)
<1>1. l \in Nat /\ b \in Nat /\ b < l
  <2>2. b \in 1 .. l - 1
    BY DEF OpenAt
  <2> QED BY <2>2
<1>2. \A e : e \in Ends(b) <=> e = l
  <2>2. l \in Ends(b)
    BY <1>1 DEF OpenAt, Ends, Closes, Ender, Closing
  <2>3. ASSUME NEW e \in Ends(b) PROVE e = l
    <3>1. Closing(e) /\ b < e /\ \A i \in b + 1 .. e - 1 : ~ Closing(i)
      BY DEF Ends, Closes, Closing
    <3>2. e \in Nat
      <4>1. \A i \in DOMAIN config : i \in Nat
        BY LinesAre, TextType
      <4> QED BY <3>1, <4>1 DEF Closing
    <3>7. b < e
      BY <3>1
    <3>3. e < l => e \in b + 1 .. l - 1
      BY <1>1, <3>2, <3>7
    <3>4. ~ (e < l)
      <4>1. config[e] \in Ender
        BY <3>1 DEF Ender, Closing
      <4> QED BY <3>3, <4>1 DEF OpenAt
    <3>5. l < e => l \in b + 1 .. e - 1
      BY <1>1, <3>2
    <3>6. ~ (l < e)
      BY <3>1, <3>5
    <3> QED BY <1>1, <3>2, <3>4, <3>6
  <2> QED BY <2>2, <2>3
<1>3. ASSUME NEW L, L \subseteq Nat, NEW m, Newest(m, OwnLines(b, L, l))
      PROVE  m = LastLine(b, L)
  <2>1. OwnLines(b, L, l) \subseteq Nat
    BY <1>3 DEF OwnLines
  <2>2. {i \in L : \E e \in Ends(b) : b < i /\ i < e} = OwnLines(b, L, l)
    BY <1>2 DEF OwnLines
  <2>3. m = CHOOSE i \in OwnLines(b, L, l) \cup {0} : \A k \in OwnLines(b, L, l) : k <= i
    BY <1>3, <2>1, NewestUnique
  <2> QED BY <2>2, <2>3 DEF LastLine
<1>4. PICK m : Newest(m, OwnLines(b, Lines({"kernel"}), l)) /\ (entry.prot <=> m # 0)
  BY DEF Knows
<1>5. m = LastLine(b, Lines({"kernel"}))
  BY <1>3, <1>4, LinesAre
<1>6. entry.kernel = LastLine(b, PathLines(b))
  BY <1>3, LinesAre DEF Knows
<1>7. entry.initrd = LastLine(b, Lines({"initrd"}))
  BY <1>3, LinesAre DEF Knows
<1>8. entry.cmdline = LastLine(b, Lines({"cmdline"}))
  BY <1>3, LinesAre DEF Knows
<1>9. entry.prot = (LastLine(b, Lines({"kernel"})) # 0)
  BY <1>4, <1>5 DEF Entry
<1> QED BY <1>6, <1>7, <1>8, <1>9 DEF AsWritten, Entry

-----------------------------------------------------------------------------
(* The steps of the parser *)

(* A step reads no other text, so what the text says stays.                *)
LEMMA SameText ==
  ASSUME config' = config
  PROVE  /\ \A b : AsWritten(b)' = AsWritten(b)
         /\ AllClosed' <=> AllClosed
         /\ line' = line => C!Parsed' = C!Parsed
<1>1. \A b : AsWritten(b)' = AsWritten(b)
  BY DEF AsWritten, LastLine, Ends, Closes, PathLines, Lines, C!Titles
<1>2. AllClosed' <=> AllClosed
  BY DEF AllClosed, C!Titles
<1>3. line' = line => C!Parsed' = C!Parsed
  BY DEF C!Parsed
<1> QED BY <1>1, <1>2, <1>3

(* What is said of a line, of the line the parser goes on to.              *)
LEMMA NextLine ==
  ASSUME config' = config, line' = line + 1
  PROVE  /\ \A b : OpenAt(b, line)' <=> OpenAt(b, line + 1)
         /\ \A b : ClosedBefore(b, line)' <=> ClosedBefore(b, line + 1)
         /\ Enders(line)' = Enders(line + 1)
         /\ Knows(fields[boot_entry], boot_entry, line)' <=>
              Knows(fields'[boot_entry'], boot_entry', line + 1)
<1>1. \A b : OpenAt(b, line)' <=> OpenAt(b, line + 1)
  BY DEF OpenAt, Ender, C!Titles
<1>2. \A b : ClosedBefore(b, line)' <=> ClosedBefore(b, line + 1)
  BY DEF ClosedBefore, Blocks, Ends, Closes, C!Titles
<1>3. Enders(line)' = Enders(line + 1)
  BY DEF Enders
<1>4. Knows(fields[boot_entry], boot_entry, line)' <=>
        Knows(fields'[boot_entry'], boot_entry', line + 1)
  BY DEF Knows, Newest, OwnLines, PathLines, Lines
<1> QED BY <1>1, <1>2, <1>3, <1>4

(* The parser stays at its line.                                           *)
LEMMA SameLine ==
  ASSUME config' = config, line' = line
  PROVE  /\ \A b : OpenAt(b, line)' <=> OpenAt(b, line)
         /\ \A b : ClosedBefore(b, line)' <=> ClosedBefore(b, line)
         /\ Enders(line)' = Enders(line)
<1>1. \A b : OpenAt(b, line)' <=> OpenAt(b, line)
  BY DEF OpenAt, Ender, C!Titles
<1>2. \A b : ClosedBefore(b, line)' <=> ClosedBefore(b, line)
  BY DEF ClosedBefore, Blocks, Ends, Closes, C!Titles
<1>3. Enders(line)' = Enders(line)
  BY DEF Enders
<1> QED BY <1>1, <1>2, <1>3

(* Before the first line nothing is read.                                  *)
LEMMA InitParser == C!ParserInit => ParserInv
<1> SUFFICES ASSUME C!ParserInit PROVE ParserInv
  OBVIOUS
<1>1. /\ config \in Configs /\ line = 1 /\ boot_entry = 0 /\ boot_list = <<>> /\ boot_number = 0
      /\ fields = [i \in DOMAIN config |-> C!Empty] /\ freed = {} /\ nulled = FALSE
      /\ spoiled = FALSE /\ short = FALSE
  BY DEF C!ParserInit, C!NoEntry
<1>2. Len(config) \in Nat /\ DOMAIN config = 1 .. Len(config)
  BY <1>1, TextType
<1>3. ParserType
  <2>1. C!Empty \in Entry
    BY DEF C!Empty, Entry
  <2>2. Enders(line) = {}
    <3>1. 1 .. line - 1 = {}
      BY <1>1
    <3> QED BY <3>1 DEF Enders
  <2>3. Cardinality(Enders(line)) = 0
    BY <2>2, FS_EmptySet
  <2>4. boot_list \in Seq(Nat) /\ boot_number = Len(boot_list)
    BY <1>1
  <2>5. line \in 1 .. Len(config) + 1
    BY <1>1, <1>2
  <2>6. boot_entry \in 0 .. line - 1 /\ freed \subseteq 1 .. line - 1
    BY <1>1
  <2>7. fields \in [DOMAIN config -> Entry] /\ \A i \in DOMAIN config : fields[i] = C!Empty
    BY <1>1, <2>1
  <2>8. boot_number <= Cardinality(Enders(line))
    BY <1>1, <2>3
  <2> QED BY <1>1, <2>4, <2>5, <2>6, <2>7, <2>8 DEF ParserType
<1>4. EntryIs /\ ClosedBlocksSafe
  BY <1>1 DEF EntryIs, ClosedBlocksSafe
<1>5. \A b : ~ OpenAt(b, line) /\ ~ ClosedBefore(b, line)
  <2>1. \A b : b \notin 1 .. line - 1
    BY <1>1
  <2>2. \A b : ~ OpenAt(b, line)
    BY <2>1 DEF OpenAt
  <2>3. ASSUME NEW b, ClosedBefore(b, line) PROVE FALSE
    <3>1. PICK e \in DOMAIN config : e < line
      BY <2>3 DEF ClosedBefore, Ends
    <3> QED BY <1>1, <1>2, <3>1
  <2> QED BY <2>2, <2>3
<1>6. ListedSoFar /\ KnownSoFar
  <2>1. 1 .. boot_number = {} /\ 1 .. line - 1 = {}
    BY <1>1
  <2> QED BY <1>1, <1>5, <2>1 DEF ListedSoFar, KnownSoFar
<1> QED BY <1>3, <1>4, <1>6 DEF ParserInv

(* A line that is read is one of the text.                                 *)
LEMMA AtLine ==
  ASSUME ParserType, ~ C!Parsed
  PROVE  /\ config \in Configs /\ line \in DOMAIN config /\ line \in Nat /\ line >= 1
         /\ Len(config) \in Nat /\ DOMAIN config = 1 .. Len(config)
<1>1. config \in Configs /\ line \in 1 .. Len(config) + 1
  BY DEF ParserType
<1>2. Len(config) \in Nat /\ DOMAIN config = 1 .. Len(config)
  BY <1>1, TextType
<1>3. ~ (line > Len(config))
  BY DEF C!Parsed
<1>4. line \in 1 .. Len(config)
  BY <1>1, <1>2, <1>3
<1> QED BY <1>1, <1>2, <1>4

(* What each step reads and how far it goes.                               *)
LEMMA ParseReads ==
  ASSUME C!Parse
  PROVE  /\ ~ C!Parsed /\ ~ spoiled /\ config' = config
         /\ \/ line' = line /\ (C!UseFreed \/ C!Comment)
            \/ line' = line + 1 /\ (C!Skip \/ C!Title \/ C!Option \/ C!Close)
<1>1. CASE C!UseFreed
  BY <1>1 DEF C!UseFreed, C!At
<1>2. CASE C!Comment
  BY <1>2 DEF C!Comment, C!At, C!pvars
<1>3. CASE C!Skip
  BY <1>3 DEF C!Skip, C!At
<1>4. CASE C!Title
  BY <1>4 DEF C!Title, C!At
<1>5. CASE C!Option
  BY <1>5 DEF C!Option, C!At
<1>6. CASE C!Close
  BY <1>6 DEF C!Close, C!At
<1> QED BY <1>1, <1>2, <1>3, <1>4, <1>5, <1>6 DEF C!Parse

(* The parser stores the number of a line, or none.                        *)
LEMMA SetTypes ==
  ASSUME NEW entry \in Entry, line \in Nat, NEW kind
  PROVE  C!Set(kind, entry) \in Entry /\ C!SetFails(kind, entry) \in Entry
<1>1. C!Set(kind, entry) \in Entry
  <2>1. CASE kind = "kernel"
    <3>1. C!Set(kind, entry) = [entry EXCEPT !.prot = TRUE, !.kernel = line]
      BY <2>1 DEF C!Set
    <3> QED BY <3>1 DEF Entry
  <2>2. CASE kind = "path"
    <3>1. PICK n \in Nat : C!Set(kind, entry) = [entry EXCEPT !.kernel = n]
      <4>1. CASE entry.prot
        BY <2>2, <4>1 DEF C!Set, Entry
      <4>2. CASE ~ entry.prot
        <5>1. C!Set(kind, entry) = [entry EXCEPT !.kernel = entry.kernel]
          BY <2>2, <4>2 DEF C!Set, Entry
        <5> QED BY <5>1 DEF Entry
      <4> QED BY <4>1, <4>2
    <3>2. [entry EXCEPT !.kernel = n] \in Entry
      BY DEF Entry
    <3> QED BY <3>1, <3>2
  <2>3. CASE kind = "initrd"
    <3>1. C!Set(kind, entry) = [entry EXCEPT !.initrd = line]
      BY <2>3 DEF C!Set
    <3> QED BY <3>1 DEF Entry
  <2>4. CASE kind = "cmdline"
    <3>1. C!Set(kind, entry) = [entry EXCEPT !.cmdline = line]
      BY <2>4 DEF C!Set
    <3> QED BY <3>1 DEF Entry
  <2>5. CASE kind \notin {"kernel", "path", "initrd", "cmdline"}
    BY <2>5 DEF C!Set
  <2> QED BY <2>1, <2>2, <2>3, <2>4, <2>5
<1>2. C!SetFails(kind, entry) \in Entry
  <2>1. CASE kind = "kernel"
    <3>1. C!SetFails(kind, entry) = [entry EXCEPT !.prot = TRUE, !.kernel = 0]
      BY <2>1 DEF C!SetFails
    <3>2. [entry EXCEPT !.prot = TRUE, !.kernel = 0] \in Entry
      BY DEF Entry
    <3> QED BY <3>1, <3>2
  <2>2. CASE kind = "path" /\ entry.prot
    <3>1. C!SetFails(kind, entry) = [entry EXCEPT !.kernel = 0]
      BY <2>2 DEF C!SetFails
    <3> QED BY <3>1 DEF Entry
  <2>3. CASE kind = "initrd"
    <3>1. C!SetFails(kind, entry) = [entry EXCEPT !.initrd = 0]
      BY <2>3 DEF C!SetFails
    <3> QED BY <3>1 DEF Entry
  <2>4. CASE kind = "cmdline"
    <3>1. C!SetFails(kind, entry) = [entry EXCEPT !.cmdline = 0]
      BY <2>4 DEF C!SetFails
    <3> QED BY <3>1 DEF Entry
  <2>5. CASE kind \notin {"kernel", "path", "initrd", "cmdline"} \/ (kind = "path" /\ ~ entry.prot)
    BY <2>5 DEF C!SetFails
  <2> QED BY <2>1, <2>2, <2>3, <2>4, <2>5
<1> QED BY <1>1, <1>2

(* A brace is one more that an entry can be stored at.                     *)
LEMMA EndersNext ==
  ASSUME config \in Configs, NEW l \in DOMAIN config
  PROVE  /\ Cardinality(Enders(l)) \in Nat /\ Cardinality(Enders(l + 1)) \in Nat
         /\ Cardinality(Enders(l)) <= Cardinality(Enders(l + 1))
         /\ Closing(l) => Cardinality(Enders(l + 1)) = Cardinality(Enders(l)) + 1
<1>1. Len(config) \in Nat /\ DOMAIN config = 1 .. Len(config) /\ l \in Nat
  BY TextType
<1>2. l \in 1 .. Len(config) + 1 /\ l + 1 \in 1 .. Len(config) + 1
  BY <1>1
<1>3. IsFiniteSet(Enders(l)) /\ IsFiniteSet(Enders(l + 1))
  BY <1>2, FewEnders DEF Enders
<1>4. Enders(l) \in SUBSET Enders(l + 1)
  <2>1. \A i : i \in 1 .. l - 1 => i \in 1 .. (l + 1) - 1
    BY <1>1
  <2> QED BY <2>1 DEF Enders
<1>5. Cardinality(Enders(l)) <= Cardinality(Enders(l + 1))
  BY <1>3, <1>4, FS_Subset
<1>6. ASSUME Closing(l)
      PROVE  Cardinality(Enders(l + 1)) = Cardinality(Enders(l)) + 1
  <2>1. \A i : i \in 1 .. (l + 1) - 1 <=> i \in 1 .. l - 1 \/ i = l
    BY <1>1
  <2>2. l \notin 1 .. l - 1
    BY <1>1
  <2>3. Enders(l + 1) = Enders(l) \cup {l} /\ l \notin Enders(l)
    BY <1>6, <2>1, <2>2 DEF Enders, Closing
  <2> QED BY <1>3, <2>3, FS_AddElement
<1> QED BY <1>3, <1>5, <1>6, FS_CardinalityType

(* A step stays in the text and stores no more entries than braces.        *)
LEMMA TypeStep == ASSUME ParserType, C!Parse PROVE ParserType'
<1>1. /\ config \in Configs /\ line \in DOMAIN config /\ line \in Nat /\ line >= 1
      /\ Len(config) \in Nat /\ DOMAIN config = 1 .. Len(config)
  BY AtLine, ParseReads
<1>2. config' = config /\ ~ C!Parsed /\ ~ spoiled
  BY ParseReads
<1>3. /\ boot_entry \in 0 .. line - 1 /\ freed \subseteq 1 .. line - 1
      /\ boot_list \in Seq(Nat) /\ boot_number = Len(boot_list)
      /\ fields \in [DOMAIN config -> Entry]
      /\ \A i \in DOMAIN config : i >= line => fields[i] = C!Empty
      /\ nulled \in BOOLEAN /\ short \in BOOLEAN /\ spoiled \in BOOLEAN
  BY DEF ParserType
<1>4. boot_number <= Cardinality(Enders(line))
  BY DEF ParserType
<1>5. boot_number \in Nat
  BY <1>3
<1>8. \/ line' = line /\ (C!UseFreed \/ C!Comment)
      \/ line' = line + 1 /\ (C!Skip \/ C!Title \/ C!Option \/ C!Close)
  BY ParseReads
<1>6. CASE line' = line
  <2>1. UNCHANGED <<boot_entry, freed, boot_list, boot_number, fields, nulled, short>>
    <3>1. C!UseFreed \/ C!Comment
      BY <1>1, <1>6, <1>8
    <3> QED BY <3>1 DEF C!UseFreed, C!Comment, C!pvars
  <2>2. spoiled' \in BOOLEAN /\ ~ C!Parsed'
    <3>1. C!UseFreed \/ C!Comment
      BY <1>1, <1>6, <1>8
    <3>2. spoiled' \in BOOLEAN
      BY <1>3, <3>1 DEF C!UseFreed, C!Comment, C!pvars
    <3> QED BY <1>2, <1>6, <3>2, SameText
  <2>3. Enders(line)' = Enders(line)
    BY <1>2, <1>6, SameLine
  <2> QED BY <1>2, <1>6, <2>1, <2>2, <2>3 DEF ParserType
<1>7. CASE line' = line + 1
  <2>1. Enders(line)' = Enders(line + 1)
    BY <1>2, <1>7, NextLine
  <2>2. /\ Cardinality(Enders(line)) \in Nat /\ Cardinality(Enders(line + 1)) \in Nat
        /\ Cardinality(Enders(line)) <= Cardinality(Enders(line + 1))
        /\ Closing(line) => Cardinality(Enders(line + 1)) = Cardinality(Enders(line)) + 1
    BY <1>1, EndersNext
  <2>3. C!Skip \/ C!Title \/ C!Option \/ C!Close
    BY <1>1, <1>7, <1>8
  <2>4. spoiled' = FALSE
    BY <1>2, <1>3, <2>3 DEF C!Skip, C!Title, C!Option, C!Close
  <2>5. boot_list' \in Seq(Nat) /\ boot_number' = Len(boot_list') /\ boot_number' <= Cardinality(Enders(line))'
    <3>1. CASE UNCHANGED <<boot_list, boot_number>>
      BY <1>3, <1>4, <1>5, <2>1, <2>2, <3>1
    <3>2. CASE C!Close
      <4>1. Closing(line)
        BY <1>1, <3>2 DEF C!Close, C!At, C!Kind, Closing
      <4>2. boot_list' = Append(boot_list, boot_entry) /\ boot_number' = boot_number + 1
        BY <3>2 DEF C!Close
      <4>5. boot_entry \in Nat
        BY <1>3
      <4>3. boot_list' \in Seq(Nat) /\ boot_number' = Len(boot_list')
        BY <1>3, <4>2, <4>5
      <4>4. boot_number' <= Cardinality(Enders(line + 1))
        BY <1>4, <1>5, <2>2, <4>1, <4>2
      <4> QED BY <2>1, <4>3, <4>4
    <3> QED BY <2>3, <3>1, <3>2 DEF C!Skip, C!Title, C!Option
  <2>6. boot_entry' \in 0 .. line' - 1 /\ freed' \subseteq 1 .. line' - 1
    <3>1. boot_entry' \in {boot_entry, line, 0}
      BY <2>3 DEF C!Skip, C!Title, C!Option, C!Close, C!NoneOpen, C!NoEntry
    <3>2. freed' = freed \/ freed' = freed \cup ({boot_entry} \ {0})
      BY <2>3 DEF C!Skip, C!Title, C!Option, C!Close, C!NoEntry
    <3>5. boot_entry = 0 \/ boot_entry \in 1 .. line - 1
      BY <1>1, <1>3
    <3>3. freed' \subseteq 1 .. line - 1
      BY <1>3, <3>2, <3>5
    <3>4. boot_entry' \in 0 .. line
      BY <1>1, <1>3, <3>1
    <3> QED BY <1>1, <1>7, <3>3, <3>4
  <2>7. fields' \in [DOMAIN config -> Entry] /\ \A i \in DOMAIN config : i >= line' => fields'[i] = C!Empty
    <3>1. CASE fields' = fields
      <4>1. \A i \in DOMAIN config : i >= line' => i >= line
        BY <1>1, <1>7
      <4> QED BY <1>3, <3>1, <4>1
    <3>2. CASE C!Option
      <4>1. PICK entry : /\ fields' = [fields EXCEPT ![boot_entry] = entry]
                         /\ entry \in {C!Set(C!Kind, fields[boot_entry]), C!SetFails(C!Kind, fields[boot_entry])}
        BY <3>2 DEF C!Option
      <4>2. boot_entry \in DOMAIN config /\ boot_entry < line
        BY <1>1, <1>3, <3>2 DEF C!Option, C!NoEntry
      <4>3. entry \in Entry
        BY <1>1, <1>3, <4>1, <4>2, SetTypes
      <4>4. \A i \in DOMAIN config : i >= line' => i >= line /\ i # boot_entry
        BY <1>1, <1>7, <4>2
      <4> QED BY <1>3, <4>1, <4>3, <4>4
    <3> QED BY <2>3, <3>1, <3>2 DEF C!Skip, C!Title, C!Close
  <2>8. nulled' \in BOOLEAN /\ short' \in BOOLEAN
    BY <1>3, <2>3 DEF C!Skip, C!Title, C!Option, C!Close
  <2>9. line' \in 1 .. Len(config) + 1
    BY <1>1, <1>7
  <2> QED BY <1>1, <1>2, <2>4, <2>5, <2>6, <2>7, <2>8, <2>9 DEF ParserType
<1> QED BY <1>6, <1>7, <1>8

(* A step leaves boot_entry null or at a block without a brace so far.     *)
LEMMA EntryStep == ASSUME ParserType, EntryIs, C!Parse PROVE EntryIs'
<1>1. config' = config /\ line \in Nat /\ boot_entry \in 0 .. line - 1
  BY ParseReads, AtLine DEF ParserType
<1>2. CASE line' = line /\ (C!UseFreed \/ C!Comment)
  <2>1. boot_entry' = boot_entry
    BY <1>2 DEF C!UseFreed, C!Comment, C!pvars
  <2> QED BY <1>1, <1>2, <2>1 DEF EntryIs
<1>3. CASE line' = line + 1
  <2>1. CASE boot_entry' = boot_entry /\ (boot_entry # 0 => ~ Closing(line))
    <3> SUFFICES ASSUME boot_entry # 0
                 PROVE  /\ config[boot_entry] = "bootentry"
                        /\ \A i \in boot_entry + 1 .. (line + 1) - 1 : config[i] # "}"
      BY <1>1, <1>3, <2>1 DEF EntryIs
    <3>1. \A i : i \in boot_entry + 1 .. (line + 1) - 1 => i \in boot_entry + 1 .. line - 1 \/ i = line
      BY <1>1
    <3>2. line \in DOMAIN config
      BY ParseReads, AtLine
    <3> QED BY <2>1, <3>1, <3>2 DEF EntryIs, Closing
  <2>2. CASE boot_entry' = 0
    BY <2>2 DEF EntryIs
  <2>3. CASE boot_entry' = line /\ C!Kind = "bootentry"
    <3>1. line + 1 .. (line + 1) - 1 = {}
      BY <1>1
    <3> QED BY <1>1, <1>3, <2>3, <3>1 DEF EntryIs, C!Kind
  <2>4. CASE C!Skip
    <3>1. boot_entry # 0 => ~ Closing(line)
      BY <2>4 DEF C!Skip, C!At, C!NoEntry, C!Kind, Closing, C!Options
    <3> QED BY <2>1, <2>4, <3>1 DEF C!Skip
  <2>5. CASE C!Title
    <3>1. ~ Closing(line)
      BY <2>5 DEF C!Title, C!At, C!Titles, C!Kind, Closing
    <3> QED BY <2>1, <2>2, <2>3, <2>5, <3>1 DEF C!Title, C!NoEntry
  <2>6. CASE C!Option
    <3>1. ~ Closing(line)
      BY <2>6 DEF C!Option, C!At, C!Options, C!Kind, Closing
    <3> QED BY <2>1, <2>6, <3>1 DEF C!Option
  <2>7. CASE C!Close
    BY <2>2, <2>7 DEF C!Close, C!NoneOpen, C!NoEntry
  <2>8. line' # line
    BY <1>1, <1>3
  <2> QED BY <2>4, <2>5, <2>6, <2>7, <2>8, ParseReads
<1> QED BY <1>2, <1>3, ParseReads

(* Where no block is left open no entry is freed.                          *)
LEMMA SafeStep ==
  ASSUME ParserType, EntryIs, ClosedBlocksSafe, C!Parse
  PROVE  ClosedBlocksSafe'
<1> SUFFICES ASSUME AllClosed PROVE (freed = {} /\ ~ nulled /\ ~ spoiled)'
  BY ParseReads, SameText DEF ClosedBlocksSafe
<1>1. freed = {} /\ ~ nulled /\ ~ spoiled
  BY DEF ClosedBlocksSafe
<1>2. CASE C!UseFreed
  BY <1>1, <1>2 DEF C!UseFreed, C!Usable
<1>3. CASE C!Title
  <2>1. /\ freed' = freed \cup ({boot_entry} \ {0})
        /\ nulled' = (nulled \/ boot_entry # 0) /\ spoiled' = spoiled
    BY <1>3 DEF C!Title, C!NoEntry
  <2>2. config[line] \in C!Titles
    BY <1>3 DEF C!Title, C!At, C!Kind
  <2>3. boot_entry = 0
    <3> SUFFICES ASSUME boot_entry # 0 PROVE FALSE
      OBVIOUS
    <3>1. line \in DOMAIN config /\ line \in Nat /\ DOMAIN config = 1 .. Len(config) /\ Len(config) \in Nat
      BY ParseReads, AtLine
    <3>2. boot_entry \in 1 .. line - 1
      BY <3>1 DEF ParserType
    <3>3. boot_entry \in DOMAIN config /\ boot_entry < line
      BY <3>1, <3>2
    <3>4. config[boot_entry] = "bootentry" /\ \A i \in boot_entry + 1 .. line - 1 : config[i] # "}"
      BY DEF EntryIs
    <3> QED BY <2>2, <3>1, <3>3, <3>4 DEF AllClosed
  <2> QED BY <1>1, <2>1, <2>3
<1>4. CASE C!Comment
  BY <1>1, <1>4 DEF C!Comment, C!pvars
<1>5. CASE C!Skip
  BY <1>1, <1>5 DEF C!Skip
<1>6. CASE C!Option
  BY <1>1, <1>6 DEF C!Option
<1>7. CASE C!Close
  BY <1>1, <1>7 DEF C!Close
<1> QED BY <1>2, <1>3, <1>4, <1>5, <1>6, <1>7 DEF C!Parse

(* What the next line leaves open and what it has closed.                  *)
LEMMA NextBlocks ==
  ASSUME ParserType, C!Parse, line' = line + 1
  PROVE  /\ \A b \in 1 .. line :
              OpenAt(b, line)' <=> \/ OpenAt(b, line) /\ config[line] \notin Ender
                                   \/ b = line /\ config[line] = "bootentry"
         /\ \A b \in DOMAIN config :
              ClosedBefore(b, line)' <=> ClosedBefore(b, line) \/ (OpenAt(b, line) /\ Closing(line))
         /\ ~ OpenAt(line, line)
<1>1. config \in Configs /\ line \in DOMAIN config /\ line \in Nat /\ config' = config
  BY AtLine, ParseReads
<1>2. ~ OpenAt(line, line)
  BY <1>1 DEF OpenAt
<1>3. \A b : OpenAt(b, line)' <=> OpenAt(b, line + 1)
  BY <1>1, NextLine
<1>4. \A b : ClosedBefore(b, line)' <=> ClosedBefore(b, line + 1)
  BY <1>1, NextLine
<1>5. \A b \in 1 .. line :
        OpenAt(b, line + 1) <=> \/ OpenAt(b, line) /\ config[line] \notin Ender
                                \/ b = line /\ config[line] = "bootentry"
  BY <1>1, OpenNext
<1>6. \A b \in DOMAIN config :
        ClosedBefore(b, line + 1) <=> ClosedBefore(b, line) \/ (OpenAt(b, line) /\ Closing(line))
  BY <1>1, ClosedNext
<1> QED BY <1>2, <1>3, <1>4, <1>5, <1>6

(* A step lists a block at its brace, behind those before it.              *)
LEMMA ListedStep == ASSUME ParserType, ListedSoFar, C!Parse PROVE ListedSoFar'
<1> SUFFICES ASSUME ~ spoiled', ~ short' PROVE ListedSoFar'
  BY DEF ListedSoFar
<1>1. /\ config \in Configs /\ line \in DOMAIN config /\ line \in Nat /\ line >= 1
      /\ Len(config) \in Nat /\ DOMAIN config = 1 .. Len(config) /\ config' = config
  BY AtLine, ParseReads
<1>2. ~ short /\ ~ spoiled
  BY ParseReads DEF ParserType, C!Parse, C!UseFreed, C!Comment, C!pvars, C!Skip, C!Title, C!Option, C!Close
<1>3. /\ \A b \in 1 .. line - 1 : OpenAt(b, line) <=> b = boot_entry /\ b \notin freed
      /\ \A j, k \in 1 .. boot_number : j < k => boot_list[j] < boot_list[k]
      /\ \A b \in DOMAIN config :
           ClosedBefore(b, line) <=> \E k \in 1 .. boot_number : boot_list[k] = b
      /\ \A k \in 1 .. boot_number : boot_list[k] \in DOMAIN config
  BY <1>2 DEF ListedSoFar
<1>4. /\ boot_entry \in 0 .. line - 1 /\ freed \subseteq 1 .. line - 1
      /\ boot_list \in Seq(Nat) /\ boot_number = Len(boot_list)
  BY DEF ParserType
<1>5. CASE line' = line /\ (C!UseFreed \/ C!Comment)
  <2>1. C!Comment
    BY <1>5 DEF C!UseFreed
  <2>2. UNCHANGED <<boot_entry, freed, boot_list, boot_number>>
    BY <2>1 DEF C!Comment, C!pvars
  <2>3. /\ \A b : OpenAt(b, line)' <=> OpenAt(b, line)
        /\ \A b : ClosedBefore(b, line)' <=> ClosedBefore(b, line)
    BY <1>1, <1>5, SameLine
  <2> QED BY <1>1, <1>3, <1>5, <2>2, <2>3 DEF ListedSoFar
<1>6. CASE line' = line + 1 /\ (C!Skip \/ C!Title \/ C!Option \/ C!Close)
  <2>1. /\ \A b \in 1 .. line :
             OpenAt(b, line)' <=> \/ OpenAt(b, line) /\ config[line] \notin Ender
                                  \/ b = line /\ config[line] = "bootentry"
        /\ \A b \in DOMAIN config :
             ClosedBefore(b, line)' <=> ClosedBefore(b, line) \/ (OpenAt(b, line) /\ Closing(line))
        /\ ~ OpenAt(line, line)
    BY <1>6, NextBlocks
  <2>2. \A b : b \in 1 .. line' - 1 <=> b \in 1 .. line - 1 \/ b = line
    BY <1>1, <1>6
  <2>3. \A b \in 1 .. line - 1 : b # line /\ b \in 1 .. line
    BY <1>1
  <2>4. line \notin freed /\ boot_entry # line /\ line # 0 /\ line \in 1 .. line /\ 0 \notin 1 .. line
    BY <1>1, <1>4
  <2>5. \A b \in DOMAIN config : OpenAt(b, line) => b \in 1 .. line - 1
    BY DEF OpenAt
  <2>6. CASE UNCHANGED <<boot_list, boot_number>> /\ \A b \in DOMAIN config : ~ (OpenAt(b, line) /\ Closing(line))
    <3>1. ASSUME \A b \in 1 .. line : OpenAt(b, line)' <=> b = boot_entry' /\ b \notin freed'
          PROVE  ListedSoFar'
      BY <1>1, <1>3, <2>1, <2>2, <2>3, <2>4, <2>6, <3>1 DEF ListedSoFar
    <3>2. CASE C!Skip \/ C!Option
      <4>1. UNCHANGED <<boot_entry, freed>>
        BY <3>2 DEF C!Skip, C!Option
      <4>2. config[line] # "bootentry" /\ (config[line] \notin Ender \/ boot_entry = 0)
        BY <3>2 DEF C!Skip, C!Option, C!At, C!Options, C!Kind, Ender, C!Titles, C!NoEntry
      <4>3. ASSUME NEW b \in 1 .. line PROVE OpenAt(b, line)' <=> b = boot_entry' /\ b \notin freed'
        <5>1. OpenAt(b, line) <=> b = boot_entry /\ b \notin freed
          BY <1>1, <1>3, <2>1, <2>4
        <5>2. boot_entry = 0 => b # boot_entry
          BY <2>4
        <5> QED BY <2>1, <4>1, <4>2, <5>1, <5>2
      <4> QED BY <3>1, <4>3
    <3>3. CASE C!Title
      <4>1. config[line] \in Ender
        BY <3>3 DEF C!Title, C!At, C!Kind, Ender
      <4>2. /\ freed' = freed \cup ({boot_entry} \ {0})
            /\ \/ boot_entry' = line /\ config[line] = "bootentry"
               \/ boot_entry' = boot_entry /\ config[line] # "bootentry"
        BY <3>3 DEF C!Title, C!Kind, C!NoEntry
      <4>3. ASSUME NEW b \in 1 .. line PROVE OpenAt(b, line)' <=> b = boot_entry' /\ b \notin freed'
        <5>1. OpenAt(b, line)' <=> b = line /\ config[line] = "bootentry"
          BY <2>1, <4>1
        <5>2. line \notin freed'
          BY <2>4, <4>2
        <5>3. b # 0
          BY <2>4
        <5> QED BY <2>4, <4>2, <5>1, <5>2, <5>3
      <4> QED BY <3>1, <4>3
    <3>4. CASE C!Close
      <4>1. boot_number' = boot_number + 1
        BY <3>4 DEF C!Close
      <4>2. boot_number \in Nat
        BY <1>4
      <4> QED BY <2>6, <4>1, <4>2
    <3> QED BY <1>6, <3>2, <3>3, <3>4
  <2>7. CASE C!Skip
    <3>1. Closing(line) => boot_entry = 0
      BY <2>7 DEF C!Skip, C!At, C!Kind, Closing, C!NoEntry, C!Options
    <3>2. \A b \in DOMAIN config : ~ (OpenAt(b, line) /\ Closing(line))
      BY <1>3, <2>3, <2>4, <2>5, <3>1
    <3> QED BY <2>6, <2>7, <3>2 DEF C!Skip
  <2>8. CASE C!Title
    <3>1. ~ Closing(line)
      BY <2>8 DEF C!Title, C!At, C!Titles, C!Kind, Closing
    <3> QED BY <2>6, <2>8, <3>1 DEF C!Title
  <2>9. CASE C!Option
    <3>1. ~ Closing(line)
      BY <2>9 DEF C!Option, C!At, C!Options, C!Kind, Closing
    <3> QED BY <2>6, <2>9, <3>1 DEF C!Option
  <2>10. CASE C!Close
    <3>1. /\ boot_list' = Append(boot_list, boot_entry) /\ boot_number' = boot_number + 1
          /\ boot_entry' = 0 /\ boot_entry # 0 /\ boot_entry \notin freed
      BY <2>10 DEF C!Close, C!NoneOpen, C!NoEntry, C!Usable
    <3>2. Closing(line) /\ config[line] \in Ender /\ config[line] # "bootentry"
      BY <1>1, <2>10 DEF C!Close, C!At, C!Kind, Closing, Ender
    <3>3. boot_entry \in 1 .. line - 1 /\ boot_entry \in DOMAIN config /\ boot_entry \in Nat
      BY <1>1, <1>4, <3>1
    <3>4. OpenAt(boot_entry, line)
      BY <1>3, <3>1, <3>3
    <3>5. /\ boot_number \in Nat
          /\ \A k \in 1 .. boot_number : boot_list'[k] = boot_list[k]
          /\ boot_list'[boot_number + 1] = boot_entry
      BY <1>4, <3>1, <3>3
    <3>6. \A k : k \in 1 .. boot_number' <=> k \in 1 .. boot_number \/ k = boot_number + 1
      BY <3>1, <3>5
    <3>7. \A k \in 1 .. boot_number : boot_list[k] < boot_entry
      BY <1>1, <1>3, <3>3, <3>4, ClosedAreEarlier
    <3>8. \A b \in 1 .. line' - 1 : OpenAt(b, line)' <=> b = boot_entry' /\ b \notin freed'
      BY <2>1, <2>2, <2>3, <2>4, <3>1, <3>2
    <3>9. ASSUME NEW j \in 1 .. boot_number', NEW k \in 1 .. boot_number', j < k
          PROVE  boot_list'[j] < boot_list'[k]
      <4>1. j \in 1 .. boot_number
        BY <3>1, <3>5, <3>6, <3>9
      <4>2. CASE k \in 1 .. boot_number
        BY <1>3, <3>5, <3>9, <4>1, <4>2
      <4>3. CASE k = boot_number + 1
        BY <3>5, <3>7, <4>1, <4>3
      <4> QED BY <3>6, <4>2, <4>3
    <3>10. \A b \in DOMAIN config :
             ClosedBefore(b, line)' <=> \E k \in 1 .. boot_number' : boot_list'[k] = b
      <4> SUFFICES ASSUME NEW b \in DOMAIN config
                   PROVE  ClosedBefore(b, line)' <=> \E k \in 1 .. boot_number' : boot_list'[k] = b
        OBVIOUS
      <4>1. ClosedBefore(b, line)' <=> ClosedBefore(b, line) \/ OpenAt(b, line)
        BY <2>1, <3>2
      <4>2. OpenAt(b, line) <=> b = boot_entry
        BY <1>3, <2>5, <3>1, <3>4
      <4>3. (\E k \in 1 .. boot_number' : boot_list'[k] = b) <=>
              (\E k \in 1 .. boot_number : boot_list[k] = b) \/ b = boot_entry
        BY <3>5, <3>6
      <4> QED BY <1>3, <4>1, <4>2, <4>3
    <3>11. \A k \in 1 .. boot_number' : boot_list'[k] \in DOMAIN config
      BY <1>3, <3>3, <3>5, <3>6
    <3> QED BY <1>1, <3>8, <3>9, <3>10, <3>11 DEF ListedSoFar
  <2> QED BY <1>6, <2>7, <2>8, <2>9, <2>10
<1> QED BY <1>5, <1>6, ParseReads

(* A step keeps what the entries know of their blocks.                     *)
LEMMA KnownStep == ASSUME ParserType, ListedSoFar, KnownSoFar, C!Parse PROVE KnownSoFar'
<1> SUFFICES ASSUME ~ spoiled', ~ short' PROVE KnownSoFar'
  BY DEF KnownSoFar
<1>1. /\ config \in Configs /\ line \in DOMAIN config /\ line \in Nat /\ line >= 1
      /\ Len(config) \in Nat /\ DOMAIN config = 1 .. Len(config) /\ config' = config
  BY AtLine, ParseReads
<1>2. ~ short /\ ~ spoiled
  BY ParseReads DEF ParserType, C!Parse, C!UseFreed, C!Comment, C!pvars, C!Skip, C!Title, C!Option, C!Close
<1>3. \A b \in 1 .. line - 1 : OpenAt(b, line) <=> b = boot_entry /\ b \notin freed
  BY <1>2 DEF ListedSoFar
<1>4. /\ \A b \in DOMAIN config : ClosedBefore(b, line) => fields[b] = AsWritten(b)
      /\ boot_entry # 0 /\ boot_entry \notin freed => Knows(fields[boot_entry], boot_entry, line)
  BY <1>2 DEF KnownSoFar
<1>5. /\ boot_entry \in 0 .. line - 1 /\ freed \subseteq 1 .. line - 1
      /\ fields \in [DOMAIN config -> Entry]
      /\ \A i \in DOMAIN config : i >= line => fields[i] = C!Empty
  BY DEF ParserType
<1>6. \A b : AsWritten(b)' = AsWritten(b)
  BY <1>1, SameText
<1>7. CASE line' = line /\ (C!UseFreed \/ C!Comment)
  <2>1. C!Comment
    BY <1>7 DEF C!UseFreed
  <2>2. UNCHANGED <<boot_entry, freed, fields>>
    BY <2>1 DEF C!Comment, C!pvars
  <2>3. \A b : ClosedBefore(b, line)' <=> ClosedBefore(b, line)
    BY <1>1, <1>7, SameLine
  <2>4. Knows(fields[boot_entry], boot_entry, line)' <=> Knows(fields[boot_entry], boot_entry, line)
    BY <1>1, <1>7, <2>2 DEF Knows, Newest, OwnLines, PathLines, Lines
  <2> QED BY <1>1, <1>4, <1>6, <2>2, <2>3, <2>4 DEF KnownSoFar
<1>8. CASE line' = line + 1 /\ (C!Skip \/ C!Title \/ C!Option \/ C!Close)
  <2>1. \A b \in DOMAIN config :
          ClosedBefore(b, line)' <=> ClosedBefore(b, line) \/ (OpenAt(b, line) /\ Closing(line))
    BY <1>8, NextBlocks
  <2>2. Knows(fields[boot_entry], boot_entry, line)' <=> Knows(fields'[boot_entry'], boot_entry', line + 1)
    BY <1>1, <1>8, NextLine
  <2>3. \A b \in DOMAIN config : OpenAt(b, line) => b \in 1 .. line - 1
    BY DEF OpenAt
  <2>4. boot_entry # 0 => boot_entry \in 1 .. line - 1 /\ boot_entry \in DOMAIN config
    BY <1>1, <1>5
  <2>5. CASE C!Skip
    <3>1. UNCHANGED <<boot_entry, freed, fields>>
      BY <2>5 DEF C!Skip
    <3>2. Closing(line) => boot_entry = 0
      BY <2>5 DEF C!Skip, C!At, C!Kind, Closing, C!NoEntry, C!Options
    <3>3. \A b \in DOMAIN config : ClosedBefore(b, line)' <=> ClosedBefore(b, line)
      <4>1. 0 \notin 1 .. line - 1
        OBVIOUS
      <4> QED BY <1>3, <2>1, <2>3, <3>2, <4>1
    <3>4. ASSUME boot_entry # 0, boot_entry \notin freed
          PROVE  Knows(fields[boot_entry], boot_entry, line + 1)
      <4>1. C!Kind = "text"
        BY <2>5, <3>4 DEF C!Skip, C!At, C!NoEntry
      <4> QED BY <1>1, <1>4, <2>4, <3>4, <4>1, KnowsKept
    <3> QED BY <1>1, <1>4, <1>6, <2>2, <3>1, <3>3, <3>4 DEF KnownSoFar
  <2>6. CASE C!Title
    <3>1. fields' = fields /\ freed' = freed \cup ({boot_entry} \ {0})
          /\ boot_entry' \in {boot_entry, line, 0}
      BY <2>6 DEF C!Title, C!NoEntry
    <3>2. ~ Closing(line)
      BY <2>6 DEF C!Title, C!At, C!Titles, C!Kind, Closing
    <3>3. ASSUME boot_entry' # 0, boot_entry' \notin freed'
          PROVE  Knows(fields'[boot_entry'], boot_entry', line + 1)
      <4>1. boot_entry' = line
        BY <3>1, <3>3
      <4>2. fields[line] = C!Empty
        BY <1>1, <1>5
      <4>3. \A L : L \subseteq Nat => Newest(0, OwnLines(line, L, line + 1))
        BY <1>1, NewestNone
      <4>4. /\ \A kinds : Newest(0, OwnLines(line, Lines(kinds), line + 1))
            /\ Newest(0, OwnLines(line, PathLines(line), line + 1))
        BY <1>1, <4>3, LinesAre
      <4>5. Knows(C!Empty, line, line + 1)
        BY <4>4 DEF Knows, C!Empty
      <4> QED BY <3>1, <4>1, <4>2, <4>5
    <3> QED BY <1>1, <1>4, <1>6, <2>1, <2>2, <3>1, <3>2, <3>3 DEF KnownSoFar
  <2>7. CASE C!Option
    <3>1. /\ fields' = [fields EXCEPT ![boot_entry] = C!Set(C!Kind, fields[boot_entry])]
          /\ UNCHANGED <<boot_entry, freed>> /\ boot_entry # 0 /\ boot_entry \notin freed
      BY <2>7 DEF C!Option, C!NoEntry, C!Usable
    <3>2. ~ Closing(line)
      BY <2>7 DEF C!Option, C!At, C!Options, C!Kind, Closing
    <3>3. fields[boot_entry] \in Entry /\ fields'[boot_entry] = C!Set(C!Kind, fields[boot_entry])
      BY <1>5, <2>4, <3>1
    <3>4. Knows(fields'[boot_entry], boot_entry, line + 1)
      BY <1>1, <1>4, <2>4, <3>1, <3>3, KnowsNext
    <3>5. ASSUME NEW b \in DOMAIN config, ClosedBefore(b, line) PROVE fields'[b] = AsWritten(b)
      <4>1. OpenAt(boot_entry, line)
        BY <1>3, <2>4, <3>1
      <4>2. b # boot_entry
        <5>1. boot_entry \in Nat /\ b \in Nat
          BY <1>1, <2>4, <3>1
        <5>2. b < boot_entry
          BY <1>1, <3>5, <4>1, <5>1, ClosedAreEarlier
        <5> QED BY <5>1, <5>2
      <4> QED BY <1>4, <1>5, <3>1, <3>5, <4>2
    <3> QED BY <1>1, <1>6, <2>1, <2>2, <3>1, <3>2, <3>4, <3>5 DEF KnownSoFar
  <2>8. CASE C!Close
    <3>1. /\ fields' = fields /\ boot_entry' = 0 /\ boot_entry # 0 /\ boot_entry \notin freed
      BY <2>8 DEF C!Close, C!NoneOpen, C!NoEntry, C!Usable
    <3>2. Closing(line)
      BY <1>1, <2>8 DEF C!Close, C!At, C!Kind, Closing
    <3>3. OpenAt(boot_entry, line) /\ boot_entry \in Nat /\ fields[boot_entry] \in Entry
      BY <1>3, <1>5, <2>4, <3>1
    <3>4. fields[boot_entry] = AsWritten(boot_entry)
      BY <1>1, <1>4, <3>1, <3>2, <3>3, KnowsWritten
    <3>5. \A b \in DOMAIN config : OpenAt(b, line) => b = boot_entry
      BY <1>3, <2>3
    <3> QED BY <1>1, <1>4, <1>6, <2>1, <3>1, <3>4, <3>5 DEF KnownSoFar
  <2> QED BY <1>8, <2>5, <2>6, <2>7, <2>8
<1> QED BY <1>7, <1>8, ParseReads

(* The invariant of the parser.                                            *)
LEMMA ParseStep == ASSUME ParserInv, C!Parse PROVE ParserInv'
BY TypeStep, EntryStep, SafeStep, ListedStep, KnownStep DEF ParserInv

-----------------------------------------------------------------------------
(* The end of the text *)

(* As many numbers as there are places of a strictly increasing sequence.  *)
LEMMA CountIncreasing ==
  ASSUME NEW s, NEW n \in Nat, NEW S,
         \A j \in 1 .. n : s[j] \in Nat,
         \A j, k \in 1 .. n : j < k => s[j] < s[k],
         \A a : a \in S <=> \E j \in 1 .. n : s[j] = a
  PROVE  Cardinality(S) = n
<1> DEFINE g == [j \in 1 .. n |-> s[j]]
<1>1. g \in [1 .. n -> S]
  OBVIOUS
<1>2. ASSUME NEW j \in 1 .. n, NEW k \in 1 .. n, g[j] = g[k] PROVE j = k
  <2>1. s[j] = s[k] /\ s[j] \in Nat
    BY <1>2
  <2>2. ~ (j < k) /\ ~ (k < j)
    BY <2>1
  <2> QED BY <2>2
<1>3. \A a \in S : \E j \in 1 .. n : g[j] = a
  OBVIOUS
<1> HIDE DEF g
<1>4. g \in Bijection(1 .. n, S)
  BY <1>1, <1>2, <1>3 DEF Bijection, Injection, Surjection, IsInjective
<1>5. ExistsBijection(1 .. n, S)
  BY <1>4 DEF ExistsBijection
<1> QED BY <1>5, FS_CountingElements

(* The list is a list of what the text says.                               *)
LEMMA WrittenInv == ASSUME ParserInv PROVE EntriesAsWritten
<1> SUFFICES ASSUME C!Parsed, ~ spoiled, ~ short
             PROVE  /\ boot_number = Cardinality(Blocks) /\ Len(boot_list) = boot_number
                    /\ \A b \in Blocks : boot_list[Ordinal(b)] = b /\ fields[b] = AsWritten(b)
  BY DEF EntriesAsWritten
<1>1. /\ config \in Configs /\ Len(config) \in Nat /\ DOMAIN config = 1 .. Len(config)
      /\ boot_number \in Nat /\ boot_number = Len(boot_list)
  BY TextType DEF ParserInv, ParserType
<1>2. line > Len(config) /\ line \in 1 .. Len(config) + 1
  BY DEF C!Parsed, ParserInv, ParserType
<1>3. \A b : ClosedBefore(b, line) <=> b \in Blocks
  <2>1. ASSUME NEW b \in Blocks PROVE \E e \in Ends(b) : e < line
    <3>1. PICK e : e \in Ends(b)
      BY DEF Blocks
    <3>2. e \in DOMAIN config
      BY <3>1 DEF Ends
    <3>3. e < line
      BY <1>1, <1>2, <3>2
    <3> QED BY <3>1, <3>3
  <2> QED BY <2>1 DEF ClosedBefore
<1>4. /\ \A j, k \in 1 .. boot_number : j < k => boot_list[j] < boot_list[k]
      /\ \A k \in 1 .. boot_number : boot_list[k] \in DOMAIN config
      /\ \A b \in DOMAIN config : ClosedBefore(b, line) <=> \E k \in 1 .. boot_number : boot_list[k] = b
  BY DEF ParserInv, ListedSoFar
<1>5. \A b : b \in Blocks <=> \E k \in 1 .. boot_number : boot_list[k] = b
  <2>1. \A b \in Blocks : b \in DOMAIN config
    BY DEF Blocks
  <2> QED BY <1>3, <1>4, <2>1
<1>6. \A k \in 1 .. boot_number : boot_list[k] \in Nat
  BY <1>1, <1>4
<1>7. boot_number = Cardinality(Blocks)
  <2>1. boot_number \in Nat
    BY <1>1
  <2>2. \A j, k \in 1 .. boot_number : j < k => boot_list[j] < boot_list[k]
    BY <1>4
  <2>3. Cardinality(Blocks) = boot_number
    BY <1>5, <1>6, <2>1, <2>2, CountIncreasing
  <2> QED BY <2>3
<1>8. ASSUME NEW k \in 1 .. boot_number PROVE Ordinal(boot_list[k]) = k
  <2> DEFINE S == {a \in Blocks : a <= boot_list[k]}
  <2>1. k \in Nat /\ \A j : j \in 1 .. k => j \in 1 .. boot_number
    BY <1>1
  <2>2. \A a : a \in S <=> \E j \in 1 .. k : boot_list[j] = a
    <3> SUFFICES ASSUME NEW a PROVE a \in S <=> \E j \in 1 .. k : boot_list[j] = a
      OBVIOUS
    <3>1. ASSUME NEW j \in 1 .. k, boot_list[j] = a PROVE a \in S
      <4>1. j \in 1 .. boot_number /\ (j < k \/ j = k)
        BY <1>1, <2>1
      <4>2. boot_list[j] <= boot_list[k]
        BY <1>4, <1>6, <4>1
      <4> QED BY <1>5, <3>1, <4>1, <4>2
    <3>2. ASSUME a \in S PROVE \E j \in 1 .. k : boot_list[j] = a
      <4>1. PICK j \in 1 .. boot_number : boot_list[j] = a
        BY <1>5, <3>2
      <4>2. ~ (k < j)
        <5>1. a <= boot_list[k] /\ boot_list[j] \in Nat /\ boot_list[k] \in Nat
          BY <1>6, <3>2
        <5>2. ~ (boot_list[k] < boot_list[j])
          BY <4>1, <5>1
        <5> QED BY <1>4, <5>2
      <4>3. j \in 1 .. k
        BY <1>1, <4>2
      <4> QED BY <4>1, <4>3
    <3> QED BY <3>1, <3>2
  <2>3. /\ \A j \in 1 .. k : boot_list[j] \in Nat
        /\ \A i, j \in 1 .. k : i < j => boot_list[i] < boot_list[j]
    BY <1>4, <1>6, <2>1
  <2> HIDE DEF S
  <2>4. Cardinality(S) = k
    BY <2>1, <2>2, <2>3, CountIncreasing
  <2> QED BY <2>4 DEF Ordinal, S
<1>9. \A b \in Blocks : boot_list[Ordinal(b)] = b /\ fields[b] = AsWritten(b)
  <2>1. ASSUME NEW b \in Blocks PROVE boot_list[Ordinal(b)] = b /\ fields[b] = AsWritten(b)
    <3>1. PICK k \in 1 .. boot_number : boot_list[k] = b
      BY <1>5
    <3>2. Ordinal(b) = k
      BY <1>8, <3>1
    <3>3. fields[b] = AsWritten(b)
      BY <1>3, <1>4, <3>1 DEF ParserInv, KnownSoFar
    <3> QED BY <3>1, <3>2, <3>3
  <2> QED BY <2>1
<1> QED BY <1>1, <1>7, <1>9

-----------------------------------------------------------------------------
(* The invariant of the menu *)

Draws  == pc \in {"alloc", "reset", "write", "free"}
Counts == pc \in {"poll", "get", "unregister"}

(* The entry i is still to be drawn.                                       *)
Pending(i) == Draws /\ \E j \in 1 .. Len(todo) : todo[j] = i /\ (pc = "free" => j > 1)

(* The screen shows the entries, but for those that are still to be drawn. *)
Showing == Draws \/ InMenu \/ pc = "enable"

MenuType ==
  /\ MenuTypeOK
  /\ pc \in {"start", "options", "alloc", "reset", "write", "free", "enable",
             "poll", "get", "unregister", "noption", "clear", "cleared", "key",
             "wait", "boot", "failed"}
  /\ pc = "start" => boot_choice = boot_number /\ todo = <<>>
  /\ pc \notin {"start", "failed"} => boot_number > 0
  /\ then \in {"enable", "wait"}
  /\ DOMAIN boot_options = 0 .. MaxEntries - 1
  /\ DOMAIN shown = 0 .. MaxEntries - 1
  /\ counted \in BOOLEAN /\ typed \in BOOLEAN

(* The entries copied to boot_options are those in front.                  *)
OptionsInv ==
  /\ pc = "options" => \A i \in Entries : i < boot_number - boot_choice => boot_options[i] = i + 1
  /\ pc \notin {"start", "options", "failed"} => \A i \in Entries : boot_options[i] = i + 1

(* What the program knows of the keys.                                     *)
KeyInv ==
  /\ pc \in {"start", "options", "enable", "poll", "get"} \/ (Draws /\ then = "enable") =>
       ~ typed /\ c = NoKey
  /\ pc \in {"unregister", "noption"} => (typed <=> c # NoKey) /\ (~ typed => boot_timeout = 0)
  /\ pc \in {"clear", "cleared", "key", "wait"} \/ (Draws /\ then = "wait") => typed
  /\ ~ typed /\ pc \notin {"start", "options", "failed"} => boot_choice = 0
  /\ BootIsConfirmed

(* The handler is registered while the program waits for the first key,    *)
(* and what it has drawn is cleared by the menu.                           *)
CountInv ==
  /\ listed => Counts
  /\ Counts \/ pc = "enable" => then = "enable"
  /\ ~ reentered
  /\ \/ countdown = -1
     \/ (Counts \/ pc \in {"noption", "clear"}) /\ ypos = Bottom
     \/ pc = "cleared" /\ place[2] = Bottom
     \/ pc \in {"boot", "failed"}

(* Just the selected entry is highlighted.                                 *)
DrawInv ==
  /\ Draws => todo # <<>>
  /\ pc = "write" => place = <<column, Head(todo)>>
  /\ Showing => \A i \in Entries : ~ Pending(i) => (shown[i][2] <=> i = boot_choice)

(* The entries are in the column of the first drawing, unless a key came   *)
(* before the interrupt has drawn the seconds.                             *)
ColumnInv ==
  /\ counted => xpos = ControlX
  /\ pc \in {"start", "options"} => ~ counted
  /\ Draws /\ (counted \/ then = "enable") => column = LogoX
  /\ Showing /\ (counted \/ then = "enable") =>
       \A i \in Entries : ~ Pending(i) => shown[i][1] = LogoX

MenuInv == MenuType /\ OptionsInv /\ KeyInv /\ CountInv /\ DrawInv /\ ColumnInv

(* One lemma for each action of the menu, one step for each part of the    *)
(* invariant.  In the longer ones <2>1 is what the action does.            *)

LEMMA StartKeeps == ASSUME MenuInv, Start PROVE MenuInv'
<1>1. MenuType'
  BY DEF MenuInv, MenuType, MenuTypeOK, Start, Transition, menu, screen
<1>2. OptionsInv'
  BY DEF MenuInv, MenuType, MenuTypeOK, OptionsInv, Entries, Start, Transition, menu
<1>3. KeyInv'
  BY DEF MenuInv, KeyInv, BootIsConfirmed, Draws, Start, Transition
<1>4. CountInv'
  BY DEF MenuInv, CountInv, Counts, Start, Transition, screen
<1>5. DrawInv'
  BY DEF DrawInv, Showing, Draws, InMenu, Start, Transition
<1>6. ColumnInv'
  BY DEF MenuInv, ColumnInv, Showing, Draws, InMenu, Start, Transition
<1> QED BY <1>1, <1>2, <1>3, <1>4, <1>5, <1>6 DEF MenuInv

LEMMA CopyOptionKeeps == ASSUME MenuInv, CopyOption PROVE MenuInv'
<1>1. MenuType'
  BY DEF MenuInv, MenuType, MenuTypeOK, Entries, CopyOption, screen
<1>2. OptionsInv'
  <2>1. /\ pc = "options" /\ pc' = "options" /\ boot_number' = boot_number /\ boot_choice' = boot_choice - 1
        /\ boot_options' = [boot_options EXCEPT ![boot_number - boot_choice] = boot_number - boot_choice + 1]
        /\ boot_choice > 0
    BY DEF CopyOption, Slot
  <2>2. boot_number \in 0 .. MaxEntries /\ boot_choice \in 0 .. boot_number /\ MaxEntries \in Nat
        /\ DOMAIN boot_options = 0 .. MaxEntries - 1
    BY BootMenuAssumption DEF MenuInv, MenuType, MenuTypeOK
  <2>3. boot_number - boot_choice \in DOMAIN boot_options
    BY <2>1, <2>2
  <2>4. ASSUME NEW i \in 0 .. boot_number - 1, i < boot_number - (boot_choice - 1)
        PROVE  boot_options'[i] = i + 1
    <3>1. i < boot_number - boot_choice \/ i = boot_number - boot_choice
      BY <2>2, <2>4
    <3>2. i \in DOMAIN boot_options
      BY <2>2
    <3>3. CASE i = boot_number - boot_choice
      BY <2>1, <2>3, <3>3
    <3>4. CASE i < boot_number - boot_choice
      <4>1. boot_options[i] = i + 1
        BY <2>1, <3>4 DEF MenuInv, OptionsInv, Entries
      <4>2. i # boot_number - boot_choice
        BY <2>2, <3>4
      <4> QED BY <2>1, <3>2, <4>1, <4>2
    <3> QED BY <3>1, <3>3, <3>4
  <2> QED BY <2>1, <2>4 DEF OptionsInv, Entries
<1>3. KeyInv'
  BY DEF MenuInv, KeyInv, BootIsConfirmed, Draws, CopyOption
<1>4. CountInv'
  BY DEF MenuInv, CountInv, Counts, CopyOption, screen
<1>5. DrawInv'
  BY DEF DrawInv, Showing, Draws, InMenu, CopyOption
<1>6. ColumnInv'
  BY DEF MenuInv, ColumnInv, Showing, Draws, InMenu, CopyOption
<1> QED BY <1>1, <1>2, <1>3, <1>4, <1>5, <1>6 DEF MenuInv

LEMMA AutoBootKeeps == ASSUME MenuInv, AutoBoot PROVE MenuInv'
<1>1. MenuType'
  BY DEF MenuInv, MenuType, MenuTypeOK, Entries, AutoBoot, Transition, menu, screen
<1>2. OptionsInv'
  BY DEF MenuInv, OptionsInv, Entries, AutoBoot, Transition, menu
<1>3. KeyInv'
  BY DEF MenuInv, KeyInv, BootIsConfirmed, Draws, AutoBoot, Transition, menu
<1>4. CountInv'
  BY DEF MenuInv, CountInv, Counts, AutoBoot, Transition
<1>5. DrawInv'
  BY DEF DrawInv, Showing, Draws, InMenu, AutoBoot, Transition
<1>6. ColumnInv'
  BY DEF MenuInv, ColumnInv, Showing, Draws, InMenu, AutoBoot, Transition
<1> QED BY <1>1, <1>2, <1>3, <1>4, <1>5, <1>6 DEF MenuInv

LEMMA ShowKeeps == ASSUME MenuInv, Show PROVE MenuInv'
<1>1. MenuType'
  BY DEF MenuInv, MenuType, MenuTypeOK, Entries, Show, Draw, menu, screen
<1>2. OptionsInv'
  BY DEF MenuInv, MenuType, MenuTypeOK, OptionsInv, Entries, Show, menu
<1>3. KeyInv'
  BY DEF MenuInv, KeyInv, BootIsConfirmed, Show, Draw
<1>4. CountInv'
  BY DEF MenuInv, CountInv, Counts, Show, Draw, screen
<1>5. DrawInv'
  <2>1. /\ pc' = "alloc" /\ todo' = [i \in 1 .. boot_number |-> i - 1] /\ boot_number' = boot_number
        /\ pc = "options"
    BY DEF Show, Draw, menu
  <2>2. boot_number \in Nat /\ boot_number > 0 /\ Len(todo') = boot_number /\ todo' # <<>>
    <3>1. boot_number \in Nat /\ boot_number > 0
      BY <2>1 DEF MenuInv, MenuType, MenuTypeOK
    <3>2. todo' \in Seq(Int) /\ Len(todo') = boot_number
      BY <2>1, <3>1
    <3> QED BY <3>1, <3>2
  <2>3. ASSUME NEW i \in 0 .. boot_number - 1 PROVE Pending(i)'
    <3>1. i + 1 \in 1 .. boot_number /\ todo'[i + 1] = i
      BY <2>1, <2>2
    <3> QED BY <2>1, <2>2, <3>1 DEF Pending, Draws
  <2> QED BY <2>1, <2>2, <2>3 DEF DrawInv, Entries
<1>6. ColumnInv'
  BY DEF MenuInv, MenuType, MenuTypeOK, ColumnInv, Draws, Pending, Entries, Show, Draw,
     menu
<1> QED BY <1>1, <1>2, <1>3, <1>4, <1>5, <1>6 DEF MenuInv

LEMMA EntryAllocKeeps == ASSUME MenuInv, EntryAlloc PROVE MenuInv'
<1>1. MenuType'
  BY DEF MenuInv, MenuType, MenuTypeOK, Entries, EntryAlloc, Transition, Drawing, menu
<1>2. OptionsInv'
  BY DEF MenuInv, OptionsInv, Entries, EntryAlloc, Transition, Drawing, menu
<1>3. KeyInv'
  BY DEF MenuInv, KeyInv, BootIsConfirmed, Draws, EntryAlloc, Transition, Drawing
<1>4. CountInv'
  BY DEF MenuInv, CountInv, Counts, EntryAlloc, Transition, Drawing
<1>5. DrawInv'
  BY DEF MenuInv, DrawInv, Showing, Draws, Pending, Entries, EntryAlloc, Transition,
     Drawing, menu
<1>6. ColumnInv'
  BY DEF MenuInv, ColumnInv, Showing, Draws, Pending, Entries, EntryAlloc, Transition,
     Drawing, menu
<1> QED BY <1>1, <1>2, <1>3, <1>4, <1>5, <1>6 DEF MenuInv

LEMMA AllocFailsKeeps == ASSUME MenuInv, AllocFails PROVE MenuInv'
<1>1. MenuType'
  BY DEF MenuInv, MenuType, MenuTypeOK, Entries, AllocFails, Drawing, menu
<1>2. OptionsInv'
  BY DEF OptionsInv, AllocFails
<1>3. KeyInv'
  BY DEF KeyInv, BootIsConfirmed, Draws, AllocFails
<1>4. CountInv'
  BY DEF MenuInv, CountInv, Counts, AllocFails, Drawing
<1>5. DrawInv'
  BY DEF DrawInv, Showing, Draws, InMenu, AllocFails
<1>6. ColumnInv'
  BY DEF MenuInv, ColumnInv, Showing, Draws, InMenu, AllocFails, Drawing
<1> QED BY <1>1, <1>2, <1>3, <1>4, <1>5, <1>6 DEF MenuInv

LEMMA EntryResetKeeps == ASSUME MenuInv, EntryReset PROVE MenuInv'
<1>1. MenuType'
  BY DEF MenuInv, MenuType, MenuTypeOK, Entries, EntryReset, Transition, Drawing, menu
<1>2. OptionsInv'
  BY DEF MenuInv, OptionsInv, Entries, EntryReset, Transition, Drawing, menu
<1>3. KeyInv'
  BY DEF MenuInv, KeyInv, BootIsConfirmed, Draws, EntryReset, Transition, Drawing
<1>4. CountInv'
  BY DEF MenuInv, CountInv, Counts, EntryReset, Transition, Drawing
<1>5. DrawInv'
  BY DEF MenuInv, DrawInv, Showing, Draws, Pending, Entries, EntryReset, Transition,
     Drawing, menu
<1>6. ColumnInv'
  BY DEF MenuInv, ColumnInv, Showing, Draws, Pending, Entries, EntryReset, Transition,
     Drawing, menu
<1> QED BY <1>1, <1>2, <1>3, <1>4, <1>5, <1>6 DEF MenuInv

LEMMA EntryWriteKeeps == ASSUME MenuInv, EntryWrite PROVE MenuInv'
<1>1. MenuType'
  BY DEF MenuInv, MenuType, MenuTypeOK, Entries, EntryWrite, Transition, Drawing, menu
<1>2. OptionsInv'
  BY DEF MenuInv, OptionsInv, Entries, EntryWrite, Transition, Drawing, menu
<1>3. KeyInv'
  BY DEF MenuInv, KeyInv, BootIsConfirmed, Draws, EntryWrite, Transition, Drawing
<1>4. CountInv'
  BY DEF MenuInv, CountInv, Counts, EntryWrite, Transition, Drawing
<1>5. DrawInv'
  <2>1. /\ pc = "write" /\ pc' = "free" /\ UNCHANGED <<todo, boot_number, boot_choice, counted, then, column, place, xpos>>
        /\ shown' = [i \in DOMAIN shown |->
                       IF i = place[2] THEN <<place[1], Head(todo) = boot_choice>> ELSE shown[i]]
    BY DEF EntryWrite, Transition, Drawing, Font, menu
  <2>2. place = <<column, Head(todo)>> /\ todo # <<>> /\ todo \in Seq(Nat) /\ Head(todo) = todo[1]
        /\ 1 \in 1 .. Len(todo)
    <3>1. place = <<column, Head(todo)>> /\ todo # <<>>
      BY <2>1 DEF MenuInv, DrawInv, Draws
    <3>2. todo \in Seq(Nat)
      BY DEF MenuInv, MenuType, MenuTypeOK, Entries
    <3>3. Head(todo) = todo[1] /\ 1 \in 1 .. Len(todo)
      BY <3>1, <3>2
    <3> QED BY <3>1, <3>2, <3>3
  <2>3. ASSUME NEW i, ~ Pending(i)', i # Head(todo) PROVE ~ Pending(i)
    <3>1. \A j \in 1 .. Len(todo) : j = 1 \/ j > 1
      BY <2>2
    <3> QED BY <2>1, <2>2, <2>3, <3>1 DEF Pending, Draws
  <2>4. /\ shown'[Head(todo)] = <<column, Head(todo) = boot_choice>> \/ Head(todo) \notin DOMAIN shown
        /\ \A i \in DOMAIN shown : i # Head(todo) => shown'[i] = shown[i]
    BY <2>1, <2>2
  <2>5. \A i \in Entries : i \in DOMAIN shown
    BY BootMenuAssumption DEF MenuInv, MenuType, MenuTypeOK, Entries
  <2>6. ASSUME NEW i \in Entries, ~ Pending(i)' PROVE shown'[i][2] <=> i = boot_choice
    <3>1. CASE i = Head(todo)
      <4>1. shown'[i] = <<column, Head(todo) = boot_choice>>
        BY <2>4, <2>5, <3>1
      <4>2. shown'[i][2] = (Head(todo) = boot_choice)
        BY <4>1
      <4> QED BY <3>1, <4>2
    <3>2. CASE i # Head(todo)
      BY <2>1, <2>3, <2>4, <2>5, <2>6, <3>2 DEF MenuInv, DrawInv, Showing, Draws
    <3> QED BY <3>1, <3>2
  <2> QED BY <2>1, <2>2, <2>6 DEF DrawInv, Entries
<1>6. ColumnInv'
  <2>1. /\ pc = "write" /\ pc' = "free" /\ UNCHANGED <<todo, boot_number, boot_choice, counted, then, column, place, xpos>>
        /\ shown' = [i \in DOMAIN shown |->
                       IF i = place[2] THEN <<place[1], Head(todo) = boot_choice>> ELSE shown[i]]
    BY DEF EntryWrite, Transition, Drawing, Font, menu
  <2>2. place = <<column, Head(todo)>> /\ todo # <<>> /\ todo \in Seq(Nat) /\ Head(todo) = todo[1]
        /\ 1 \in 1 .. Len(todo)
    <3>1. place = <<column, Head(todo)>> /\ todo # <<>>
      BY <2>1 DEF MenuInv, DrawInv, Draws
    <3>2. todo \in Seq(Nat)
      BY DEF MenuInv, MenuType, MenuTypeOK, Entries
    <3>3. Head(todo) = todo[1] /\ 1 \in 1 .. Len(todo)
      BY <3>1, <3>2
    <3> QED BY <3>1, <3>2, <3>3
  <2>3. ASSUME NEW i, ~ Pending(i)', i # Head(todo) PROVE ~ Pending(i)
    <3>1. \A j \in 1 .. Len(todo) : j = 1 \/ j > 1
      BY <2>2
    <3> QED BY <2>1, <2>2, <2>3, <3>1 DEF Pending, Draws
  <2>4. /\ shown'[Head(todo)] = <<column, Head(todo) = boot_choice>> \/ Head(todo) \notin DOMAIN shown
        /\ \A i \in DOMAIN shown : i # Head(todo) => shown'[i] = shown[i]
    BY <2>1, <2>2
  <2>5. \A i \in Entries : i \in DOMAIN shown
    BY BootMenuAssumption DEF MenuInv, MenuType, MenuTypeOK, Entries
  <2>6. counted \/ then = "enable" => column = LogoX
    BY <2>1 DEF MenuInv, ColumnInv, Draws
  <2>7. ASSUME counted \/ then = "enable", NEW i \in Entries, ~ Pending(i)' PROVE shown'[i][1] = LogoX
    <3>1. CASE i = Head(todo)
      BY <2>4, <2>5, <2>6, <2>7, <3>1
    <3>2. CASE i # Head(todo)
      BY <2>1, <2>3, <2>4, <2>5, <2>7, <3>2 DEF MenuInv, ColumnInv, Showing, Draws
    <3> QED BY <3>1, <3>2
  <2>8. counted' => xpos' = ControlX
    BY <2>1 DEF MenuInv, ColumnInv
  <2> QED BY <2>1, <2>6, <2>7, <2>8 DEF ColumnInv, Entries
<1> QED BY <1>1, <1>2, <1>3, <1>4, <1>5, <1>6 DEF MenuInv

LEMMA EntryFreeKeeps == ASSUME MenuInv, EntryFree PROVE MenuInv'
<1>1. MenuType'
  <2>1. /\ pc = "free" /\ todo' = Tail(todo) /\ pc' = IF Len(todo) = 1 THEN then ELSE "alloc"
        /\ UNCHANGED <<boot_number, boot_choice, counted, then, column, shown, xpos>>
    BY DEF EntryFree, Drawing, menu
  <2>2. todo \in Seq(Entries) /\ todo # <<>> /\ Len(todo) \in Nat /\ Len(todo) >= 1
    <3>1. todo \in Seq(Entries) /\ todo # <<>>
      BY <2>1 DEF MenuInv, MenuType, MenuTypeOK, DrawInv, Draws
    <3> QED BY <3>1
  <2>3. /\ todo' \in Seq(Entries) /\ Len(todo') = Len(todo) - 1
        /\ \A j \in 1 .. Len(todo) - 1 : todo'[j] = todo[j + 1]
    BY <2>1, <2>2
  <2>4. /\ Len(todo) = 1 => pc' = then
        /\ Len(todo) # 1 => pc' = "alloc" /\ todo' # <<>>
    <3>1. Len(todo) # 1 => Len(todo') # 0
      BY <2>2, <2>3
    <3>2. Len(todo) # 1 => todo' # <<>>
      BY <3>1
    <3> QED BY <2>1, <3>2
  <2>5. UNCHANGED <<boot_timeout, autoboot, listed, c, boot_options, typed>>
    BY DEF EntryFree, Drawing, menu
  <2>6. Entries' = Entries
    BY <2>1 DEF Entries
  <2> QED BY <2>1, <2>3, <2>4, <2>5, <2>6 DEF MenuInv, MenuType, MenuTypeOK, Entries
<1>2. OptionsInv'
  BY DEF MenuInv, OptionsInv, Entries, EntryFree, Drawing, menu
<1>3. KeyInv'
  BY DEF MenuInv, MenuType, KeyInv, BootIsConfirmed, Draws, EntryFree, Drawing
<1>4. CountInv'
  BY DEF MenuInv, MenuType, CountInv, Counts, EntryFree, Drawing
<1>5. DrawInv'
  <2>1. /\ pc = "free" /\ todo' = Tail(todo) /\ pc' = IF Len(todo) = 1 THEN then ELSE "alloc"
        /\ UNCHANGED <<boot_number, boot_choice, counted, then, column, shown, xpos>>
    BY DEF EntryFree, Drawing, menu
  <2>2. todo \in Seq(Entries) /\ todo # <<>> /\ Len(todo) \in Nat /\ Len(todo) >= 1
    <3>1. todo \in Seq(Entries) /\ todo # <<>>
      BY <2>1 DEF MenuInv, MenuType, MenuTypeOK, DrawInv, Draws
    <3> QED BY <3>1
  <2>3. /\ todo' \in Seq(Entries) /\ Len(todo') = Len(todo) - 1
        /\ \A j \in 1 .. Len(todo) - 1 : todo'[j] = todo[j + 1]
    BY <2>1, <2>2
  <2>4. /\ Len(todo) = 1 => pc' = then
        /\ Len(todo) # 1 => pc' = "alloc" /\ todo' # <<>>
    <3>1. Len(todo) # 1 => Len(todo') # 0
      BY <2>2, <2>3
    <3>2. Len(todo) # 1 => todo' # <<>>
      BY <3>1
    <3> QED BY <2>1, <3>2
  <2>5. ASSUME NEW i, ~ Pending(i)' PROVE ~ Pending(i)
    <3> SUFFICES ASSUME Pending(i) PROVE FALSE
      OBVIOUS
    <3>1. PICK j \in 1 .. Len(todo) : todo[j] = i /\ j > 1
      BY <2>1 DEF Pending
    <3>2. j - 1 \in 1 .. Len(todo') /\ todo'[j - 1] = i /\ Len(todo) # 1
      BY <2>2, <2>3, <3>1
    <3> QED BY <2>4, <2>5, <3>2 DEF Pending, Draws
  <2>6. then \in {"enable", "wait"}
    BY DEF MenuInv, MenuType
  <2>7. /\ Draws' => todo' # <<>>
        /\ pc' # "write"
    BY <2>4, <2>6 DEF Draws
  <2> QED BY <2>1, <2>5, <2>7 DEF MenuInv, DrawInv, Showing, Draws, Entries
<1>6. ColumnInv'
  <2>1. /\ pc = "free" /\ todo' = Tail(todo) /\ pc' = IF Len(todo) = 1 THEN then ELSE "alloc"
        /\ UNCHANGED <<boot_number, boot_choice, counted, then, column, shown, xpos>>
    BY DEF EntryFree, Drawing, menu
  <2>2. todo \in Seq(Entries) /\ todo # <<>> /\ Len(todo) \in Nat /\ Len(todo) >= 1
    <3>1. todo \in Seq(Entries) /\ todo # <<>>
      BY <2>1 DEF MenuInv, MenuType, MenuTypeOK, DrawInv, Draws
    <3> QED BY <3>1
  <2>3. /\ todo' \in Seq(Entries) /\ Len(todo') = Len(todo) - 1
        /\ \A j \in 1 .. Len(todo) - 1 : todo'[j] = todo[j + 1]
    BY <2>1, <2>2
  <2>4. /\ Len(todo) = 1 => pc' = then
        /\ Len(todo) # 1 => pc' = "alloc" /\ todo' # <<>>
    <3>1. Len(todo) # 1 => Len(todo') # 0
      BY <2>2, <2>3
    <3>2. Len(todo) # 1 => todo' # <<>>
      BY <3>1
    <3> QED BY <2>1, <3>2
  <2>5. ASSUME NEW i, ~ Pending(i)' PROVE ~ Pending(i)
    <3> SUFFICES ASSUME Pending(i) PROVE FALSE
      OBVIOUS
    <3>1. PICK j \in 1 .. Len(todo) : todo[j] = i /\ j > 1
      BY <2>1 DEF Pending
    <3>2. j - 1 \in 1 .. Len(todo') /\ todo'[j - 1] = i /\ Len(todo) # 1
      BY <2>2, <2>3, <3>1
    <3> QED BY <2>4, <2>5, <3>2 DEF Pending, Draws
  <2>6. then \in {"enable", "wait"} /\ pc' \notin {"start", "options"}
    BY <2>4 DEF MenuInv, MenuType
  <2> QED BY <2>1, <2>5, <2>6 DEF MenuInv, ColumnInv, Showing, Draws, Entries
<1> QED BY <1>1, <1>2, <1>3, <1>4, <1>5, <1>6 DEF MenuInv

LEMMA EnableKeeps == ASSUME MenuInv, Enable PROVE MenuInv'
<1>1. MenuType'
  BY DEF MenuInv, MenuType, MenuTypeOK, Entries, Enable, Transition, Waiting, menu, screen
<1>2. OptionsInv'
  BY DEF MenuInv, OptionsInv, Entries, Enable, Transition, Waiting, menu
<1>3. KeyInv'
  BY DEF MenuInv, KeyInv, BootIsConfirmed, Draws, Enable, Transition, Waiting
<1>4. CountInv'
  BY DEF MenuInv, CountInv, Counts, Enable, Transition, Waiting, screen
<1>5. DrawInv'
  BY DEF MenuInv, DrawInv, Showing, Draws, Pending, Entries, Enable, Transition, Waiting,
     menu, screen
<1>6. ColumnInv'
  BY DEF MenuInv, ColumnInv, Showing, Draws, Pending, Entries, Enable, Transition,
     Waiting, menu, screen
<1> QED BY <1>1, <1>2, <1>3, <1>4, <1>5, <1>6 DEF MenuInv

LEMMA PollKeeps == ASSUME MenuInv, Poll PROVE MenuInv'
<1>1. MenuType'
  BY DEF MenuInv, MenuType, MenuTypeOK, Entries, Poll, Transition, Waiting, menu, screen
<1>2. OptionsInv'
  BY DEF MenuInv, OptionsInv, Entries, Poll, Transition, Waiting, menu
<1>3. KeyInv'
  BY DEF MenuInv, KeyInv, BootIsConfirmed, Draws, Poll, Transition, Waiting
<1>4. CountInv'
  BY DEF MenuInv, CountInv, Counts, Poll, Transition, Waiting, screen
<1>5. DrawInv'
  BY DEF MenuInv, DrawInv, Showing, Draws, Pending, InMenu, Entries, Poll, Transition,
     Waiting, menu, screen
<1>6. ColumnInv'
  BY DEF MenuInv, ColumnInv, Showing, Draws, Pending, InMenu, Entries, Poll, Transition,
     Waiting, menu, screen
<1> QED BY <1>1, <1>2, <1>3, <1>4, <1>5, <1>6 DEF MenuInv

LEMMA GetKeyKeeps == ASSUME MenuInv, GetKey PROVE MenuInv'
<1>1. MenuType'
  BY DEF MenuInv, MenuType, MenuTypeOK, Entries, GetKey, Waiting, menu, screen
<1>2. OptionsInv'
  BY DEF MenuInv, OptionsInv, Entries, GetKey, Waiting, menu
<1>3. KeyInv'
  BY DEF MenuInv, KeyInv, BootIsConfirmed, Draws, GetKey, Waiting
<1>4. CountInv'
  BY DEF MenuInv, CountInv, Counts, GetKey, Waiting, screen
<1>5. DrawInv'
  BY DEF MenuInv, DrawInv, Showing, Draws, Pending, InMenu, Entries, GetKey, Waiting,
     menu, screen
<1>6. ColumnInv'
  BY DEF MenuInv, ColumnInv, Showing, Draws, Pending, InMenu, Entries, GetKey, Waiting,
     menu, screen
<1> QED BY <1>1, <1>2, <1>3, <1>4, <1>5, <1>6 DEF MenuInv

LEMMA TimedOutKeeps == ASSUME MenuInv, TimedOut PROVE MenuInv'
<1>1. MenuType'
  BY DEF MenuInv, MenuType, MenuTypeOK, Entries, TimedOut, Transition, Waiting, menu,
     screen
<1>2. OptionsInv'
  BY DEF MenuInv, OptionsInv, Entries, TimedOut, Transition, Waiting, menu
<1>3. KeyInv'
  BY DEF MenuInv, KeyInv, BootIsConfirmed, Draws, TimedOut, Transition, Waiting
<1>4. CountInv'
  BY DEF MenuInv, CountInv, Counts, TimedOut, Transition, Waiting, screen
<1>5. DrawInv'
  BY DEF MenuInv, DrawInv, Showing, Draws, Pending, InMenu, Entries, TimedOut, Transition,
     Waiting, menu, screen
<1>6. ColumnInv'
  BY DEF MenuInv, ColumnInv, Showing, Draws, Pending, InMenu, Entries, TimedOut,
     Transition, Waiting, menu, screen
<1> QED BY <1>1, <1>2, <1>3, <1>4, <1>5, <1>6 DEF MenuInv

LEMMA UnregisterKeeps == ASSUME MenuInv, Unregister PROVE MenuInv'
<1>1. MenuType'
  BY DEF MenuInv, MenuType, MenuTypeOK, Entries, Unregister, Transition, Waiting, menu,
     screen
<1>2. OptionsInv'
  BY DEF MenuInv, OptionsInv, Entries, Unregister, Transition, Waiting, menu
<1>3. KeyInv'
  BY DEF MenuInv, KeyInv, BootIsConfirmed, Draws, Unregister, Transition, Waiting
<1>4. CountInv'
  BY DEF MenuInv, CountInv, Counts, Unregister, Transition, Waiting, screen
<1>5. DrawInv'
  BY DEF MenuInv, DrawInv, Showing, Draws, Pending, InMenu, Entries, Unregister,
     Transition, Waiting, menu, screen
<1>6. ColumnInv'
  BY DEF MenuInv, ColumnInv, Showing, Draws, Pending, InMenu, Entries, Unregister,
     Transition, Waiting, menu, screen
<1> QED BY <1>1, <1>2, <1>3, <1>4, <1>5, <1>6 DEF MenuInv

LEMMA SelectedKeeps == ASSUME MenuInv, Selected PROVE MenuInv'
<1>1. MenuType'
  BY DEF MenuInv, MenuType, MenuTypeOK, Entries, Selected, Transition, Waiting, menu,
     screen
<1>2. OptionsInv'
  BY DEF MenuInv, OptionsInv, Entries, Selected, Transition, Waiting, menu
<1>3. KeyInv'
  BY DEF MenuInv, KeyInv, BootIsConfirmed, Draws, Selected, Transition, Waiting, Confirms
<1>4. CountInv'
  BY DEF MenuInv, CountInv, Counts, Selected, Transition, Waiting, screen
<1>5. DrawInv'
  BY DEF MenuInv, DrawInv, Showing, Draws, Pending, InMenu, Entries, Selected, Transition,
     Waiting, menu, screen
<1>6. ColumnInv'
  BY DEF MenuInv, ColumnInv, Showing, Draws, Pending, InMenu, Entries, Selected,
     Transition, Waiting, menu, screen
<1> QED BY <1>1, <1>2, <1>3, <1>4, <1>5, <1>6 DEF MenuInv

LEMMA ClearResetKeeps == ASSUME MenuInv, ClearReset PROVE MenuInv'
<1>1. MenuType'
  BY DEF MenuInv, MenuType, MenuTypeOK, Entries, ClearReset, Transition, menu
<1>2. OptionsInv'
  BY DEF MenuInv, OptionsInv, Entries, ClearReset, Transition, menu
<1>3. KeyInv'
  BY DEF MenuInv, KeyInv, BootIsConfirmed, Draws, ClearReset, Transition
<1>4. CountInv'
  BY DEF MenuInv, CountInv, Counts, ClearReset, Transition
<1>5. DrawInv'
  BY DEF MenuInv, DrawInv, Showing, Draws, Pending, InMenu, Entries, ClearReset,
     Transition, menu
<1>6. ColumnInv'
  BY DEF MenuInv, ColumnInv, Showing, Draws, Pending, InMenu, Entries, ClearReset,
     Transition, menu
<1> QED BY <1>1, <1>2, <1>3, <1>4, <1>5, <1>6 DEF MenuInv

LEMMA ClearWriteKeeps == ASSUME MenuInv, ClearWrite PROVE MenuInv'
<1>1. MenuType'
  BY DEF MenuInv, MenuType, MenuTypeOK, Entries, ClearWrite, Transition, menu
<1>2. OptionsInv'
  BY DEF MenuInv, OptionsInv, Entries, ClearWrite, Transition, menu
<1>3. KeyInv'
  BY DEF MenuInv, KeyInv, BootIsConfirmed, Draws, ClearWrite, Transition
<1>4. CountInv'
  BY DEF MenuInv, CountInv, Counts, ClearWrite, Transition
<1>5. DrawInv'
  BY DEF MenuInv, DrawInv, Showing, Draws, Pending, InMenu, Entries, ClearWrite,
     Transition, menu
<1>6. ColumnInv'
  BY DEF MenuInv, ColumnInv, Showing, Draws, Pending, InMenu, Entries, ClearWrite,
     Transition, menu
<1> QED BY <1>1, <1>2, <1>3, <1>4, <1>5, <1>6 DEF MenuInv

LEMMA MoveUpKeeps == ASSUME MenuInv, MoveUp PROVE MenuInv'
<1>1. MenuType'
  BY DEF MenuInv, MenuType, MenuTypeOK, Entries, MoveUp, Update, Draw, menu, screen
<1>2. OptionsInv'
  BY DEF MenuInv, OptionsInv, Entries, MoveUp, Update, menu
<1>3. KeyInv'
  BY DEF MenuInv, KeyInv, BootIsConfirmed, MoveUp, Update, Draw
<1>4. CountInv'
  BY DEF MenuInv, CountInv, Counts, MoveUp, Update, Draw, screen
<1>5. DrawInv'
  BY DEF MenuInv, DrawInv, Showing, Draws, Pending, InMenu, Entries, MoveUp, Update, Draw,
     menu, screen
<1>6. ColumnInv'
  <2>1. /\ pc = "key" /\ pc' = "alloc" /\ todo' = <<boot_choice, boot_choice - 1>> /\ then' = "wait"
        /\ column' = xpos - 2 /\ UNCHANGED <<boot_number, counted, shown, xpos>>
    BY DEF MoveUp, Update, Draw, menu, screen
  <2>2. counted' => column' = LogoX
    BY <2>1, ShippedLogo, BootMenuAssumption DEF MenuInv, ColumnInv
  <2>3. \A i : ~ Pending(i)
    BY <2>1 DEF Pending, Draws
  <2>4. counted => \A i \in Entries : shown[i][1] = LogoX
    BY <2>1, <2>3 DEF MenuInv, ColumnInv, Showing, InMenu
  <2>5. Entries' = Entries
    BY <2>1 DEF Entries
  <2>6. counted => xpos = ControlX
    BY DEF MenuInv, ColumnInv
  <2> QED BY <2>1, <2>2, <2>4, <2>5, <2>6 DEF ColumnInv
<1> QED BY <1>1, <1>2, <1>3, <1>4, <1>5, <1>6 DEF MenuInv

LEMMA MoveDownKeeps == ASSUME MenuInv, MoveDown PROVE MenuInv'
<1>1. MenuType'
  BY DEF MenuInv, MenuType, MenuTypeOK, Entries, MoveDown, Update, Draw, LastEntry, menu,
     screen
<1>2. OptionsInv'
  BY DEF MenuInv, OptionsInv, Entries, MoveDown, Update, menu
<1>3. KeyInv'
  BY DEF MenuInv, KeyInv, BootIsConfirmed, MoveDown, Update, Draw
<1>4. CountInv'
  BY DEF MenuInv, CountInv, Counts, MoveDown, Update, Draw, screen
<1>5. DrawInv'
  BY DEF MenuInv, DrawInv, Showing, Draws, Pending, InMenu, Entries, MoveDown, Update,
     Draw, menu, screen
<1>6. ColumnInv'
  <2>1. /\ pc = "key" /\ pc' = "alloc" /\ todo' = <<boot_choice, boot_choice + 1>> /\ then' = "wait"
        /\ column' = xpos - 2 /\ UNCHANGED <<boot_number, counted, shown, xpos>>
    BY DEF MoveDown, Update, Draw, menu, screen
  <2>2. counted' => column' = LogoX
    BY <2>1, ShippedLogo, BootMenuAssumption DEF MenuInv, ColumnInv
  <2>3. \A i : ~ Pending(i)
    BY <2>1 DEF Pending, Draws
  <2>4. counted => \A i \in Entries : shown[i][1] = LogoX
    BY <2>1, <2>3 DEF MenuInv, ColumnInv, Showing, InMenu
  <2>5. Entries' = Entries
    BY <2>1 DEF Entries
  <2>6. counted => xpos = ControlX
    BY DEF MenuInv, ColumnInv
  <2> QED BY <2>1, <2>2, <2>4, <2>5, <2>6 DEF ColumnInv
<1> QED BY <1>1, <1>2, <1>3, <1>4, <1>5, <1>6 DEF MenuInv

LEMMA NoMoveKeeps == ASSUME MenuInv, NoMove PROVE MenuInv'
<1>1. MenuType'
  BY DEF MenuInv, MenuType, MenuTypeOK, Entries, NoMove, Transition, Waiting, menu, screen
<1>2. OptionsInv'
  BY DEF MenuInv, OptionsInv, Entries, NoMove, Transition, Waiting, menu
<1>3. KeyInv'
  BY DEF MenuInv, KeyInv, BootIsConfirmed, Draws, NoMove, Transition
<1>4. CountInv'
  BY DEF MenuInv, CountInv, Counts, NoMove, Transition, Waiting, screen
<1>5. DrawInv'
  BY DEF MenuInv, DrawInv, Showing, Draws, Pending, InMenu, Entries, NoMove, Transition,
     Waiting, menu, screen
<1>6. ColumnInv'
  BY DEF MenuInv, ColumnInv, Showing, Draws, Pending, InMenu, Entries, NoMove, Transition,
     Waiting, menu, screen
<1> QED BY <1>1, <1>2, <1>3, <1>4, <1>5, <1>6 DEF MenuInv

LEMMA ConfirmKeeps == ASSUME MenuInv, Confirm PROVE MenuInv'
<1>1. MenuType'
  BY DEF MenuInv, MenuType, MenuTypeOK, Entries, Confirm, Transition, Waiting, menu,
     screen
<1>2. OptionsInv'
  BY DEF MenuInv, OptionsInv, Entries, Confirm, Transition, Waiting, menu
<1>3. KeyInv'
  BY DEF MenuInv, KeyInv, BootIsConfirmed, Draws, Confirm, Transition
<1>4. CountInv'
  BY DEF MenuInv, CountInv, Counts, Confirm, Transition, Waiting
<1>5. DrawInv'
  BY DEF DrawInv, Showing, Draws, InMenu, Confirm, Transition
<1>6. ColumnInv'
  BY DEF MenuInv, ColumnInv, Showing, Draws, InMenu, Confirm, Transition, Waiting
<1> QED BY <1>1, <1>2, <1>3, <1>4, <1>5, <1>6 DEF MenuInv

LEMMA TickKeeps == ASSUME MenuInv, Tick PROVE MenuInv'
<1>1. MenuType'
  <2>1. /\ listed /\ boot_timeout > 0 /\ boot_timeout' = boot_timeout - 1
        /\ UNCHANGED <<menu, boot_choice, pc, todo, column, then, listed, c, shown, typed>>
    BY DEF Tick, CountTicks
  <2>2. /\ pc \in {"poll", "get", "unregister"} /\ then = "enable" /\ ~ Busy
    <3>1. Counts /\ then = "enable"
      BY <2>1 DEF MenuInv, CountInv
    <3> QED BY <3>1 DEF Counts, Busy
  <2>3. boot_timeout' \in 0 .. Timeout
    <3>1. boot_timeout \in 0 .. Timeout /\ Timeout \in Nat
      BY BootMenuAssumption DEF MenuInv, MenuType, MenuTypeOK
    <3> QED BY <2>1, <3>1
  <2>4. counted' \in BOOLEAN
    BY DEF Tick, MenuInv, MenuType
  <2> QED BY <2>1, <2>3, <2>4 DEF MenuInv, MenuType, MenuTypeOK, Entries, menu
<1>2. OptionsInv'
  BY DEF MenuInv, OptionsInv, Entries, Tick, menu
<1>3. KeyInv'
  BY DEF MenuInv, KeyInv, BootIsConfirmed, Draws, Tick, menu
<1>4. CountInv'
  <2>1. /\ listed /\ boot_timeout > 0 /\ boot_timeout' = boot_timeout - 1
        /\ UNCHANGED <<menu, boot_choice, pc, todo, column, then, listed, c, shown, typed>>
    BY DEF Tick, CountTicks
  <2>2. /\ pc \in {"poll", "get", "unregister"} /\ then = "enable" /\ ~ Busy
    <3>1. Counts /\ then = "enable"
      BY <2>1 DEF MenuInv, CountInv
    <3> QED BY <3>1 DEF Counts, Busy
  <2>3. \/ countdown' = -1 /\ countdown = -1
        \/ ypos' = Bottom
    BY <2>2 DEF Tick, CountdownAt, MenuInv, CountInv, Counts
  <2>4. ~ reentered'
    BY <2>2 DEF Tick, MenuInv, CountInv
  <2> QED BY <2>1, <2>2, <2>3, <2>4 DEF CountInv, Counts, Bottom
<1>5. DrawInv'
  <2>1. /\ listed /\ boot_timeout > 0 /\ boot_timeout' = boot_timeout - 1
        /\ UNCHANGED <<menu, boot_choice, pc, todo, column, then, listed, c, shown, typed>>
    BY DEF Tick, CountTicks
  <2>2. /\ pc \in {"poll", "get", "unregister"} /\ then = "enable" /\ ~ Busy
    <3>1. Counts /\ then = "enable"
      BY <2>1 DEF MenuInv, CountInv
    <3> QED BY <3>1 DEF Counts, Busy
  <2> QED BY <2>1, <2>2 DEF MenuInv, DrawInv, Showing, Draws, InMenu, Pending, Entries, menu
<1>6. ColumnInv'
  <2>1. /\ listed /\ boot_timeout > 0 /\ boot_timeout' = boot_timeout - 1
        /\ UNCHANGED <<menu, boot_choice, pc, todo, column, then, listed, c, shown, typed>>
    BY DEF Tick, CountTicks
  <2>2. /\ pc \in {"poll", "get", "unregister"} /\ then = "enable" /\ ~ Busy
    <3>1. Counts /\ then = "enable"
      BY <2>1 DEF MenuInv, CountInv
    <3> QED BY <3>1 DEF Counts, Busy
  <2>3. counted' => xpos' = ControlX
    BY DEF Tick, CountdownAt, MenuInv, ColumnInv
  <2>4. \A i \in Entries : ~ Pending(i) => shown[i][1] = LogoX
    BY <2>2 DEF MenuInv, ColumnInv, Showing, InMenu
  <2> QED BY <2>1, <2>2, <2>3, <2>4 DEF ColumnInv, Draws, Pending, Entries, menu
<1> QED BY <1>1, <1>2, <1>3, <1>4, <1>5, <1>6 DEF MenuInv

LEMMA NextKeyKeeps == ASSUME MenuInv, NextKey PROVE MenuInv'
<1>1. MenuType'
  BY DEF MenuInv, MenuType, MenuTypeOK, Entries, NextKey, Transition, Waiting, menu,
     screen
<1>2. OptionsInv'
  BY DEF MenuInv, OptionsInv, Entries, NextKey, Transition, Waiting, menu
<1>3. KeyInv'
  BY DEF KeyInv, BootIsConfirmed, Draws, NextKey, Transition
<1>4. CountInv'
  BY DEF MenuInv, CountInv, Counts, NextKey, Transition, Waiting, screen
<1>5. DrawInv'
  BY DEF MenuInv, DrawInv, Showing, Draws, Pending, InMenu, Entries, NextKey, Transition,
     Waiting, menu, screen
<1>6. ColumnInv'
  BY DEF MenuInv, ColumnInv, Showing, Draws, Pending, InMenu, Entries, NextKey,
     Transition, Waiting, menu, screen
<1> QED BY <1>1, <1>2, <1>3, <1>4, <1>5, <1>6 DEF MenuInv

-----------------------------------------------------------------------------
(* The loader *)

(* The menu starts when the text has been read.                            *)
LoaderInv == ParserInv /\ MenuInv /\ (~ C!Parsed => pc = "start")

(* Before anything is drawn no entry need be.                              *)
LEMMA InitMenu == ASSUME C!ParserInit, MenuInit PROVE MenuInv
<1>1. /\ boot_number = 0 /\ boot_choice = 0 /\ pc = "start" /\ todo = <<>> /\ boot_timeout = Timeout
      /\ autoboot \in BOOLEAN /\ listed = FALSE /\ c = NoKey /\ counted = FALSE /\ typed = FALSE
      /\ reentered = FALSE /\ countdown = -1 /\ then = "wait"
      /\ DOMAIN boot_options = 0 .. MaxEntries - 1 /\ DOMAIN shown = 0 .. MaxEntries - 1
  BY DEF C!ParserInit, MenuInit
<1>2. MenuType
  <2>1. todo \in Seq(Entries)
    BY <1>1
  <2>2. boot_number \in 0 .. MaxEntries /\ boot_choice \in 0 .. boot_number /\ boot_timeout \in 0 .. Timeout
    BY <1>1, BootMenuAssumption
  <2> QED BY <1>1, <2>1, <2>2 DEF MenuType, MenuTypeOK
<1>3. OptionsInv
  BY <1>1 DEF OptionsInv
<1>4. KeyInv
  BY <1>1 DEF KeyInv, Draws, BootIsConfirmed
<1>5. CountInv
  BY <1>1 DEF CountInv, Counts
<1>6. DrawInv /\ ColumnInv
  BY <1>1 DEF DrawInv, ColumnInv, Showing, Draws, InMenu
<1> QED BY <1>2, <1>3, <1>4, <1>5, <1>6 DEF MenuInv

(* The parser does not disturb the menu, which counts its entries.         *)
LEMMA ParseKeeps ==
  ASSUME LoaderInv, ParseEntries
  PROVE  LoaderInv'
<1>1. ParserInv' /\ ParserInv /\ MenuInv /\ C!Parse
  BY ParseStep DEF LoaderInv, ParseEntries
<1>2. /\ pc = "start"
      /\ UNCHANGED <<boot_options, autoboot, boot_timeout, pc, xpos, ypos, todo, column, then, listed,
                     c, screen, counted, typed, reentered>>
  BY ParseReads DEF LoaderInv, ParseEntries
<1>3. boot_choice = boot_number /\ todo = <<>>
  BY <1>2 DEF LoaderInv, MenuInv, MenuType
<1>4. boot_choice' = boot_number'
  <2>1. \/ UNCHANGED <<boot_number, boot_choice>>
        \/ boot_number' = boot_number + 1 /\ boot_choice' = boot_choice + 1
    BY <1>1 DEF C!Parse, C!UseFreed, C!Comment, C!pvars, C!Skip, C!Title, C!Option, C!Close
  <2> QED BY <1>3, <2>1
<1>5. boot_number' \in 0 .. MaxEntries
  <2>1. /\ config' \in Configs /\ line' \in 1 .. Len(config') + 1 /\ boot_list' \in Seq(Nat)
        /\ boot_number' = Len(boot_list')
    BY <1>1 DEF ParserInv, ParserType
  <2>2. boot_number' <= Cardinality(Enders(line)')
    BY <1>1 DEF ParserInv, ParserType
  <2>3. PICK text \in Configs : text = config'
    BY <2>1
  <2>7. PICK l \in 1 .. Len(text) + 1 : l = line'
    BY <2>1, <2>3
  <2>4. Enders(line)' = {i \in 1 .. l - 1 : text[i] = "}"}
    BY <2>3, <2>7 DEF Enders
  <2>5. /\ Cardinality(Enders(line)') <= MaxEntries /\ Cardinality(Enders(line)') \in Nat
        /\ MaxEntries \in Nat
    BY <2>4, FewEnders, FS_CardinalityType, BootMenuAssumption
  <2>6. boot_number' \in Nat
    BY <2>1
  <2> QED BY <2>2, <2>5, <2>6
<1>6. MenuType'
  BY <1>1, <1>2, <1>3, <1>4, <1>5 DEF MenuInv, MenuType, MenuTypeOK, Entries, screen
<1>7. OptionsInv'
  BY <1>2 DEF OptionsInv
<1>8. KeyInv'
  BY <1>1, <1>2 DEF MenuInv, KeyInv, Draws, BootIsConfirmed
<1>9. CountInv'
  BY <1>1, <1>2 DEF MenuInv, CountInv, Counts, Bottom, screen
<1>10. DrawInv' /\ ColumnInv'
  BY <1>1, <1>2 DEF MenuInv, DrawInv, ColumnInv, Showing, Draws, InMenu
<1> QED BY <1>1, <1>2, <1>6, <1>7, <1>8, <1>9, <1>10 DEF LoaderInv, MenuInv

(* The menu does not disturb what was read.                                *)
LEMMA ParserStays ==
  ASSUME ParserInv, UNCHANGED parser, boot_number' = boot_number
  PROVE  ParserInv' /\ C!Parsed' = C!Parsed
<1>1. UNCHANGED <<config, line, boot_entry, boot_list, fields, freed, nulled, spoiled, short>>
  BY DEF parser
<1>2. /\ \A b : OpenAt(b, line)' <=> OpenAt(b, line)
      /\ \A b : ClosedBefore(b, line)' <=> ClosedBefore(b, line)
      /\ Enders(line)' = Enders(line)
  BY <1>1, SameLine
<1>3. /\ \A b : AsWritten(b)' = AsWritten(b)
      /\ AllClosed' <=> AllClosed
      /\ C!Parsed' = C!Parsed
  BY <1>1, SameText
<1>4. Knows(fields[boot_entry], boot_entry, line)' <=> Knows(fields[boot_entry], boot_entry, line)
  BY <1>1 DEF Knows, Newest, OwnLines, PathLines, Lines
<1>5. ParserType'
  BY <1>1, <1>2, <1>3 DEF ParserInv, ParserType
<1>6. EntryIs'
  BY <1>1 DEF ParserInv, EntryIs
<1>7. ClosedBlocksSafe'
  BY <1>1, <1>3 DEF ParserInv, ClosedBlocksSafe
<1>8. ListedSoFar'
  BY <1>1, <1>2 DEF ParserInv, ListedSoFar
<1>9. KnownSoFar'
  BY <1>1, <1>2, <1>3, <1>4 DEF ParserInv, KnownSoFar
<1> QED BY <1>3, <1>5, <1>6, <1>7, <1>8, <1>9 DEF ParserInv

(* A step of the program, of the interrupt or of the user.                 *)
LEMMA MenuKeeps ==
  ASSUME LoaderInv, Menu
  PROVE  LoaderInv'
<1>1. ParserInv /\ MenuInv /\ C!Parsed /\ MenuNext /\ UNCHANGED parser
  BY DEF LoaderInv, Menu
<1>2. MenuInv'
  BY <1>1, StartKeeps, CopyOptionKeeps, AutoBootKeeps, ShowKeeps, EntryAllocKeeps, AllocFailsKeeps,
     EntryResetKeeps, EntryWriteKeeps, EntryFreeKeeps, EnableKeeps, PollKeeps, GetKeyKeeps,
     TimedOutKeeps, UnregisterKeeps, SelectedKeeps, ClearResetKeeps, ClearWriteKeeps, MoveUpKeeps,
     MoveDownKeeps, NoMoveKeeps, ConfirmKeeps, TickKeeps, NextKeyKeeps
  DEF MenuNext, Program
<1>3. boot_number' = boot_number
  BY <1>1 DEF MenuNext, Program, Start, CopyOption, AutoBoot, Show, EntryAlloc, AllocFails, EntryReset,
     EntryWrite, EntryFree, Enable, Poll, GetKey, TimedOut, Unregister, Selected, ClearReset, ClearWrite,
     MoveUp, MoveDown, NoMove, Confirm, Tick, NextKey, Drawing, Waiting, Update, menu
<1>4. ParserInv' /\ C!Parsed'
  BY <1>1, <1>3, ParserStays
<1> QED BY <1>2, <1>4 DEF LoaderInv

(* The parser and the menu keep their invariants at every step of          *)
(* loader_init, whatever memory fails and whatever keys come.              *)
THEOREM LoaderInductive == LoaderSpec => []LoaderInv
<1>1. LoaderInit => LoaderInv
  BY InitParser, InitMenu DEF LoaderInit, LoaderInv, MenuInit
<1>2. LoaderInv /\ [LoaderNext]_lvars => LoaderInv'
  <2> SUFFICES ASSUME LoaderInv, [LoaderNext]_lvars PROVE LoaderInv'
    OBVIOUS
  <2>1. CASE ParseEntries
    BY <2>1, ParseKeeps
  <2>2. CASE Menu
    BY <2>2, MenuKeeps
  <2>3. CASE UNCHANGED lvars
    <3>1. UNCHANGED mvars /\ UNCHANGED parser
      BY <2>3 DEF lvars
    <3>2. ParserInv' /\ C!Parsed' = C!Parsed
      BY <3>1, ParserStays DEF LoaderInv, mvars, menu
    <3>3. UNCHANGED <<boot_number, boot_options, autoboot, boot_choice, boot_timeout, pc, xpos, ypos, todo,
                      column, then, listed, c, place, shown, countdown, counted, typed, reentered>>
      BY <3>1 DEF mvars, menu, screen
    <3>4. MenuType' /\ OptionsInv' /\ KeyInv'
      BY <3>3 DEF LoaderInv, MenuInv, MenuType, MenuTypeOK, OptionsInv, KeyInv, BootIsConfirmed, Draws, Entries
    <3>5. CountInv' /\ DrawInv' /\ ColumnInv'
      BY <3>3 DEF LoaderInv, MenuInv, CountInv, Counts, Bottom, DrawInv, ColumnInv, Showing, Draws,
         Pending, InMenu, Entries
    <3> QED BY <3>2, <3>3, <3>4, <3>5 DEF LoaderInv, MenuInv
  <2> QED BY <2>1, <2>2, <2>3 DEF LoaderNext
<1> QED BY <1>1, <1>2, PTL DEF LoaderSpec

(* For every text of elfboot.cfg the entries stored are the closed blocks  *)
(* in their order with the options of their own block, unless memory fails *)
(* or a freed entry is used, which only a block left open can lead to      *)
(* (loader.c:210-253).                                                     *)
THEOREM EntriesRead == LoaderSpec => []ParsedAsWritten
<1>1. LoaderInv => ParsedAsWritten
  BY WrittenInv DEF LoaderInv, ParserInv, ParsedAsWritten
<1> QED BY <1>1, LoaderInductive, PTL

(* What boots is the highlighted block of elfboot.cfg, and it was          *)
(* confirmed by enter or by the end of the count (loader.c:473, :633).     *)
THEOREM ChosenBoots == LoaderSpec => []BootsChosen
<1>1. LoaderInv => BootsChosen
  <2> SUFFICES ASSUME LoaderInv PROVE BootsChosen
    OBVIOUS
  <2>1. MenuTypeOK /\ BootIsConfirmed
    BY DEF LoaderInv, MenuInv, MenuType, KeyInv
  <2>2. HighlightIsChoice
    BY DEF LoaderInv, MenuInv, DrawInv, HighlightIsChoice, Showing, Pending, Draws, InMenu
  <2>3. BootsWhatIsWritten
    <3> SUFFICES ASSUME pc = "boot", ~ short, NEW b \in Blocks, Ordinal(b) = boot_choice + 1
                 PROVE  \E k \in DOMAIN boot_list : boot_options[boot_choice] = k /\ boot_list[k] = b
      BY DEF BootsWhatIsWritten
    <3>1. C!Parsed /\ ~ spoiled
      BY DEF LoaderInv, ParserInv, ParserType
    <3>2. boot_list[Ordinal(b)] = b /\ Len(boot_list) = boot_number
      BY <3>1, WrittenInv DEF LoaderInv, EntriesAsWritten
    <3>3. boot_choice \in Entries /\ boot_number \in 0 .. MaxEntries
      BY DEF LoaderInv, MenuInv, MenuType, MenuTypeOK
    <3>4. boot_options[boot_choice] = boot_choice + 1
      BY <3>3 DEF LoaderInv, MenuInv, OptionsInv
    <3>5. boot_list \in Seq(Nat)
      BY DEF LoaderInv, ParserInv, ParserType
    <3>6. boot_choice + 1 \in DOMAIN boot_list
      BY <3>2, <3>3, <3>5 DEF Entries
    <3> QED BY <3>2, <3>4, <3>6
  <2> QED BY <2>1, <2>2, <2>3 DEF BootsChosen
<1> QED BY <1>1, LoaderInductive, PTL

(* The interrupt never draws while the program is in the heap or between   *)
(* its ioctl and its write, and with the shipped logo what is redrawn      *)
(* after a count covers what was there (loader.c:346, :443, :511-519).     *)
THEOREM RedrawnInPlace == LoaderSpec => []DrawsInPlace
<1>1. LoaderInv => DrawsInPlace
  <2> SUFFICES ASSUME LoaderInv PROVE DrawsInPlace
    OBVIOUS
  <2>1. ~ reentered /\ (pc = "write" => place = <<column, Head(todo)>>)
    BY DEF LoaderInv, MenuInv, CountInv, DrawInv, Draws
  <2>2. pc \in {"key", "wait"} => countdown = -1
    BY DEF LoaderInv, MenuInv, CountInv, Counts
  <2>3. RedrawInPlace
    BY DEF LoaderInv, MenuInv, ColumnInv, RedrawInPlace, Showing, Pending, Draws, InMenu
  <2> QED BY <2>1, <2>2, <2>3 DEF DrawsInPlace, InterruptDrawsAlone
<1> QED BY <1>1, LoaderInductive, PTL
==============================================================================
