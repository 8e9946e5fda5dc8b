---------------------------- MODULE Console_proofs ----------------------------
(***************************************************************************)
(* Proofs about Console, for every size of the screen, every tabulation,   *)
(* every set of bytes and every length of the time that fits in a line.    *)
(***************************************************************************)
EXTENDS Console, TLAPS

(***************************************************************************)
(* While the clock prints it is in no loop, and in an escape sequence only *)
(* before its first character; its cursor is at the place of its next      *)
(* character, and those printed before are on the screen.  This is what    *)
(* makes the properties inductive.                                         *)
(***************************************************************************)
Printed == IF clock = ClockLength THEN 0 ELSE ClockLength - clock - swallowed

ClockInv ==
  clock # NoClock =>
    /\ blanks = 0
    /\ clock = ClockLength => (swallowed = 1 <=> command # "none")
    /\ clock # ClockLength => command = "none"
    /\ clock > 0 => cursor = [line |-> 0, col |-> ClockColumn + Printed]
    /\ \A i \in 1 .. ClockLength :
         i <= Printed => screen[0][ClockColumn + i - 1] = "time"

ConsoleInv == TypeOK /\ DeletionNeverScrolls /\ ClockInv

(* The cursor after a character, a back space and a deletion is on the       *)
(* screen, and in the last column only above the bottom line.                *)
LEMMA CursorMoves ==
  ASSUME NEW cu \in Term!Cursors,
         cu.col = Width - 1 => cu.line < Height - 1
  PROVE  /\ Term!Advance(cu) \in Term!Cursors
         /\ Term!Advance(cu).col # Width - 1
         /\ Term!Back(cu) \in Term!Cursors
         /\ Term!Back(cu).col # Width - 1
         /\ Term!Deleted(cu) \in Term!Cursors
         /\ Term!Deleted(cu).col = Width - 1 => Term!Deleted(cu).line < Height - 1
<1>1. /\ cu.line \in Nat /\ cu.line <= Height - 1
      /\ cu.col \in Nat /\ cu.col <= Width - 1
      /\ cu = [line |-> cu.line, col |-> cu.col]
  BY ConsoleConstants DEF Term!Cursors, Term!Lines, Term!Columns
<1>2. \A d \in Term!Cursors : /\ Term!Advance(d) \in Term!Cursors
                              /\ Term!Advance(d).col # Width - 1
  BY ConsoleConstants DEF Term!Cursors, Term!Lines, Term!Columns, Term!Advance
<1>3. \A d \in Term!Cursors : /\ Term!Back(d) \in Term!Cursors
                              /\ Term!Back(d).col # Width - 1
  BY ConsoleConstants DEF Term!Cursors, Term!Lines, Term!Columns, Term!Back
<1>4. CASE cu.col > 0
  <2>1. Term!Deleted(cu) = Term!Back(Term!Advance(Term!Back(cu)))
    BY <1>4 DEF Term!Deleted
  <2> QED  BY <2>1, <1>2, <1>3
<1>5. CASE ~(cu.col > 0) /\ cu.line # 0
  <2>1. Term!Deleted(cu) = [line |-> cu.line - 1, col |-> Width - 1]
    BY <1>5 DEF Term!Deleted
  <2> QED
    BY <2>1, <1>1, <1>2, <1>3, <1>5, ConsoleConstants DEF Term!Cursors, Term!Lines, Term!Columns
<1>6. CASE ~(cu.col > 0) /\ cu.line = 0
  <2>1. Term!Deleted(cu) = cu
    BY <1>6 DEF Term!Deleted
  <2> QED  BY <2>1, <1>2, <1>3
<1> QED  BY <1>4, <1>5, <1>6

Screens == [Term!Lines -> [Term!Columns -> Cells]]

(* Writing a cell keeps the screen a screen, and scrolls only at the end of   *)
(* the bottom line.                                                           *)
LEMMA WrittenProperties ==
  ASSUME NEW s \in Screens, NEW cu \in Term!Cursors, NEW cell \in Cells
  PROVE  /\ Written(s, cu, cell) \in Screens
         /\ ~(cu.col + 1 >= Width - 1 /\ cu.line >= Height - 1) =>
              Written(s, cu, cell) = [s EXCEPT ![cu.line] = [s[cu.line] EXCEPT ![cu.col] = cell]]
<1> DEFINE t == [s EXCEPT ![cu.line] = [s[cu.line] EXCEPT ![cu.col] = cell]]
<1>1. cu.line \in Term!Lines /\ cu.col \in Term!Columns
  BY DEF Term!Cursors
<1>2. t \in Screens
  BY <1>1 DEF Screens
<1>3. [l \in Term!Lines |-> IF l < Height - 1 THEN t[l + 1]
                                              ELSE [k \in Term!Columns |-> "blank"]] \in Screens
  <2>1. [k \in Term!Columns |-> "blank"] \in [Term!Columns -> Cells]
    BY DEF Cells
  <2>2. ASSUME NEW l \in Term!Lines, l < Height - 1
        PROVE  t[l + 1] \in [Term!Columns -> Cells]
    <3>1. l + 1 \in Term!Lines
      BY <2>2, ConsoleConstants DEF Term!Lines
    <3> QED  BY <3>1, <1>2 DEF Screens
  <2> HIDE DEF t
  <2> QED  BY <2>1, <2>2 DEF Screens
<1>4. [s EXCEPT ![cu.line][cu.col] = cell] = t
  BY <1>1 DEF Screens
<1>5. Written(s, cu, cell) = IF cu.col + 1 >= Width - 1 /\ cu.line >= Height - 1
         THEN [l \in Term!Lines |-> IF l < Height - 1 THEN t[l + 1]
                                     ELSE [k \in Term!Columns |-> "blank"]]
         ELSE t
  BY <1>4 DEF Written
<1> HIDE DEF t
<1> QED  BY <1>2, <1>3, <1>5 DEF t

(* The blank of a deletion is written on the screen.                          *)
LEMMA ErasedType ==
  ASSUME NEW s \in Screens, NEW cu \in Term!Cursors,
         cu.col = Width - 1 => cu.line < Height - 1
  PROVE  Erased(s, cu) \in Screens
<1>1. "blank" \in Cells
  BY DEF Cells
<1>2. Term!Back(cu) \in Term!Cursors
  BY CursorMoves
<1>3. Written(s, Term!Back(cu), "blank") \in Screens
  BY <1>1, <1>2, WrittenProperties
<1>4. ASSUME ~(cu.col > 0), cu.line # 0
      PROVE  Written(s, [line |-> cu.line - 1, col |-> Width - 1], "blank") \in Screens
  <2>1. [line |-> cu.line - 1, col |-> Width - 1] \in Term!Cursors
    BY <1>4, ConsoleConstants DEF Term!Cursors, Term!Lines, Term!Columns
  <2> QED  BY <1>1, <2>1, WrittenProperties
<1> QED  BY <1>3, <1>4 DEF Erased

(* What a byte outside an escape sequence does to the cursor.                 *)
LEMMA PlainByteCursor ==
  ASSUME TypeOK, DeletionNeverScrolls, NEW c, Term!PlainByte(c)
  PROVE  /\ cursor' \in Term!Cursors
         /\ cursor'.col = Width - 1 => cursor'.line < Height - 1
<1>1. /\ cursor \in Term!Cursors
      /\ cursor.col = Width - 1 => cursor.line < Height - 1
      /\ Width \in Nat /\ Height \in Nat /\ Width > 1 /\ Height > 1
  BY ConsoleConstants DEF TypeOK, DeletionNeverScrolls
<1>2. /\ Term!Home \in Term!Cursors /\ Term!Home.col # Width - 1
      /\ [cursor EXCEPT !.col = 0] \in Term!Cursors
      /\ [cursor EXCEPT !.col = 0].col # Width - 1
  BY <1>1 DEF Term!Home, Term!Cursors, Term!Lines, Term!Columns
<1>3. \/ cursor' = Term!Back(cursor)
      \/ cursor' = Term!Home
      \/ cursor' = [cursor EXCEPT !.col = 0]
      \/ cursor' = Term!Deleted(cursor)
      \/ cursor' = Term!Advance(cursor)
      \/ cursor' = cursor
  BY DEF Term!PlainByte
<1> QED  BY <1>1, <1>2, <1>3, CursorMoves

(* Changing a colour gives colours.                                           *)
LEMMA AttrsKept ==
  ASSUME NEW a \in Term!Attrs, NEW fg \in 0 .. 15, NEW bg \in 0 .. 7, NEW blink \in BOOLEAN
  PROVE  /\ [a EXCEPT !.bg = bg, !.blink = blink] \in Term!Attrs
         /\ [a EXCEPT !.fg = fg] \in Term!Attrs
BY DEF Term!Attrs

(* A byte of whatever writer keeps the types and never leads to the corner.   *)
LEMMA TreatCharKeeps ==
  ASSUME TypeOK, DeletionNeverScrolls, NEW c \in 0 .. 255, TreatChar(c)
  PROVE  /\ screen' \in Screens
         /\ cursor' \in Term!Cursors
         /\ cursor'.col = Width - 1 => cursor'.line < Height - 1
         /\ attr' \in Term!Attrs
         /\ command' \in Term!Commands
         /\ blanks' \in Nat
<1>1. /\ cursor \in Term!Cursors /\ screen \in Screens
      /\ cursor.col = Width - 1 => cursor.line < Height - 1
      /\ Width \in Nat /\ Height \in Nat /\ Width > 1 /\ Height > 1
  BY ConsoleConstants DEF TypeOK, DeletionNeverScrolls, Screens
<1>2. CASE Term!CommandByte(c)
  <2>1. screen' = screen /\ cursor' = cursor /\ blanks' = blanks
    BY <1>2 DEF TreatChar, Term!CommandByte
  <2>2. command' \in Term!Commands
    BY <1>2 DEF Term!CommandByte, Term!Commands
  <2>3. attr' \in Term!Attrs
    <3>1. Term!Default \in Term!Attrs
      BY DEF Term!Default, Term!Attrs
    <3>2. Term!Background(c, attr.bg) \in 0 .. 7 /\ Term!Foreground(c, attr.fg) \in 0 .. 15
      BY DEF TypeOK, Term!Attrs, Term!Background, Term!Foreground, Term!Digit,
             Term!Capital, Term!Small
    <3>3. /\ [attr EXCEPT !.bg = Term!Background(c, @), !.blink = c > 55] \in Term!Attrs
          /\ [attr EXCEPT !.fg = Term!Foreground(c, @)] \in Term!Attrs
      <4>1. (c > 55) \in BOOLEAN /\ attr \in Term!Attrs
        BY DEF TypeOK
      <4> QED  BY <3>2, <4>1, AttrsKept
    <3>4. \/ attr' = Term!Default
          \/ attr' = [attr EXCEPT !.bg = Term!Background(c, @), !.blink = c > 55]
          \/ attr' = [attr EXCEPT !.fg = Term!Foreground(c, @)]
          \/ attr' = attr
      BY <1>2 DEF Term!CommandByte
    <3> QED  BY <3>1, <3>3, <3>4 DEF TypeOK
  <2> QED  BY <1>1, <2>1, <2>2, <2>3 DEF TypeOK
<1>3. CASE Term!PlainByte(c)
  <2>1. attr' = attr /\ command' \in Term!Commands
    BY <1>3 DEF Term!PlainByte, Term!Commands
  <2>2. blanks' \in Nat
    <3>1. cursor.col \in Nat /\ cursor.col <= Width - 1
      BY <1>1 DEF Term!Cursors, Term!Columns
    <3>2. cursor.col % TabSize \in 0 .. TabSize - 1
      BY <3>1, ConsoleConstants
    <3>3. /\ TabSize - (cursor.col % TabSize) \in Nat
          /\ Width - cursor.col - 1 \in Nat
      BY <3>1, <3>2, <1>1, ConsoleConstants
    <3>4. \/ blanks' = TabSize - (cursor.col % TabSize)
          \/ blanks' = Width - cursor.col - 1
          \/ blanks' = 0
      BY <1>3 DEF Term!PlainByte
    <3> QED  BY <3>3, <3>4
  <2>3. screen' \in Screens
    <3>1. Cleared \in Screens
      BY DEF Cleared, Screens, Cells
    <3>2. Erased(screen, cursor) \in Screens
      BY <1>1, ErasedType
    <3>3. Cell(c) \in Cells
      BY DEF Cell, Cells
    <3>4. Written(screen, cursor, Cell(c)) \in Screens
      BY <1>1, <3>3, WrittenProperties
    <3>5. screen' \in {screen, Cleared, Erased(screen, cursor), Written(screen, cursor, Cell(c))}
      BY <1>3 DEF TreatChar, Term!PlainByte
    <3> QED  BY <1>1, <3>1, <3>2, <3>4, <3>5
  <2> QED  BY <1>3, <2>1, <2>2, <2>3, PlainByteCursor DEF TypeOK
<1> QED  BY <1>2, <1>3 DEF TreatChar, Term!TreatChar

-------------------------------------------------------------------------------
(* The place of the next character of the time.                               *)
LEMMA PrintedBounds ==
  ASSUME ConsoleInv, clock > 0
  PROVE  /\ Printed \in Nat /\ Printed <= ClockLength - clock
         /\ cursor = [line |-> 0, col |-> ClockColumn + Printed]
         /\ cursor.col \in Nat /\ cursor.col < Width - 1 /\ cursor.line = 0
<1>1. /\ clock \in 1 .. ClockLength /\ clock # NoClock /\ swallowed \in {0, 1}
  BY ConsoleConstants DEF ConsoleInv, TypeOK, NoClock
<1>2. Printed \in Nat /\ Printed <= ClockLength - clock
  BY <1>1, ConsoleConstants DEF Printed
<1>3. cursor = [line |-> 0, col |-> ClockColumn + Printed]
  BY <1>1 DEF ConsoleInv, ClockInv
<1>4. ClockColumn + Printed \in Nat /\ ClockColumn + Printed < Width - 1
  BY <1>1, <1>2, ConsoleConstants DEF ClockColumn
<1> QED  BY <1>2, <1>3, <1>4

(* A character of the time that an escape sequence takes: nothing is printed. *)
LEMMA ClockCharSwallowed ==
  ASSUME ConsoleInv, NEW c \in ClockChars, ClockChar(c), command # "none"
  PROVE  /\ clock = ClockLength /\ swallowed = 1
         /\ Term!CommandByte(c) /\ command' = "none" /\ blanks' = 0
         /\ screen' = screen /\ cursor' = cursor
<1>1. clock # NoClock /\ c \in {48, 58}
  BY DEF ClockChar, NoClock, ClockChars, ConsoleInv, TypeOK
<1>2. clock = ClockLength /\ swallowed = 1 /\ blanks = 0
  BY <1>1 DEF ConsoleInv, ClockInv
<1>3. Term!CommandByte(c) /\ screen' = screen
  BY DEF ClockChar, TreatChar, Term!TreatChar, Term!PlainByte
<1>4. command' = "none" /\ blanks' = 0 /\ cursor' = cursor
  BY <1>1, <1>2, <1>3 DEF Term!CommandByte
<1> QED  BY <1>2, <1>3, <1>4

(* Any other character of the time, at its place: it is put in the corner,    *)
(* and the cursor goes on to the next place.                                  *)
LEMMA ClockCharWrites ==
  ASSUME ConsoleInv, NEW c \in ClockChars, ClockChar(c), command = "none"
  PROVE  /\ command' = "none" /\ blanks' = 0 /\ attr' = attr
         /\ screen' = [screen EXCEPT ![0] = [screen[0] EXCEPT ![cursor.col] = "time"]]
         /\ clock' > 0 => cursor' = [line |-> 0, col |-> cursor.col + 1]
<1>1. /\ clock \in 1 .. ClockLength /\ clock > 0 /\ clock' = clock - 1
      /\ c \in {48, 58}
  BY ConsoleConstants DEF ConsoleInv, TypeOK, ClockChar, ClockChars, NoClock
<1>2. Term!PlainByte(c)
  BY DEF ClockChar, TreatChar, Term!TreatChar, Term!CommandByte
<1>3. /\ Term!IsGlyph(c) /\ Cell(c) = "time"
      /\ c # Term!BS /\ c # Term!FF /\ c # Term!CR /\ c # Term!DEL
      /\ c # Term!TAB /\ c # Term!LF /\ c # Term!ESC
  BY <1>1 DEF Term!IsGlyph, Cell, ClockChars, Term!BS, Term!FF, Term!CR, Term!DEL,
              Term!TAB, Term!LF, Term!ESC
<1>4. /\ command' = "none" /\ blanks' = 0 /\ attr' = attr
      /\ cursor' = Term!Advance(cursor)
  BY <1>2, <1>3 DEF Term!PlainByte
<1>5. screen' = Written(screen, cursor, "time")
  BY <1>3 DEF ClockChar, TreatChar
<1>6. /\ cursor = [line |-> 0, col |-> ClockColumn + Printed]
      /\ cursor.line = 0 /\ cursor.col \in Nat /\ cursor.col < Width - 1
      /\ cursor.col = ClockColumn + Printed /\ Printed <= ClockLength - clock
      /\ Printed \in Nat
  BY <1>1, PrintedBounds
<1>7. screen' = [screen EXCEPT ![0] = [screen[0] EXCEPT ![cursor.col] = "time"]]
  <2>1. "time" \in Cells /\ screen \in Screens /\ cursor \in Term!Cursors
    BY DEF Cells, Screens, ConsoleInv, TypeOK
  <2>2. ~(cursor.col + 1 >= Width - 1 /\ cursor.line >= Height - 1)
    BY <1>6, ConsoleConstants
  <2>3. Written(screen, cursor, "time")
          = [screen EXCEPT ![cursor.line] = [screen[cursor.line] EXCEPT ![cursor.col] = "time"]]
    BY <2>1, <2>2, WrittenProperties
  <2> QED  BY <1>5, <1>6, <2>3
<1>8. clock' > 0 => cursor' = [line |-> 0, col |-> cursor.col + 1]
  <2>1. ASSUME clock' > 0 PROVE cursor.col + 1 < Width - 1
    BY <2>1, <1>1, <1>6, ConsoleConstants DEF ClockColumn
  <2>2. [cursor EXCEPT !.col = @ + 1] = [line |-> 0, col |-> cursor.col + 1]
    BY <1>6
  <2> QED  BY <1>4, <2>1, <2>2 DEF Term!Advance
<1> QED  BY <1>4, <1>7, <1>8

(* The cells of the time are of the top line.                                 *)
LEMMA CornerOnScreen ==
  /\ 0 \in Term!Lines
  /\ \A i \in 1 .. ClockLength : ClockColumn + i - 1 \in Term!Columns
  /\ ClockColumn \in Term!Columns /\ ClockColumn # Width - 1
BY ConsoleConstants DEF Term!Lines, Term!Columns, ClockColumn

LEMMA ClockCharKeeps ==
  ASSUME ConsoleInv, NEW c \in ClockChars, ClockChar(c)
  PROVE  ConsoleInv'
<1>1. c \in 0 .. 255 /\ TreatChar(c) /\ TypeOK /\ DeletionNeverScrolls
  BY DEF ClockChars, ClockChar, ConsoleInv
<1>2. clock' = clock - 1 /\ saved' = saved /\ swallowed' = swallowed /\ clock \in 1 .. ClockLength
  BY <1>1, ConsoleConstants DEF ClockChar, TypeOK
<1>3. TypeOK' /\ DeletionNeverScrolls'
  <2>1. clock' \in -1 .. ClockLength
    BY <1>2, ConsoleConstants
  <2> QED  BY <1>1, <1>2, <2>1, TreatCharKeeps DEF TypeOK, DeletionNeverScrolls, Screens
<1>4. clock # NoClock /\ clock > 0 /\ clock' # ClockLength /\ swallowed' = swallowed
  BY <1>2, ConsoleConstants DEF NoClock, ClockChar
<1>5. ClockInv'
  <2>1. CASE command # "none"
    <3>1. /\ clock = ClockLength /\ swallowed = 1 /\ command' = "none" /\ blanks' = 0
          /\ screen' = screen /\ cursor' = cursor
      BY <2>1, ClockCharSwallowed
    <3>2. Printed = 0 /\ Printed' = 0
      BY <1>2, <1>4, <3>1, ConsoleConstants DEF Printed
    <3>3. cursor = [line |-> 0, col |-> ClockColumn + Printed]
      BY <1>4 DEF ConsoleInv, ClockInv
    <3>4. \A i \in 1 .. ClockLength : ~(i <= Printed')
      BY <3>2
    <3> QED  BY <1>4, <3>1, <3>2, <3>3, <3>4 DEF ClockInv
  <2>2. CASE command = "none"
    <3>1. /\ command' = "none" /\ blanks' = 0
          /\ screen' = [screen EXCEPT ![0] = [screen[0] EXCEPT ![cursor.col] = "time"]]
          /\ clock' > 0 => cursor' = [line |-> 0, col |-> cursor.col + 1]
      BY <2>2, ClockCharWrites
    <3>2. cursor.col = ClockColumn + Printed /\ Printed \in Nat
      BY <1>4, PrintedBounds
    <3>3. Printed' = Printed + 1
      <4>1. clock = ClockLength => swallowed = 0
        BY <1>1, <1>4, <2>2 DEF ConsoleInv, ClockInv, TypeOK
      <4> QED  BY <1>1, <1>2, <1>4, <4>1, ConsoleConstants DEF Printed, TypeOK
    <3>4. clock' > 0 => cursor' = [line |-> 0, col |-> ClockColumn + Printed']
      <4>1. cursor.col + 1 = ClockColumn + Printed'
        BY <3>2, <3>3, ConsoleConstants DEF ClockColumn
      <4> QED  BY <3>1, <4>1
    <3>5. ASSUME NEW i \in 1 .. ClockLength, i <= Printed'
          PROVE  screen'[0][ClockColumn + i - 1] = "time"
      <4>1. 0 \in Term!Lines /\ ClockColumn + i - 1 \in Term!Columns
        BY CornerOnScreen
      <4>2. screen \in [Term!Lines -> [Term!Columns -> Cells]] /\ cursor.col \in Term!Columns
        BY <1>1 DEF TypeOK, Term!Cursors
      <4>3. screen'[0] = [screen[0] EXCEPT ![cursor.col] = "time"]
        BY <3>1, <4>1, <4>2
      <4>4. screen[0] \in [Term!Columns -> Cells]
        BY <4>1, <4>2
      <4>5. CASE i = Printed'
        <5>1. ClockColumn + i - 1 = cursor.col
          BY <4>5, <3>2, <3>3, ConsoleConstants DEF ClockColumn
        <5> QED  BY <5>1, <4>2, <4>3, <4>4
      <4>6. CASE i # Printed'
        <5>1. i <= Printed /\ ClockColumn + i - 1 # cursor.col
          BY <3>5, <4>6, <3>2, <3>3, ConsoleConstants DEF ClockColumn
        <5>2. screen[0][ClockColumn + i - 1] = "time"
          BY <5>1, <1>4 DEF ConsoleInv, ClockInv
        <5> QED  BY <5>1, <5>2, <4>1, <4>3, <4>4
      <4> QED  BY <4>5, <4>6
    <3> QED  BY <1>4, <3>1, <3>4, <3>5 DEF ClockInv
  <2> QED  BY <2>1, <2>2
<1> QED  BY <1>3, <1>5 DEF ConsoleInv

(* The invariant is inductive.                                                *)
LEMMA ConsoleInvInit == Init => ConsoleInv
<1> SUFFICES ASSUME Init PROVE ConsoleInv
  OBVIOUS
<1>1. Term!Home \in Term!Cursors /\ Term!Home.col # Width - 1
  BY ConsoleConstants DEF Term!Home, Term!Cursors, Term!Lines, Term!Columns
<1>2. screen \in [Term!Lines -> [Term!Columns -> Cells]]
  BY DEF Init, Cleared, Cells
<1>3. attr \in Term!Attrs /\ command \in Term!Commands /\ blanks \in Nat
  BY DEF Init, Term!Init, Term!Default, Term!Attrs, Term!Commands
<1>4. clock = NoClock /\ clock \in -1 .. ClockLength
  BY ConsoleConstants DEF Init, NoClock
<1> QED
  BY <1>1, <1>2, <1>3, <1>4
  DEF Init, Term!Init, ConsoleInv, TypeOK, DeletionNeverScrolls, ClockInv

LEMMA ConsoleInvStep ==
  ASSUME ConsoleInv, [Next]_vars
  PROVE  ConsoleInv'
<1> USE DEF ConsoleInv
<1>1. ASSUME NEW c \in Bytes, PutByte(c) PROVE ConsoleInv'
  <2>1. /\ c \in 0 .. 255 /\ TreatChar(c) /\ clock' = clock /\ saved' = saved
        /\ clock = NoClock /\ swallowed' = swallowed
    BY <1>1, ConsoleConstants DEF PutByte
  <2> QED
    BY <2>1, TreatCharKeeps DEF TypeOK, DeletionNeverScrolls, ClockInv, Screens
<1>2. CASE PutBlank
  <2>1. /\ clock' = clock /\ saved' = saved /\ clock = NoClock /\ swallowed' = swallowed
        /\ attr' = attr /\ command' = command
        /\ cursor' = Term!Advance(cursor) /\ blanks' = blanks - 1 /\ blanks > 0
        /\ screen' = Written(screen, cursor, "blank")
    BY <1>2 DEF PutBlank, Term!TreatBlank
  <2>2. blanks' \in Nat
    BY <2>1 DEF TypeOK
  <2>3. screen' \in Screens
    <3>1. "blank" \in Cells /\ screen \in Screens /\ cursor \in Term!Cursors
      BY DEF Cells, TypeOK, Screens
    <3> QED  BY <2>1, <3>1, WrittenProperties
  <2>4. cursor' \in Term!Cursors /\ cursor'.col # Width - 1
    BY <2>1, CursorMoves DEF TypeOK, DeletionNeverScrolls
  <2> QED
    BY <2>1, <2>2, <2>3, <2>4 DEF TypeOK, DeletionNeverScrolls, ClockInv, Screens
<1>3. CASE ClockStart
  <2>1. /\ saved' = cursor /\ clock' = ClockLength /\ blanks = 0
        /\ cursor' = [line |-> 0, col |-> ClockColumn]
        /\ screen' = screen /\ attr' = attr /\ command' = command /\ blanks' = blanks
        /\ swallowed' = IF command = "none" THEN 0 ELSE 1
    BY <1>3 DEF ClockStart
  <2>2. cursor' \in Term!Cursors /\ cursor'.col # Width - 1
    BY <2>1, CornerOnScreen DEF Term!Cursors
  <2>3. TypeOK' /\ DeletionNeverScrolls'
    BY <2>1, <2>2, ConsoleConstants DEF TypeOK, DeletionNeverScrolls
  <2>4. ClockInv'
    <3>1. Printed' = 0 /\ ClockColumn + 0 = ClockColumn
      BY <2>1, ConsoleConstants DEF ClockColumn, Printed
    <3>2. \A i \in 1 .. ClockLength : ~(i <= Printed')
      BY <3>1
    <3> QED  BY <2>1, <3>1, <3>2 DEF ClockInv
  <2> QED  BY <2>3, <2>4
<1>4. ASSUME NEW c \in ClockChars, ClockChar(c) PROVE ConsoleInv'
  BY <1>4, ClockCharKeeps
<1>5. CASE ClockEnd
  <2>1. /\ cursor' = saved /\ saved' = Term!Home /\ clock' = NoClock /\ swallowed' = 0
        /\ screen' = screen /\ attr' = attr /\ command' = command /\ blanks' = blanks
    BY <1>5 DEF ClockEnd
  <2>2. Term!Home \in Term!Cursors /\ Term!Home.col # Width - 1
    BY ConsoleConstants DEF Term!Home, Term!Cursors, Term!Lines, Term!Columns
  <2>3. NoClock \in -1 .. ClockLength
    BY ConsoleConstants DEF NoClock
  <2> QED  BY <2>1, <2>2, <2>3 DEF TypeOK, DeletionNeverScrolls, ClockInv
<1>6. CASE UNCHANGED vars
  BY <1>6 DEF vars, TypeOK, DeletionNeverScrolls, ClockInv, Printed
<1> QED  BY <1>1, <1>2, <1>3, <1>4, <1>5, <1>6 DEF Next

LEMMA ConsoleInvHolds == Spec => []ConsoleInv
<1>1. Init => ConsoleInv
  BY ConsoleInvInit
<1>2. ConsoleInv /\ [Next]_vars => ConsoleInv'
  BY ConsoleInvStep
<1> QED  BY <1>1, <1>2, PTL DEF Spec
-------------------------------------------------------------------------------
(***************************************************************************)
(* The cursor never leaves the screen: the assertions of write_char and    *)
(* set_cursor hold for every sequence of bytes and interrupts.             *)
(***************************************************************************)
THEOREM ConsoleTypes == Spec => []TypeOK
<1>1. ConsoleInv => TypeOK
  BY DEF ConsoleInv
<1> QED  BY <1>1, ConsoleInvHolds, PTL

(* No deletion, treated by delete_last_char, makes the screen scroll.        *)
THEOREM NoScrollByDeletion == Spec => []DeletionNeverScrolls
<1>1. ConsoleInv => DeletionNeverScrolls
  BY DEF ConsoleInv
<1> QED  BY <1>1, ConsoleInvHolds, PTL

(* Whenever print_top_right has printed, the time is in the corner, without  *)
(* its first character if it began inside an escape sequence.                *)
THEOREM TimeIsShown == Spec => []TimeShown
<1>1. ConsoleInv => TimeShown
  <2> SUFFICES ASSUME ConsoleInv, clock = 0, NEW i \in 1 .. ClockLength - swallowed
               PROVE  screen[0][ClockColumn + i - 1] = "time"
    BY DEF TimeShown
  <2>1. clock # NoClock /\ i \in 1 .. ClockLength /\ i <= Printed
    BY ConsoleConstants DEF NoClock, Printed, ConsoleInv, TypeOK
  <2> QED  BY <2>1 DEF ConsoleInv, ClockInv
<1> QED  BY <1>1, ConsoleInvHolds, PTL

(* print_top_right changes no cell of the screen but its own.                *)
THEOREM TextIsKept == Spec => ClockKeepsText
<1> DEFINE Kept == clock # NoClock =>
                     \A l \in Term!Lines, k \in Term!Columns :
                       screen'[l][k] # screen[l][k] => l = 0 /\ k \in ClockColumn .. Width - 2
<1>1. ConsoleInv /\ [Next]_vars => [Kept]_vars
  <2> SUFFICES ASSUME ConsoleInv, [Next]_vars, clock # NoClock,
                      NEW l \in Term!Lines, NEW k \in Term!Columns,
                      screen'[l][k] # screen[l][k]
               PROVE  l = 0 /\ k \in ClockColumn .. Width - 2
    OBVIOUS
  <2>1. PICK c \in ClockChars : ClockChar(c)
    BY DEF Next, PutByte, PutBlank, ClockStart, ClockEnd, vars
  <2>2. screen' = [screen EXCEPT ![0] = [screen[0] EXCEPT ![cursor.col] = "time"]]
    BY <2>1, ClockCharWrites, ClockCharSwallowed
  <2>3. /\ screen \in [Term!Lines -> [Term!Columns -> Cells]]
        /\ screen[l] \in [Term!Columns -> Cells]
    BY DEF ConsoleInv, TypeOK
  <2>4. l = 0
    BY <2>2, <2>3
  <2>5. k = cursor.col
    BY <2>2, <2>3, <2>4
  <2>6. /\ cursor.col = ClockColumn + Printed /\ Printed \in Nat
        /\ cursor.col < Width - 1
    BY <2>1, PrintedBounds DEF ClockChar
  <2> QED  BY <2>4, <2>5, <2>6, ConsoleConstants DEF ClockColumn
<1> QED  BY <1>1, ConsoleInvHolds, PTL DEF Spec, ClockKeepsText

(* The two instances of Terminal have the same operators.                    *)
LEMMA SameMoves ==
  ASSUME NEW cu
  PROVE  /\ Program!Advance(cu) = Term!Advance(cu)
         /\ Program!Back(cu) = Term!Back(cu)
         /\ Program!Deleted(cu) = Term!Deleted(cu)
<1>1. /\ \A d : Program!Advance(d) = Term!Advance(d)
      /\ \A d : Program!Back(d) = Term!Back(d)
  BY DEF Program!Advance, Term!Advance, Program!Back, Term!Back
<1> QED  BY <1>1 DEF Program!Deleted, Term!Deleted

LEMMA SameBytes ==
  ASSUME NEW c, NEW x
  PROVE  /\ Program!IsGlyph(c) = Term!IsGlyph(c)
         /\ Program!Foreground(c, x) = Term!Foreground(c, x)
         /\ Program!Background(c, x) = Term!Background(c, x)
         /\ Program!Home = Term!Home /\ Program!Default = Term!Default
         /\ Program!BS = Term!BS /\ Program!TAB = Term!TAB /\ Program!LF = Term!LF
         /\ Program!FF = Term!FF /\ Program!CR = Term!CR
         /\ Program!ESC = Term!ESC /\ Program!DEL = Term!DEL
BY DEF Program!IsGlyph, Term!IsGlyph, Program!Foreground, Term!Foreground,
       Program!Background, Term!Background, Program!Capital, Term!Capital,
       Program!Small, Term!Small, Program!Digit, Term!Digit, Program!Home, Term!Home,
       Program!Default, Term!Default, Program!BS, Term!BS, Program!TAB, Term!TAB,
       Program!LF, Term!LF, Program!FF, Term!FF, Program!CR, Term!CR,
       Program!ESC, Term!ESC, Program!DEL, Term!DEL

(***************************************************************************)
(* The console with the clock implements the terminal without it, except   *)
(* for a tick inside an escape sequence: a step of the program is the same *)
(* step there, the first character of such a tick is a byte of the         *)
(* sequence, and every other step of the clock is a stuttering step, the   *)
(* cursor of the program being saved meanwhile.                            *)
(***************************************************************************)
THEOREM ClockIsTransparent == Spec => RefinesTerminal
<1>1. Init => Program!Init
  BY DEF Init, Term!Init, Program!Init, Term!Home, Term!Default, Program!Home, Program!Default
<1>2. ConsoleInv /\ [Next]_vars => [Program!DisturbedNext(ClockChars)]_Program!vars
  <2> SUFFICES ASSUME ConsoleInv, [Next]_vars PROVE [Program!DisturbedNext(ClockChars)]_Program!vars
    OBVIOUS
  <2>1. ASSUME NEW c \in Bytes, PutByte(c) PROVE Program!Next
    <3>1. clock = NoClock /\ clock' = NoClock /\ Term!TreatChar(c)
      BY <2>1 DEF PutByte, TreatChar
    <3>2. CASE Term!CommandByte(c)
      BY <3>1, <3>2, SameBytes
      DEF Term!TreatChar, Term!CommandByte, Program!Next, Program!TreatChar, Program!CommandByte
    <3>3. CASE Term!PlainByte(c)
      BY <3>1, <3>3, SameBytes, SameMoves
      DEF Term!TreatChar, Term!PlainByte, Program!Next, Program!TreatChar, Program!PlainByte
    <3> QED  BY <3>1, <3>2, <3>3 DEF Term!TreatChar
  <2>2. CASE PutBlank
    <3>1. clock = NoClock /\ clock' = NoClock /\ Term!TreatBlank
      BY <2>2 DEF PutBlank
    <3>2. Program!TreatBlank
      BY <3>1, SameMoves DEF Term!TreatBlank, Program!TreatBlank
    <3> QED  BY <3>2 DEF Program!Next, Program!DisturbedNext
  <2>3. CASE ClockStart
    <3>1. clock' # NoClock
      BY <2>3, ConsoleConstants DEF ClockStart, NoClock
    <3> QED  BY <2>3, <3>1 DEF ClockStart, Program!vars
  <2>4. ASSUME NEW c \in ClockChars, ClockChar(c)
        PROVE  Program!CommandByte(c) \/ UNCHANGED Program!vars
    <3>1. clock # NoClock /\ clock' # NoClock /\ saved' = saved /\ blanks = 0
      BY <2>4, ConsoleConstants DEF ClockChar, NoClock, ConsoleInv, ClockInv, TypeOK
    <3>2. CASE command = "none"
      <4>1. attr' = attr /\ command' = command /\ blanks' = 0
        BY <2>4, <3>2, ClockCharWrites
      <4> QED  BY <3>1, <4>1 DEF Program!vars
    <3>3. CASE command # "none"
      <4>1. Term!CommandByte(c)
        BY <2>4, <3>3, ClockCharSwallowed
      <4>2. Program!CommandByte(c)
        BY <3>1, <4>1, SameBytes DEF Term!CommandByte, Program!CommandByte
      <4> QED  BY <4>2
    <3> QED  BY <3>2, <3>3
  <2>5. CASE ClockEnd
    <3>1. clock # NoClock /\ clock' = NoClock
      BY <2>5 DEF ClockEnd, NoClock
    <3> QED  BY <2>5, <3>1 DEF ClockEnd, Program!vars
  <2>6. CASE UNCHANGED vars
    BY <2>6 DEF vars, Program!vars
  <2> QED  BY <2>1, <2>2, <2>3, <2>4, <2>5, <2>6 DEF Next, Program!DisturbedNext
<1> QED  BY <1>1, <1>2, ConsoleInvHolds, PTL DEF Spec, RefinesTerminal
===============================================================================
