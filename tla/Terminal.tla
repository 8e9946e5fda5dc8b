------------------------------- MODULE Terminal -------------------------------
(***************************************************************************)
(* The console as the programs that write to it see it: where the next     *)
(* character goes and in which colours.  It is treat_char of               *)
(* kernel/console.c without the memory of the screen and without the       *)
(* clock, which Console adds.  Bytes are their ASCII codes.                *)
(***************************************************************************)
EXTENDS Integers

CONSTANTS Width, Height,   \* CONSOLE_WIDTH, CONSOLE_HEIGHT
          TabSize,         \* TABULATION_SIZE
          Bytes            \* what programs write

VARIABLES cursor,    \* cursor_line and cursor_column
          attr,      \* last_foreground_color, last_background_color, last_blink_state
          command,   \* command_requested and command_params[0]
          blanks     \* what is left of the loop of a tabulation or of a new line

vars == <<cursor, attr, command, blanks>>

Lines   == 0 .. Height - 1
Columns == 0 .. Width - 1
Cursors == [line : Lines, col : Columns]
Attrs   == [fg : 0 .. 15, bg : 0 .. 7, blink : BOOLEAN]

Commands == {"none", "requested", "B", "F"}

Home    == [line |-> 0, col |-> 0]
Default == [fg |-> 15, bg |-> 0, blink |-> FALSE]

BS  == 8
TAB == 9
LF  == 10
FF  == 12
CR  == 13
ESC == 27
DEL == 127

IsGlyph(c) == c \in 32 .. 126 \/ c >= 161

\* Faulty variant: the bottom line is left.
AdvanceBelow(cu) ==
  IF cu.col + 1 < Width - 1 THEN [cu EXCEPT !.col = @ + 1] ELSE [line |-> cu.line + 1, col |-> 0]

\* After a character: the last column is not used, the bottom line is not left.
Advance(cu) ==
  IF cu.col + 1 < Width - 1
    THEN [cu EXCEPT !.col = @ + 1]
    ELSE [line |-> IF cu.line >= Height - 1 THEN cu.line ELSE cu.line + 1, col |-> 0]

Back(cu) == IF cu.col > 0 THEN [cu EXCEPT !.col = @ - 1] ELSE cu

\* Faulty variant: to the end of the same line.
DeletedSameLine(cu) ==
  IF cu.col > 0 THEN Back(Advance(Back(cu))) ELSE [cu EXCEPT !.col = Width - 1]

\* delete_last_char: at the start of a line it goes to the end of the one above.
Deleted(cu) == IF cu.col > 0 THEN Back(Advance(Back(cu)))
               ELSE IF cu.line # 0 THEN [line |-> cu.line - 1, col |-> Width - 1]
               ELSE cu

\* The hexadecimal digit that c stands for; letters may be small only in
\* background colours.
Capital(c) == c \in 48 .. 57 \/ c \in 65 .. 70
Small(c)   == c \in 97 .. 102
Digit(c)   == IF c < 65 THEN c - 48 ELSE IF c < 97 THEN c - 55 ELSE c - 87

Foreground(c, fg) == IF Capital(c) THEN Digit(c) ELSE fg
Background(c, bg) == IF Capital(c) \/ Small(c) THEN Digit(c) % 8 ELSE bg

\* A byte of an escape sequence.
CommandByte(c) ==
  /\ command # "none"
  /\ command' = CASE command = "requested" /\ c \in {66, 98}  -> "B"
                  [] command = "requested" /\ c \in {70, 102} -> "F"
                  [] OTHER -> "none"
  /\ attr' = CASE command = "requested" /\ c \in {68, 100} -> Default
               [] command = "B" -> [attr EXCEPT !.bg = Background(c, @), !.blink = c > 55]
               [] command = "F" -> [attr EXCEPT !.fg = Foreground(c, @)]
               [] OTHER -> attr
  /\ UNCHANGED <<cursor, blanks>>

PlainByte(c) ==
  /\ command = "none"
  /\ command' = IF c = ESC THEN "requested" ELSE "none"
  /\ cursor' = CASE c = BS  -> Back(cursor)
                 [] c = FF  -> Home
                 [] c = CR  -> [cursor EXCEPT !.col = 0]
                 [] c = DEL -> Deleted(cursor)
                 [] IsGlyph(c) -> Advance(cursor)
                 [] OTHER -> cursor
  /\ blanks' = CASE c = TAB -> TabSize - (cursor.col % TabSize)
                 [] c = LF  -> Width - cursor.col - 1
                 [] OTHER -> 0
  /\ UNCHANGED attr

TreatChar(c) == blanks = 0 /\ (CommandByte(c) \/ PlainByte(c))

TreatBlank == /\ blanks > 0
              /\ cursor' = Advance(cursor)
              /\ blanks' = blanks - 1
              /\ UNCHANGED <<attr, command>>

Init == /\ cursor = Home
        /\ attr = Default
        /\ command = "none"
        /\ blanks = 0

Next == TreatBlank \/ \E c \in Bytes : TreatChar(c)

Spec == Init /\ [][Next]_vars

\* Next where the bytes of `others' may end up inside escape sequences.
DisturbedNext(others) == Next \/ \E c \in others : CommandByte(c)
===============================================================================
