------------------------------- MODULE Console -------------------------------
(***************************************************************************)
(* kernel/console.c: the memory of the screen, and the two writers that    *)
(* share its one cursor: programs, through cons_write, and the clock       *)
(* interrupt, which prints the time in the top right corner through        *)
(* print_top_right.  A byte of a program is treated without interruption;  *)
(* between two of them the clock may come, in the middle of an escape      *)
(* sequence too, as the bytes of a program may be spread over several      *)
(* calls of cons_write (puts and putchar send them one by one).            *)
(*                                                                         *)
(* Of a cell only what kind of character it shows is kept: blank, part of  *)
(* the time, or other text.  Its colours are those that Terminal keeps at  *)
(* the moment it is written.                                               *)
(***************************************************************************)
EXTENDS Integers, FiniteSets

CONSTANTS Width, Height, TabSize, Bytes,
          ClockLength    \* length of HH:MM:SS

VARIABLES screen,                           \* memory from CONSOLE_BASE_ADDRESS
          cursor, attr, command, blanks,    \* see Terminal
          clock,                            \* characters the clock has still to print
          saved,                            \* previous_cursor of print_top_right
          swallowed      \* history: characters of the time that are taken for parameters

vars == <<screen, cursor, attr, command, blanks, clock, saved, swallowed>>

ASSUME ConsoleConstants == /\ Width \in Nat /\ Height \in Nat /\ Height > 1
                           /\ TabSize \in Nat \ {0}
                           /\ Bytes \subseteq 0 .. 255
                           /\ ClockLength \in Nat \ {0} /\ ClockLength < Width

Term == INSTANCE Terminal

NoClock == -1

Cells == {"blank", "time", "text"}

ClockChars == {48, 58}                     \* a digit and the colon

Cell(c) == IF c = 32 THEN "blank" ELSE IF c \in ClockChars THEN "time" ELSE "text"

\* write_char at the cursor, then up_shift_console if the bottom line is full.
Written(s, cu, cell) ==
  LET t == [s EXCEPT ![cu.line][cu.col] = cell]
  IN  IF cu.col + 1 >= Width - 1 /\ cu.line >= Height - 1
        THEN [l \in Term!Lines |-> IF l < Height - 1 THEN t[l + 1]
                                                     ELSE [k \in Term!Columns |-> "blank"]]
        ELSE t

Cleared == [l \in Term!Lines |-> [k \in Term!Columns |-> "blank"]]

\* The blank of delete_last_char.
Erased(s, cu) ==
  IF cu.col > 0 THEN Written(s, Term!Back(cu), "blank")
  ELSE IF cu.line # 0
    THEN Written(s, [line |-> cu.line - 1, col |-> Width - 1], "blank")
  ELSE s

TreatChar(c) ==
  /\ Term!TreatChar(c)
  /\ screen' = IF command # "none" THEN screen
               ELSE CASE c = Term!FF  -> Cleared
                      [] c = Term!DEL -> Erased(screen, cursor)
                      [] Term!IsGlyph(c) -> Written(screen, cursor, Cell(c))
                      [] OTHER -> screen

\* A byte of console_putbytes called by cons_write.
PutByte(c) ==
  /\ clock = NoClock
  /\ TreatChar(c)
  /\ UNCHANGED <<clock, saved, swallowed>>

\* A blank of a tabulation or of a new line.
PutBlank ==
  /\ clock = NoClock
  /\ Term!TreatBlank
  /\ screen' = Written(screen, cursor, "blank")
  /\ UNCHANGED <<clock, saved, swallowed>>

\* Faulty variant: the last column is taken to be usable.
ClockColumnLast == Width - ClockLength

ClockColumn == Width - (ClockLength + 1)

ClockStart ==
  /\ clock = NoClock /\ blanks = 0
  /\ saved' = cursor
  /\ cursor' = [line |-> 0, col |-> ClockColumn]
  /\ clock' = ClockLength
  /\ swallowed' = IF command = "none" THEN 0 ELSE 1
  /\ UNCHANGED <<screen, attr, command, blanks>>

ClockChar(c) ==
  /\ clock > 0
  /\ TreatChar(c)
  /\ clock' = clock - 1
  /\ UNCHANGED <<saved, swallowed>>

\* Faulty variant: the cursor is not put back.
ClockEndStays ==
  /\ clock = 0
  /\ clock' = NoClock
  /\ saved' = Term!Home /\ swallowed' = 0
  /\ UNCHANGED <<screen, cursor, attr, command, blanks>>

ClockEnd ==
  /\ clock = 0
  /\ cursor' = saved
  /\ clock' = NoClock
  /\ saved' = Term!Home /\ swallowed' = 0
  /\ UNCHANGED <<screen, attr, command, blanks>>

Init == /\ Term!Init
        /\ screen = Cleared
        /\ clock = NoClock
        /\ saved = Term!Home
        /\ swallowed = 0

Next == \/ \E c \in Bytes : PutByte(c)
        \/ PutBlank
        \/ ClockStart
        \/ \E c \in ClockChars : ClockChar(c)
        \/ ClockEnd

Spec == Init /\ [][Next]_vars
-------------------------------------------------------------------------------
(* Type invariant; the assertions of write_char and set_cursor are that the  *)
(* cursor is on the screen (console.c:74,75,86,87).                          *)
TypeOK == /\ screen \in [Term!Lines -> [Term!Columns -> Cells]]
          /\ cursor \in Term!Cursors
          /\ attr \in Term!Attrs
          /\ command \in Term!Commands
          /\ blanks \in Nat
          /\ clock \in -1 .. ClockLength
          /\ saved \in Term!Cursors
          /\ swallowed \in {0, 1}

(***************************************************************************)
(* A deletion never scrolls the screen: the only way to the last column is *)
(* delete_last_char from the line below, so that the blank written there   *)
(* never fills the bottom line.                                            *)
(***************************************************************************)
DeletionNeverScrolls ==
  /\ cursor.col = Width - 1 => cursor.line < Height - 1
  /\ saved.col = Width - 1 => saved.line < Height - 1

(***************************************************************************)
(* When print_top_right has printed, the time is in the corner, whole, or  *)
(* without its first character if the tick came inside an escape sequence  *)
(* of the program: that character is all that the sequence can swallow.    *)
(***************************************************************************)
TimeShown ==
  clock = 0 => \A i \in 1 .. ClockLength - swallowed :
                 screen[0][ClockColumn + i - 1] = "time"

(***************************************************************************)
(* print_top_right changes nothing else on the screen; in particular the   *)
(* last character of the time, at the end of its line, does not scroll.    *)
(***************************************************************************)
ClockKeepsText ==
  [][clock # NoClock =>
       \A l \in Term!Lines, k \in Term!Columns :
         screen'[l][k] # screen[l][k] => l = 0 /\ k \in ClockColumn .. Width - 2]_vars

(***************************************************************************)
(* What programs see of the clock, with which they share one cursor and    *)
(* one escape sequence, whenever it comes: nothing, except that a tick     *)
(* inside an escape sequence is taken for the next byte of the sequence.   *)
(* The position of what they write is never disturbed, its colours only by *)
(* that byte, and no tick is the start of a sequence.                      *)
(***************************************************************************)
Program == INSTANCE Terminal WITH cursor <- IF clock = NoClock THEN cursor ELSE saved

RefinesTerminal == Program!Init /\ [][Program!DisturbedNext(ClockChars)]_Program!vars
===============================================================================
