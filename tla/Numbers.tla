-------------------------------- MODULE Numbers -------------------------------
(***************************************************************************)
(* Numbers in the C library: the division of div64.c, the conversions of   *)
(* doprnt.c and of strtol.c, and what carries characters out: printf.c,    *)
(* sprintf.c and the run-length encoding of gdb_serial.c.                  *)
(*                                                                         *)
(* A word has Width bits.  A character is a number: a digit or letter its  *)
(* value, the others the constants below.                                  *)
(***************************************************************************)
EXTENDS Integers, Sequences, SequencesExt, FiniteSetsExt

CONSTANTS Width,            \* bits of a word
          Half              \* bits of a word, for the division of two words

ASSUME WidthAssumption == Width \in Nat \ {0} /\ Half \in Nat \ {0}

B == 2 ^ Width

H == 2 ^ Half

Space == 100

Minus == 101

Plus == 102

Newline == 103

Star == 104

EndOfString == 105

LetterX == 33
-------------------------------------------------------------------------------
(* do_div64: two words divided by two words.                                 *)
bsr(n) == CHOOSE k \in 0 .. Half - 1 : 2 ^ k <= n /\ n < 2 ^ (k + 1)

DivideError == [quot |-> -1, rem |-> -1, steps |-> 0]

div(x, y) == IF y = 0 \/ x \div y >= H THEN DivideError
             ELSE [quot |-> x \div y, rem |-> x % y, steps |-> 0]

(* The divisor in one word, too large by at most one unit of it.             *)
ShortDivisorSame(y) == y \div 2 ^ (bsr(y \div H) + 1)       \* faulty variant

ShortDivisor(y) == (y \div 2 ^ (bsr(y \div H) + 1) + 1) % H

RECURSIVE Corrected(_, _, _, _)
Corrected(q, r, y, steps) ==
  IF r >= y THEN Corrected(q + 1, r - y, y, steps + 1)
  ELSE [quot |-> q, rem |-> r, steps |-> steps]

do_div64(x, y) ==
  LET x1 == x \div H
      x0 == x % H
  IN  CASE y >= H ->
             LET d == div(x \div 2 ^ (bsr(y \div H) + 1), ShortDivisor(y))
             IN  IF d = DivideError THEN d
                 ELSE Corrected(d.quot, (x - y * d.quot) % (H * H), y, 0)
        [] y < H /\ x1 < y -> div(x, y)
        [] 0 < y /\ y <= x1 ->
             LET h == div(x1, y)
                 l == div(h.rem * H + x0, y)
             IN  [quot |-> h.quot * H + l.quot, rem |-> l.rem, steps |-> 0]
        [] y = 0 -> [quot |-> 0, rem |-> x, steps |-> 0]
-------------------------------------------------------------------------------
(* The numbers of _doprnt.  f: signed, base, length, prec, ladjust, zero (the *)
(* pad character), plus (the sign of positive numbers, or EndOfString),      *)
(* altfmt.  n is the word.                                                   *)
Times(n, c) == [i \in 1 .. (IF n > 0 THEN n ELSE 0) |-> c]

RECURSIVE Digits(_, _)
Digits(u, base) == IF u < base THEN <<u>>
                   ELSE Append(Digits(u \div base, base), u % base)

Negative(f, n) == f.signed /\ n >= B \div 2

SignOf(f, n) == CASE Negative(f, n) -> <<Minus>>
                  [] f.signed /\ ~Negative(f, n) /\ f.plus # EndOfString -> <<f.plus>>
                  [] OTHER -> <<>>

PrefixOf(f, u) == CASE u # 0 /\ f.altfmt /\ f.base = 8 -> <<0>>
                    [] u # 0 /\ f.altfmt /\ f.base = 16 -> <<0, LetterX>>
                    [] OTHER -> <<>>

Magnitude(f, n) == IF Negative(f, n) THEN B - n ELSE n

PrintNumber(f, n) ==
  LET u == Magnitude(f, n)
      digits == Digits(u, f.base)
      prec == f.prec - Len(digits)
      length == f.length - Len(digits) - Len(SignOf(f, n)) - Len(PrefixOf(f, u))
                - (IF prec > 0 THEN prec ELSE 0)
  IN  Times(IF f.zero \/ f.ladjust THEN 0 ELSE length, Space)
      \o SignOf(f, n) \o PrefixOf(f, u) \o Times(prec, 0)
      \o Times(IF f.zero THEN length ELSE 0, 0) \o digits
      \o Times(IF f.ladjust /\ ~f.zero THEN length ELSE 0, Space)

(* %s: a string p cut at prec, -1 being none.                                *)
PrintString(length, prec, ladjust, p) ==
  LET max == IF prec = -1 THEN Len(p) ELSE prec
      text == SubSeq(p, 1, Min({max, Len(p)}))
      n == IF ladjust /\ max < Len(p) THEN max + 1 ELSE Len(text)
      blanks == Times(length - n, Space)
  IN  IF ladjust THEN text \o blanks ELSE blanks \o text

(* strtol, and strtoul which is the same without a sign.  The result has the *)
(* value and the number of characters read.                                  *)
At(s, i) == IF i <= Len(s) THEN s[i] ELSE EndOfString

SkipFrom(s, i, C) == Min({j \in i .. Len(s) + 1 : At(s, j) \notin C})

Parse(s, base, signs) ==
  LET p0 == SkipFrom(s, 1, {Space, Newline})
      neg == signs /\ At(s, p0) = Minus
      p1 == IF neg THEN p0 + 1 ELSE p0
      hex == base \in {0, 16} /\ At(s, p1) = 0 /\ At(s, p1 + 1) = LetterX
      p2 == IF hex THEN p1 + 2 ELSE p1
      radix == CASE hex -> 16
                 [] ~hex /\ base = 0 -> IF At(s, p2) = 0 THEN 8 ELSE 10
                 [] OTHER -> base
      end == SkipFrom(s, p2, 0 .. radix - 1)
      v == FoldLeft(LAMBDA a, d : (a * radix + d) % B, 0, SubSeq(s, p2, end - 1))
  IN  [val |-> IF neg THEN (B - v) % B ELSE v, read |-> end - 1]

strtol(s, base) == Parse(s, base, TRUE)

strtoul(s, base) == Parse(s, base, FALSE)
-------------------------------------------------------------------------------
(* printf_char: st has the buffer and what has reached the console.          *)
printf_charLate(st, c, max) ==          \* faulty variant: c overtakes the buffer
  IF c \in {EndOfString, Newline} \/ Len(st.buf) >= max
    THEN [st EXCEPT !.console = @ \o <<c>>]
    ELSE [st EXCEPT !.buf = Append(@, c)]

printf_char(st, c, max) ==
  IF c \in {EndOfString, Newline} \/ Len(st.buf) >= max
    THEN [buf |-> <<>>, console |-> st.console \o st.buf \o <<c>>]
    ELSE [st EXCEPT !.buf = Append(@, c)]

vprintf(chars, max) ==
  LET st == FoldLeft(LAMBDA a, c : printf_char(a, c, max),
                     [buf |-> <<>>, console |-> <<>>], chars)
  IN  st.console \o st.buf

(* savechar and the end of vsnprintf: the bytes written, with the final NUL. *)
vsnprintf(chars, size) ==
  Append(FoldLeft(LAMBDA a, c : IF Len(a) = size THEN a ELSE Append(a, c), <<>>, chars),
         EndOfString)

(* putfrags: bytes of two hexadecimal digits (here of base D), a run of one  *)
(* digit sent as the digit, '*' and the length.  limit is the longest run.   *)
SameDigits(b, D) == b \div D = b % D

RECURSIVE Hexify(_, _, _)
Hexify(data, D, limit) ==
  IF data = <<>> THEN <<>>
  ELSE LET b == Head(data)
           run == CHOOSE k \in 1 .. Len(data) :
                    /\ \A i \in 1 .. k : data[i] = b
                    /\ k = Len(data) \/ data[k + 1] # b
           q == Min({run, limit \div 2})
       IN  IF run >= 2 /\ SameDigits(b, D)
             THEN <<b % D, Star, 29 + 2 * q - 1>> \o Hexify(SubSeq(data, q + 1, Len(data)), D, limit)
             ELSE <<b \div D, b % D>> \o Hexify(Tail(data), D, limit)
===============================================================================
