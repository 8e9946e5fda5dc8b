-------------------------------- MODULE Strings -------------------------------
(***************************************************************************)
(* The functions of string.c whose result is not plain from their loop.    *)
(* Memory is a sequence of bytes and a pointer an index of it; a result is *)
(* the memory after the call, with the value returned where there is one.  *)
(***************************************************************************)
EXTENDS Integers, Sequences, SequencesExt, FiniteSetsExt

CONSTANT Word               \* bytes that movsl and stosl move

ASSUME WordAssumption == Word \in Nat \ {0}

NUL == 0

Null == 0                   \* the null pointer

Upto(n) == [i \in 1 .. n |-> i - 1]

(* The address of the first byte from p on that satisfies a test.            *)
FirstFrom(s, p, Test(_)) == Min({j \in p .. Len(s) : Test(s[j])})

strlen(s, p) == FirstFrom(s, p, LAMBDA c : c = NUL) - p

strnlen(s, p, max) == Min({max, strlen(s, p)})

Chars(s, p) == SubSeq(s, p, p + strlen(s, p) - 1)

strchr(s, p, c) ==
  LET j == FirstFrom(s, p, LAMBDA d : d \in {c, NUL})
  IN  IF s[j] = c THEN j ELSE Null
-------------------------------------------------------------------------------
(* rep movsb, in the order given, and rep movsl.                             *)
MoveBytes(s, q, p, order) ==
  FoldLeft(LAMBDA m, i : [m EXCEPT ![q + i] = m[p + i]], s, order)

MoveWords(s, q, p, n) ==
  FoldLeft(LAMBDA m, w : [k \in DOMAIN m |-> LET i == k - q - w * Word
                                             IN  IF i \in 0 .. Word - 1
                                                   THEN m[p + w * Word + i] ELSE m[k]],
           s, Upto(n))

memcpy(s, q, p, n) ==
  LET done == (n \div Word) * Word
  IN  MoveBytes(MoveWords(s, q, p, n \div Word), q + done, p + done, Upto(n % Word))

memmoveUp(s, q, p, n) ==    \* faulty variant: always forwards
  MoveBytes(s, q, p, Upto(n))

memmove(s, q, p, n) ==
  MoveBytes(s, q, p, IF q < p THEN Upto(n) ELSE Reverse(Upto(n)))

memset(s, q, c, n) == FoldLeft(LAMBDA m, i : [m EXCEPT ![q + i] = c], s, Upto(n))

strcpy(s, q, p) == MoveBytes(s, q, p, Upto(strlen(s, p) + 1))

strcat(s, q, p) == strcpy(s, strchr(s, q, NUL), p)

strncpy(s, q, p, n) ==
  LET k == Min({n, strlen(s, p) + 1})
  IN  memset(MoveBytes(s, q, p, Upto(k)), q + k, NUL, n - k)

strncat(s, q, p, n) ==
  LET e == strchr(s, q, NUL)
      k == Min({n, strlen(s, p) + 1})
      m == MoveBytes(s, e, p, Upto(k))
  IN  IF k = strlen(s, p) + 1 THEN m ELSE [m EXCEPT ![e + k] = NUL]

strlcat(s, q, p, size) ==
  LET b == strnlen(s, q, size)
      k == Min({strlen(s, p), size - 1 - b})
      m == MoveBytes(s, q + b, p, Upto(k))
  IN  IF b = size THEN [mem |-> s, ret |-> b + strlen(s, p)]
      ELSE [mem |-> [m EXCEPT ![q + b + k] = NUL], ret |-> b + strlen(s, p)]
-------------------------------------------------------------------------------
Sign(d) == IF d < 0 THEN -1 ELSE IF d > 0 THEN 1 ELSE 0

memcmp(x, y) ==             \* of two sequences of one length
  LET Ds == {i \in DOMAIN x : x[i] # y[i]}
  IN  IF Ds = {} THEN 0 ELSE Sign(x[Min(Ds)] - y[Min(Ds)])

strncmp(x, y, n) ==         \* with the final NUL of each
  LET Ds == {i \in 1 .. n : x[i] # y[i] \/ x[i] = NUL}
  IN  IF Ds = {} THEN 0 ELSE Sign(x[Min(Ds)] - y[Min(Ds)])

(* memmem: the "not so naive" search of x in y, from j (counted from 0).     *)
RECURSIVE SearchFrom(_, _, _)
SearchFrom(y, x, j) ==
  LET m == Len(x)
      k == IF x[1] = x[2] THEN 2 ELSE 1
  IN  CASE j > Len(y) - m -> Null
        [] x[2] # y[j + 2] -> SearchFrom(y, x, j + k)
        [] /\ x[2] = y[j + 2] /\ x[1] = y[j + 1]
           /\ memcmp(SubSeq(x, 3, m), SubSeq(y, j + 3, j + m)) = 0 -> j + 1
        [] OTHER -> SearchFrom(y, x, j + 3 - k)

memmem(y, x) ==
  CASE Len(x) > Len(y) \/ x = <<>> -> Null
    [] Len(x) = 1 -> LET At == {j \in DOMAIN y : y[j] = x[1]}
                     IN  IF At = {} THEN Null ELSE Min(At)
    [] OTHER -> SearchFrom(y, x, 0)

(* __strxspn, with its map of 0 or 1 per character, and its users.           *)
strxspn(s, p, chars, parity) ==
  LET matchmap(c) == IF c = NUL THEN parity ELSE IF c \in chars THEN 1 ELSE 0
  IN  FirstFrom(s, p, LAMBDA c : matchmap(c) = parity) - p

strpbrk(s, p, accept) ==
  LET ss == p + strxspn(s, p, accept, 1) IN IF s[ss] # NUL THEN ss ELSE Null

strsep(s, p, delim) ==
  IF p = Null THEN [mem |-> s, next |-> Null, ret |-> Null]
  ELSE LET e == strpbrk(s, p, delim)
       IN  IF e = Null THEN [mem |-> s, next |-> Null, ret |-> p]
           ELSE [mem |-> [s EXCEPT ![e] = NUL], next |-> e + 1, ret |-> p]

(* The tokens of successive calls of strtok, holder being its static.        *)
RECURSIVE strtokAll(_, _, _)
strtokAll(s, holder, delim) ==
  LET r == strsep(s, holder, delim)
  IN  IF r.ret = Null THEN <<>>
      ELSE <<Chars(r.mem, r.ret)>> \o strtokAll(r.mem, r.next, delim)
===============================================================================
