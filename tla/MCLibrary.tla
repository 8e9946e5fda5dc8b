------------------------------- MODULE MCLibrary ------------------------------
(***************************************************************************)
(* Calls of the C library, each with every argument of a small set, and    *)
(* their results compared with what the functions are meant to compute.    *)
(***************************************************************************)
EXTENDS Strings, Numbers

CONSTANTS MaxText,          \* bound: characters of a string searched or printed
          Area              \* bound: bytes of the memory copied within

ASSUME LibraryBounds == MaxText \in Nat /\ Area \in Nat \ {0}

VARIABLES call, result

vars == <<call, result>>

Texts(C, n) == SeqOf(C, n)

Call(c, r) == call' = c /\ result' = r

Canary == 9

(* Memory for the string functions: a buffer that starts at 1 and holds d, a *)
(* canary, then the source string.                                           *)
Room == 5

Layout(d, src) == d \o Times(Room - Len(d), NUL) \o <<Canary>> \o src \o <<NUL>>

Source == Room + 2

Moves == \E q, p \in 1 .. Area : \E n \in 0 .. Area - (IF p > q THEN p ELSE q) + 1 :
           LET s == [i \in 1 .. Area |-> i]
           IN  \/ Call([fn |-> "memmove", s |-> s, q |-> q, p |-> p, n |-> n],
                       memmove(s, q, p, n))
               \/ /\ q <= p \/ p + n <= q
                  /\ Call([fn |-> "memcpy", s |-> s, q |-> q, p |-> p, n |-> n],
                          memcpy(s, q, p, n))

Copies == \E d \in Texts({1, 2}, 2), src \in Texts({3, 4}, 3), n \in 0 .. Room :
            LET s == Layout(d, src)
                c == [fn |-> "", d |-> d, src |-> src, n |-> n]
            IN  \/ Call([c EXCEPT !.fn = "strncpy"], strncpy(s, 1, Source, n))
                \/ /\ Len(d) + Min({n, Len(src)}) < Room
                   /\ Call([c EXCEPT !.fn = "strncat"], strncat(s, 1, Source, n))
                \/ Call([c EXCEPT !.fn = "strlcat"], strlcat(s, 1, Source, n))
                \/ /\ Len(d) + Len(src) < Room
                   /\ Call([c EXCEPT !.fn = "strcat"], strcat(s, 1, Source))

Searches == \E y \in Texts({1, 2}, MaxText) :
              \/ \E x \in Texts({1, 2}, MaxText - 2) :
                   \/ Call([fn |-> "memmem", y |-> y, x |-> x], memmem(y, x))
                   \/ \E n \in 0 .. Len(x) + 1 :
                        /\ n <= Len(y) + 1
                        /\ Call([fn |-> "strncmp", y |-> y, x |-> x, n |-> n],
                                strncmp(y \o <<NUL>>, x \o <<NUL>>, n))
              \/ Call([fn |-> "strtok", y |-> y], strtokAll(y \o <<NUL>>, 1, {2}))

Divisions == \E x, y \in 0 .. H * H - 1 :
               Call([fn |-> "do_div64", x |-> x, y |-> y], do_div64(x, y))

Formats == [signed : BOOLEAN, base : {8, 10, 16}, length : {0, 2, 5}, prec : {-1, 1, 3},
            ladjust : BOOLEAN, zero : BOOLEAN, plus : {EndOfString, Space}, altfmt : BOOLEAN]

Prints == \E n \in 0 .. B - 1, f \in Formats :
            Call([fn |-> "%d", n |-> n, f |-> f], PrintNumber(f, n))

Outputs == \E t \in Texts({1, Newline}, MaxText) :
             \/ \E max \in 1 .. 3, c \in {1, EndOfString} :
                  Call([fn |-> "printf", t |-> Append(t, c), max |-> max],
                       vprintf(Append(t, c), max))
             \/ \E size \in 0 .. 3 : Call([fn |-> "snprintf", t |-> t, max |-> size],
                                          vsnprintf(t, size))
             \/ \E length \in 0 .. 3, prec \in -1 .. 2, left \in BOOLEAN :
                  Call([fn |-> "%s", t |-> t, length |-> length, prec |-> prec, left |-> left],
                       PrintString(length, prec, left, t))

Encodes == \E data \in Texts(0 .. 3, MaxText - 1) :
             Call([fn |-> "putfrags", data |-> data], Hexify(data, 2, 6))

Init == call = [fn |-> "none"] /\ result = <<>>

Next == /\ call.fn = "none"
        /\ \/ Moves \/ Copies \/ Searches \/ Divisions \/ Prints \/ Outputs \/ Encodes

Spec == Init /\ [][Next]_vars
-------------------------------------------------------------------------------
Prefix(d, n) == IF n < 0 THEN <<>> ELSE SubSeq(d, 1, Min({n, Len(d)}))

(* The buffer after the call begins with t; nothing past it was written.     *)
Holds(mem, t) == /\ SubSeq(mem, 1, Len(t)) = t
                 /\ SubSeq(mem, Room + 1, Len(mem)) = <<Canary>> \o call.src \o <<NUL>>

Occurrences(y, x) == {j \in 1 .. Len(y) - Len(x) + 1 : SubSeq(y, j, j + Len(x) - 1) = x}

Before(a, b) == \/ a # b /\ IsPrefix(a, b)
                \/ \E i \in DOMAIN a \cap DOMAIN b :
                     a[i] < b[i] /\ Prefix(a, i - 1) = Prefix(b, i - 1)

Joined(tokens) == FlattenSeq([i \in 1 .. 2 * Len(tokens) - 1 |->
                                IF i % 2 = 0 THEN <<2>> ELSE tokens[(i + 1) \div 2]])

(***************************************************************************)
(* string.c: memmove copies as if through a buffer whatever the overlap,   *)
(* and memcpy when the destination is not ahead inside the source; copies  *)
(* and catenations truncate where they should, end the string, return what *)
(* would have been needed and leave the next byte alone; memmem finds the  *)
(* first occurrence; the comparison has the sign of the order; and the     *)
(* tokens of strtok, joined by the separator, are the string again.        *)
(***************************************************************************)
StringsAgree ==
  CASE call.fn \in {"memmove", "memcpy"} ->
         result = [k \in DOMAIN call.s |->
                     IF k \in call.q .. call.q + call.n - 1
                       THEN call.s[call.p + k - call.q] ELSE call.s[k]]
    [] call.fn = "strncpy" ->
         Holds(result, Prefix(call.src, call.n) \o Times(call.n - Len(call.src), NUL))
    [] call.fn = "strncat" ->
         Holds(result, call.d \o Prefix(call.src, call.n) \o <<NUL>>)
    [] call.fn = "strcat" -> Holds(result, call.d \o call.src \o <<NUL>>)
    [] call.fn = "strlcat" ->
         /\ Holds(result.mem, IF call.n <= Len(call.d) THEN call.d
                              ELSE Prefix(call.d \o call.src, call.n - 1) \o <<NUL>>)
         /\ result.ret = Len(call.src) + Min({call.n, Len(call.d)})
    [] call.fn = "memmem" ->
         LET O == Occurrences(call.y, call.x)
         IN  result = IF call.x = <<>> \/ O = {} THEN Null ELSE Min(O)
    [] call.fn = "strncmp" ->
         LET a == Prefix(call.y, call.n)
             b == Prefix(call.x, call.n)
         IN  (result = 0 <=> a = b) /\ (result < 0 <=> Before(a, b))
    [] call.fn = "strtok" -> Joined(result) = call.y
    [] OTHER -> TRUE

(***************************************************************************)
(* div64.c: the quotient and the remainder are exact, and the estimate of  *)
(* a long division is corrected in at most two steps, except that a        *)
(* divisor whose leading bits fill a word is a divide error.               *)
(***************************************************************************)
AllOnes(y) == y >= H /\ ShortDivisor(y) = 0

DivisionExact ==
  call.fn = "do_div64" /\ call.y # 0 =>
    IF AllOnes(call.y) THEN result = DivideError
    ELSE /\ result.quot = call.x \div call.y /\ result.rem = call.x % call.y
         /\ result.steps <= 2

(***************************************************************************)
(* doprnt.c and strtol.c: a number printed in any format is read back as   *)
(* the same number, all of the text but the padding on the right being     *)
(* read, and it fills its field, no more than it needs.                    *)
(***************************************************************************)
NumbersReadBack ==
  call.fn = "%d" =>
    LET f == call.f
        base == IF f.altfmt /\ call.n # 0 /\ f.base # 10 THEN 0 ELSE f.base
        r == IF f.signed THEN strtol(result, base) ELSE strtoul(result, base)
    IN  /\ r.val = call.n
        /\ \A i \in r.read + 1 .. Len(result) : result[i] = Space
        /\ Len(result) = Max({f.length, Len(PrintNumber([f EXCEPT !.length = 0], call.n))})

(* Numbers are exact from 64-bit division to text and back.                  *)
NumbersExact == DivisionExact /\ NumbersReadBack

RECURSIVE Decoded(_, _)
Decoded(t, D) ==
  IF t = <<>> THEN <<>>
  ELSE IF Len(t) >= 3 /\ t[2] = Star
    THEN Times(t[3] - 29 + 1, t[1]) \o Decoded(SubSeq(t, 4, Len(t)), D)
    ELSE <<t[1]>> \o Decoded(Tail(t), D)

(***************************************************************************)
(* Characters come out complete and in order: printf through its buffer,   *)
(* snprintf up to its limit, strings in their field, and the digits of a   *)
(* packet of the gdb stub as gdb expands its runs.                         *)
(***************************************************************************)
OutputComplete ==
  CASE call.fn = "printf" -> result = call.t
    [] call.fn = "snprintf" -> result = Append(Prefix(call.t, call.max), EndOfString)
    [] call.fn = "%s" ->
         LET text == IF call.prec = -1 THEN call.t ELSE Prefix(call.t, call.prec)
             cut == call.left /\ Len(text) < Len(call.t)
         IN  /\ SelectSeq(result, LAMBDA c : c # Space) = text
             /\ Len(result) = Max({Len(text), IF cut THEN call.length - 1 ELSE call.length})
    [] call.fn = "putfrags" ->
         Decoded(result, 2) = FlattenSeq([i \in DOMAIN call.data |->
                                            <<call.data[i] \div 2, call.data[i] % 2>>])
    [] OTHER -> TRUE
===============================================================================
