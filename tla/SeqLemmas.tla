------------------------------ MODULE SeqLemmas ------------------------------
(***************************************************************************)
(* Facts about the operators of SequencesExt that the models use for the   *)
(* linked lists and the arrays of the kernel, for the proofs about them.   *)
(***************************************************************************)
EXTENDS Integers, SequencesExt, SequenceTheorems, WellFoundedInduction, TLAPS

(* A non-empty set of naturals has a least element. *)
LEMMA LeastNatural ==
  ASSUME NEW T, T \subseteq Nat, T # {}
  PROVE  \E x \in T : \A y \in T : x <= y
<1>1. PICK x \in T : \A y \in T : ~(<<y, x>> \in OpToRel(<, Nat))
  BY WFMin, NatLessThanWellFounded
<1>2. \A y \in T : ~(y < x)
  BY <1>1 DEF OpToRel
<1> QED BY <1>2

(* The front of a sequence is the sequence without its last element. *)
LEMMA FrontProperties ==
  ASSUME NEW S, NEW s \in Seq(S), s # <<>>
  PROVE  /\ Front(s) \in Seq(S)
         /\ Len(Front(s)) = Len(s) - 1
         /\ \A j \in 1 .. Len(s) - 1 : Front(s)[j] = s[j]
         /\ Last(s) \in S
         /\ Last(s) = s[Len(s)]
<1>1. Len(s) \in Nat \ {0}
  BY EmptySeq
<1>2. \A j \in 1 .. Len(s) : s[j] \in S
  BY ElementOfSeq
<1>3. \A j \in 1 .. Len(s) - 1 : s[j] \in S
  BY <1>1, <1>2
<1>4. /\ SubSeq(s, 1, Len(s) - 1) \in Seq(S)
      /\ Len(SubSeq(s, 1, Len(s) - 1)) = IF 1 <= Len(s) - 1 THEN Len(s) - 1 - 1 + 1 ELSE 0
      /\ \A i \in 1 .. (Len(s) - 1) - 1 + 1 : SubSeq(s, 1, Len(s) - 1)[i] = s[1 + i - 1]
  BY <1>1, <1>3, SubSeqProperties
<1>5. Front(s) = SubSeq(s, 1, Len(s) - 1) /\ Last(s) = s[Len(s)]
  BY DEF Front, Last
<1>6. Len(Front(s)) = Len(s) - 1
  <2>1. \A n \in Nat \ {0} : (IF 1 <= n - 1 THEN n - 1 - 1 + 1 ELSE 0) = n - 1
    OBVIOUS
  <2> QED BY <1>1, <1>4, <1>5, <2>1
<1>7. ASSUME NEW j \in 1 .. Len(s) - 1
      PROVE  Front(s)[j] = s[j]
  <2>1. j \in 1 .. (Len(s) - 1) - 1 + 1 /\ 1 + j - 1 = j
    BY <1>1
  <2> QED BY <1>4, <1>5, <2>1
<1>8. Last(s) \in S
  BY <1>1, <1>2, <1>5
<1> QED BY <1>4, <1>5, <1>6, <1>7, <1>8

(* The front of a sequence that may be empty is a sequence. *)
LEMMA FrontType ==
  ASSUME NEW S, NEW s \in Seq(S)
  PROVE  Front(s) \in Seq(S)
<1>1. CASE s = <<>>
  <2>1. Len(s) = 0
    BY <1>1, EmptySeq
  <2>2. Front(s) = <<>>
    BY <2>1, SubSeqEmpty DEF Front
  <2> QED BY <2>2, EmptySeq
<1>2. CASE s # <<>>
  BY <1>2, FrontProperties
<1> QED BY <1>1, <1>2

(* The two parts of s around its position i. *)
LEMMA PrefixProperties ==
  ASSUME NEW S, NEW s \in Seq(S), NEW i \in 1 .. Len(s) + 1
  PROVE  /\ SubSeq(s, 1, i - 1) \in Seq(S)
         /\ Len(SubSeq(s, 1, i - 1)) = i - 1
         /\ \A j \in 1 .. i - 1 : SubSeq(s, 1, i - 1)[j] = s[j]
<1>1. Len(s) \in Nat
  BY LenProperties
<1>2. \A j \in 1 .. i - 1 : s[j] \in S
  BY <1>1, ElementOfSeq
<1>3. /\ SubSeq(s, 1, i - 1) \in Seq(S)
      /\ Len(SubSeq(s, 1, i - 1)) = IF 1 <= i - 1 THEN (i - 1) - 1 + 1 ELSE 0
      /\ \A j \in 1 .. (i - 1) - 1 + 1 : SubSeq(s, 1, i - 1)[j] = s[1 + j - 1]
  BY <1>1, <1>2, SubSeqProperties
<1> QED BY <1>1, <1>3

LEMMA SuffixProperties ==
  ASSUME NEW S, NEW s \in Seq(S), NEW i \in 1 .. Len(s) + 1
  PROVE  /\ SubSeq(s, i, Len(s)) \in Seq(S)
         /\ Len(SubSeq(s, i, Len(s))) = Len(s) - i + 1
         /\ \A j \in 1 .. Len(s) - i + 1 : SubSeq(s, i, Len(s))[j] = s[i + j - 1]
<1>1. Len(s) \in Nat
  BY LenProperties
<1>2. \A j \in i .. Len(s) : s[j] \in S
  BY <1>1, ElementOfSeq
<1>3. /\ SubSeq(s, i, Len(s)) \in Seq(S)
      /\ Len(SubSeq(s, i, Len(s))) = IF i <= Len(s) THEN Len(s) - i + 1 ELSE 0
      /\ \A j \in 1 .. Len(s) - i + 1 : SubSeq(s, i, Len(s))[j] = s[i + j - 1]
  BY <1>1, <1>2, SubSeqProperties
<1> QED BY <1>1, <1>3

(* Putting an element in front, as a call pushes an activation. *)
LEMMA PushProperties ==
  ASSUME NEW S, NEW s \in Seq(S), NEW e \in S
  PROVE  /\ <<e>> \o s \in Seq(S)
         /\ <<e>> \o s # <<>>
         /\ Len(<<e>> \o s) = Len(s) + 1
         /\ (<<e>> \o s)[1] = e
         /\ \A j \in 2 .. Len(s) + 1 : (<<e>> \o s)[j] = s[j - 1]
         /\ Head(<<e>> \o s) = e
         /\ Tail(<<e>> \o s) = s
<1>1. <<e>> \in Seq(S) /\ Len(<<e>>) = 1 /\ <<e>>[1] = e /\ Len(s) \in Nat
  BY LenProperties
<1>2. /\ <<e>> \o s \in Seq(S)
      /\ Len(<<e>> \o s) = 1 + Len(s)
      /\ \A i \in 1 .. 1 + Len(s) : (<<e>> \o s)[i] = IF i <= 1 THEN <<e>>[i] ELSE s[i - 1]
  BY <1>1, ConcatProperties
<1>3. <<e>> \o s # <<>>
  BY <1>1, <1>2, EmptySeq
<1>4. Head(<<e>> \o s) = e
  BY <1>1, <1>2, <1>3
<1>5. Tail(<<e>> \o s) = s
  <2>1. /\ Tail(<<e>> \o s) \in Seq(S)
        /\ Len(Tail(<<e>> \o s)) = Len(s)
        /\ \A i \in 1 .. Len(s) : Tail(<<e>> \o s)[i] = (<<e>> \o s)[i + 1]
    BY <1>1, <1>2, <1>3, HeadTailProperties
  <2>2. \A i \in 1 .. Len(s) : Tail(<<e>> \o s)[i] = s[i]
    BY <1>1, <1>2, <2>1
  <2> QED BY <2>1, <2>2, SeqEqual
<1> QED BY <1>1, <1>2, <1>3, <1>4, <1>5

(* InsertAt shifts what is at and after the position. *)
LEMMA InsertAtProperties ==
  ASSUME NEW S, NEW s \in Seq(S), NEW e \in S, NEW i \in 1 .. Len(s) + 1
  PROVE  /\ InsertAt(s, i, e) \in Seq(S)
         /\ Len(InsertAt(s, i, e)) = Len(s) + 1
         /\ \A j \in 1 .. Len(s) + 1 :
              InsertAt(s, i, e)[j] = IF j < i THEN s[j] ELSE IF j = i THEN e ELSE s[j - 1]
<1> DEFINE a == SubSeq(s, 1, i - 1)
           b == SubSeq(s, i, Len(s))
           c == <<e>>
<1>1. Len(s) \in Nat /\ i \in Nat
  BY LenProperties
<1>2. a \in Seq(S) /\ Len(a) = i - 1 /\ \A j \in 1 .. i - 1 : a[j] = s[j]
  BY PrefixProperties
<1>3. b \in Seq(S) /\ Len(b) = Len(s) - i + 1 /\ \A j \in 1 .. Len(s) - i + 1 : b[j] = s[i + j - 1]
  BY SuffixProperties
<1>4. c \in Seq(S) /\ Len(c) = 1 /\ c[1] = e
  OBVIOUS
<1> HIDE DEF a, b, c
<1>5. /\ a \o c \in Seq(S) /\ Len(a \o c) = i
      /\ \A j \in 1 .. i : (a \o c)[j] = IF j <= i - 1 THEN a[j] ELSE c[j - (i - 1)]
  <2>1. /\ a \o c \in Seq(S) /\ Len(a \o c) = Len(a) + Len(c)
        /\ \A j \in 1 .. Len(a) + Len(c) : (a \o c)[j] = IF j <= Len(a) THEN a[j] ELSE c[j - Len(a)]
    BY <1>2, <1>4, ConcatProperties
  <2>2. Len(a) + Len(c) = i
    BY <1>1, <1>2, <1>4
  <2> QED BY <1>2, <2>1, <2>2
<1>6. /\ (a \o c) \o b \in Seq(S) /\ Len((a \o c) \o b) = Len(s) + 1
      /\ \A j \in 1 .. Len(s) + 1 : ((a \o c) \o b)[j] = IF j <= i THEN (a \o c)[j] ELSE b[j - i]
  <2> DEFINE d == a \o c
  <2>1. d \in Seq(S) /\ Len(d) = i
    BY <1>5
  <2> HIDE DEF d
  <2>2. /\ d \o b \in Seq(S) /\ Len(d \o b) = Len(d) + Len(b)
        /\ \A j \in 1 .. Len(d) + Len(b) : (d \o b)[j] = IF j <= Len(d) THEN d[j] ELSE b[j - Len(d)]
    BY <1>3, <2>1, ConcatProperties
  <2>3. Len(d) + Len(b) = Len(s) + 1
    BY <1>1, <1>3, <2>1
  <2>4. /\ d \o b \in Seq(S) /\ Len(d \o b) = Len(s) + 1
        /\ \A j \in 1 .. Len(s) + 1 : (d \o b)[j] = IF j <= i THEN d[j] ELSE b[j - i]
    BY <2>1, <2>2, <2>3
  <2> QED BY <2>4 DEF d
<1>7. InsertAt(s, i, e) = (a \o c) \o b
  BY DEF InsertAt, a, b, c
<1>8. ASSUME NEW j \in 1 .. Len(s) + 1
      PROVE  ((a \o c) \o b)[j] = IF j < i THEN s[j] ELSE IF j = i THEN e ELSE s[j - 1]
  <2>1. CASE j < i
    BY <1>1, <1>2, <1>5, <1>6, <2>1
  <2>2. CASE j = i
    BY <1>1, <1>4, <1>5, <1>6, <2>2
  <2>3. CASE j > i
    <3>1. ((a \o c) \o b)[j] = b[j - i] /\ j - i \in 1 .. Len(s) - i + 1
      BY <1>1, <1>6, <2>3
    <3>2. b[j - i] = s[i + (j - i) - 1]
      BY <1>3, <3>1
    <3>3. i + (j - i) - 1 = j - 1
      BY <1>1
    <3> QED BY <1>1, <2>3, <3>1, <3>2, <3>3
  <2>4. j < i \/ j = i \/ j > i
    BY <1>1
  <2> QED BY <2>1, <2>2, <2>3, <2>4
<1> QED BY <1>6, <1>7, <1>8

(* RemoveAt shifts what is after the position. *)
LEMMA RemoveAtProperties ==
  ASSUME NEW S, NEW s \in Seq(S), NEW i \in 1 .. Len(s)
  PROVE  /\ RemoveAt(s, i) \in Seq(S)
         /\ Len(RemoveAt(s, i)) = Len(s) - 1
         /\ \A j \in 1 .. Len(s) - 1 : RemoveAt(s, i)[j] = IF j < i THEN s[j] ELSE s[j + 1]
<1> DEFINE a == SubSeq(s, 1, i - 1)
           b == SubSeq(s, i + 1, Len(s))
<1>1. Len(s) \in Nat /\ i \in Nat /\ i \in 1 .. Len(s) + 1 /\ i + 1 \in 1 .. Len(s) + 1
  BY LenProperties
<1>2. a \in Seq(S) /\ Len(a) = i - 1 /\ \A j \in 1 .. i - 1 : a[j] = s[j]
  BY <1>1, PrefixProperties
<1>3. b \in Seq(S) /\ Len(b) = Len(s) - i /\ \A j \in 1 .. Len(s) - i : b[j] = s[i + j]
  <2>1. b \in Seq(S) /\ Len(b) = Len(s) - (i + 1) + 1
        /\ \A j \in 1 .. Len(s) - (i + 1) + 1 : b[j] = s[(i + 1) + j - 1]
    BY <1>1, SuffixProperties
  <2>2. Len(s) - (i + 1) + 1 = Len(s) - i /\ \A j \in 1 .. Len(s) - i : (i + 1) + j - 1 = i + j
    BY <1>1
  <2> QED BY <2>1, <2>2
<1> HIDE DEF a, b
<1>4. /\ a \o b \in Seq(S) /\ Len(a \o b) = Len(s) - 1
      /\ \A j \in 1 .. Len(s) - 1 : (a \o b)[j] = IF j <= i - 1 THEN a[j] ELSE b[j - (i - 1)]
  <2>1. /\ a \o b \in Seq(S) /\ Len(a \o b) = Len(a) + Len(b)
        /\ \A j \in 1 .. Len(a) + Len(b) : (a \o b)[j] = IF j <= Len(a) THEN a[j] ELSE b[j - Len(a)]
    BY <1>2, <1>3, ConcatProperties
  <2>2. Len(a) + Len(b) = Len(s) - 1
    BY <1>1, <1>2, <1>3
  <2> QED BY <1>2, <2>1, <2>2
<1>5. RemoveAt(s, i) = a \o b
  BY DEF RemoveAt, a, b
<1>6. ASSUME NEW j \in 1 .. Len(s) - 1
      PROVE  (a \o b)[j] = IF j < i THEN s[j] ELSE s[j + 1]
  <2>1. CASE j < i
    BY <1>1, <1>2, <1>4, <2>1
  <2>2. CASE ~(j < i)
    <3>0. /\ j \in Int /\ ~(j <= i - 1)
          /\ j - (i - 1) \in 1 .. Len(s) - i
      BY <1>1, <2>2
    <3>1. (a \o b)[j] = b[j - (i - 1)] /\ j - (i - 1) \in 1 .. Len(s) - i
      BY <1>4, <3>0
    <3>2. b[j - (i - 1)] = s[i + (j - (i - 1))]
      BY <1>3, <3>1
    <3>3. i + (j - (i - 1)) = j + 1
      BY <1>1
    <3> QED BY <1>1, <2>2, <3>1, <3>2, <3>3
  <2> QED BY <2>1, <2>2
<1> QED BY <1>4, <1>5, <1>6

(***************************************************************************)
(* What the operations on a list do to the set of its elements, and to the *)
(* place of each.                                                          *)
(***************************************************************************)
LEMMA RangeMember ==
  ASSUME NEW S, NEW s \in Seq(S)
  PROVE  /\ Range(s) \subseteq S
         /\ \A x : x \in Range(s) <=> \E i \in 1 .. Len(s) : s[i] = x
         /\ s = <<>> <=> Range(s) = {}
<1>1. DOMAIN s = 1 .. Len(s) /\ Len(s) \in Nat
  BY LenProperties
<1>2. \A x : x \in Range(s) <=> \E i \in 1 .. Len(s) : s[i] = x
  BY <1>1 DEF Range
<1>3. Range(s) \subseteq S
  BY <1>2, ElementOfSeq
<1>4. ASSUME s = <<>> PROVE Range(s) = {}
  <2>1. Len(s) = 0
    BY <1>4, EmptySeq
  <2> QED BY <1>2, <2>1
<1>5. ASSUME s # <<>> PROVE Range(s) # {}
  <2>1. 1 \in 1 .. Len(s)
    BY <1>5, EmptySeq
  <2> QED BY <1>2, <2>1
<1> QED BY <1>2, <1>3, <1>4, <1>5

LEMMA RangeEmpty == Range(<<>>) = {}
BY RangeMember, EmptySeq

(* Where the element at k came from, when another was put in at i. *)
Shifted(k, i) == IF k < i THEN k ELSE k - 1

LEMMA InsertAtOld ==
  ASSUME NEW S, NEW s \in Seq(S), NEW e \in S, NEW i \in 1 .. Len(s) + 1
  PROVE  /\ Len(InsertAt(s, i, e)) = Len(s) + 1 /\ InsertAt(s, i, e)[i] = e
         /\ \A k \in 1 .. Len(s) + 1 :
              k # i => /\ InsertAt(s, i, e)[k] = s[Shifted(k, i)]
                       /\ Shifted(k, i) \in 1 .. Len(s)
<1> DEFINE t == InsertAt(s, i, e)
<1>1. /\ t \in Seq(S) /\ Len(t) = Len(s) + 1
      /\ \A j \in 1 .. Len(s) + 1 : t[j] = IF j < i THEN s[j] ELSE IF j = i THEN e ELSE s[j - 1]
  BY InsertAtProperties
<1>2. Len(s) \in Nat /\ i \in Nat
  BY LenProperties
<1> HIDE DEF t
<1>3. t[i] = e
  BY <1>1, <1>2
<1>4. ASSUME NEW k \in 1 .. Len(s) + 1, k # i
      PROVE  t[k] = s[Shifted(k, i)] /\ Shifted(k, i) \in 1 .. Len(s)
  <2>1. CASE k < i
    BY <1>1, <1>2, <2>1 DEF Shifted
  <2>2. CASE k > i
    <3>1. Shifted(k, i) = k - 1
      BY <1>2, <2>2 DEF Shifted
    <3>2. k - 1 \in 1 .. Len(s) /\ t[k] = s[k - 1]
      BY <1>1, <1>2, <2>2
    <3> QED BY <3>1, <3>2
  <2> QED BY <1>2, <1>4, <2>1, <2>2
<1>5. \A k \in 1 .. Len(s) + 1 : k # i => t[k] = s[Shifted(k, i)] /\ Shifted(k, i) \in 1 .. Len(s)
  BY <1>4
<1> QED BY <1>1, <1>3, <1>5 DEF t

LEMMA RangeInsertAt ==
  ASSUME NEW S, NEW s \in Seq(S), NEW e \in S, NEW i \in 1 .. Len(s) + 1
  PROVE  Range(InsertAt(s, i, e)) = Range(s) \cup {e}
<1> DEFINE t == InsertAt(s, i, e)
<1>1. /\ t \in Seq(S) /\ Len(t) = Len(s) + 1
      /\ \A j \in 1 .. Len(s) + 1 : t[j] = IF j < i THEN s[j] ELSE IF j = i THEN e ELSE s[j - 1]
  BY InsertAtProperties
<1>2. Len(s) \in Nat /\ i \in Nat
  BY LenProperties
<1> HIDE DEF t
<1>3. ASSUME NEW j \in 1 .. Len(s) + 1
      PROVE  t[j] = e \/ \E k \in 1 .. Len(s) : s[k] = t[j]
  <2>1. CASE j < i
    BY <1>1, <1>2, <2>1
  <2>2. CASE j = i
    BY <1>1, <1>2, <2>2
  <2>3. CASE j > i
    <3>1. j - 1 \in 1 .. Len(s) /\ t[j] = s[j - 1]
      BY <1>1, <1>2, <2>3
    <3> QED BY <3>1
  <2> QED BY <1>2, <2>1, <2>2, <2>3
<1>4. ASSUME NEW k \in 1 .. Len(s)
      PROVE  \E j \in 1 .. Len(s) + 1 : t[j] = s[k]
  <2>1. CASE k < i
    BY <1>1, <1>2, <2>1
  <2>2. CASE ~(k < i)
    <3>1. k + 1 \in 1 .. Len(s) + 1 /\ ~(k + 1 < i) /\ k + 1 # i /\ k + 1 - 1 = k
      BY <1>2, <2>2
    <3>2. t[k + 1] = s[k]
      BY <1>1, <3>1
    <3> QED BY <3>1, <3>2
  <2> QED BY <2>1, <2>2
<1>5. t[i] = e
  BY <1>1, <1>2
<1>6. \A x : x \in Range(t) <=> \E j \in 1 .. Len(s) + 1 : t[j] = x
  BY <1>1, RangeMember
<1>7. \A x : x \in Range(s) <=> \E k \in 1 .. Len(s) : s[k] = x
  BY RangeMember
<1>8. Range(t) = Range(s) \cup {e}
  BY <1>3, <1>4, <1>5, <1>6, <1>7
<1> QED BY <1>8 DEF t

LEMMA RangeTail ==
  ASSUME NEW S, NEW s \in Seq(S), s # <<>>
  PROVE  /\ Head(s) = s[1] /\ Head(s) \in Range(s)
         /\ \A x : x \in Range(Tail(s)) <=> \E i \in 2 .. Len(s) : s[i] = x
         /\ Range(s) = Range(Tail(s)) \cup {Head(s)}
<1>1. /\ Tail(s) \in Seq(S) /\ Len(Tail(s)) = Len(s) - 1
      /\ \A i \in 1 .. Len(Tail(s)) : Tail(s)[i] = s[i + 1]
  BY HeadTailProperties
<1>2. Len(s) \in Nat \ {0} /\ Head(s) = s[1]
  BY EmptySeq
<1> DEFINE t == Tail(s)
<1> HIDE DEF t
<1>3. \A x : x \in Range(t) <=> \E i \in 1 .. Len(s) - 1 : t[i] = x
  BY <1>1, RangeMember DEF t
<1>4. \A x : x \in Range(s) <=> \E i \in 1 .. Len(s) : s[i] = x
  BY RangeMember
<1>5. \A i \in 1 .. Len(s) - 1 : i + 1 \in 2 .. Len(s) /\ t[i] = s[i + 1]
  BY <1>1, <1>2 DEF t
<1>6. \A i \in 2 .. Len(s) : i - 1 \in 1 .. Len(s) - 1 /\ t[i - 1] = s[i]
  BY <1>1, <1>2 DEF t
<1>7. \A x : x \in Range(t) <=> \E i \in 2 .. Len(s) : s[i] = x
  BY <1>3, <1>5, <1>6
<1>8. \A i \in 1 .. Len(s) : i = 1 \/ i \in 2 .. Len(s)
  BY <1>2
<1>9. 1 \in 1 .. Len(s) /\ \A i \in 2 .. Len(s) : i \in 1 .. Len(s)
  BY <1>2
<1>10. Range(s) = Range(t) \cup {s[1]}
  BY <1>4, <1>7, <1>8, <1>9
<1> QED BY <1>2, <1>4, <1>7, <1>9, <1>10 DEF t

LEMMA RangeAppend ==
  ASSUME NEW S, NEW s \in Seq(S), NEW e \in S
  PROVE  Range(Append(s, e)) = Range(s) \cup {e}
<1>1. /\ Append(s, e) \in Seq(S) /\ Len(Append(s, e)) = Len(s) + 1
      /\ \A i \in 1 .. Len(s) : Append(s, e)[i] = s[i]
      /\ Append(s, e)[Len(s) + 1] = e
  BY AppendProperties
<1>2. Len(s) \in Nat
  BY LenProperties
<1>3. \A x : x \in Range(Append(s, e)) <=> \E i \in 1 .. Len(s) + 1 : Append(s, e)[i] = x
  BY <1>1, RangeMember
<1>4. \A x : x \in Range(s) <=> \E i \in 1 .. Len(s) : s[i] = x
  BY RangeMember
<1>5. \A i \in 1 .. Len(s) + 1 : i = Len(s) + 1 \/ i \in 1 .. Len(s)
  BY <1>2
<1>6. Len(s) + 1 \in 1 .. Len(s) + 1 /\ \A i \in 1 .. Len(s) : i \in 1 .. Len(s) + 1
  BY <1>2
<1> QED BY <1>1, <1>3, <1>4, <1>5, <1>6

LEMMA RangeRemoveAt ==
  ASSUME NEW S, NEW s \in Seq(S), NEW i \in 1 .. Len(s)
  PROVE  \A x \in Range(s) : x = s[i] \/ x \in Range(RemoveAt(s, i))
<1> DEFINE t == RemoveAt(s, i)
<1>1. /\ t \in Seq(S) /\ Len(t) = Len(s) - 1
      /\ \A j \in 1 .. Len(s) - 1 : t[j] = IF j < i THEN s[j] ELSE s[j + 1]
  BY RemoveAtProperties
<1> HIDE DEF t
<1>2. Len(s) \in Nat \ {0}
  BY LenProperties
<1>3. ASSUME NEW k \in 1 .. Len(s), k # i
      PROVE  \E j \in 1 .. Len(s) - 1 : t[j] = s[k]
  <2>1. CASE k < i
    <3>1. k \in 1 .. Len(s) - 1
      BY <1>2, <2>1
    <3> QED BY <1>1, <2>1, <3>1
  <2>2. CASE k > i
    <3>1. k - 1 \in 1 .. Len(s) - 1 /\ ~(k - 1 < i) /\ k - 1 + 1 = k
      BY <1>2, <2>2
    <3> QED BY <1>1, <3>1
  <2> QED BY <1>2, <1>3, <2>1, <2>2
<1>4. \A x : x \in Range(t) <=> \E j \in 1 .. Len(s) - 1 : t[j] = x
  BY <1>1, RangeMember
<1>5. \A x : x \in Range(s) <=> \E k \in 1 .. Len(s) : s[k] = x
  BY RangeMember
<1> QED BY <1>3, <1>4, <1>5 DEF t

(***************************************************************************)
(* s lists the elements of S, each once: what the lists of the kernel are  *)
(* for.  How its operations change the set that a list lists.              *)
(***************************************************************************)
Lists(s, S) == Range(s) = S /\ \A i, j \in 1 .. Len(s) : s[i] = s[j] => i = j

LEMMA ListsEmpty == Lists(<<>>, {})
<1>1. Len(<<>>) = 0
  BY EmptySeq
<1> QED BY <1>1, RangeEmpty DEF Lists

LEMMA ListsMember ==
  ASSUME NEW T, NEW s \in Seq(T), NEW S, Lists(s, S)
  PROVE  /\ S \subseteq T
         /\ s = <<>> <=> S = {}
         /\ \A x : x \in S <=> \E i \in 1 .. Len(s) : s[i] = x
         /\ \A i \in 1 .. Len(s) : s[i] \in S
         /\ \A i, j \in 1 .. Len(s) : s[i] = s[j] => i = j
BY RangeMember DEF Lists

LEMMA ListsAppend ==
  ASSUME NEW T, NEW s \in Seq(T), NEW e \in T, NEW S, Lists(s, S), e \notin S
  PROVE  Lists(Append(s, e), S \cup {e})
<1> DEFINE t == Append(s, e)
<1>1. /\ t \in Seq(T) /\ Len(t) = Len(s) + 1
      /\ \A i \in 1 .. Len(s) : t[i] = s[i]
      /\ t[Len(s) + 1] = e
  BY AppendProperties
<1>2. Range(t) = S \cup {e}
  BY RangeAppend DEF Lists
<1> HIDE DEF t
<1>3. Len(s) \in Nat /\ \A i \in 1 .. Len(s) + 1 : i = Len(s) + 1 \/ i \in 1 .. Len(s)
  BY LenProperties
<1>4. \A i \in 1 .. Len(s) : t[i] = s[i] /\ s[i] # e
  BY <1>1, ListsMember
<1>5. \A i, j \in 1 .. Len(s) : s[i] = s[j] => i = j
  BY DEF Lists
<1>6. \A i, j \in 1 .. Len(s) + 1 : t[i] = t[j] => i = j
  BY <1>1, <1>3, <1>4, <1>5
<1>7. Lists(t, S \cup {e})
  BY <1>1, <1>2, <1>6 DEF Lists
<1> QED BY <1>7 DEF t

LEMMA ListsInsertAt ==
  ASSUME NEW T, NEW s \in Seq(T), NEW e \in T, NEW S, Lists(s, S), e \notin S,
         NEW i \in 1 .. Len(s) + 1
  PROVE  Lists(InsertAt(s, i, e), S \cup {e})
<1> DEFINE t == InsertAt(s, i, e)
           old(j) == IF j < i THEN j ELSE j - 1
<1>1. /\ t \in Seq(T) /\ Len(t) = Len(s) + 1
      /\ \A j \in 1 .. Len(s) + 1 : t[j] = IF j < i THEN s[j] ELSE IF j = i THEN e ELSE s[j - 1]
  BY InsertAtProperties
<1>2. Range(t) = S \cup {e}
  BY RangeInsertAt DEF Lists
<1> HIDE DEF t
<1>3. Len(s) \in Nat /\ i \in Nat
  BY LenProperties
<1>4. \A j \in 1 .. Len(s) + 1 : j # i => old(j) \in 1 .. Len(s) /\ t[j] = s[old(j)]
  BY <1>1, <1>3
<1>5. \A j, k \in 1 .. Len(s) + 1 : j # i /\ k # i /\ old(j) = old(k) => j = k
  BY <1>3
<1>6. t[i] = e
  BY <1>1, <1>3
<1>7. \A j \in 1 .. Len(s) : s[j] # e
  BY ListsMember
<1>8. \A j, k \in 1 .. Len(s) : s[j] = s[k] => j = k
  BY DEF Lists
<1> HIDE DEF old
<1>9. \A j, k \in 1 .. Len(s) + 1 : t[j] = t[k] => j = k
  BY <1>4, <1>5, <1>6, <1>7, <1>8
<1>10. Lists(t, S \cup {e})
  BY <1>1, <1>2, <1>9 DEF Lists
<1> QED BY <1>10 DEF t

LEMMA ListsRemoveAt ==
  ASSUME NEW T, NEW s \in Seq(T), NEW S, Lists(s, S), NEW i \in 1 .. Len(s)
  PROVE  /\ Lists(RemoveAt(s, i), S \ {s[i]})
         /\ s[i] \in S
<1> DEFINE t == RemoveAt(s, i)
           old(j) == IF j < i THEN j ELSE j + 1
<1>1. /\ t \in Seq(T) /\ Len(t) = Len(s) - 1
      /\ \A j \in 1 .. Len(s) - 1 : t[j] = IF j < i THEN s[j] ELSE s[j + 1]
  BY RemoveAtProperties
<1> HIDE DEF t
<1>2. Len(s) \in Nat \ {0} /\ i \in Nat
  BY LenProperties
<1>3. \A j \in 1 .. Len(s) - 1 : old(j) \in 1 .. Len(s) /\ old(j) # i /\ t[j] = s[old(j)]
  BY <1>1, <1>2
<1>4. \A j, k \in 1 .. Len(s) - 1 : old(j) = old(k) => j = k
  BY <1>2
<1>5. ASSUME NEW k \in 1 .. Len(s), k # i
      PROVE  \E j \in 1 .. Len(s) - 1 : old(j) = k
  <2>1. CASE k < i
    <3>1. k \in 1 .. Len(s) - 1 /\ old(k) = k
      BY <1>2, <2>1
    <3> QED BY <3>1
  <2>2. CASE k > i
    <3>1. k - 1 \in 1 .. Len(s) - 1 /\ old(k - 1) = k
      BY <1>2, <2>2
    <3> QED BY <3>1
  <2> QED BY <1>2, <1>5, <2>1, <2>2
<1> HIDE DEF old
<1>6. \A j, k \in 1 .. Len(s) : s[j] = s[k] => j = k
  BY DEF Lists
<1>7. \A j, k \in 1 .. Len(s) - 1 : t[j] = t[k] => j = k
  BY <1>3, <1>4, <1>6
<1>8. \A x : x \in Range(t) <=> \E j \in 1 .. Len(s) - 1 : t[j] = x
  BY <1>1, RangeMember
<1>9. \A x : x \in S <=> \E j \in 1 .. Len(s) : s[j] = x
  BY ListsMember
<1>10. ASSUME NEW x \in Range(t) PROVE x \in S \ {s[i]}
  BY <1>3, <1>6, <1>8, <1>9, <1>10
<1>11. ASSUME NEW x \in S \ {s[i]} PROVE x \in Range(t)
  <2>1. PICK k \in 1 .. Len(s) : s[k] = x
    BY <1>9, <1>11
  <2>2. k # i
    BY <1>11, <2>1
  <2>3. PICK j \in 1 .. Len(s) - 1 : old(j) = k
    BY <1>5, <2>2
  <2> QED BY <1>3, <1>8, <2>1, <2>3
<1>12. Lists(t, S \ {s[i]})
  BY <1>1, <1>7, <1>10, <1>11 DEF Lists
<1> QED BY <1>9, <1>12 DEF t

LEMMA ListsFront ==
  ASSUME NEW T, NEW s \in Seq(T), NEW S, Lists(s, S), s # <<>>
  PROVE  /\ Lists(Front(s), S \ {Last(s)})
         /\ Last(s) \in S
<1>1. /\ Front(s) \in Seq(T) /\ Len(Front(s)) = Len(s) - 1
      /\ \A j \in 1 .. Len(s) - 1 : Front(s)[j] = s[j]
      /\ Last(s) = s[Len(s)]
  BY FrontProperties
<1>2. Len(s) \in Nat \ {0} /\ Len(s) \in 1 .. Len(s)
  BY EmptySeq
<1>3. /\ RemoveAt(s, Len(s)) \in Seq(T) /\ Len(RemoveAt(s, Len(s))) = Len(s) - 1
      /\ \A j \in 1 .. Len(s) - 1 :
           RemoveAt(s, Len(s))[j] = IF j < Len(s) THEN s[j] ELSE s[j + 1]
  BY <1>2, RemoveAtProperties
<1>4. \A j \in 1 .. Len(s) - 1 : Front(s)[j] = RemoveAt(s, Len(s))[j]
  BY <1>1, <1>2, <1>3
<1>5. Front(s) = RemoveAt(s, Len(s))
  BY <1>1, <1>3, <1>4, SeqEqual
<1>6. Lists(RemoveAt(s, Len(s)), S \ {s[Len(s)]}) /\ s[Len(s)] \in S
  <2> DEFINE n == Len(s)
  <2>1. n \in 1 .. Len(s)
    BY <1>2
  <2> HIDE DEF n
  <2>2. Lists(RemoveAt(s, n), S \ {s[n]}) /\ s[n] \in S
    BY <2>1, ListsRemoveAt
  <2> QED BY <2>2 DEF n
<1> QED BY <1>1, <1>5, <1>6

LEMMA ListsTail ==
  ASSUME NEW T, NEW s \in Seq(T), NEW S, Lists(s, S), s # <<>>
  PROVE  /\ Lists(Tail(s), S \ {Head(s)})
         /\ Head(s) \in S
<1>1. /\ Tail(s) \in Seq(T) /\ Len(Tail(s)) = Len(s) - 1
      /\ \A i \in 1 .. Len(Tail(s)) : Tail(s)[i] = s[i + 1]
  BY HeadTailProperties
<1>2. Len(s) \in Nat \ {0} /\ 1 \in 1 .. Len(s) /\ Head(s) = s[1]
  BY EmptySeq
<1>3. /\ RemoveAt(s, 1) \in Seq(T) /\ Len(RemoveAt(s, 1)) = Len(s) - 1
      /\ \A j \in 1 .. Len(s) - 1 : RemoveAt(s, 1)[j] = IF j < 1 THEN s[j] ELSE s[j + 1]
  BY <1>2, RemoveAtProperties
<1>4. \A j \in 1 .. Len(s) - 1 : Tail(s)[j] = RemoveAt(s, 1)[j]
  BY <1>1, <1>2, <1>3
<1>5. Tail(s) = RemoveAt(s, 1)
  BY <1>1, <1>3, <1>4, SeqEqual
<1>6. Lists(RemoveAt(s, 1), S \ {s[1]}) /\ s[1] \in S
  BY <1>2, ListsRemoveAt
<1> QED BY <1>2, <1>5, <1>6

LEMMA ListsPush ==
  ASSUME NEW T, NEW s \in Seq(T), NEW e \in T, NEW S, Lists(s, S), e \notin S
  PROVE  Lists(<<e>> \o s, S \cup {e})
<1>1. /\ <<e>> \o s \in Seq(T) /\ Len(<<e>> \o s) = Len(s) + 1 /\ (<<e>> \o s)[1] = e
      /\ \A j \in 2 .. Len(s) + 1 : (<<e>> \o s)[j] = s[j - 1]
  BY PushProperties
<1> DEFINE k == 1
<1>2. Len(s) \in Nat /\ k \in 1 .. Len(s) + 1
  BY LenProperties
<1> HIDE DEF k
<1>3. /\ InsertAt(s, k, e) \in Seq(T) /\ Len(InsertAt(s, k, e)) = Len(s) + 1
      /\ \A j \in 1 .. Len(s) + 1 :
           InsertAt(s, k, e)[j] = IF j < k THEN s[j] ELSE IF j = k THEN e ELSE s[j - 1]
  BY <1>2, InsertAtProperties
<1>4. \A j \in 1 .. Len(s) + 1 : (<<e>> \o s)[j] = InsertAt(s, k, e)[j]
  BY <1>1, <1>2, <1>3 DEF k
<1>5. <<e>> \o s = InsertAt(s, k, e)
  BY <1>1, <1>3, <1>4, SeqEqual
<1>6. Lists(InsertAt(s, k, e), S \cup {e})
  BY <1>2, ListsInsertAt
<1> QED BY <1>5, <1>6

(* The last element takes the place of the one at i. *)
LEMMA ListsFillHole ==
  ASSUME NEW T, NEW s \in Seq(T), NEW S, Lists(s, S), NEW i \in 1 .. Len(s)
  PROVE  /\ Front([s EXCEPT ![i] = Last(s)]) \in Seq(T)
         /\ Lists(Front([s EXCEPT ![i] = Last(s)]), S \ {s[i]})
         /\ s[i] \in S
<1> DEFINE u == [s EXCEPT ![i] = Last(s)]
           t == Front(u)
           n == Len(s)
           old(j) == IF j = i THEN n ELSE j
<1>1. n \in Nat \ {0} /\ i \in Nat /\ n \in 1 .. n /\ s # <<>>
  BY LenProperties, EmptySeq
<1>2. Last(s) = s[n] /\ Last(s) \in T
  BY <1>1, FrontProperties
<1>3. /\ u \in Seq(T) /\ Len(u) = n
      /\ \A j \in 1 .. n : u[j] = IF j = i THEN Last(s) ELSE s[j]
  BY <1>2, ExceptSeq
<1>4. u # <<>>
  BY <1>1, <1>3, EmptySeq
<1> HIDE DEF u
<1>5. /\ t \in Seq(T) /\ Len(t) = n - 1
      /\ \A j \in 1 .. n - 1 : t[j] = u[j]
  BY <1>3, <1>4, FrontProperties
<1> HIDE DEF t
<1>6. \A j \in 1 .. n - 1 : old(j) \in 1 .. n /\ old(j) # i /\ t[j] = s[old(j)]
  BY <1>1, <1>2, <1>3, <1>5
<1>7. \A j, k \in 1 .. n - 1 : old(j) = old(k) => j = k
  BY <1>1
<1>8. ASSUME NEW k \in 1 .. n, k # i
      PROVE  \E j \in 1 .. n - 1 : old(j) = k
  <2>1. CASE k = n
    <3>1. i \in 1 .. n - 1 /\ old(i) = k
      BY <1>1, <1>8, <2>1
    <3> QED BY <3>1
  <2>2. CASE k # n
    <3>1. k \in 1 .. n - 1 /\ old(k) = k
      BY <1>1, <1>8, <2>2
    <3> QED BY <3>1
  <2> QED BY <2>1, <2>2
<1> HIDE DEF old
<1>9. \A j, k \in 1 .. n : s[j] = s[k] => j = k
  BY DEF Lists
<1>10. \A j, k \in 1 .. n - 1 : t[j] = t[k] => j = k
  BY <1>6, <1>7, <1>9
<1>11. \A x : x \in Range(t) <=> \E j \in 1 .. n - 1 : t[j] = x
  BY <1>5, RangeMember
<1>12. \A x : x \in S <=> \E j \in 1 .. n : s[j] = x
  BY ListsMember
<1>13. ASSUME NEW x \in Range(t) PROVE x \in S \ {s[i]}
  BY <1>6, <1>9, <1>11, <1>12, <1>13
<1>14. ASSUME NEW x \in S \ {s[i]} PROVE x \in Range(t)
  <2>1. PICK k \in 1 .. n : s[k] = x
    BY <1>12, <1>14
  <2>2. k # i
    BY <1>14, <2>1
  <2>3. PICK j \in 1 .. n - 1 : old(j) = k
    BY <1>8, <2>2
  <2> QED BY <1>6, <1>11, <2>1, <2>3
<1>15. Lists(t, S \ {s[i]})
  BY <1>5, <1>10, <1>13, <1>14 DEF Lists
<1> QED BY <1>5, <1>12, <1>15 DEF t, u
===============================================================================
