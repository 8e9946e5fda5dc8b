------------------------- MODULE MessageQueue_proofs -------------------------
(***************************************************************************)
(* The message queues keep their waiting lists exact, lose no message and  *)
(* never have one twice, for every number of queues, of processes and of   *)
(* messages, every capacity and every range of priorities; and the last    *)
(* part: standard input, which is made of one of them, hands out the keys  *)
(* in order and edits its lines.                                           *)
(*                                                                         *)
(* The properties speak of positions in the lists.  The proofs speak of    *)
(* the set of the entries of a list, Range(locked[f]): the first part says *)
(* what each list operation does to that set and that it keeps a list in   *)
(* order with one entry per process; the second part then argues about     *)
(* sets.                                                                   *)
(***************************************************************************)
EXTENDS Stdin, SeqLemmas, FiniteSetTheorems

\* One entry per process, and in the order of the priorities.
Once(q)    == \A i, j \in DOMAIN q : q[i].pid = q[j].pid => i = j
Falling(q) == \A i \in DOMAIN q : i > 1 => q[i - 1].priority >= q[i].priority
InOrder(q) == q \in Seq(Entry) /\ Once(q) /\ Falling(q)

USE QueueConstants
-------------------------------------------------------------------------------
LEMMA EntryType ==
  ASSUME NEW e \in Entry
  PROVE  /\ e.pid \in Procs /\ e.priority \in Prios /\ e.priority \in Int
         /\ e.message \in Messages \cup {"none"}
BY DEF Entry, Prios

(* process_queue_add_on_priority finds a place: behind the last entry of   *)
(* higher priority.                                                        *)
LEMMA PositionFound ==
  ASSUME NEW q \in Seq(Entry), NEW e \in Entry
  PROVE  /\ Position(q, e) \in 1 .. Len(q) + 1
         /\ \A i \in Position(q, e) .. Len(q) : q[i].priority <= e.priority
         /\ Position(q, e) > 1 => q[Position(q, e) - 1].priority > e.priority
<1> DEFINE T == {k \in 1 .. Len(q) + 1 : \A i \in k .. Len(q) : q[i].priority <= e.priority}
           P(k) == /\ \A i \in k .. Len(q) : q[i].priority <= e.priority
                   /\ k > 1 => q[k - 1].priority > e.priority
<1>1. Len(q) \in Nat
  BY LenProperties
<1>2. \A i \in 1 .. Len(q) : q[i].priority \in Int
  <2>1. \A i \in 1 .. Len(q) : q[i] \in Entry
    BY ElementOfSeq
  <2> QED BY <2>1, EntryType
<1>3. e.priority \in Int
  BY EntryType
<1>4. T \subseteq Nat /\ Len(q) + 1 \in T
  BY <1>1
<1>5. PICK k \in T : \A y \in T : k <= y
  BY <1>4, LeastNatural
<1>6. k \in 1 .. Len(q) + 1 /\ \A i \in k .. Len(q) : q[i].priority <= e.priority
  OBVIOUS
<1>7. ASSUME k > 1
      PROVE  q[k - 1].priority > e.priority
  <2>1. k - 1 \in 1 .. Len(q) /\ k - 1 \notin T /\ k - 1 \in 1 .. Len(q) + 1
    BY <1>1, <1>5, <1>6, <1>7
  <2>2. PICK i \in k - 1 .. Len(q) : ~(q[i].priority <= e.priority)
    BY <2>1
  <2>3. i = k - 1
    BY <1>1, <1>6, <2>1, <2>2
  <2> QED BY <1>2, <1>3, <2>1, <2>2, <2>3
<1>8. P(k)
  BY <1>6, <1>7
<1>9. Position(q, e) = CHOOSE x \in 1 .. Len(q) + 1 : P(x)
  BY DEF Position
<1> HIDE DEF P
<1>10. Position(q, e) \in 1 .. Len(q) + 1 /\ P(Position(q, e))
  BY <1>6, <1>8, <1>9
<1> QED BY <1>10 DEF P

(* A process that is not in the list is put in its place. *)
LEMMA AddInOrder ==
  ASSUME NEW q, InOrder(q), NEW e \in Entry, \A x \in Range(q) : x.pid # e.pid
  PROVE  /\ InOrder(AddOnPriority(q, e))
         /\ Range(AddOnPriority(q, e)) = Range(q) \cup {e}
<1> DEFINE k == Position(q, e)
           t == AddOnPriority(q, e)
<1>1. q \in Seq(Entry) /\ Len(q) \in Nat /\ DOMAIN q = 1 .. Len(q)
  BY LenProperties DEF InOrder
<1>2. /\ k \in 1 .. Len(q) + 1
      /\ \A i \in k .. Len(q) : q[i].priority <= e.priority
      /\ k > 1 => q[k - 1].priority > e.priority
  BY <1>1, PositionFound
<1>t. t = InsertAt(q, k, e)
  BY DEF AddOnPriority
<1> HIDE DEF k, t
<1>3. /\ t \in Seq(Entry) /\ Len(t) = Len(q) + 1
      /\ \A j \in 1 .. Len(q) + 1 : t[j] = IF j < k THEN q[j] ELSE IF j = k THEN e ELSE q[j - 1]
  <2>1. /\ InsertAt(q, k, e) \in Seq(Entry)
        /\ Len(InsertAt(q, k, e)) = Len(q) + 1
        /\ \A j \in 1 .. Len(q) + 1 :
             InsertAt(q, k, e)[j] = IF j < k THEN q[j] ELSE IF j = k THEN e ELSE q[j - 1]
    <3>1. PICK n \in 1 .. Len(q) + 1 : n = k
      BY <1>2
    <3>2. /\ InsertAt(q, n, e) \in Seq(Entry)
          /\ Len(InsertAt(q, n, e)) = Len(q) + 1
          /\ \A j \in 1 .. Len(q) + 1 :
               InsertAt(q, n, e)[j] = IF j < n THEN q[j] ELSE IF j = n THEN e ELSE q[j - 1]
      BY <1>1, InsertAtProperties
    <3> QED BY <3>1, <3>2
  <2> QED BY <1>t, <2>1
<1>4. Range(t) = Range(q) \cup {e}
  BY <1>1, <1>2, <1>t, RangeInsertAt
<1>5. DOMAIN t = 1 .. Len(q) + 1
  BY <1>3, LenProperties
<1>6. \A i \in 1 .. Len(q) : q[i].pid # e.pid
  <2>1. \A i \in 1 .. Len(q) : q[i] \in Range(q)
    BY <1>1, RangeMember
  <2> QED BY <2>1
<1>7. \A i \in 1 .. Len(q) : q[i].priority \in Int /\ (i > 1 => q[i - 1].priority >= q[i].priority)
  <2>1. \A i \in 1 .. Len(q) : q[i] \in Entry
    BY <1>1, ElementOfSeq
  <2> QED BY <1>1, <2>1, EntryType DEF InOrder, Falling
<1>8. \A i, j \in 1 .. Len(q) : q[i].pid = q[j].pid => i = j
  BY <1>1 DEF InOrder, Once
<1>9. e.priority \in Int
  BY EntryType
<1>10. ASSUME NEW i \in 1 .. Len(q) + 1, NEW j \in 1 .. Len(q) + 1, t[i].pid = t[j].pid
       PROVE  i = j
  <2>1. ASSUME NEW n \in 1 .. Len(q) + 1
        PROVE  /\ n < k => n \in 1 .. Len(q) /\ t[n] = q[n]
               /\ n = k => t[n] = e
               /\ n > k => n - 1 \in 1 .. Len(q) /\ t[n] = q[n - 1]
    BY <1>1, <1>2, <1>3
  <2>2. CASE i = k \/ j = k
    BY <1>1, <1>2, <1>6, <1>10, <2>1, <2>2
  <2>3. CASE i < k /\ j < k
    BY <1>1, <1>2, <1>8, <1>10, <2>1, <2>3
  <2>4. CASE i > k /\ j > k
    BY <1>1, <1>2, <1>8, <1>10, <2>1, <2>4
  <2>5. CASE (i < k /\ j > k) \/ (i > k /\ j < k)
    BY <1>1, <1>2, <1>8, <1>10, <2>1, <2>5
  <2>6. (i < k \/ i = k \/ i > k) /\ (j < k \/ j = k \/ j > k)
    BY <1>1, <1>2
  <2> QED BY <2>2, <2>3, <2>4, <2>5, <2>6
<1>11. ASSUME NEW i \in 1 .. Len(q) + 1, i > 1
       PROVE  t[i - 1].priority >= t[i].priority
  <2>1. i - 1 \in 1 .. Len(q) + 1
    BY <1>1, <1>11
  <2>2. CASE i < k
    <3>1. t[i] = q[i] /\ t[i - 1] = q[i - 1] /\ i \in 1 .. Len(q)
      BY <1>1, <1>2, <1>3, <1>11, <2>1, <2>2
    <3> QED BY <1>7, <1>11, <3>1
  <2>3. CASE i = k
    BY <1>1, <1>2, <1>3, <1>7, <1>9, <1>11, <2>1, <2>3
  <2>4. CASE i = k + 1
    <3>1. t[i] = q[k] /\ t[i - 1] = e /\ k \in k .. Len(q)
      BY <1>1, <1>2, <1>3, <1>11, <2>1, <2>4
    <3>2. q[k].priority <= e.priority /\ k \in 1 .. Len(q)
      BY <1>1, <1>2, <3>1
    <3> QED BY <1>7, <1>9, <3>1, <3>2
  <2>5. CASE i > k + 1
    <3>1. t[i] = q[i - 1] /\ t[i - 1] = q[i - 1 - 1] /\ i - 1 \in 1 .. Len(q) /\ i - 1 > 1
      BY <1>1, <1>2, <1>3, <1>11, <2>1, <2>5
    <3> QED BY <1>7, <3>1
  <2> QED BY <1>1, <1>2, <2>2, <2>3, <2>4, <2>5
<1>12. Once(t)
  BY <1>5, <1>10 DEF Once
<1>13. Falling(t)
  BY <1>5, <1>11 DEF Falling
<1>14. InOrder(t)
  BY <1>3, <1>12, <1>13 DEF InOrder
<1> QED BY <1>4, <1>14 DEF t

(* A list without its entry i. *)
LEMMA RemoveInOrder ==
  ASSUME NEW q, InOrder(q), NEW i \in 1 .. Len(q)
  PROVE  /\ InOrder(RemoveAt(q, i))
         /\ Range(RemoveAt(q, i)) = {x \in Range(q) : x.pid # q[i].pid}
<1> DEFINE t == RemoveAt(q, i)
<1>1. q \in Seq(Entry) /\ Len(q) \in Nat /\ DOMAIN q = 1 .. Len(q)
  <2>1. q \in Seq(Entry)
    BY DEF InOrder
  <2> QED BY <2>1, LenProperties
<1>2. /\ t \in Seq(Entry) /\ Len(t) = Len(q) - 1
      /\ \A j \in 1 .. Len(q) - 1 : t[j] = IF j < i THEN q[j] ELSE q[j + 1]
  BY <1>1, RemoveAtProperties
<1>3. DOMAIN t = 1 .. Len(q) - 1
  BY <1>2, LenProperties
<1>4. \A j \in 1 .. Len(q) : q[j].priority \in Int /\ (j > 1 => q[j - 1].priority >= q[j].priority)
  <2>1. \A j \in 1 .. Len(q) : q[j] \in Entry
    BY <1>1, ElementOfSeq
  <2> QED BY <1>1, <2>1, EntryType DEF InOrder, Falling
<1>5. \A j, k \in 1 .. Len(q) : q[j].pid = q[k].pid => j = k
  BY <1>1 DEF InOrder, Once
<1> HIDE DEF t
<1>6. ASSUME NEW n \in 1 .. Len(q) - 1
      PROVE  /\ n < i => n \in 1 .. Len(q) /\ t[n] = q[n]
             /\ n >= i => n + 1 \in 1 .. Len(q) /\ t[n] = q[n + 1]
  BY <1>1, <1>2
<1>7. ASSUME NEW j \in 1 .. Len(q) - 1, NEW k \in 1 .. Len(q) - 1, t[j].pid = t[k].pid
      PROVE  j = k
  <2>1. CASE j < i /\ k < i
    BY <1>5, <1>6, <1>7, <2>1
  <2>2. CASE j < i /\ k >= i
    BY <1>1, <1>5, <1>6, <1>7, <2>2
  <2>3. CASE j >= i /\ k < i
    BY <1>1, <1>5, <1>6, <1>7, <2>3
  <2>4. CASE j >= i /\ k >= i
    BY <1>1, <1>5, <1>6, <1>7, <2>4
  <2> QED BY <1>1, <2>1, <2>2, <2>3, <2>4
<1>8. ASSUME NEW j \in 1 .. Len(q) - 1, j > 1
      PROVE  t[j - 1].priority >= t[j].priority
  <2>1. j - 1 \in 1 .. Len(q) - 1
    BY <1>1, <1>8
  <2>2. CASE j < i
    BY <1>1, <1>2, <1>4, <1>8, <2>1, <2>2
  <2>3. CASE j = i
    <3>1. t[j - 1] = q[j - 1] /\ t[j] = q[j + 1] /\ j - 1 \in 1 .. Len(q) /\ j \in 1 .. Len(q) /\ j + 1 \in 1 .. Len(q)
      BY <1>1, <1>2, <1>8, <2>1, <2>3
    <3>2. q[j - 1].priority >= q[j].priority /\ q[j].priority >= q[j + 1].priority
      <4>1. j + 1 > 1 /\ (j + 1) - 1 = j
        BY <1>8
      <4> QED BY <1>4, <1>8, <3>1, <4>1
    <3>3. q[j - 1].priority \in Int /\ q[j].priority \in Int /\ q[j + 1].priority \in Int
      BY <1>4, <3>1
    <3> QED BY <3>1, <3>2, <3>3
  <2>4. CASE j > i
    <3>1. t[j - 1] = q[j] /\ t[j] = q[j + 1] /\ j + 1 \in 1 .. Len(q) /\ j + 1 > 1 /\ (j + 1) - 1 = j
      BY <1>1, <1>2, <1>8, <2>1, <2>4
    <3>2. q[(j + 1) - 1].priority >= q[j + 1].priority
      BY <1>4, <3>1
    <3> QED BY <3>1, <3>2
  <2> QED BY <1>1, <2>2, <2>3, <2>4
<1>9. InOrder(t)
  BY <1>2, <1>3, <1>7, <1>8 DEF InOrder, Once, Falling
<1>10. \A x : x \in Range(t) <=> \E j \in 1 .. Len(q) - 1 : t[j] = x
  BY <1>2, RangeMember
<1>11. \A x : x \in Range(q) <=> \E j \in 1 .. Len(q) : q[j] = x
  BY <1>1, RangeMember
<1>12. ASSUME NEW x \in Range(t) PROVE x \in Range(q) /\ x.pid # q[i].pid
  <2>1. PICK j \in 1 .. Len(q) - 1 : t[j] = x
    BY <1>10
  <2>2. CASE j < i
    BY <1>5, <1>6, <1>11, <2>1, <2>2
  <2>3. CASE j >= i
    <3>1. j + 1 # i /\ j + 1 \in 1 .. Len(q) /\ x = q[j + 1]
      BY <1>1, <1>6, <2>1, <2>3
    <3> QED BY <1>5, <1>11, <3>1
  <2> QED BY <1>1, <2>2, <2>3
<1>13. ASSUME NEW x \in Range(q), x.pid # q[i].pid PROVE x \in Range(t)
  <2>1. PICK j \in 1 .. Len(q) : q[j] = x
    BY <1>11
  <2>2. CASE j < i
    <3>1. j \in 1 .. Len(q) - 1
      BY <1>1, <2>2
    <3> QED BY <1>2, <1>10, <2>1, <2>2, <3>1
  <2>3. CASE j > i
    <3>1. j - 1 \in 1 .. Len(q) - 1 /\ ~(j - 1 < i) /\ (j - 1) + 1 = j
      BY <1>1, <2>3
    <3>2. t[j - 1] = x
      BY <1>2, <2>1, <3>1
    <3> QED BY <1>10, <3>1, <3>2
  <2>4. j # i
    BY <1>13, <2>1
  <2> QED BY <1>1, <2>2, <2>3, <2>4
<1>14. Range(t) = {x \in Range(q) : x.pid # q[i].pid}
  BY <1>12, <1>13
<1> QED BY <1>9, <1>14 DEF t

LEMMA EmptyInOrder == InOrder(<<>>) /\ Range(<<>>) = {}
<1>1. <<>> \in Seq(Entry) /\ DOMAIN <<>> = {} /\ Range(<<>>) = {}
  BY EmptySeq, LenProperties, RangeEmpty
<1> QED BY <1>1 DEF InOrder, Once, Falling

(* The first entry is taken. *)
LEMMA TailInOrder ==
  ASSUME NEW q, InOrder(q), q # <<>>
  PROVE  /\ Head(q) \in Range(q) /\ Head(q) \in Entry
         /\ InOrder(Tail(q))
         /\ Range(Tail(q)) = {x \in Range(q) : x.pid # Head(q).pid}
<1>1. q \in Seq(Entry) /\ Len(q) \in Nat \ {0}
  BY EmptySeq DEF InOrder
<1>2. Head(q) = q[1] /\ Head(q) \in Range(q) /\ Head(q) \in Entry
  BY <1>1, RangeTail, HeadTailProperties
<1>3. /\ Tail(q) \in Seq(Entry) /\ Len(Tail(q)) = Len(q) - 1
      /\ \A j \in 1 .. Len(Tail(q)) : Tail(q)[j] = q[j + 1]
  BY <1>1, HeadTailProperties
<1>4. /\ RemoveAt(q, 1) \in Seq(Entry) /\ Len(RemoveAt(q, 1)) = Len(q) - 1
      /\ \A j \in 1 .. Len(q) - 1 : RemoveAt(q, 1)[j] = IF j < 1 THEN q[j] ELSE q[j + 1]
  BY <1>1, RemoveAtProperties
<1>5. \A j \in 1 .. Len(q) - 1 : RemoveAt(q, 1)[j] = q[j + 1]
  BY <1>4
<1>6. RemoveAt(q, 1) = Tail(q)
  BY <1>3, <1>4, <1>5, SeqEqual
<1>7. /\ InOrder(RemoveAt(q, 1))
      /\ Range(RemoveAt(q, 1)) = {x \in Range(q) : x.pid # q[1].pid}
  BY <1>1, RemoveInOrder
<1> QED BY <1>2, <1>6, <1>7

LEMMA EntryFound ==
  ASSUME NEW q, InOrder(q), NEW p, Listed(q, p)
  PROVE  /\ EntryOf(q, p) \in 1 .. Len(q)
         /\ q[EntryOf(q, p)].pid = p
<1>1. Len(q) \in Nat /\ DOMAIN q = 1 .. Len(q)
  BY LenProperties DEF InOrder
<1>2. PICK i \in 1 .. Len(q) : q[i].pid = p
  BY <1>1 DEF Listed
<1>3. \A j \in 1 .. i - 1 : j \in 1 .. Len(q) /\ j # i
  BY <1>1
<1>4. \A j \in 1 .. i - 1 : q[j].pid # p
  BY <1>1, <1>2, <1>3 DEF InOrder, Once
<1> QED BY <1>1, <1>2, <1>4 DEF EntryOf

LEMMA ListedRange ==
  ASSUME NEW q, InOrder(q), NEW p
  PROVE  Listed(q, p) <=> \E x \in Range(q) : x.pid = p
BY DEF Listed, Range

LEMMA RemovePidInOrder ==
  ASSUME NEW q, InOrder(q), NEW p
  PROVE  /\ InOrder(RemovePid(q, p))
         /\ Range(RemovePid(q, p)) = {x \in Range(q) : x.pid # p}
<1>1. CASE Listed(q, p)
  <2>1. EntryOf(q, p) \in 1 .. Len(q) /\ q[EntryOf(q, p)].pid = p
    BY <1>1, EntryFound
  <2>2. /\ InOrder(RemoveAt(q, EntryOf(q, p)))
        /\ Range(RemoveAt(q, EntryOf(q, p))) = {x \in Range(q) : x.pid # q[EntryOf(q, p)].pid}
    BY <2>1, RemoveInOrder
  <2> QED BY <1>1, <2>1, <2>2 DEF RemovePid
<1>2. CASE ~Listed(q, p)
  <2>1. \A x \in Range(q) : x.pid # p
    BY <1>2, ListedRange
  <2>2. Range(q) = {x \in Range(q) : x.pid # p}
    BY <2>1
  <2> QED BY <1>2, <2>2 DEF RemovePid
<1> QED BY <1>1, <1>2

(* The entry of p goes to the place of its new priority. *)
LEMMA NotifyInOrder ==
  ASSUME NEW q, InOrder(q), NEW p \in Procs, NEW np \in Prios
  PROVE  /\ InOrder(NotifyPriority(q, p, np))
         /\ ~Listed(q, p) => NotifyPriority(q, p, np) = q
         /\ Listed(q, p) =>
              \E d \in Range(q), e \in Entry :
                /\ d.pid = p /\ e.pid = p /\ e.message = d.message /\ e.priority = np
                /\ Range(NotifyPriority(q, p, np)) = {x \in Range(q) : x.pid # p} \cup {e}
<1>1. CASE Listed(q, p)
  <2> DEFINE d == q[EntryOf(q, p)]
             e == [d EXCEPT !.priority = np]
             r == RemovePid(q, p)
  <2>1. EntryOf(q, p) \in 1 .. Len(q) /\ d.pid = p
    BY <1>1, EntryFound
  <2>2. d \in Range(q) /\ d \in Entry
    BY <2>1, RangeMember DEF InOrder
  <2>3. e \in Entry /\ e.pid = p /\ e.message = d.message /\ e.priority = np
    BY <2>1, <2>2 DEF Entry
  <2>4. InOrder(r) /\ Range(r) = {x \in Range(q) : x.pid # p}
    BY RemovePidInOrder
  <2>5. NotifyPriority(q, p, np) = AddOnPriority(r, e)
    BY <1>1 DEF NotifyPriority
  <2> HIDE DEF d, e, r
  <2>6. InOrder(AddOnPriority(r, e)) /\ Range(AddOnPriority(r, e)) = Range(r) \cup {e}
    BY <2>3, <2>4, AddInOrder
  <2> QED BY <1>1, <2>1, <2>2, <2>3, <2>4, <2>5, <2>6
<1>2. CASE ~Listed(q, p)
  BY <1>2 DEF NotifyPriority
<1> QED BY <1>1, <1>2
-------------------------------------------------------------------------------
(***************************************************************************)
(* The inductive invariant: the parts of WaitersExact in terms of the sets *)
(* of entries, and the type invariant.  TypeOK alone is not inductive: the *)
(* message that preceive moves from the first entry into the buffer is one *)
(* only because those who wait at a full buffer are senders.               *)
(***************************************************************************)
ListsInOrder  == \A f \in Fids : InOrder(locked[f])
BlockedListed == \A p \in Procs :
                   proc[p] = "blocked" <=> \E f \in Fids : \E x \in Range(locked[f]) : x.pid = p
OneList       == \A f, g \in Fids : \A x \in Range(locked[f]), y \in Range(locked[g]) :
                   x.pid = y.pid => f = g
EntriesTrue   == \A f \in Fids : \A x \in Range(locked[f]) :
                   /\ call[x.pid] = (IF x.message = "none" THEN "preceive" ELSE "psend")
                   /\ x.priority = prio[x.pid]
BufferTells   == \A f \in Fids :
                   /\ Len(items[f]) <= size[f]
                   /\ Range(locked[f]) # {} =>
                        /\ Created(f)
                        /\ \/ items[f] = <<>> /\ \A x \in Range(locked[f]) : x.message = "none"
                           \/ /\ Len(items[f]) = size[f]
                              /\ \A x \in Range(locked[f]) : x.message # "none"

QueueInv == /\ TypeOK /\ ListsInOrder /\ BlockedListed /\ OneList
            /\ EntriesTrue /\ BufferTells /\ FidsAccounted

LEMMA WaitersExactFromInv ==
  ASSUME QueueInv
  PROVE  WaitersExact
<1>1. \A f \in Fids : /\ InOrder(locked[f]) /\ locked[f] \in Seq(Entry)
                      /\ \A i \in DOMAIN locked[f] : locked[f][i] \in Range(locked[f])
                      /\ locked[f] # <<>> => Range(locked[f]) # {}
  <2> SUFFICES ASSUME NEW f \in Fids
               PROVE  /\ InOrder(locked[f]) /\ locked[f] \in Seq(Entry)
                      /\ \A i \in DOMAIN locked[f] : locked[f][i] \in Range(locked[f])
                      /\ locked[f] # <<>> => Range(locked[f]) # {}
    OBVIOUS
  <2>1. InOrder(locked[f]) /\ locked[f] \in Seq(Entry)
    BY DEF QueueInv, ListsInOrder, InOrder
  <2>2. \A i \in DOMAIN locked[f] : locked[f][i] \in Range(locked[f])
    BY DEF Range
  <2>3. locked[f] # <<>> => Range(locked[f]) # {}
    BY <2>1, RangeMember
  <2> QED BY <2>1, <2>2, <2>3
<1>2. WaitersListed
  <2>1. \A p \in Procs : proc[p] = "blocked" <=> \E f \in Fids : Listed(locked[f], p)
    BY <1>1, ListedRange DEF QueueInv, BlockedListed
  <2>2. ASSUME NEW f \in Fids, NEW g \in Fids, NEW i \in DOMAIN locked[f], NEW j \in DOMAIN locked[g],
               locked[f][i].pid = locked[g][j].pid
        PROVE  f = g /\ i = j
    <3>1. f = g
      BY <1>1, <2>2 DEF QueueInv, OneList
    <3> QED BY <1>1, <2>2, <3>1 DEF InOrder, Once
  <2>3. ASSUME NEW f \in Fids, NEW i \in DOMAIN locked[f]
        PROVE  call[locked[f][i].pid] = IF locked[f][i].message = "none" THEN "preceive" ELSE "psend"
    BY <1>1 DEF QueueInv, EntriesTrue
  <2> QED BY <2>1, <2>2, <2>3 DEF WaitersListed
<1>3. NobodyWaitsInVain
  BY <1>1 DEF QueueInv, BufferTells, NobodyWaitsInVain
<1>4. WaitersByPriority
  BY <1>1 DEF QueueInv, EntriesTrue, InOrder, Falling, WaitersByPriority
<1> QED BY <1>2, <1>3, <1>4 DEF WaitersExact, QueueInv

LEMMA QueueInvInit ==
  ASSUME Init
  PROVE  QueueInv
<1>1. \A f \in Fids : locked[f] = <<>> /\ items[f] = <<>> /\ size[f] = 0
  BY DEF Init
<1>2. \A f \in Fids : InOrder(locked[f]) /\ Range(locked[f]) = {} /\ Len(items[f]) = 0
  BY <1>1, EmptyInOrder
<1>3. \A i \in 1 .. NbQueue : i - 1 \in Fids
  BY DEF Fids
<1>4. fids \in Seq(Fids) /\ DOMAIN fids = 1 .. NbQueue /\ \A i \in 1 .. NbQueue : fids[i] = i - 1
  <2>1. fids \in [1 .. NbQueue -> Fids]
    BY <1>3 DEF Init
  <2> QED BY <2>1, SeqDef DEF Init
<1>5. FidsAccounted
  <2>1. \A i, j \in DOMAIN fids : fids[i] = fids[j] => i = j
    BY <1>4
  <2>2. \A f \in Fids : f + 1 \in DOMAIN fids /\ fids[f + 1] = f
    BY <1>4 DEF Fids
  <2>3. \A f \in Fids : ~Created(f)
    BY <1>1 DEF Created
  <2> QED BY <2>1, <2>2, <2>3 DEF FidsAccounted
<1>6. TypeOK
  <2>1. size \in [Fids -> 0 .. MaxSize]
    BY DEF Init
  <2>2. items \in [Fids -> Seq(Messages)] /\ locked \in [Fids -> Seq(Entry)]
    BY EmptySeq DEF Init
  <2>3. prio \in [Procs -> Prios]
    BY DEF Init, Prios
  <2> QED BY <1>4, <2>1, <2>2, <2>3 DEF Init, TypeOK
<1>7. BufferTells
  BY <1>1, <1>2 DEF BufferTells
<1>8. ListsInOrder /\ OneList /\ EntriesTrue
  BY <1>2 DEF ListsInOrder, OneList, EntriesTrue
<1>9. BlockedListed
  BY <1>2 DEF BlockedListed, Init
<1> QED BY <1>5, <1>6, <1>7, <1>8, <1>9 DEF QueueInv
-------------------------------------------------------------------------------
(* The list of one queue is replaced by q. *)
LEMMA OneListChanges ==
  ASSUME QueueInv, NEW f \in Fids, NEW q, InOrder(q), locked' = [locked EXCEPT ![f] = q]
  PROVE  /\ locked' \in [Fids -> Seq(Entry)]
         /\ \A g \in Fids : InOrder(locked'[g])
         /\ Range(locked'[f]) = Range(q)
         /\ \A g \in Fids : g # f => Range(locked'[g]) = Range(locked[g])
<1>1. locked \in [Fids -> Seq(Entry)] /\ \A g \in Fids : InOrder(locked[g])
  BY DEF QueueInv, TypeOK, ListsInOrder
<1>2. q \in Seq(Entry)
  BY DEF InOrder
<1>3. \A g \in Fids : locked'[g] = IF g = f THEN q ELSE locked[g]
  BY <1>1
<1> QED BY <1>1, <1>2, <1>3

(* What an entry says of its process, and who has one. *)
LEMMA EntryFacts ==
  ASSUME QueueInv, NEW f \in Fids, NEW x \in Range(locked[f])
  PROVE  /\ x \in Entry /\ x.pid \in Procs
         /\ proc[x.pid] = "blocked"
         /\ call[x.pid] = (IF x.message = "none" THEN "preceive" ELSE "psend")
         /\ x.priority = prio[x.pid]
<1>1. locked[f] \in Seq(Entry)
  BY DEF QueueInv, TypeOK
<1>2. x \in Entry /\ x.pid \in Procs
  BY <1>1, RangeMember, EntryType
<1> QED BY <1>2 DEF QueueInv, BlockedListed, EntriesTrue

\* e is the entry that a step gives p in the list of f.
EntryAdded(f, p, m, e) == /\ e.pid = p /\ e.message = m /\ e.priority = prio[p]
                          /\ Range(locked'[f]) = Range(locked[f]) \cup {e}

(* A running process, which has no entry, gets one. *)
LEMMA BlockLists ==
  ASSUME QueueInv, NEW f \in Fids, NEW p \in Procs, NEW kind, NEW m \in Messages \cup {"none"},
         Running(p), Block(f, p, kind, m)
  PROVE  /\ \A g \in Fids : \A x \in Range(locked[g]) : x.pid # p
         /\ locked' \in [Fids -> Seq(Entry)]
         /\ \A g \in Fids : InOrder(locked'[g])
         /\ \A g \in Fids : g # f => Range(locked'[g]) = Range(locked[g])
         /\ \E e \in Entry : EntryAdded(f, p, m, e)
<1> DEFINE e == [pid |-> p, message |-> m, priority |-> prio[p]]
           q == AddOnPriority(locked[f], e)
<1>1. /\ e \in Entry /\ e.pid = p /\ e.message = m /\ e.priority = prio[p]
  BY DEF QueueInv, TypeOK, Entry
<1>2. InOrder(locked[f])
  BY DEF QueueInv, ListsInOrder
<1>3. \A g \in Fids : \A x \in Range(locked[g]) : x.pid # p
  <2>1. proc[p] # "blocked"
    BY DEF Running
  <2> QED BY <2>1, EntryFacts
<1>4. locked' = [locked EXCEPT ![f] = q]
  BY DEF Block
<1> HIDE DEF e
<1>5. InOrder(q) /\ Range(q) = Range(locked[f]) \cup {e}
  BY <1>1, <1>2, <1>3, AddInOrder
<1> HIDE DEF q
<1>6. /\ locked' \in [Fids -> Seq(Entry)]
      /\ \A g \in Fids : InOrder(locked'[g])
      /\ Range(locked'[f]) = Range(locked[f]) \cup {e}
      /\ \A g \in Fids : g # f => Range(locked'[g]) = Range(locked[g])
  BY <1>4, <1>5, OneListChanges
<1>7. EntryAdded(f, p, m, e)
  BY <1>1, <1>6 DEF EntryAdded
<1> QED BY <1>1, <1>3, <1>6, <1>7

(* A running process is blocked at a queue where it may wait. *)
LEMMA BlockInv ==
  ASSUME QueueInv, NEW f \in Fids, NEW p \in Procs, NEW kind, NEW m,
         Created(f), Running(p),
         Block(f, p, kind, m), UNCHANGED <<items, dest>>,
         \/ kind = "preceive" /\ m = "none" /\ items[f] = <<>>
         \/ kind = "psend" /\ m \in Messages /\ Len(items[f]) = size[f]
  PROVE  QueueInv'
<1>0. m \in Messages \cup {"none"}
  OBVIOUS
<1>3. \A g \in Fids : \A x \in Range(locked[g]) : x.pid # p
  BY <1>0, BlockLists
<1>e. PICK e \in Entry : EntryAdded(f, p, m, e)
  BY <1>0, BlockLists
<1>1. /\ e.pid = p /\ e.message = m /\ e.priority = prio[p]
      /\ Range(locked'[f]) = Range(locked[f]) \cup {e}
  BY <1>e DEF EntryAdded
<1>6. /\ locked' \in [Fids -> Seq(Entry)]
      /\ \A g \in Fids : InOrder(locked'[g])
      /\ Range(locked'[f]) = Range(locked[f]) \cup {e}
      /\ \A g \in Fids : g # f => Range(locked'[g]) = Range(locked[g])
  BY <1>0, <1>1, BlockLists
<1>7. \A g \in Fids : \A x \in Range(locked'[g]) : x \in Range(locked[g]) \/ (g = f /\ x = e)
  BY <1>6
<1>8. /\ \A r \in Procs : proc'[r] = IF r = p THEN "blocked" ELSE proc[r]
      /\ \A r \in Procs : call'[r] = IF r = p THEN kind ELSE call[r]
      /\ size' = size /\ fids' = fids /\ prio' = prio /\ released' = released
      /\ items' = items /\ dest' = dest
  BY DEF Block, QueueInv, TypeOK
<1>9. m = "none" <=> kind = "preceive"
  <2>1. \A x \in Messages : x # "none"
    OBVIOUS
  <2> QED BY <2>1
<1>10. TypeOK'
  <2>1. proc' \in [Procs -> {"ready", "blocked", "dead"}]
    BY DEF Block, QueueInv, TypeOK
  <2>2. call' \in [Procs -> {"none", "psend", "preceive"}]
    BY DEF Block, QueueInv, TypeOK
  <2> QED BY <1>6, <1>8, <2>1, <2>2 DEF QueueInv, TypeOK
<1>11. BlockedListed'
  <2>1. ASSUME NEW r \in Procs, proc'[r] = "blocked"
        PROVE  \E g \in Fids : \E x \in Range(locked'[g]) : x.pid = r
    <3>1. CASE r = p
      BY <1>1, <1>6, <3>1
    <3>2. CASE r # p
      <4>1. PICK g \in Fids : \E x \in Range(locked[g]) : x.pid = r
        BY <1>8, <2>1, <3>2 DEF QueueInv, BlockedListed
      <4> QED BY <1>6, <4>1
    <3> QED BY <3>1, <3>2
  <2>2. ASSUME NEW r \in Procs, NEW g \in Fids, NEW x \in Range(locked'[g]), x.pid = r
        PROVE  proc'[r] = "blocked"
    BY <1>1, <1>7, <1>8, <2>2, EntryFacts
  <2> QED BY <2>1, <2>2 DEF BlockedListed
<1>12. OneList'
  BY <1>1, <1>3, <1>7 DEF QueueInv, OneList
<1>13. EntriesTrue'
  <2>1. ASSUME NEW g \in Fids, NEW x \in Range(locked'[g])
        PROVE  /\ call'[x.pid] = (IF x.message = "none" THEN "preceive" ELSE "psend")
               /\ x.priority = prio'[x.pid]
    <3>1. CASE x \in Range(locked[g])
      BY <1>3, <1>8, <3>1, EntryFacts
    <3>2. CASE g = f /\ x = e
      BY <1>1, <1>8, <1>9, <3>2
    <3> QED BY <1>7, <3>1, <3>2
  <2> QED BY <2>1 DEF EntriesTrue
<1>14. BufferTells'
  <2>1. \A g \in Fids : g # f => Range(locked'[g]) = Range(locked[g])
    BY <1>6
  <2>2. size[f] # 0 /\ (items[f] = <<>> => Len(items[f]) = 0)
    BY EmptySeq DEF Created
  <2>3. \/ items[f] = <<>> /\ \A x \in Range(locked'[f]) : x.message = "none"
        \/ Len(items[f]) = size[f] /\ \A x \in Range(locked'[f]) : x.message # "none"
    <3>1. Range(locked[f]) = {} \/ (items[f] = <<>> /\ \A x \in Range(locked[f]) : x.message = "none")
             \/ (Len(items[f]) = size[f] /\ \A x \in Range(locked[f]) : x.message # "none")
      BY DEF QueueInv, BufferTells
    <3> QED BY <1>1, <1>6, <1>9, <2>2, <3>1
  <2> QED BY <1>8, <2>1, <2>3 DEF QueueInv, BufferTells, Created
<1>15. ListsInOrder'
  BY <1>6 DEF ListsInOrder
<1>16. FidsAccounted'
  BY <1>8 DEF QueueInv, FidsAccounted, Created
<1> QED BY <1>10, <1>11, <1>12, <1>13, <1>14, <1>15, <1>16 DEF QueueInv

(* Lists in which some entries are missing, of processes that are no longer *)
(* blocked.                                                                 *)
LEMMA FewerInv ==
  ASSUME QueueInv, NEW out \in SUBSET Procs,
         TypeOK', FidsAccounted', ListsInOrder', prio' = prio,
         \A g \in Fids : Range(locked'[g]) = {x \in Range(locked[g]) : x.pid \notin out},
         \A r \in Procs : /\ r \in out => proc'[r] # "blocked"
                          /\ r \notin out => /\ proc'[r] = "blocked" <=> proc[r] = "blocked"
                                             /\ proc[r] = "blocked" => call'[r] = call[r],
         \A g \in Fids : /\ Len(items'[g]) <= size'[g]
                         /\ Range(locked'[g]) # {} =>
                              /\ size'[g] = size[g] /\ Len(items'[g]) = Len(items[g])
                              /\ items[g] = <<>> => items'[g] = <<>>
  PROVE  QueueInv'
<1>1. BlockedListed'
  <2>1. ASSUME NEW r \in Procs, proc'[r] = "blocked"
        PROVE  \E g \in Fids : \E x \in Range(locked'[g]) : x.pid = r
    <3>1. r \notin out /\ proc[r] = "blocked"
      BY <2>1
    <3>2. PICK g \in Fids : \E x \in Range(locked[g]) : x.pid = r
      BY <3>1 DEF QueueInv, BlockedListed
    <3> QED BY <3>1, <3>2
  <2>2. ASSUME NEW r \in Procs, NEW g \in Fids, NEW x \in Range(locked'[g]), x.pid = r
        PROVE  proc'[r] = "blocked"
    <3>1. x \in Range(locked[g]) /\ r \notin out
      BY <2>2
    <3> QED BY <2>2, <3>1, EntryFacts
  <2> QED BY <2>1, <2>2 DEF BlockedListed
<1>2. OneList'
  BY DEF QueueInv, OneList
<1>3. EntriesTrue'
  <2>1. ASSUME NEW g \in Fids, NEW x \in Range(locked'[g])
        PROVE  /\ call'[x.pid] = (IF x.message = "none" THEN "preceive" ELSE "psend")
               /\ x.priority = prio'[x.pid]
    <3>1. x \in Range(locked[g]) /\ x.pid \notin out
      OBVIOUS
    <3> QED BY <3>1, EntryFacts
  <2> QED BY <2>1 DEF EntriesTrue
<1>4. BufferTells'
  <2>1. ASSUME NEW g \in Fids, Range(locked'[g]) # {}
        PROVE  /\ size'[g] > 0
               /\ \/ items'[g] = <<>> /\ \A x \in Range(locked'[g]) : x.message = "none"
                  \/ Len(items'[g]) = size'[g] /\ \A x \in Range(locked'[g]) : x.message # "none"
    <3>1. Range(locked[g]) # {} /\ size'[g] = size[g] /\ Len(items'[g]) = Len(items[g])
          /\ (items[g] = <<>> => items'[g] = <<>>)
      BY <2>1
    <3>2. /\ size[g] > 0
          /\ \/ items[g] = <<>> /\ \A x \in Range(locked[g]) : x.message = "none"
             \/ Len(items[g]) = size[g] /\ \A x \in Range(locked[g]) : x.message # "none"
      BY <3>1 DEF QueueInv, BufferTells, Created
    <3> QED BY <3>1, <3>2
  <2> QED BY <2>1 DEF BufferTells, Created
<1> QED BY <1>1, <1>2, <1>3, <1>4 DEF QueueInv

(* The first process of a list is woken and loses its entry. *)
LEMMA WakeLists ==
  ASSUME QueueInv, NEW f \in Fids, locked[f] # <<>>, WakeFirst(f)
  PROVE  /\ Head(locked[f]) \in Range(locked[f])
         /\ Head(locked[f]).pid \in Procs
         /\ locked' \in [Fids -> Seq(Entry)]
         /\ \A g \in Fids : InOrder(locked'[g])
         /\ \A g \in Fids : Range(locked'[g]) = {x \in Range(locked[g]) : x.pid # Head(locked[f]).pid}
<1> DEFINE h == Head(locked[f])
<1>1. InOrder(locked[f])
  BY DEF QueueInv, ListsInOrder
<1>2. /\ h \in Range(locked[f]) /\ h \in Entry /\ InOrder(Tail(locked[f]))
      /\ Range(Tail(locked[f])) = {x \in Range(locked[f]) : x.pid # h.pid}
  BY <1>1, TailInOrder
<1>3. h.pid \in Procs
  BY <1>2, EntryFacts
<1> HIDE DEF h
<1>4. locked' = [locked EXCEPT ![f] = Tail(locked[f])]
  BY DEF WakeFirst
<1>5. /\ locked' \in [Fids -> Seq(Entry)]
      /\ \A g \in Fids : InOrder(locked'[g])
      /\ Range(locked'[f]) = {x \in Range(locked[f]) : x.pid # h.pid}
      /\ \A g \in Fids : g # f => Range(locked'[g]) = Range(locked[g])
  BY <1>2, <1>4, OneListChanges
<1>6. \A g \in Fids : Range(locked'[g]) = {x \in Range(locked[g]) : x.pid # h.pid}
  <2>1. \A g \in Fids : g # f => \A x \in Range(locked[g]) : x.pid # h.pid
    BY <1>2 DEF QueueInv, OneList
  <2> QED BY <1>5, <2>1
<1> QED BY <1>2, <1>3, <1>5, <1>6 DEF h

(* The first process of a list is woken, and the buffer keeps its length. *)
LEMMA WakeInv ==
  ASSUME QueueInv, NEW f \in Fids, locked[f] # <<>>, WakeFirst(f),
         NEW its \in Seq(Messages), Len(its) = Len(items[f]),
         items' = [items EXCEPT ![f] = its],
         dest' \in [Procs -> Messages \cup {"none", "reset"}]
  PROVE  QueueInv'
<1> DEFINE h == Head(locked[f])
<1>4. /\ proc' = [proc EXCEPT ![h.pid] = "ready"]
      /\ size' = size /\ fids' = fids /\ prio' = prio /\ call' = call /\ released' = released
  BY DEF WakeFirst, h
<1>5. /\ h.pid \in Procs
      /\ locked' \in [Fids -> Seq(Entry)]
      /\ \A g \in Fids : InOrder(locked'[g])
      /\ \A g \in Fids : Range(locked'[g]) = {x \in Range(locked[g]) : x.pid # h.pid}
  BY WakeLists
<1> HIDE DEF h
<1>7. \A r \in Procs : proc'[r] = IF r = h.pid THEN "ready" ELSE proc[r]
  BY <1>4 DEF QueueInv, TypeOK
<1>8. TypeOK'
  <2>1. proc' \in [Procs -> {"ready", "blocked", "dead"}]
    BY <1>4 DEF QueueInv, TypeOK
  <2>2. items' \in [Fids -> Seq(Messages)]
    BY DEF QueueInv, TypeOK
  <2> QED BY <1>4, <1>5, <2>1, <2>2 DEF QueueInv, TypeOK
<1>9. FidsAccounted' /\ ListsInOrder'
  BY <1>4, <1>5 DEF QueueInv, FidsAccounted, Created, ListsInOrder
<1>10. ASSUME NEW g \in Fids
       PROVE  /\ Len(items'[g]) = Len(items[g]) /\ Len(items'[g]) <= size'[g]
              /\ items[g] = <<>> => items'[g] = <<>>
  <2>1. items'[g] = IF g = f THEN its ELSE items[g]
    BY DEF QueueInv, TypeOK
  <2>2. Len(items[g]) <= size[g]
    BY DEF QueueInv, BufferTells
  <2>3. CASE g = f /\ items[g] = <<>>
    <3>1. Len(its) = 0
      BY <2>3, EmptySeq
    <3>2. its = <<>>
      BY <3>1, EmptySeq
    <3> QED BY <1>4, <2>1, <2>2, <2>3, <3>2
  <2>4. CASE ~(g = f /\ items[g] = <<>>)
    BY <1>4, <2>1, <2>2, <2>4
  <2> QED BY <2>3, <2>4
<1> DEFINE out == {h.pid}
<1>11. out \in SUBSET Procs
  BY <1>5
<1>12. \A g \in Fids : Range(locked'[g]) = {x \in Range(locked[g]) : x.pid \notin out}
  BY <1>5
<1>13. \A r \in Procs : /\ r \in out => proc'[r] # "blocked"
                        /\ r \notin out => /\ proc'[r] = "blocked" <=> proc[r] = "blocked"
                                           /\ proc[r] = "blocked" => call'[r] = call[r]
  BY <1>4, <1>7
<1>14. \A g \in Fids : /\ Len(items'[g]) <= size'[g]
                       /\ Range(locked'[g]) # {} =>
                              /\ size'[g] = size[g] /\ Len(items'[g]) = Len(items[g])
                              /\ items[g] = <<>> => items'[g] = <<>>
  BY <1>4, <1>10
<1> HIDE DEF out
<1> QED BY <1>4, <1>8, <1>9, <1>11, <1>12, <1>13, <1>14, FewerInv

(* The buffer of a queue where nobody waits changes. *)
LEMMA BufferInv ==
  ASSUME QueueInv, NEW f \in Fids, locked[f] = <<>>,
         NEW its \in Seq(Messages), Len(its) <= size[f],
         items' = [items EXCEPT ![f] = its],
         UNCHANGED <<size, locked, fids, procs, released>>
  PROVE  QueueInv'
<1>1. \A g \in Fids : items'[g] = IF g = f THEN its ELSE items[g]
  BY DEF QueueInv, TypeOK
<1>2. Range(locked[f]) = {}
  BY RangeEmpty
<1>3. TypeOK'
  BY DEF QueueInv, TypeOK, procs
<1>4. BufferTells'
  BY <1>1, <1>2 DEF QueueInv, BufferTells, Created
<1>5. FidsAccounted' /\ ListsInOrder' /\ BlockedListed' /\ OneList' /\ EntriesTrue'
  BY DEF QueueInv, FidsAccounted, Created, ListsInOrder, BlockedListed, OneList, EntriesTrue, procs
<1> QED BY <1>3, <1>4, <1>5 DEF QueueInv

(* Who waits at f, by the state of its buffer. *)
LEMMA WhoWaits ==
  ASSUME QueueInv, NEW f \in Fids, Created(f)
  PROVE  /\ items[f] \in Seq(Messages) /\ Len(items[f]) \in Nat /\ size[f] \in Nat \ {0}
         /\ items[f] = <<>> <=> Len(items[f]) = 0
         /\ locked[f] # <<>> => items[f] = <<>> \/ Len(items[f]) = size[f]
         /\ locked[f] # <<>> /\ Len(items[f]) = size[f] => Head(locked[f]).message \in Messages
         /\ locked[f] # <<>> => Head(locked[f]).pid \in Procs
<1>1. items[f] \in Seq(Messages) /\ size[f] \in Nat \ {0} /\ locked[f] \in Seq(Entry)
  BY DEF QueueInv, TypeOK, Created
<1>2. Len(items[f]) \in Nat /\ (items[f] = <<>> <=> Len(items[f]) = 0)
  BY <1>1, EmptySeq, LenProperties
<1>3. ASSUME locked[f] # <<>>
      PROVE  /\ items[f] = <<>> \/ Len(items[f]) = size[f]
             /\ Len(items[f]) = size[f] => Head(locked[f]).message \in Messages
             /\ Head(locked[f]).pid \in Procs
  <2>1. Head(locked[f]) \in Range(locked[f]) /\ Head(locked[f]) \in Entry
    BY <1>3, TailInOrder DEF QueueInv, ListsInOrder
  <2>2. \/ items[f] = <<>> /\ \A x \in Range(locked[f]) : x.message = "none"
        \/ Len(items[f]) = size[f] /\ \A x \in Range(locked[f]) : x.message # "none"
    BY <2>1 DEF QueueInv, BufferTells
  <2>3. /\ Head(locked[f]).pid \in Procs
        /\ Head(locked[f]).message = "none" \/ Head(locked[f]).message \in Messages
    BY <2>1, EntryType
  <2>4. ASSUME Len(items[f]) = size[f] PROVE Head(locked[f]).message # "none"
    BY <1>1, <1>2, <2>1, <2>2, <2>4
  <2> QED BY <2>2, <2>3, <2>4
<1> QED BY <1>1, <1>2, <1>3

LEMMA ExceptSame ==
  ASSUME NEW S, NEW T, NEW fn \in [S -> T], NEW x \in S
  PROVE  fn = [fn EXCEPT ![x] = fn[x]]
OBVIOUS

LEMMA PsendInv ==
  ASSUME QueueInv, NEW f \in Fids, NEW p \in Procs, NEW m \in Messages, Psend(f, p, m)
  PROVE  QueueInv'
<1>1. Created(f) /\ Running(p)
  BY DEF Psend
<1>2. /\ items[f] \in Seq(Messages) /\ Len(items[f]) \in Nat /\ size[f] \in Nat \ {0}
      /\ items[f] = <<>> <=> Len(items[f]) = 0
      /\ locked[f] # <<>> => items[f] = <<>> \/ Len(items[f]) = size[f]
      /\ locked[f] # <<>> => Head(locked[f]).pid \in Procs
  BY <1>1, WhoWaits
<1>3. items \in [Fids -> Seq(Messages)] /\ dest \in [Procs -> Messages \cup {"none", "reset"}]
  BY DEF QueueInv, TypeOK
<1>4. CASE /\ items[f] = <<>> /\ locked[f] # <<>>
           /\ WakeFirst(f)
           /\ dest' = [dest EXCEPT ![Head(locked[f]).pid] = m]
           /\ UNCHANGED items
  <2>1. items' = [items EXCEPT ![f] = items[f]]
    BY <1>3, <1>4, ExceptSame
  <2>2. dest' \in [Procs -> Messages \cup {"none", "reset"}]
    BY <1>2, <1>3, <1>4
  <2> QED BY <1>2, <1>4, <2>1, <2>2, WakeInv
<1>5. CASE /\ Len(items[f]) = size[f]
           /\ Block(f, p, "psend", m)
           /\ UNCHANGED <<items, dest>>
  BY <1>1, <1>5, BlockInv
<1>6. CASE /\ Len(items[f]) < size[f]
           /\ items[f] = <<>> => locked[f] = <<>>
           /\ items' = [items EXCEPT ![f] = Append(@, m)]
           /\ UNCHANGED <<size, locked, fids, procs, released>>
  <2>1. locked[f] = <<>>
    BY <1>2, <1>6
  <2>2. Append(items[f], m) \in Seq(Messages) /\ Len(Append(items[f], m)) = Len(items[f]) + 1
    BY <1>2, AppendProperties
  <2>3. Len(Append(items[f], m)) <= size[f]
    BY <1>2, <1>6, <2>2
  <2>4. items' = [items EXCEPT ![f] = Append(items[f], m)]
    BY <1>6
  <2> QED BY <1>6, <2>1, <2>2, <2>3, <2>4, BufferInv
<1> QED BY <1>4, <1>5, <1>6 DEF Psend

LEMMA PreceiveInv ==
  ASSUME QueueInv, NEW f \in Fids, NEW p \in Procs, Preceive(f, p)
  PROVE  QueueInv'
<1>1. Created(f) /\ Running(p)
  BY DEF Preceive
<1>2. /\ items[f] \in Seq(Messages) /\ Len(items[f]) \in Nat /\ size[f] \in Nat \ {0}
      /\ items[f] = <<>> <=> Len(items[f]) = 0
      /\ locked[f] # <<>> => items[f] = <<>> \/ Len(items[f]) = size[f]
      /\ locked[f] # <<>> /\ Len(items[f]) = size[f] => Head(locked[f]).message \in Messages
  BY <1>1, WhoWaits
<1>3. items \in [Fids -> Seq(Messages)] /\ dest \in [Procs -> Messages \cup {"none", "reset"}]
  BY DEF QueueInv, TypeOK
<1>4. ASSUME items[f] # <<>>
      PROVE  Tail(items[f]) \in Seq(Messages) /\ Len(Tail(items[f])) = Len(items[f]) - 1
  BY <1>2, <1>4, HeadTailProperties
<1>5. CASE /\ Len(items[f]) = size[f] /\ locked[f] # <<>>
           /\ items' = [items EXCEPT ![f] = Append(Tail(@), Head(locked[f]).message)]
           /\ WakeFirst(f)
           /\ UNCHANGED dest
  <2> DEFINE t == Tail(items[f])
             m == Head(locked[f]).message
  <2>1. items[f] # <<>> /\ m \in Messages
    BY <1>2, <1>5
  <2>2. t \in Seq(Messages) /\ Len(t) = Len(items[f]) - 1
    BY <1>4, <2>1
  <2>3. items' = [items EXCEPT ![f] = Append(t, m)]
    BY <1>5
  <2> HIDE DEF t, m
  <2>4. Append(t, m) \in Seq(Messages) /\ Len(Append(t, m)) = Len(t) + 1
    BY <2>1, <2>2, AppendProperties
  <2>5. Len(Append(t, m)) = Len(items[f])
    BY <1>2, <2>2, <2>4
  <2> QED BY <1>3, <1>5, <2>3, <2>4, <2>5, WakeInv
<1>6. CASE /\ items[f] = <<>>
           /\ Block(f, p, "preceive", "none")
           /\ UNCHANGED <<items, dest>>
  BY <1>1, <1>6, BlockInv
<1>7. CASE /\ items[f] # <<>>
           /\ Len(items[f]) = size[f] => locked[f] = <<>>
           /\ items' = [items EXCEPT ![f] = Tail(@)]
           /\ UNCHANGED <<size, locked, fids, procs, released>>
  <2>1. locked[f] = <<>>
    BY <1>2, <1>7
  <2>2. Tail(items[f]) \in Seq(Messages) /\ Len(Tail(items[f])) = Len(items[f]) - 1
    BY <1>4, <1>7
  <2>3. Len(items[f]) <= size[f]
    BY DEF QueueInv, BufferTells
  <2>4. Len(Tail(items[f])) <= size[f]
    BY <1>2, <2>2, <2>3
  <2>5. items' = [items EXCEPT ![f] = Tail(items[f])]
    BY <1>7
  <2> QED BY <1>7, <2>1, <2>2, <2>4, <2>5, BufferInv
<1> QED BY <1>5, <1>6, <1>7 DEF Preceive

LEMMA ResumeInv ==
  ASSUME QueueInv, NEW p \in Procs, Resume(p)
  PROVE  QueueInv'
<1>1. \A f \in Fids : \A x \in Range(locked[f]) : x.pid # p
  BY EntryFacts DEF Resume
<1>2. /\ \A r \in Procs : r # p => call'[r] = call[r]
      /\ size' = size /\ items' = items /\ locked' = locked /\ fids' = fids
      /\ prio' = prio /\ proc' = proc
  BY DEF Resume, table, QueueInv, TypeOK
<1>3. TypeOK'
  BY DEF Resume, table, QueueInv, TypeOK
<1>4. EntriesTrue'
  <2>1. \A f \in Fids : \A x \in Range(locked[f]) : call'[x.pid] = call[x.pid]
    BY <1>1, <1>2, EntryFacts
  <2> QED BY <1>2, <2>1 DEF QueueInv, EntriesTrue
<1>5. FidsAccounted' /\ ListsInOrder' /\ BlockedListed' /\ OneList' /\ BufferTells'
  BY <1>2 DEF QueueInv, FidsAccounted, Created, ListsInOrder, BlockedListed, OneList, BufferTells
<1> QED BY <1>3, <1>4, <1>5 DEF QueueInv

LEMMA StartInv ==
  ASSUME QueueInv, NEW p \in Procs, NEW np \in Prios, Start(p, np)
  PROVE  QueueInv'
<1>1. \A f \in Fids : \A x \in Range(locked[f]) : x.pid # p
  BY EntryFacts DEF Start
<1>2. /\ \A r \in Procs : r # p => prio'[r] = prio[r] /\ proc'[r] = proc[r]
      /\ proc'[p] = "ready" /\ proc[p] = "dead"
      /\ size' = size /\ items' = items /\ locked' = locked /\ fids' = fids /\ call' = call
  BY DEF Start, table, QueueInv, TypeOK
<1>3. TypeOK'
  BY DEF Start, table, QueueInv, TypeOK
<1>4. EntriesTrue'
  <2>1. \A f \in Fids : \A x \in Range(locked[f]) : prio'[x.pid] = prio[x.pid]
    BY <1>1, <1>2, EntryFacts
  <2> QED BY <1>2, <2>1 DEF QueueInv, EntriesTrue
<1>5. BlockedListed'
  <2>1. \A r \in Procs : proc'[r] = "blocked" <=> proc[r] = "blocked"
    BY <1>2
  <2> QED BY <1>2, <2>1 DEF QueueInv, BlockedListed
<1>6. FidsAccounted' /\ ListsInOrder' /\ OneList' /\ BufferTells'
  BY <1>2 DEF QueueInv, FidsAccounted, Created, ListsInOrder, OneList, BufferTells
<1> QED BY <1>3, <1>4, <1>5, <1>6 DEF QueueInv

(* The free fids, as a set: each is free once, and not in use. *)
LEMMA FreeFids ==
  ASSUME QueueInv, fids # <<>>
  PROVE  /\ Head(fids) \in Fids /\ ~Created(Head(fids))
         /\ Tail(fids) \in Seq(Fids) /\ Len(Tail(fids)) \in Nat
         /\ DOMAIN Tail(fids) = 1 .. Len(Tail(fids))
         /\ \A i \in 1 .. Len(Tail(fids)) : Tail(fids)[i] # Head(fids)
         /\ \A i, j \in 1 .. Len(Tail(fids)) : Tail(fids)[i] = Tail(fids)[j] => i = j
         /\ \A f \in Fids : (\A i \in DOMAIN fids : fids[i] # f)
                              <=> f # Head(fids) /\ \A i \in 1 .. Len(Tail(fids)) : Tail(fids)[i] # f
<1>1. /\ fids \in Seq(Fids) /\ Len(fids) \in Nat \ {0} /\ DOMAIN fids = 1 .. Len(fids)
  BY EmptySeq, LenProperties DEF QueueInv, TypeOK
<1>2. /\ Head(fids) = fids[1] /\ 1 \in DOMAIN fids /\ Head(fids) \in Fids
  BY <1>1, RangeTail, HeadTailProperties
<1>3. /\ Tail(fids) \in Seq(Fids) /\ Len(Tail(fids)) = Len(fids) - 1
      /\ \A i \in 1 .. Len(Tail(fids)) : Tail(fids)[i] = fids[i + 1]
  BY <1>1, HeadTailProperties
<1>4. DOMAIN Tail(fids) = 1 .. Len(Tail(fids)) /\ Len(Tail(fids)) \in Nat
  BY <1>3, LenProperties
<1>5. \A i, j \in 1 .. Len(fids) : fids[i] = fids[j] => i = j
  BY <1>1 DEF QueueInv, FidsAccounted
<1> DEFINE t == Tail(fids)
<1> HIDE DEF t
<1>6. \A i \in 1 .. Len(t) : i + 1 \in 1 .. Len(fids) /\ i + 1 # 1 /\ t[i] = fids[i + 1]
  BY <1>1, <1>3 DEF t
<1>7. \A i \in 1 .. Len(t) : t[i] # fids[1]
  BY <1>1, <1>5, <1>6
<1>8. ASSUME NEW i \in 1 .. Len(t), NEW j \in 1 .. Len(t), t[i] = t[j]
      PROVE  i = j
  <2>1. i + 1 = j + 1
    BY <1>5, <1>6, <1>8
  <2> QED BY <2>1
<1>9. \A i \in 1 .. Len(fids) : i = 1 \/ (i - 1 \in 1 .. Len(t) /\ t[i - 1] = fids[i])
  BY <1>1, <1>3 DEF t
<1>10. \A f \in Fids : (\A i \in DOMAIN fids : fids[i] # f)
                         <=> f # fids[1] /\ \A i \in 1 .. Len(t) : t[i] # f
  BY <1>1, <1>2, <1>6, <1>9
<1>11. ~Created(Head(fids))
  BY <1>2 DEF QueueInv, FidsAccounted
<1> QED BY <1>2, <1>3, <1>4, <1>7, <1>8, <1>10, <1>11 DEF t

LEMMA PcreateInv ==
  ASSUME QueueInv, NEW count \in 1 .. MaxSize, Pcreate(count)
  PROVE  QueueInv'
<1> DEFINE h == Head(fids)
<1>1. fids # <<>>
  BY DEF Pcreate
<1>2. /\ h \in Fids /\ ~Created(h)
      /\ Tail(fids) \in Seq(Fids) /\ DOMAIN Tail(fids) = 1 .. Len(Tail(fids))
      /\ \A i \in 1 .. Len(Tail(fids)) : Tail(fids)[i] # h
      /\ \A i, j \in 1 .. Len(Tail(fids)) : Tail(fids)[i] = Tail(fids)[j] => i = j
      /\ \A f \in Fids : (\A i \in DOMAIN fids : fids[i] # f)
                           <=> f # h /\ \A i \in 1 .. Len(Tail(fids)) : Tail(fids)[i] # f
  BY <1>1, FreeFids
<1>3. /\ size' = [size EXCEPT ![h] = count] /\ fids' = Tail(fids)
      /\ items' = items /\ locked' = locked /\ released' = released
      /\ prio' = prio /\ proc' = proc /\ call' = call /\ dest' = dest
  BY DEF Pcreate, procs
<1> HIDE DEF h
<1>4. \A f \in Fids : size'[f] = IF f = h THEN count ELSE size[f]
  BY <1>3 DEF QueueInv, TypeOK
<1>5. TypeOK'
  <2>1. size' \in [Fids -> 0 .. MaxSize]
    <3>1. count \in 0 .. MaxSize /\ size \in [Fids -> 0 .. MaxSize]
      BY DEF QueueInv, TypeOK
    <3> QED BY <1>3, <3>1
  <2> QED BY <1>2, <1>3, <2>1 DEF QueueInv, TypeOK
<1>6. FidsAccounted'
  <2>1. \A f \in Fids : (size[f] > 0) <=> (f # h /\ \A i \in 1 .. Len(Tail(fids)) : Tail(fids)[i] # f)
    BY <1>2 DEF QueueInv, FidsAccounted, Created
  <2>2. count > 0
    OBVIOUS
  <2>3. \A f \in Fids : size'[f] > 0 <=> \A i \in 1 .. Len(Tail(fids)) : Tail(fids)[i] # f
    BY <1>2, <1>4, <2>1, <2>2
  <2>4. fids' = Tail(fids) /\ DOMAIN fids' = 1 .. Len(Tail(fids))
    BY <1>2, <1>3
  <2>5. \A i, j \in DOMAIN fids' : fids'[i] = fids'[j] => i = j
    BY <1>2, <2>4
  <2>6. \A f \in Fids : size'[f] > 0 <=> \A i \in DOMAIN fids' : fids'[i] # f
    BY <2>3, <2>4
  <2> QED BY <2>5, <2>6 DEF FidsAccounted, Created
<1>7. BufferTells'
  <2>1. Range(locked[h]) = {}
    BY <1>2 DEF QueueInv, BufferTells
  <2>2. Len(items[h]) <= size[h] /\ size[h] = 0 /\ Len(items[h]) \in Nat
    <3>1. items[h] \in Seq(Messages) /\ size[h] \in Nat
      BY <1>2 DEF QueueInv, TypeOK
    <3> QED BY <1>2, <3>1, LenProperties DEF QueueInv, BufferTells, Created
  <2>3. Len(items[h]) <= count
    BY <2>2
  <2>4. \A f \in Fids : f # h => size'[f] = size[f]
    BY <1>4
  <2>5. size'[h] = count
    BY <1>2, <1>4
  <2> QED BY <1>2, <1>3, <2>1, <2>3, <2>4, <2>5 DEF QueueInv, BufferTells, Created
<1>8. ListsInOrder' /\ BlockedListed' /\ OneList' /\ EntriesTrue'
  BY <1>3 DEF QueueInv, ListsInOrder, BlockedListed, OneList, EntriesTrue
<1> QED BY <1>5, <1>6, <1>7, <1>8 DEF QueueInv

(* A fid that is neither in use nor free goes to the end of the free ones. *)
LEMMA AppendFid ==
  ASSUME NEW t \in Seq(Fids), NEW h \in Fids,
         \A i \in 1 .. Len(t) : t[i] # h,
         \A i, j \in 1 .. Len(t) : t[i] = t[j] => i = j
  PROVE  /\ Append(t, h) \in Seq(Fids)
         /\ \A i, j \in DOMAIN Append(t, h) : Append(t, h)[i] = Append(t, h)[j] => i = j
         /\ \A f \in Fids : (\A i \in DOMAIN Append(t, h) : Append(t, h)[i] # f)
                              <=> f # h /\ \A i \in 1 .. Len(t) : t[i] # f
<1> DEFINE a == Append(t, h)
<1>1. /\ a \in Seq(Fids) /\ Len(a) = Len(t) + 1
      /\ \A i \in 1 .. Len(t) : a[i] = t[i]
      /\ a[Len(t) + 1] = h
  BY AppendProperties
<1>2. Len(t) \in Nat
  BY LenProperties
<1>3. DOMAIN a = 1 .. Len(t) + 1
  BY <1>1, LenProperties
<1>4. \A i \in 1 .. Len(t) + 1 : i = Len(t) + 1 \/ i \in 1 .. Len(t)
  BY <1>2
<1>5. Len(t) + 1 \in 1 .. Len(t) + 1 /\ \A i \in 1 .. Len(t) : i \in 1 .. Len(t) + 1
  BY <1>2
<1> HIDE DEF a
<1>6. \A i, j \in DOMAIN a : a[i] = a[j] => i = j
  BY <1>1, <1>3, <1>4
<1>7. \A f \in Fids : (\A i \in DOMAIN a : a[i] # f) <=> f # h /\ \A i \in 1 .. Len(t) : t[i] # f
  BY <1>1, <1>3, <1>4, <1>5
<1> QED BY <1>1, <1>6, <1>7 DEF a

LEMMA PcreateFailsInv ==
  ASSUME QueueInv, PcreateFails
  PROVE  QueueInv'
<1> DEFINE h == Head(fids)
           t == Tail(fids)
<1>1. fids # <<>>
  BY DEF PcreateFails
<1>2. /\ h \in Fids /\ t \in Seq(Fids)
      /\ \A i \in 1 .. Len(t) : t[i] # h
      /\ \A i, j \in 1 .. Len(t) : t[i] = t[j] => i = j
      /\ \A f \in Fids : (\A i \in DOMAIN fids : fids[i] # f)
                           <=> f # h /\ \A i \in 1 .. Len(t) : t[i] # f
  BY <1>1, FreeFids
<1>3. /\ fids' = Append(t, h)
      /\ size' = size /\ items' = items /\ locked' = locked /\ released' = released
      /\ prio' = prio /\ proc' = proc /\ call' = call /\ dest' = dest
  BY DEF PcreateFails, procs
<1> HIDE DEF h, t
<1>4. /\ fids' \in Seq(Fids)
      /\ \A i, j \in DOMAIN fids' : fids'[i] = fids'[j] => i = j
      /\ \A f \in Fids : (\A i \in DOMAIN fids' : fids'[i] # f)
                              <=> f # h /\ \A i \in 1 .. Len(t) : t[i] # f
  BY <1>2, <1>3, AppendFid
<1>5. FidsAccounted'
  <2>1. \A f \in Fids : (\A i \in DOMAIN fids' : fids'[i] # f) <=> (\A i \in DOMAIN fids : fids[i] # f)
    BY <1>2, <1>4
  <2>2. \A f \in Fids : size[f] > 0 <=> \A i \in DOMAIN fids : fids[i] # f
    BY DEF QueueInv, FidsAccounted, Created
  <2> QED BY <1>3, <1>4, <2>1, <2>2 DEF FidsAccounted, Created
<1>6. TypeOK' /\ ListsInOrder' /\ BlockedListed' /\ OneList' /\ EntriesTrue' /\ BufferTells'
  BY <1>3, <1>4 DEF QueueInv, TypeOK, ListsInOrder, BlockedListed, OneList, EntriesTrue,
                    BufferTells, Created
<1> QED BY <1>5, <1>6 DEF QueueInv

(* A queue is emptied: what Preset and Pdelete have in common. *)
LEMMA EmptiedInv ==
  ASSUME QueueInv, NEW f \in Fids, Release(f),
         items' = [items EXCEPT ![f] = <<>>],
         locked' = [locked EXCEPT ![f] = <<>>],
         size' \in [Fids -> 0 .. MaxSize], \A g \in Fids : g # f => size'[g] = size[g],
         fids' \in Seq(Fids), FidsAccounted'
  PROVE  QueueInv'
<1> DEFINE out == {locked[f][i].pid : i \in DOMAIN locked[f]}
<1>1. out = {x.pid : x \in Range(locked[f])}
  BY DEF Range
<1>2. out \in SUBSET Procs
  BY <1>1, EntryFacts
<1>3. /\ proc' = [p \in Procs |-> IF p \in out THEN "ready" ELSE proc[p]]
      /\ dest' = [p \in Procs |-> IF p \in out /\ call[p] = "preceive" THEN "reset" ELSE dest[p]]
      /\ released' = [p \in Procs |-> p \in out \/ released[p]]
      /\ prio' = prio /\ call' = call
  BY DEF Release
<1> HIDE DEF out
<1>4. /\ locked' \in [Fids -> Seq(Entry)]
      /\ \A g \in Fids : InOrder(locked'[g])
      /\ Range(locked'[f]) = {}
      /\ \A g \in Fids : g # f => Range(locked'[g]) = Range(locked[g])
  BY EmptyInOrder, OneListChanges
<1>5. \A g \in Fids : Range(locked'[g]) = {x \in Range(locked[g]) : x.pid \notin out}
  <2>1. \A x \in Range(locked[f]) : x.pid \in out
    BY <1>1
  <2>2. \A g \in Fids : g # f => \A x \in Range(locked[g]) : x.pid \notin out
    BY <1>1 DEF QueueInv, OneList
  <2> QED BY <1>4, <2>1, <2>2
<1>6. TypeOK'
  <2>1. proc' \in [Procs -> {"ready", "blocked", "dead"}]
    BY <1>3 DEF QueueInv, TypeOK
  <2>2. dest' \in [Procs -> Messages \cup {"none", "reset"}]
    BY <1>3 DEF QueueInv, TypeOK
  <2>3. released' \in [Procs -> BOOLEAN]
    BY <1>3 DEF QueueInv, TypeOK
  <2>4. items' \in [Fids -> Seq(Messages)]
    BY EmptySeq DEF QueueInv, TypeOK
  <2> QED BY <1>3, <1>4, <2>1, <2>2, <2>3, <2>4 DEF QueueInv, TypeOK
<1>7. ListsInOrder'
  BY <1>4 DEF ListsInOrder
<1>8. \A r \in Procs : /\ r \in out => proc'[r] # "blocked"
                       /\ r \notin out => /\ proc'[r] = "blocked" <=> proc[r] = "blocked"
                                          /\ proc[r] = "blocked" => call'[r] = call[r]
  BY <1>3
<1>9. \A g \in Fids : /\ Len(items'[g]) <= size'[g]
                      /\ Range(locked'[g]) # {} =>
                           /\ size'[g] = size[g] /\ Len(items'[g]) = Len(items[g])
                           /\ items[g] = <<>> => items'[g] = <<>>
  <2>1. \A g \in Fids : items'[g] = IF g = f THEN <<>> ELSE items[g]
    BY DEF QueueInv, TypeOK
  <2>2. Len(<<>>) = 0 /\ size'[f] \in Nat
    BY EmptySeq
  <2>3. \A g \in Fids : Len(items[g]) <= size[g]
    BY DEF QueueInv, BufferTells
  <2>4. Len(items'[f]) <= size'[f]
    BY <2>1, <2>2
  <2>5. \A g \in Fids : g # f => items'[g] = items[g] /\ size'[g] = size[g]
    BY <2>1
  <2> QED BY <1>4, <2>3, <2>4, <2>5
<1> QED BY <1>2, <1>3, <1>5, <1>6, <1>7, <1>8, <1>9, FewerInv

LEMMA PresetInv ==
  ASSUME QueueInv, NEW f \in Fids, NEW p \in Procs, Preset(f, p)
  PROVE  QueueInv'
<1>1. size' = size /\ fids' = fids
  BY DEF Preset
<1>2. FidsAccounted' /\ size' \in [Fids -> 0 .. MaxSize] /\ fids' \in Seq(Fids)
  BY <1>1 DEF QueueInv, TypeOK, FidsAccounted, Created
<1> QED BY <1>1, <1>2, EmptiedInv DEF Preset

LEMMA PdeleteInv ==
  ASSUME QueueInv, NEW f \in Fids, NEW p \in Procs, Pdelete(f, p)
  PROVE  QueueInv'
<1>1. size' = [size EXCEPT ![f] = 0] /\ fids' = Append(fids, f) /\ Created(f)
  BY DEF Pdelete
<1>2. /\ size' \in [Fids -> 0 .. MaxSize]
      /\ \A g \in Fids : size'[g] = IF g = f THEN 0 ELSE size[g]
  BY <1>1 DEF QueueInv, TypeOK
<1>3. fids \in Seq(Fids) /\ DOMAIN fids = 1 .. Len(fids)
  BY LenProperties DEF QueueInv, TypeOK
<1>4. /\ \A i, j \in DOMAIN fids : fids[i] = fids[j] => i = j
      /\ \A g \in Fids : size[g] > 0 <=> \A i \in DOMAIN fids : fids[i] # g
  BY DEF QueueInv, FidsAccounted, Created
<1>5. \A i \in 1 .. Len(fids) : fids[i] # f
  BY <1>1, <1>3, <1>4 DEF Created
<1>6. /\ fids' \in Seq(Fids)
      /\ \A i, j \in DOMAIN fids' : fids'[i] = fids'[j] => i = j
      /\ \A g \in Fids : (\A i \in DOMAIN fids' : fids'[i] # g)
                              <=> g # f /\ \A i \in 1 .. Len(fids) : fids[i] # g
  <2>1. \A i, j \in 1 .. Len(fids) : fids[i] = fids[j] => i = j
    BY <1>3, <1>4
  <2>2. PICK t \in Seq(Fids) : t = fids
    BY <1>3
  <2>3. /\ Append(t, f) \in Seq(Fids)
        /\ \A i, j \in DOMAIN Append(t, f) : Append(t, f)[i] = Append(t, f)[j] => i = j
        /\ \A g \in Fids : (\A i \in DOMAIN Append(t, f) : Append(t, f)[i] # g)
                               <=> g # f /\ \A i \in 1 .. Len(t) : t[i] # g
    BY <1>5, <2>1, <2>2, AppendFid
  <2> QED BY <1>1, <2>2, <2>3
<1>7. FidsAccounted'
  <2>1. \A g \in Fids : size'[g] > 0 <=> g # f /\ size[g] > 0
    BY <1>2
  <2> QED BY <1>3, <1>4, <1>6, <2>1 DEF FidsAccounted, Created
<1> QED BY <1>2, <1>6, <1>7, EmptiedInv DEF Pdelete

LEMMA KillInv ==
  ASSUME QueueInv, NEW p \in Procs, Kill(p)
  PROVE  QueueInv'
<1>1. /\ locked' = [f \in Fids |-> IF Created(f) THEN RemovePid(locked[f], p) ELSE locked[f]]
      /\ proc' = [proc EXCEPT ![p] = "dead"]
      /\ call' = [call EXCEPT ![p] = "none"]
      /\ dest' = [dest EXCEPT ![p] = "none"]
      /\ size' = size /\ items' = items /\ fids' = fids /\ released' = released /\ prio' = prio
  BY DEF Kill
<1>2. ASSUME NEW f \in Fids
      PROVE  /\ InOrder(locked'[f])
             /\ Range(locked'[f]) = {x \in Range(locked[f]) : x.pid # p}
  <2>1. InOrder(locked[f])
    BY DEF QueueInv, ListsInOrder
  <2>2. CASE Created(f)
    BY <1>1, <2>1, <2>2, RemovePidInOrder
  <2>3. CASE ~Created(f)
    <3>1. Range(locked[f]) = {} /\ locked'[f] = locked[f]
      BY <1>1, <2>3 DEF QueueInv, BufferTells
    <3> QED BY <2>1, <3>1
  <2> QED BY <2>2, <2>3
<1>3. TypeOK'
  <2>1. locked' \in [Fids -> Seq(Entry)]
    <3>1. \A f \in Fids : (IF Created(f) THEN RemovePid(locked[f], p) ELSE locked[f]) \in Seq(Entry)
      BY <1>1, <1>2 DEF InOrder
    <3> QED BY <1>1, <3>1
  <2>2. proc' \in [Procs -> {"ready", "blocked", "dead"}]
    BY <1>1 DEF QueueInv, TypeOK
  <2>3. call' \in [Procs -> {"none", "psend", "preceive"}]
    BY <1>1 DEF QueueInv, TypeOK
  <2>4. dest' \in [Procs -> Messages \cup {"none", "reset"}]
    BY <1>1 DEF QueueInv, TypeOK
  <2> QED BY <1>1, <2>1, <2>2, <2>3, <2>4 DEF QueueInv, TypeOK
<1>4. ListsInOrder' /\ FidsAccounted'
  BY <1>1, <1>2 DEF QueueInv, ListsInOrder, FidsAccounted, Created
<1> DEFINE out == {p}
<1>5. \A f \in Fids : Range(locked'[f]) = {x \in Range(locked[f]) : x.pid \notin out}
  BY <1>2
<1>6. \A r \in Procs : /\ r \in out => proc'[r] # "blocked"
                       /\ r \notin out => /\ proc'[r] = "blocked" <=> proc[r] = "blocked"
                                          /\ proc[r] = "blocked" => call'[r] = call[r]
  BY <1>1 DEF QueueInv, TypeOK
<1>7. \A g \in Fids : /\ Len(items'[g]) <= size'[g]
                      /\ Range(locked'[g]) # {} =>
                           /\ size'[g] = size[g] /\ Len(items'[g]) = Len(items[g])
                           /\ items[g] = <<>> => items'[g] = <<>>
  BY <1>1 DEF QueueInv, BufferTells
<1>8. out \in SUBSET Procs
  OBVIOUS
<1> HIDE DEF out
<1> QED BY <1>1, <1>3, <1>4, <1>5, <1>6, <1>7, <1>8, FewerInv

(* What chprio does to each list. *)
LEMMA ChprioLists ==
  ASSUME QueueInv, NEW p \in Procs, NEW np \in Prios, Chprio(p, np), NEW f \in Fids
  PROVE  /\ InOrder(locked'[f])
         /\ \A x \in Range(locked'[f]) :
              /\ x.pid = p => x.priority = np
              /\ \E d \in Range(locked[f]) :
                   /\ d.pid = x.pid /\ d.message = x.message
                   /\ x.pid # p => d = x
         /\ \A d \in Range(locked[f]) : \E x \in Range(locked'[f]) :
              x.pid = d.pid /\ x.message = d.message
<1> DEFINE R == Range(locked[f])
           S == Range(locked'[f])
<1>1. InOrder(locked[f])
  BY DEF QueueInv, ListsInOrder
<1>2. CASE locked'[f] = locked[f] /\ ~Listed(locked[f], p)
  <2>1. \A x \in R : x.pid # p
    BY <1>1, <1>2, ListedRange
  <2> QED BY <1>1, <1>2, <2>1
<1>3. CASE locked'[f] = NotifyPriority(locked[f], p, np) /\ Listed(locked[f], p)
  <2>1. /\ InOrder(locked'[f])
        /\ \E d \in R, e \in Entry :
             /\ d.pid = p /\ e.pid = p /\ e.message = d.message /\ e.priority = np
             /\ S = {x \in R : x.pid # p} \cup {e}
    BY <1>1, <1>3, NotifyInOrder
  <2>2. PICK d \in R, e \in Entry :
             /\ d.pid = p /\ e.pid = p /\ e.message = d.message /\ e.priority = np
             /\ S = {x \in R : x.pid # p} \cup {e}
    BY <2>1
  <2>3. \A y \in R : y.pid = p => y = d
    <3>1. \A x : x \in R <=> \E i \in 1 .. Len(locked[f]) : locked[f][i] = x
      BY <1>1, RangeMember DEF InOrder
    <3>2. DOMAIN locked[f] = 1 .. Len(locked[f])
      BY <1>1, LenProperties DEF InOrder
    <3> QED BY <1>1, <2>2, <3>1, <3>2 DEF InOrder, Once
  <2> HIDE DEF R, S
  <2>4. \A x \in S : /\ x.pid = p => x.priority = np
                     /\ \E y \in R : /\ y.pid = x.pid /\ y.message = x.message
                                     /\ x.pid # p => y = x
    BY <2>2
  <2>5. \A y \in R : \E x \in S : x.pid = y.pid /\ x.message = y.message
    <3>1. ASSUME NEW y \in R PROVE \E x \in S : x.pid = y.pid /\ x.message = y.message
      <4>1. CASE y.pid = p
        BY <2>2, <2>3, <4>1
      <4>2. CASE y.pid # p
        BY <2>2, <4>2
      <4> QED BY <4>1, <4>2
    <3> QED BY <3>1
  <2> QED BY <2>1, <2>4, <2>5 DEF R, S
<1>4. \/ locked'[f] = locked[f] /\ ~Listed(locked[f], p)
      \/ locked'[f] = NotifyPriority(locked[f], p, np) /\ Listed(locked[f], p)
  <2>1. CASE proc[p] = "blocked" /\ Created(f)
    <3>1. locked'[f] = NotifyPriority(locked[f], p, np)
      BY <2>1 DEF Chprio
    <3> QED BY <1>1, <3>1, NotifyInOrder
  <2>2. CASE proc[p] = "blocked" /\ ~Created(f)
    <3>1. locked'[f] = locked[f] /\ Range(locked[f]) = {}
      BY <2>2 DEF Chprio, QueueInv, BufferTells
    <3> QED BY <1>1, <3>1, ListedRange
  <2>3. CASE proc[p] # "blocked"
    <3>1. locked'[f] = locked[f]
      BY <2>3 DEF Chprio
    <3>2. \A x \in Range(locked[f]) : x.pid # p
      BY <2>3, EntryFacts
    <3> QED BY <1>1, <3>1, <3>2, ListedRange
  <2> QED BY <2>1, <2>2, <2>3
<1> QED BY <1>2, <1>3, <1>4

LEMMA ChprioInv ==
  ASSUME QueueInv, NEW p \in Procs, NEW np \in Prios, Chprio(p, np)
  PROVE  QueueInv'
<1>1. /\ prio' = [prio EXCEPT ![p] = np]
      /\ size' = size /\ items' = items /\ fids' = fids /\ released' = released
      /\ proc' = proc /\ call' = call /\ dest' = dest
  BY DEF Chprio
<1>2. \A f \in Fids :
         /\ InOrder(locked'[f])
         /\ \A x \in Range(locked'[f]) :
              /\ x.pid = p => x.priority = np
              /\ \E d \in Range(locked[f]) :
                   /\ d.pid = x.pid /\ d.message = x.message
                   /\ x.pid # p => d = x
         /\ \A d \in Range(locked[f]) : \E x \in Range(locked'[f]) :
              x.pid = d.pid /\ x.message = d.message
  BY ChprioLists
<1>3. \A r \in Procs : prio'[r] = IF r = p THEN np ELSE prio[r]
  BY <1>1 DEF QueueInv, TypeOK
<1>4. TypeOK'
  <2>1. locked' \in [Fids -> Seq(Entry)]
    <3>1. \A f \in Fids : locked'[f] \in Seq(Entry)
      BY <1>2 DEF InOrder
    <3>2. \E g : locked' = [f \in Fids |-> g[f]]
      <4>1. CASE proc[p] = "blocked"
        <5> DEFINE g == [f \in Fids |-> IF Created(f) THEN NotifyPriority(locked[f], p, np)
                                                      ELSE locked[f]]
        <5>1. locked' = g
          BY <4>1 DEF Chprio
        <5>2. g = [f \in Fids |-> g[f]]
          OBVIOUS
        <5> QED BY <5>1, <5>2
      <4>2. CASE proc[p] # "blocked"
        <5>1. locked' = [f \in Fids |-> locked[f]]
          BY <4>2 DEF Chprio, QueueInv, TypeOK
        <5> QED BY <5>1
      <4> QED BY <4>1, <4>2
    <3> QED BY <3>1, <3>2
  <2>2. prio' \in [Procs -> Prios]
    BY <1>1 DEF QueueInv, TypeOK
  <2> QED BY <1>1, <2>1, <2>2 DEF QueueInv, TypeOK
<1>5. BlockedListed'
  <2>1. \A r \in Procs : (\E f \in Fids : \E x \in Range(locked'[f]) : x.pid = r)
                           <=> (\E f \in Fids : \E x \in Range(locked[f]) : x.pid = r)
    BY <1>2
  <2> QED BY <1>1, <2>1 DEF QueueInv, BlockedListed
<1>6. OneList'
  <2>1. ASSUME NEW f \in Fids, NEW g \in Fids, NEW x \in Range(locked'[f]), NEW y \in Range(locked'[g]),
               x.pid = y.pid
        PROVE  f = g
    <3>1. PICK c \in Range(locked[f]) : c.pid = x.pid
      BY <1>2
    <3>2. PICK d \in Range(locked[g]) : d.pid = y.pid
      BY <1>2
    <3> QED BY <2>1, <3>1, <3>2 DEF QueueInv, OneList
  <2> QED BY <2>1 DEF OneList
<1>7. EntriesTrue'
  <2>1. ASSUME NEW f \in Fids, NEW x \in Range(locked'[f])
        PROVE  /\ call'[x.pid] = (IF x.message = "none" THEN "preceive" ELSE "psend")
               /\ x.priority = prio'[x.pid]
    <3>1. PICK d \in Range(locked[f]) : /\ d.pid = x.pid /\ d.message = x.message
                                        /\ x.pid # p => d = x
      BY <1>2
    <3>2. /\ d.pid \in Procs
          /\ call[d.pid] = (IF d.message = "none" THEN "preceive" ELSE "psend")
          /\ d.priority = prio[d.pid]
      BY EntryFacts
    <3>3. x.pid = p => x.priority = np
      BY <1>2
    <3> QED BY <1>1, <1>3, <3>1, <3>2, <3>3
  <2> QED BY <2>1 DEF EntriesTrue
<1>8. BufferTells'
  <2>1. ASSUME NEW f \in Fids
        PROVE  /\ Range(locked'[f]) # {} => Range(locked[f]) # {}
               /\ \A x \in Range(locked'[f]) : \E d \in Range(locked[f]) : d.message = x.message
    BY <1>2
  <2>2. ASSUME NEW f \in Fids, Range(locked'[f]) # {}
        PROVE  /\ size[f] > 0
               /\ \/ items[f] = <<>> /\ \A x \in Range(locked'[f]) : x.message = "none"
                  \/ Len(items[f]) = size[f] /\ \A x \in Range(locked'[f]) : x.message # "none"
    <3>1. /\ size[f] > 0
          /\ \/ items[f] = <<>> /\ \A x \in Range(locked[f]) : x.message = "none"
             \/ Len(items[f]) = size[f] /\ \A x \in Range(locked[f]) : x.message # "none"
      BY <2>1, <2>2 DEF QueueInv, BufferTells, Created
    <3> QED BY <2>1, <3>1
  <2>3. \A f \in Fids : Len(items[f]) <= size[f]
    BY DEF QueueInv, BufferTells
  <2> QED BY <1>1, <2>2, <2>3 DEF BufferTells, Created
<1>9. ListsInOrder' /\ FidsAccounted'
  BY <1>1, <1>2 DEF QueueInv, ListsInOrder, FidsAccounted, Created
<1> QED BY <1>4, <1>5, <1>6, <1>7, <1>8, <1>9 DEF QueueInv

LEMMA QueueInvStep ==
  ASSUME QueueInv, [Next]_vars
  PROVE  QueueInv'
<1>1. CASE UNCHANGED vars
  BY <1>1 DEF vars, table, procs, QueueInv, TypeOK, ListsInOrder, BlockedListed, OneList,
              EntriesTrue, BufferTells, FidsAccounted, Created
<1>2. CASE Next
  BY <1>2, PcreateInv, PcreateFailsInv, PreceiveInv, PresetInv, PdeleteInv, PsendInv,
     ResumeInv, KillInv, StartInv, ChprioInv DEF Next
<1> QED BY <1>1, <1>2

LEMMA QueueInvAlways == Spec => []QueueInv
<1>1. Init => QueueInv
  BY QueueInvInit
<1>2. QueueInv /\ [Next]_vars => QueueInv'
  BY QueueInvStep
<1> QED BY <1>1, <1>2, PTL DEF Spec

(* The table of queues, its lists and the processes keep their types. *)
THEOREM QueueTypes == Spec => []TypeOK
<1>1. QueueInv => TypeOK
  BY DEF QueueInv
<1> QED BY <1>1, QueueInvAlways, PTL

(***************************************************************************)
(* Whatever psend, preceive, preset, pdelete, kill and chprio come in what *)
(* order, the waiting lists hold the blocked processes, each once, in the  *)
(* order of their present priorities, receivers at empty buffers and       *)
(* senders at full ones; and every fid is either in use or free once.      *)
(***************************************************************************)
THEOREM ListsAreExact == Spec => []WaitersExact
<1>1. QueueInv => WaitersExact
  BY WaitersExactFromInv
<1> QED BY <1>1, QueueInvAlways, PTL
-------------------------------------------------------------------------------
(***************************************************************************)
(* The answers of the calls that were switched out.  AnswersAgree is       *)
(* inductive together with QueueInv, which says that a woken process was   *)
(* in a call, and with the fact that a process outside a call has nothing  *)
(* left in the variable of its last one.                                   *)
(***************************************************************************)
NothingLeft == \A p \in Procs : call[p] = "none" => dest[p] = "none"

AnswerInv == AnswersAgree /\ NothingLeft

\* The answer of process p is the one it should have.
AnswerOf(p) ==
  /\ call[p] = "preceive" =>
       IF proc[p] = "blocked" THEN dest[p] = "none"
       ELSE IF released[p] THEN dest[p] = "reset" ELSE dest[p] \in Messages
  /\ released[p] => proc[p] = "ready" /\ call[p] # "none"
  /\ call[p] = "none" => dest[p] = "none"

LEMMA AnswerByProcess == AnswerInv <=> \A p \in Procs : AnswerOf(p)
BY DEF AnswerInv, AnswersAgree, AnswersExact, FlagsFresh, NothingLeft, AnswerOf

LEMMA AnswerByProcessNext ==
  ASSUME \A p \in Procs : AnswerOf(p)'
  PROVE  AnswerInv'
BY DEF AnswerInv, AnswersAgree, AnswersExact, FlagsFresh, NothingLeft, AnswerOf

LEMMA AnswerSame ==
  ASSUME NEW p \in Procs, AnswerOf(p), proc'[p] = proc[p], call'[p] = call[p],
         dest'[p] = dest[p], released'[p] = released[p]
  PROVE  AnswerOf(p)'
BY DEF AnswerOf

LEMMA BlockAnswers ==
  ASSUME QueueInv, AnswerInv, NEW f \in Fids, NEW p \in Procs, NEW kind \in {"psend", "preceive"},
         NEW m, Running(p), Block(f, p, kind, m), UNCHANGED <<items, dest>>
  PROVE  AnswerInv'
<1>1. /\ proc' = [proc EXCEPT ![p] = "blocked"] /\ call' = [call EXCEPT ![p] = kind]
      /\ dest' = dest /\ released' = released
  BY DEF Block
<1>2. proc \in [Procs -> {"ready", "blocked", "dead"}] /\ call \in [Procs -> {"none", "psend", "preceive"}]
  BY DEF QueueInv, TypeOK
<1>3. ASSUME NEW r \in Procs PROVE AnswerOf(r)'
  <2>1. AnswerOf(r)
    BY AnswerByProcess
  <2>2. CASE r = p
    <3>1. proc'[r] = "blocked" /\ call'[r] = kind /\ call[r] = "none"
      BY <1>1, <1>2, <2>2 DEF Running
    <3>2. dest[r] = "none" /\ ~released[r]
      BY <2>1, <3>1 DEF AnswerOf
    <3> QED BY <1>1, <3>1, <3>2 DEF AnswerOf
  <2>3. CASE r # p
    BY <1>1, <1>2, <2>1, <2>3, AnswerSame
  <2> QED BY <2>2, <2>3
<1> QED BY <1>3, AnswerByProcessNext

(* The first process of the list is woken: a receiver with a message, or a *)
(* sender.                                                                  *)
LEMMA WakeAnswers ==
  ASSUME QueueInv, AnswerInv, NEW f \in Fids, locked[f] # <<>>, WakeFirst(f),
         \/ Head(locked[f]).message # "none" /\ UNCHANGED dest
         \/ \E m \in Messages : dest' = [dest EXCEPT ![Head(locked[f]).pid] = m]
  PROVE  AnswerInv'
<1> DEFINE h == Head(locked[f])
<1>1. h \in Range(locked[f])
  BY TailInOrder DEF QueueInv, ListsInOrder
<1>2. /\ h.pid \in Procs /\ proc[h.pid] = "blocked"
      /\ call[h.pid] = (IF h.message = "none" THEN "preceive" ELSE "psend")
  BY <1>1, EntryFacts
<1>3. /\ proc' = [proc EXCEPT ![h.pid] = "ready"] /\ call' = call /\ released' = released
  BY DEF WakeFirst
<1>4. \/ h.message # "none" /\ dest' = dest
      \/ \E m \in Messages : dest' = [dest EXCEPT ![h.pid] = m]
  OBVIOUS
<1> HIDE DEF h
<1>5. /\ proc \in [Procs -> {"ready", "blocked", "dead"}]
      /\ dest \in [Procs -> Messages \cup {"none", "reset"}]
  BY DEF QueueInv, TypeOK
<1>6. ASSUME NEW r \in Procs PROVE AnswerOf(r)'
  <2>1. AnswerOf(r)
    BY AnswerByProcess
  <2>2. CASE r = h.pid
    <3>1. proc'[r] = "ready" /\ ~released[r] /\ call[r] # "none"
      BY <1>2, <1>3, <1>5, <2>1, <2>2 DEF AnswerOf
    <3>2. call[r] = "preceive" => dest'[r] \in Messages
      BY <1>2, <1>4, <1>5, <2>2
    <3> QED BY <1>3, <3>1, <3>2 DEF AnswerOf
  <2>3. CASE r # h.pid
    <3>1. proc'[r] = proc[r] /\ dest'[r] = dest[r]
      BY <1>3, <1>4, <1>5, <2>3
    <3> QED BY <1>3, <2>1, <3>1, AnswerSame
  <2> QED BY <2>2, <2>3
<1> QED BY <1>6, AnswerByProcessNext

LEMMA ReleaseAnswers ==
  ASSUME QueueInv, AnswerInv, NEW f \in Fids, Release(f)
  PROVE  AnswerInv'
<1> DEFINE out == {locked[f][i].pid : i \in DOMAIN locked[f]}
<1>1. out = {x.pid : x \in Range(locked[f])}
  BY DEF Range
<1>2. \A r \in out : r \in Procs /\ call[r] # "none"
  BY <1>1, EntryFacts
<1>3. /\ proc' = [p \in Procs |-> IF p \in out THEN "ready" ELSE proc[p]]
      /\ dest' = [p \in Procs |-> IF p \in out /\ call[p] = "preceive" THEN "reset" ELSE dest[p]]
      /\ released' = [p \in Procs |-> p \in out \/ released[p]]
      /\ call' = call
  BY DEF Release
<1> HIDE DEF out
<1>4. released \in [Procs -> BOOLEAN]
  BY DEF QueueInv, TypeOK
<1>5. ASSUME NEW r \in Procs PROVE AnswerOf(r)'
  <2>1. AnswerOf(r)
    BY AnswerByProcess
  <2>2. CASE r \in out
    <3>1. proc'[r] = "ready" /\ released'[r] /\ call'[r] = call[r] /\ call[r] # "none"
      BY <1>2, <1>3, <2>2
    <3>2. call[r] = "preceive" => dest'[r] = "reset"
      BY <1>3, <2>2
    <3> QED BY <3>1, <3>2 DEF AnswerOf
  <2>3. CASE r \notin out
    <3>1. proc'[r] = proc[r] /\ dest'[r] = dest[r] /\ released'[r] = released[r]
      BY <1>3, <1>4, <2>3
    <3> QED BY <1>3, <2>1, <3>1, AnswerSame
  <2> QED BY <2>2, <2>3
<1> QED BY <1>5, AnswerByProcessNext

LEMMA AnswerStep ==
  ASSUME "kill_released" \notin Allowed \/ \A p \in Procs : ~released[p],
         QueueInv, AnswerInv, [Next]_vars
  PROVE  AnswerInv'
<1>1. \A r \in Procs : AnswerOf(r)
  BY AnswerByProcess
<1>2. /\ proc \in [Procs -> {"ready", "blocked", "dead"}]
      /\ call \in [Procs -> {"none", "psend", "preceive"}]
      /\ dest \in [Procs -> Messages \cup {"none", "reset"}]
      /\ released \in [Procs -> BOOLEAN]
  BY DEF QueueInv, TypeOK
<1>3. CASE UNCHANGED <<proc, call, dest, released>>
  <2>1. \A r \in Procs : AnswerOf(r)'
    BY <1>1, <1>3, AnswerSame
  <2> QED BY <2>1, AnswerByProcessNext
<1>4. ASSUME NEW f \in Fids, NEW p \in Procs, NEW m \in Messages, Psend(f, p, m)
      PROVE  AnswerInv'
  <2>1. CASE UNCHANGED <<size, locked, fids, procs, released>>
    BY <1>3, <2>1 DEF procs
  <2>2. CASE Block(f, p, "psend", m) /\ UNCHANGED <<items, dest>>
    BY <1>4, <2>2, BlockAnswers DEF Psend
  <2>3. CASE /\ locked[f] # <<>> /\ WakeFirst(f)
             /\ dest' = [dest EXCEPT ![Head(locked[f]).pid] = m]
    BY <2>3, WakeAnswers
  <2> QED BY <1>4, <2>1, <2>2, <2>3 DEF Psend
<1>5. ASSUME NEW f \in Fids, NEW p \in Procs, Preceive(f, p)
      PROVE  AnswerInv'
  <2>1. CASE UNCHANGED <<size, locked, fids, procs, released>>
    BY <1>3, <2>1 DEF procs
  <2>2. CASE Block(f, p, "preceive", "none") /\ UNCHANGED <<items, dest>>
    BY <1>5, <2>2, BlockAnswers DEF Preceive
  <2>3. CASE Len(items[f]) = size[f] /\ locked[f] # <<>> /\ WakeFirst(f) /\ UNCHANGED dest
    <3>1. Head(locked[f]).message \in Messages
      BY <1>5, <2>3, WhoWaits DEF Preceive
    <3>2. Head(locked[f]).message # "none"
      BY <3>1
    <3> QED BY <2>3, <3>2, WakeAnswers
  <2> QED BY <1>5, <2>1, <2>2, <2>3 DEF Preceive
<1>6. ASSUME NEW p \in Procs, Resume(p)
      PROVE  AnswerInv'
  <2>1. ASSUME NEW r \in Procs PROVE AnswerOf(r)'
    <3>1. CASE r = p
      <4>1. call'[r] = "none" /\ dest'[r] = "none" /\ released'[r] = FALSE
        BY <1>2, <1>6, <3>1 DEF Resume
      <4> QED BY <4>1 DEF AnswerOf
    <3>2. CASE r # p
      <4>1. call'[r] = call[r] /\ dest'[r] = dest[r] /\ released'[r] = released[r] /\ proc'[r] = proc[r]
        BY <1>2, <1>6, <3>2 DEF Resume
      <4> QED BY <1>1, <4>1, AnswerSame
    <3> QED BY <3>1, <3>2
  <2> QED BY <2>1, AnswerByProcessNext
<1>7. ASSUME NEW p \in Procs, Kill(p)
      PROVE  AnswerInv'
  <2>1. ASSUME NEW r \in Procs PROVE AnswerOf(r)'
    <3>1. CASE r = p
      <4>1. call'[r] = "none" /\ dest'[r] = "none" /\ released'[r] = released[r] /\ ~released[r]
        BY <1>2, <1>7, <3>1 DEF Kill
      <4> QED BY <4>1 DEF AnswerOf
    <3>2. CASE r # p
      <4>1. call'[r] = call[r] /\ dest'[r] = dest[r] /\ released'[r] = released[r] /\ proc'[r] = proc[r]
        BY <1>2, <1>7, <3>2 DEF Kill
      <4> QED BY <1>1, <4>1, AnswerSame
    <3> QED BY <3>1, <3>2
  <2> QED BY <2>1, AnswerByProcessNext
<1>8. ASSUME NEW p \in Procs, NEW np \in Prios, Start(p, np)
      PROVE  AnswerInv'
  <2>1. /\ call' = call /\ dest' = dest /\ released' = released
        /\ proc' = [proc EXCEPT ![p] = "ready"] /\ proc[p] = "dead"
    BY <1>8 DEF Start
  <2>2. ASSUME NEW r \in Procs PROVE AnswerOf(r)'
    <3>1. CASE r = p
      <4>1. proc'[r] = "ready" /\ proc[r] = "dead"
        BY <1>2, <2>1, <3>1
      <4> QED BY <1>1, <2>1, <4>1 DEF AnswerOf
    <3>2. CASE r # p
      <4>1. proc'[r] = proc[r]
        BY <1>2, <2>1, <3>2
      <4> QED BY <1>1, <2>1, <4>1, AnswerSame
    <3> QED BY <3>1, <3>2
  <2> QED BY <2>2, AnswerByProcessNext
<1>9. ASSUME NEW f \in Fids, NEW p \in Procs, Preset(f, p) \/ Pdelete(f, p)
      PROVE  AnswerInv'
  BY <1>9, ReleaseAnswers DEF Preset, Pdelete
<1>10. ASSUME NEW p \in Procs, NEW np \in Prios, Chprio(p, np)
       PROVE  AnswerInv'
  BY <1>3, <1>10 DEF Chprio
<1>11. CASE UNCHANGED vars
  BY <1>3, <1>11 DEF vars, procs
<1>12. CASE PcreateFails \/ \E count \in 1 .. MaxSize : Pcreate(count)
  BY <1>3, <1>12 DEF Pcreate, PcreateFails, procs
<1> QED BY <1>4, <1>5, <1>6, <1>7, <1>8, <1>9, <1>10, <1>11, <1>12 DEF Next

(***************************************************************************)
(* Unless a process is killed between its release by a reset and the end   *)
(* of its call, a psend or preceive that was switched out returns the      *)
(* answer that was meant for it, and the flag of a pid is down again when  *)
(* the call has returned.                                                  *)
(***************************************************************************)
THEOREM AnswersAreExact ==
  ASSUME "kill_released" \notin Allowed
  PROVE  Spec => []AnswersAgree
<1>1. Init => AnswerInv
  BY DEF Init, AnswerInv, AnswersAgree, AnswersExact, FlagsFresh, NothingLeft
<1>2. QueueInv /\ AnswerInv /\ [Next]_vars => AnswerInv'
  BY AnswerStep
<1>3. AnswerInv => AnswersAgree
  BY DEF AnswerInv
<1> QED BY <1>1, <1>2, <1>3, QueueInvAlways, PTL DEF Spec
-------------------------------------------------------------------------------
(***************************************************************************)
(* Where a message is: in the buffer of f, in the entry of sender r, in    *)
(* the variable of receiver r.                                             *)
(***************************************************************************)
InBuffer(m, f) == m \in Range(items[f])
InEntry(m, r)  == \E f \in Fids : \E x \in Range(locked[f]) : x.pid = r /\ x.message = m
InDest(m, r)   == dest[r] = m

OnePlace(m) ==
  /\ \A f, g \in Fids : InBuffer(m, f) /\ InBuffer(m, g) => f = g
  /\ \A r, s \in Procs : InEntry(m, r) /\ InEntry(m, s) => r = s
  /\ \A r, s \in Procs : InDest(m, r) /\ InDest(m, s) => r = s
  /\ \A f \in Fids, r \in Procs : ~(InBuffer(m, f) /\ InEntry(m, r))
  /\ \A f \in Fids, r \in Procs : ~(InBuffer(m, f) /\ InDest(m, r))
  /\ \A r, s \in Procs : ~(InEntry(m, r) /\ InDest(m, s))

Distinct(s) == \A i, j \in DOMAIN s : s[i] = s[j] => i = j

MessageInv == /\ \A f \in Fids : Distinct(items[f])
              /\ \A m \in Messages : OnePlace(m)

LEMMA DistinctAppend ==
  ASSUME NEW s \in Seq(Messages), Distinct(s), NEW m \in Messages, m \notin Range(s)
  PROVE  Distinct(Append(s, m))
<1> DEFINE a == Append(s, m)
<1>1. /\ a \in Seq(Messages) /\ Len(a) = Len(s) + 1
      /\ \A i \in 1 .. Len(s) : a[i] = s[i]
      /\ a[Len(s) + 1] = m
  BY AppendProperties
<1>2. Len(s) \in Nat /\ DOMAIN s = 1 .. Len(s) /\ DOMAIN a = 1 .. Len(s) + 1
  BY <1>1, LenProperties
<1>3. \A i \in 1 .. Len(s) : s[i] # m
  BY RangeMember
<1>4. \A i \in 1 .. Len(s) + 1 : i = Len(s) + 1 \/ i \in 1 .. Len(s)
  BY <1>2
<1>5. \A i, j \in 1 .. Len(s) : s[i] = s[j] => i = j
  BY <1>2 DEF Distinct
<1> HIDE DEF a
<1>6. Distinct(a)
  BY <1>1, <1>2, <1>3, <1>4, <1>5 DEF Distinct
<1> QED BY <1>6 DEF a

LEMMA DistinctTail ==
  ASSUME NEW s \in Seq(Messages), Distinct(s), s # <<>>
  PROVE  /\ Tail(s) \in Seq(Messages)
         /\ Distinct(Tail(s))
         /\ \A m : m \in Range(Tail(s)) <=> m \in Range(s) /\ m # s[1]
<1> DEFINE t == Tail(s)
<1>1. /\ t \in Seq(Messages) /\ Len(t) = Len(s) - 1 /\ \A i \in 1 .. Len(t) : t[i] = s[i + 1]
  BY HeadTailProperties
<1>2. Len(s) \in Nat \ {0} /\ DOMAIN s = 1 .. Len(s) /\ DOMAIN t = 1 .. Len(s) - 1
  BY <1>1, EmptySeq, LenProperties
<1>3. \A i, j \in 1 .. Len(s) : s[i] = s[j] => i = j
  BY <1>2 DEF Distinct
<1>4. \A m : m \in Range(t) <=> \E i \in 2 .. Len(s) : s[i] = m
  BY RangeTail
<1>5. \A m : m \in Range(s) <=> \E i \in 1 .. Len(s) : s[i] = m
  BY RangeMember
<1>6. /\ \A i \in 1 .. Len(s) : i = 1 \/ i \in 2 .. Len(s)
      /\ \A i \in 2 .. Len(s) : i # 1 /\ i \in 1 .. Len(s)
      /\ 1 \in 1 .. Len(s)
  BY <1>2
<1> HIDE DEF t
<1>7. \A i \in 1 .. Len(s) - 1 : t[i] = s[i + 1] /\ i + 1 \in 1 .. Len(s)
  BY <1>1, <1>2
<1>8. ASSUME NEW i \in 1 .. Len(s) - 1, NEW j \in 1 .. Len(s) - 1, t[i] = t[j]
      PROVE  i = j
  <2>1. i + 1 = j + 1
    BY <1>3, <1>7, <1>8
  <2> QED BY <2>1
<1>9. \A m : m \in Range(t) <=> m \in Range(s) /\ m # s[1]
  BY <1>3, <1>4, <1>5, <1>6
<1>10. Distinct(t)
  BY <1>2, <1>8 DEF Distinct
<1> QED BY <1>1, <1>9, <1>10 DEF t

(* A message that comes to no new place stays in one. *)
LEMMA NoNewPlace ==
  ASSUME NEW m, OnePlace(m),
         \A f \in Fids : InBuffer(m, f)' => InBuffer(m, f),
         \A r \in Procs : InEntry(m, r)' => InEntry(m, r),
         \A r \in Procs : InDest(m, r)' => InDest(m, r)
  PROVE  OnePlace(m)'
BY DEF OnePlace

LEMMA BufferPlace ==
  ASSUME NEW m, NEW f \in Fids, \A g \in Fids : InBuffer(m, g)' => g = f,
         \A r \in Procs : ~InEntry(m, r)' /\ ~InDest(m, r)'
  PROVE  OnePlace(m)'
BY DEF OnePlace

LEMMA EntryPlace ==
  ASSUME NEW m, NEW p \in Procs, \A r \in Procs : InEntry(m, r)' => r = p,
         \A r \in Procs : ~InDest(m, r)', \A g \in Fids : ~InBuffer(m, g)'
  PROVE  OnePlace(m)'
BY DEF OnePlace

LEMMA DestPlace ==
  ASSUME NEW m, NEW p \in Procs, \A r \in Procs : InDest(m, r)' => r = p,
         \A r \in Procs : ~InEntry(m, r)', \A g \in Fids : ~InBuffer(m, g)'
  PROVE  OnePlace(m)'
BY DEF OnePlace

(* A step that brings no message to a new place. *)
LEMMA QuietMessages ==
  ASSUME MessageInv,
         \A f \in Fids : Distinct(items'[f]) /\ Range(items'[f]) \subseteq Range(items[f]),
         \A f \in Fids : \A x \in Range(locked'[f]) : x.message \in Messages =>
           \E d \in Range(locked[f]) : d.pid = x.pid /\ d.message = x.message,
         \A r \in Procs : dest'[r] \in Messages => dest'[r] = dest[r]
  PROVE  MessageInv'
<1>1. ASSUME NEW m \in Messages PROVE OnePlace(m)'
  <2>1. \A f \in Fids : InBuffer(m, f)' => InBuffer(m, f)
    BY DEF InBuffer
  <2>2. \A r \in Procs : InEntry(m, r)' => InEntry(m, r)
    BY DEF InEntry
  <2>3. \A r \in Procs : InDest(m, r)' => InDest(m, r)
    BY DEF InDest
  <2>4. OnePlace(m)
    BY DEF MessageInv
  <2> QED BY <2>1, <2>2, <2>3, <2>4, NoNewPlace
<1> QED BY <1>1 DEF MessageInv

LEMMA NotInSystem ==
  ASSUME QueueInv, NEW m \in Messages, ~InSystem(m)
  PROVE  /\ \A f \in Fids : ~InBuffer(m, f)
         /\ \A r \in Procs : ~InEntry(m, r)
         /\ \A r \in Procs : ~InDest(m, r)
BY DEF InSystem, InBuffer, InEntry, InDest, Range

LEMMA PsendMessages ==
  ASSUME QueueInv, MessageInv, NEW f \in Fids, NEW p \in Procs, NEW m \in Messages, Psend(f, p, m)
  PROVE  MessageInv'
<1>1. /\ \A g \in Fids : ~InBuffer(m, g)
      /\ \A r \in Procs : ~InEntry(m, r)
      /\ \A r \in Procs : ~InDest(m, r)
  BY NotInSystem DEF Psend
<1>2. /\ items \in [Fids -> Seq(Messages)]
      /\ dest \in [Procs -> Messages \cup {"none", "reset"}]
  BY DEF QueueInv, TypeOK
<1>3. \A n \in Messages : OnePlace(n)
  BY DEF MessageInv
<1>4. CASE /\ items[f] = <<>> /\ locked[f] # <<>>
           /\ WakeFirst(f)
           /\ dest' = [dest EXCEPT ![Head(locked[f]).pid] = m]
           /\ UNCHANGED items
  <2> DEFINE h == Head(locked[f]).pid
  <2>1. /\ h \in Procs
        /\ \A g \in Fids : Range(locked'[g]) \subseteq Range(locked[g])
    BY <1>4, WakeLists
  <2>2. \A r \in Procs : dest'[r] = IF r = h THEN m ELSE dest[r]
    BY <1>2, <1>4
  <2> HIDE DEF h
  <2>3. ASSUME NEW n \in Messages PROVE OnePlace(n)'
    <3>1. /\ \A g \in Fids : InBuffer(n, g)' => InBuffer(n, g)
          /\ \A r \in Procs : InEntry(n, r)' => InEntry(n, r)
      BY <1>4, <2>1 DEF InBuffer, InEntry
    <3>2. CASE n = m
      <4>1. \A r \in Procs : InDest(n, r)' => r = h
        BY <1>1, <2>2, <3>2 DEF InDest
      <4> QED BY <1>1, <2>1, <3>1, <3>2, <4>1, DestPlace
    <3>3. CASE n # m
      <4>1. \A r \in Procs : InDest(n, r)' => InDest(n, r)
        BY <2>2, <3>3 DEF InDest
      <4> QED BY <1>3, <3>1, <4>1, NoNewPlace
    <3> QED BY <3>2, <3>3
  <2> QED BY <1>4, <2>3 DEF MessageInv
<1>5. CASE /\ Block(f, p, "psend", m)
           /\ UNCHANGED <<items, dest>>
  <2>0. Running(p)
    BY DEF Psend
  <2>1. \A g \in Fids : g # f => Range(locked'[g]) = Range(locked[g])
    BY <1>5, <2>0, BlockLists
  <2>2. PICK e \in Entry : EntryAdded(f, p, m, e)
    BY <1>5, <2>0, BlockLists
  <2>3. e.pid = p /\ e.message = m /\ Range(locked'[f]) = Range(locked[f]) \cup {e}
    BY <2>2 DEF EntryAdded
  <2>4. \A g \in Fids : \A x \in Range(locked'[g]) : x \in Range(locked[g]) \/ x = e
    BY <2>1, <2>3
  <2>5. ASSUME NEW n \in Messages PROVE OnePlace(n)'
    <3>1. /\ \A g \in Fids : InBuffer(n, g)' => InBuffer(n, g)
          /\ \A r \in Procs : InDest(n, r)' => InDest(n, r)
      BY <1>5 DEF InBuffer, InDest
    <3>2. CASE n = m
      <4>1. \A r \in Procs : InEntry(n, r)' => r = p
        BY <1>1, <2>3, <2>4, <3>2 DEF InEntry
      <4> QED BY <1>1, <3>1, <3>2, <4>1, EntryPlace
    <3>3. CASE n # m
      <4>1. \A r \in Procs : InEntry(n, r)' => InEntry(n, r)
        BY <2>3, <2>4, <3>3 DEF InEntry
      <4> QED BY <1>3, <3>1, <4>1, NoNewPlace
    <3> QED BY <3>2, <3>3
  <2> QED BY <1>5, <2>5 DEF MessageInv
<1>6. CASE /\ items' = [items EXCEPT ![f] = Append(@, m)]
           /\ UNCHANGED <<size, locked, fids, procs, released>>
  <2>1. \A g \in Fids : items'[g] = IF g = f THEN Append(items[f], m) ELSE items[g]
    BY <1>2, <1>6
  <2>2. items[f] \in Seq(Messages) /\ Distinct(items[f]) /\ m \notin Range(items[f])
    BY <1>1, <1>2 DEF MessageInv, InBuffer
  <2>3. Distinct(Append(items[f], m)) /\ Range(Append(items[f], m)) = Range(items[f]) \cup {m}
    BY <2>2, DistinctAppend, RangeAppend
  <2>4. \A g \in Fids : Distinct(items'[g])
    BY <2>1, <2>3 DEF MessageInv
  <2>5. ASSUME NEW n \in Messages PROVE OnePlace(n)'
    <3>1. /\ \A r \in Procs : InEntry(n, r)' => InEntry(n, r)
          /\ \A r \in Procs : InDest(n, r)' => InDest(n, r)
      BY <1>6 DEF InEntry, InDest, procs
    <3>2. CASE n = m
      <4>1. \A g \in Fids : InBuffer(n, g)' => g = f
        BY <1>1, <2>1, <3>2 DEF InBuffer
      <4> QED BY <1>1, <3>1, <3>2, <4>1, BufferPlace
    <3>3. CASE n # m
      <4>1. \A g \in Fids : InBuffer(n, g)' => InBuffer(n, g)
        BY <2>1, <2>3, <3>3 DEF InBuffer
      <4> QED BY <1>3, <3>1, <4>1, NoNewPlace
    <3> QED BY <3>2, <3>3
  <2> QED BY <2>4, <2>5 DEF MessageInv
<1> QED BY <1>4, <1>5, <1>6 DEF Psend

(* The message of the first waiting sender goes to the end of the buffer. *)
LEMMA MovedMessage ==
  ASSUME QueueInv, MessageInv, NEW f \in Fids, Created(f),
         Len(items[f]) = size[f], locked[f] # <<>>,
         items' = [items EXCEPT ![f] = Append(Tail(@), Head(locked[f]).message)],
         WakeFirst(f), UNCHANGED dest
  PROVE  MessageInv'
<1> DEFINE h == Head(locked[f])
           t == Tail(items[f])
           m == h.message
<1>1. /\ items[f] \in Seq(Messages) /\ items[f] # <<>> /\ m \in Messages
  BY WhoWaits
<1>2. /\ h \in Range(locked[f]) /\ h.pid \in Procs
      /\ \A g \in Fids : Range(locked'[g]) = {x \in Range(locked[g]) : x.pid # h.pid}
  BY WakeLists
<1>3. Distinct(items[f])
  BY DEF MessageInv
<1>4. t \in Seq(Messages) /\ Distinct(t) /\ \A n : n \in Range(t) <=> n \in Range(items[f]) /\ n # items[f][1]
  BY <1>1, <1>3, DistinctTail
<1>5. InEntry(m, h.pid)
  BY <1>2 DEF InEntry
<1>6. OnePlace(m)
  BY <1>1 DEF MessageInv
<1>7. items' = [items EXCEPT ![f] = Append(t, m)]
  OBVIOUS
<1> HIDE DEF h, t, m
<1>8. /\ \A g \in Fids : ~InBuffer(m, g)
      /\ \A r \in Procs : ~InDest(m, r)
      /\ \A r \in Procs : InEntry(m, r) => r = h.pid
  BY <1>2, <1>5, <1>6 DEF OnePlace
<1>9. \A g \in Fids : items'[g] = IF g = f THEN Append(t, m) ELSE items[g]
  BY <1>7 DEF QueueInv, TypeOK
<1>10. m \notin Range(t)
  BY <1>4, <1>8 DEF InBuffer
<1>11. Distinct(Append(t, m)) /\ Range(Append(t, m)) = Range(t) \cup {m}
  BY <1>1, <1>4, <1>10, DistinctAppend, RangeAppend
<1>12. \A g \in Fids : Distinct(items'[g])
  BY <1>9, <1>11 DEF MessageInv
<1>13. ASSUME NEW n \in Messages PROVE OnePlace(n)'
  <2>1. /\ \A r \in Procs : InDest(n, r)' => InDest(n, r)
        /\ \A r \in Procs : InEntry(n, r)' => InEntry(n, r) /\ r # h.pid
    BY <1>2 DEF InDest, InEntry
  <2>2. CASE n = m
    <3>1. \A g \in Fids : InBuffer(n, g)' => g = f
      BY <1>8, <1>9, <2>2 DEF InBuffer
    <3> QED BY <1>8, <2>1, <2>2, <3>1, BufferPlace
  <2>3. CASE n # m
    <3>1. \A g \in Fids : InBuffer(n, g)' => InBuffer(n, g)
      BY <1>4, <1>9, <1>11, <2>3 DEF InBuffer
    <3>2. OnePlace(n)
      BY DEF MessageInv
    <3> QED BY <2>1, <3>1, <3>2, NoNewPlace
  <2> QED BY <2>2, <2>3
<1> QED BY <1>12, <1>13 DEF MessageInv

LEMMA PreceiveMessages ==
  ASSUME QueueInv, MessageInv, NEW f \in Fids, NEW p \in Procs, Preceive(f, p)
  PROVE  MessageInv'
<1>1. items \in [Fids -> Seq(Messages)] /\ \A g \in Fids : Distinct(items[g])
  BY DEF QueueInv, TypeOK, MessageInv
<1>2. CASE /\ Len(items[f]) = size[f] /\ locked[f] # <<>>
           /\ items' = [items EXCEPT ![f] = Append(Tail(@), Head(locked[f]).message)]
           /\ WakeFirst(f)
           /\ UNCHANGED dest
  BY <1>2, MovedMessage DEF Preceive
<1>3. CASE /\ Block(f, p, "preceive", "none")
           /\ UNCHANGED <<items, dest>>
  <2>0. Running(p) /\ "none" \in Messages \cup {"none"} /\ "none" \notin Messages
    BY DEF Preceive
  <2>1. \A g \in Fids : g # f => Range(locked'[g]) = Range(locked[g])
    BY <1>3, <2>0, BlockLists
  <2>2. PICK e \in Entry : EntryAdded(f, p, "none", e)
    BY <1>3, <2>0, BlockLists
  <2>3. e.message = "none" /\ Range(locked'[f]) = Range(locked[f]) \cup {e}
    BY <2>2 DEF EntryAdded
  <2>4. \A g \in Fids : \A x \in Range(locked'[g]) : x.message \in Messages => x \in Range(locked[g])
    BY <2>0, <2>1, <2>3
  <2> QED BY <1>1, <1>3, <2>4, QuietMessages
<1>4. CASE /\ items[f] # <<>>
           /\ items' = [items EXCEPT ![f] = Tail(@)]
           /\ UNCHANGED <<size, locked, fids, procs, released>>
  <2>1. \A g \in Fids : items'[g] = IF g = f THEN Tail(items[f]) ELSE items[g]
    BY <1>1, <1>4
  <2>2. Distinct(Tail(items[f])) /\ Range(Tail(items[f])) \subseteq Range(items[f])
    BY <1>1, <1>4, DistinctTail
  <2>3. \A g \in Fids : Distinct(items'[g]) /\ Range(items'[g]) \subseteq Range(items[g])
    BY <1>1, <2>1, <2>2
  <2>4. locked' = locked /\ dest' = dest
    BY <1>4 DEF procs
  <2> QED BY <2>3, <2>4, QuietMessages
<1> QED BY <1>2, <1>3, <1>4 DEF Preceive

LEMMA EmptiedMessages ==
  ASSUME QueueInv, MessageInv, NEW f \in Fids, Release(f),
         items' = [items EXCEPT ![f] = <<>>], locked' = [locked EXCEPT ![f] = <<>>]
  PROVE  MessageInv'
<1>1. \A g \in Fids : items'[g] = IF g = f THEN <<>> ELSE items[g]
  BY DEF QueueInv, TypeOK
<1>2. \A g \in Fids : locked'[g] = IF g = f THEN <<>> ELSE locked[g]
  BY DEF QueueInv, TypeOK
<1>3. Range(<<>>) = {} /\ Distinct(<<>>)
  <2>1. DOMAIN <<>> = {}
    OBVIOUS
  <2> QED BY <2>1, RangeEmpty DEF Distinct
<1>4. \A g \in Fids : Distinct(items'[g]) /\ Range(items'[g]) \subseteq Range(items[g])
  BY <1>1, <1>3 DEF MessageInv
<1>5. \A g \in Fids : Range(locked'[g]) \subseteq Range(locked[g])
  BY <1>2, <1>3
<1>6. \A r \in Procs : dest'[r] \in Messages => dest'[r] = dest[r]
  BY DEF Release
<1> QED BY <1>4, <1>5, <1>6, QuietMessages

LEMMA MessageStep ==
  ASSUME QueueInv, MessageInv, [Next]_vars
  PROVE  MessageInv'
<1>1. \A g \in Fids : Distinct(items[g])
  BY DEF MessageInv
<1>2. dest \in [Procs -> Messages \cup {"none", "reset"}]
  BY DEF QueueInv, TypeOK
<1>3. CASE UNCHANGED <<items, locked, dest>>
  BY <1>1, <1>3, QuietMessages
<1>4. ASSUME NEW p \in Procs, Resume(p)
      PROVE  MessageInv'
  <2>1. items' = items /\ locked' = locked /\ dest' = [dest EXCEPT ![p] = "none"]
    BY <1>4 DEF Resume, table
  <2>2. \A r \in Procs : dest'[r] \in Messages => dest'[r] = dest[r]
    BY <1>2, <2>1
  <2> QED BY <1>1, <2>1, <2>2, QuietMessages
<1>5. ASSUME NEW p \in Procs, Kill(p)
      PROVE  MessageInv'
  <2>1. items' = items /\ dest' = [dest EXCEPT ![p] = "none"]
    BY <1>5 DEF Kill
  <2>2. \A r \in Procs : dest'[r] \in Messages => dest'[r] = dest[r]
    BY <1>2, <2>1
  <2>3. ASSUME NEW f \in Fids PROVE Range(locked'[f]) \subseteq Range(locked[f])
    <3>1. locked'[f] = IF Created(f) THEN RemovePid(locked[f], p) ELSE locked[f]
      BY <1>5 DEF Kill
    <3>2. Range(RemovePid(locked[f], p)) = {x \in Range(locked[f]) : x.pid # p}
      BY RemovePidInOrder DEF QueueInv, ListsInOrder
    <3> QED BY <3>1, <3>2
  <2> QED BY <1>1, <2>1, <2>2, <2>3, QuietMessages
<1>6. ASSUME NEW p \in Procs, NEW np \in Prios, Chprio(p, np)
      PROVE  MessageInv'
  <2>1. items' = items /\ dest' = dest
    BY <1>6 DEF Chprio
  <2>2. \A f \in Fids : \A x \in Range(locked'[f]) :
          \E d \in Range(locked[f]) : d.pid = x.pid /\ d.message = x.message
    BY <1>6, ChprioLists
  <2> QED BY <1>1, <2>1, <2>2, QuietMessages
<1>7. ASSUME NEW f \in Fids, NEW p \in Procs, Preset(f, p) \/ Pdelete(f, p)
      PROVE  MessageInv'
  BY <1>7, EmptiedMessages DEF Preset, Pdelete
<1>8. CASE UNCHANGED vars
  BY <1>3, <1>8 DEF vars, table, procs
<1>9. CASE PcreateFails \/ \E count \in 1 .. MaxSize : Pcreate(count)
  BY <1>3, <1>9 DEF Pcreate, PcreateFails, procs
<1>10. ASSUME NEW p \in Procs, NEW np \in Prios, Start(p, np)
       PROVE  MessageInv'
  BY <1>3, <1>10 DEF Start, table
<1> QED BY <1>4, <1>5, <1>6, <1>7, <1>8, <1>9, <1>10, PsendMessages, PreceiveMessages DEF Next

LEMMA MessageInvInit ==
  ASSUME Init
  PROVE  MessageInv
<1>1. \A f \in Fids : locked[f] = <<>> /\ items[f] = <<>>
  BY DEF Init
<1>2. DOMAIN <<>> = {} /\ Range(<<>>) = {}
  BY RangeEmpty
<1>3. \A f \in Fids : Range(locked[f]) = {} /\ Range(items[f]) = {} /\ Distinct(items[f])
  BY <1>1, <1>2 DEF Distinct
<1>4. \A p \in Procs : dest[p] \notin Messages
  BY DEF Init
<1>5. \A m \in Messages : /\ \A f \in Fids : ~InBuffer(m, f)
                          /\ \A r \in Procs : ~InEntry(m, r) /\ ~InDest(m, r)
  BY <1>3, <1>4 DEF InBuffer, InEntry, InDest
<1> QED BY <1>3, <1>5 DEF MessageInv, OnePlace

LEMMA CardinalityAtMostOne ==
  ASSUME NEW S, \A x, y \in S : x = y
  PROVE  /\ Cardinality(S) \in {0, 1}
         /\ S = {} => Cardinality(S) = 0
<1>1. CASE S = {}
  BY <1>1, FS_EmptySet
<1>2. CASE S # {}
  <2>1. PICK x : x \in S
    BY <1>2
  <2>2. S = {x}
    BY <2>1
  <2> QED BY <1>2, <2>2, FS_Singleton
<1> QED BY <1>1, <1>2

LEMMA OneOfThree ==
  ASSUME NEW A, NEW B, NEW C,
         \A x, y \in A : x = y, \A x, y \in B : x = y, \A x, y \in C : x = y,
         A = {} \/ B = {}, A = {} \/ C = {}, B = {} \/ C = {}
  PROVE  Cardinality(A) + Cardinality(B) + Cardinality(C) <= 1
<1>1. Cardinality(A) \in {0, 1} /\ (A = {} => Cardinality(A) = 0)
  BY CardinalityAtMostOne
<1>2. Cardinality(B) \in {0, 1} /\ (B = {} => Cardinality(B) = 0)
  BY CardinalityAtMostOne
<1>3. Cardinality(C) \in {0, 1} /\ (C = {} => Cardinality(C) = 0)
  BY CardinalityAtMostOne
<1> QED BY <1>1, <1>2, <1>3

LEMMA NoMessageTwiceFromInv ==
  ASSUME QueueInv, MessageInv
  PROVE  NoMessageTwice
<1> SUFFICES ASSUME NEW m \in Messages
             PROVE  LET buffered == {b \in Fids \X (1 .. MaxSize) :
                                       b[2] <= Len(items[b[1]]) /\ items[b[1]][b[2]] = m}
                        waiting  == {p \in Procs : \E f \in Fids : \E i \in DOMAIN locked[f] :
                                       locked[f][i].pid = p /\ locked[f][i].message = m}
                        received == {p \in Procs : dest[p] = m}
                    IN  Cardinality(buffered) + Cardinality(waiting) + Cardinality(received) <= 1
  BY DEF NoMessageTwice
<1> DEFINE A == {b \in Fids \X (1 .. MaxSize) : b[2] <= Len(items[b[1]]) /\ items[b[1]][b[2]] = m}
           B == {p \in Procs : \E f \in Fids : \E i \in DOMAIN locked[f] :
                    locked[f][i].pid = p /\ locked[f][i].message = m}
           C == {p \in Procs : dest[p] = m}
<1>1. OnePlace(m)
  BY DEF MessageInv
<1>2. \A p \in B : p \in Procs /\ InEntry(m, p)
  BY DEF InEntry, Range
<1>3. \A p \in C : p \in Procs /\ InDest(m, p)
  BY DEF InDest
<1>4. ASSUME NEW b \in A
      PROVE  /\ b[1] \in Fids /\ InBuffer(m, b[1]) /\ b = <<b[1], b[2]>>
             /\ b[2] \in DOMAIN items[b[1]] /\ items[b[1]][b[2]] = m
  <2>1. b[1] \in Fids /\ b[2] \in 1 .. MaxSize /\ b[2] <= Len(items[b[1]]) /\ items[b[1]][b[2]] = m
        /\ b = <<b[1], b[2]>>
    OBVIOUS
  <2>2. items[b[1]] \in Seq(Messages)
    BY <2>1 DEF QueueInv, TypeOK
  <2>3. Len(items[b[1]]) \in Nat /\ DOMAIN items[b[1]] = 1 .. Len(items[b[1]])
    BY <2>2, LenProperties
  <2>4. b[2] \in DOMAIN items[b[1]]
    BY <2>1, <2>3
  <2> QED BY <2>1, <2>4 DEF InBuffer, Range
<1>5. ASSUME NEW b \in A, NEW c \in A PROVE b = c
  <2>1. b[1] = c[1]
    BY <1>1, <1>4 DEF OnePlace
  <2>2. Distinct(items[b[1]])
    BY <1>4 DEF MessageInv
  <2>3. b[2] = c[2]
    BY <1>4, <2>1, <2>2 DEF Distinct
  <2> QED BY <1>4, <2>1, <2>3
<1>6. \A b \in A : b[1] \in Fids /\ InBuffer(m, b[1])
  BY <1>4
<1>7. \A b, c \in A : b = c
  BY <1>5
<1> HIDE DEF A, B, C
<1>8. /\ \A p, q \in B : p = q
      /\ \A p, q \in C : p = q
      /\ A = {} \/ B = {}
      /\ A = {} \/ C = {}
      /\ B = {} \/ C = {}
  BY <1>1, <1>2, <1>3, <1>6 DEF OnePlace
<1>9. Cardinality(A) + Cardinality(B) + Cardinality(C) <= 1
  BY <1>7, <1>8, OneOfThree
<1> QED BY <1>9 DEF A, B, C

(***************************************************************************)
(* No sequence of wakes, resets and deaths puts a message in two places:   *)
(* the buffers, the entries of waiting senders and the variables of        *)
(* receivers hold it at most once between them.                            *)
(***************************************************************************)
THEOREM MessagesInOnePlace == Spec => []NoMessageTwice
<1>1. Init => MessageInv
  BY MessageInvInit
<1>2. QueueInv /\ MessageInv /\ [Next]_vars => MessageInv'
  BY MessageStep
<1>3. QueueInv /\ MessageInv => NoMessageTwice
  BY NoMessageTwiceFromInv
<1> QED BY <1>1, <1>2, <1>3, QueueInvAlways, PTL DEF Spec
-------------------------------------------------------------------------------
(* What Accepted says, in terms of the sets. *)
LEMMA AcceptedRange ==
  ASSUME NEW m, NEW q, NEW l
  PROVE  Accepted(m, q, l) <=> m \in Range(q) \/ \E x \in Range(l) : x.message = m
BY DEF Accepted, Range

(* Nothing leaves f when its sets of messages only grow. *)
LEMMA NothingLeaves ==
  ASSUME NEW f \in Fids, NEW m \in Messages,
         m \in Range(items[f]) => m \in Range(items'[f]),
         \A x \in Range(locked[f]) : x.message = m =>
            m \in Range(items'[f]) \/ \E y \in Range(locked'[f]) : y.message = m
  PROVE  LeavesInOrder(f, m)
<1>1. Accepted(m, items[f], locked[f]) => Accepted(m, items'[f], locked'[f])
  BY AcceptedRange
<1> QED BY <1>1 DEF LeavesInOrder

LEMMA PsendKeeps ==
  ASSUME QueueInv, NEW g \in Fids, NEW p \in Procs, NEW n \in Messages, Psend(g, p, n),
         NEW f \in Fids, NEW m \in Messages
  PROVE  LeavesInOrder(f, m)
<1>1. items \in [Fids -> Seq(Messages)] /\ Created(g) /\ Running(p)
  BY DEF QueueInv, TypeOK, Psend
<1>2. CASE /\ items[g] = <<>> /\ locked[g] # <<>>
           /\ WakeFirst(g)
           /\ UNCHANGED items
  <2>1. /\ Head(locked[g]) \in Range(locked[g])
        /\ \A h \in Fids : Range(locked'[h]) = {x \in Range(locked[h]) : x.pid # Head(locked[g]).pid}
    BY <1>2, WakeLists
  <2>2. \A x \in Range(locked[g]) : x.message = "none"
    <3>1. Len(items[g]) = 0 /\ size[g] # 0
      BY <1>1, <1>2, EmptySeq DEF Created
    <3> QED BY <2>1, <3>1 DEF QueueInv, BufferTells
  <2>3. "none" # m
    OBVIOUS
  <2>4. \A x \in Range(locked[f]) : x.message = m => x \in Range(locked'[f])
    BY <2>1, <2>2, <2>3 DEF QueueInv, OneList
  <2> QED BY <1>2, <2>4, NothingLeaves
<1>3. CASE Block(g, p, "psend", n) /\ UNCHANGED <<items, dest>>
  <2>1. \A h \in Fids : h # g => Range(locked'[h]) = Range(locked[h])
    BY <1>1, <1>3, BlockLists
  <2>2. PICK e \in Entry : EntryAdded(g, p, n, e)
    BY <1>1, <1>3, BlockLists
  <2>3. Range(locked[f]) \subseteq Range(locked'[f])
    BY <2>1, <2>2 DEF EntryAdded
  <2> QED BY <1>3, <2>3, NothingLeaves
<1>4. CASE /\ items' = [items EXCEPT ![g] = Append(@, n)]
           /\ UNCHANGED <<size, locked, fids, procs, released>>
  <2>1. items'[f] = IF f = g THEN Append(items[g], n) ELSE items[f]
    BY <1>1, <1>4
  <2>2. Range(Append(items[g], n)) = Range(items[g]) \cup {n}
    BY <1>1, RangeAppend
  <2>3. Range(items[f]) \subseteq Range(items'[f])
    BY <2>1, <2>2
  <2> QED BY <1>4, <2>3, NothingLeaves
<1> QED BY <1>2, <1>3, <1>4 DEF Psend

LEMMA PreceiveKeeps ==
  ASSUME QueueInv, NEW g \in Fids, NEW p \in Procs, Preceive(g, p),
         NEW f \in Fids, NEW m \in Messages
  PROVE  LeavesInOrder(f, m)
<1>1. items \in [Fids -> Seq(Messages)] /\ Created(g) /\ Running(p)
  BY DEF QueueInv, TypeOK, Preceive
<1>2. ASSUME items[g] # <<>>, NEW y \in Range(items[g]), y # items[g][1]
      PROVE  y \in Range(Tail(items[g]))
  <2>1. Head(items[g]) = items[g][1] /\ Range(items[g]) = Range(Tail(items[g])) \cup {Head(items[g])}
    BY <1>1, <1>2, RangeTail
  <2> QED BY <1>2, <2>1
<1>3. CASE m = items[f][1]
  BY <1>3 DEF LeavesInOrder
<1>4. CASE m # items[f][1] /\ Len(items[g]) = size[g] /\ locked[g] # <<>>
           /\ items' = [items EXCEPT ![g] = Append(Tail(@), Head(locked[g]).message)]
           /\ WakeFirst(g)
  <2> DEFINE h == Head(locked[g])
             t == Tail(items[g])
  <2>1. /\ h \in Range(locked[g])
        /\ \A k \in Fids : Range(locked'[k]) = {x \in Range(locked[k]) : x.pid # h.pid}
    BY <1>4, WakeLists
  <2>2. items[g] # <<>> /\ h.message \in Messages
    BY <1>1, <1>4, WhoWaits
  <2>3. t \in Seq(Messages)
    BY <1>1, <2>2, HeadTailProperties
  <2>4. items'[f] = IF f = g THEN Append(t, h.message) ELSE items[f]
    BY <1>1, <1>4
  <2>5. \A y \in Range(items[g]) : y # items[g][1] => y \in Range(t)
    BY <1>2, <2>2
  <2> HIDE DEF h, t
  <2>6. Range(Append(t, h.message)) = Range(t) \cup {h.message}
    BY <2>2, <2>3, RangeAppend
  <2>7. m \in Range(items[f]) => m \in Range(items'[f])
    BY <1>4, <2>4, <2>5, <2>6
  <2>8. ASSUME NEW x \in Range(locked[f]), x.message = m
        PROVE  m \in Range(items'[f]) \/ \E y \in Range(locked'[f]) : y.message = m
    <3>1. CASE x.pid = h.pid
      <4>1. f = g
        BY <2>1, <3>1 DEF QueueInv, OneList
      <4>2. x = h
        <5>1. InOrder(locked[g]) /\ DOMAIN locked[g] = 1 .. Len(locked[g])
          BY LenProperties DEF QueueInv, ListsInOrder, InOrder
        <5>2. \A z : z \in Range(locked[g]) <=> \E i \in 1 .. Len(locked[g]) : locked[g][i] = z
          BY <5>1, RangeMember DEF InOrder
        <5>3. PICK i \in 1 .. Len(locked[g]) : locked[g][i] = h
          BY <2>1, <5>2
        <5>4. PICK j \in 1 .. Len(locked[g]) : locked[g][j] = x
          BY <4>1, <5>2
        <5>5. i = j
          BY <3>1, <5>1, <5>3, <5>4 DEF InOrder, Once
        <5> QED BY <5>3, <5>4, <5>5
      <4> QED BY <2>4, <2>6, <2>8, <4>1, <4>2
    <3>2. CASE x.pid # h.pid
      BY <2>1, <2>8, <3>2
    <3> QED BY <3>1, <3>2
  <2> QED BY <2>7, <2>8, NothingLeaves
<1>5. CASE Block(g, p, "preceive", "none") /\ UNCHANGED <<items, dest>>
  <2>1. \A h \in Fids : h # g => Range(locked'[h]) = Range(locked[h])
    BY <1>1, <1>5, BlockLists
  <2>2. PICK e \in Entry : EntryAdded(g, p, "none", e)
    BY <1>1, <1>5, BlockLists
  <2>3. Range(locked[f]) \subseteq Range(locked'[f])
    BY <2>1, <2>2 DEF EntryAdded
  <2> QED BY <1>5, <2>3, NothingLeaves
<1>6. CASE /\ m # items[f][1] /\ items[g] # <<>>
           /\ items' = [items EXCEPT ![g] = Tail(@)]
           /\ UNCHANGED <<size, locked, fids, procs, released>>
  <2>1. items'[f] = IF f = g THEN Tail(items[g]) ELSE items[f]
    BY <1>1, <1>6
  <2>2. m \in Range(items[f]) => m \in Range(items'[f])
    BY <1>2, <1>6, <2>1
  <2> QED BY <1>6, <2>2, NothingLeaves
<1> QED BY <1>3, <1>4, <1>5, <1>6 DEF Preceive

LEMMA LeavesInOrderStep ==
  ASSUME QueueInv, Next, NEW f \in Fids, NEW m \in Messages
  PROVE  LeavesInOrder(f, m)
<1>1. CASE items' = items /\ locked' = locked
  BY <1>1, NothingLeaves
<1>2. ASSUME NEW g \in Fids, NEW p \in Procs, Preset(g, p) \/ Pdelete(g, p)
      PROVE  LeavesInOrder(f, m)
  <2>1. items' = [items EXCEPT ![g] = <<>>] /\ locked' = [locked EXCEPT ![g] = <<>>]
    BY <1>2 DEF Preset, Pdelete
  <2>2. items \in [Fids -> Seq(Messages)] /\ locked \in [Fids -> Seq(Entry)]
    BY DEF QueueInv, TypeOK
  <2>3. CASE f = g
    <3>1. items'[f] = <<>> /\ locked'[f] = <<>>
      BY <2>1, <2>2, <2>3
    <3> QED BY <3>1 DEF LeavesInOrder
  <2>4. CASE f # g
    <3>1. items'[f] = items[f] /\ locked'[f] = locked[f]
      BY <2>1, <2>2, <2>4
    <3> QED BY <3>1, NothingLeaves
  <2> QED BY <2>3, <2>4
<1>3. ASSUME NEW p \in Procs, Kill(p)
      PROVE  LeavesInOrder(f, m)
  <2>1. /\ items' = items
        /\ locked'[f] = IF Created(f) THEN RemovePid(locked[f], p) ELSE locked[f]
        /\ proc'[p] = "dead"
    BY <1>3 DEF Kill, QueueInv, TypeOK
  <2>2. Range(RemovePid(locked[f], p)) = {x \in Range(locked[f]) : x.pid # p}
    BY RemovePidInOrder DEF QueueInv, ListsInOrder
  <2>3. CASE \E i \in DOMAIN locked[f] : locked[f][i].message = m /\ locked[f][i].pid = p
    BY <2>1, <2>3 DEF LeavesInOrder
  <2>4. CASE \A i \in DOMAIN locked[f] : locked[f][i].message = m => locked[f][i].pid # p
    <3>1. \A x \in Range(locked[f]) : x.message = m => x.pid # p
      BY <2>4 DEF Range
    <3>2. \A x \in Range(locked[f]) : x.message = m => x \in Range(locked'[f])
      BY <2>1, <2>2, <3>1
    <3> QED BY <2>1, <3>2, NothingLeaves
  <2> QED BY <2>3, <2>4
<1>4. ASSUME NEW p \in Procs, NEW np \in Prios, Chprio(p, np)
      PROVE  LeavesInOrder(f, m)
  <2>1. items' = items
    BY <1>4 DEF Chprio
  <2>2. \A d \in Range(locked[f]) : \E x \in Range(locked'[f]) : x.message = d.message
    BY <1>4, ChprioLists
  <2> QED BY <2>1, <2>2, NothingLeaves
<1>5. CASE PcreateFails \/ \E count \in 1 .. MaxSize : Pcreate(count)
  BY <1>1, <1>5 DEF Pcreate, PcreateFails
<1>6. CASE \E p \in Procs : Resume(p) \/ \E np \in Prios : Start(p, np)
  BY <1>1, <1>6 DEF Resume, Start, table
<1> QED BY <1>2, <1>3, <1>4, <1>5, <1>6, PsendKeeps, PreceiveKeeps DEF Next

(***************************************************************************)
(* A message that psend has accepted, in the buffer or in the entry of a   *)
(* blocked sender, leaves its queue only as the oldest of the buffer, with *)
(* its killed sender, or when a reset empties the queue.                   *)
(***************************************************************************)
THEOREM MessagesAreKept == Spec => NoMessageLost
<1>1. QueueInv /\ [Next]_vars => [\A f \in Fids, m \in Messages : LeavesInOrder(f, m)]_vars
  BY LeavesInOrderStep
<1> QED BY <1>1, QueueInvAlways, PTL DEF Spec, NoMessageLost
-------------------------------------------------------------------------------
(***************************************************************************)
(* Standard input, which uses one of the queues.                           *)
(*                                                                         *)
(* ServiceInv says what the queue gives it: nobody resets the queue, so    *)
(* that every read is answered with a character, and at most one process   *)
(* waits with a character at the full buffer.                              *)
(*                                                                         *)
(* KeysInv says in which order the characters stand between the keyboard   *)
(* and the readers: those taken before those in the buffer, these before   *)
(* the one whose handler is stopped, and what handlers have still to send  *)
(* behind them all.  NotAfter(X, Y): no character of Y was typed before    *)
(* one of X.                                                               *)
(***************************************************************************)
NotAfter(X, Y) == \A x \in X, y \in Y : ~TypedBefore(y, x)

InTypedOrder(s) == \A i, j \in DOMAIN s : i < j => ~TypedBefore(s[j], s[i])

\* The characters of the senders that wait at the queue of standard input.
Held == {x.message : x \in Range(locked[stdin_fid])} \ {"none"}

\* What handlers have sent: read, in the buffer, or held.
Sent == Range(taken) \cup Range(items[stdin_fid]) \cup Held

FirstOfKey(m) == \E i \in DOMAIN typed : typed[i] # <<>> /\ typed[i][1] = m

\* What a handler has still to send is the rest of a key.
RestOfKey(s) ==
  s # <<>> => \E i \in DOMAIN typed : \E d \in 0 .. Len(typed[i]) :
                /\ Len(typed[i]) = d + Len(s)
                /\ \A j \in 1 .. Len(s) : s[j] = typed[i][d + j]

TypedOnce == \A i, k \in DOMAIN typed : \A j \in DOMAIN typed[i], l \in DOMAIN typed[k] :
               typed[i][j] = typed[k][l] => i = k /\ j = l

\* The first character of a key has not been sent only while its handler has the cpu.
FirstsAtOnce ==
  \A p \in Procs : (\E m \in Range(keys[p]) : FirstOfKey(m)) =>
    cpu = p /\ call[p] = "none" /\ ~IsReading(p)

AllTyped == /\ Sent \subseteq Used
            /\ \A p \in Procs : Range(keys[p]) \subseteq Used

QueueInOrder ==
  /\ InTypedOrder(taken) /\ InTypedOrder(items[stdin_fid])
  /\ NotAfter(Range(taken), Range(items[stdin_fid]))
  /\ NotAfter(Range(taken) \cup Range(items[stdin_fid]), Held)

KeysBehind ==
  /\ \A p \in Procs : NotAfter(Sent, Range(keys[p]))
  /\ \A p, q \in Procs : p # q => NotAfter(Range(keys[p]), Range(keys[q]))

KeysType == /\ keys \in [Procs -> Seq(Messages)] /\ cpu \in Procs \cup {AnyOne}
            /\ typed \in Seq(Seq(Messages)) /\ taken \in Seq(Messages)

KeysInv == /\ KeysType /\ TypedOnce /\ AllTyped /\ FirstsAtOnce
           /\ \A p \in Procs : RestOfKey(keys[p])
           /\ QueueInOrder /\ KeysBehind

\* A process that waits to send is the only one in the list.
OneSender == items[stdin_fid] # <<>> => \A x, y \in Range(locked[stdin_fid]) : x = y

ServiceInv == /\ QueueInv /\ AnswerInv /\ OneSender
              /\ \A f \in Fids : size[f] = IF f = stdin_fid THEN BufSize ELSE 0
              /\ \A p \in Procs : ~released[p]

-------------------------------------------------------------------------------
HIDE QueueConstants

LEMMA StdinFid == stdin_fid \in Fids
BY QueueConstants DEF stdin_fid, Fids

(* The queue of standard input, whose list holds senders or receivers. *)
LEMMA StdinQueue ==
  ASSUME ServiceInv
  PROVE  /\ Created(stdin_fid) /\ size[stdin_fid] = BufSize /\ BufSize \in Nat \ {0}
         /\ items[stdin_fid] \in Seq(Messages) /\ Len(items[stdin_fid]) \in Nat
         /\ items[stdin_fid] = <<>> <=> Len(items[stdin_fid]) = 0
         /\ Len(items[stdin_fid]) <= BufSize
         /\ locked[stdin_fid] \in Seq(Entry)
         /\ locked[stdin_fid] = <<>> <=> Range(locked[stdin_fid]) = {}
         /\ items[stdin_fid] = <<>> => Held = {}
         /\ items[stdin_fid] # <<>> /\ Len(items[stdin_fid]) < BufSize => locked[stdin_fid] = <<>>
         /\ Held \subseteq Messages
<1>1. stdin_fid \in Fids
  BY StdinFid
<1>2. size[stdin_fid] = BufSize /\ BufSize \in Nat \ {0}
  BY <1>1, StdinConstants, QueueConstants DEF ServiceInv
<1>3. Created(stdin_fid)
  BY <1>2 DEF Created
<1>4. /\ items[stdin_fid] \in Seq(Messages) /\ Len(items[stdin_fid]) \in Nat
      /\ items[stdin_fid] = <<>> <=> Len(items[stdin_fid]) = 0
      /\ locked[stdin_fid] # <<>> => items[stdin_fid] = <<>> \/ Len(items[stdin_fid]) = size[stdin_fid]
  BY <1>1, <1>3, WhoWaits DEF ServiceInv
<1>5. locked[stdin_fid] \in Seq(Entry)
  BY <1>1 DEF ServiceInv, QueueInv, TypeOK
<1>6. locked[stdin_fid] = <<>> <=> Range(locked[stdin_fid]) = {}
  BY <1>5, RangeMember
<1>7. Len(items[stdin_fid]) <= size[stdin_fid]
  BY <1>1 DEF ServiceInv, QueueInv, BufferTells
<1>8. ASSUME items[stdin_fid] = <<>>
      PROVE  Held = {}
  <2>1. \A x \in Range(locked[stdin_fid]) : x.message = "none"
    BY <1>1, <1>2, <1>4, <1>8 DEF ServiceInv, QueueInv, BufferTells
  <2> QED BY <2>1 DEF Held
<1>9. Held \subseteq Messages
  <2>1. Range(locked[stdin_fid]) \subseteq Entry
    BY <1>5, RangeMember
  <2>2. \A x \in Range(locked[stdin_fid]) : x.message \in Messages \cup {"none"}
    BY <2>1, EntryType
  <2> QED BY <2>2 DEF Held
<1>10. items[stdin_fid] # <<>> /\ Len(items[stdin_fid]) < BufSize => locked[stdin_fid] = <<>>
  BY <1>2, <1>4
<1> QED BY <1>2, <1>3, <1>4, <1>5, <1>6, <1>7, <1>8, <1>9, <1>10

(* A character is handed to a reader, or put into the buffer, or its handler *)
(* is stopped with it, and then it is the only one.                         *)
LEMMA SendEffect ==
  ASSUME ServiceInv, NEW p \in Procs, NEW m \in Messages, Psend(stdin_fid, p, m), ~TooMany
  PROVE  /\ Held = {}
         /\ \/ Handed /\ items' = items /\ items[stdin_fid] = <<>> /\ Held' = {}
            \/ /\ ~Handed /\ items' = items /\ Held' = {m}
               /\ \A x, y \in Range(locked'[stdin_fid]) : x = y
            \/ /\ ~Handed /\ locked' = locked /\ Held' = {} /\ locked[stdin_fid] = <<>>
               /\ items'[stdin_fid] = Append(items[stdin_fid], m)
<1> DEFINE f == stdin_fid
<1>0. f \in Fids /\ items \in [Fids -> Seq(Messages)]
  BY StdinFid DEF ServiceInv, QueueInv, TypeOK
<1>1. /\ size[f] = BufSize /\ BufSize \in Nat \ {0} /\ Len(items[f]) \in Nat
      /\ items[f] = <<>> <=> Len(items[f]) = 0
      /\ items[f] = <<>> => Held = {}
      /\ locked[f] = <<>> => Held = {}
      /\ locked[f] \in Seq(Entry)
  <2>1. locked[f] = <<>> => Held = {}
    BY StdinQueue DEF Held
  <2> QED BY <2>1, StdinQueue
<1>2. CASE /\ items[f] = <<>> /\ locked[f] # <<>> /\ WakeFirst(f) /\ UNCHANGED items
  <2>1. Range(locked'[f]) \subseteq Range(locked[f])
    BY <1>0, <1>2, WakeLists DEF ServiceInv
  <2>2. Held' = {}
    BY <1>1, <1>2, <2>1 DEF Held
  <2> QED BY <1>1, <1>2, <2>2 DEF Handed
<1>3. CASE /\ Len(items[f]) = size[f] /\ Block(f, p, "psend", m) /\ UNCHANGED items
  <2>1. items[f] # <<>>
    BY <1>1, <1>3
  <2>2. locked[f] = <<>>
    <3>1. Len(items[f]) + Len(locked[f]) <= BufSize /\ Len(locked[f]) \in Nat
      BY <1>1, <1>3, <2>1, LenProperties DEF TooMany, Pcount
    <3>2. Len(locked[f]) = 0
      BY <1>1, <1>3, <3>1
    <3> QED BY <1>1, <3>2, EmptySeq
  <2>3. Running(p)
    BY DEF Psend
  <2>4. PICK e \in Entry : EntryAdded(f, p, m, e)
    BY <1>0, <1>3, <2>3, BlockLists DEF ServiceInv
  <2>5. Range(locked'[f]) = {e} /\ e.message = m
    BY <2>2, <2>4, RangeEmpty DEF EntryAdded
  <2>6. m # "none"
    BY QueueConstants
  <2>7. Held' = {m}
    BY <2>5, <2>6 DEF Held
  <2> QED BY <1>1, <1>3, <2>1, <2>2, <2>5, <2>7 DEF Handed
<1>4. CASE /\ Len(items[f]) < size[f] /\ (items[f] = <<>> => locked[f] = <<>>)
           /\ items' = [items EXCEPT ![f] = Append(@, m)]
           /\ UNCHANGED <<size, locked, fids, procs, released>>
  <2>1. locked[f] = <<>>
    BY <1>1, <1>4, StdinQueue
  <2>2. Held = {} /\ Held' = {}
    BY <1>1, <1>4, <2>1 DEF Held
  <2>3. items'[f] = Append(items[f], m)
    BY <1>0, <1>4
  <2> QED BY <1>4, <2>1, <2>2, <2>3 DEF Handed
<1> QED BY <1>2, <1>3, <1>4 DEF Psend

(* A reader takes the oldest character, and the one of a stopped handler     *)
(* moves into its place; or there is none.                                  *)
LEMMA ReceiveEffect ==
  ASSUME ServiceInv, NEW p \in Procs, Preceive(stdin_fid, p)
  PROVE  \/ /\ items[stdin_fid] # <<>> /\ Held' = {} /\ Range(locked'[stdin_fid]) = {}
            /\ \E m \in Held : items'[stdin_fid] = Append(Tail(items[stdin_fid]), m)
         \/ items[stdin_fid] = <<>> /\ items' = items /\ Held' = {}
         \/ /\ items[stdin_fid] # <<>> /\ locked' = locked
            /\ items'[stdin_fid] = Tail(items[stdin_fid])
<1> DEFINE f == stdin_fid
           h == Head(locked[f])
<1>0. f \in Fids /\ items \in [Fids -> Seq(Messages)] /\ Created(f)
  BY StdinFid DEF ServiceInv, QueueInv, TypeOK, Preceive
<1>1. /\ size[f] = BufSize /\ BufSize \in Nat \ {0} /\ Len(items[f]) \in Nat
      /\ items[f] = <<>> <=> Len(items[f]) = 0
  BY StdinQueue
<1>2. CASE /\ Len(items[f]) = size[f] /\ locked[f] # <<>>
           /\ items' = [items EXCEPT ![f] = Append(Tail(@), h.message)]
           /\ WakeFirst(f)
  <2>1. items[f] # <<>>
    BY <1>1, <1>2
  <2>2. h \in Range(locked[f]) /\ Range(locked'[f]) = {x \in Range(locked[f]) : x.pid # h.pid}
    BY <1>0, <1>2, WakeLists DEF ServiceInv
  <2>3. \A x \in Range(locked[f]) : x = h
    BY <2>1, <2>2 DEF ServiceInv, OneSender
  <2>4. Range(locked'[f]) = {}
    BY <2>2, <2>3
  <2>5. h.message \in Messages
    BY <1>0, <1>2, WhoWaits DEF ServiceInv
  <2>6. h.message \in Held
    BY <2>2, <2>5, QueueConstants DEF Held
  <2>7. Held' = {}
    BY <2>4 DEF Held
  <2>8. items'[f] = Append(Tail(items[f]), h.message)
    BY <1>0, <1>2
  <2> QED BY <2>1, <2>4, <2>6, <2>7, <2>8
<1>3. CASE items[f] = <<>> /\ Block(f, p, "preceive", "none") /\ UNCHANGED items
  <2>1. Running(p)
    BY DEF Preceive
  <2>2. PICK e \in Entry : EntryAdded(f, p, "none", e)
    BY <1>0, <1>3, <2>1, BlockLists DEF ServiceInv
  <2>3. Held = {}
    BY <1>3, StdinQueue
  <2>4. Held' = {}
    BY <2>2, <2>3 DEF Held, EntryAdded
  <2> QED BY <1>3, <2>4
<1>4. CASE /\ items[f] # <<>> /\ items' = [items EXCEPT ![f] = Tail(@)]
           /\ UNCHANGED <<size, locked, fids, procs, released>>
  <2>1. items'[f] = Tail(items[f])
    BY <1>0, <1>4
  <2> QED BY <1>4, <2>1
<1> QED BY <1>2, <1>3, <1>4 DEF Preceive

(* The death of a process takes away at most the character it was stopped    *)
(* with.                                                                    *)
LEMMA KillEffect ==
  ASSUME ServiceInv, NEW p \in Procs, Kill(p)
  PROVE  /\ items' = items /\ Held' \subseteq Held
         /\ Range(locked'[stdin_fid]) \subseteq Range(locked[stdin_fid])
<1>1. stdin_fid \in Fids /\ Created(stdin_fid)
  BY StdinFid, StdinQueue
<1>2. locked'[stdin_fid] = RemovePid(locked[stdin_fid], p) /\ items' = items
  BY <1>1 DEF Kill
<1>3. InOrder(locked[stdin_fid])
  BY <1>1 DEF ServiceInv, QueueInv, ListsInOrder
<1>4. Range(locked'[stdin_fid]) \subseteq Range(locked[stdin_fid])
  BY <1>2, <1>3, RemovePidInOrder
<1> QED BY <1>2, <1>4 DEF Held

(* What the parts of standard input do to the queue. *)
LEMMA QueueStep ==
  ASSUME KeysType, [StdinNext]_stdin_vars
  PROVE  \/ UNCHANGED vars
         \/ \E p \in Procs, m \in Messages : ~TooMany /\ Psend(stdin_fid, p, m)
         \/ \E p \in Procs : Preceive(stdin_fid, p) \/ Resume(p) \/ Kill(p)
<1>1. CASE UNCHANGED stdin_vars
  BY <1>1 DEF stdin_vars
<1>2. ASSUME NEW p \in Procs, KeyboardData(p)
      PROVE  UNCHANGED vars \/ \E m \in Messages : ~TooMany /\ Psend(stdin_fid, p, m)
  <2>1. CASE TooMany
    BY <1>2, <2>1 DEF KeyboardData
  <2>2. CASE ~TooMany
    <3>1. keys[p] \in Seq(Messages) /\ keys[p] # <<>>
      BY <1>2 DEF KeysType, KeyboardData
    <3>2. Head(keys[p]) \in Messages
      BY <3>1, HeadTailProperties
    <3>3. Psend(stdin_fid, p, Head(keys[p]))
      BY <1>2, <2>2 DEF KeyboardData
    <3> QED BY <2>2, <3>2, <3>3
  <2> QED BY <2>1, <2>2
<1>3. ASSUME NEW p \in Procs, SendResumes(p) \/ ReadResumes(p)
      PROVE  Resume(p)
  BY <1>3 DEF SendResumes, ReadResumes
<1>4. ASSUME NEW p \in Procs, ReadNext(p)
      PROVE  Preceive(stdin_fid, p)
  BY <1>4 DEF ReadNext
<1>5. ASSUME NEW p \in Procs, NEW q \in Procs, StdinKill(q, p)
      PROVE  Kill(p)
  BY <1>5 DEF StdinKill
<1>6. ASSUME NEW p \in Procs, NEW n, KeyboardInterrupt(p, n)
      PROVE  UNCHANGED vars
  BY <1>6 DEF KeyboardInterrupt
<1>7. ASSUME NEW p \in Procs, NEW n, ConsRead(p, n)
      PROVE  UNCHANGED vars
  BY <1>7 DEF ConsRead
<1>8. CASE StdinNext
  <2>1. PICK p \in Procs : \/ \E n \in 1 .. MaxString : KeyboardInterrupt(p, n)
                           \/ KeyboardData(p) \/ SendResumes(p)
                           \/ \E length \in 1 .. MaxLength : ConsRead(p, length)
                           \/ ReadNext(p) \/ ReadResumes(p)
                           \/ \E q \in Procs : StdinKill(q, p)
    BY <1>8 DEF StdinNext
  <2> QED BY <2>1, <1>2, <1>3, <1>4, <1>5, <1>6, <1>7
<1> QED BY <1>1, <1>8

LEMMA OneSenderStep ==
  ASSUME ServiceInv, KeysType, [StdinNext]_stdin_vars
  PROVE  OneSender'
<1>1. items[stdin_fid] # <<>> => \A x, y \in Range(locked[stdin_fid]) : x = y
  BY DEF ServiceInv, OneSender
<1>2. CASE UNCHANGED vars
  BY <1>1, <1>2 DEF vars, table, OneSender
<1>3. ASSUME NEW p \in Procs, Resume(p)
      PROVE  OneSender'
  BY <1>1, <1>3 DEF Resume, table, OneSender
<1>4. ASSUME NEW p \in Procs, Kill(p)
      PROVE  OneSender'
  BY <1>1, <1>4, KillEffect DEF OneSender
<1>5. ASSUME NEW p \in Procs, NEW m \in Messages, ~TooMany, Psend(stdin_fid, p, m)
      PROVE  OneSender'
  <2>1. CASE items' = items /\ items[stdin_fid] = <<>>
    BY <2>1 DEF OneSender
  <2>2. CASE \A x, y \in Range(locked'[stdin_fid]) : x = y
    BY <2>2 DEF OneSender
  <2>3. CASE locked' = locked /\ locked[stdin_fid] = <<>>
    <3>1. Range(locked'[stdin_fid]) = {}
      BY <2>3, RangeEmpty
    <3> QED BY <3>1 DEF OneSender
  <2> QED BY <1>5, <2>1, <2>2, <2>3, SendEffect
<1>6. ASSUME NEW p \in Procs, Preceive(stdin_fid, p)
      PROVE  OneSender'
  <2>1. CASE Range(locked'[stdin_fid]) = {}
    BY <2>1 DEF OneSender
  <2>2. CASE items[stdin_fid] = <<>> /\ items' = items
    BY <2>2 DEF OneSender
  <2>3. CASE items[stdin_fid] # <<>> /\ locked' = locked
    BY <1>1, <2>3 DEF OneSender
  <2> QED BY <1>6, <2>1, <2>2, <2>3, ReceiveEffect
<1> QED BY <1>2, <1>3, <1>4, <1>5, <1>6, QueueStep

(* The queue is neither reset nor deleted, so no call is released. *)
LEMMA ServiceStep ==
  ASSUME ServiceInv, KeysType, [StdinNext]_stdin_vars
  PROVE  ServiceInv'
<1>1. [Next]_vars
  BY QueueStep, StdinFid DEF Next
<1>2. QueueInv'
  BY <1>1, QueueInvStep DEF ServiceInv
<1>3. AnswerInv'
  BY <1>1, AnswerStep DEF ServiceInv
<1>4. UNCHANGED size /\ (released' = released \/ \E p \in Procs : released' = [released EXCEPT ![p] = FALSE])
  <2>1. ASSUME NEW p \in Procs, NEW m \in Messages, Psend(stdin_fid, p, m)
        PROVE  UNCHANGED <<size, released>>
    BY <2>1 DEF Psend, WakeFirst, Block
  <2>2. ASSUME NEW p \in Procs, Preceive(stdin_fid, p)
        PROVE  UNCHANGED <<size, released>>
    BY <2>2 DEF Preceive, WakeFirst, Block
  <2>3. ASSUME NEW p \in Procs, Resume(p)
        PROVE  UNCHANGED size /\ released' = [released EXCEPT ![p] = FALSE]
    BY <2>3 DEF Resume, table
  <2>4. ASSUME NEW p \in Procs, Kill(p)
        PROVE  UNCHANGED <<size, released>>
    BY <2>4 DEF Kill
  <2>5. CASE UNCHANGED vars
    BY <2>5 DEF vars, table
  <2> QED BY <2>1, <2>2, <2>3, <2>4, <2>5, QueueStep
<1>5. \A r \in Procs : ~released'[r]
  <2>1. released \in [Procs -> BOOLEAN] /\ \A r \in Procs : ~released[r]
    BY DEF ServiceInv, QueueInv, TypeOK
  <2> QED BY <1>4, <2>1
<1> QED BY <1>2, <1>3, <1>4, <1>5, OneSenderStep DEF ServiceInv

LEMMA ServiceInit ==
  ASSUME StdinInit
  PROVE  ServiceInv
<1>1. \A f \in Fids : /\ locked[f] = <<>> /\ items[f] = <<>>
                      /\ size[f] = IF f = stdin_fid THEN BufSize ELSE 0
  BY DEF StdinInit
<1>2. \A f \in Fids : InOrder(locked[f]) /\ Range(locked[f]) = {} /\ Len(items[f]) = 0
  BY <1>1, EmptyInOrder
<1>3. BufSize \in 1 .. MaxSize /\ MaxSize \in Nat /\ NbQueue \in Nat \ {0}
  BY StdinConstants, QueueConstants
<1>4. /\ NbQueue - 1 \in Nat /\ fids \in Seq(Fids) /\ DOMAIN fids = 1 .. NbQueue - 1
      /\ \A i \in 1 .. NbQueue - 1 : fids[i] = i
  <2>1. fids \in [1 .. NbQueue - 1 -> Fids] /\ NbQueue - 1 \in Nat
    BY <1>3 DEF StdinInit, Fids
  <2> QED BY <2>1, SeqDef DEF StdinInit
<1>5. FidsAccounted
  <2>1. \A i, j \in DOMAIN fids : fids[i] = fids[j] => i = j
    BY <1>4
  <2>2. \A f \in Fids : f # 0 => f \in DOMAIN fids /\ fids[f] = f
    BY <1>3, <1>4 DEF Fids
  <2>3. \A i \in DOMAIN fids : fids[i] # 0
    BY <1>4
  <2>4. \A f \in Fids : Created(f) <=> f = 0
    BY <1>1, <1>3 DEF Created, stdin_fid
  <2> QED BY <2>1, <2>2, <2>3, <2>4 DEF FidsAccounted
<1>6. TypeOK
  <2>1. size \in [Fids -> 0 .. MaxSize]
    BY <1>3 DEF StdinInit
  <2>2. items \in [Fids -> Seq(Messages)] /\ locked \in [Fids -> Seq(Entry)]
    BY EmptySeq DEF StdinInit
  <2> QED BY <1>4, <2>1, <2>2 DEF StdinInit, TypeOK
<1>7. BufferTells
  BY <1>1, <1>2, <1>3 DEF BufferTells
<1>8. ListsInOrder /\ OneList /\ EntriesTrue
  BY <1>2 DEF ListsInOrder, OneList, EntriesTrue
<1>9. BlockedListed
  BY <1>2 DEF BlockedListed, StdinInit
<1>10. AnswerInv /\ \A p \in Procs : ~released[p]
  BY DEF StdinInit, AnswerInv, AnswersAgree, AnswersExact, FlagsFresh, NothingLeft
<1>11. OneSender /\ \A f \in Fids : size[f] = IF f = stdin_fid THEN BufSize ELSE 0
  BY <1>1, StdinFid DEF OneSender
<1> QED BY <1>5, <1>6, <1>7, <1>8, <1>9, <1>10, <1>11 DEF QueueInv, ServiceInv

-------------------------------------------------------------------------------
(* A key that is pressed adds its string: nothing is typed before what is    *)
(* there already, and of that only the first character of a key is before   *)
(* the new one.                                                             *)
LEMMA KeyPressed ==
  ASSUME KeysType, TypedOnce, NEW n \in Nat \ {0}, NEW new \in [1 .. n -> Messages \ Used],
         IsInjective(new), typed' = Append(typed, new)
  PROVE  /\ typed' \in Seq(Seq(Messages)) /\ new \in Seq(Messages) /\ TypedOnce'
         /\ Range(new) \cap Used = {} /\ Used \subseteq Used' /\ Range(new) \subseteq Used'
         /\ RestOfKey(new)' /\ \A s : RestOfKey(s) => RestOfKey(s)'
         /\ \A a, b : b \in Used /\ TypedBefore(a, b)' => TypedBefore(a, b)
         /\ \A a, b : a \in Used /\ b \in Range(new) /\ TypedBefore(a, b)' => FirstOfKey(a)
         /\ \A a : a \in Used /\ FirstOfKey(a)' => FirstOfKey(a)
<1> DEFINE N == Len(typed)
<1>1. /\ typed \in Seq(Seq(Messages)) /\ N \in Nat /\ DOMAIN typed = 1 .. N
      /\ \A i \in 1 .. N : typed[i] \in Seq(Messages)
  BY LenProperties, ElementOfSeq DEF KeysType
<1>2. new \in Seq(Messages) /\ Len(new) = n /\ DOMAIN new = 1 .. n
  <2>1. new \in [1 .. n -> Messages]
    OBVIOUS
  <2>2. new \in Seq(Messages)
    BY <2>1, SeqDef
  <2>3. new \in [1 .. Len(new) -> Messages] /\ Len(new) \in Nat
    BY <2>2, LenProperties
  <2>4. 1 .. n = 1 .. Len(new)
    BY <2>1, <2>3
  <2>5. n = Len(new)
    BY <2>3, <2>4
  <2> QED BY <2>1, <2>2, <2>5
<1>3. /\ typed' \in Seq(Seq(Messages)) /\ Len(typed') = N + 1 /\ DOMAIN typed' = 1 .. N + 1
      /\ \A i \in 1 .. N : typed'[i] = typed[i]
      /\ typed'[N + 1] = new
  <2>1. /\ typed' \in Seq(Seq(Messages)) /\ Len(typed') = N + 1
        /\ \A i \in 1 .. N : typed'[i] = typed[i]
        /\ typed'[N + 1] = new
    BY <1>1, <1>2, AppendProperties
  <2> QED BY <2>1, LenProperties
<1>4. /\ Range(new) \cap Used = {}
      /\ \A j \in 1 .. n : new[j] \notin Used /\ new[j] \in Messages /\ new[j] \in Range(new)
      /\ \A b : b \in Range(new) <=> \E j \in 1 .. n : new[j] = b
  BY <1>2 DEF Range
<1>5. ASSUME NEW i \in 1 .. N, NEW j \in DOMAIN typed[i]
      PROVE  typed[i][j] \in Used
  <2>1. PICK t \in Seq(Messages) : t = typed[i]
    BY <1>1
  <2>2. t[j] \in Messages
    BY <2>1, LenProperties
  <2> QED BY <1>1, <2>1, <2>2 DEF Used
<1>6. \A i \in 1 .. N + 1 : i \in 1 .. N \/ i = N + 1
  BY <1>1
<1>7. N + 1 \in 1 .. N + 1 /\ N + 1 \notin 1 .. N /\ \A i \in 1 .. N : i \in 1 .. N + 1
  BY <1>1
<1> DEFINE Earlier(a, b, i, k) ==
             \E j \in DOMAIN typed'[i], l \in DOMAIN typed'[k] :
               /\ typed'[i][j] = a /\ typed'[k][l] = b
               /\ \/ i = k /\ j < l
                  \/ i < k /\ j = 1 /\ l = 1
<1> HIDE DEF N
<1>8. TypedOnce'
  <2> SUFFICES ASSUME NEW i \in 1 .. N + 1, NEW k \in 1 .. N + 1,
                      NEW j \in DOMAIN typed'[i], NEW l \in DOMAIN typed'[k],
                      typed'[i][j] = typed'[k][l]
               PROVE  i = k /\ j = l
    BY <1>3 DEF TypedOnce
  <2>1. CASE i \in 1 .. N /\ k \in 1 .. N
    <3>1. /\ i \in DOMAIN typed /\ k \in DOMAIN typed
          /\ typed'[i] = typed[i] /\ typed'[k] = typed[k]
      BY <1>1, <1>3, <2>1
    <3>2. j \in DOMAIN typed[i] /\ l \in DOMAIN typed[k] /\ typed[i][j] = typed[k][l]
      BY <3>1
    <3> QED BY <3>1, <3>2 DEF TypedOnce
  <2>2. CASE i = N + 1 /\ k \in 1 .. N
    BY <1>2, <1>3, <1>4, <1>5, <2>2
  <2>3. CASE i \in 1 .. N /\ k = N + 1
    BY <1>2, <1>3, <1>4, <1>5, <2>3
  <2>4. CASE i = N + 1 /\ k = N + 1
    BY <1>2, <1>3, <2>4 DEF IsInjective
  <2> QED BY <1>6, <2>1, <2>2, <2>3, <2>4
<1>9. Used \subseteq Used' /\ Range(new) \subseteq Used'
  <2>1. Used \subseteq Used'
    BY <1>1, <1>3, <1>7 DEF Used
  <2>2. ASSUME NEW b \in Range(new)
        PROVE  b \in Used'
    <3>1. PICK j \in 1 .. n : new[j] = b /\ b \in Messages
      BY <1>4
    <3>2. N + 1 \in DOMAIN typed' /\ j \in DOMAIN typed'[N + 1] /\ typed'[N + 1][j] = b
      BY <1>2, <1>3, <1>7, <3>1
    <3> QED BY <3>1, <3>2 DEF Used
  <2> QED BY <2>1, <2>2
<1>10. RestOfKey(new)'
  <2>1. /\ 0 \in 0 .. Len(typed'[N + 1]) /\ Len(typed'[N + 1]) = 0 + Len(new)
        /\ \A j \in 1 .. Len(new) : new[j] = typed'[N + 1][0 + j]
    BY <1>2, <1>3
  <2> QED BY <1>3, <1>7, <2>1 DEF RestOfKey
<1>11. ASSUME NEW s, RestOfKey(s)
       PROVE  RestOfKey(s)'
  BY <1>1, <1>3, <1>7, <1>11 DEF RestOfKey
<1>13. ASSUME NEW a, NEW b, b \in Used, TypedBefore(a, b)'
       PROVE  TypedBefore(a, b)
  <2>0. \E i, k \in 1 .. N + 1 : Earlier(a, b, i, k)
    BY <1>3, <1>13 DEF TypedBefore
  <2>1. PICK i \in 1 .. N + 1, k \in 1 .. N + 1 : Earlier(a, b, i, k)
    BY <2>0
  <2>2. k # N + 1
    BY <1>2, <1>3, <1>4, <1>13, <2>1
  <2>3. k \in 1 .. N
    BY <1>6, <2>2
  <2>4. i \in 1 .. N
    BY <1>1, <2>1, <2>3 DEF N
  <2> QED BY <1>1, <1>3, <2>1, <2>3, <2>4 DEF TypedBefore
<1>14. ASSUME NEW a, a \in Used, NEW i \in 1 .. N + 1, NEW j \in DOMAIN typed'[i], typed'[i][j] = a
       PROVE  i \in 1 .. N /\ typed[i][j] = a /\ j \in DOMAIN typed[i]
  <2>1. i # N + 1
    BY <1>2, <1>3, <1>4, <1>14
  <2> QED BY <1>3, <1>6, <1>14, <2>1
<1>15. ASSUME NEW a, NEW b, a \in Used, b \in Range(new), TypedBefore(a, b)'
       PROVE  FirstOfKey(a)
  <2>0. \E i, k \in 1 .. N + 1 : Earlier(a, b, i, k)
    BY <1>3, <1>15 DEF TypedBefore
  <2>1. PICK i \in 1 .. N + 1, k \in 1 .. N + 1 : Earlier(a, b, i, k)
    BY <2>0
  <2>2. i \in 1 .. N
    BY <1>14, <1>15, <2>1
  <2>3. k \notin 1 .. N
    BY <1>3, <1>4, <1>5, <1>15, <2>1
  <2>4. PICK j \in DOMAIN typed[i] : typed[i][j] = a /\ j = 1
    BY <1>3, <2>1, <2>2, <2>3
  <2>5. typed[i] # <<>>
    BY <1>1, <2>2, <2>4, EmptySeq, LenProperties
  <2> QED BY <1>1, <2>2, <2>4, <2>5 DEF FirstOfKey
<1>16. ASSUME NEW a, a \in Used, FirstOfKey(a)'
       PROVE  FirstOfKey(a)
  <2>1. PICK i \in 1 .. N + 1 : typed'[i] # <<>> /\ typed'[i][1] = a
    BY <1>3, <1>16 DEF FirstOfKey
  <2>2. PICK t \in Seq(Messages) : t = typed'[i]
    BY <1>3, ElementOfSeq
  <2>3. 1 \in DOMAIN typed'[i]
    <3>1. Len(t) \in Nat \ {0} /\ DOMAIN t = 1 .. Len(t)
      BY <2>1, <2>2, EmptySeq, LenProperties
    <3>2. 1 \in DOMAIN t
      BY <3>1
    <3> QED BY <2>2, <3>2
  <2>4. i \in 1 .. N /\ typed[i][1] = a
    <3>1. \A j \in DOMAIN typed'[i] : typed'[i][j] = a => i \in 1 .. N /\ typed[i][j] = a
      BY <1>14, <1>16
    <3> QED BY <2>1, <2>3, <3>1
  <2> QED BY <1>1, <1>3, <2>1, <2>4 DEF FirstOfKey
<1> QED BY <1>2, <1>3, <1>4, <1>8, <1>9, <1>10, <1>11, <1>13, <1>15, <1>16

(* The rest of a key is in order, and what is behind its first character has *)
(* no first character of a key.                                             *)
LEMMA RestInOrder ==
  ASSUME KeysType, TypedOnce, NEW s \in Seq(Messages), s # <<>>, RestOfKey(s)
  PROVE  /\ RestOfKey(Tail(s)) /\ Tail(s) \in Seq(Messages)
         /\ Head(s) \in Range(s) /\ Range(Tail(s)) \subseteq Range(s)
         /\ \A m \in Range(Tail(s)) : ~FirstOfKey(m) /\ ~TypedBefore(m, Head(s))
<1>0. PICK e \in DOMAIN typed : \E d \in 0 .. Len(typed[e]) :
         /\ Len(typed[e]) = d + Len(s)
         /\ \A j \in 1 .. Len(s) : s[j] = typed[e][d + j]
  BY DEF RestOfKey
<1>1. PICK d \in 0 .. Len(typed[e]) :
         /\ Len(typed[e]) = d + Len(s)
         /\ \A j \in 1 .. Len(s) : s[j] = typed[e][d + j]
  BY <1>0
<1>2. /\ \A i \in DOMAIN typed : /\ typed[i] \in Seq(Messages) /\ Len(typed[i]) \in Nat
                                 /\ DOMAIN typed[i] = 1 .. Len(typed[i])
  BY LenProperties, ElementOfSeq DEF KeysType
<1>3. Len(s) \in Nat \ {0} /\ d \in Nat
  BY <1>2, EmptySeq
<1>4. /\ Tail(s) \in Seq(Messages) /\ Len(Tail(s)) = Len(s) - 1
      /\ \A j \in 1 .. Len(Tail(s)) : Tail(s)[j] = s[j + 1]
  BY HeadTailProperties
<1>5. RestOfKey(Tail(s))
  <2>1. d + 1 \in 0 .. Len(typed[e]) /\ Len(typed[e]) = (d + 1) + Len(Tail(s))
    BY <1>1, <1>2, <1>3, <1>4
  <2>2. \A j \in 1 .. Len(Tail(s)) : Tail(s)[j] = typed[e][(d + 1) + j]
    BY <1>1, <1>3, <1>4
  <2> QED BY <2>1, <2>2 DEF RestOfKey
<1>6. /\ Head(s) = s[1] /\ Head(s) \in Range(s) /\ Range(Tail(s)) \subseteq Range(s)
      /\ \A m : m \in Range(Tail(s)) <=> \E i \in 2 .. Len(s) : s[i] = m
  BY RangeTail
<1>7. ASSUME NEW m \in Range(Tail(s))
      PROVE  ~FirstOfKey(m) /\ ~TypedBefore(m, Head(s))
  <2>1. PICK i \in 2 .. Len(s) : s[i] = m
    BY <1>6
  <2>2. /\ m = typed[e][d + i] /\ d + i \in DOMAIN typed[e] /\ d + i # 1
        /\ Head(s) = typed[e][d + 1] /\ d + 1 \in DOMAIN typed[e] /\ d + 1 < d + i
    BY <1>1, <1>2, <1>3, <1>6, <2>1
  <2>3. ~FirstOfKey(m)
    <3>1. SUFFICES ASSUME NEW k \in DOMAIN typed, typed[k] # <<>>, typed[k][1] = m
                   PROVE  FALSE
      BY DEF FirstOfKey
    <3>2. 1 \in DOMAIN typed[k]
      BY <1>2, <3>1, EmptySeq
    <3> QED BY <2>2, <3>1, <3>2 DEF TypedOnce
  <2>4. ~TypedBefore(m, Head(s))
    <3>1. SUFFICES ASSUME NEW a \in DOMAIN typed, NEW c \in DOMAIN typed,
                          NEW j \in DOMAIN typed[a], NEW l \in DOMAIN typed[c],
                          typed[a][j] = m, typed[c][l] = Head(s),
                          \/ a = c /\ j < l
                          \/ a < c /\ j = 1 /\ l = 1
                   PROVE  FALSE
      BY DEF TypedBefore
    <3>2. a = e /\ j = d + i
      BY <2>2, <3>1 DEF TypedOnce
    <3>3. c = e /\ l = d + 1
      BY <2>2, <3>1 DEF TypedOnce
    <3> QED BY <1>3, <2>1, <3>1, <3>2, <3>3
  <2> QED BY <2>3, <2>4
<1> QED BY <1>4, <1>5, <1>6, <1>7

LEMMA OrderedAppend ==
  ASSUME NEW s \in Seq(Messages), NEW m \in Messages, InTypedOrder(s),
         \A x \in Range(s) : ~TypedBefore(m, x)
  PROVE  InTypedOrder(Append(s, m))
<1> DEFINE t == Append(s, m)
<1>1. /\ t \in Seq(Messages) /\ Len(t) = Len(s) + 1 /\ t[Len(s) + 1] = m
      /\ \A i \in 1 .. Len(s) : t[i] = s[i]
  BY AppendProperties
<1>2. /\ Len(s) \in Nat /\ DOMAIN s = 1 .. Len(s) /\ DOMAIN t = 1 .. Len(s) + 1
      /\ \A i \in 1 .. Len(s) : s[i] \in Range(s)
  BY <1>1, LenProperties DEF Range
<1> HIDE DEF t
<1>3. ASSUME NEW i \in 1 .. Len(s) + 1, NEW j \in 1 .. Len(s) + 1, i < j
      PROVE  ~TypedBefore(t[j], t[i])
  <2>1. i \in 1 .. Len(s) /\ t[i] = s[i]
    BY <1>1, <1>2, <1>3
  <2>2. CASE j = Len(s) + 1
    BY <1>1, <1>2, <2>1, <2>2
  <2>3. CASE j # Len(s) + 1
    <3>1. j \in 1 .. Len(s) /\ t[j] = s[j]
      BY <1>1, <1>2, <2>3
    <3> QED BY <1>2, <1>3, <2>1, <3>1 DEF InTypedOrder
  <2> QED BY <2>2, <2>3
<1>4. InTypedOrder(t)
  BY <1>2, <1>3 DEF InTypedOrder
<1> QED BY <1>4 DEF t

LEMMA OrderedTail ==
  ASSUME NEW s \in Seq(Messages), s # <<>>, InTypedOrder(s)
  PROVE  /\ InTypedOrder(Tail(s)) /\ Tail(s) \in Seq(Messages)
         /\ Head(s) \in Range(s) /\ Head(s) \in Messages /\ Range(Tail(s)) \subseteq Range(s)
         /\ \A x \in Range(Tail(s)) : ~TypedBefore(x, Head(s))
<1>1. /\ Tail(s) \in Seq(Messages) /\ Len(Tail(s)) = Len(s) - 1
      /\ \A i \in 1 .. Len(Tail(s)) : Tail(s)[i] = s[i + 1]
  BY HeadTailProperties
<1>2. /\ Len(s) \in Nat \ {0} /\ DOMAIN s = 1 .. Len(s) /\ DOMAIN Tail(s) = 1 .. Len(s) - 1
  BY <1>1, LenProperties, EmptySeq
<1>3. /\ Head(s) = s[1] /\ Head(s) \in Range(s) /\ Range(Tail(s)) \subseteq Range(s)
      /\ \A x : x \in Range(Tail(s)) <=> \E i \in 2 .. Len(s) : s[i] = x
  BY RangeTail
<1>4. \A x \in Range(Tail(s)) : ~TypedBefore(x, Head(s))
  BY <1>2, <1>3 DEF InTypedOrder
<1>5. Head(s) \in Messages
  BY <1>3, RangeMember
<1>6. ASSUME NEW i \in 1 .. Len(s) - 1, NEW j \in 1 .. Len(s) - 1, i < j
      PROVE  ~TypedBefore(Tail(s)[j], Tail(s)[i])
  <2>1. Tail(s)[i] = s[i + 1] /\ Tail(s)[j] = s[j + 1]
    BY <1>1
  <2>2. i + 1 \in DOMAIN s /\ j + 1 \in DOMAIN s /\ i + 1 < j + 1
    BY <1>2, <1>6
  <2> QED BY <2>1, <2>2 DEF InTypedOrder
<1>7. InTypedOrder(Tail(s))
  BY <1>2, <1>6 DEF InTypedOrder
<1> QED BY <1>1, <1>3, <1>4, <1>5, <1>7

(* The step of a process that has no key to begin, or is elsewhere in the    *)
(* kernel, is taken when no key has to be begun.                            *)
LEMMA NoFirst ==
  ASSUME KeysInv, NEW p \in Procs, HasCpu(p),
         cpu = AnyOne \/ call[p] # "none" \/ IsReading(p),
         NEW r \in Procs, NEW m \in Range(keys[r])
  PROVE  ~FirstOfKey(m)
BY StdinConstants DEF KeysInv, FirstsAtOnce, HasCpu

(* A step that sends nothing, after which no key has to be begun. *)
LEMMA KeysStay ==
  ASSUME KeysInv, KeysType', typed' = typed, QueueInOrder', Sent' \subseteq Sent,
         \A r \in Procs : keys'[r] = keys[r] \/ keys'[r] = <<>>,
         \A r \in Procs : \A m \in Range(keys'[r]) : ~FirstOfKey(m)
  PROVE  KeysInv'
<1>1. \A r \in Procs : Range(keys'[r]) \subseteq Range(keys[r])
  BY RangeEmpty
<1>2. TypedOnce'
  BY DEF KeysInv, TypedOnce
<1>3. Used' = Used
  BY DEF Used
<1>4. AllTyped'
  BY <1>1, <1>3 DEF KeysInv, AllTyped
<1>5. \A m : FirstOfKey(m)' <=> FirstOfKey(m)
  BY DEF FirstOfKey
<1>6. FirstsAtOnce'
  BY <1>1, <1>5 DEF FirstsAtOnce
<1>7. ASSUME NEW r \in Procs
      PROVE  RestOfKey(keys[r])'
  <2>1. CASE keys'[r] = <<>>
    BY <2>1 DEF RestOfKey
  <2>2. CASE keys'[r] = keys[r]
    <3>1. PICK s : s = keys[r] /\ s = keys'[r]
      BY <2>2
    <3>2. RestOfKey(s)
      BY <3>1 DEF KeysInv
    <3>3. s # <<>> => \E i \in DOMAIN typed' : \E d \in 0 .. Len(typed'[i]) :
                        /\ Len(typed'[i]) = d + Len(s)
                        /\ \A j \in 1 .. Len(s) : s[j] = typed'[i][d + j]
      BY <3>2 DEF RestOfKey
    <3> QED BY <3>1, <3>3 DEF RestOfKey
  <2> QED BY <2>1, <2>2
<1>9. \A a, b : TypedBefore(a, b)' <=> TypedBefore(a, b)
  BY DEF TypedBefore
<1>10. KeysBehind'
  <2>1. \A r \in Procs : NotAfter(Sent, Range(keys[r]))
    BY DEF KeysInv, KeysBehind
  <2>2. \A r, q \in Procs : r # q => NotAfter(Range(keys[r]), Range(keys[q]))
    BY DEF KeysInv, KeysBehind
  <2>3. \A r \in Procs : NotAfter(Sent, Range(keys[r]))'
    BY <1>1, <1>9, <2>1 DEF NotAfter
  <2>4. \A r, q \in Procs : r # q => NotAfter(Range(keys[r]), Range(keys[q]))'
    BY <1>1, <1>9, <2>2 DEF NotAfter
  <2> QED BY <2>3, <2>4 DEF KeysBehind
<1> QED BY <1>2, <1>4, <1>6, <1>7, <1>10 DEF KeysInv

LEMMA OnlyTypedBefore ==
  ASSUME KeysType, NEW a, NEW b, TypedBefore(a, b)
  PROVE  a \in Used
<1>1. PICK i \in DOMAIN typed : \E j \in DOMAIN typed[i] : typed[i][j] = a
  BY DEF TypedBefore
<1>2. PICK j \in DOMAIN typed[i] : typed[i][j] = a
  BY <1>1
<1>3. PICK t \in Seq(Messages) : t = typed[i]
  BY ElementOfSeq, LenProperties DEF KeysType
<1>4. a \in Messages
  BY <1>2, <1>3, LenProperties
<1> QED BY <1>2, <1>4 DEF Used

(* What keyboard_data sends goes to the end of the queue, or to the reader   *)
(* that waits for it.                                                       *)
LEMMA SentInOrder ==
  ASSUME ServiceInv, KeysInv, NEW p \in Procs, NEW m \in Messages,
         \A x \in Sent : ~TypedBefore(m, x),
         Psend(stdin_fid, p, m), ~TooMany, typed' = typed,
         taken' = IF Handed THEN Append(taken, m) ELSE taken
  PROVE  QueueInOrder' /\ Sent' = Sent \cup {m} /\ taken' \in Seq(Messages)
<1> DEFINE T == Range(taken)
           I == Range(items[stdin_fid])
<1>1. taken \in Seq(Messages) /\ items[stdin_fid] \in Seq(Messages)
  BY StdinQueue DEF KeysInv, KeysType
<1>2. InTypedOrder(taken) /\ InTypedOrder(items[stdin_fid]) /\ NotAfter(T, I)
  BY DEF KeysInv, QueueInOrder
<1>3. Held = {} /\ Sent = T \cup I
  BY SendEffect DEF Sent
<1>4. \A x \in T \cup I : ~TypedBefore(m, x)
  BY <1>3
<1>5. \A a, b : TypedBefore(a, b)' <=> TypedBefore(a, b)
  BY DEF TypedBefore
<1>6. \A s : InTypedOrder(s) => \A i, j \in DOMAIN s : i < j => ~TypedBefore(s[j], s[i])'
  BY <1>5 DEF InTypedOrder
<1> USE DEF NotAfter
<1>7. CASE Handed /\ items' = items /\ items[stdin_fid] = <<>> /\ Held' = {}
  <2>1. taken' = Append(taken, m) /\ Append(taken, m) \in Seq(Messages)
    BY <1>1, <1>7, AppendProperties
  <2>2. Range(taken') = T \cup {m} /\ Range(items'[stdin_fid]) = {} /\ I = {}
    BY <1>1, <1>7, <2>1, RangeAppend, RangeEmpty
  <2>3. InTypedOrder(Append(taken, m))
    BY <1>1, <1>2, <1>4, OrderedAppend
  <2>4. InTypedOrder(taken)'
    BY <1>6, <2>1, <2>3 DEF InTypedOrder
  <2>5. InTypedOrder(items[stdin_fid])'
    BY <1>2, <1>6, <1>7 DEF InTypedOrder
  <2>6. QueueInOrder'
    BY <1>7, <2>2, <2>4, <2>5 DEF QueueInOrder
  <2>7. Sent' = Sent \cup {m}
    BY <1>3, <1>7, <2>2 DEF Sent
  <2> QED BY <2>1, <2>6, <2>7
<1>8. CASE ~Handed /\ items' = items /\ Held' = {m}
  <2>1. taken' = taken
    BY <1>8
  <2>2. InTypedOrder(taken)' /\ InTypedOrder(items[stdin_fid])'
    BY <1>2, <1>6, <1>8, <2>1 DEF InTypedOrder
  <2>3. NotAfter(Range(taken), Range(items[stdin_fid]))'
    BY <1>2, <1>5, <1>8, <2>1
  <2>4. NotAfter(Range(taken) \cup Range(items[stdin_fid]), Held)'
    BY <1>4, <1>5, <1>8, <2>1
  <2>5. Sent' = Sent \cup {m}
    BY <1>3, <1>8, <2>1 DEF Sent
  <2> QED BY <1>1, <2>1, <2>2, <2>3, <2>4, <2>5 DEF QueueInOrder
<1>9. CASE ~Handed /\ Held' = {} /\ items'[stdin_fid] = Append(items[stdin_fid], m)
  <2>1. taken' = taken
    BY <1>9
  <2>2. Range(items'[stdin_fid]) = I \cup {m}
    BY <1>1, <1>9, RangeAppend
  <2>3. InTypedOrder(Append(items[stdin_fid], m))
    BY <1>1, <1>2, <1>4, OrderedAppend
  <2>4. InTypedOrder(taken)' /\ InTypedOrder(items[stdin_fid])'
    BY <1>2, <1>6, <1>9, <2>1, <2>3 DEF InTypedOrder
  <2>5. NotAfter(Range(taken), Range(items[stdin_fid]))'
    BY <1>2, <1>4, <1>5, <2>1, <2>2
  <2>6. NotAfter(Range(taken) \cup Range(items[stdin_fid]), Held)'
    BY <1>9
  <2>7. Sent' = Sent \cup {m}
    BY <1>3, <1>9, <2>1, <2>2 DEF Sent
  <2> QED BY <1>1, <2>1, <2>4, <2>5, <2>6, <2>7 DEF QueueInOrder
<1> QED BY <1>7, <1>8, <1>9, SendEffect

LEMMA KeyboardDataOrder ==
  ASSUME ServiceInv, KeysInv, NEW p \in Procs, KeyboardData(p)
  PROVE  KeysInv'
<1>1. /\ keys \in [Procs -> Seq(Messages)] /\ keys[p] \in Seq(Messages) /\ keys[p] # <<>>
      /\ typed' = typed /\ HasCpu(p)
      /\ RestOfKey(keys[p])
  BY DEF KeysInv, KeysType, KeyboardData
<1>2. /\ cpu' \in Procs \cup {AnyOne}
  BY DEF KeyboardData
<1>3. KeysType /\ TypedOnce
  BY DEF KeysInv
<1>4. CASE TooMany
  <2>1. UNCHANGED vars /\ taken' = taken /\ keys' = [keys EXCEPT ![p] = <<>>]
    BY <1>4 DEF KeyboardData
  <2>2. KeysType'
    BY <1>1, <1>2, <1>3, <2>1, EmptySeq DEF KeysType
  <2>3. \A r \in Procs : keys'[r] = keys[r] \/ keys'[r] = <<>>
    BY <1>1, <2>1
  <2>4. ASSUME NEW r \in Procs, NEW m \in Range(keys'[r])
        PROVE  ~FirstOfKey(m)
    <3>1. r # p /\ keys'[r] = keys[r]
      BY <1>1, <2>1, <2>4, RangeEmpty
    <3>2. cpu # r
      BY <1>1, <3>1, StdinConstants DEF HasCpu
    <3> QED BY <2>4, <3>1, <3>2 DEF KeysInv, FirstsAtOnce
  <2>5. items' = items /\ locked' = locked
    BY <2>1 DEF vars, table
  <2>6. QueueInOrder' /\ Sent' = Sent
    BY <1>1, <2>1, <2>5 DEF KeysInv, QueueInOrder, InTypedOrder, NotAfter, TypedBefore, Held, Sent
  <2> QED BY <1>1, <2>2, <2>3, <2>4, <2>6, KeysStay
<1>5. CASE ~TooMany
  <2> DEFINE m == Head(keys[p])
  <2>1. /\ RestOfKey(Tail(keys[p])) /\ Tail(keys[p]) \in Seq(Messages)
        /\ m \in Range(keys[p]) /\ Range(Tail(keys[p])) \subseteq Range(keys[p])
        /\ \A x \in Range(Tail(keys[p])) : ~FirstOfKey(x) /\ ~TypedBefore(x, m)
    BY <1>1, <1>3, RestInOrder
  <2>2. m \in Messages
    BY <1>1, <2>1, RangeMember
  <2>3. /\ Psend(stdin_fid, p, m) /\ keys' = [keys EXCEPT ![p] = Tail(keys[p])]
        /\ taken' = IF Handed THEN Append(taken, m) ELSE taken
    BY <1>5 DEF KeyboardData
  <2> HIDE DEF m
  <2>4. \A r \in Procs : NotAfter(Sent, Range(keys[r]))
    BY DEF KeysInv, KeysBehind
  <2>5. \A r, q \in Procs : r # q => NotAfter(Range(keys[r]), Range(keys[q]))
    BY DEF KeysInv, KeysBehind
  <2>6. \A x \in Sent : ~TypedBefore(m, x)
    BY <2>1, <2>4 DEF NotAfter
  <2>7. QueueInOrder' /\ Sent' = Sent \cup {m} /\ taken' \in Seq(Messages)
    BY <1>1, <1>5, <2>2, <2>3, <2>6, SentInOrder
  <2>8. KeysType'
    BY <1>1, <1>2, <1>3, <2>1, <2>3, <2>7 DEF KeysType
  <2>9. /\ keys'[p] = Tail(keys[p])
        /\ \A r \in Procs : r # p => keys'[r] = keys[r]
        /\ \A r \in Procs : Range(keys'[r]) \subseteq Range(keys[r])
    BY <1>1, <2>1, <2>3
  <2>10. ASSUME NEW r \in Procs, NEW x \in Range(keys'[r])
         PROVE  ~FirstOfKey(x)
    <3>1. CASE r = p
      BY <2>1, <2>9, <2>10, <3>1
    <3>2. CASE r # p
      <4>1. cpu # r
        BY <1>1, <3>2, StdinConstants DEF HasCpu
      <4> QED BY <2>9, <2>10, <3>2, <4>1 DEF KeysInv, FirstsAtOnce
    <3> QED BY <3>1, <3>2
  <2>11. FirstsAtOnce'
    <3>1. \A x : FirstOfKey(x)' <=> FirstOfKey(x)
      BY <1>1 DEF FirstOfKey
    <3> QED BY <2>10, <3>1 DEF FirstsAtOnce
  <2>12. TypedOnce'
    BY <1>1, <1>3 DEF TypedOnce
  <2>13. AllTyped'
    <3>1. Used' = Used
      BY <1>1 DEF Used
    <3>2. m \in Used
      BY <2>1 DEF KeysInv, AllTyped
    <3> QED BY <2>7, <2>9, <3>1, <3>2 DEF KeysInv, AllTyped
  <2>14. \A r \in Procs : RestOfKey(keys[r])'
    <3>1. ASSUME NEW r \in Procs
          PROVE  RestOfKey(keys[r])'
      <4>1. PICK s : s = keys'[r] /\ RestOfKey(s)
        BY <2>1, <2>9 DEF KeysInv
      <4>2. s # <<>> => \E i \in DOMAIN typed' : \E d \in 0 .. Len(typed'[i]) :
                          /\ Len(typed'[i]) = d + Len(s)
                          /\ \A j \in 1 .. Len(s) : s[j] = typed'[i][d + j]
        BY <1>1, <4>1 DEF RestOfKey
      <4> QED BY <4>1, <4>2 DEF RestOfKey
    <3> QED BY <3>1
  <2>15. KeysBehind'
    <3>1. \A a, b : TypedBefore(a, b)' <=> TypedBefore(a, b)
      BY <1>1 DEF TypedBefore
    <3>2. ASSUME NEW r \in Procs, NEW x \in Sent', NEW y \in Range(keys'[r])
          PROVE  ~TypedBefore(y, x)
      <4>1. CASE x \in Sent
        BY <2>4, <2>9, <3>2, <4>1 DEF NotAfter
      <4>2. CASE x = m /\ r = p
        BY <2>1, <2>9, <3>2, <4>2 DEF m
      <4>3. CASE x = m /\ r # p
        BY <2>1, <2>5, <2>9, <3>2, <4>3 DEF NotAfter
      <4> QED BY <2>7, <3>2, <4>1, <4>2, <4>3
    <3>3. \A r, q \in Procs : r # q => NotAfter(Range(keys'[r]), Range(keys'[q]))
      BY <2>5, <2>9 DEF NotAfter
    <3>4. \A r \in Procs : NotAfter(Sent, Range(keys[r]))'
      BY <3>1, <3>2 DEF NotAfter
    <3>5. \A r, q \in Procs : r # q => NotAfter(Range(keys[r]), Range(keys[q]))'
      BY <3>1, <3>3 DEF NotAfter
    <3> QED BY <3>4, <3>5 DEF KeysBehind
  <2> QED BY <2>7, <2>8, <2>11, <2>12, <2>13, <2>14, <2>15 DEF KeysInv
<1> QED BY <1>4, <1>5

(* A new key is behind all there is. *)
LEMMA KeyboardInterruptOrder ==
  ASSUME KeysInv, NEW p \in Procs, NEW n \in 1 .. MaxString, KeyboardInterrupt(p, n)
  PROVE  KeysInv'
<1>1. PICK new \in [1 .. n -> Messages \ Used] :
         IsInjective(new) /\ typed' = Append(typed, new) /\ keys' = [keys EXCEPT ![p] = new]
  BY DEF KeyboardInterrupt
<1>2. /\ cpu = AnyOne /\ cpu' = p /\ call[p] = "none" /\ ~IsReading(p) /\ keys[p] = <<>>
      /\ items' = items /\ locked' = locked /\ call' = call /\ reading' = reading /\ taken' = taken
  BY DEF KeyboardInterrupt, InUser, Running, vars, table, procs
<1>3. n \in Nat \ {0}
  BY StdinConstants
<1>4. KeysType /\ TypedOnce
  BY DEF KeysInv
<1>5. /\ typed' \in Seq(Seq(Messages)) /\ new \in Seq(Messages) /\ TypedOnce'
      /\ Range(new) \cap Used = {} /\ Used \subseteq Used' /\ Range(new) \subseteq Used'
      /\ RestOfKey(new)' /\ \A s : RestOfKey(s) => RestOfKey(s)'
  BY <1>1, <1>3, <1>4, KeyPressed
<1>6. /\ \A a, b : b \in Used /\ TypedBefore(a, b)' => TypedBefore(a, b)
      /\ \A a, b : a \in Used /\ b \in Range(new) /\ TypedBefore(a, b)' => FirstOfKey(a)
      /\ \A a : a \in Used /\ FirstOfKey(a)' => FirstOfKey(a)
  BY <1>1, <1>3, <1>4, KeyPressed
<1>7. keys'[p] = new /\ \A r \in Procs : r # p => keys'[r] = keys[r]
  BY <1>1, <1>4 DEF KeysType
<1>8. Sent' = Sent /\ Sent \subseteq Used /\ \A r \in Procs : Range(keys[r]) \subseteq Used
  BY <1>2 DEF KeysInv, AllTyped, Sent, Held
<1>9. \A r \in Procs : \A m \in Range(keys[r]) : ~FirstOfKey(m)
  BY <1>2, StdinConstants DEF KeysInv, FirstsAtOnce
<1>10. KeysType'
  BY <1>1, <1>2, <1>4, <1>5 DEF KeysType
<1>11. AllTyped'
  BY <1>5, <1>7, <1>8 DEF AllTyped
<1>12. FirstsAtOnce'
  <2>1. ASSUME NEW r \in Procs, r # p, NEW m \in Range(keys'[r])
        PROVE  ~FirstOfKey(m)'
    BY <1>6, <1>7, <1>8, <1>9, <2>1
  <2>2. (cpu = p /\ call[p] = "none" /\ ~IsReading(p))'
    BY <1>2 DEF IsReading
  <2> QED BY <2>1, <2>2 DEF FirstsAtOnce
<1>13. ASSUME NEW r \in Procs
       PROVE  RestOfKey(keys[r])'
  <2>1. CASE r = p
    <3>1. keys'[r] = new
      BY <1>7, <2>1
    <3> QED BY <1>5, <3>1 DEF RestOfKey
  <2>2. CASE r # p
    <3>1. PICK s : s = keys'[r] /\ RestOfKey(s)
      BY <1>7, <2>2 DEF KeysInv
    <3>2. RestOfKey(s)'
      BY <1>5, <3>1
    <3> QED BY <3>1, <3>2 DEF RestOfKey
  <2> QED BY <2>1, <2>2
<1>14. QueueInOrder'
  <2>1. /\ taken \in Seq(Messages) /\ \A i \in DOMAIN taken : taken[i] \in Range(taken)
        /\ \A i \in DOMAIN items[stdin_fid] : items[stdin_fid][i] \in Range(items[stdin_fid])
    BY <1>4 DEF KeysType, Range
  <2>2. \A x \in Range(taken) \cup Range(items[stdin_fid]) \cup Held : x \in Used
    BY <1>8 DEF Sent
  <2>3. InTypedOrder(taken)'
    BY <1>2, <1>6, <2>1, <2>2 DEF KeysInv, QueueInOrder, InTypedOrder
  <2>4. InTypedOrder(items[stdin_fid])'
    BY <1>2, <1>6, <2>1, <2>2 DEF KeysInv, QueueInOrder, InTypedOrder
  <2>5. NotAfter(Range(taken), Range(items[stdin_fid]))'
    BY <1>2, <1>6, <2>2 DEF KeysInv, QueueInOrder, NotAfter
  <2>6. Held' = Held
    BY <1>2 DEF Held
  <2>7. NotAfter(Range(taken) \cup Range(items[stdin_fid]), Held)'
    BY <1>2, <1>6, <2>2, <2>6 DEF KeysInv, QueueInOrder, NotAfter
  <2> QED BY <2>3, <2>4, <2>5, <2>7 DEF QueueInOrder
<1>15. KeysBehind'
  <2>0. \A a, b : TypedBefore(a, b) => a \in Used
    BY <1>4, OnlyTypedBefore
  <2>1. ASSUME NEW r \in Procs, NEW x \in Sent', NEW y \in Range(keys'[r])
        PROVE  ~TypedBefore(y, x)'
    <3>1. x \in Sent /\ x \in Used
      BY <1>8, <2>1
    <3>2. CASE r = p
      <4>1. y \notin Used /\ y \in Range(new)
        BY <1>5, <1>7, <2>1, <3>2
      <4>2. ~TypedBefore(y, x)
        BY <2>0, <4>1
      <4> QED BY <1>6, <3>1, <4>2
    <3>3. CASE r # p
      BY <1>6, <1>7, <2>1, <3>1, <3>3 DEF KeysInv, KeysBehind, NotAfter
    <3> QED BY <3>2, <3>3
  <2>2. ASSUME NEW r \in Procs, NEW q \in Procs, r # q,
               NEW x \in Range(keys'[r]), NEW y \in Range(keys'[q])
        PROVE  ~TypedBefore(y, x)'
    <3>1. CASE r = p
      <4>1. y \in Range(keys[q]) /\ y \in Used /\ x \in Range(new)
        BY <1>7, <1>8, <2>2, <3>1
      <4> QED BY <1>6, <1>9, <4>1
    <3>2. CASE q = p
      <4>1. x \in Used /\ y \notin Used
        BY <1>5, <1>7, <1>8, <2>2, <3>2
      <4>2. ~TypedBefore(y, x)
        BY <2>0, <4>1
      <4> QED BY <1>6, <4>1, <4>2
    <3>3. CASE r # p /\ q # p
      <4>1. x \in Range(keys[r]) /\ y \in Range(keys[q]) /\ x \in Used
        BY <1>7, <1>8, <2>2, <3>3
      <4>2. ~TypedBefore(y, x)
        BY <2>2, <4>1 DEF KeysInv, KeysBehind, NotAfter
      <4> QED BY <1>6, <4>1, <4>2
    <3> QED BY <3>1, <3>2, <3>3
  <2>3. \A r \in Procs : NotAfter(Sent, Range(keys[r]))'
    BY <2>1 DEF NotAfter
  <2>4. \A r, q \in Procs : r # q => NotAfter(Range(keys[r]), Range(keys[q]))'
    BY <2>2 DEF NotAfter
  <2> QED BY <2>3, <2>4 DEF KeysBehind
<1> QED BY <1>5, <1>10, <1>11, <1>12, <1>13, <1>14, <1>15 DEF KeysInv

(* Elsewhere the character moves along, or leaves with its process. *)
LEMMA SendResumesOrder ==
  ASSUME ServiceInv, KeysInv, NEW p \in Procs, SendResumes(p)
  PROVE  KeysInv'
<1>1. /\ typed' = typed /\ taken' = taken /\ keys' = keys /\ items' = items /\ locked' = locked
      /\ cpu' \in Procs \cup {AnyOne} /\ HasCpu(p) /\ call[p] # "none"
  BY DEF SendResumes, Resume, table, ghosts
<1>2. KeysType'
  BY <1>1 DEF KeysInv, KeysType
<1>3. QueueInOrder' /\ Sent' = Sent
  BY <1>1 DEF KeysInv, QueueInOrder, InTypedOrder, NotAfter, TypedBefore, Held, Sent
<1>4. \A r \in Procs : \A m \in Range(keys'[r]) : ~FirstOfKey(m)
  BY <1>1, NoFirst
<1> QED BY <1>1, <1>2, <1>3, <1>4, KeysStay

LEMMA ReadResumesOrder ==
  ASSUME ServiceInv, KeysInv, NEW p \in Procs, ReadResumes(p)
  PROVE  KeysInv'
<1>1. /\ typed' = typed /\ taken' = taken /\ keys' = keys /\ items' = items /\ locked' = locked
      /\ cpu' \in Procs \cup {AnyOne} /\ HasCpu(p) /\ call[p] # "none"
  BY DEF ReadResumes, Resume, Got, table, ghosts
<1>2. KeysType'
  BY <1>1 DEF KeysInv, KeysType
<1>3. QueueInOrder' /\ Sent' = Sent
  BY <1>1 DEF KeysInv, QueueInOrder, InTypedOrder, NotAfter, TypedBefore, Held, Sent
<1>4. \A r \in Procs : \A m \in Range(keys'[r]) : ~FirstOfKey(m)
  BY <1>1, NoFirst
<1> QED BY <1>1, <1>2, <1>3, <1>4, KeysStay

LEMMA UserOrder ==
  ASSUME KeysInv, NEW p \in Procs, InUser(p), UNCHANGED <<vars, keys, ghosts>>,
         cpu' \in Procs \cup {AnyOne}
  PROVE  KeysInv'
<1>1. /\ typed' = typed /\ taken' = taken /\ keys' = keys /\ items' = items /\ locked' = locked
      /\ cpu = AnyOne /\ HasCpu(p)
  BY DEF InUser, HasCpu, vars, table, ghosts
<1>2. KeysType'
  BY <1>1 DEF KeysInv, KeysType
<1>3. QueueInOrder' /\ Sent' = Sent
  BY <1>1 DEF KeysInv, QueueInOrder, InTypedOrder, NotAfter, TypedBefore, Held, Sent
<1>4. \A r \in Procs : \A m \in Range(keys'[r]) : ~FirstOfKey(m)
  BY <1>1, NoFirst
<1> QED BY <1>1, <1>2, <1>3, <1>4, KeysStay

LEMMA StdinKillOrder ==
  ASSUME ServiceInv, KeysInv, NEW q \in Procs, NEW p \in Procs, StdinKill(q, p)
  PROVE  KeysInv'
<1>1. /\ typed' = typed /\ taken' = taken /\ keys' = [keys EXCEPT ![p] = <<>>] /\ cpu' = cpu
      /\ cpu = AnyOne /\ Kill(p) /\ HasCpu(q)
  BY DEF StdinKill, InUser, HasCpu, ghosts
<1>2. items' = items /\ Held' \subseteq Held
  BY <1>1, KillEffect
<1>3. KeysType' /\ \A r \in Procs : keys'[r] = keys[r] \/ keys'[r] = <<>>
  BY <1>1, EmptySeq DEF KeysInv, KeysType
<1>4. QueueInOrder' /\ Sent' \subseteq Sent
  BY <1>1, <1>2 DEF KeysInv, QueueInOrder, InTypedOrder, NotAfter, TypedBefore, Sent
<1>5. \A r \in Procs : \A m \in Range(keys[r]) : ~FirstOfKey(m)
  BY <1>1, NoFirst
<1>6. \A r \in Procs : \A m \in Range(keys'[r]) : ~FirstOfKey(m)
  BY <1>3, <1>5, RangeEmpty
<1> QED BY <1>1, <1>3, <1>4, <1>6, KeysStay

(* What a reader takes was typed before all that stays. *)
LEMMA ReadNextOrder ==
  ASSUME ServiceInv, KeysInv, NEW p \in Procs, ReadNext(p)
  PROVE  KeysInv'
<1> DEFINE T == Range(taken)
           I == Range(items[stdin_fid])
<1>1. /\ typed' = typed /\ keys' = keys /\ cpu' \in Procs \cup {AnyOne}
      /\ HasCpu(p) /\ IsReading(p) /\ Preceive(stdin_fid, p)
      /\ taken' = IF items[stdin_fid] # <<>> THEN Append(taken, Head(items[stdin_fid])) ELSE taken
  BY DEF ReadNext, Got
<1>2. /\ taken \in Seq(Messages) /\ items[stdin_fid] \in Seq(Messages)
      /\ Held \subseteq Messages
      /\ keys \in [Procs -> Seq(Messages)] /\ typed \in Seq(Seq(Messages))
  BY StdinQueue DEF KeysInv, KeysType
<1>3. \A r \in Procs : \A m \in Range(keys'[r]) : ~FirstOfKey(m)
  BY <1>1, NoFirst
<1>4. InTypedOrder(taken) /\ InTypedOrder(items[stdin_fid]) /\ NotAfter(T, I)
      /\ NotAfter(T \cup I, Held)
  BY DEF KeysInv, QueueInOrder
<1>5. \A a, b : TypedBefore(a, b)' <=> TypedBefore(a, b)
  BY <1>1 DEF TypedBefore
<1>6. \A s : InTypedOrder(s) => \A i, j \in DOMAIN s : i < j => ~TypedBefore(s[j], s[i])'
  BY <1>5 DEF InTypedOrder
<1>7. CASE items[stdin_fid] = <<>>
  <2>1. items' = items /\ Held' = {} /\ taken' = taken
    BY <1>1, <1>7, ReceiveEffect
  <2>2. KeysType'
    BY <1>1, <1>2, <2>1 DEF KeysType
  <2>3. QueueInOrder' /\ Sent' \subseteq Sent
    BY <1>1, <2>1 DEF KeysInv, QueueInOrder, InTypedOrder, NotAfter, TypedBefore, Sent
  <2> QED BY <1>1, <1>3, <2>2, <2>3, KeysStay
<1>8. CASE items[stdin_fid] # <<>>
  <2>1. PICK h, t : h = Head(items[stdin_fid]) /\ t = Tail(items[stdin_fid])
    OBVIOUS
  <2>2. /\ InTypedOrder(t) /\ t \in Seq(Messages) /\ h \in I /\ h \in Messages
        /\ Range(t) \subseteq I /\ \A x \in Range(t) : ~TypedBefore(x, h)
    BY <1>2, <1>4, <1>8, <2>1, OrderedTail
  <2>3. taken' = Append(taken, h) /\ Append(taken, h) \in Seq(Messages)
    BY <1>1, <1>2, <1>8, <2>1, <2>2, AppendProperties
  <2>4. Range(taken') = T \cup {h}
    BY <1>2, <2>2, <2>3, RangeAppend
  <2>5. InTypedOrder(Append(taken, h))
    BY <1>2, <1>4, <2>2, OrderedAppend DEF NotAfter
  <2>6. KeysType'
    BY <1>1, <1>2, <2>3 DEF KeysType
  <2>7. /\ Range(items'[stdin_fid]) \cup Held' \subseteq Range(t) \cup Held
        /\ InTypedOrder(items'[stdin_fid])
        /\ NotAfter(Range(items'[stdin_fid]), Held')
    <3>1. CASE /\ Held' = {}
               /\ \E m \in Held : items'[stdin_fid] = Append(Tail(items[stdin_fid]), m)
      <4>1. PICK m \in Held : items'[stdin_fid] = Append(t, m)
        BY <2>1, <3>1
      <4>2. Range(items'[stdin_fid]) = Range(t) \cup {m}
        BY <1>2, <2>2, <4>1, RangeAppend
      <4>3. \A x \in Range(t) : ~TypedBefore(m, x)
        BY <1>4, <2>2, <4>1 DEF NotAfter
      <4>4. InTypedOrder(Append(t, m))
        BY <1>2, <2>2, <4>1, <4>3, OrderedAppend
      <4> QED BY <3>1, <4>1, <4>2, <4>4 DEF NotAfter
    <3>2. CASE locked' = locked /\ items'[stdin_fid] = Tail(items[stdin_fid])
      <4>1. Held' = Held /\ items'[stdin_fid] = t
        BY <2>1, <3>2 DEF Held
      <4> QED BY <1>4, <2>2, <4>1 DEF NotAfter
    <3> QED BY <1>1, <1>8, <3>1, <3>2, ReceiveEffect
  <2>8. Sent' \subseteq Sent
    BY <2>2, <2>4, <2>7 DEF Sent
  <2>9. InTypedOrder(taken)' /\ InTypedOrder(items[stdin_fid])'
    BY <1>6, <2>3, <2>5, <2>7 DEF InTypedOrder
  <2>10. NotAfter(Range(taken), Range(items[stdin_fid]))'
    BY <1>4, <1>5, <2>2, <2>4, <2>7 DEF NotAfter
  <2>11. NotAfter(Range(taken) \cup Range(items[stdin_fid]), Held)'
    BY <1>4, <1>5, <2>2, <2>4, <2>7 DEF NotAfter
  <2>12. QueueInOrder'
    BY <2>9, <2>10, <2>11 DEF QueueInOrder
  <2> QED BY <1>1, <1>3, <2>6, <2>8, <2>12, KeysStay
<1> QED BY <1>7, <1>8

LEMMA KeysStep ==
  ASSUME ServiceInv, KeysInv, [StdinNext]_stdin_vars
  PROVE  KeysInv'
<1>1. CASE UNCHANGED stdin_vars
  <2>1. /\ typed' = typed /\ taken' = taken /\ keys' = keys /\ items' = items
        /\ locked' = locked /\ cpu' = cpu /\ call' = call /\ reading' = reading
    BY <1>1 DEF stdin_vars, vars, table, procs, ghosts
  <2>2. KeysType' /\ TypedOnce' /\ AllTyped'
    BY <2>1 DEF KeysInv, KeysType, TypedOnce, AllTyped, Used, Sent, Held
  <2>3. FirstsAtOnce'
    BY <2>1 DEF KeysInv, FirstsAtOnce, FirstOfKey, IsReading
  <2>4. \A r \in Procs : RestOfKey(keys[r])'
    BY <2>1 DEF KeysInv, RestOfKey
  <2>5. QueueInOrder' /\ KeysBehind'
    BY <2>1 DEF KeysInv, QueueInOrder, KeysBehind, InTypedOrder, NotAfter, TypedBefore, Held, Sent
  <2> QED BY <2>2, <2>3, <2>4, <2>5 DEF KeysInv
<1>2. ASSUME NEW p \in Procs, NEW n \in 1 .. MaxString, KeyboardInterrupt(p, n)
      PROVE  KeysInv'
  BY <1>2, KeyboardInterruptOrder
<1>3. ASSUME NEW p \in Procs, KeyboardData(p)
      PROVE  KeysInv'
  BY <1>3, KeyboardDataOrder
<1>4. ASSUME NEW p \in Procs, SendResumes(p) \/ ReadResumes(p)
      PROVE  KeysInv'
  BY <1>4, SendResumesOrder, ReadResumesOrder
<1>5. ASSUME NEW p \in Procs, NEW n, ConsRead(p, n)
      PROVE  KeysInv'
  <2>1. InUser(p) /\ UNCHANGED <<vars, keys, ghosts>>
    BY <1>5 DEF ConsRead
  <2>2. cpu' \in Procs \cup {AnyOne}
    BY <1>5 DEF ConsRead, KeysInv, KeysType
  <2> QED BY <2>1, <2>2, UserOrder
<1>6. ASSUME NEW p \in Procs, ReadNext(p)
      PROVE  KeysInv'
  BY <1>6, ReadNextOrder
<1>7. ASSUME NEW p \in Procs, NEW q \in Procs, StdinKill(q, p)
      PROVE  KeysInv'
  BY <1>7, StdinKillOrder
<1> QED BY <1>1, <1>2, <1>3, <1>4, <1>5, <1>6, <1>7 DEF StdinNext

LEMMA KeysInit ==
  ASSUME StdinInit
  PROVE  KeysInv
<1>1. /\ keys = [p \in Procs |-> <<>>] /\ cpu = AnyOne /\ typed = <<>> /\ taken = <<>>
      /\ items[stdin_fid] = <<>> /\ locked[stdin_fid] = <<>>
  BY StdinFid DEF StdinInit
<1>2. /\ DOMAIN typed = {} /\ DOMAIN taken = {} /\ DOMAIN items[stdin_fid] = {}
      /\ Range(taken) = {} /\ Range(items[stdin_fid]) = {} /\ Range(locked[stdin_fid]) = {}
      /\ \A r \in Procs : Range(keys[r]) = {}
  BY <1>1, RangeEmpty
<1>3. Held = {} /\ Sent = {}
  BY <1>2 DEF Held, Sent
<1>4. KeysType
  BY <1>1, EmptySeq DEF KeysType
<1>5. TypedOnce /\ AllTyped /\ FirstsAtOnce
  BY <1>2, <1>3 DEF TypedOnce, AllTyped, FirstsAtOnce
<1>6. QueueInOrder /\ KeysBehind
  BY <1>2, <1>3 DEF QueueInOrder, KeysBehind, InTypedOrder, NotAfter
<1>7. \A r \in Procs : RestOfKey(keys[r])
  BY <1>1 DEF RestOfKey
<1> QED BY <1>4, <1>5, <1>6, <1>7 DEF KeysInv

(* Only senders stop at a full buffer, and there is one of them at most. *)
LEMMA KeysAreInOrder ==
  ASSUME ServiceInv, KeysInv
  PROVE  KeysInOrder
<1>1. ASSUME NEW p \in Procs, proc[p] = "blocked", call[p] = "psend"
      PROVE  /\ items[stdin_fid] # <<>>
             /\ \E x \in Range(locked[stdin_fid]) : x.pid = p
  <2>1. PICK f \in Fids : \E x \in Range(locked[f]) : x.pid = p
    BY <1>1 DEF ServiceInv, QueueInv, BlockedListed
  <2>2. PICK x \in Range(locked[f]) : x.pid = p
    BY <2>1
  <2>3. x.message # "none"
    BY <1>1, <2>2 DEF ServiceInv, QueueInv, EntriesTrue
  <2>4. locked[f] # <<>>
    BY <2>2, RangeEmpty
  <2>5. Created(f) /\ Len(items[f]) = size[f]
    BY <2>2, <2>3, <2>4 DEF ServiceInv, QueueInv, BufferTells
  <2>6. f = stdin_fid
    BY <2>5 DEF ServiceInv, Created
  <2>7. items[stdin_fid] # <<>>
    BY <2>5, <2>6, StdinQueue
  <2> QED BY <2>1, <2>6, <2>7
<1>2. OneStopped
  <2> SUFFICES ASSUME NEW p \in Procs, NEW q \in Procs,
                      proc[p] = "blocked", call[p] = "psend",
                      proc[q] = "blocked", call[q] = "psend"
               PROVE  p = q
    BY DEF OneStopped
  <2>1. PICK x \in Range(locked[stdin_fid]) : x.pid = p
    BY <1>1
  <2>2. PICK y \in Range(locked[stdin_fid]) : y.pid = q
    BY <1>1
  <2>3. x = y
    BY <1>1 DEF ServiceInv, OneSender
  <2> QED BY <2>1, <2>2, <2>3
<1>3. TakenInOrder
  BY DEF KeysInv, QueueInOrder, InTypedOrder, TakenInOrder
<1> QED BY <1>2, <1>3 DEF KeysInOrder

-------------------------------------------------------------------------------
(***************************************************************************)
(* LineInv: a reader's string is what survives of what it has seen; behind *)
(* a survivor the deletions have been used up by the characters that they  *)
(* deleted, so that what survives from it on is what was stored behind it, *)
(* less the deletions.                                                     *)
(***************************************************************************)
Count(X, i, j) == Cardinality(X \cap i .. j)

Left(s, i) == Count(Survivors(s), i, Len(s))

Balanced(s) ==
  \A i \in Survivors(s) :
    Left(s, i) + Count(Deleted(s), i, Len(s))
      = 1 + Count(Stored(s), i + 1, Len(s))

Seen == [char : Messages, kind : Kinds]

Reads == [max : 0 .. MaxLength, str : Seq(Messages), seen : Seq(Seen)]

Spelled(s, t) ==
  /\ Len(t) = Cardinality(Survivors(s))
  /\ \A i \in Survivors(s) : t[Cardinality(Survivors(s) \cap 1 .. i)] = s[i].char

LineOf(r) == /\ r \in Reads
             /\ Spelled(r.seen, r.str) /\ Balanced(r.seen)
             /\ r.max > 0 => Len(r.str) < r.max

LineInv == /\ \A p \in Procs : LineOf(reading[p])
           /\ reading \in [Procs -> Reads]
           /\ \A p \in Procs : call[p] = "preceive" => IsReading(p)

(* Counting in sets of positions. *)
LEMMA Positions ==
  ASSUME NEW n \in Nat, NEW X, X \subseteq 1 .. n
  PROVE  /\ IsFiniteSet(X) /\ Cardinality(X) \in Nat
         /\ \A Y : Y \subseteq X => IsFiniteSet(Y) /\ Cardinality(Y) \in Nat
                                    /\ Cardinality(Y) <= Cardinality(X)
         /\ X = {} <=> Cardinality(X) = 0
<1>1. IsFiniteSet(1 .. n)
  BY FS_Interval
<1>2. IsFiniteSet(X)
  BY <1>1, FS_Subset
<1>3. Cardinality(X) \in Nat
  BY <1>2, FS_CardinalityType
<1>4. ASSUME NEW Y, Y \subseteq X
      PROVE  IsFiniteSet(Y) /\ Cardinality(Y) \in Nat /\ Cardinality(Y) <= Cardinality(X)
  <2>1. IsFiniteSet(Y) /\ Cardinality(Y) <= Cardinality(X)
    BY <1>2, <1>4, FS_Subset
  <2> QED BY <2>1, FS_CardinalityType
<1>5. X = {} <=> Cardinality(X) = 0
  BY <1>2, FS_EmptySet
<1> QED BY <1>2, <1>3, <1>4, <1>5

LEMMA LastPosition ==
  ASSUME NEW n \in Nat, NEW X, X \subseteq 1 .. n, X # {}
  PROVE  \E m \in X : \A x \in X : x <= m
<1> DEFINE U == {j \in Nat : \A x \in X : x <= j}
<1>1. n \in U /\ U \subseteq Nat
  OBVIOUS
<1>2. PICK m \in U : \A y \in U : m <= y
  BY <1>1, LeastNatural
<1>3. m \in X
  <2> SUFFICES ASSUME m \notin X
               PROVE  FALSE
    OBVIOUS
  <2>1. m \in Nat /\ \A x \in X : x \in Nat /\ x <= m /\ x # m /\ x >= 1
    BY <1>2
  <2>2. PICK x \in X : TRUE
    OBVIOUS
  <2>3. m - 1 \in Nat
    BY <2>1, <2>2
  <2>4. \A y \in X : y <= m - 1
    BY <2>1
  <2>5. m - 1 \in U
    BY <2>3, <2>4
  <2> QED BY <1>2, <2>1, <2>5
<1> QED BY <1>2, <1>3

(* One more position, in the set or not. *)
LEMMA CountNext ==
  \A n \in Nat : \A X \in SUBSET (1 .. n) : \A i \in 1 .. n + 1 :
    /\ Count(X, i, n + 1) = Count(X, i, n)
    /\ Count(X \cup {n + 1}, i, n + 1) = Count(X, i, n) + 1
    /\ Count(X, i, n) \in Nat
    /\ \A j \in 1 .. n : Count(X \cup {n + 1}, i, j) = Count(X, i, j)
<1> TAKE n \in Nat
<1> TAKE X \in SUBSET (1 .. n)
<1> TAKE i \in 1 .. n + 1
<1>1. X \cap i .. n + 1 = X \cap i .. n
  OBVIOUS
<1>2. (X \cup {n + 1}) \cap i .. n + 1 = (X \cap i .. n) \cup {n + 1}
  OBVIOUS
<1>3. n + 1 \notin X \cap i .. n
  OBVIOUS
<1>4. IsFiniteSet(X \cap i .. n) /\ Cardinality(X \cap i .. n) \in Nat
  <2>1. X \cap i .. n \subseteq X
    OBVIOUS
  <2> QED BY <2>1, Positions
<1>5. Cardinality((X \cap i .. n) \cup {n + 1}) = Cardinality(X \cap i .. n) + 1
  BY <1>3, <1>4, FS_AddElement
<1>6. ASSUME NEW j \in 1 .. n
      PROVE  Count(X \cup {n + 1}, i, j) = Count(X, i, j)
  <2>1. (X \cup {n + 1}) \cap i .. j = X \cap i .. j
    OBVIOUS
  <2> QED BY <2>1 DEF Count
<1>7. Count(X, i, n + 1) = Count(X, i, n)
  BY <1>1 DEF Count
<1>8. Count(X \cup {n + 1}, i, n + 1) = Count(X, i, n) + 1
  BY <1>2, <1>5 DEF Count
<1>9. Count(X, i, n) \in Nat
  BY <1>4 DEF Count
<1> QED BY <1>6, <1>7, <1>8, <1>9

LEMMA CountNone ==
  ASSUME NEW n \in Nat, NEW X, X \subseteq 1 .. n, NEW i \in Nat, i > n, NEW j
  PROVE  Count(X, i, j) = 0
<1>1. X \cap i .. j = {}
  OBVIOUS
<1> QED BY <1>1, FS_EmptySet DEF Count

LEMMA Survivor ==
  ASSUME NEW s, NEW i
  PROVE  i \in Survivors(s) <=>
           /\ i \in Stored(s)
           /\ \A j \in i .. Len(s) : Count(Deleted(s), i, j) <= Count(Stored(s), i + 1, j)
BY DEF Survivors, Count

(* What a reader has seen, with one more character. *)
LEMMA SeenNext ==
  ASSUME NEW s \in Seq(Seen), NEW e \in Seen
  PROVE  /\ Append(s, e) \in Seq(Seen) /\ Len(Append(s, e)) = Len(s) + 1 /\ Len(s) \in Nat
         /\ Append(s, e)[Len(s) + 1] = e
         /\ \A i \in 1 .. Len(s) : Append(s, e)[i] = s[i]
         /\ Stored(s) \subseteq 1 .. Len(s) /\ Deleted(s) \subseteq 1 .. Len(s)
         /\ Survivors(s) \subseteq Stored(s)
         /\ Stored(Append(s, e)) = IF Stores(e.kind) THEN Stored(s) \cup {Len(s) + 1} ELSE Stored(s)
         /\ Deleted(Append(s, e)) = IF e.kind = "del" THEN Deleted(s) \cup {Len(s) + 1} ELSE Deleted(s)
<1> DEFINE t == Append(s, e)
           n == Len(s)
<1>1. /\ t \in Seq(Seen) /\ Len(t) = n + 1 /\ t[n + 1] = e
      /\ \A i \in 1 .. n : t[i] = s[i]
  BY AppendProperties
<1>2. n \in Nat /\ DOMAIN s = 1 .. n /\ DOMAIN t = 1 .. n + 1
  BY <1>1, LenProperties
<1> HIDE DEF t, n
<1>3. \A i : i \in 1 .. n + 1 <=> i \in 1 .. n \/ i = n + 1
  BY <1>2
<1>4. n + 1 \notin 1 .. n
  BY <1>2
<1>5. Stored(t) = IF Stores(e.kind) THEN Stored(s) \cup {n + 1} ELSE Stored(s)
  BY <1>1, <1>2, <1>3, <1>4 DEF Stored, Stores
<1>6. Deleted(t) = IF e.kind = "del" THEN Deleted(s) \cup {n + 1} ELSE Deleted(s)
  BY <1>1, <1>2, <1>3, <1>4 DEF Deleted
<1>7. Stored(s) \subseteq 1 .. n /\ Deleted(s) \subseteq 1 .. n /\ Survivors(s) \subseteq Stored(s)
  BY <1>2 DEF Stored, Deleted, Survivors
<1> QED BY <1>1, <1>2, <1>5, <1>6, <1>7 DEF t, n

(* A stored character survives, and pays for those before it. *)
LEMMA StoredNext ==
  ASSUME NEW s \in Seq(Seen), NEW e \in Seen, Balanced(s), Stores(e.kind)
  PROVE  /\ Survivors(Append(s, e)) = Survivors(s) \cup {Len(s) + 1}
         /\ Balanced(Append(s, e))
<1> DEFINE t == Append(s, e)
           n == Len(s)
<1>1. /\ t \in Seq(Seen) /\ Len(t) = n + 1 /\ n \in Nat /\ n + 1 \in Nat
      /\ Stored(s) \subseteq 1 .. n /\ Deleted(s) \subseteq 1 .. n
      /\ Survivors(s) \subseteq Stored(s) /\ Survivors(s) \subseteq 1 .. n
      /\ Stored(t) = Stored(s) \cup {n + 1} /\ Deleted(t) = Deleted(s)
  <2>1. e.kind # "del"
    BY DEF Stores
  <2> QED BY <2>1, SeenNext
<1> HIDE DEF t, n
<1>2. \A X \in SUBSET (1 .. n) : \A i \in 1 .. n + 1 :
        /\ Count(X, i, n + 1) = Count(X, i, n)
        /\ Count(X \cup {n + 1}, i, n + 1) = Count(X, i, n) + 1
        /\ Count(X, i, n) \in Nat
        /\ \A j \in 1 .. n : Count(X \cup {n + 1}, i, j) = Count(X, i, j)
  BY <1>1, CountNext
<1>3. ASSUME NEW i \in 1 .. n
      PROVE  /\ Count(Deleted(t), i, n + 1) = Count(Deleted(s), i, n)
             /\ Count(Stored(t), i + 1, n + 1) = Count(Stored(s), i + 1, n) + 1
             /\ Count(Survivors(s) \cup {n + 1}, i, n + 1) = Count(Survivors(s), i, n) + 1
             /\ Count(Survivors(s), i, n) \in Nat
             /\ Count(Deleted(s), i, n) \in Nat
             /\ Count(Stored(s), i + 1, n) \in Nat
             /\ \A j \in i .. n : Count(Stored(t), i + 1, j) = Count(Stored(s), i + 1, j)
  <2>1. /\ i \in 1 .. n + 1 /\ i + 1 \in 1 .. n + 1
        /\ \A j \in i .. n : j \in 1 .. n
    BY <1>1
  <2>2. Count(Deleted(t), i, n + 1) = Count(Deleted(s), i, n) /\ Count(Deleted(s), i, n) \in Nat
    BY <1>1, <1>2, <2>1
  <2>3. /\ Count(Stored(s) \cup {n + 1}, i + 1, n + 1) = Count(Stored(s), i + 1, n) + 1
        /\ Count(Stored(s), i + 1, n) \in Nat
    BY <1>1, <1>2, <2>1
  <2>4. /\ Count(Survivors(s) \cup {n + 1}, i, n + 1) = Count(Survivors(s), i, n) + 1
        /\ Count(Survivors(s), i, n) \in Nat
    BY <1>1, <1>2, <2>1
  <2>5. ASSUME NEW j \in i .. n
        PROVE  Count(Stored(s) \cup {n + 1}, i + 1, j) = Count(Stored(s), i + 1, j)
    BY <1>1, <1>2, <2>1
  <2> QED BY <1>1, <2>2, <2>3, <2>4, <2>5
<1>4. ASSUME NEW i \in Survivors(s)
      PROVE  i \in Survivors(t)
  <2>1. /\ i \in Stored(t) /\ i \in 1 .. n /\ n \in i .. n
        /\ \A j \in i .. n + 1 : j \in i .. n \/ j = n + 1
    BY <1>1
  <2>2. \A j \in i .. n : Count(Deleted(s), i, j) <= Count(Stored(s), i + 1, j)
    BY Survivor DEF n
  <2>3. Count(Deleted(t), i, n + 1) <= Count(Stored(t), i + 1, n + 1)
    <3>1. Count(Deleted(s), i, n) <= Count(Stored(s), i + 1, n)
      BY <2>1, <2>2
    <3> QED BY <1>3, <2>1, <3>1
  <2>4. \A j \in i .. n : Count(Deleted(t), i, j) <= Count(Stored(t), i + 1, j)
    BY <1>1, <1>3, <2>1, <2>2
  <2>5. \A j \in i .. Len(t) : Count(Deleted(t), i, j) <= Count(Stored(t), i + 1, j)
    BY <1>1, <2>1, <2>3, <2>4
  <2> QED BY <2>1, <2>5, Survivor
<1>5. ASSUME NEW i \in Survivors(t), i # n + 1
      PROVE  i \in Survivors(s)
  <2>1. i \in Stored(t) /\ \A j \in i .. Len(t) : Count(Deleted(t), i, j) <= Count(Stored(t), i + 1, j)
    BY Survivor
  <2>2. i \in Stored(s) /\ i \in 1 .. n /\ \A j \in i .. n : j \in i .. Len(t)
    BY <1>1, <1>5, <2>1
  <2>3. \A j \in i .. n : Count(Deleted(s), i, j) <= Count(Stored(s), i + 1, j)
    BY <1>1, <1>3, <2>1, <2>2
  <2> QED BY <2>2, <2>3, Survivor DEF n
<1>6. Count(Deleted(t), n + 1, n + 1) = 0 /\ Count(Stored(t), (n + 1) + 1, n + 1) = 0
  <2>1. Count(Deleted(s), n + 1, n + 1) = 0
    BY <1>1, CountNone
  <2>2. Stored(t) \subseteq 1 .. n + 1 /\ (n + 1) + 1 \in Nat /\ (n + 1) + 1 > n + 1
    BY <1>1
  <2>3. Count(Stored(t), (n + 1) + 1, n + 1) = 0
    BY <1>1, <2>2, CountNone
  <2> QED BY <1>1, <2>1, <2>3
<1>7. n + 1 \in Survivors(t)
  <2>1. n + 1 \in Stored(t) /\ \A j \in n + 1 .. Len(t) : j = n + 1
    BY <1>1
  <2>2. \A j \in n + 1 .. Len(t) : Count(Deleted(t), n + 1, j) <= Count(Stored(t), (n + 1) + 1, j)
    BY <1>6, <2>1
  <2> QED BY <2>1, <2>2, Survivor
<1>8. Survivors(t) = Survivors(s) \cup {n + 1}
  BY <1>4, <1>5, <1>7
<1>9. ASSUME NEW i \in Survivors(t)
      PROVE  Left(t, i) + Count(Deleted(t), i, n + 1) = 1 + Count(Stored(t), i + 1, n + 1)
  <2>1. CASE i \in Survivors(s)
    <3>1. i \in 1 .. n
      BY <1>1, <2>1
    <3>2. Left(t, i) = Count(Survivors(s), i, n) + 1
      BY <1>1, <1>3, <1>8, <3>1 DEF Left
    <3>3. Count(Survivors(s), i, n) + Count(Deleted(s), i, n) = 1 + Count(Stored(s), i + 1, n)
      BY <2>1 DEF Balanced, Left, n
    <3> QED BY <1>3, <3>1, <3>2, <3>3
  <2>2. CASE i = n + 1
    <3>1. Count(Survivors(s) \cup {n + 1}, n + 1, n + 1) = Count(Survivors(s), n + 1, n) + 1
      BY <1>1, <1>2
    <3>2. Count(Survivors(s), n + 1, n) = 0
      BY <1>1, CountNone
    <3>3. Left(t, i) = 1
      BY <1>1, <1>8, <2>2, <3>1, <3>2 DEF Left
    <3> QED BY <1>6, <2>2, <3>3
  <2> QED BY <1>8, <2>1, <2>2
<1>10. Balanced(t)
  BY <1>1, <1>9 DEF Balanced
<1> QED BY <1>8, <1>10 DEF t, n

(* Other characters change nothing. *)
LEMMA OtherNext ==
  ASSUME NEW s \in Seq(Seen), NEW e \in Seen, Balanced(s), ~Stores(e.kind), e.kind # "del"
  PROVE  Survivors(Append(s, e)) = Survivors(s) /\ Balanced(Append(s, e))
<1> DEFINE t == Append(s, e)
           n == Len(s)
<1>1. /\ t \in Seq(Seen) /\ Len(t) = n + 1 /\ n \in Nat
      /\ Stored(s) \subseteq 1 .. n /\ Deleted(s) \subseteq 1 .. n
      /\ Survivors(s) \subseteq Stored(s) /\ Survivors(s) \subseteq 1 .. n
      /\ Stored(t) = Stored(s) /\ Deleted(t) = Deleted(s)
  BY SeenNext
<1> HIDE DEF t, n
<1>2. ASSUME NEW i \in 1 .. n
      PROVE  /\ Count(Deleted(s), i, n + 1) = Count(Deleted(s), i, n)
             /\ Count(Stored(s), i + 1, n + 1) = Count(Stored(s), i + 1, n)
             /\ Count(Survivors(s), i, n + 1) = Count(Survivors(s), i, n)
  <2>1. i \in 1 .. n + 1 /\ i + 1 \in 1 .. n + 1
    BY <1>1
  <2>2. \A X \in SUBSET (1 .. n) : \A k \in 1 .. n + 1 : Count(X, k, n + 1) = Count(X, k, n)
    BY <1>1, CountNext
  <2> QED BY <1>1, <2>1, <2>2
<1>3. ASSUME NEW i \in Stored(s)
      PROVE  i \in Survivors(t) <=> i \in Survivors(s)
  <2>1. i \in 1 .. n
    BY <1>1
  <2>2. /\ \A j \in i .. n + 1 : j \in i .. n \/ j = n + 1
        /\ \A j \in i .. n : j \in i .. n + 1
        /\ n \in i .. n /\ n + 1 \in i .. n + 1
    BY <1>1, <2>1
  <2>3. (\A j \in i .. n + 1 : Count(Deleted(s), i, j) <= Count(Stored(s), i + 1, j))
          <=> (\A j \in i .. n : Count(Deleted(s), i, j) <= Count(Stored(s), i + 1, j))
    BY <1>2, <2>1, <2>2
  <2>4. i \in Survivors(t) <=> \A j \in i .. n + 1 : Count(Deleted(s), i, j) <= Count(Stored(s), i + 1, j)
    BY <1>1, Survivor
  <2>5. i \in Survivors(s) <=> \A j \in i .. n : Count(Deleted(s), i, j) <= Count(Stored(s), i + 1, j)
    BY Survivor DEF n
  <2> QED BY <2>3, <2>4, <2>5
<1>4. Survivors(t) = Survivors(s)
  <2>1. Survivors(t) \subseteq Stored(s)
    BY <1>1, Survivor
  <2> QED BY <1>1, <1>3, <2>1
<1>5. ASSUME NEW i \in Survivors(t)
      PROVE  Left(t, i) + Count(Deleted(t), i, Len(t)) = 1 + Count(Stored(t), i + 1, Len(t))
  <2>1. i \in Survivors(s) /\ i \in 1 .. n
    BY <1>1, <1>4
  <2>2. Left(t, i) = Left(s, i)
    BY <1>1, <1>2, <1>4, <2>1 DEF Left, n
  <2>3. Left(s, i) + Count(Deleted(s), i, n) = 1 + Count(Stored(s), i + 1, n)
    BY <2>1 DEF Balanced, n
  <2> QED BY <1>1, <1>2, <2>1, <2>2, <2>3
<1>6. Balanced(t)
  BY <1>5 DEF Balanced
<1> QED BY <1>4, <1>6 DEF t, n

(* A deletion falls on the last that survives. *)
LEMMA DeletedNext ==
  ASSUME NEW s \in Seq(Seen), NEW e \in Seen, Balanced(s), e.kind = "del"
  PROVE  /\ Balanced(Append(s, e))
         /\ Survivors(s) = {} => Survivors(Append(s, e)) = {}
         /\ Survivors(s) # {} =>
              \E m \in Survivors(s) : /\ \A i \in Survivors(s) : i <= m
                                      /\ Survivors(Append(s, e)) = Survivors(s) \ {m}
<1> DEFINE t == Append(s, e)
           n == Len(s)
<1>1. /\ t \in Seq(Seen) /\ Len(t) = n + 1 /\ n \in Nat
      /\ Stored(s) \subseteq 1 .. n /\ Deleted(s) \subseteq 1 .. n
      /\ Survivors(s) \subseteq Stored(s) /\ Survivors(s) \subseteq 1 .. n
      /\ Stored(t) = Stored(s) /\ Deleted(t) = Deleted(s) \cup {n + 1}
  <2>1. ~Stores(e.kind)
    BY DEF Stores
  <2> QED BY <2>1, SeenNext
<1> HIDE DEF t, n
<1>2. \A X \in SUBSET (1 .. n) : \A i \in 1 .. n + 1 :
        /\ Count(X, i, n + 1) = Count(X, i, n)
        /\ Count(X \cup {n + 1}, i, n + 1) = Count(X, i, n) + 1
        /\ Count(X, i, n) \in Nat
        /\ \A j \in 1 .. n : Count(X \cup {n + 1}, i, j) = Count(X, i, j)
  BY <1>1, CountNext
<1>3. ASSUME NEW i \in 1 .. n
      PROVE  /\ Count(Deleted(t), i, n + 1) = Count(Deleted(s), i, n) + 1
             /\ Count(Stored(t), i + 1, n + 1) = Count(Stored(s), i + 1, n)
             /\ Count(Deleted(s), i, n) \in Nat
             /\ Count(Stored(s), i + 1, n) \in Nat
             /\ Left(s, i) \in Nat
             /\ \A j \in i .. n : Count(Deleted(t), i, j) = Count(Deleted(s), i, j)
  <2>1. /\ i \in 1 .. n + 1 /\ i + 1 \in 1 .. n + 1
        /\ \A j \in i .. n : j \in 1 .. n
    BY <1>1
  <2>2. /\ Count(Deleted(s) \cup {n + 1}, i, n + 1) = Count(Deleted(s), i, n) + 1
        /\ Count(Deleted(s), i, n) \in Nat
    BY <1>1, <1>2, <2>1
  <2>3. /\ Count(Stored(s), i + 1, n + 1) = Count(Stored(s), i + 1, n)
        /\ Count(Stored(s), i + 1, n) \in Nat
    BY <1>1, <1>2, <2>1
  <2>4. Count(Survivors(s), i, n) \in Nat
    BY <1>1, <1>2, <2>1
  <2>5. ASSUME NEW j \in i .. n
        PROVE  Count(Deleted(s) \cup {n + 1}, i, j) = Count(Deleted(s), i, j)
    BY <1>1, <1>2, <2>1
  <2> QED BY <1>1, <2>2, <2>3, <2>4, <2>5 DEF Left, n
<1>4. ASSUME NEW i \in Survivors(s)
      PROVE  Left(s, i) + Count(Deleted(s), i, n) = 1 + Count(Stored(s), i + 1, n)
  BY DEF Balanced, n
<1>5. ASSUME NEW i \in Survivors(t)
      PROVE  i \in Survivors(s) /\ Left(s, i) >= 2
  <2>1. i \in Stored(s) /\ \A j \in i .. Len(t) : Count(Deleted(t), i, j) <= Count(Stored(t), i + 1, j)
    BY <1>1, Survivor
  <2>2. i \in 1 .. n /\ (\A j \in i .. n : j \in i .. Len(t)) /\ n + 1 \in i .. Len(t)
    BY <1>1, <2>1
  <2>3. \A j \in i .. n : Count(Deleted(s), i, j) <= Count(Stored(s), i + 1, j)
    BY <1>1, <1>3, <2>1, <2>2
  <2>4. i \in Survivors(s)
    BY <2>1, <2>3, Survivor DEF n
  <2>5. Count(Deleted(t), i, n + 1) <= Count(Stored(t), i + 1, n + 1)
    BY <2>1, <2>2
  <2> QED BY <1>3, <1>4, <2>2, <2>4, <2>5
<1>6. ASSUME NEW i \in Survivors(s), Left(s, i) >= 2
      PROVE  i \in Survivors(t)
  <2>1. /\ i \in Stored(t) /\ i \in 1 .. n
        /\ \A j \in i .. n + 1 : j \in i .. n \/ j = n + 1
    BY <1>1
  <2>2. \A j \in i .. n : Count(Deleted(s), i, j) <= Count(Stored(s), i + 1, j)
    BY Survivor DEF n
  <2>3. Count(Deleted(t), i, n + 1) <= Count(Stored(t), i + 1, n + 1)
    BY <1>3, <1>4, <1>6, <2>1
  <2>4. \A j \in i .. n : Count(Deleted(t), i, j) <= Count(Stored(t), i + 1, j)
    BY <1>1, <1>3, <2>1, <2>2
  <2>5. \A j \in i .. Len(t) : Count(Deleted(t), i, j) <= Count(Stored(t), i + 1, j)
    BY <1>1, <2>1, <2>3, <2>4
  <2> QED BY <2>1, <2>5, Survivor
<1>7. ASSUME NEW m \in Survivors(s), \A i \in Survivors(s) : i <= m
      PROVE  /\ Left(s, m) = 1
             /\ \A i \in Survivors(s) : i # m => Left(s, i) >= 2
  <2>1. Survivors(s) \cap m .. n = {m}
    BY <1>1, <1>7
  <2>2. Left(s, m) = 1
    BY <2>1, FS_Singleton DEF Left, Count, n
  <2>3. ASSUME NEW i \in Survivors(s), i # m
        PROVE  Left(s, i) >= 2
    <3>1. {i} \cup {m} \subseteq Survivors(s) \cap i .. n
      BY <1>1, <1>7, <2>3
    <3>2. Survivors(s) \cap i .. n \subseteq 1 .. n
      BY <1>1
    <3>3. Cardinality({i} \cup {m}) <= Cardinality(Survivors(s) \cap i .. n)
      BY <1>1, <3>1, <3>2, Positions
    <3>4. Cardinality({i} \cup {m}) = 2
      <4>1. IsFiniteSet({i}) /\ Cardinality({i}) = 1 /\ m \notin {i}
        BY <2>3, FS_Singleton
      <4> DEFINE both == Cardinality({i} \cup {m})
      <4>2. both = 1 + 1
        BY <4>1, FS_AddElement
      <4> HIDE DEF both
      <4>3. both = 2
        BY <4>2
      <4> QED BY <4>3 DEF both
    <3>5. Cardinality(Survivors(s) \cap i .. n) = Left(s, i) /\ Left(s, i) \in Nat
      <4>1. Cardinality(Survivors(s) \cap i .. n) = Left(s, i)
        BY DEF Left, Count, n
      <4>2. i \in 1 .. n
        BY <1>1
      <4> QED BY <1>3, <4>1, <4>2
    <3> QED BY <3>3, <3>4, <3>5
  <2> QED BY <2>2, <2>3
<1>8. Survivors(s) = {} => Survivors(t) = {}
  BY <1>5
<1>9. Survivors(s) # {} =>
        \E m \in Survivors(s) : /\ \A i \in Survivors(s) : i <= m
                                /\ Survivors(t) = Survivors(s) \ {m}
  <2> SUFFICES ASSUME Survivors(s) # {}
               PROVE  \E m \in Survivors(s) : /\ \A i \in Survivors(s) : i <= m
                                              /\ Survivors(t) = Survivors(s) \ {m}
    OBVIOUS
  <2>1. PICK m \in Survivors(s) : \A i \in Survivors(s) : i <= m
    BY <1>1, LastPosition
  <2>2. /\ ~(Left(s, m) >= 2)
        /\ \A i \in Survivors(s) : i # m => Left(s, i) >= 2
    BY <1>7, <2>1
  <2>3. Survivors(t) = Survivors(s) \ {m}
    BY <1>5, <1>6, <2>2
  <2> QED BY <2>1, <2>3
<1>10. ASSUME NEW i \in Survivors(t)
       PROVE  Left(t, i) + Count(Deleted(t), i, n + 1) = 1 + Count(Stored(t), i + 1, n + 1)
  <2>1. i \in Survivors(s) /\ i \in 1 .. n
    BY <1>1, <1>5
  <2>2. PICK m \in Survivors(s) : /\ \A x \in Survivors(s) : x <= m
                                  /\ Survivors(t) = Survivors(s) \ {m}
    BY <1>9, <2>1
  <2>3. Survivors(t) \cap i .. n + 1 = (Survivors(s) \cap i .. n) \ {m}
    BY <1>1, <2>1, <2>2
  <2>4. m \in Survivors(s) \cap i .. n /\ IsFiniteSet(Survivors(s) \cap i .. n)
    <3>1. m \in Survivors(s) \cap i .. n
      BY <1>1, <2>1, <2>2
    <3>2. Survivors(s) \cap i .. n \subseteq 1 .. n
      BY <1>1
    <3> QED BY <1>1, <3>1, <3>2, Positions
  <2>5. Left(t, i) = Left(s, i) - 1
    <3>1. Cardinality((Survivors(s) \cap i .. n) \ {m}) = Cardinality(Survivors(s) \cap i .. n) - 1
      BY <2>4, FS_RemoveElement
    <3>2. /\ Left(t, i) = Cardinality(Survivors(t) \cap i .. n + 1)
          /\ Left(s, i) = Cardinality(Survivors(s) \cap i .. n)
      BY <1>1 DEF Left, Count, n
    <3> QED BY <2>3, <3>1, <3>2
  <2> QED BY <1>3, <1>4, <2>1, <2>5
<1>11. Balanced(t)
  BY <1>1, <1>10 DEF Balanced
<1> QED BY <1>8, <1>9, <1>11 DEF t, n

(* What a string spells after the next character. *)
LEMMA SpelledNext ==
  ASSUME NEW s \in Seq(Seen), NEW str \in Seq(Messages), NEW m \in Messages, NEW k \in Kinds,
         Spelled(s, str), Balanced(s)
  PROVE  LET e == [char |-> m, kind |-> k]
         IN  /\ Append(s, e) \in Seq(Seen) /\ Balanced(Append(s, e))
             /\ Spelled(Append(s, e), IF Stores(k) THEN Append(str, m)
                                      ELSE IF k = "del" /\ str # <<>> THEN Front(str) ELSE str)
<1> DEFINE e == [char |-> m, kind |-> k]
           t == Append(s, e)
           n == Len(s)
           S == Survivors(s)
<1>1. e \in Seen /\ e.char = m /\ e.kind = k
  BY DEF Seen
<1>2. /\ t \in Seq(Seen) /\ Len(t) = n + 1 /\ n \in Nat
      /\ t[n + 1] = e /\ \A i \in 1 .. n : t[i] = s[i]
      /\ S \subseteq 1 .. n
  BY <1>1, SeenNext
<1>3. /\ Stores(k) => Survivors(t) = S \cup {n + 1} /\ Balanced(t)
      /\ ~Stores(k) /\ k # "del" => Survivors(t) = S /\ Balanced(t)
  BY <1>1, StoredNext, OtherNext
<1>4. k = "del" =>
        /\ Balanced(t)
        /\ S = {} => Survivors(t) = {}
        /\ S # {} => \E x \in S : (\A i \in S : i <= x) /\ Survivors(t) = S \ {x}
  BY <1>1, DeletedNext
<1>5. Len(str) = Cardinality(S) /\ \A i \in S : str[Cardinality(S \cap 1 .. i)] = s[i].char
  BY DEF Spelled
<1> HIDE DEF e, t, n, S
<1>6. /\ IsFiniteSet(S) /\ Cardinality(S) \in Nat /\ (S = {} <=> Cardinality(S) = 0)
      /\ \A Y : Y \subseteq S => IsFiniteSet(Y) /\ Cardinality(Y) \in Nat
                                 /\ Cardinality(Y) <= Cardinality(S)
  BY <1>2, Positions
<1>7. ASSUME NEW i \in S
      PROVE  Cardinality(S \cap 1 .. i) \in 1 .. Cardinality(S)
  <2>1. S \cap 1 .. i \subseteq S /\ S \cap 1 .. i # {}
    BY <1>2
  <2>2. IsFiniteSet(S \cap 1 .. i) /\ Cardinality(S \cap 1 .. i) # 0
    BY <1>6, <2>1, FS_EmptySet
  <2> QED BY <1>6, <2>1, <2>2
<1>8. CASE Stores(k)
  <2>1. /\ Append(str, m) \in Seq(Messages) /\ Len(Append(str, m)) = Len(str) + 1
        /\ \A i \in 1 .. Len(str) : Append(str, m)[i] = str[i]
        /\ Append(str, m)[Len(str) + 1] = m
    BY AppendProperties
  <2>2. n + 1 \notin S /\ Cardinality(S \cup {n + 1}) = Cardinality(S) + 1
    <3>1. n + 1 \notin S
      BY <1>2
    <3> QED BY <1>6, <3>1, FS_AddElement
  <2>3. ASSUME NEW i \in S
        PROVE  Append(str, m)[Cardinality(Survivors(t) \cap 1 .. i)] = t[i].char
    <3>0. n + 1 \notin 1 .. i
      BY <1>2
    <3>1. Survivors(t) \cap 1 .. i = S \cap 1 .. i
      BY <1>3, <1>8, <3>0
    <3>2. t[i] = s[i]
      BY <1>2
    <3>3. Cardinality(S \cap 1 .. i) \in 1 .. Len(str)
      BY <1>5, <1>7
    <3>4. Append(str, m)[Cardinality(S \cap 1 .. i)] = s[i].char
      BY <1>5, <2>1, <3>3
    <3> QED BY <3>1, <3>2, <3>4
  <2>4. Append(str, m)[Cardinality(Survivors(t) \cap 1 .. n + 1)] = t[n + 1].char
    <3>0. n + 1 \in 1 .. n + 1 /\ 1 .. n \subseteq 1 .. n + 1
      BY <1>2
    <3>1. Survivors(t) \cap 1 .. n + 1 = S \cup {n + 1}
      BY <1>2, <1>3, <1>8, <3>0
    <3>2. Cardinality(S \cup {n + 1}) = Len(str) + 1
      BY <1>5, <2>2
    <3> QED BY <1>1, <1>2, <2>1, <3>1, <3>2
  <2>5. Spelled(t, Append(str, m))
    BY <1>3, <1>5, <1>8, <2>1, <2>2, <2>3, <2>4 DEF Spelled
  <2> QED BY <1>2, <1>3, <1>8, <2>5 DEF e, t
<1>9. CASE ~Stores(k) /\ (k # "del" \/ str = <<>>)
  <2>1. Survivors(t) = S /\ Balanced(t)
    <3>1. CASE k # "del"
      BY <1>3, <1>9, <3>1
    <3>2. CASE k = "del" /\ str = <<>>
      <4>1. S = {}
        BY <1>5, <1>6, <3>2
      <4> QED BY <1>4, <3>2, <4>1
    <3> QED BY <1>9, <3>1, <3>2
  <2>2. \A i \in S : t[i] = s[i]
    BY <1>2
  <2>3. Spelled(t, str)
    BY <1>5, <2>1, <2>2 DEF Spelled
  <2> QED BY <1>2, <1>9, <2>1, <2>3 DEF e, t
<1>10. CASE k = "del" /\ str # <<>>
  <2>1. /\ Front(str) \in Seq(Messages) /\ Len(Front(str)) = Len(str) - 1
        /\ \A j \in 1 .. Len(str) - 1 : Front(str)[j] = str[j]
    BY <1>10, FrontProperties
  <2>2. S # {}
    BY <1>5, <1>6, <1>10, EmptySeq
  <2>3. PICK x \in S : (\A i \in S : i <= x) /\ Survivors(t) = S \ {x}
    BY <1>4, <1>10, <2>2
  <2>4. Cardinality(S \ {x}) = Cardinality(S) - 1
    BY <1>6, <2>3, FS_RemoveElement
  <2>5. ASSUME NEW i \in S \ {x}
        PROVE  Front(str)[Cardinality(Survivors(t) \cap 1 .. i)] = t[i].char
    <3>1. Survivors(t) \cap 1 .. i = S \cap 1 .. i
      BY <1>2, <2>3, <2>5
    <3>2. t[i] = s[i]
      BY <1>2
    <3>3. Cardinality(S \cap 1 .. i) \in 1 .. Len(str) - 1
      <4>1. S \cap 1 .. i \subseteq S \ {x}
        BY <1>2, <2>3, <2>5
      <4>2. IsFiniteSet(S \ {x})
        BY <1>6
      <4>3. Cardinality(S \cap 1 .. i) <= Cardinality(S \ {x})
        BY <4>1, <4>2, FS_Subset
      <4> QED BY <1>5, <1>6, <1>7, <2>4, <4>3
    <3>4. Front(str)[Cardinality(S \cap 1 .. i)] = s[i].char
      BY <1>5, <2>1, <3>3
    <3> QED BY <3>1, <3>2, <3>4
  <2>6. Spelled(t, Front(str))
    BY <1>5, <2>1, <2>3, <2>4, <2>5 DEF Spelled
  <2>7. ~Stores(k)
    BY <1>10 DEF Stores
  <2> QED BY <1>2, <1>4, <1>10, <2>6, <2>7 DEF e, t
<1> QED BY <1>8, <1>9, <1>10

LEMMA IdleLine == LineOf(Idle) /\ Idle \in Reads /\ ~(Idle.max > 0)
<1>1. Idle \in Reads
  BY StdinConstants, EmptySeq DEF Idle, Reads
<1>2. Survivors(<<>>) = {}
  BY DEF Survivors, Stored
<1>3. Len(<<>>) = 0 /\ Cardinality({}) = 0
  BY EmptySeq, FS_EmptySet
<1>4. Spelled(<<>>, <<>>) /\ Balanced(<<>>)
  BY <1>2, <1>3 DEF Spelled, Balanced
<1> QED BY <1>1, <1>4 DEF LineOf, Idle

(* One character in the loop of cons_read. *)
LEMMA AfterKeyLine ==
  ASSUME NEW r, LineOf(r), r.max > 0, NEW m \in Messages, NEW k \in Kinds
  PROVE  LET a == AfterKey(r, m, k)
         IN  ~Returns(a, k) => LineOf(a) /\ a.max > 0
<1> DEFINE a == AfterKey(r, m, k)
           str == IF Stores(k) THEN Append(r.str, m)
                  ELSE IF k = "del" /\ r.str # <<>> THEN Front(r.str) ELSE r.str
<1>1. /\ r \in Reads /\ r.max \in 0 .. MaxLength /\ r.str \in Seq(Messages)
      /\ r.seen \in Seq(Seen)
      /\ Spelled(r.seen, r.str) /\ Balanced(r.seen) /\ Len(r.str) < r.max /\ MaxLength \in Nat
  BY StdinConstants DEF LineOf, Reads
<1>2. /\ a.max = r.max /\ a.str = str /\ a.seen = Append(r.seen, [char |-> m, kind |-> k])
      /\ a = [max |-> a.max, str |-> a.str, seen |-> a.seen]
  BY DEF AfterKey, Deletes
<1>3. a.seen \in Seq(Seen) /\ Balanced(a.seen) /\ Spelled(a.seen, a.str)
  <2>1. PICK s \in Seq(Seen), t \in Seq(Messages) : s = r.seen /\ t = r.str
    BY <1>1
  <2>2. /\ Append(s, [char |-> m, kind |-> k]) \in Seq(Seen)
        /\ Balanced(Append(s, [char |-> m, kind |-> k]))
        /\ Spelled(Append(s, [char |-> m, kind |-> k]),
                   IF Stores(k) THEN Append(t, m)
                   ELSE IF k = "del" /\ t # <<>> THEN Front(t) ELSE t)
    BY <1>1, <2>1, SpelledNext
  <2> QED BY <1>2, <2>1, <2>2
<1>4. /\ str \in Seq(Messages) /\ Len(r.str) \in Nat
      /\ Len(str) = IF Stores(k) THEN Len(r.str) + 1
                    ELSE IF Deletes(r, k) THEN Len(r.str) - 1 ELSE Len(r.str)
      /\ Deletes(r, k) => Len(r.str) > 0
  <2>1. Len(r.str) \in Nat /\ (r.str # <<>> => Len(r.str) > 0)
    BY <1>1, EmptySeq
  <2>2. Append(r.str, m) \in Seq(Messages) /\ Len(Append(r.str, m)) = Len(r.str) + 1
    BY <1>1, AppendProperties
  <2>3. r.str # <<>> => Front(r.str) \in Seq(Messages) /\ Len(Front(r.str)) = Len(r.str) - 1
    BY <1>1, FrontProperties
  <2> QED BY <1>1, <2>1, <2>2, <2>3 DEF Deletes
<1>6. a \in Reads
  <2>1. PICK x, s, t : x = a.max /\ s = a.str /\ t = a.seen
    OBVIOUS
  <2>2. [max |-> x, str |-> s, seen |-> t] \in Reads
    BY <1>1, <1>2, <1>3, <1>4, <2>1 DEF Reads
  <2> QED BY <1>2, <2>1, <2>2
<1> HIDE DEF a, str
<1>7. ~Returns(a, k) => Len(a.str) < a.max
  <2>1. Len(a.str) <= a.max /\ Len(a.str) \in Nat /\ a.max \in Nat
    BY <1>1, <1>2, <1>4
  <2> QED BY <2>1 DEF Returns
<1>8. a.max > 0
  BY <1>1, <1>2
<1>9. ~Returns(a, k) => LineOf(a)
  BY <1>3, <1>6, <1>7 DEF LineOf
<1> QED BY <1>8, <1>9 DEF a

\* The calls of the processes but p stay, and p is not in a preceive without reading.
LEMMA LineOfOne ==
  ASSUME LineInv, NEW p \in Procs, NEW r, r = Idle \/ (LineOf(r) /\ r.max > 0),
         reading' = [reading EXCEPT ![p] = r],
         \A q \in Procs : q # p /\ call'[q] = "preceive" => call[q] = "preceive",
         call'[p] # "preceive" \/ r # Idle
  PROVE  LineInv'
<1>1. LineOf(r) /\ r \in Reads /\ (r # Idle => r.max > 0)
  BY IdleLine DEF LineOf
<1>2. /\ reading \in [Procs -> Reads]
      /\ \A q \in Procs : /\ LineOf(reading[q])
                          /\ call[q] = "preceive" => reading[q].max > 0
  BY DEF LineInv, IsReading
<1>3. reading' \in [Procs -> Reads]
  BY <1>1, <1>2
<1>4. reading'[p] = r /\ \A q \in Procs : q # p => reading'[q] = reading[q]
  BY <1>2
<1>5. ASSUME NEW q \in Procs
      PROVE  /\ LineOf(reading[q])'
             /\ call'[q] = "preceive" => reading'[q].max > 0
  <2>1. PICK x : x = reading'[q]
    OBVIOUS
  <2>2. LineOf(x)
    BY <1>1, <1>2, <1>4, <2>1
  <2>3. LineOf(reading[q])'
    BY <2>1, <2>2 DEF LineOf
  <2>4. CASE q = p
    BY <1>1, <1>4, <2>3, <2>4
  <2>5. CASE q # p
    BY <1>2, <1>4, <2>3, <2>5
  <2> QED BY <2>4, <2>5
<1>6. \A q \in Procs : (call[q] = "preceive" => IsReading(q))'
  BY <1>5 DEF IsReading
<1> QED BY <1>3, <1>5, <1>6 DEF LineInv

LEMMA GotLine ==
  ASSUME LineInv, NEW p \in Procs, NEW m \in Messages, IsReading(p), Got(p, m),
         call'[p] # "preceive",
         \A q \in Procs : q # p /\ call'[q] = "preceive" => call[q] = "preceive"
  PROVE  LineInv'
<1>1. PICK k \in Kinds :
        reading' = [reading EXCEPT ![p] = IF Returns(AfterKey(reading[p], m, k), k)
                                            THEN Idle ELSE AfterKey(reading[p], m, k)]
  BY DEF Got
<1>2. PICK r : r = reading[p]
  OBVIOUS
<1>3. LineOf(r) /\ r.max > 0
  BY <1>2 DEF LineInv, IsReading
<1>4. PICK a : a = AfterKey(r, m, k)
  OBVIOUS
<1>5. ~Returns(a, k) => LineOf(a) /\ a.max > 0
  BY <1>3, <1>4, AfterKeyLine
<1>6. PICK b : b = IF Returns(a, k) THEN Idle ELSE a
  OBVIOUS
<1>7. b = Idle \/ (LineOf(b) /\ b.max > 0)
  <2>1. CASE Returns(a, k)
    BY <1>6, <2>1
  <2>2. CASE ~Returns(a, k)
    BY <1>5, <1>6, <2>2
  <2> QED BY <2>1, <2>2
<1>9. reading' = [reading EXCEPT ![p] = b]
  BY <1>1, <1>2, <1>4, <1>6
<1> QED BY <1>7, <1>9, LineOfOne

LEMMA LineSame ==
  ASSUME LineInv, reading' = reading,
         \A q \in Procs : call'[q] = "preceive" => call[q] = "preceive" \/ IsReading(q)
  PROVE  LineInv'
<1>1. \A q \in Procs : LineOf(reading[q])'
  <2> SUFFICES ASSUME NEW q \in Procs
               PROVE  LineOf(reading[q])'
    OBVIOUS
  <2>1. PICK x : x = reading[q] /\ x = reading'[q]
    OBVIOUS
  <2>2. LineOf(x)
    BY <2>1 DEF LineInv
  <2> QED BY <2>1, <2>2 DEF LineOf
<1>2. \A q \in Procs : call[q] = "preceive" => IsReading(q)
  BY DEF LineInv
<1>4. \A q \in Procs : (call[q] = "preceive" => IsReading(q))'
  BY <1>2 DEF IsReading
<1> QED BY <1>1, <1>4 DEF LineInv

LEMMA LineStep ==
  ASSUME ServiceInv, KeysInv, LineInv, [StdinNext]_stdin_vars
  PROVE  LineInv'
<1>0. /\ call \in [Procs -> {"none", "psend", "preceive"}]
      /\ reading \in [Procs -> Reads]
      /\ \A q \in Procs : call[q] = "preceive" => IsReading(q)
  BY DEF ServiceInv, QueueInv, TypeOK, LineInv
<1>1. ASSUME UNCHANGED <<vars, reading>>
      PROVE  LineInv'
  BY <1>1, LineSame DEF vars, procs
<1>2. ASSUME NEW p \in Procs, KeyboardData(p)
      PROVE  LineInv'
  <2>1. reading' = reading
    BY <1>2 DEF KeyboardData
  <2>2. CASE TooMany
    BY <1>1, <1>2, <2>2 DEF KeyboardData
  <2>3. CASE ~TooMany
    <3>1. call' = call \/ call' = [call EXCEPT ![p] = "psend"]
      BY <1>2, <2>3 DEF KeyboardData, Psend, WakeFirst, Block, procs
    <3>2. \A q \in Procs : call'[q] = "preceive" => call[q] = "preceive"
      BY <1>0, <3>1
    <3> QED BY <2>1, <3>2, LineSame
  <2> QED BY <2>2, <2>3
<1>3. ASSUME NEW p \in Procs, SendResumes(p)
      PROVE  LineInv'
  <2>1. reading' = reading /\ call' = [call EXCEPT ![p] = "none"]
    BY <1>3 DEF SendResumes, Resume
  <2>2. \A q \in Procs : call'[q] = "preceive" => call[q] = "preceive"
    BY <1>0, <2>1
  <2> QED BY <2>1, <2>2, LineSame
<1>4. ASSUME NEW p \in Procs, NEW n \in 1 .. MaxLength, ConsRead(p, n)
      PROVE  LineInv'
  <2>1. PICK r : r = [Idle EXCEPT !.max = n]
    OBVIOUS
  <2>2. /\ reading' = [reading EXCEPT ![p] = r]
        /\ call' = call /\ call[p] = "none"
    BY <1>4, <2>1 DEF ConsRead, InUser, Running, vars, procs
  <2>3. r = [max |-> n, str |-> <<>>, seen |-> <<>>] /\ n > 0
    BY <2>1, StdinConstants DEF Idle
  <2>4. r \in Reads /\ Len(<<>>) = 0
    BY <2>3, StdinConstants, EmptySeq DEF Reads
  <2>5. Spelled(<<>>, <<>>) /\ Balanced(<<>>)
    BY IdleLine DEF LineOf, Idle
  <2>6. LineOf(r) /\ r.max > 0
    BY <2>3, <2>4, <2>5 DEF LineOf
  <2> QED BY <2>2, <2>6, LineOfOne
<1>5. ASSUME NEW p \in Procs, ReadNext(p)
      PROVE  LineInv'
  <2>1. /\ IsReading(p) /\ call[p] = "none"
        /\ Preceive(stdin_fid, p)
    BY <1>5 DEF ReadNext, Running
  <2>2. CASE items[stdin_fid] = <<>>
    <3>1. reading' = reading
      BY <1>5, <2>2 DEF ReadNext
    <3>2. call' = call \/ call' = [call EXCEPT ![p] = "preceive"]
      BY <2>1 DEF Preceive, WakeFirst, Block, procs
    <3>3. \A q \in Procs : call'[q] = "preceive" => call[q] = "preceive" \/ IsReading(q)
      BY <1>0, <2>1, <3>2
    <3> QED BY <2>1, <3>1, <3>3, LineSame
  <2>3. CASE items[stdin_fid] # <<>>
    <3>1. Head(items[stdin_fid]) \in Messages
      BY <2>3, StdinQueue, HeadTailProperties
    <3>2. Got(p, Head(items[stdin_fid]))
      BY <1>5, <2>3 DEF ReadNext
    <3>3. call' = call
      BY <2>1, <2>3 DEF Preceive, WakeFirst, procs
    <3>4. PICK m \in Messages : Got(p, m)
      BY <3>1, <3>2
    <3>5. call'[p] # "preceive" /\ \A q \in Procs : call'[q] = "preceive" => call[q] = "preceive"
      BY <2>1, <3>3
    <3> QED BY <2>1, <3>4, <3>5, GotLine
  <2> QED BY <2>2, <2>3
<1>6. ASSUME NEW p \in Procs, ReadResumes(p)
      PROVE  LineInv'
  <2>1. /\ call[p] = "preceive" /\ proc[p] = "ready" /\ ~released[p]
        /\ Got(p, dest[p])
        /\ call' = [call EXCEPT ![p] = "none"]
    BY <1>6 DEF ReadResumes, Resume, ServiceInv
  <2>2. dest[p] \in Messages
    BY <2>1 DEF ServiceInv, AnswerInv, AnswersAgree, AnswersExact
  <2>3. PICK m \in Messages : Got(p, m)
    BY <2>1, <2>2
  <2>4. call'[p] # "preceive" /\ \A q \in Procs : call'[q] = "preceive" => call[q] = "preceive"
    BY <1>0, <2>1
  <2> QED BY <1>0, <2>1, <2>3, <2>4, GotLine
<1>8. ASSUME NEW p \in Procs, NEW q \in Procs, StdinKill(q, p)
      PROVE  LineInv'
  <2>1. /\ reading' = [reading EXCEPT ![p] = Idle]
        /\ call' = [call EXCEPT ![p] = "none"]
    BY <1>8 DEF StdinKill, Kill
  <2>3. call'[p] # "preceive" /\ \A x \in Procs : call'[x] = "preceive" => call[x] = "preceive"
    BY <1>0, <2>1
  <2> QED BY <2>1, <2>3, LineOfOne
<1>9. ASSUME NEW p \in Procs, NEW n, KeyboardInterrupt(p, n)
      PROVE  LineInv'
  BY <1>1, <1>9 DEF KeyboardInterrupt
<1>10. CASE UNCHANGED stdin_vars
  BY <1>1, <1>10 DEF stdin_vars
<1> QED BY <1>2, <1>3, <1>4, <1>5, <1>6, <1>8, <1>9, <1>10 DEF StdinNext

LEMMA LineInit ==
  ASSUME StdinInit
  PROVE  LineInv
<1>1. /\ reading = [p \in Procs |-> Idle]
      /\ call = [p \in Procs |-> "none"]
  BY DEF StdinInit
<1>2. \A p \in Procs : reading[p] = Idle /\ ~IsReading(p)
  BY <1>1, IdleLine DEF IsReading
<1> QED BY <1>1, <1>2, IdleLine DEF LineInv

StdinInv == ServiceInv /\ KeysInv /\ LineInv

LEMMA StdinInvAlways == StdinSpec => []StdinInv
<1>1. StdinInit => StdinInv
  BY ServiceInit, KeysInit, LineInit DEF StdinInv
<1>2. StdinInv /\ [StdinNext]_stdin_vars => StdinInv'
  <2> SUFFICES ASSUME StdinInv, [StdinNext]_stdin_vars
               PROVE  StdinInv'
    OBVIOUS
  <2>1. ServiceInv /\ KeysInv /\ LineInv /\ KeysType
    BY DEF StdinInv, KeysInv
  <2>2. ServiceInv' /\ KeysInv' /\ LineInv'
    BY <2>1, ServiceStep, KeysStep, LineStep
  <2> QED BY <2>2 DEF StdinInv
<1> QED BY <1>1, <1>2, PTL DEF StdinSpec

(* The queue, the characters on their way and the reads keep their types. *)
THEOREM StdinTypes == StdinSpec => []StdinTypeOK
<1>1. StdinInv => StdinTypeOK
  BY DEF StdinInv, ServiceInv, QueueInv, KeysInv, KeysType, LineInv, Reads, Seen, StdinTypeOK
<1> QED BY <1>1, StdinInvAlways, PTL

(***************************************************************************)
(* Whatever processes the keyboard interrupts hit, wake, stop or find dead *)
(* next time, at most one of them is held in keyboard_data by a full       *)
(* buffer, and the readers are handed the keys, and the characters of one  *)
(* key, in the order in which they were typed.                             *)
(***************************************************************************)
THEOREM KeysComeInOrder == StdinSpec => []KeysInOrder
<1>1. StdinInv => KeysInOrder
  BY KeysAreInOrder DEF StdinInv
<1> QED BY <1>1, StdinInvAlways, PTL

(***************************************************************************)
(* The string of a cons_read is what its deletions have left of the        *)
(* characters it got, and there is room for the next one, for every        *)
(* sequence of keys, length of line and number of readers.                 *)
(***************************************************************************)
THEOREM LinesAreEdited == StdinSpec => []LineIsEdited
<1>1. ASSUME LineInv PROVE LineIsEdited
  <2> SUFFICES ASSUME NEW p \in Procs
               PROVE  /\ Len(reading[p].str) = Cardinality(Survivors(reading[p].seen))
                      /\ \A i \in Survivors(reading[p].seen) :
                           reading[p].str[Cardinality(Survivors(reading[p].seen) \cap 1 .. i)]
                             = reading[p].seen[i].char
                      /\ IsReading(p) => Len(reading[p].str) < reading[p].max
    BY DEF LineIsEdited
  <2> QED BY <1>1 DEF LineInv, LineOf, Spelled, IsReading
<1>2. StdinInv => LineIsEdited
  BY <1>1 DEF StdinInv
<1> QED BY <1>2, StdinInvAlways, PTL
===============================================================================
