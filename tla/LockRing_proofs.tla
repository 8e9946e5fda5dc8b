--------------------------- MODULE LockRing_proofs ---------------------------
(***************************************************************************)
(* The ring of pids, fids and messages is a bounded FIFO for every size    *)
(* and every set of items.  The inductive invariant is                     *)
(* TypeOK /\ IndicesAgree: the counter, which is all the callers test, and *)
(* the two indices, which are all the ring uses, describe the same number  *)
(* of items.                                                               *)
(***************************************************************************)
EXTENDS LockRing, TLAPS

RingInv == TypeOK /\ IndicesAgree

(* `% Size' only ever wraps the index that has just left the last slot. *)
LEMMA SuccValue ==
  ASSUME NEW i \in Slots
  PROVE  /\ Succ(i) = IF i + 1 = Size THEN 0 ELSE i + 1
         /\ Succ(i) \in Slots
BY SizeAssumption DEF Succ, Slots

LEMMA InitRing == Init => RingInv
BY SizeAssumption
   DEF Init, StartsFull, StartsEmpty, RingInv, TypeOK, IndicesAgree, At, Slots, Lock

LEMMA ProduceRing ==
  ASSUME RingInv, NEW m \in Items, Produce(m)
  PROVE  RingInv'
<1>1. /\ produce \in Slots
      /\ Succ(produce) = IF produce + 1 = Size THEN 0 ELSE produce + 1
      /\ Succ(produce) \in Slots
  BY SuccValue DEF Produce, RingInv, TypeOK
<1>2. /\ count \in Nat /\ count < Size /\ count' = count + 1
      /\ Size \in Nat /\ Size > 0
  BY SizeAssumption DEF Produce, RingInv, TypeOK
<1>3. TypeOK'
  BY <1>1, <1>2 DEF Produce, RingInv, TypeOK, Slots, Lock
<1>4. CASE consume = Lock
  <2>1. count = 0 /\ consume' = produce
    BY <1>4 DEF RingInv, IndicesAgree, Produce
  <2>2. produce' = IF Succ(produce) = produce THEN Lock ELSE Succ(produce)
    BY <1>4 DEF Produce
  <2>3. Succ(produce) = produce <=> Size = 1
    BY <1>1, <1>2 DEF Slots
  <2>4. Size # 1 => produce' = At(count)'
    BY <1>1, <1>2, <2>1, <2>2, <2>3 DEF At, Slots
  <2> QED BY <1>1, <1>2, <1>3, <2>1, <2>2, <2>3, <2>4
          DEF RingInv, IndicesAgree, Slots, Lock
<1>5. CASE consume # Lock
  <2>1. consume \in 0 .. Size - 1 /\ consume' = consume
    BY <1>5 DEF RingInv, TypeOK, Slots, Produce
  <2>2. produce = IF consume + count < Size THEN consume + count
                                           ELSE consume + count - Size
    BY <1>1, <1>2, <1>5 DEF RingInv, IndicesAgree, At, Lock, Slots
  <2>3. produce' = IF Succ(produce) = consume THEN Lock ELSE Succ(produce)
    BY <1>5 DEF Produce
  <2>4. Succ(produce) = consume <=> count + 1 = Size
    BY <1>1, <1>2, <2>1, <2>2
  <2>5. count + 1 # Size => produce' = At(count)'
    BY <1>1, <1>2, <2>1, <2>2, <2>3, <2>4 DEF At
  <2> QED BY <1>1, <1>2, <1>3, <2>1, <2>3, <2>4, <2>5
          DEF RingInv, IndicesAgree, Slots, Lock
<1> QED BY <1>4, <1>5

LEMMA ConsumeRing ==
  ASSUME RingInv, Consume
  PROVE  RingInv'
<1>1. /\ consume \in Slots
      /\ Succ(consume) = IF consume + 1 = Size THEN 0 ELSE consume + 1
      /\ Succ(consume) \in Slots
  BY SuccValue DEF Consume, RingInv, TypeOK
<1>2. /\ count \in Nat /\ count > 0 /\ count <= Size /\ count' = count - 1
      /\ Size \in Nat /\ Size > 0
  BY SizeAssumption DEF Consume, RingInv, TypeOK
<1>3. TypeOK'
  BY <1>1, <1>2 DEF Consume, RingInv, TypeOK, Slots, Lock
<1>4. /\ produce' \in Slots
      /\ produce' = IF consume + count < Size THEN consume + count
                                             ELSE consume + count - Size
  BY <1>1, <1>2 DEF Consume, RingInv, TypeOK, IndicesAgree, At, Slots, Lock
<1>5. consume' = IF Succ(consume) = produce' THEN Lock ELSE Succ(consume)
  BY DEF Consume
<1>6. Succ(consume) = produce' <=> count = 1
  BY <1>1, <1>2, <1>4 DEF Slots
<1>7. count # 1 => produce' = At(count)'
  BY <1>1, <1>2, <1>4, <1>5, <1>6 DEF At, Slots
<1> QED BY <1>1, <1>2, <1>3, <1>4, <1>5, <1>6, <1>7
        DEF RingInv, IndicesAgree, Slots, Lock

LEMMA RingInductive == RingInv /\ [Next]_vars => RingInv'
<1> SUFFICES ASSUME RingInv, [Next]_vars PROVE RingInv'
  OBVIOUS
<1>1. CASE Consume
  BY <1>1, ConsumeRing
<1>2. ASSUME NEW m \in Items, Produce(m) PROVE RingInv'
  BY <1>2, ProduceRing
<1>3. CASE UNCHANGED vars
  BY <1>3 DEF vars, RingInv, TypeOK, IndicesAgree, At
<1> QED BY <1>1, <1>2, <1>3 DEF Next

(***************************************************************************)
(* For rings of any size the two indices always agree with the counter,    *)
(* and a caller that has tested its counter can never fail the assert on a *)
(* locked index in any of the six ring functions.                          *)
(***************************************************************************)
THEOREM RingAgrees == Spec => [](TypeOK /\ RingConsistent)
<1>1. RingInv => AssertsHold
  BY SizeAssumption DEF RingInv, TypeOK, IndicesAgree, AssertsHold, Slots, Lock
<1>2. RingInv => TypeOK /\ RingConsistent
  BY <1>1 DEF RingInv, RingConsistent
<1> QED BY <1>2, InitRing, RingInductive, PTL DEF Spec

-------------------------------------------------------------------------------
LEMMA ContentsType ==
  RingInv => Contents \in Seq(Items) /\ Len(Contents) = count
<1> SUFFICES ASSUME RingInv PROVE Contents \in Seq(Items) /\ Len(Contents) = count
  OBVIOUS
<1>1. count \in Nat
  BY SizeAssumption DEF RingInv, TypeOK
<1>2. ASSUME NEW i \in 1 .. count PROVE buffer[At(i - 1)] \in Items
  <2>1. consume \in Slots
    BY <1>1, <1>2 DEF RingInv, TypeOK, IndicesAgree, Lock
  <2>2. At(i - 1) \in Slots
    BY <1>1, <1>2, <2>1, SizeAssumption DEF RingInv, TypeOK, At, Slots
  <2> QED BY <2>2 DEF RingInv, TypeOK
<1> QED BY <1>1, <1>2 DEF Contents

LEMMA InitFifo == Init => Fifo!Init
<1> SUFFICES ASSUME Init PROVE Fifo!Init
  OBVIOUS
<1>1. RingInv
  BY InitRing
<1>2. count \in {0, Size}
  BY DEF Init, StartsFull, StartsEmpty
<1> QED BY <1>1, <1>2, ContentsType DEF Init, Fifo!Init

LEMMA ProduceFifo ==
  ASSUME RingInv, NEW m \in Items, Produce(m)
  PROVE  Fifo!Put(m)
<1>1. RingInv'
  BY ProduceRing
<1>2. /\ count \in Nat /\ count < Size /\ count' = count + 1 /\ Size \in Nat
      /\ produce \in 0 .. Size - 1 /\ buffer' = [buffer EXCEPT ![produce] = m]
      /\ buffer \in [0 .. Size - 1 -> Items]
      /\ consume' = IF consume = Lock THEN produce ELSE consume
      /\ consume' \in 0 .. Size - 1
  BY SizeAssumption DEF Produce, RingInv, TypeOK, Slots
<1>4. ASSUME NEW i \in 1 .. count
      PROVE  Contents'[i] = Contents[i]
  <2>1. consume \in 0 .. Size - 1 /\ consume' = consume
    BY <1>2, <1>4 DEF RingInv, TypeOK, IndicesAgree, Slots, Lock
  <2>2. produce = At(count)
    BY <1>2, <2>1 DEF RingInv, IndicesAgree, Lock
  <2>3. At(i - 1)' = At(i - 1) /\ At(i - 1) \in 0 .. Size - 1 /\ At(i - 1) # produce
    BY <1>2, <1>4, <2>1, <2>2 DEF At
  <2>4. buffer'[At(i - 1)] = buffer[At(i - 1)]
    BY <1>2, <2>3
  <2> QED BY <1>2, <2>3, <2>4 DEF Contents
<1>5. Contents'[count + 1] = m
  <2>0. buffer'[produce] = m /\ count + 1 \in 1 .. count' /\ (count + 1) - 1 = count
    BY <1>2
  <2>1. CASE consume = Lock
    <3>1. count = 0 /\ consume' = produce
      BY <1>2, <2>1 DEF RingInv, IndicesAgree
    <3>2. Contents'[count + 1] = buffer'[IF consume' + count < Size
                                          THEN consume' + count
                                          ELSE consume' + count - Size]
      BY <2>0 DEF Contents, At
    <3> QED BY <1>2, <2>0, <3>1, <3>2
  <2>2. CASE consume # Lock
    <3>1. produce = At(count) /\ consume' = consume
      BY <1>2, <2>2 DEF RingInv, IndicesAgree, Lock
    <3>2. Contents'[count + 1] = buffer'[IF consume + count < Size
                                          THEN consume + count
                                          ELSE consume + count - Size]
      BY <2>0, <3>1 DEF Contents, At
    <3> QED BY <2>0, <3>1, <3>2 DEF At
  <2> QED BY <2>1, <2>2
<1>6. /\ Contents \in Seq(Items) /\ Len(Contents) = count
      /\ Contents' \in Seq(Items) /\ Len(Contents') = count + 1
  <2>1. (Contents \in Seq(Items) /\ Len(Contents) = count)'
    BY <1>1, ContentsType, PTL
  <2> QED BY <1>2, <2>1, ContentsType
<1>7. Contents' = Append(Contents, m)
  BY <1>2, <1>4, <1>5, <1>6
<1> QED BY <1>2, <1>6, <1>7 DEF Fifo!Put, Produce

LEMMA ConsumeFifo ==
  ASSUME RingInv, Consume
  PROVE  Fifo!Get
<1>1. RingInv'
  BY ConsumeRing
<1>2. /\ count \in Nat /\ count > 0 /\ count <= Size /\ count' = count - 1
      /\ Size \in Nat /\ consume \in 0 .. Size - 1
      /\ buffer' = buffer /\ got' = buffer[consume]
  BY SizeAssumption DEF Consume, RingInv, TypeOK, Slots
<1>3. /\ Contents \in Seq(Items) /\ Len(Contents) = count
      /\ Contents' \in Seq(Items) /\ Len(Contents') = count - 1
  <2>1. (Contents \in Seq(Items) /\ Len(Contents) = count)'
    BY <1>1, ContentsType, PTL
  <2> QED BY <1>2, <2>1, ContentsType
<1>4. Contents # <<>> /\ got' = Head(Contents)
  BY <1>2, <1>3 DEF Contents, At
<1>5. ASSUME NEW i \in 1 .. count - 1
      PROVE  Contents'[i] = Contents[i + 1]
  <2>1. consume' \in 0 .. Size - 1
    BY <1>1, <1>2, <1>5 DEF RingInv, TypeOK, IndicesAgree, Slots, Lock
  <2>2. consume' = IF consume + 1 = Size THEN 0 ELSE consume + 1
    BY <1>2, <2>1, SuccValue DEF Consume, Lock, Slots
  <2>3. At(i - 1)' = At(i)
    BY <1>2, <1>5, <2>2 DEF At
  <2> QED BY <1>2, <2>3, <1>5 DEF Contents
<1>6. Contents' = Tail(Contents)
  BY <1>2, <1>3, <1>4, <1>5
<1> QED BY <1>4, <1>6 DEF Fifo!Get

(***************************************************************************)
(* The ring implements the bounded FIFO: whatever its size, every          *)
(* register/unregister is one Get or one Put of the abstract queue, so a   *)
(* pid, fid or message is neither lost, duplicated nor reordered.          *)
(***************************************************************************)
THEOREM RingRefines == Spec => RefinesFifo
<1>1. RingInv /\ [Next]_vars => [Fifo!Next]_(Fifo!vars)
  <2> SUFFICES ASSUME RingInv, [Next]_vars PROVE [Fifo!Next]_(Fifo!vars)
    OBVIOUS
  <2>1. CASE Consume
    BY <2>1, ConsumeFifo DEF Fifo!Next
  <2>2. ASSUME NEW m \in Items, Produce(m) PROVE Fifo!Next
    BY <2>2, ProduceFifo DEF Fifo!Next
  <2>3. CASE UNCHANGED vars
    BY <2>3 DEF vars, Fifo!vars, Contents, At
  <2> QED BY <2>1, <2>2, <2>3 DEF Next
<1> QED BY <1>1, InitRing, InitFifo, RingInductive, PTL DEF Spec, RefinesFifo, Fifo!Spec
===============================================================================
