------------------------------- MODULE LockRing -------------------------------
(***************************************************************************)
(* The ring with two indices that the kernel uses three times: the free    *)
(* pids of process.c, the free fids of message_queue.c and the messages of *)
(* each queue.  One index reads, the other writes; when an operation makes *)
(* them meet, the index that could not move any further is set to          *)
(* INDEXES_LOCK_VALUE, which is how full and empty are told apart.  The    *)
(* three copies of the code are identical up to names:                     *)
(*                                                                         *)
(*   Consume  process_table_register,   message_queue_table_register,      *)
(*            message_queue_unregister                                     *)
(*   Produce  process_table_unregister, message_queue_table_unregister,    *)
(*            message_queue_register                                       *)
(***************************************************************************)
EXTENDS Integers, Sequences

CONSTANTS Size, Items, NoItem

ASSUME SizeAssumption == Size \in Nat \ {0}
ASSUME NoItemAssumption == NoItem \notin Items

VARIABLES buffer,    \* pids[], fids[] or buffer[]
          consume,   \* pids_consume_index, message_consume_index ...
          produce,   \* pids_release_index, message_produce_index ...
          count,     \* nb_messages, or MAX_SIZE - current_size
          got        \* the value returned by the last Consume

vars == <<buffer, consume, produce, count, got>>

Lock == -1

Slots == 0 .. Size - 1

Succ(i) == (i + 1) % Size

(***************************************************************************)
(* The pid and fid rings start full and locked for release.  A message     *)
(* ring starts with both indices at 0 (empty_message_queue leaves them     *)
(* out of its initialiser) and with whatever mem_alloc returned in it:     *)
(* an empty ring in which no index is locked.                              *)
(***************************************************************************)
StartsFull  == count = Size /\ produce = Lock

StartsEmpty == count = 0 /\ produce = 0

Init == /\ buffer \in [Slots -> Items]
        /\ consume = 0
        /\ StartsFull \/ StartsEmpty
        /\ got = NoItem

\* Faulty variants: the writing index is not locked when the ring is full; the
\* item is read after the index moved.
ProduceNeverLocks(m) ==
  /\ count < Size /\ produce # Lock
  /\ buffer' = [buffer EXCEPT ![produce] = m]
  /\ consume' = IF consume = Lock THEN produce ELSE consume
  /\ produce' = Succ(produce)
  /\ count' = count + 1
  /\ UNCHANGED got

ConsumeLate ==
  /\ count > 0 /\ consume # Lock
  /\ got' = buffer[Succ(consume)]
  /\ produce' = IF produce = Lock THEN consume ELSE produce
  /\ consume' = IF Succ(consume) = produce' THEN Lock ELSE Succ(consume)
  /\ count' = count - 1
  /\ UNCHANGED buffer

(***************************************************************************)
(* Both operations begin with an assert on their index; the callers test   *)
(* the counter first.  A failed assert stops the machine, so the action is *)
(* not enabled.                                                            *)
(***************************************************************************)
Produce(m) ==
  /\ count < Size
  /\ produce # Lock
  /\ buffer' = [buffer EXCEPT ![produce] = m]
  /\ LET read == IF consume = Lock THEN produce ELSE consume
     IN  /\ consume' = read
         /\ produce' = IF Succ(produce) = read THEN Lock ELSE Succ(produce)
  /\ count' = count + 1
  /\ UNCHANGED got

Consume ==
  /\ count > 0
  /\ consume # Lock
  /\ got' = buffer[consume]
  /\ LET write == IF produce = Lock THEN consume ELSE produce
     IN  /\ produce' = write
         /\ consume' = IF Succ(consume) = write THEN Lock ELSE Succ(consume)
  /\ count' = count - 1
  /\ UNCHANGED buffer

Next == Consume \/ \E m \in Items : Produce(m)

Spec == Init /\ [][Next]_vars
-------------------------------------------------------------------------------
(* Type invariant of the ring's five fields. *)
TypeOK == /\ buffer \in [Slots -> Items]
          /\ consume \in Slots \cup {Lock}
          /\ produce \in Slots \cup {Lock}
          /\ count \in 0 .. Size
          /\ got \in Items \cup {NoItem}

(***************************************************************************)
(* The asserts of the six functions never fail once the caller has tested  *)
(* its counter: a ring that is not full can be written and one that is not *)
(* empty can be read (process.c:139,156, message_queue.c:157,173,190,207). *)
(***************************************************************************)
AssertsHold == /\ count < Size => produce # Lock
               /\ count > 0 => consume # Lock

\* The slot that lies i places after the reading index.
At(i) == IF consume + i < Size THEN consume + i ELSE consume + i - Size

(***************************************************************************)
(* The indices and the counter never drift apart: the writing index is     *)
(* locked exactly when the ring is full, the reading index can be locked   *)
(* only when it is empty, and otherwise the writing index lies `count'     *)
(* places after the reading one.                                           *)
(***************************************************************************)
IndicesAgree == /\ produce = Lock <=> count = Size
                /\ consume = Lock => count = 0
                /\ produce # Lock /\ consume # Lock => produce = At(count)

(* The ring's two indices and its counter stay consistent, so that no        *)
(* register or unregister that the counter allows stops the kernel.          *)
RingConsistent == AssertsHold /\ IndicesAgree

(* The items in the order in which they will be consumed. *)
Contents == [i \in 1 .. count |-> buffer[At(i - 1)]]

Fifo == INSTANCE BoundedFifo WITH q <- Contents

(* The ring is a bounded FIFO: pids, fids and messages come out in the      *)
(* order in which they went in, none lost and none twice.                   *)
RefinesFifo == Fifo!Spec
===============================================================================
