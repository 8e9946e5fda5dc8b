----------------------------- MODULE BoundedFifo -----------------------------
(***************************************************************************)
(* What the kernel expects of its index rings (process_table.pids,         *)
(* message_queue_table.fids and the buffer of every message queue): a      *)
(* first-in first-out sequence of at most Size items.  `got' is the item   *)
(* handed out by the last Get.                                             *)
(***************************************************************************)
EXTENDS Naturals, Sequences

CONSTANTS Size,     \* capacity of the ring
          Items,    \* what is stored: pids, fids or messages
          NoItem    \* nothing has been taken out yet

VARIABLES q, got

vars == <<q, got>>

Init == /\ q \in Seq(Items)
        /\ Len(q) \in {0, Size}
        /\ got = NoItem

Put(m) == /\ Len(q) < Size
          /\ q' = Append(q, m)
          /\ UNCHANGED got

Get == /\ q # <<>>
       /\ got' = Head(q)
       /\ q' = Tail(q)

Next == Get \/ \E m \in Items : Put(m)

Spec == Init /\ [][Next]_vars
==============================================================================
