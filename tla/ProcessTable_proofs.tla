------------------------- MODULE ProcessTable_proofs -------------------------
(***************************************************************************)
(* The process table, for every table size and every set of calls.  First  *)
(* its types, for everything processes are allowed to do, then that it is  *)
(* exact, for programs that only wait for children they have, and then     *)
(* what the scheduler promises and what stops the kernel.                  *)
(***************************************************************************)
EXTENDS ProcessTable, SeqLemmas

(***************************************************************************)
(* The table, its lists and the kernel stacks keep their types, and the    *)
(* two cleaning functions stay on top of the stack of the running process, *)
(* for every table size, every set of calls and everything processes are   *)
(* allowed to do.                                                          *)
(*                                                                         *)
(* TypeOK alone is not inductive: zombify() puts the father of its process *)
(* in the ready queue and destroy() gives its pid back, so that the pids   *)
(* in their activations, and the father of the former, must be known to be *)
(* pids of the table when the activation goes on.  CleaningOnTop says so.  *)
(***************************************************************************)
TableInv == TypeOK /\ CleaningOnTop

\* A kernel stack with no activation of zombify or destroy.
Plain(s) == \A i \in DOMAIN s : s[i].op \notin {"zombify", "destroy"}

USE SizesAssumption
-------------------------------------------------------------------------------
LEMMA ExceptType ==
  ASSUME NEW S, NEW T, NEW f \in [S -> T], NEW x, NEW v \in T
  PROVE  [f EXCEPT ![x] = v] \in [S -> T]
OBVIOUS

LEMMA FrameType ==
  ASSUME NEW op \in Ops, NEW arg \in 0 .. N
  PROVE  /\ Frame(op, arg) \in Frames
         /\ Frame(op, arg).op = op /\ Frame(op, arg).arg = arg
BY DEF Frame, Frames

LEMMA ScheduleType == Schedule \in Frames /\ Schedule.op = "schedule"
BY FrameType DEF Schedule, Ops

LEMMA PlainEmpty == <<>> \in Seq(Frames) /\ Plain(<<>>)
BY EmptySeq DEF Plain

LEMMA PlainPush ==
  ASSUME NEW f \in Frames, f.op \notin {"zombify", "destroy"},
         NEW s \in Seq(Frames), Plain(s)
  PROVE  <<f>> \o s \in Seq(Frames) /\ Plain(<<f>> \o s)
<1>1. /\ <<f>> \o s \in Seq(Frames)
      /\ Len(<<f>> \o s) = Len(s) + 1
      /\ (<<f>> \o s)[1] = f
      /\ \A j \in 2 .. Len(s) + 1 : (<<f>> \o s)[j] = s[j - 1]
  BY PushProperties
<1>2. Len(s) \in Nat /\ DOMAIN s = 1 .. Len(s) /\ DOMAIN (<<f>> \o s) = 1 .. Len(s) + 1
  BY <1>1, LenProperties
<1>3. ASSUME NEW j \in 1 .. Len(s) + 1
      PROVE  (<<f>> \o s)[j].op \notin {"zombify", "destroy"}
  <2>1. CASE j = 1
    BY <1>1, <2>1
  <2>2. CASE j # 1
    <3>1. j \in 2 .. Len(s) + 1 /\ j - 1 \in 1 .. Len(s)
      BY <1>2, <2>2
    <3> QED BY <1>1, <1>2, <3>1 DEF Plain
  <2> QED BY <2>1, <2>2
<1> QED BY <1>1, <1>2, <1>3 DEF Plain

LEMMA PlainOne ==
  ASSUME NEW f \in Frames, f.op \notin {"zombify", "destroy"}
  PROVE  <<f>> \in Seq(Frames) /\ Plain(<<f>>)
<1>1. <<f>> \in Seq(Frames) /\ Len(<<f>>) = 1 /\ <<f>>[1] = f
  OBVIOUS
<1>2. DOMAIN <<f>> = {1}
  BY <1>1
<1> QED BY <1>1, <1>2 DEF Plain

(* The stack of the running process. *)
LEMMA RunningStack ==
  ASSUME TableInv
  PROVE  /\ running \in Pids
         /\ kstack[running] \in Seq(Frames)
         /\ kstack[running] # <<>> =>
              /\ Top \in Frames
              /\ Tail(kstack[running]) \in Seq(Frames)
              /\ Plain(Tail(kstack[running]))
              /\ Top.op \notin {"zombify", "destroy"} => Plain(kstack[running])
              /\ Top.op \in {"zombify", "destroy"} => Top.arg \in Pids \ {1, running}
              /\ Top.op = "zombify" => father[Top.arg] \in Pids
<1>1. running \in Pids /\ kstack[running] \in Seq(Frames)
  BY DEF TableInv, TypeOK
<1> DEFINE s == kstack[running]
<1>2. s \in Seq(Frames) /\ Len(s) \in Nat /\ DOMAIN s = 1 .. Len(s)
  BY <1>1, LenProperties
<1>3. \A i \in DOMAIN s : s[i].op \in {"zombify", "destroy"} =>
        /\ i = 1 /\ s[i].arg \in Pids \ {1, running}
        /\ s[i].op = "zombify" => father[s[i].arg] \in Pids
  BY <1>1 DEF TableInv, CleaningOnTop
<1>4. ASSUME s # <<>>
      PROVE  /\ Head(s) = s[1] /\ 1 \in DOMAIN s /\ Head(s) \in Frames
             /\ Tail(s) \in Seq(Frames)
             /\ Plain(Tail(s))
  <2>1. /\ Head(s) \in Frames
        /\ Tail(s) \in Seq(Frames)
        /\ Len(Tail(s)) = Len(s) - 1
        /\ \A i \in 1 .. Len(Tail(s)) : Tail(s)[i] = s[i + 1]
    BY <1>2, <1>4, HeadTailProperties
  <2>2. Len(s) \in Nat \ {0}
    BY <1>2, <1>4, EmptySeq
  <2>3. DOMAIN Tail(s) = 1 .. Len(s) - 1
    BY <2>1, LenProperties
  <2>4. ASSUME NEW i \in DOMAIN Tail(s)
        PROVE  Tail(s)[i].op \notin {"zombify", "destroy"}
    <3>1. i + 1 \in DOMAIN s /\ i + 1 # 1 /\ Tail(s)[i] = s[i + 1]
      BY <1>2, <2>1, <2>2, <2>3
    <3> QED BY <1>3, <3>1
  <2>5. Head(s) = s[1] /\ 1 \in DOMAIN s
    BY <1>2, <2>2
  <2> QED BY <2>1, <2>4, <2>5 DEF Plain
<1>5. ASSUME s # <<>>, Top.op \notin {"zombify", "destroy"}
      PROVE  Plain(s)
  BY <1>3, <1>4, <1>5 DEF Plain, Top
<1> QED BY <1>1, <1>3, <1>4, <1>5 DEF Top

(***************************************************************************)
(* The stack of the running process is replaced by s: by one that is       *)
(* plain, whatever else the step does, or by one with a cleaning activation *)
(* on top of a plain one, if the process goes on running.                  *)
(***************************************************************************)
LEMMA PlainStack ==
  ASSUME TableInv, NEW s \in Seq(Frames), Plain(s), running' \in Pids,
         kstack' = [kstack EXCEPT ![running] = s]
  PROVE  CleaningOnTop' /\ kstack' \in [Pids -> Seq(Frames)]
<1>1. running \in Pids /\ kstack \in [Pids -> Seq(Frames)]
  BY DEF TableInv, TypeOK
<1>2. \A p \in Pids : kstack'[p] = IF p = running THEN s ELSE kstack[p]
  BY <1>1
<1>3. \A p \in Pids : p # running =>
        \A i \in DOMAIN kstack[p] : kstack[p][i].op \notin {"zombify", "destroy"}
  BY DEF TableInv, CleaningOnTop
<1>4. \A p \in Pids : \A i \in DOMAIN kstack'[p] : kstack'[p][i].op \notin {"zombify", "destroy"}
  BY <1>2, <1>3 DEF Plain
<1> QED BY <1>1, <1>4 DEF CleaningOnTop

LEMMA CleaningStack ==
  ASSUME TableInv, NEW s \in Seq(Frames), Plain(s),
         NEW f \in Frames, f.arg \in Pids \ {1, running},
         running' = running,
         f.op = "zombify" => father'[f.arg] \in Pids,
         NEW stacks \in [Pids -> Seq(Frames)],
         \A p \in Pids : stacks[p] = kstack[p] \/ Plain(stacks[p]),
         kstack' = [stacks EXCEPT ![running] = <<f>> \o s]
  PROVE  CleaningOnTop' /\ kstack' \in [Pids -> Seq(Frames)]
<1>1. running \in Pids
  BY DEF TableInv, TypeOK
<1> DEFINE t == <<f>> \o s
<1>2. /\ t \in Seq(Frames) /\ Len(t) = Len(s) + 1 /\ t[1] = f
      /\ \A j \in 2 .. Len(s) + 1 : t[j] = s[j - 1]
  BY PushProperties
<1>3. Len(s) \in Nat /\ DOMAIN s = 1 .. Len(s) /\ DOMAIN t = 1 .. Len(s) + 1
  BY <1>2, LenProperties
<1> HIDE DEF t
<1>4. ASSUME NEW j \in DOMAIN t, t[j].op \in {"zombify", "destroy"}
      PROVE  j = 1 /\ t[j] = f
  <2>1. CASE j # 1
    <3>1. j \in 2 .. Len(s) + 1 /\ j - 1 \in DOMAIN s
      BY <1>3, <2>1
    <3> QED BY <1>2, <1>4, <3>1 DEF Plain
  <2> QED BY <1>2, <2>1
<1>5. \A p \in Pids : kstack'[p] = IF p = running THEN t ELSE stacks[p]
  BY <1>1 DEF t
<1>6. \A p \in Pids : p # running =>
        \A i \in DOMAIN kstack[p] : kstack[p][i].op \notin {"zombify", "destroy"}
  BY DEF TableInv, CleaningOnTop
<1>7. \A p \in Pids : p # running =>
        \A i \in DOMAIN kstack'[p] : kstack'[p][i].op \notin {"zombify", "destroy"}
  BY <1>5, <1>6 DEF Plain
<1>8. kstack' \in [Pids -> Seq(Frames)]
  BY <1>1, <1>2 DEF t
<1>9. ASSUME NEW p \in Pids, NEW i \in DOMAIN kstack'[p],
             kstack'[p][i].op \in {"zombify", "destroy"}
      PROVE  p = running /\ i = 1 /\ kstack'[p][i] = f
  <2>1. p = running
    BY <1>7, <1>9
  <2>2. kstack'[p] = t
    BY <1>5, <2>1
  <2> QED BY <1>4, <1>9, <2>1, <2>2
<1>10. CleaningOnTop'
  BY <1>9 DEF CleaningOnTop
<1> QED BY <1>8, <1>10
-------------------------------------------------------------------------------
(* queue_add finds a place: in front of the first element whose priority is *)
(* not lower, or behind them all.                                           *)
LEMMA PositionProperties ==
  ASSUME NEW q \in Seq(Pids), NEW prio \in [Pids -> Int], NEW p \in Pids
  PROVE  /\ Position(q, prio, p) \in 1 .. Len(q) + 1
         /\ Position(q, prio, p) <= Len(q) => prio[q[Position(q, prio, p)]] >= prio[p]
         /\ \A i \in 1 .. Position(q, prio, p) - 1 : prio[q[i]] < prio[p]
<1> DEFINE T == {k \in 1 .. Len(q) + 1 : k <= Len(q) => prio[q[k]] >= prio[p]}
           P(k) == /\ k <= Len(q) => prio[q[k]] >= prio[p]
                   /\ \A i \in 1 .. k - 1 : prio[q[i]] < prio[p]
<1>1. Len(q) \in Nat
  BY LenProperties
<1>2. T \subseteq Nat /\ Len(q) + 1 \in T
  BY <1>1
<1>3. PICK k \in T : \A y \in T : k <= y
  BY <1>2, LeastNatural
<1>4. k \in 1 .. Len(q) + 1 /\ P(k)
  <2>1. k \in 1 .. Len(q) + 1 /\ (k <= Len(q) => prio[q[k]] >= prio[p])
    OBVIOUS
  <2>2. ASSUME NEW i \in 1 .. k - 1
        PROVE  prio[q[i]] < prio[p]
    <3>1. i \in 1 .. Len(q) /\ i \notin T
      BY <1>1, <1>3, <2>1
    <3>2. q[i] \in Pids
      BY <3>1, ElementOfSeq
    <3>3. prio[q[i]] \in Int /\ prio[p] \in Int
      BY <3>2
    <3>4. ~(prio[q[i]] >= prio[p])
      BY <1>1, <3>1
    <3> QED BY <3>3, <3>4
  <2> QED BY <2>1, <2>2
<1>5. Position(q, prio, p) = CHOOSE x \in 1 .. Len(q) + 1 : P(x)
  BY DEF Position
<1> HIDE DEF P
<1>6. Position(q, prio, p) \in 1 .. Len(q) + 1 /\ P(Position(q, prio, p))
  BY <1>4, <1>5
<1> QED BY <1>6 DEF P

LEMMA QueueAddType ==
  ASSUME NEW q \in Seq(Pids), NEW prio \in [Pids -> Int], NEW p \in Pids
  PROVE  QueueAdd(q, prio, p) \in Seq(Pids)
BY PositionProperties, InsertAtProperties DEF QueueAdd

LEMMA WithoutType ==
  ASSUME NEW S, NEW s \in Seq(S), NEW e
  PROVE  Without(s, e) \in Seq(S)
<1>1. CASE \E i \in DOMAIN s : s[i] = e
  <2> DEFINE i == CHOOSE i \in DOMAIN s : s[i] = e
  <2>1. i \in DOMAIN s
    BY <1>1
  <2>2. i \in 1 .. Len(s)
    BY <2>1, LenProperties
  <2> HIDE DEF i
  <2>3. RemoveAt(s, i) \in Seq(S)
    BY <2>2, RemoveAtProperties
  <2> QED BY <1>1, <2>3 DEF Without, i
<1>2. CASE ~\E i \in DOMAIN s : s[i] = e
  BY <1>2 DEF Without
<1> QED BY <1>1, <1>2

(* The list that clean_processes takes an entry of. *)
LEMMA PickedType ==
  ASSUME NEW list \in Seq(Pids), list # <<>>, running \in Pids
  PROVE  Picked(list) \in Pids /\ Unpicked(list) \in Seq(Pids)
<1>1. Len(list) \in Nat \ {0} /\ 1 \in 1 .. Len(list)
  BY EmptySeq
<1>2. list[1] \in Pids /\ Last(list) \in Pids
  BY <1>1, ElementOfSeq, FrontProperties
<1>3. [list EXCEPT ![1] = running] \in Seq(Pids)
  BY <1>1, ExceptSeq
<1>4. Front(list) \in Seq(Pids) /\ Front([list EXCEPT ![1] = running]) \in Seq(Pids)
  BY <1>3, FrontType
<1> QED BY <1>2, <1>4 DEF Picked, Unpicked
-------------------------------------------------------------------------------
(* One lemma per action of the kernel. *)

LEMMA FailInv ==
  ASSUME TableInv, NEW site \in Sites, Fail(site)
  PROVE  TableInv'
BY DEF Fail, TableInv, TypeOK, CleaningOnTop, family, life, sched, lists, sleep, clock

LEMMA PriorityType ==
  ASSUME TypeOK
  PROVE  priority \in [Pids -> Int]
BY DEF TypeOK

LEMMA RequestDestroyType ==
  ASSUME TypeOK, NEW p \in Pids, RequestDestroy(p)
  PROVE  sealed' \in [Pids -> BOOLEAN] /\ to_destroy' \in Seq(Pids)
BY AppendProperties DEF TypeOK, RequestDestroy

LEMMA CleanZombifyInv ==
  ASSUME TableInv, CleanZombify
  PROVE  TableInv'
<1> DEFINE p == Picked(to_zombify)
           f == Frame("zombify", p)
           stacks == [kstack EXCEPT ![p] = <<>>]
<1>1. to_zombify \in Seq(Pids) /\ to_zombify # <<>> /\ running \in Pids
  BY DEF TableInv, TypeOK, CleanZombify, CanPick
<1>2. p \in Pids /\ Unpicked(to_zombify) \in Seq(Pids)
  BY <1>1, PickedType
<1>3. kstack[running] \in Seq(Frames) /\ Plain(kstack[running])
  BY RunningStack DEF CleanZombify, InKernel
<1>4. f \in Frames /\ f.op = "zombify" /\ f.arg = p
  BY <1>2, FrameType DEF Ops, Pids
<1>5. stacks \in [Pids -> Seq(Frames)] /\ \A r \in Pids : stacks[r] = kstack[r] \/ Plain(stacks[r])
  BY <1>2, PlainEmpty DEF TableInv, TypeOK
<1> HIDE DEF p, f
<1>6. CASE Fail("zombify") \/ Fail("deallocate")
  <2>1. "zombify" \in Sites /\ "deallocate" \in Sites
    BY DEF Sites
  <2> QED BY <1>6, <2>1, FailInv
<1>7. CASE /\ p \notin {1, running} /\ father[p] \in Pids
           /\ to_zombify' = Unpicked(to_zombify)
           /\ deallocated' = [deallocated EXCEPT ![p] = TRUE]
           /\ kstack' = [kstack EXCEPT ![p] = <<>>, ![running] = <<f>> \o @]
           /\ UNCHANGED <<family, pid, state, sealed, sched, to_destroy, free,
                          sleep, clock, waiting_code, panic>>
  <2>1. stacks[running] = kstack[running]
    BY <1>1, <1>2, <1>7 DEF TableInv, TypeOK
  <2>2. kstack' = [stacks EXCEPT ![running] = <<f>> \o kstack[running]]
    BY <1>7, <2>1
  <2>3. running' = running /\ father' = father
    BY <1>7 DEF sched, family
  <2> HIDE DEF stacks
  <2>4. CleaningOnTop' /\ kstack' \in [Pids -> Seq(Frames)]
    BY <1>2, <1>3, <1>4, <1>5, <1>7, <2>2, <2>3, CleaningStack
  <2>5. TypeOK'
    BY <1>2, <1>7, <2>4 DEF TableInv, TypeOK, family, sched, sleep, clock
  <2> QED BY <2>4, <2>5 DEF TableInv
<1> QED BY <1>6, <1>7 DEF CleanZombify, p, f

LEMMA ZombifyChildInv ==
  ASSUME TableInv, ZombifyChild
  PROVE  TableInv'
<1> DEFINE p == Top.arg
           k == Top.at
           c == childs[p][k]
<1>1. /\ running \in Pids /\ Top \in Frames /\ p \in Pids \ {1, running} /\ father[p] \in Pids
      /\ Tail(kstack[running]) \in Seq(Frames) /\ Plain(Tail(kstack[running]))
      /\ Top.op = "zombify"
  BY RunningStack DEF ZombifyChild, InKernel
<1>2. childs[p] \in Seq(Pids) /\ k \in 1 .. Len(childs[p])
  <2>1. childs[p] \in Seq(Pids) /\ k \in Nat \ {0} /\ k <= Len(childs[p])
    BY <1>1 DEF TableInv, TypeOK, ZombifyChild, Frames
  <2> QED BY <2>1, LenProperties
<1>3. c \in Pids
  BY <1>2, ElementOfSeq
<1> HIDE DEF c
<1>4. CASE Fail("request_destroy")
  <2>1. "request_destroy" \in Sites
    BY DEF Sites
  <2> QED BY <1>4, <2>1, FailInv
<1>5. CASE /\ RequestDestroy(c)
           /\ Replace([Top EXCEPT !.at = k + 1])
           /\ UNCHANGED <<family, pid, state, deallocated, sched, to_zombify,
                          free, sleep, clock, waiting_code, panic>>
  <2> DEFINE f == [Top EXCEPT !.at = k + 1]
  <2>1. f = [op |-> "zombify", arg |-> p, at |-> k + 1]
    BY <1>1 DEF Frames
  <2>1b. f \in Frames /\ f.op = "zombify" /\ f.arg = p
    BY <1>1, <2>1 DEF Frames
  <2> HIDE DEF f
  <2>2. kstack' = [kstack EXCEPT ![running] = <<f>> \o Tail(kstack[running])]
    BY <1>5 DEF Replace, f
  <2>3. running' = running /\ father' = father
    BY <1>5 DEF sched, family
  <2>4. kstack \in [Pids -> Seq(Frames)]
    BY DEF TableInv, TypeOK
  <2>5. CleaningOnTop' /\ kstack' \in [Pids -> Seq(Frames)]
    BY <1>1, <2>1b, <2>2, <2>3, <2>4, CleaningStack
  <2>6. TypeOK'
    BY <1>3, <1>5, <2>5, RequestDestroyType DEF TableInv, TypeOK, family, sched, sleep, clock
  <2> QED BY <2>5, <2>6 DEF TableInv
<1>6. CASE /\ childs' = [childs EXCEPT ![p] = RemoveAt(@, k)]
           /\ father' = [father EXCEPT ![c] = 1]
           /\ UNCHANGED <<life, sched, lists, sleep, clock, waiting_code, kstack, panic>>
  <2>1. RemoveAt(childs[p], k) \in Seq(Pids)
    BY <1>2, RemoveAtProperties
  <2>2. \A q \in Pids : father[q] \in Pids => father'[q] \in Pids
    BY <1>3, <1>6 DEF TableInv, TypeOK, Pids
  <2>3. CleaningOnTop'
    BY <1>6, <2>2 DEF TableInv, CleaningOnTop, sched
  <2>4. childs' \in [Pids -> Seq(Pids)] /\ father' \in [Pids -> 0 .. N \cup {NotFound}]
    <3>1. childs \in [Pids -> Seq(Pids)] /\ father \in [Pids -> 0 .. N \cup {NotFound}]
      BY DEF TableInv, TypeOK
    <3>2. childs' = [childs EXCEPT ![p] = RemoveAt(childs[p], k)]
      BY <1>6
    <3>3. 1 \in 0 .. N \cup {NotFound}
      OBVIOUS
    <3> HIDE DEF p, k
    <3> QED BY <1>1, <1>3, <1>6, <2>1, <3>1, <3>2, <3>3
  <2>5. TypeOK'
    BY <1>6, <2>4 DEF TableInv, TypeOK, life, sched, lists, sleep, clock
  <2> QED BY <2>3, <2>5 DEF TableInv
<1> QED BY <1>4, <1>5, <1>6 DEF ZombifyChild, c

LEMMA ZombifyEndInv ==
  ASSUME TableInv, ZombifyEnd
  PROVE  TableInv'
<1> DEFINE p == Top.arg
           f == father[p]
<1>1. /\ running \in Pids /\ p \in Pids /\ f \in Pids
      /\ Tail(kstack[running]) \in Seq(Frames) /\ Plain(Tail(kstack[running]))
  BY RunningStack DEF ZombifyEnd, InKernel
<1>2. queue \in Seq(Pids) /\ priority \in [Pids -> Int]
  BY PriorityType DEF TableInv, TypeOK
<1> HIDE DEF p, f
<1>3. QueueAdd(queue, priority, f) \in Seq(Pids)
  BY <1>1, <1>2, QueueAddType
<1>4. <<Schedule>> \o Tail(kstack[running]) \in Seq(Frames)
      /\ Plain(<<Schedule>> \o Tail(kstack[running]))
  BY <1>1, PlainPush, ScheduleType
<1>5. /\ kstack' = [kstack EXCEPT ![running] = <<Schedule>> \o Tail(kstack[running])]
      /\ running' \in Pids
  BY <1>1 DEF ZombifyEnd, Replace
<1>6. CleaningOnTop' /\ kstack' \in [Pids -> Seq(Frames)]
  BY <1>4, <1>5, PlainStack
<1>7. /\ waiting_code' \in [Pids -> 0 .. N \cup {-1}]
      /\ state' \in [Pids -> States]
      /\ queue' \in Seq(Pids)
  <2>1. \/ /\ waiting_code' = [waiting_code EXCEPT ![f] = p]
           /\ state' = [state EXCEPT ![f] = "WAITING"]
           /\ queue' = QueueAdd(queue, priority, f)
        \/ UNCHANGED <<waiting_code, state, queue>>
    BY DEF ZombifyEnd, p, f
  <2>2. p \in 0 .. N \cup {-1}
    BY <1>1 DEF Pids
  <2> QED BY <1>1, <1>2, <1>3, <2>1, <2>2 DEF TableInv, TypeOK, States
<1>8. sealed' \in [Pids -> BOOLEAN] /\ to_destroy' \in Seq(Pids)
  <2>1. RequestDestroy(p) \/ UNCHANGED <<sealed, to_destroy>>
    BY DEF ZombifyEnd, p, f
  <2> QED BY <1>1, <2>1, RequestDestroyType DEF TableInv, TypeOK
<1>9. TypeOK'
  BY <1>6, <1>7, <1>8 DEF ZombifyEnd, TableInv, TypeOK, family, sleep, clock
<1> QED BY <1>6, <1>9 DEF TableInv

LEMMA CleanDestroyInv ==
  ASSUME TableInv, CleanDestroy
  PROVE  TableInv'
<1> DEFINE p == Picked(to_destroy)
           f == Frame("destroy", p)
<1>1. to_destroy \in Seq(Pids) /\ to_destroy # <<>> /\ running \in Pids
  BY DEF TableInv, TypeOK, CleanDestroy, CanPick
<1>2. p \in Pids /\ Unpicked(to_destroy) \in Seq(Pids)
  BY <1>1, PickedType
<1>3. kstack[running] \in Seq(Frames) /\ Plain(kstack[running])
  BY RunningStack DEF CleanDestroy, InKernel
<1>4. f \in Frames /\ f.op = "destroy" /\ f.arg = p
  BY <1>2, FrameType DEF Ops, Pids
<1> HIDE DEF p, f
<1>5. CASE Fail("destroy")
  <2>1. "destroy" \in Sites
    BY DEF Sites
  <2> QED BY <1>5, <2>1, FailInv
<1>6. CASE /\ p \notin {1, running} /\ father[p] \in Pids
           /\ to_destroy' = Unpicked(to_destroy)
           /\ childs' = [childs EXCEPT ![father[p]] = Without(@, p)]
           /\ Push(f)
           /\ UNCHANGED <<father, life, sched, to_zombify, free, sleep, clock,
                          waiting_code, panic>>
  <2>1. kstack' = [kstack EXCEPT ![running] = <<f>> \o kstack[running]]
    BY <1>6 DEF Push
  <2>2. running' = running
    BY <1>6 DEF sched
  <2>3. kstack \in [Pids -> Seq(Frames)] /\ childs \in [Pids -> Seq(Pids)]
    BY DEF TableInv, TypeOK
  <2>4. CleaningOnTop' /\ kstack' \in [Pids -> Seq(Frames)]
    BY <1>2, <1>3, <1>4, <1>6, <2>1, <2>2, <2>3, CleaningStack
  <2>5. Without(childs[father[p]], p) \in Seq(Pids)
    BY <1>6, <2>3, WithoutType
  <2>6. childs' \in [Pids -> Seq(Pids)]
    BY <1>6, <2>3, <2>5
  <2>7. TypeOK'
    BY <1>2, <1>6, <2>4, <2>6 DEF TableInv, TypeOK, life, sched, sleep, clock
  <2> QED BY <2>4, <2>7 DEF TableInv
<1> QED BY <1>5, <1>6 DEF CleanDestroy, p, f

LEMMA DestroyChildInv ==
  ASSUME TableInv, DestroyChild
  PROVE  TableInv'
<1> DEFINE p == Top.arg
           c == Head(childs[p])
<1>1. running \in Pids /\ p \in Pids \ {1, running}
  BY RunningStack DEF DestroyChild, InKernel
<1>2. childs \in [Pids -> Seq(Pids)] /\ childs[p] # <<>>
  BY DEF TableInv, TypeOK, DestroyChild
<1>3. c \in Pids /\ Tail(childs[p]) \in Seq(Pids)
  BY <1>1, <1>2, HeadTailProperties
<1> HIDE DEF p, c
<1>4. CASE Fail("request_destroy")
  <2>1. "request_destroy" \in Sites
    BY DEF Sites
  <2> QED BY <1>4, <2>1, FailInv
<1>5. CASE /\ childs' = [childs EXCEPT ![p] = Tail(@)]
           /\ RequestDestroy(c)
           /\ UNCHANGED <<father, pid, state, deallocated, sched, to_zombify,
                          free, sleep, clock, waiting_code, kstack, panic>>
  <2>1. childs' \in [Pids -> Seq(Pids)]
    BY <1>1, <1>2, <1>3, <1>5
  <2>2. CleaningOnTop'
    BY <1>5 DEF TableInv, CleaningOnTop, sched
  <2>3. TypeOK'
    BY <1>3, <1>5, <2>1, RequestDestroyType DEF TableInv, TypeOK, sched, sleep, clock
  <2> QED BY <2>2, <2>3 DEF TableInv
<1>6. CASE /\ father' = [father EXCEPT ![c] = 1]
           /\ childs' = [childs EXCEPT ![p] = Tail(@), ![1] = <<p>> \o @]
           /\ UNCHANGED <<life, sched, lists, sleep, clock, waiting_code, kstack, panic>>
  <2>1. 1 \in Pids /\ 1 \in 0 .. N \cup {NotFound}
    BY DEF Pids
  <2>2. <<p>> \o childs[1] \in Seq(Pids)
    BY <1>1, <1>2, <2>1, PushProperties
  <2>3. \A q \in Pids : childs'[q] = IF q = 1 THEN <<p>> \o childs[1]
                                     ELSE IF q = p THEN Tail(childs[p]) ELSE childs[q]
    BY <1>1, <1>2, <1>6, <2>1
  <2>4. childs' \in [Pids -> Seq(Pids)]
    <3>1. \A q \in Pids : childs'[q] \in Seq(Pids)
      BY <1>2, <1>3, <2>2, <2>3
    <3> QED BY <1>2, <1>6, <3>1
  <2>5. /\ father' \in [Pids -> 0 .. N \cup {NotFound}]
        /\ \A q \in Pids : father[q] \in Pids => father'[q] \in Pids
    BY <1>3, <1>6, <2>1, ExceptType DEF TableInv, TypeOK
  <2>6. CleaningOnTop'
    BY <1>6, <2>5 DEF TableInv, CleaningOnTop, sched
  <2>7. TypeOK'
    BY <1>6, <2>4, <2>5 DEF TableInv, TypeOK, life, sched, lists, sleep, clock
  <2> QED BY <2>6, <2>7 DEF TableInv
<1> QED BY <1>4, <1>5, <1>6 DEF DestroyChild, p, c

LEMMA DestroyEndInv ==
  ASSUME TableInv, DestroyEnd
  PROVE  TableInv'
<1> DEFINE p == Top.arg
           t == Tail(kstack[running])
<1>1. running \in Pids /\ p \in Pids /\ p # running /\ t \in Seq(Frames) /\ Plain(t)
  BY RunningStack DEF DestroyEnd, InKernel
<1>2. kstack \in [Pids -> Seq(Frames)]
  BY DEF TableInv, TypeOK
<1>3. kstack' = [kstack EXCEPT ![p] = <<>>, ![running] = Tail(@)] /\ running' = running
  BY DEF DestroyEnd
<1>4. \A q \in Pids : kstack'[q] = IF q = p THEN <<>> ELSE IF q = running THEN t ELSE kstack[q]
  BY <1>1, <1>2, <1>3
<1> HIDE DEF p, t
<1>5. \A q \in Pids : kstack'[q] \in Seq(Frames)
  BY <1>1, <1>2, <1>4, PlainEmpty
<1>6. kstack' \in [Pids -> Seq(Frames)]
  BY <1>2, <1>3, <1>5
<1>7. \A q \in Pids : q # running => Plain(kstack[q])
  BY DEF TableInv, CleaningOnTop, Plain
<1>8. \A q \in Pids : Plain(kstack'[q])
  BY <1>1, <1>4, <1>7, PlainEmpty
<1>9. CleaningOnTop'
  BY <1>8 DEF CleaningOnTop, Plain
<1>10. Append(free, p) \in Seq(Pids)
  BY <1>1, AppendProperties DEF TableInv, TypeOK
<1>11. /\ free' = Append(free, p)
       /\ pid' = [pid EXCEPT ![p] = NotFound]
       /\ father' = [father EXCEPT ![p] = 0]
       /\ state' = [state EXCEPT ![p] = "UNUSED"]
       /\ priority' = [priority EXCEPT ![p] = 0]
       /\ waiting_code' = [waiting_code EXCEPT ![p] = 0]
       /\ sleep_time' = [sleep_time EXCEPT ![p] = 0]
       /\ deallocated' = [deallocated EXCEPT ![p] = FALSE]
       /\ sealed' = [sealed EXCEPT ![p] = FALSE]
       /\ UNCHANGED <<childs, queue, running, to_zombify, to_destroy, waiting, clock, panic>>
  BY DEF DestroyEnd, p
<1>12. TypeOK'
  <2>0. /\ 0 \in 0 .. N \cup {NotFound} /\ 0 \in 0 .. N \cup {-1}
        /\ 0 \in 0 .. MaxPrio /\ 0 \in 0 .. MaxClock
        /\ NotFound \in Pids \cup {NotFound}
    OBVIOUS
  <2>1. pid' \in [Pids -> Pids \cup {NotFound}] /\ father' \in [Pids -> 0 .. N \cup {NotFound}]
    BY <1>11, <2>0, ExceptType DEF TableInv, TypeOK
  <2>2. state' \in [Pids -> States]
    BY <1>11 DEF TableInv, TypeOK, States
  <2>3. /\ priority' \in [Pids -> 0 .. MaxPrio] /\ sleep_time' \in [Pids -> 0 .. MaxClock]
        /\ waiting_code' \in [Pids -> 0 .. N \cup {-1}]
    BY <1>11, <2>0, ExceptType DEF TableInv, TypeOK
  <2>4. deallocated' \in [Pids -> BOOLEAN] /\ sealed' \in [Pids -> BOOLEAN]
    BY <1>11 DEF TableInv, TypeOK
  <2> QED BY <1>6, <1>10, <1>11, <2>1, <2>2, <2>3, <2>4 DEF TableInv, TypeOK, clock
<1> QED BY <1>9, <1>12 DEF TableInv

LEMMA PopStack ==
  ASSUME TableInv, kstack[running] # <<>>, Pop, running' \in Pids
  PROVE  CleaningOnTop' /\ kstack' \in [Pids -> Seq(Frames)]
<1>1. Tail(kstack[running]) \in Seq(Frames) /\ Plain(Tail(kstack[running]))
  BY RunningStack
<1>2. kstack' = [kstack EXCEPT ![running] = Tail(kstack[running])]
  BY DEF Pop
<1> QED BY <1>1, <1>2, PlainStack

LEMMA ScheduleKeepInv ==
  ASSUME TableInv, ScheduleKeep
  PROVE  TableInv'
<1>1. running' \in Pids
  BY DEF TableInv, TypeOK, ScheduleKeep, sched
<1>2. CleaningOnTop' /\ kstack' \in [Pids -> Seq(Frames)]
  BY <1>1, PopStack DEF ScheduleKeep, InKernel
<1>3. TypeOK'
  BY <1>2 DEF TableInv, TypeOK, ScheduleKeep, family, life, sched, lists, sleep, clock
<1> QED BY <1>2, <1>3 DEF TableInv

LEMMA ScheduleSwitchInv ==
  ASSUME TableInv, ScheduleSwitch
  PROVE  TableInv'
<1> DEFINE new == Last(queue)
           preempted == state[running] = "RUNNING"
<1>1. CASE Fail("queue_out")
  <2>1. "queue_out" \in Sites
    BY DEF Sites
  <2> QED BY <1>1, <2>1, FailInv
<1>2. CASE /\ queue # <<>>
           /\ running' = new
           /\ state' = [state EXCEPT ![running] = IF preempted THEN "WAITING" ELSE @,
                                     ![new] = "RUNNING"]
           /\ queue' = IF preempted THEN QueueAdd(Front(queue), priority, running)
                                    ELSE Front(queue)
           /\ Pop
           /\ UNCHANGED <<family, pid, deallocated, sealed, priority, lists, sleep,
                          clock, waiting_code, panic>>
  <2>1. /\ queue \in Seq(Pids) /\ running \in Pids
        /\ state \in [Pids -> States] /\ priority \in [Pids -> Int]
    BY PriorityType DEF TableInv, TypeOK
  <2>2. new \in Pids /\ Front(queue) \in Seq(Pids)
    BY <1>2, <2>1, FrontProperties
  <2>3. QueueAdd(Front(queue), priority, running) \in Seq(Pids)
    BY <2>1, <2>2, QueueAddType
  <2>4. CleaningOnTop' /\ kstack' \in [Pids -> Seq(Frames)]
    BY <1>2, <2>2, PopStack DEF ScheduleSwitch, InKernel
  <2> HIDE DEF new
  <2>5. state' \in [Pids -> States]
    BY <1>2, <2>1, <2>2 DEF States
  <2>6. queue' \in Seq(Pids) /\ running' \in Pids
    BY <1>2, <2>2, <2>3
  <2>7. TypeOK'
    BY <1>2, <2>4, <2>5, <2>6 DEF TableInv, TypeOK, family, lists, sleep, clock
  <2> QED BY <2>4, <2>7 DEF TableInv
<1> QED BY <1>1, <1>2 DEF ScheduleSwitch
-------------------------------------------------------------------------------
(* One lemma per system call. *)

LEMMA NewProcessType ==
  ASSUME TypeOK, free # <<>>, NEW p \in Pids, NEW prio \in Prios,
         NewProcess(p, Head(free), prio), kstack' \in [Pids -> Seq(Frames)]
  PROVE  TypeOK'
<1> DEFINE c == Head(free)
<1>1. c \in Pids /\ Tail(free) \in Seq(Pids)
  BY HeadTailProperties DEF TypeOK
<1> HIDE DEF c
<1>2. /\ free' = Tail(free)
      /\ pid' = [pid EXCEPT ![c] = c]
      /\ father' = [father EXCEPT ![c] = p]
      /\ childs' = [childs EXCEPT ![p] = <<c>> \o @, ![c] = <<>>]
      /\ priority' = [priority EXCEPT ![c] = prio]
      /\ deallocated' = [deallocated EXCEPT ![c] = FALSE]
      /\ state' = [state EXCEPT ![c] = "WAITING"]
      /\ queue' = QueueAdd(queue, priority', c)
      /\ UNCHANGED <<sealed, running, to_zombify, to_destroy, sleep, clock, waiting_code,
                     panic>>
  BY DEF NewProcess, c
<1>3. p \in 0 .. N \cup {NotFound} /\ prio \in 0 .. MaxPrio
  BY DEF Pids, Prios
<1>4. pid' \in [Pids -> Pids \cup {NotFound}] /\ father' \in [Pids -> 0 .. N \cup {NotFound}]
  BY <1>1, <1>2, <1>3, ExceptType DEF TypeOK
<1>5. childs' \in [Pids -> Seq(Pids)]
  <2>1. <<c>> \o childs[p] \in Seq(Pids) /\ <<>> \in Seq(Pids)
    BY <1>1, PushProperties, EmptySeq DEF TypeOK
  <2> QED BY <1>2, <2>1 DEF TypeOK
<1>6. priority' \in [Pids -> 0 .. MaxPrio] /\ priority' \in [Pids -> Int]
  <2>1. priority' \in [Pids -> 0 .. MaxPrio]
    BY <1>2, <1>3, ExceptType DEF TypeOK
  <2> QED BY <2>1
<1>7. queue' \in Seq(Pids)
  BY <1>1, <1>2, <1>6, QueueAddType DEF TypeOK
<1>8. state' \in [Pids -> States] /\ deallocated' \in [Pids -> BOOLEAN]
  BY <1>2 DEF TypeOK, States
<1> QED BY <1>1, <1>2, <1>4, <1>5, <1>6, <1>7, <1>8 DEF TypeOK, sleep, clock

LEMMA StartInv ==
  ASSUME TableInv, NEW prio \in Prios, Start(prio)
  PROVE  TableInv'
<1> DEFINE f == Frame("start", Head(free))
<1>1. free # <<>> /\ running \in Pids /\ TypeOK
  BY DEF Start, Full, TableInv, TypeOK
<1>2. Head(free) \in 0 .. N
  <2>1. Head(free) \in Pids
    BY <1>1, HeadTailProperties DEF TypeOK
  <2> QED BY <2>1 DEF Pids
<1>3. f \in Frames /\ f.op = "start"
  BY <1>2, FrameType DEF Ops
<1> HIDE DEF f
<1>4. <<f>> \in Seq(Frames) /\ Plain(<<f>>)
  BY <1>3, PlainOne
<1>5. <<Schedule>> \o <<f>> \in Seq(Frames) /\ Plain(<<Schedule>> \o <<f>>)
  BY <1>4, PlainPush, ScheduleType
<1>6. /\ NewProcess(running, Head(free), prio)
      /\ kstack' = [kstack EXCEPT ![running] =
                      IF prio > priority[running] THEN <<Schedule>> \o <<f>> ELSE <<f>>]
  BY DEF Start, f
<1>7. running' \in Pids
  BY <1>1, <1>6 DEF NewProcess
<1>8. CleaningOnTop' /\ kstack' \in [Pids -> Seq(Frames)]
  BY <1>4, <1>5, <1>6, <1>7, PlainStack
<1> QED BY <1>1, <1>6, <1>8, NewProcessType DEF TableInv

LEMMA BootInv ==
  ASSUME TableInv, Boot
  PROVE  TableInv'
<1> DEFINE f == Frame("hlt", 0)
           s == <<Schedule, f>>
<1>1. free # <<>> /\ 1 \in Pids /\ 2 \in Prios /\ TypeOK /\ running \in Pids
  <2>1. 1 \in Pids /\ 2 \in Prios
    BY DEF Pids, Prios
  <2> QED BY <2>1 DEF Boot, Full, TableInv, TypeOK
<1>2. f \in Frames /\ f.op = "hlt"
  BY FrameType DEF Ops
<1> HIDE DEF f
<1>3. <<f>> \in Seq(Frames) /\ Plain(<<f>>)
  BY <1>2, PlainOne
<1>4. <<Schedule>> \o <<f>> \in Seq(Frames) /\ Plain(<<Schedule>> \o <<f>>)
  BY <1>3, PlainPush, ScheduleType
<1>5. s = <<Schedule>> \o <<f>>
  OBVIOUS
<1> HIDE DEF s
<1>6. NewProcess(1, Head(free), 2) /\ kstack' = [kstack EXCEPT ![1] = s]
  BY DEF Boot, s, f
<1>7. /\ kstack \in [Pids -> Seq(Frames)]
      /\ kstack' \in [Pids -> Seq(Frames)]
  BY <1>1, <1>4, <1>5, <1>6 DEF TypeOK
<1>8. \A q \in Pids : Plain(kstack[q])
  <2>1. Plain(kstack[running])
    BY RunningStack DEF Boot, InKernel
  <2>2. \A q \in Pids : q # running => Plain(kstack[q])
    BY DEF TableInv, CleaningOnTop, Plain
  <2> QED BY <2>1, <2>2
<1>9. \A q \in Pids : Plain(kstack'[q])
  BY <1>1, <1>4, <1>5, <1>6, <1>7, <1>8
<1>10. CleaningOnTop'
  BY <1>9 DEF CleaningOnTop, Plain
<1>11. TypeOK'
  BY <1>1, <1>6, <1>7, NewProcessType
<1> QED BY <1>10, <1>11 DEF TableInv

LEMMA StartReturnInv ==
  ASSUME TableInv, StartReturn
  PROVE  TableInv'
<1>1. running' \in Pids
  BY DEF TableInv, TypeOK, StartReturn, sched
<1>2. CleaningOnTop' /\ kstack' \in [Pids -> Seq(Frames)]
  BY <1>1, PopStack DEF StartReturn, InKernel
<1>3. TypeOK'
  BY <1>2 DEF TableInv, TypeOK, StartReturn, family, life, sched, lists, sleep, clock
<1> QED BY <1>2, <1>3 DEF TableInv

LEMMA StartFailsInv ==
  ASSUME TableInv, NEW prio \in Prios, StartFails(prio)
  PROVE  TableInv'
<1> DEFINE c == Head(free)
<1>1. free # <<>> /\ free \in Seq(Pids) /\ running \in Pids
  BY DEF StartFails, Full, TableInv, TypeOK
<1>2. c \in Pids /\ Tail(free) \in Seq(Pids)
  BY <1>1, HeadTailProperties
<1>3. Append(Tail(free), c) \in Seq(Pids)
  BY <1>2, AppendProperties
<1>4. /\ free' = Append(Tail(free), c)
      /\ pid' = [pid EXCEPT ![c] = c]
      /\ father' = [father EXCEPT ![c] = running]
      /\ childs' = [childs EXCEPT ![c] = <<>>]
      /\ priority' = [priority EXCEPT ![c] = prio]
      /\ deallocated' = [deallocated EXCEPT ![c] = FALSE]
      /\ UNCHANGED <<state, sealed, queue, running, to_zombify, to_destroy, sleep, clock,
                     waiting_code, kstack, panic>>
  BY DEF StartFails
<1> HIDE DEF c
<1>5. running \in 0 .. N \cup {NotFound} /\ prio \in 0 .. MaxPrio /\ <<>> \in Seq(Pids)
  BY <1>1, EmptySeq DEF Pids, Prios
<1>6. pid' \in [Pids -> Pids \cup {NotFound}] /\ father' \in [Pids -> 0 .. N \cup {NotFound}]
  BY <1>2, <1>4, <1>5, ExceptType DEF TableInv, TypeOK
<1>7. childs' \in [Pids -> Seq(Pids)] /\ priority' \in [Pids -> 0 .. MaxPrio]
  BY <1>4, <1>5, ExceptType DEF TableInv, TypeOK
<1>8. deallocated' \in [Pids -> BOOLEAN]
  BY <1>4 DEF TableInv, TypeOK
<1>9. TypeOK'
  BY <1>3, <1>4, <1>6, <1>7, <1>8 DEF TableInv, TypeOK, sleep, clock
<1>10. \A q \in Pids : father[q] \in Pids => father'[q] \in Pids
  BY <1>1, <1>2, <1>4 DEF TableInv, TypeOK
<1>11. CleaningOnTop'
  BY <1>4, <1>10 DEF TableInv, CleaningOnTop
<1> QED BY <1>9, <1>11 DEF TableInv

LEMMA StartNoNodeInv ==
  ASSUME TableInv, StartNoNode
  PROVE  TableInv'
<1>1. "child_list" \in Sites /\ Fail("child_list")
  BY DEF StartNoNode, Sites, CallStops
<1> QED BY <1>1, FailInv

LEMMA RequestZombifyInv ==
  ASSUME TableInv, NEW p \in Pids, NEW rest \in Seq(Frames), Plain(rest),
         RequestZombify(p, rest), waiting' \in Seq(Pids), panic' \in Sites \cup {None}
  PROVE  TableInv'
<1>1. running' \in Pids
  BY DEF TableInv, TypeOK, RequestZombify
<1>2. <<Schedule>> \o rest \in Seq(Frames) /\ Plain(<<Schedule>> \o rest)
  BY PlainPush, ScheduleType
<1>3. kstack' = [kstack EXCEPT ![running] = <<Schedule>> \o rest]
  BY DEF RequestZombify
<1>4. CleaningOnTop' /\ kstack' \in [Pids -> Seq(Frames)]
  BY <1>1, <1>2, <1>3, PlainStack
<1>5. queue' \in Seq(Pids)
  <2>1. QueueDel(queue, p) \in Seq(Pids)
    BY WithoutType DEF QueueDel, TableInv, TypeOK
  <2> QED BY <2>1 DEF RequestZombify, TableInv, TypeOK
<1>6. to_zombify' \in Seq(Pids)
  BY AppendProperties DEF RequestZombify, TableInv, TypeOK
<1>7. state' \in [Pids -> States]
  BY DEF RequestZombify, TableInv, TypeOK, States
<1>8. TypeOK'
  BY <1>4, <1>5, <1>6, <1>7 DEF RequestZombify, TableInv, TypeOK, family, clock
<1> QED BY <1>4, <1>8 DEF TableInv

LEMMA ExitInv ==
  ASSUME TableInv, Exit
  PROVE  TableInv'
<1> DEFINE f == Frame("spin", 0)
<1>1. f \in Frames /\ f.op = "spin"
  BY FrameType DEF Ops
<1> HIDE DEF f
<1>2. <<f>> \in Seq(Frames) /\ Plain(<<f>>)
  BY <1>1, PlainOne
<1>3. /\ running \in Pids /\ waiting' \in Seq(Pids) /\ RequestZombify(running, <<f>>)
      /\ panic' \in Sites \cup {None}
  BY DEF Exit, f, TableInv, TypeOK
<1> QED BY <1>2, <1>3, RequestZombifyInv

LEMMA KillInv ==
  ASSUME TableInv, NEW p \in Pids, Kill(p)
  PROVE  TableInv'
<1>1. CASE Fail("queue_del") \/ Fail("init")
  <2>1. "queue_del" \in Sites /\ "init" \in Sites
    BY DEF Sites, CallStops
  <2> QED BY <1>1, <2>1, FailInv
<1>2. CASE /\ RequestZombify(p, <<>>) /\ waiting' = WaitingAfterKill(p)
           /\ panic' = IF ForgetsSleeper(p) THEN "pids_waiting" ELSE panic
  <2>1. waiting' \in Seq(Pids)
    BY <1>2, FrontType DEF WaitingAfterKill, TableInv, TypeOK
  <2>2. panic' \in Sites \cup {None}
    BY <1>2 DEF Sites, CallStops, TableInv, TypeOK
  <2> QED BY <1>2, <2>1, <2>2, PlainEmpty, RequestZombifyInv
<1> QED BY <1>1, <1>2 DEF Kill

(* The four calls that block the running process. *)
LEMMA BlockInv ==
  ASSUME TableInv, NEW st \in States, NEW code \in 0 .. N \cup {-1},
         NEW after \in Seq(Frames), Plain(after), Block(st, code, after),
         sleep_time' \in [Pids -> 0 .. MaxClock], waiting' \in Seq(Pids)
  PROVE  TableInv'
<1>1. running' \in Pids
  BY DEF TableInv, TypeOK, Block, sched
<1>2. <<Schedule>> \o after \in Seq(Frames) /\ Plain(<<Schedule>> \o after)
  BY PlainPush, ScheduleType
<1>3. kstack' = [kstack EXCEPT ![running] = <<Schedule>> \o after]
  BY DEF Block
<1>4. CleaningOnTop' /\ kstack' \in [Pids -> Seq(Frames)]
  BY <1>1, <1>2, <1>3, PlainStack
<1>5. state' \in [Pids -> States] /\ waiting_code' \in [Pids -> 0 .. N \cup {-1}]
  BY ExceptType DEF Block, TableInv, TypeOK
<1>6. TypeOK'
  BY <1>4, <1>5 DEF Block, TableInv, TypeOK, family, sched, lists, clock
<1> QED BY <1>4, <1>6 DEF TableInv

LEMMA ReapType ==
  ASSUME TypeOK, NEW p \in Pids, Reap(p), kstack' \in [Pids -> Seq(Frames)]
  PROVE  TypeOK'
<1>1. sealed' \in [Pids -> BOOLEAN] /\ to_destroy' \in Seq(Pids)
  BY RequestDestroyType DEF Reap
<1> QED BY <1>1 DEF Reap, TypeOK, family, sched, sleep, clock

LEMMA ReapNowInv ==
  ASSUME TableInv, NEW p \in Pids, Reap(p), UNCHANGED kstack
  PROVE  TableInv'
<1>1. TypeOK'
  BY ReapType DEF TableInv, TypeOK
<1>2. CleaningOnTop'
  BY DEF TableInv, CleaningOnTop, Reap, family, sched
<1> QED BY <1>1, <1>2 DEF TableInv

LEMMA WaitpidAnyInv ==
  ASSUME TableInv, WaitpidAny
  PROVE  TableInv'
<1> DEFINE c == childs[running]
           f == Frame("waitpid_any", 0)
<1>1. c \in Seq(Pids) /\ sleep_time \in [Pids -> 0 .. MaxClock] /\ waiting \in Seq(Pids)
  BY DEF TableInv, TypeOK
<1>2. \A k \in DOMAIN c : c[k] \in Pids
  BY <1>1, LenProperties, ElementOfSeq
<1>3. f \in Frames /\ f.op = "waitpid_any"
  BY FrameType DEF Ops
<1> HIDE DEF c, f
<1>4. <<f>> \in Seq(Frames) /\ Plain(<<f>>)
  BY <1>3, PlainOne
<1>5. CASE \E k \in DOMAIN c : Reap(c[k]) /\ UNCHANGED kstack
  BY <1>2, <1>5, ReapNowInv
<1>6. CASE Block("BLOCKED_BY_CHILD", -1, <<f>>) /\ UNCHANGED sleep
  <2>1. "BLOCKED_BY_CHILD" \in States /\ -1 \in 0 .. N \cup {-1}
    BY DEF States
  <2>2. sleep_time' \in [Pids -> 0 .. MaxClock] /\ waiting' \in Seq(Pids)
    BY <1>1, <1>6 DEF sleep
  <2> QED BY <1>4, <1>6, <2>1, <2>2, BlockInv
<1> QED BY <1>5, <1>6 DEF WaitpidAny, c, f

LEMMA WaitpidInv ==
  ASSUME TableInv, NEW c \in Pids, Waitpid(c)
  PROVE  TableInv'
<1> DEFINE f == Frame("waitpid", c)
<1>1. sleep_time \in [Pids -> 0 .. MaxClock] /\ waiting \in Seq(Pids)
  BY DEF TableInv, TypeOK
<1>2. c \in 0 .. N /\ c \in 0 .. N \cup {-1}
  BY DEF Pids
<1>3. f \in Frames /\ f.op = "waitpid"
  BY <1>2, FrameType DEF Ops
<1> HIDE DEF f
<1>4. <<f>> \in Seq(Frames) /\ Plain(<<f>>)
  BY <1>3, PlainOne
<1>5. CASE Reap(c) /\ UNCHANGED kstack
  BY <1>5, ReapNowInv
<1>6. CASE Block("BLOCKED_BY_CHILD", c, <<f>>) /\ UNCHANGED sleep
  <2>1. "BLOCKED_BY_CHILD" \in States
    BY DEF States
  <2>2. sleep_time' \in [Pids -> 0 .. MaxClock] /\ waiting' \in Seq(Pids)
    BY <1>1, <1>6 DEF sleep
  <2> QED BY <1>2, <1>4, <1>6, <2>1, <2>2, BlockInv
<1> QED BY <1>5, <1>6 DEF Waitpid, f

LEMMA WaitpidReturnInv ==
  ASSUME TableInv, kstack[running] # <<>>, NEW c, WaitpidReturn(c)
  PROVE  TableInv'
<1>1. CASE Fail("waitpid") \/ Fail("request_destroy")
  <2>1. "waitpid" \in Sites /\ "request_destroy" \in Sites
    BY DEF Sites
  <2> QED BY <1>1, <2>1, FailInv
<1>2. CASE c \in Pids /\ Reap(c) /\ Pop
  <2>1. running' \in Pids
    BY <1>2 DEF TableInv, TypeOK, Reap, sched
  <2>2. CleaningOnTop' /\ kstack' \in [Pids -> Seq(Frames)]
    BY <1>2, <2>1, PopStack
  <2>3. TypeOK'
    BY <1>2, <2>2, ReapType DEF TableInv
  <2> QED BY <2>2, <2>3 DEF TableInv
<1> QED BY <1>1, <1>2 DEF WaitpidReturn

LEMMA WaitpidResumesInv ==
  ASSUME TableInv, WaitpidResumes
  PROVE  TableInv'
BY WaitpidReturnInv DEF WaitpidResumes, InKernel

LEMMA WaitClockInv ==
  ASSUME TableInv, NEW t \in 1 .. MaxClock, WaitClock(t)
  PROVE  TableInv'
<1>1. running \in Pids /\ waiting \in Seq(Pids) /\ waiting_code[running] \in 0 .. N \cup {-1}
  BY DEF TableInv, TypeOK
<1>2. "SLEEPING" \in States /\ t \in 0 .. MaxClock
  BY DEF States
<1>3. sleep_time' \in [Pids -> 0 .. MaxClock] /\ waiting' \in Seq(Pids)
  BY <1>1, <1>2, ExceptType, AppendProperties DEF WaitClock, TableInv, TypeOK
<1>4. Block("SLEEPING", waiting_code[running], <<>>)
  BY DEF WaitClock
<1> QED BY <1>1, <1>2, <1>3, <1>4, PlainEmpty, BlockInv

LEMMA BlockByMessageInv ==
  ASSUME TableInv, BlockByMessage
  PROVE  TableInv'
<1>1. running \in Pids /\ waiting_code[running] \in 0 .. N \cup {-1}
  BY DEF TableInv, TypeOK
<1>2. "BLOCKED_BY_MESSAGE" \in States
  BY DEF States
<1>3. sleep_time' \in [Pids -> 0 .. MaxClock] /\ waiting' \in Seq(Pids)
  BY DEF BlockByMessage, sleep, TableInv, TypeOK
<1>4. Block("BLOCKED_BY_MESSAGE", waiting_code[running], <<>>)
  BY DEF BlockByMessage
<1> QED BY <1>1, <1>2, <1>3, <1>4, PlainEmpty, BlockInv

LEMMA MaybeSchedule ==
  ASSUME NEW b \in BOOLEAN
  PROVE  /\ (IF b THEN <<Schedule>> ELSE <<>>) \in Seq(Frames)
         /\ Plain(IF b THEN <<Schedule>> ELSE <<>>)
BY PlainEmpty, PlainOne, ScheduleType

LEMMA AwakeInv ==
  ASSUME TableInv, NEW p \in Pids, Awake(p)
  PROVE  TableInv'
<1> DEFINE b == priority[p] > priority[running]
           s == IF b THEN <<Schedule>> ELSE <<>>
<1>1. s \in Seq(Frames) /\ Plain(s)
  BY MaybeSchedule
<1>2. kstack' = [kstack EXCEPT ![running] = s] /\ running' \in Pids
  BY DEF Awake, TableInv, TypeOK
<1> HIDE DEF s
<1>3. CleaningOnTop' /\ kstack' \in [Pids -> Seq(Frames)]
  BY <1>1, <1>2, PlainStack
<1>4. queue' \in Seq(Pids)
  BY PriorityType, QueueAddType DEF Awake, TableInv, TypeOK
<1>5. state' \in [Pids -> States]
  BY DEF Awake, TableInv, TypeOK, States
<1>6. TypeOK'
  BY <1>3, <1>4, <1>5 DEF Awake, TableInv, TypeOK, family, lists, sleep, clock
<1> QED BY <1>3, <1>6 DEF TableInv

LEMMA ChprioInv ==
  ASSUME TableInv, NEW p \in Pids, NEW prio \in Prios, Chprio(p, prio)
  PROVE  TableInv'
<1>1. CASE Fail("queue_del")
  <2>1. "queue_del" \in Sites
    BY DEF Sites, CallStops
  <2> QED BY <1>1, <2>1, FailInv
<1>2. CASE ~(Requeues(p) /\ ~Linked(p))
  <2> DEFINE b == \/ prio > priority'[running]
                  \/ p = running /\ priority'[Last(queue')] > prio
             s == IF b THEN <<Schedule>> ELSE <<>>
  <2>1. s \in Seq(Frames) /\ Plain(s)
    BY PlainEmpty, PlainOne, ScheduleType
  <2>2. kstack' = [kstack EXCEPT ![running] = s] /\ running' \in Pids
    BY <1>2 DEF Chprio, TableInv, TypeOK
  <2> HIDE DEF s
  <2>3. CleaningOnTop' /\ kstack' \in [Pids -> Seq(Frames)]
    BY <2>1, <2>2, PlainStack
  <2>4. priority' \in [Pids -> 0 .. MaxPrio]
    <3>1. prio \in 0 .. MaxPrio
      BY DEF Prios
    <3>2. priority' = [priority EXCEPT ![p] = prio]
      BY <1>2 DEF Chprio
    <3> QED BY <3>1, <3>2, ExceptType DEF TableInv, TypeOK
  <2>5. queue' \in Seq(Pids)
    <3>1. queue \in Seq(Pids) /\ priority' \in [Pids -> Int]
      BY <2>4 DEF TableInv, TypeOK
    <3>2. QueueDel(queue, p) \in Seq(Pids)
      BY <3>1, WithoutType DEF QueueDel
    <3>3. QueueAdd(QueueDel(queue, p), priority', p) \in Seq(Pids)
      BY <3>1, <3>2, QueueAddType
    <3>4. queue' = IF Requeues(p) THEN QueueAdd(QueueDel(queue, p), priority', p) ELSE queue
      BY <1>2 DEF Chprio
    <3> QED BY <3>1, <3>3, <3>4
  <2>6. UNCHANGED <<family, life, running, lists, sleep, clock, waiting_code, panic>>
    BY <1>2 DEF Chprio
  <2>7. TypeOK'
    BY <2>3, <2>4, <2>5, <2>6 DEF TableInv, TypeOK, family, life, lists, sleep, clock
  <2> QED BY <2>3, <2>7 DEF TableInv
<1> QED BY <1>1, <1>2 DEF Chprio
-------------------------------------------------------------------------------
(* The clock interrupt. *)

LEMMA TickInv ==
  ASSUME TableInv, Tick
  PROVE  TableInv'
<1> DEFINE f == Frame("clock_tick", 0)
           old == kstack[running]
           s == (IF NextDelay = 0 THEN <<Schedule>> ELSE <<>>) \o <<f>> \o old
<1>1. running \in Pids /\ old \in Seq(Frames) /\ Plain(old)
  <2>1. running \in Pids /\ old \in Seq(Frames)
    BY RunningStack
  <2>2. CASE old = <<>>
    BY <2>1, <2>2, PlainEmpty
  <2>3. CASE old # <<>> /\ Top.op = "boot"
    BY <2>3, RunningStack
  <2> QED BY <2>1, <2>2, <2>3 DEF Tick, Interruptible, InUserMode, InKernel
<1>2. f \in Frames /\ f.op = "clock_tick"
  BY FrameType DEF Ops
<1>3. kstack' = [kstack EXCEPT ![running] = s] /\ running' \in Pids
  BY <1>1 DEF Tick, sched
<1> HIDE DEF f, old
<1>4. <<f>> \o old \in Seq(Frames) /\ Plain(<<f>> \o old)
  BY <1>1, <1>2, PlainPush
<1>5. s \in Seq(Frames) /\ Plain(s)
  <2>1. CASE NextDelay = 0
    <3>1. <<Schedule>> \o (<<f>> \o old) \in Seq(Frames) /\ Plain(<<Schedule>> \o (<<f>> \o old))
      BY <1>4, PlainPush, ScheduleType
    <3>2. <<Schedule>> \in Seq(Frames) /\ <<f>> \in Seq(Frames)
      BY <1>2, PlainOne, ScheduleType
    <3>3. (<<Schedule>> \o <<f>>) \o old = <<Schedule>> \o (<<f>> \o old)
      BY <1>1, <3>2, ConcatAssociative
    <3> QED BY <2>1, <3>1, <3>3
  <2>2. CASE NextDelay # 0
    <3>1. <<f>> \in Seq(Frames)
      BY <1>2, PlainOne
    <3>2. <<>> \o <<f>> = <<f>>
      BY <3>1, ConcatEmptySeq
    <3> QED BY <1>4, <2>2, <3>2
  <2> QED BY <2>1, <2>2
<1> HIDE DEF s
<1>6. CleaningOnTop' /\ kstack' \in [Pids -> Seq(Frames)]
  BY <1>3, <1>5, PlainStack
<1>7. inter' \in 0 .. MaxClock /\ scheduler_delay' \in {0, 1}
  BY DEF Tick, NextDelay, TableInv, TypeOK
<1>8. TypeOK'
  BY <1>6, <1>7 DEF Tick, TableInv, TypeOK, family, life, sched, lists, sleep
<1> QED BY <1>6, <1>8 DEF TableInv

LEMMA ReplaceStack ==
  ASSUME TableInv, kstack[running] # <<>>, running' \in Pids,
         NEW f \in Frames, f.op \notin {"zombify", "destroy"}, Replace(f)
  PROVE  CleaningOnTop' /\ kstack' \in [Pids -> Seq(Frames)]
<1>1. Tail(kstack[running]) \in Seq(Frames) /\ Plain(Tail(kstack[running]))
  BY RunningStack
<1>2. <<f>> \o Tail(kstack[running]) \in Seq(Frames) /\ Plain(<<f>> \o Tail(kstack[running]))
  BY <1>1, PlainPush
<1>3. kstack' = [kstack EXCEPT ![running] = <<f>> \o Tail(kstack[running])]
  BY DEF Replace
<1> QED BY <1>2, <1>3, PlainStack

LEMMA ClockTickWakesInv ==
  ASSUME TableInv, ClockTickWakes
  PROVE  TableInv'
<1>1. PICK i \in DOMAIN waiting :
        IF Linked(waiting[i])
          THEN Fail("queue_add")
          ELSE /\ state' = [state EXCEPT ![waiting[i]] = "WAITING"]
               /\ queue' = QueueAdd(queue, priority, waiting[i])
               /\ waiting' = WaitingWithout(i)
               /\ Replace(Frame("clock_woke", 0))
               /\ UNCHANGED <<family, pid, deallocated, sealed, priority, running, lists,
                              sleep_time, clock, waiting_code, panic>>
  BY DEF ClockTickWakes
<1>2. CASE Fail("queue_add")
  <2>1. "queue_add" \in Sites
    BY DEF Sites
  <2> QED BY <1>2, <2>1, FailInv
<1>3. CASE ~Linked(waiting[i])
  <2>1. waiting \in Seq(Pids) /\ i \in 1 .. Len(waiting) /\ waiting[i] \in Pids /\ waiting # <<>>
    <3>1. waiting \in Seq(Pids) /\ i \in 1 .. Len(waiting)
      BY LenProperties DEF TableInv, TypeOK
    <3>2. waiting # <<>>
      BY <3>1, EmptySeq
    <3> QED BY <3>1, <3>2, ElementOfSeq
  <2>2. queue' \in Seq(Pids)
    <3>1. queue \in Seq(Pids) /\ priority \in [Pids -> Int]
      BY PriorityType DEF TableInv, TypeOK
    <3>2. QueueAdd(queue, priority, waiting[i]) \in Seq(Pids)
      BY <2>1, <3>1, QueueAddType
    <3> QED BY <1>1, <1>3, <3>2
  <2>3. state' \in [Pids -> States]
    BY <1>1, <1>3, <2>1 DEF TableInv, TypeOK, States
  <2>4. waiting' \in Seq(Pids)
    <3>1. Last(waiting) \in Pids
      BY <2>1, FrontProperties
    <3>2. [waiting EXCEPT ![i] = Last(waiting)] \in Seq(Pids)
      BY <2>1, <3>1, ExceptSeq
    <3> QED BY <1>1, <1>3, <3>2, FrontType DEF WaitingWithout
  <2>5. Frame("clock_woke", 0) \in Frames /\ Frame("clock_woke", 0).op = "clock_woke"
    BY FrameType DEF Ops
  <2>6. running' \in Pids /\ kstack[running] # <<>>
    BY <1>1, <1>3 DEF TableInv, TypeOK, ClockTickWakes, ClockTick, InKernel
  <2>7. CleaningOnTop' /\ kstack' \in [Pids -> Seq(Frames)]
    BY <1>1, <1>3, <2>5, <2>6, ReplaceStack
  <2>8. TypeOK'
    BY <1>1, <1>3, <2>2, <2>3, <2>4, <2>7 DEF TableInv, TypeOK, family, lists, clock
  <2> QED BY <2>7, <2>8 DEF TableInv
<1> QED BY <1>1, <1>2, <1>3

LEMMA ClockTickEndInv ==
  ASSUME TableInv, ClockTickEnd
  PROVE  TableInv'
<1>1. running' \in Pids /\ kstack[running] # <<>>
  BY DEF TableInv, TypeOK, ClockTickEnd, ClockTick, InKernel, sched
<1>2. CleaningOnTop' /\ kstack' \in [Pids -> Seq(Frames)]
  <2>1. Replace(Schedule) \/ Pop
    BY DEF ClockTickEnd
  <2> QED BY <1>1, <2>1, ScheduleType, ReplaceStack, PopStack
<1>3. TypeOK'
  BY <1>2 DEF TableInv, TypeOK, ClockTickEnd, family, life, sched, lists, sleep, clock
<1> QED BY <1>2, <1>3 DEF TableInv
-------------------------------------------------------------------------------
LEMMA InitInv == Init => TableInv
<1> SUFFICES ASSUME Init PROVE TableInv
  OBVIOUS
<1>1. 1 \in Pids /\ <<>> \in Seq(Pids)
  BY EmptySeq DEF Pids
<1> DEFINE f == Frame("boot", 0)
<1>2. f \in Frames /\ f.op = "boot"
  BY FrameType DEF Ops
<1>3. kstack = [p \in Pids |-> IF p = 1 THEN <<f>> ELSE <<>>]
  BY DEF Init
<1> HIDE DEF f
<1>4. <<f>> \in Seq(Frames) /\ Plain(<<f>>)
  BY <1>2, PlainOne
<1>5. /\ kstack \in [Pids -> Seq(Frames)]
      /\ \A p \in Pids : Plain(kstack[p])
  BY <1>3, <1>4, PlainEmpty
<1>6. CleaningOnTop
  BY <1>5 DEF CleaningOnTop, Plain
<1>7. free \in Seq(Pids)
  <2>1. N - 1 \in Nat /\ \A i \in 1 .. N - 1 : i + 1 \in Pids
    BY DEF Pids
  <2>2. free \in [1 .. N - 1 -> Pids]
    BY <2>1 DEF Init
  <2> QED BY <2>1, <2>2, SeqDef
<1>8. /\ pid \in [Pids -> Pids \cup {NotFound}]
      /\ father \in [Pids -> 0 .. N \cup {NotFound}]
      /\ childs \in [Pids -> Seq(Pids)]
  BY <1>1 DEF Init
<1>9. /\ state \in [Pids -> States]
      /\ deallocated \in [Pids -> BOOLEAN] /\ sealed \in [Pids -> BOOLEAN]
  BY DEF Init, States
<1>10. /\ priority \in [Pids -> 0 .. MaxPrio]
       /\ waiting_code \in [Pids -> 0 .. N \cup {-1}]
       /\ sleep_time \in [Pids -> 0 .. MaxClock]
       /\ inter \in 0 .. MaxClock
  <2>1. 0 \in 0 .. MaxPrio /\ 1 \in 0 .. MaxPrio /\ 0 \in 0 .. N \cup {-1} /\ 0 \in 0 .. MaxClock
    OBVIOUS
  <2> QED BY <2>1 DEF Init
<1>11. TypeOK
  BY <1>1, <1>5, <1>7, <1>8, <1>9, <1>10 DEF Init, TypeOK
<1> QED BY <1>6, <1>11 DEF TableInv

LEMMA NextInv == TableInv /\ [Next]_vars => TableInv'
<1> SUFFICES ASSUME TableInv, [Next]_vars PROVE TableInv'
  OBVIOUS
<1>1. CASE KernelStep
  BY <1>1, CleanZombifyInv, ZombifyChildInv, ZombifyEndInv, CleanDestroyInv, DestroyChildInv,
     DestroyEndInv, ScheduleKeepInv, ScheduleSwitchInv, StartReturnInv, WaitpidResumesInv,
     ClockTickWakesInv, ClockTickEndInv DEF KernelStep
<1>2. CASE SystemCall
  BY <1>2, StartInv, StartFailsInv, StartNoNodeInv, ExitInv, KillInv, WaitpidInv, AwakeInv,
     WaitpidAnyInv, WaitClockInv, BlockByMessageInv, ChprioInv DEF SystemCall, Blocking
<1>3. CASE Boot \/ Tick
  BY <1>3, BootInv, TickInv
<1>4. CASE Halted \/ UNCHANGED vars
  BY <1>4 DEF Halted, vars, family, life, sched, lists, sleep, clock,
              TableInv, TypeOK, CleaningOnTop
<1> QED BY <1>1, <1>2, <1>3, <1>4 DEF Next

(* Whatever processes do, the table, the lists and the kernel stacks of     *)
(* process.c keep their types.                                              *)
THEOREM TableTypes == Spec => []TypeOK
<1>1. TableInv => TypeOK
  BY DEF TableInv
<1> QED BY InitInv, NextInv, <1>1, PTL DEF Spec

(* Whatever processes do, zombify() and destroy() are atomic with respect   *)
(* to the clock, to the scheduler and to each other.                        *)
THEOREM CleaningIsInnermost == Spec => []CleaningOnTop
<1>1. TableInv => CleaningOnTop
  BY DEF TableInv
<1> QED BY InitInv, NextInv, <1>1, PTL DEF Spec
-------------------------------------------------------------------------------
(***************************************************************************)
(* The table and its lists stay exact, for every table size and all that   *)
(* processes do but wait for the pid of a failed start: the ready queue,   *)
(* pids_waiting, pids_to_zombify, pids_to_destroy and the free pids each   *)
(* list the processes they are for; the family links agree; a call that    *)
(* was switched out finds its child as it left it; no assertion of the     *)
(* cleaning fails but that of request_destroy().  The kill that forgets a  *)
(* sleeper, with which the model stops, leaves all of it but pids_waiting. *)
(*                                                                         *)
(* None of these is inductive alone.  destroy() clears the state of its    *)
(* process without looking at the ready queue, so that the queue is exact  *)
(* only if what is sealed is dead; waitpid() seals the child it resumes    *)
(* for without looking at its state, so that what is sealed is dead only   *)
(* if the calls that were switched out are still right about their child;  *)
(* they are because the child cannot be given to another father, which is  *)
(* what the lists of children are for.  ExactInv is their conjunction.     *)
(***************************************************************************)
\* Programs wait for children that start() has returned.
Disciplined == "stale_pid" \notin Allowed

InState(st) == {p \in Pids : state[p] = st}

\* The processes that the two lists of clean_processes are for.
Undead == {p \in Pids : state[p] = "ZOMBIE" /\ ~deallocated[p]}
Doomed == {p \in Pids : sealed[p] /\ ~InFrame("destroy", p)}

Sorted(q, prio) == \A i, j \in 1 .. Len(q) : i < j => prio[q[i]] <= prio[q[j]]

ReadyListed    == Lists(queue, InState("WAITING")) /\ Sorted(queue, priority)
SleepersListed == panic # "pids_waiting" => Lists(waiting, InState("SLEEPING"))
FreeListed     == Lists(free, InState("UNUSED"))
UndeadListed   == Lists(to_zombify, Undead)
DoomedListed   == Lists(to_destroy, Doomed)

\* The states of the processes, and what they say of the other fields.
LifeInv ==
  /\ \A p \in Pids : deallocated[p] \/ sealed[p] => state[p] = "ZOMBIE"
  /\ \A p \in Pids : state[p] = "RUNNING" => p = running
  /\ \A p \in Pids : state[p] # "UNUSED" => pid[p] = p /\ (p # 1 => father[p] \in Pids)
  /\ state[1] \in {"WAITING", "RUNNING"}
  /\ state[running] \notin {"UNUSED", "WAITING"}
  /\ ~deallocated[running]

\* A running process that may not return to user mode is inside schedule().
SwitchDue ==
  state[running] # "RUNNING" => /\ kstack[running] # <<>>
                                /\ Top.op \in {"schedule", "zombify", "destroy"}

\* The activations that are only found at the bottom of a stack; destroy() is
\* called by a schedule() that goes on after it.
Bottoms == {"start", "waitpid", "waitpid_any", "spin", "boot", "hlt"}

WellStacked(s) ==
  \A i \in 1 .. Len(s) :
    /\ s[i].op \in Bottoms => i = Len(s)
    /\ s[i].op = "destroy" => i + 1 <= Len(s) /\ s[i + 1].op = "schedule"

CallOps == {"start", "waitpid", "waitpid_any"}

StackInv ==
  /\ \A p \in Pids : WellStacked(kstack[p])
  /\ \A p \in Pids : state[p] = "UNUSED" => kstack[p] = <<>>
  /\ \A p \in Pids : \A f \in Range(kstack[p]) :
       /\ f.op \in CallOps \cup {"spin"} => p # 1
       /\ f.op = "spin" => state[p] = "ZOMBIE"
       /\ f.op \in {"boot", "hlt"} => p = 1
  /\ \A c \in Pids : InFrame("zombify", c) => deallocated[c]
  /\ \A c \in Pids : InFrame("destroy", c) => deallocated[c] /\ sealed[c]

\* A call of p that was switched out is right about its child.
Child(p, c) == c \in Pids /\ father[c] = p /\ ~sealed[c] /\ state[c] # "UNUSED"

Woken(p) == state[p] \in {"WAITING", "RUNNING"}

CallRight(p, f) ==
  /\ f.op \in {"start", "waitpid"} => Child(p, f.arg)
  /\ f.op = "waitpid" => \/ state[p] = "BLOCKED_BY_CHILD" /\ waiting_code[p] = f.arg
                         \/ Woken(p) /\ state[f.arg] = "ZOMBIE"
  /\ f.op = "waitpid_any" =>
       \/ state[p] = "BLOCKED_BY_CHILD" /\ waiting_code[p] = -1
       \/ Woken(p) /\ Child(p, waiting_code[p]) /\ state[waiting_code[p]] = "ZOMBIE"

CallsInv == \A p \in Pids : state[p] # "ZOMBIE" => \A f \in Range(kstack[p]) : CallRight(p, f)

\* A process that has just blocked in waitpid is not woken by its own cleaning.
BlockerInv ==
  state[running] = "BLOCKED_BY_CHILD" =>
    \A c \in Pids : father[c] = running /\ ~sealed[c] /\ waiting_code[running] \in {-1, c}
                      => state[c] # "ZOMBIE"

\* The lists of children; zombify() has dealt with all the children of a process
\* whose stacks are freed, or with those before its cursor.
Children(p) == {c \in Pids : father[c] = p /\ state[c] # "UNUSED" /\ ~InFrame("destroy", c)}

ChildrenListed == \A p \in Pids \ {1} : Lists(childs[p], Children(p))

Gone(c) == deallocated[c] /\ sealed[c]

ChildrenGone ==
  /\ \A p \in Pids : state[p] = "UNUSED" => childs[p] = <<>>
  /\ \A p \in Pids \ {1} : deallocated[p] /\ ~InFrame("zombify", p) =>
       \A c \in Range(childs[p]) : Gone(c)
  /\ \A p \in Pids : InFrame("zombify", p) =>
       \A i \in 1 .. Len(childs[p]) : i < Top.at => Gone(childs[p][i])

ListsInv == ReadyListed /\ SleepersListed /\ FreeListed /\ UndeadListed /\ DoomedListed

ExactInv == /\ TableInv /\ ListsInv /\ LifeInv /\ SwitchDue /\ StackInv
            /\ CallsInv /\ WaitersHaveWakers /\ BlockerInv
            /\ ChildrenListed /\ ChildrenGone /\ OnlyKnownStops

-------------------------------------------------------------------------------
(* The ready queue. *)

LEMMA QueueAddExact ==
  ASSUME NEW q \in Seq(Pids), NEW prio \in [Pids -> Int], NEW p \in Pids,
         NEW S, Lists(q, S), p \notin S, Sorted(q, prio)
  PROVE  /\ QueueAdd(q, prio, p) \in Seq(Pids)
         /\ Lists(QueueAdd(q, prio, p), S \cup {p})
         /\ Sorted(QueueAdd(q, prio, p), prio)
<1> DEFINE k == Position(q, prio, p)
           t == InsertAt(q, k, p)
<1>1. /\ k \in 1 .. Len(q) + 1
      /\ k <= Len(q) => prio[q[k]] >= prio[p]
      /\ \A i \in 1 .. k - 1 : prio[q[i]] < prio[p]
  BY PositionProperties
<1> HIDE DEF k
<1>2. /\ t \in Seq(Pids) /\ Len(t) = Len(q) + 1
      /\ \A j \in 1 .. Len(q) + 1 : t[j] = IF j < k THEN q[j] ELSE IF j = k THEN p ELSE q[j - 1]
  <2>1. k \in 1 .. Len(q) + 1
    BY <1>1
  <2> QED BY <2>1, InsertAtProperties, SMTT(60)
<1>3. Lists(t, S \cup {p})
  BY <1>1, ListsInsertAt
<1> HIDE DEF t
<1>4. Len(q) \in Nat /\ k \in Nat
  BY <1>1, LenProperties
<1>5. \A i \in 1 .. Len(q) : q[i] \in Pids /\ prio[q[i]] \in Int
  BY ElementOfSeq
<1>6. prio[p] \in Int
  OBVIOUS
<1>7. ASSUME NEW i \in 1 .. Len(q), i >= k
      PROVE  prio[q[i]] >= prio[p]
  <2>1. k \in 1 .. Len(q) /\ (k = i \/ k < i)
    BY <1>1, <1>4, <1>7
  <2>2. prio[q[k]] <= prio[q[i]]
    BY <1>5, <2>1 DEF Sorted
  <2> QED BY <1>1, <1>5, <1>6, <2>1, <2>2
<1>8. ASSUME NEW i \in 1 .. Len(q) + 1, NEW j \in 1 .. Len(q) + 1, i < j
      PROVE  prio[t[i]] <= prio[t[j]]
  <2>1. CASE j < k
    <3>1. i \in 1 .. Len(q) /\ j \in 1 .. Len(q) /\ i < k
      BY <1>1, <1>4, <1>8, <2>1
    <3>2. t[i] = q[i] /\ t[j] = q[j]
      BY <1>2, <2>1, <3>1
    <3> QED BY <1>8, <3>1, <3>2 DEF Sorted
  <2>2. CASE j = k
    <3>1. i \in 1 .. Len(q) /\ i \in 1 .. k - 1 /\ i < k
      BY <1>1, <1>4, <1>8, <2>2
    <3>2. t[i] = q[i] /\ t[j] = p
      BY <1>2, <2>2, <3>1
    <3> QED BY <1>1, <1>5, <1>6, <3>1, <3>2
  <2>3. CASE j > k /\ i < k
    <3>1. /\ i \in 1 .. Len(q) /\ i \in 1 .. k - 1
          /\ j - 1 \in 1 .. Len(q) /\ j - 1 >= k
      BY <1>1, <1>4, <1>8, <2>3
    <3>2. t[i] = q[i] /\ t[j] = q[j - 1]
      <4>1. ~(j < k) /\ j # k
        BY <1>4, <2>3
      <4> QED BY <1>2, <2>3, <4>1
    <3>3. prio[q[i]] < prio[p] /\ prio[q[j - 1]] >= prio[p]
      BY <1>1, <1>7, <3>1
    <3> QED BY <1>5, <1>6, <3>1, <3>2, <3>3
  <2>4. CASE j > k /\ i = k
    <3>1. j - 1 \in 1 .. Len(q) /\ j - 1 >= k /\ t[i] = p /\ t[j] = q[j - 1]
      BY <1>1, <1>2, <1>4, <1>8, <2>4
    <3> QED BY <1>5, <1>6, <1>7, <3>1
  <2>5. CASE j > k /\ i > k
    <3>1. /\ i - 1 \in 1 .. Len(q) /\ j - 1 \in 1 .. Len(q) /\ i - 1 < j - 1
          /\ t[i] = q[i - 1] /\ t[j] = q[j - 1]
      BY <1>1, <1>2, <1>4, <1>8, <2>5
    <3> QED BY <3>1 DEF Sorted
  <2> QED BY <1>4, <1>8, <2>1, <2>2, <2>3, <2>4, <2>5
<1>9. Sorted(t, prio)
  BY <1>2, <1>8 DEF Sorted
<1> QED BY <1>2, <1>3, <1>9 DEF QueueAdd, t, k

(* A part of a sorted queue is sorted. *)
LEMMA RemoveAtSorted ==
  ASSUME NEW q \in Seq(Pids), NEW prio, Sorted(q, prio), NEW i \in 1 .. Len(q)
  PROVE  Sorted(RemoveAt(q, i), prio)
<1> DEFINE t == RemoveAt(q, i)
           old(j) == IF j < i THEN j ELSE j + 1
<1>1. /\ Len(t) = Len(q) - 1
      /\ \A j \in 1 .. Len(q) - 1 : t[j] = IF j < i THEN q[j] ELSE q[j + 1]
  BY RemoveAtProperties
<1> HIDE DEF t
<1>2. Len(q) \in Nat /\ i \in Nat
  BY LenProperties
<1>3. \A j \in 1 .. Len(q) - 1 : old(j) \in 1 .. Len(q) /\ t[j] = q[old(j)]
  BY <1>1, <1>2
<1>4. \A j, k \in 1 .. Len(q) - 1 : j < k => old(j) < old(k)
  BY <1>2
<1> HIDE DEF old
<1>5. ASSUME NEW j \in 1 .. Len(q) - 1, NEW k \in 1 .. Len(q) - 1, j < k
      PROVE  prio[t[j]] <= prio[t[k]]
  BY <1>3, <1>4, <1>5 DEF Sorted
<1>6. Sorted(t, prio)
  BY <1>1, <1>5 DEF Sorted
<1> QED BY <1>6 DEF t

LEMMA SortedSame ==
  ASSUME NEW q \in Seq(Pids), NEW prio, NEW prio2, Sorted(q, prio),
         \A p \in Range(q) : prio2[p] = prio[p]
  PROVE  Sorted(q, prio2)
<1>1. \A i \in 1 .. Len(q) : q[i] \in Range(q)
  BY RangeMember
<1>2. \A i \in 1 .. Len(q) : prio2[q[i]] = prio[q[i]]
  BY <1>1
<1> QED BY <1>2 DEF Sorted

LEMMA WithoutExact ==
  ASSUME NEW s \in Seq(Pids), NEW e, NEW S, Lists(s, S)
  PROVE  /\ Without(s, e) \in Seq(Pids)
         /\ Lists(Without(s, e), S \ {e})
         /\ \A prio : Sorted(s, prio) => Sorted(Without(s, e), prio)
<1>1. CASE \E i \in DOMAIN s : s[i] = e
  <2> DEFINE i == CHOOSE i \in DOMAIN s : s[i] = e
  <2>1. i \in DOMAIN s /\ s[i] = e
    BY <1>1
  <2>2. i \in 1 .. Len(s)
    BY <2>1, LenProperties
  <2> HIDE DEF i
  <2>3. Without(s, e) = RemoveAt(s, i)
    BY <1>1 DEF Without, i
  <2>4. RemoveAt(s, i) \in Seq(Pids) /\ Lists(RemoveAt(s, i), S \ {s[i]})
    BY <2>2, RemoveAtProperties, ListsRemoveAt
  <2>5. \A prio : Sorted(s, prio) => Sorted(RemoveAt(s, i), prio)
    BY <2>2, RemoveAtSorted
  <2> QED BY <2>1, <2>3, <2>4, <2>5
<1>2. CASE ~\E i \in DOMAIN s : s[i] = e
  <2>1. e \notin S
    BY <1>2, LenProperties, ListsMember
  <2>2. S \ {e} = S /\ Without(s, e) = s
    BY <1>2, <2>1 DEF Without
  <2> QED BY <2>2
<1> QED BY <1>1, <1>2

(* The process that queue_out takes has the highest priority of the queue. *)
LEMMA FrontExact ==
  ASSUME NEW q \in Seq(Pids), NEW prio, NEW S, Lists(q, S), Sorted(q, prio), q # <<>>
  PROVE  /\ Front(q) \in Seq(Pids) /\ Last(q) \in Pids /\ Last(q) \in S
         /\ Lists(Front(q), S \ {Last(q)})
         /\ Sorted(Front(q), prio)
         /\ \A p \in S : p = Last(q) \/ prio[p] <= prio[Last(q)]
<1>1. /\ Front(q) \in Seq(Pids) /\ Len(Front(q)) = Len(q) - 1
      /\ \A j \in 1 .. Len(q) - 1 : Front(q)[j] = q[j]
      /\ Last(q) \in Pids /\ Last(q) = q[Len(q)]
  BY FrontProperties
<1>2. Len(q) \in Nat \ {0} /\ Len(q) \in 1 .. Len(q)
  BY EmptySeq
<1>3. Lists(Front(q), S \ {Last(q)}) /\ Last(q) \in S
  BY ListsFront
<1>4. Sorted(Front(q), prio)
  BY <1>1, <1>2 DEF Sorted
<1>5. ASSUME NEW p \in S PROVE p = Last(q) \/ prio[p] <= prio[Last(q)]
  <2>1. PICK i \in 1 .. Len(q) : q[i] = p
    BY ListsMember
  <2>2. i = Len(q) \/ i < Len(q)
    BY <1>2
  <2> QED BY <1>1, <1>2, <2>1, <2>2 DEF Sorted
<1> QED BY <1>1, <1>3, <1>4, <1>5

(* What clean_processes takes off a list: an entry that is not the running *)
(* process.                                                                *)
LEMMA PickedExact ==
  ASSUME NEW list \in Seq(Pids), NEW S, Lists(list, S), running \in Pids
  PROVE  /\ CanPick(list) => /\ Picked(list) \in Pids /\ Picked(list) \in S
                             /\ Picked(list) # running
                             /\ Unpicked(list) \in Seq(Pids)
                             /\ Lists(Unpicked(list), S \ {Picked(list)})
         /\ ~CanPick(list) => S \subseteq {running}
<1> DEFINE n == Len(list)
<1>0. n \in Nat /\ Len(list) = n
  BY LenProperties
<1> HIDE DEF n
<1>1. CASE list = <<>>
  BY <1>1, ListsMember DEF CanPick
<1>2. CASE list # <<>>
  <2>1. n \in Nat \ {0} /\ n \in 1 .. n /\ 1 \in 1 .. n
    BY <1>0, <1>2, EmptySeq
  <2>2. Last(list) = list[n] /\ Last(list) \in Pids
    BY <1>0, <1>2, FrontProperties
  <2>3. /\ \A i \in 1 .. n : list[i] \in S /\ list[i] \in Pids
        /\ \A i, j \in 1 .. n : list[i] = list[j] => i = j
        /\ \A x : x \in S <=> \E i \in 1 .. n : list[i] = x
    BY <1>0, ListsMember, ElementOfSeq
  <2>4. CASE Last(list) # running
    <3>1. Picked(list) = Last(list) /\ Unpicked(list) = Front(list) /\ CanPick(list)
      BY <1>2, <2>4 DEF Picked, Unpicked, CanPick
    <3>2. Lists(Front(list), S \ {Last(list)}) /\ Front(list) \in Seq(Pids)
      BY <1>2, ListsFront, FrontProperties
    <3> QED BY <2>1, <2>2, <2>3, <2>4, <3>1, <3>2
  <2>5. CASE Last(list) = running /\ n > 1
    <3> DEFINE i == 1
    <3>1. /\ Picked(list) = list[i] /\ CanPick(list)
          /\ Unpicked(list) = Front([list EXCEPT ![i] = Last(list)])
      <4>1. CanPick(list)
        BY <1>0, <1>2, <2>5 DEF CanPick
      <4>2. Picked(list) = list[i]
        BY <2>5 DEF Picked
      <4>3. Unpicked(list) = Front([list EXCEPT ![i] = Last(list)])
        BY <2>5 DEF Unpicked
      <4> QED BY <4>1, <4>2, <4>3
    <3>2. i \in 1 .. Len(list) /\ i # n
      BY <1>0, <2>1, <2>5
    <3> HIDE DEF i
    <3>3. /\ Front([list EXCEPT ![i] = Last(list)]) \in Seq(Pids)
          /\ Lists(Front([list EXCEPT ![i] = Last(list)]), S \ {list[i]})
      BY <3>2, ListsFillHole
    <3>4. list[i] # running
      BY <1>0, <2>1, <2>2, <2>3, <2>5, <3>2
    <3>5. list[i] \in S /\ list[i] \in Pids
      BY <1>0, <2>3, <3>2
    <3> QED BY <3>1, <3>3, <3>4, <3>5
  <2>6. CASE Last(list) = running /\ n = 1
    <3>1. ~CanPick(list)
      BY <1>0, <2>6 DEF CanPick
    <3>2. \A i \in 1 .. n : i = 1 /\ i = n
      BY <2>6
    <3>3. S \subseteq {running}
      BY <2>2, <2>3, <2>6, <3>2
    <3> QED BY <3>1, <3>3
  <2>7. n = 1 \/ n > 1
    BY <2>1
  <2> QED BY <2>4, <2>5, <2>6, <2>7
<1> QED BY <1>1, <1>2
-------------------------------------------------------------------------------
(* The kernel stacks. *)

LEMMA EmptyStack == <<>> \in Seq(Frames) /\ WellStacked(<<>>) /\ Range(<<>>) = {}
BY EmptySeq, RangeEmpty DEF WellStacked

LEMMA PushedStack ==
  ASSUME NEW f \in Frames, NEW s \in Seq(Frames), WellStacked(s), f.op \notin Bottoms,
         f.op = "destroy" => s # <<>> /\ Head(s).op = "schedule"
  PROVE  /\ <<f>> \o s \in Seq(Frames) /\ <<f>> \o s # <<>>
         /\ Head(<<f>> \o s) = f /\ Tail(<<f>> \o s) = s
         /\ Range(<<f>> \o s) = Range(s) \cup {f}
         /\ WellStacked(<<f>> \o s)
<1> DEFINE t == <<f>> \o s
<1>1. /\ t \in Seq(Frames) /\ t # <<>> /\ Len(t) = Len(s) + 1 /\ t[1] = f
      /\ \A j \in 2 .. Len(s) + 1 : t[j] = s[j - 1]
  BY PushProperties
<1>2. Head(t) = f
  BY <1>1
<1>3. Tail(t) = s
  BY ConcatProperties, HeadTailProperties
<1> HIDE DEF t
<1>4. Range(t) = Range(Tail(t)) \cup {Head(t)}
  BY <1>1, RangeTail
<1>5. Len(s) \in Nat
  BY LenProperties
<1>6. ASSUME NEW i \in 1 .. Len(t)
      PROVE  /\ t[i].op \in Bottoms => i = Len(t)
             /\ t[i].op = "destroy" => i + 1 <= Len(t) /\ t[i + 1].op = "schedule"
  <2>1. CASE i = 1
    <3>1. CASE f.op = "destroy"
      <4>1. Len(s) \in Nat \ {0} /\ Head(s) = s[1]
        BY <3>1, EmptySeq
      <4>2. t[2] = s[1]
        <5>1. 2 \in 2 .. Len(s) + 1 /\ 2 - 1 = 1
          BY <4>1
        <5> QED BY <1>1, <5>1
      <4> QED BY <1>1, <2>1, <3>1, <4>1, <4>2
    <3> QED BY <1>1, <2>1, <3>1
  <2>2. CASE i # 1
    <3>1. i - 1 \in 1 .. Len(s) /\ t[i] = s[i - 1]
      BY <1>1, <1>5, <2>2
    <3>2. /\ s[i - 1].op \in Bottoms => i - 1 = Len(s)
          /\ s[i - 1].op = "destroy" => (i - 1) + 1 <= Len(s) /\ s[(i - 1) + 1].op = "schedule"
      BY <3>1 DEF WellStacked
    <3>3. (i - 1) + 1 = i /\ (i + 1) - 1 = i
      OBVIOUS
    <3>4. i <= Len(s) => t[i + 1] = s[i]
      BY <1>1, <1>5, <3>3
    <3> QED BY <1>1, <1>5, <3>1, <3>2, <3>3, <3>4
  <2> QED BY <2>1, <2>2
<1>7. WellStacked(t)
  BY <1>6 DEF WellStacked
<1> QED BY <1>1, <1>2, <1>3, <1>4, <1>7 DEF t

LEMMA SingleStack ==
  ASSUME NEW f \in Frames, f.op # "destroy"
  PROVE  /\ <<f>> \in Seq(Frames) /\ <<f>> # <<>> /\ Head(<<f>>) = f /\ Tail(<<f>>) = <<>>
         /\ Range(<<f>>) = {f} /\ WellStacked(<<f>>)
<1>1. /\ <<f>> \in Seq(Frames) /\ <<f>> # <<>> /\ Len(<<f>>) = 1 /\ <<f>>[1] = f
      /\ Head(<<f>>) = f /\ Tail(<<f>>) = <<>>
  OBVIOUS
<1>2. Range(<<f>>) = {f}
  <2> DEFINE s == <<f>>
  <2>1. s \in Seq(Frames) /\ s # <<>> /\ Head(s) = f /\ Tail(s) = <<>>
    BY <1>1
  <2> HIDE DEF s
  <2>2. Range(s) = Range(Tail(s)) \cup {Head(s)}
    BY <2>1, RangeTail
  <2>3. Range(s) = {f}
    BY <2>1, <2>2, RangeEmpty
  <2> QED BY <2>3 DEF s
<1>3. WellStacked(<<f>>)
  BY <1>1 DEF WellStacked
<1> QED BY <1>1, <1>2, <1>3

LEMMA PoppedStack ==
  ASSUME NEW s \in Seq(Frames), WellStacked(s), s # <<>>
  PROVE  /\ Head(s) \in Range(s) /\ Head(s) \in Frames
         /\ Tail(s) \in Seq(Frames) /\ WellStacked(Tail(s))
         /\ Range(Tail(s)) \subseteq Range(s)
         /\ Range(s) = Range(Tail(s)) \cup {Head(s)}
         /\ Head(s).op \in Bottoms => Tail(s) = <<>>
         /\ Head(s).op = "destroy" => Tail(s) # <<>> /\ Head(Tail(s)).op = "schedule"
<1> DEFINE t == Tail(s)
<1>1. /\ Head(s) \in Frames /\ t \in Seq(Frames) /\ Len(t) = Len(s) - 1
      /\ \A i \in 1 .. Len(t) : t[i] = s[i + 1]
  BY HeadTailProperties
<1>2. Head(s) = s[1] /\ Head(s) \in Range(s) /\ Range(s) = Range(t) \cup {Head(s)}
  BY RangeTail
<1>3. Len(s) \in Nat \ {0} /\ 1 \in 1 .. Len(s)
  BY EmptySeq
<1> HIDE DEF t
<1>4. ASSUME NEW i \in 1 .. Len(t)
      PROVE  /\ t[i].op \in Bottoms => i = Len(t)
             /\ t[i].op = "destroy" => i + 1 <= Len(t) /\ t[i + 1].op = "schedule"
  <2>1. i + 1 \in 1 .. Len(s) /\ t[i] = s[i + 1]
    BY <1>1, <1>3
  <2>2. /\ s[i + 1].op \in Bottoms => i + 1 = Len(s)
        /\ s[i + 1].op = "destroy" => (i + 1) + 1 <= Len(s) /\ s[(i + 1) + 1].op = "schedule"
    BY <2>1 DEF WellStacked
  <2>3. i + 1 <= Len(t) => t[i + 1] = s[(i + 1) + 1]
    BY <1>1, <1>3
  <2> QED BY <1>1, <1>3, <2>1, <2>2, <2>3
<1>5. WellStacked(t)
  BY <1>4 DEF WellStacked
<1>6. /\ s[1].op \in Bottoms => 1 = Len(s)
      /\ s[1].op = "destroy" => 1 + 1 <= Len(s) /\ s[1 + 1].op = "schedule"
  BY <1>3 DEF WellStacked
<1>7. s[1].op \in Bottoms => t = <<>>
  BY <1>1, <1>6, EmptySeq
<1>8. s[1].op = "destroy" => t # <<>> /\ Head(t).op = "schedule"
  <2> SUFFICES ASSUME s[1].op = "destroy" PROVE t # <<>> /\ Head(t).op = "schedule"
    OBVIOUS
  <2>1. 1 \in 1 .. Len(t) /\ t[1] = s[1 + 1]
    BY <1>1, <1>3, <1>6
  <2>2. t # <<>> /\ Head(t) = t[1]
    BY <1>1, <2>1, EmptySeq
  <2> QED BY <1>6, <2>1, <2>2
<1> QED BY <1>1, <1>2, <1>5, <1>7, <1>8 DEF t

(* Outside zombify() and destroy(). *)
Calm == \A c \in Pids : ~InFrame("zombify", c) /\ ~InFrame("destroy", c)

LEMMA CalmNow ==
  ASSUME kstack[running] = <<>> \/ Top.op \notin {"zombify", "destroy"}
  PROVE  Calm
BY DEF Calm, InFrame

LEMMA CalmNext ==
  ASSUME NEW s, kstack'[running'] = s, s = <<>> \/ Head(s).op \notin {"zombify", "destroy"}
  PROVE  Calm'
BY DEF Calm, InFrame, Top

(* A step that changes only the stack of the running process, the priorities *)
(* and the order of the ready queue.                                         *)
LEMMA ReorderExact ==
  ASSUME ExactInv, TableInv', Calm,
         UNCHANGED <<family, life, running, lists, sleep, waiting_code, panic>>, ReadyListed',
         NEW s \in Seq(Frames), kstack' = [kstack EXCEPT ![running] = s],
         WellStacked(s), s = <<>> \/ Head(s).op \notin {"zombify", "destroy"},
         \A f \in Range(s) : f \in Range(kstack[running]) \/ f.op \notin CallOps \cup {"spin", "boot", "hlt"},
         state[running] = "RUNNING" \/ (s # <<>> /\ Head(s).op = "schedule")
  PROVE  ExactInv'
<1>0. /\ father' = father /\ childs' = childs /\ pid' = pid /\ state' = state
      /\ deallocated' = deallocated /\ sealed' = sealed /\ running' = running /\ to_zombify' = to_zombify
      /\ to_destroy' = to_destroy /\ free' = free /\ waiting' = waiting
      /\ waiting_code' = waiting_code /\ panic' = panic
  BY DEF family, life, lists, sleep
<1>1. running \in Pids /\ kstack \in [Pids -> Seq(Frames)]
  BY DEF ExactInv, TableInv, TypeOK
<1>2. kstack'[running] = s /\ \A p \in Pids : p # running => kstack'[p] = kstack[p]
  BY <1>1
<1>3. Calm'
  BY <1>0, <1>2, CalmNext
<1>4. ListsInv'
  BY <1>0, <1>3 DEF ExactInv, ListsInv, SleepersListed, FreeListed, UndeadListed,
     DoomedListed, InState, Undead, Doomed, Calm
<1>5. LifeInv'
  BY <1>0 DEF ExactInv, LifeInv
<1>6. SwitchDue'
  BY <1>0, <1>2 DEF SwitchDue, Top
<1>7. StackInv'
  BY <1>0, <1>1, <1>2, <1>3, EmptyStack DEF ExactInv, StackInv, LifeInv, Calm
<1>8. CallsInv'
  BY <1>0, <1>1, <1>2 DEF ExactInv, CallsInv, CallRight, Child, Woken, CallOps
<1>9. WaitersHaveWakers'
  BY <1>0, <1>3 DEF ExactInv, WaitersHaveWakers, Calm
<1>10. BlockerInv'
  BY <1>0 DEF ExactInv, BlockerInv
<1>11. ChildrenListed'
  BY <1>0, <1>3 DEF ExactInv, ChildrenListed, Children, Calm
<1>12. ChildrenGone'
  BY <1>0, <1>3 DEF ExactInv, ChildrenGone, Calm, Gone
<1>13. OnlyKnownStops'
  BY <1>0 DEF ExactInv, OnlyKnownStops
<1> QED BY <1>4, <1>5, <1>6, <1>7, <1>8, <1>9, <1>10, <1>11, <1>12, <1>13 DEF ExactInv

LEMMA StackOnlyExact ==
  ASSUME ExactInv, TableInv', Calm,
         UNCHANGED <<family, life, sched, lists, sleep, waiting_code, panic>>,
         NEW s \in Seq(Frames), kstack' = [kstack EXCEPT ![running] = s],
         WellStacked(s), s = <<>> \/ Head(s).op \notin {"zombify", "destroy"},
         \A f \in Range(s) : f \in Range(kstack[running]) \/ f.op \notin CallOps \cup {"spin", "boot", "hlt"},
         state[running] = "RUNNING" \/ (s # <<>> /\ Head(s).op = "schedule")
  PROVE  ExactInv'
<1>1. UNCHANGED <<family, life, running, lists, sleep, waiting_code, panic>>
  BY DEF sched
<1>2. ReadyListed'
  BY DEF ExactInv, ListsInv, ReadyListed, InState, sched, life
<1> QED BY <1>1, <1>2, ReorderExact

(* The stack of the running process, again with its shape. *)
LEMMA RunningShape ==
  ASSUME ExactInv
  PROVE  /\ running \in Pids /\ kstack \in [Pids -> Seq(Frames)]
         /\ kstack[running] \in Seq(Frames) /\ WellStacked(kstack[running])
         /\ kstack[running] # <<>> =>
              /\ Top \in Frames /\ Top \in Range(kstack[running])
              /\ Tail(kstack[running]) \in Seq(Frames) /\ WellStacked(Tail(kstack[running]))
              /\ Range(Tail(kstack[running])) \subseteq Range(kstack[running])
              /\ Tail(kstack[running]) = <<>>
                   \/ Head(Tail(kstack[running])).op \notin {"zombify", "destroy"}
              /\ Top.op \in Bottoms => Tail(kstack[running]) = <<>>
              /\ Top.op = "destroy" => /\ Tail(kstack[running]) # <<>>
                                       /\ Head(Tail(kstack[running])).op = "schedule"
<1> DEFINE s == kstack[running]
<1>1. /\ running \in Pids /\ kstack \in [Pids -> Seq(Frames)]
      /\ s \in Seq(Frames) /\ WellStacked(s)
  BY DEF ExactInv, TableInv, TypeOK, StackInv
<1>2. ASSUME s # <<>> PROVE Plain(Tail(s))
  BY <1>2, RunningStack DEF ExactInv
<1> HIDE DEF s
<1>3. ASSUME s # <<>>
      PROVE  /\ Head(s) \in Range(s) /\ Head(s) \in Frames
             /\ Tail(s) \in Seq(Frames) /\ WellStacked(Tail(s))
             /\ Range(Tail(s)) \subseteq Range(s)
             /\ Head(s).op \in Bottoms => Tail(s) = <<>>
             /\ Head(s).op = "destroy" => Tail(s) # <<>> /\ Head(Tail(s)).op = "schedule"
  BY <1>1, <1>3, PoppedStack
<1>4. ASSUME s # <<>>, Tail(s) # <<>>
      PROVE  Head(Tail(s)).op \notin {"zombify", "destroy"}
  <2> DEFINE t == Tail(s)
  <2>1. t \in Seq(Frames) /\ t # <<>> /\ Plain(t)
    BY <1>2, <1>3, <1>4
  <2> HIDE DEF t
  <2>2. 1 \in DOMAIN t /\ Head(t) = t[1]
    BY <2>1, EmptySeq, LenProperties
  <2>3. Head(t).op \notin {"zombify", "destroy"}
    BY <2>1, <2>2 DEF Plain
  <2> QED BY <2>3 DEF t
<1> QED BY <1>1, <1>3, <1>4 DEF s, Top

(* Init is always ready to run when another process runs. *)
LEMMA SomeoneReady ==
  ASSUME ExactInv, running # 1
  PROVE  /\ queue \in Seq(Pids) /\ queue # <<>> /\ Last(queue) \in Pids
         /\ state[Last(queue)] = "WAITING"
<1>1. 1 \in Pids /\ queue \in Seq(Pids)
  <2>1. 1 \in Pids
    BY DEF Pids
  <2> QED BY <2>1 DEF ExactInv, TableInv, TypeOK
<1>2. state[1] = "WAITING"
  BY <1>1 DEF ExactInv, LifeInv
<1>3. Lists(queue, InState("WAITING")) /\ 1 \in InState("WAITING")
  BY <1>1, <1>2 DEF ExactInv, ListsInv, ReadyListed, InState
<1>4. queue # <<>>
  BY <1>1, <1>3, ListsMember
<1>5. Last(queue) \in InState("WAITING")
  BY <1>1, <1>3, <1>4, ListsFront
<1> QED BY <1>1, <1>4, <1>5 DEF InState

(* schedule() returns to the process that called it only if that may run. *)
LEMMA KeepsOnlyRunning ==
  ASSUME ExactInv, KeepsRunning
  PROVE  state[running] = "RUNNING"
<1> SUFFICES ASSUME state[running] # "RUNNING" PROVE FALSE
  OBVIOUS
<1>1. running \in Pids /\ running # 1
  <2>1. running \in Pids /\ state[1] \in {"WAITING", "RUNNING"}
        /\ state[running] \notin {"UNUSED", "WAITING"}
    BY DEF ExactInv, LifeInv, TableInv, TypeOK
  <2> QED BY <2>1
<1>2. queue # <<>> /\ Last(queue) \in Pids /\ state[Last(queue)] = "WAITING"
  BY <1>1, SomeoneReady
<1>3. state[running] # "WAITING"
  BY DEF ExactInv, LifeInv
<1>4. Candidate \notin {0, running}
  BY <1>1, <1>2, <1>3 DEF Candidate, Pids
<1> QED BY <1>4 DEF KeepsRunning

LEMMA ScheduleKeepExact ==
  ASSUME ExactInv, ScheduleKeep
  PROVE  ExactInv'
<1> DEFINE s == Tail(kstack[running])
<1>1. /\ kstack[running] # <<>> /\ Top.op = "schedule" /\ KeepsRunning
      /\ UNCHANGED <<family, life, sched, lists, sleep, waiting_code, panic>>
      /\ kstack' = [kstack EXCEPT ![running] = s]
  BY DEF ScheduleKeep, InKernel, Pop
<1>2. TableInv'
  BY ScheduleKeepInv DEF ExactInv
<1>3. /\ s \in Seq(Frames) /\ WellStacked(s) /\ Range(s) \subseteq Range(kstack[running])
      /\ s = <<>> \/ Head(s).op \notin {"zombify", "destroy"}
  BY <1>1, RunningShape
<1>4. Calm
  BY <1>1, CalmNow
<1>5. state[running] = "RUNNING"
  BY <1>1, KeepsOnlyRunning
<1> HIDE DEF s
<1> QED BY <1>1, <1>2, <1>3, <1>4, <1>5, StackOnlyExact

LEMMA StartReturnExact ==
  ASSUME ExactInv, StartReturn
  PROVE  ExactInv'
<1> DEFINE s == Tail(kstack[running])
<1>1. /\ kstack[running] # <<>> /\ Top.op = "start"
      /\ UNCHANGED <<family, life, sched, lists, sleep, waiting_code, panic>>
      /\ kstack' = [kstack EXCEPT ![running] = s]
  BY DEF StartReturn, InKernel, Pop
<1>2. TableInv'
  BY StartReturnInv DEF ExactInv
<1>3. /\ s \in Seq(Frames) /\ WellStacked(s) /\ Range(s) \subseteq Range(kstack[running])
      /\ s = <<>> \/ Head(s).op \notin {"zombify", "destroy"}
  BY <1>1, RunningShape
<1>4. Calm
  BY <1>1, CalmNow
<1>5. state[running] = "RUNNING"
  BY <1>1 DEF ExactInv, SwitchDue
<1> HIDE DEF s
<1> QED BY <1>1, <1>2, <1>3, <1>4, <1>5, StackOnlyExact

LEMMA TickExact ==
  ASSUME ExactInv, Tick
  PROVE  ExactInv'
<1> DEFINE f == Frame("clock_tick", 0)
           old == kstack[running]
           t == <<f>> \o old
           s == IF NextDelay = 0 THEN <<Schedule>> \o t ELSE t
<1>1. /\ old = <<>> \/ Top.op = "boot"
      /\ UNCHANGED <<family, life, sched, lists, sleep, waiting_code, panic>>
  BY DEF Tick, Interruptible, InUserMode, InKernel
<1>2. TableInv'
  BY TickInv DEF ExactInv
<1>3. old \in Seq(Frames) /\ WellStacked(old)
  BY RunningShape
<1>4. f \in Frames /\ f.op = "clock_tick"
  <2>1. "clock_tick" \in Ops /\ 0 \in 0 .. N
    BY DEF Ops
  <2> QED BY <2>1, FrameType
<1>5. kstack' = [kstack EXCEPT ![running] = s]
  <2>1. kstack' = [kstack EXCEPT ![running] =
                     (IF NextDelay = 0 THEN <<Schedule>> ELSE <<>>) \o <<f>> \o old]
    BY DEF Tick
  <2>2. <<f>> \in Seq(Frames) /\ <<Schedule>> \in Seq(Frames)
    BY <1>4, ScheduleType, SingleStack
  <2>3. (<<Schedule>> \o <<f>>) \o old = <<Schedule>> \o (<<f>> \o old) /\ <<>> \o <<f>> = <<f>>
    BY <1>3, <2>2, ConcatAssociative, ConcatEmptySeq
  <2> QED BY <2>1, <2>3
<1> HIDE DEF f, old
<1>6. /\ t \in Seq(Frames) /\ t # <<>> /\ Head(t) = f
      /\ Range(t) = Range(old) \cup {f} /\ WellStacked(t)
  BY <1>3, <1>4, PushedStack DEF Bottoms
<1> HIDE DEF t
<1>7. /\ <<Schedule>> \o t \in Seq(Frames) /\ Head(<<Schedule>> \o t) = Schedule
      /\ <<Schedule>> \o t # <<>>
      /\ Range(<<Schedule>> \o t) = Range(t) \cup {Schedule} /\ WellStacked(<<Schedule>> \o t)
  BY <1>6, ScheduleType, PushedStack DEF Bottoms
<1>8. /\ s \in Seq(Frames) /\ s # <<>> /\ WellStacked(s)
      /\ Head(s).op \notin {"zombify", "destroy"}
      /\ \A g \in Range(s) : g \in Range(old) \/ g.op \notin CallOps \cup {"spin", "boot", "hlt"}
  BY <1>4, <1>6, <1>7, ScheduleType DEF CallOps
<1> HIDE DEF s
<1>9. Calm
  BY <1>1, CalmNow DEF old
<1>10. state[running] = "RUNNING"
  BY <1>1 DEF ExactInv, SwitchDue, old
<1> QED BY <1>1, <1>2, <1>5, <1>8, <1>9, <1>10, StackOnlyExact DEF old

LEMMA ClockTickEndExact ==
  ASSUME ExactInv, ClockTickEnd
  PROVE  ExactInv'
<1> DEFINE r == Tail(kstack[running])
           s == IF Top.op = "clock_woke" THEN <<Schedule>> \o r ELSE r
<1>1. /\ kstack[running] # <<>> /\ Top.op \in {"clock_tick", "clock_woke"}
      /\ UNCHANGED <<family, life, sched, lists, sleep, waiting_code, panic>>
      /\ kstack' = [kstack EXCEPT ![running] = s]
  BY DEF ClockTickEnd, ClockTick, InKernel, Pop, Replace
<1>2. TableInv'
  BY ClockTickEndInv DEF ExactInv
<1>3. /\ r \in Seq(Frames) /\ WellStacked(r) /\ Range(r) \subseteq Range(kstack[running])
      /\ r = <<>> \/ Head(r).op \notin {"zombify", "destroy"}
  BY <1>1, RunningShape
<1> HIDE DEF r
<1>4. /\ <<Schedule>> \o r \in Seq(Frames) /\ Head(<<Schedule>> \o r) = Schedule
      /\ <<Schedule>> \o r # <<>>
      /\ Range(<<Schedule>> \o r) = Range(r) \cup {Schedule} /\ WellStacked(<<Schedule>> \o r)
  BY <1>3, ScheduleType, PushedStack DEF Bottoms
<1>5. /\ s \in Seq(Frames) /\ WellStacked(s)
      /\ s = <<>> \/ Head(s).op \notin {"zombify", "destroy"}
      /\ \A g \in Range(s) : g \in Range(kstack[running]) \/ g.op \notin CallOps \cup {"spin", "boot", "hlt"}
  BY <1>3, <1>4, ScheduleType DEF CallOps
<1> HIDE DEF s
<1>6. Calm
  BY <1>1, CalmNow
<1>7. state[running] = "RUNNING"
  BY <1>1 DEF ExactInv, SwitchDue
<1> QED BY <1>1, <1>2, <1>5, <1>6, <1>7, StackOnlyExact

LEMMA FailExact ==
  ASSUME ExactInv, NEW site \in {"request_destroy", "queue_del", "init", "child_list"}, Fail(site),
         panic = None
  PROVE  ExactInv'
<1>1. TableInv'
  <2>1. site \in Sites /\ TableInv
    BY DEF ExactInv, Sites, CallStops
  <2> QED BY <2>1, FailInv
<1>2. /\ UNCHANGED <<family, life, sched, lists, sleep, waiting_code, kstack>>
      /\ panic' = site /\ panic' # "pids_waiting" /\ panic # "pids_waiting"
  BY DEF Fail, None
<1>3. (ListsInv /\ LifeInv /\ SwitchDue /\ StackInv)'
  BY <1>2 DEF ExactInv, ListsInv, ReadyListed, SleepersListed, FreeListed, UndeadListed,
     DoomedListed, InState, Undead, Doomed, LifeInv, SwitchDue, StackInv, InFrame, Top,
     family, life, sched, lists, sleep
<1>4. (CallsInv /\ WaitersHaveWakers /\ BlockerInv)'
  BY <1>2 DEF ExactInv, CallsInv, CallRight, Child, Woken, WaitersHaveWakers, BlockerInv,
     InFrame, Top, family, life, sched, lists, sleep
<1>5. (ChildrenListed /\ ChildrenGone)'
  BY <1>2 DEF ExactInv, ChildrenListed, ChildrenGone, Children, Gone, InFrame, Top,
     family, life, sched, lists, sleep
<1>6. OnlyKnownStops'
  BY <1>2 DEF OnlyKnownStops, CallStops
<1> QED BY <1>1, <1>3, <1>4, <1>5, <1>6 DEF ExactInv
-------------------------------------------------------------------------------
(* clean_processes. *)

LEMMA CleanZombifyExact ==
  ASSUME ExactInv, CleanZombify
  PROVE  ExactInv'
<1> DEFINE p == Picked(to_zombify)
           f == Frame("zombify", p)
           old == kstack[running]
           s == <<f>> \o old
<1>1. /\ old # <<>> /\ Top.op = "schedule" /\ CanPick(to_zombify)
      /\ running \in Pids /\ to_zombify \in Seq(Pids)
  BY DEF CleanZombify, InKernel, ExactInv, TableInv, TypeOK
<1>2. TableInv'
  BY CleanZombifyInv DEF ExactInv
<1>3. Lists(to_zombify, Undead)
  BY DEF ExactInv, ListsInv, UndeadListed
<1>4. p \in Undead /\ p # running /\ Lists(Unpicked(to_zombify), Undead \ {p})
  BY <1>1, <1>3, PickedExact
<1>5. p \in Pids /\ state[p] = "ZOMBIE" /\ ~deallocated[p]
  BY <1>4 DEF Undead
<1>6. p # 1 /\ father[p] \in Pids
  BY <1>5 DEF ExactInv, LifeInv
<1>7. /\ to_zombify' = Unpicked(to_zombify)
      /\ deallocated' = [deallocated EXCEPT ![p] = TRUE]
      /\ kstack' = [kstack EXCEPT ![p] = <<>>, ![running] = s]
      /\ UNCHANGED <<family, pid, state, sealed, sched, to_destroy, free,
                     sleep, clock, waiting_code, panic>>
  <2>1. kstack' = [kstack EXCEPT ![p] = <<>>, ![running] = <<f>> \o @]
        /\ to_zombify' = Unpicked(to_zombify)
        /\ deallocated' = [deallocated EXCEPT ![p] = TRUE]
        /\ UNCHANGED <<family, pid, state, sealed, sched, to_destroy, free,
                       sleep, clock, waiting_code, panic>>
    BY <1>4, <1>5, <1>6 DEF CleanZombify
  <2>2. kstack \in [Pids -> Seq(Frames)]
    BY RunningShape
  <2> HIDE DEF f, p
  <2> QED BY <1>1, <1>4, <1>5, <2>1, <2>2
<1>8. f \in Frames /\ f.op = "zombify" /\ f.arg = p /\ f.at = 1
  <2>1. "zombify" \in Ops /\ p \in 0 .. N
    BY <1>5 DEF Ops, Pids
  <2> QED BY <2>1, FrameType DEF Frame
<1> HIDE DEF p, f
<1>9. kstack \in [Pids -> Seq(Frames)] /\ old \in Seq(Frames) /\ WellStacked(old)
  BY RunningShape
<1>10. s \in Seq(Frames) /\ s # <<>> /\ Head(s) = f /\ Range(s) = Range(old) \cup {f} /\ WellStacked(s)
  BY <1>8, <1>9, PushedStack DEF Bottoms
<1> HIDE DEF s
<1>11. /\ kstack'[running] = s /\ kstack'[p] = <<>>
       /\ \A q \in Pids : q # running /\ q # p => kstack'[q] = kstack[q]
  BY <1>1, <1>4, <1>5, <1>7, <1>9
<1>12. /\ father' = father /\ childs' = childs /\ pid' = pid /\ state' = state
       /\ sealed' = sealed /\ queue' = queue /\ priority' = priority /\ running' = running
       /\ to_destroy' = to_destroy /\ free' = free /\ waiting' = waiting
       /\ waiting_code' = waiting_code /\ panic' = panic
  BY <1>7 DEF family, sched, sleep
<1>13. deallocated'[p] /\ \A q \in Pids : q # p => deallocated'[q] = deallocated[q]
  BY <1>5, <1>7 DEF ExactInv, TableInv, TypeOK
<1>14. Calm
  BY <1>1, CalmNow
<1>15. /\ \A c \in Pids : InFrame("zombify", c)' <=> c = p
       /\ \A c \in Pids : ~InFrame("destroy", c)'
       /\ Top'.at = 1
  BY <1>8, <1>10, <1>11, <1>12 DEF InFrame, Top
<1>16. ListsInv'
  <2>1. Undead' = Undead \ {p}
    BY <1>5, <1>12, <1>13 DEF Undead
  <2>2. UndeadListed'
    BY <1>4, <1>7, <2>1 DEF UndeadListed
  <2> QED BY <1>12, <1>14, <1>15, <2>2 DEF ExactInv, ListsInv, ReadyListed, SleepersListed,
       FreeListed, DoomedListed, InState, Doomed, Calm
<1>17. LifeInv'
  BY <1>1, <1>4, <1>5, <1>12, <1>13 DEF ExactInv, LifeInv
<1>18. SwitchDue'
  BY <1>8, <1>10, <1>11, <1>12 DEF SwitchDue, Top
<1>19. StackInv'
  <2>1. \A q \in Pids : WellStacked(kstack'[q])
    BY <1>10, <1>11, EmptyStack DEF ExactInv, StackInv
  <2>2. \A q \in Pids : state'[q] = "UNUSED" => kstack'[q] = <<>>
    BY <1>1, <1>5, <1>11, <1>12 DEF ExactInv, StackInv, LifeInv
  <2>3. \A q \in Pids : \A x \in Range(kstack'[q]) : x \in Range(kstack[q]) \/ (q = running /\ x = f)
    BY <1>10, <1>11, EmptyStack
  <2>4. \A q \in Pids : \A x \in Range(kstack'[q]) :
          /\ x.op \in CallOps \cup {"spin"} => q # 1
          /\ x.op = "spin" => state'[q] = "ZOMBIE"
          /\ x.op \in {"boot", "hlt"} => q = 1
    BY <1>8, <1>12, <2>3 DEF ExactInv, StackInv, CallOps
  <2>5. /\ \A q \in Pids : InFrame("zombify", q)' => deallocated'[q]
        /\ \A q \in Pids : InFrame("destroy", q)' => deallocated'[q] /\ sealed'[q]
    BY <1>13, <1>15
  <2> QED BY <2>1, <2>2, <2>4, <2>5 DEF StackInv
<1>20. CallsInv'
  BY <1>1, <1>5, <1>8, <1>10, <1>11, <1>12, EmptyStack
     DEF ExactInv, CallsInv, CallRight, Child, Woken, CallOps
<1>21. WaitersHaveWakers'
  BY <1>12, <1>13, <1>14, <1>15 DEF ExactInv, WaitersHaveWakers, Calm
<1>22. BlockerInv'
  BY <1>12 DEF ExactInv, BlockerInv
<1>23. ChildrenListed'
  BY <1>12, <1>14, <1>15 DEF ExactInv, ChildrenListed, Children, Calm
<1>24. ChildrenGone'
  <2>1. \A c : Gone(c) /\ c \in Pids => Gone(c)'
    BY <1>12, <1>13 DEF Gone
  <2>2. \A q \in Pids : Range(childs[q]) \subseteq Pids
    BY RangeMember DEF ExactInv, TableInv, TypeOK
  <2>3. \A q \in Pids \ {1} : deallocated'[q] /\ ~InFrame("zombify", q)' =>
          \A c \in Range(childs'[q]) : Gone(c)'
    BY <1>12, <1>13, <1>14, <1>15, <2>1, <2>2 DEF ExactInv, ChildrenGone, Calm
  <2>4. \A q \in Pids : InFrame("zombify", q)' =>
          \A i \in 1 .. Len(childs'[q]) : ~(i < Top'.at)
    BY <1>15
  <2> QED BY <1>12, <2>3, <2>4 DEF ExactInv, ChildrenGone
<1>25. OnlyKnownStops'
  BY <1>12 DEF ExactInv, OnlyKnownStops
<1> QED BY <1>2, <1>16, <1>17, <1>18, <1>19, <1>20, <1>21, <1>22, <1>23, <1>24, <1>25 DEF ExactInv

(* Where zombify() and destroy() stand. *)
LEMMA InZombify ==
  ASSUME ExactInv, InKernel("zombify")
  PROVE  /\ kstack[running] # <<>> /\ running \in Pids /\ Top \in Frames
         /\ Top.op = "zombify" /\ Top.arg \in Pids \ {1, running} /\ Top.at \in Nat \ {0}
         /\ state[Top.arg] = "ZOMBIE" /\ deallocated[Top.arg] /\ father[Top.arg] \in Pids
         /\ \A c \in Pids : InFrame("zombify", c) <=> c = Top.arg
         /\ \A c \in Pids : ~InFrame("destroy", c)
<1>1. /\ kstack[running] # <<>> /\ Top.op = "zombify" /\ running \in Pids /\ Top \in Frames
      /\ Top.arg \in Pids \ {1, running}
  BY RunningStack DEF ExactInv, InKernel
<1>2. /\ \A c \in Pids : InFrame("zombify", c) <=> c = Top.arg
      /\ \A c \in Pids : ~InFrame("destroy", c)
  BY <1>1 DEF InFrame
<1>3. deallocated[Top.arg]
  BY <1>1, <1>2 DEF ExactInv, StackInv
<1>4. state[Top.arg] = "ZOMBIE" /\ father[Top.arg] \in Pids
  BY <1>1, <1>3 DEF ExactInv, LifeInv
<1>5. Top.at \in Nat \ {0}
  BY <1>1 DEF Frames
<1> QED BY <1>1, <1>2, <1>3, <1>4, <1>5

LEMMA InDestroy ==
  ASSUME ExactInv, InKernel("destroy")
  PROVE  /\ kstack[running] # <<>> /\ running \in Pids
         /\ Top.op = "destroy" /\ Top.arg \in Pids \ {1, running}
         /\ state[Top.arg] = "ZOMBIE" /\ deallocated[Top.arg] /\ sealed[Top.arg]
         /\ \A c \in Pids : InFrame("destroy", c) <=> c = Top.arg
         /\ \A c \in Pids : ~InFrame("zombify", c)
<1>1. /\ kstack[running] # <<>> /\ Top.op = "destroy" /\ running \in Pids
      /\ Top.arg \in Pids \ {1, running}
  BY RunningStack DEF ExactInv, InKernel
<1>2. /\ \A c \in Pids : InFrame("destroy", c) <=> c = Top.arg
      /\ \A c \in Pids : ~InFrame("zombify", c)
  BY <1>1 DEF InFrame
<1>3. deallocated[Top.arg] /\ sealed[Top.arg]
  BY <1>1, <1>2 DEF ExactInv, StackInv
<1>4. state[Top.arg] = "ZOMBIE"
  BY <1>1, <1>3 DEF ExactInv, LifeInv
<1> QED BY <1>1, <1>2, <1>3, <1>4

LEMMA ZombifyChildExact ==
  ASSUME ExactInv, ZombifyChild
  PROVE  ExactInv'
<1>0. PICK p, k, l, c : p = Top.arg /\ k = Top.at /\ l = childs[p] /\ c = l[k]
  OBVIOUS
<1>1. /\ kstack[running] # <<>> /\ running \in Pids /\ Top \in Frames /\ Top.op = "zombify"
      /\ p \in Pids \ {1, running} /\ k \in Nat \ {0}
      /\ state[p] = "ZOMBIE" /\ deallocated[p] /\ father[p] \in Pids
      /\ \A d \in Pids : InFrame("zombify", d) <=> d = p
      /\ \A d \in Pids : ~InFrame("destroy", d)
  BY <1>0, InZombify DEF ZombifyChild
<1>2. TableInv'
  BY ZombifyChildInv DEF ExactInv
<1>3. l \in Seq(Pids) /\ k \in 1 .. Len(l) /\ Lists(l, Children(p))
  <2>1. l \in Seq(Pids) /\ k <= Len(l) /\ Lists(l, Children(p))
    BY <1>0, <1>1 DEF ZombifyChild, ExactInv, TableInv, TypeOK, ChildrenListed
  <2> QED BY <1>1, <2>1, LenProperties
<1>4. c \in Pids /\ father[c] = p /\ state[c] # "UNUSED" /\ c \in Children(p)
  <2>1. c \in Children(p)
    BY <1>0, <1>3, ListsMember
  <2> QED BY <2>1 DEF Children
<1>5. /\ \A i \in 1 .. Len(l) : i < k => Gone(l[i])
      /\ \A q \in Pids : Range(childs[q]) \subseteq Pids
      /\ \A i \in 1 .. Len(l) : l[i] \in Pids
  <2>1. \A i \in 1 .. Len(l) : i < k => Gone(l[i])
    BY <1>0, <1>1 DEF ExactInv, ChildrenGone
  <2>2. \A q \in Pids : childs[q] \in Seq(Pids)
    BY DEF ExactInv, TableInv, TypeOK
  <2>3. \A q \in Pids : Range(childs[q]) \subseteq Pids
    BY <2>2, RangeMember
  <2>4. \A i \in 1 .. Len(l) : l[i] \in Pids
    BY <1>3, ElementOfSeq
  <2> QED BY <2>1, <2>3, <2>4
<1>6. CASE deallocated[c] /\ sealed[c]
  <2>1. panic = None /\ Fail("request_destroy")
    BY <1>0, <1>6 DEF ZombifyChild, InKernel
  <2> QED BY <2>1, FailExact
<1>7. CASE deallocated[c] /\ ~sealed[c]
  <2> DEFINE g == [Top EXCEPT !.at = k + 1]
             r == Tail(kstack[running])
             s == <<g>> \o r
  <2>1. /\ sealed' = [sealed EXCEPT ![c] = TRUE]
        /\ to_destroy' = Append(to_destroy, c)
        /\ kstack' = [kstack EXCEPT ![running] = s]
        /\ UNCHANGED <<family, pid, state, deallocated, sched, to_zombify,
                       free, sleep, clock, waiting_code, panic>>
    BY <1>0, <1>7 DEF ZombifyChild, RequestDestroy, Replace
  <2>2. g \in Frames /\ g.op = "zombify" /\ g.arg = p /\ g.at = k + 1
    <3>1. g = [op |-> "zombify", arg |-> p, at |-> k + 1]
      BY <1>0, <1>1 DEF Frames
    <3>2. "zombify" \in Ops /\ p \in 0 .. N /\ k + 1 \in Nat \ {0}
      BY <1>1 DEF Ops, Pids
    <3> QED BY <3>1, <3>2 DEF Frames
  <2>3. kstack \in [Pids -> Seq(Frames)] /\ r \in Seq(Frames) /\ WellStacked(r)
        /\ Range(r) \subseteq Range(kstack[running])
    BY <1>1, RunningShape
  <2> HIDE DEF g, r
  <2>4. s \in Seq(Frames) /\ s # <<>> /\ Head(s) = g /\ Range(s) = Range(r) \cup {g} /\ WellStacked(s)
    BY <2>2, <2>3, PushedStack DEF Bottoms
  <2> HIDE DEF s
  <2>5. kstack'[running] = s /\ \A q \in Pids : q # running => kstack'[q] = kstack[q]
    BY <1>1, <2>1, <2>3
  <2>6. /\ father' = father /\ childs' = childs /\ pid' = pid /\ state' = state
        /\ deallocated' = deallocated /\ queue' = queue /\ priority' = priority
        /\ running' = running /\ to_zombify' = to_zombify /\ free' = free
        /\ waiting' = waiting /\ waiting_code' = waiting_code /\ panic' = panic
    BY <2>1 DEF family, sched, sleep
  <2>7. sealed'[c] /\ \A q \in Pids : q # c => sealed'[q] = sealed[q]
    BY <1>4, <2>1 DEF ExactInv, TableInv, TypeOK
  <2>8. /\ \A d \in Pids : InFrame("zombify", d)' <=> d = p
        /\ \A d \in Pids : ~InFrame("destroy", d)'
        /\ Top'.at = k + 1
    BY <2>2, <2>4, <2>5, <2>6 DEF InFrame, Top
  <2>9. ListsInv'
    <3>1. Doomed' = Doomed \cup {c} /\ c \notin Doomed
      BY <1>1, <1>4, <1>7, <2>7, <2>8 DEF Doomed
    <3>2. to_destroy \in Seq(Pids) /\ Lists(to_destroy, Doomed)
      BY DEF ExactInv, TableInv, TypeOK, ListsInv, DoomedListed
    <3>3. Lists(Append(to_destroy, c), Doomed \cup {c})
      BY <1>4, <3>1, <3>2, ListsAppend
    <3>4. DoomedListed'
      BY <2>1, <3>1, <3>3 DEF DoomedListed
    <3> QED BY <2>6, <3>4 DEF ExactInv, ListsInv, ReadyListed, SleepersListed,
         FreeListed, UndeadListed, InState, Undead
  <2>10. LifeInv'
    BY <1>4, <1>7, <2>6, <2>7 DEF ExactInv, LifeInv
  <2>11. SwitchDue'
    BY <2>2, <2>4, <2>5, <2>6 DEF SwitchDue, Top
  <2>12. StackInv'
    <3>1. \A q \in Pids : WellStacked(kstack'[q])
      BY <2>4, <2>5 DEF ExactInv, StackInv
    <3>2. state[running] # "UNUSED"
      BY DEF ExactInv, LifeInv
    <3>3. \A q \in Pids : state'[q] = "UNUSED" => kstack'[q] = <<>>
      BY <2>5, <2>6, <3>2 DEF ExactInv, StackInv
    <3>4. \A q \in Pids : \A x \in Range(kstack'[q]) : x = g \/ x \in Range(kstack[q])
      BY <2>3, <2>4, <2>5
    <3>5. g.op \notin CallOps \cup {"spin", "boot", "hlt"}
      BY <2>2 DEF CallOps
    <3>6. \A q \in Pids : \A x \in Range(kstack'[q]) :
             /\ x.op \in CallOps \cup {"spin"} => q # 1
             /\ x.op = "spin" => state'[q] = "ZOMBIE"
             /\ x.op \in {"boot", "hlt"} => q = 1
      BY <2>6, <3>4, <3>5 DEF ExactInv, StackInv
    <3> QED BY <1>1, <2>6, <2>8, <3>1, <3>3, <3>6 DEF StackInv
  <2>13. CallsInv'
    <3> SUFFICES ASSUME NEW q \in Pids, state'[q] # "ZOMBIE", NEW x \in Range(kstack'[q])
                 PROVE  CallRight(q, x)'
      BY DEF CallsInv
    <3>1. x.op \in CallOps => x \in Range(kstack[q])
      BY <2>2, <2>3, <2>4, <2>5 DEF CallOps
    <3>2. x.op \in CallOps => CallRight(q, x)
      BY <2>6, <3>1 DEF ExactInv, CallsInv
    <3>3. \A d : Child(q, d) => Child(q, d)'
      BY <1>1, <1>4, <2>6, <2>7 DEF Child
    <3> QED BY <2>6, <3>2, <3>3 DEF CallRight, Woken, CallOps
  <2>14. WaitersHaveWakers'
    BY <1>1, <1>4, <2>6, <2>7, <2>8 DEF ExactInv, WaitersHaveWakers
  <2>15. BlockerInv'
    BY <1>4, <2>6, <2>7 DEF ExactInv, BlockerInv
  <2>16. ChildrenListed'
    BY <1>1, <2>6, <2>8 DEF ExactInv, ChildrenListed, Children
  <2>17. ChildrenGone'
    <3>1. \A d \in Pids : Gone(d) => Gone(d)'
      BY <1>4, <2>6, <2>7 DEF Gone
    <3>2. Gone(c)'
      BY <1>7, <2>6, <2>7 DEF Gone
    <3>3. \A q \in Pids \ {1} : deallocated'[q] /\ ~InFrame("zombify", q)' =>
            \A d \in Range(childs'[q]) : Gone(d)'
      BY <1>1, <1>5, <2>6, <2>8, <3>1 DEF ExactInv, ChildrenGone
    <3>4. \A i \in 1 .. Len(l) : i < k + 1 => Gone(l[i])'
      <4>1. \A i \in 1 .. Len(l) : i < k + 1 => i < k \/ i = k
        BY <1>1
      <4> QED BY <1>0, <1>5, <3>1, <3>2, <4>1
    <3>5. (\A q \in Pids : InFrame("zombify", q) =>
             \A i \in 1 .. Len(childs[q]) : i < Top.at => Gone(childs[q][i]))'
      BY <1>0, <2>6, <2>8, <3>4 DEF Gone
    <3> QED BY <2>6, <3>3, <3>5 DEF ExactInv, ChildrenGone
  <2>18. OnlyKnownStops'
    BY <2>6 DEF ExactInv, OnlyKnownStops
  <2> QED BY <1>2, <2>9, <2>10, <2>11, <2>12, <2>13, <2>14, <2>15, <2>16, <2>17, <2>18 DEF ExactInv
<1>8. CASE ~deallocated[c]
  <2>1. /\ childs' = [childs EXCEPT ![p] = RemoveAt(l, k)]
        /\ father' = [father EXCEPT ![c] = 1]
        /\ UNCHANGED <<life, sched, lists, sleep, clock, waiting_code, kstack, panic>>
    BY <1>0, <1>8 DEF ZombifyChild
  <2>2. /\ pid' = pid /\ state' = state /\ sealed' = sealed /\ to_destroy' = to_destroy
        /\ deallocated' = deallocated /\ queue' = queue /\ priority' = priority
        /\ running' = running /\ to_zombify' = to_zombify /\ free' = free /\ kstack' = kstack
        /\ waiting' = waiting /\ waiting_code' = waiting_code /\ panic' = panic
    BY <2>1 DEF life, sched, lists, sleep
  <2>3. /\ father'[c] = 1 /\ \A q \in Pids : q # c => father'[q] = father[q]
        /\ childs'[p] = RemoveAt(l, k) /\ \A q \in Pids : q # p => childs'[q] = childs[q]
    BY <1>1, <1>4, <2>1 DEF ExactInv, TableInv, TypeOK
  <2>4. /\ \A d \in Pids : InFrame("zombify", d)' <=> d = p
        /\ \A d \in Pids : ~InFrame("destroy", d)'
        /\ Top' = Top
    BY <1>1, <2>2 DEF InFrame, Top
  <2>5. ListsInv'
    BY <1>1, <2>2, <2>4 DEF ExactInv, ListsInv, ReadyListed, SleepersListed,
         FreeListed, UndeadListed, DoomedListed, InState, Undead, Doomed
  <2>6. LifeInv'
    <3>1. 1 \in Pids
      BY DEF Pids
    <3> QED BY <1>4, <2>2, <2>3, <3>1 DEF ExactInv, LifeInv
  <2>7. SwitchDue'
    BY <2>2, <2>4 DEF ExactInv, SwitchDue
  <2>8. StackInv'
    BY <1>1, <2>2, <2>4 DEF ExactInv, StackInv
  <2>9. CallsInv'
    <3> SUFFICES ASSUME NEW q \in Pids, state'[q] # "ZOMBIE", NEW x \in Range(kstack'[q])
                 PROVE  CallRight(q, x)'
      BY DEF CallsInv
    <3>1. CallRight(q, x)
      BY <2>2 DEF ExactInv, CallsInv
    <3>2. \A d : Child(q, d) => Child(q, d)'
      BY <1>1, <1>4, <2>2, <2>3 DEF Child
    <3> QED BY <2>2, <3>1, <3>2 DEF CallRight, Woken
  <2>10. WaitersHaveWakers'
    BY <1>1, <1>4, <2>2, <2>3, <2>4 DEF ExactInv, WaitersHaveWakers
  <2>11. BlockerInv'
    BY <1>1, <1>4, <2>2, <2>3 DEF ExactInv, BlockerInv, LifeInv
  <2>12. ChildrenListed'
    <3>1. Children(p)' = Children(p) \ {c}
      BY <1>1, <1>4, <2>2, <2>3, <2>4 DEF Children
    <3>2. \A q \in Pids \ {1, p} : Children(q)' = Children(q)
      BY <1>1, <1>4, <2>2, <2>3, <2>4 DEF Children
    <3>3. Lists(RemoveAt(l, k), Children(p) \ {l[k]})
      BY <1>3, ListsRemoveAt
    <3>4. Lists(childs'[p], Children(p)')
      BY <1>0, <2>3, <3>1, <3>3
    <3> QED BY <2>3, <3>2, <3>4 DEF ExactInv, ChildrenListed
  <2>13. ChildrenGone'
    <3>1. \A d \in Pids : Gone(d) => Gone(d)'
      BY <2>2 DEF Gone
    <3>2. \A q \in Pids \ {1} : deallocated'[q] /\ ~InFrame("zombify", q)' =>
            \A d \in Range(childs'[q]) : Gone(d)'
      BY <1>1, <1>5, <2>2, <2>3, <2>4, <3>1 DEF ExactInv, ChildrenGone
    <3>3. /\ Len(RemoveAt(l, k)) = Len(l) - 1
          /\ \A i \in 1 .. Len(l) - 1 : i < k => RemoveAt(l, k)[i] = l[i]
      BY <1>3, RemoveAtProperties
    <3>4. Len(l) \in Nat
      BY <1>3, LenProperties
    <3>5. \A i \in 1 .. Len(RemoveAt(l, k)) : i < k => Gone(RemoveAt(l, k)[i])'
      BY <1>5, <3>1, <3>3, <3>4
    <3>6. (\A q \in Pids : InFrame("zombify", q) =>
             \A i \in 1 .. Len(childs[q]) : i < Top.at => Gone(childs[q][i]))'
      BY <1>0, <2>3, <2>4, <3>5 DEF Gone
    <3>7. \A q \in Pids : state'[q] = "UNUSED" => childs'[q] = <<>>
      BY <1>1, <2>2, <2>3 DEF ExactInv, ChildrenGone
    <3> QED BY <3>2, <3>6, <3>7 DEF ChildrenGone
  <2>14. OnlyKnownStops'
    BY <2>2 DEF ExactInv, OnlyKnownStops
  <2> QED BY <1>2, <2>5, <2>6, <2>7, <2>8, <2>9, <2>10, <2>11, <2>12, <2>13, <2>14 DEF ExactInv
<1> QED BY <1>6, <1>7, <1>8

(* The kernel stacks after a step that leaves no zombify() and no destroy() *)
(* on top of them.                                                          *)
LEMMA StackStep ==
  ASSUME ExactInv, Calm', NEW s \in Seq(Frames), WellStacked(s), running \in Pids,
         kstack'[running] = s, \A q \in Pids : q # running => kstack'[q] = kstack[q],
         \A x \in Range(s) : \/ x \in Range(kstack[running])
                             \/ /\ x.op \in CallOps \cup {"spin"} => running # 1
                                /\ x.op = "spin" => state'[running] = "ZOMBIE"
                                /\ x.op \in {"boot", "hlt"} => running = 1,
         state'[running] # "UNUSED",
         \A q \in Pids : state'[q] = "UNUSED" => state[q] = "UNUSED",
         \A q \in Pids : state[q] = "ZOMBIE" => state'[q] = "ZOMBIE"
  PROVE  StackInv'
<1>1. \A q \in Pids : WellStacked(kstack'[q])
  BY DEF ExactInv, StackInv
<1>2. \A q \in Pids : state'[q] = "UNUSED" => kstack'[q] = <<>>
  BY DEF ExactInv, StackInv
<1>3. \A q \in Pids : \A x \in Range(kstack'[q]) :
        /\ x.op \in CallOps \cup {"spin"} => q # 1
        /\ x.op = "spin" => state'[q] = "ZOMBIE"
        /\ x.op \in {"boot", "hlt"} => q = 1
  BY DEF ExactInv, StackInv
<1> QED BY <1>1, <1>2, <1>3 DEF StackInv, Calm

(* A call stays right as long as its child stays what it is, and the calling *)
(* process is not woken without it.                                          *)
LEMMA CallsKept ==
  ASSUME ExactInv,
         \A q \in Pids : state'[q] # "ZOMBIE" =>
           \A x \in Range(kstack'[q]) : x.op \in CallOps =>
             /\ state[q] # "ZOMBIE" /\ x \in Range(kstack[q])
             /\ \A d \in Pids : Child(q, d) => /\ Child(q, d)'
                                               /\ state[d] = "ZOMBIE" => state'[d] = "ZOMBIE"
             /\ Woken(q) => Woken(q)'
             /\ state[q] = "BLOCKED_BY_CHILD" => state'[q] = "BLOCKED_BY_CHILD"
             /\ waiting_code'[q] = waiting_code[q]
  PROVE  CallsInv'
<1> SUFFICES ASSUME NEW q \in Pids, state'[q] # "ZOMBIE", NEW x \in Range(kstack'[q])
             PROVE  CallRight(q, x)'
  BY DEF CallsInv
<1>1. CASE x.op \in CallOps
  <2>1. /\ state[q] # "ZOMBIE" /\ x \in Range(kstack[q])
        /\ \A d \in Pids : Child(q, d) => /\ Child(q, d)'
                                          /\ state[d] = "ZOMBIE" => state'[d] = "ZOMBIE"
        /\ Woken(q) => Woken(q)'
        /\ state[q] = "BLOCKED_BY_CHILD" => state'[q] = "BLOCKED_BY_CHILD"
        /\ waiting_code'[q] = waiting_code[q]
    BY <1>1
  <2>2. CallRight(q, x)
    BY <2>1 DEF ExactInv, CallsInv
  <2>3. \A d : Child(q, d) => d \in Pids
    BY DEF Child
  <2> QED BY <2>1, <2>2, <2>3 DEF CallRight
<1>2. CASE x.op \notin CallOps
  BY <1>2 DEF CallRight, CallOps
<1> QED BY <1>1, <1>2

(* The rest of zombify(): what the two cases have in common. *)
LEMMA ZombifyEndParts ==
  ASSUME ExactInv, ZombifyEnd, NEW p, NEW f, p = Top.arg, f = father[p]
  PROVE  /\ TableInv' /\ Calm' /\ running \in Pids
         /\ p \in Pids \ {1, running} /\ f \in Pids
         /\ state[p] = "ZOMBIE" /\ deallocated[p]
         /\ \A c \in Pids : InFrame("zombify", c) <=> c = p
         /\ \A c \in Pids : ~InFrame("destroy", c)
         /\ father' = father /\ childs' = childs /\ pid' = pid /\ deallocated' = deallocated
         /\ priority' = priority /\ running' = running /\ to_zombify' = to_zombify
         /\ free' = free /\ waiting' = waiting /\ panic' = panic
         /\ Top'.op = "schedule" /\ kstack'[running] # <<>>
         /\ \A q \in Pids : q # running => kstack'[q] = kstack[q]
         /\ \A x \in Range(kstack'[running]) : x \in Range(kstack[running]) \/ x = Schedule
         /\ \A c \in Range(childs[p]) : Gone(c)
         /\ state'[running] # "UNUSED"
              /\ (\A q \in Pids : /\ state'[q] = "UNUSED" => state[q] = "UNUSED"
                                  /\ state[q] = "ZOMBIE" => state'[q] = "ZOMBIE") => StackInv'
<1>1. /\ kstack[running] # <<>> /\ running \in Pids /\ Top \in Frames
      /\ p \in Pids \ {1, running} /\ Top.at \in Nat \ {0}
      /\ state[p] = "ZOMBIE" /\ deallocated[p] /\ f \in Pids
      /\ \A c \in Pids : InFrame("zombify", c) <=> c = p
      /\ \A c \in Pids : ~InFrame("destroy", c)
  BY InZombify DEF ZombifyEnd
<1>2. TableInv'
  BY ZombifyEndInv DEF ExactInv
<1>3. PICK r, s : r = Tail(kstack[running]) /\ s = <<Schedule>> \o r
  OBVIOUS
<1>4. /\ r \in Seq(Frames) /\ WellStacked(r) /\ Range(r) \subseteq Range(kstack[running])
      /\ kstack \in [Pids -> Seq(Frames)]
  BY <1>1, <1>3, RunningShape
<1>5. /\ s \in Seq(Frames) /\ s # <<>> /\ Head(s) = Schedule
      /\ Range(s) = Range(r) \cup {Schedule} /\ WellStacked(s)
  BY <1>3, <1>4, ScheduleType, PushedStack DEF Bottoms
<1>6. /\ father' = father /\ childs' = childs /\ pid' = pid /\ deallocated' = deallocated
      /\ priority' = priority /\ running' = running /\ to_zombify' = to_zombify
      /\ free' = free /\ waiting' = waiting /\ panic' = panic
      /\ kstack' = [kstack EXCEPT ![running] = s]
  BY <1>3 DEF ZombifyEnd, Replace, family, sleep
<1>7. kstack'[running] = s /\ \A q \in Pids : q # running => kstack'[q] = kstack[q]
  BY <1>1, <1>4, <1>6
<1>8. Top'.op = "schedule" /\ kstack'[running] # <<>>
  BY <1>5, <1>6, <1>7, ScheduleType DEF Top
<1>9. Calm'
  BY <1>5, <1>6, <1>7, ScheduleType, CalmNext
<1>10. \A c \in Range(childs[p]) : Gone(c)
  <2>1. childs[p] \in Seq(Pids) /\ Top.at > Len(childs[p]) /\ Len(childs[p]) \in Nat
    BY <1>1, LenProperties DEF ZombifyEnd, ExactInv, TableInv, TypeOK
  <2>2. \A i \in 1 .. Len(childs[p]) : i < Top.at
    BY <1>1, <2>1
  <2>3. \A i \in 1 .. Len(childs[p]) : Gone(childs[p][i])
    BY <1>1, <2>2 DEF ExactInv, ChildrenGone
  <2> QED BY <2>1, <2>3, RangeMember
<1>11. ASSUME state'[running] # "UNUSED",
              \A q \in Pids : /\ state'[q] = "UNUSED" => state[q] = "UNUSED"
                              /\ state[q] = "ZOMBIE" => state'[q] = "ZOMBIE"
       PROVE  StackInv'
  <2>1. \A x \in Range(s) : \/ x \in Range(kstack[running])
                            \/ /\ x.op \in CallOps \cup {"spin"} => running # 1
                               /\ x.op = "spin" => state'[running] = "ZOMBIE"
                               /\ x.op \notin {"boot", "hlt"}
    BY <1>4, <1>5, ScheduleType DEF CallOps
  <2> QED BY <1>1, <1>5, <1>7, <1>9, <1>11, <2>1, StackStep
<1> QED BY <1>1, <1>2, <1>4, <1>5, <1>6, <1>7, <1>8, <1>9, <1>10, <1>11

(* The father is waiting: it is woken, and not sealed with the child. *)
LEMMA ZombifyWakesExact ==
  ASSUME ExactInv, ZombifyEnd, NEW p, NEW f, p = Top.arg, f = father[p], Awaits(f, p)
  PROVE  ExactInv'
<1>1. /\ TableInv' /\ Calm' /\ running \in Pids
      /\ p \in Pids \ {1, running} /\ f \in Pids
      /\ state[p] = "ZOMBIE" /\ deallocated[p]
      /\ \A c \in Pids : InFrame("zombify", c) <=> c = p
      /\ \A c \in Pids : ~InFrame("destroy", c)
      /\ father' = father /\ childs' = childs /\ pid' = pid /\ deallocated' = deallocated
      /\ priority' = priority /\ running' = running /\ to_zombify' = to_zombify
      /\ free' = free /\ waiting' = waiting /\ panic' = panic
      /\ Top'.op = "schedule" /\ kstack'[running] # <<>>
  BY ZombifyEndParts
<1>2. /\ \A q \in Pids : q # running => kstack'[q] = kstack[q]
      /\ \A x \in Range(kstack'[running]) : x \in Range(kstack[running]) \/ x = Schedule
      /\ \A c \in Range(childs[p]) : Gone(c)
  BY ZombifyEndParts
<1>3. /\ state[f] = "BLOCKED_BY_CHILD" /\ ~sealed[p] /\ waiting_code[f] \in {-1, p}
  <2>1. waiting_code[f] \in 0 .. N \cup {-1}
    BY <1>1 DEF ExactInv, TableInv, TypeOK
  <2> QED BY <2>1 DEF Awaits
<1>4. f # running /\ f # 1 /\ f # p
  BY <1>1, <1>3 DEF ExactInv, BlockerInv, LifeInv
<1>5. /\ waiting_code' = [waiting_code EXCEPT ![f] = p]
      /\ state' = [state EXCEPT ![f] = "WAITING"]
      /\ queue' = QueueAdd(queue, priority, f)
      /\ sealed' = sealed /\ to_destroy' = to_destroy
  BY <1>3, <1>4 DEF ZombifyEnd
<1>6. /\ state'[f] = "WAITING" /\ \A q \in Pids : q # f => state'[q] = state[q]
      /\ waiting_code'[f] = p /\ \A q \in Pids : q # f => waiting_code'[q] = waiting_code[q]
  BY <1>1, <1>5 DEF ExactInv, TableInv, TypeOK
<1>7. ListsInv'
  <2>1. /\ queue \in Seq(Pids) /\ priority \in [Pids -> Int]
        /\ Lists(queue, InState("WAITING")) /\ Sorted(queue, priority)
    BY PriorityType DEF ExactInv, TableInv, TypeOK, ListsInv, ReadyListed
  <2>2. f \notin InState("WAITING") /\ InState("WAITING")' = InState("WAITING") \cup {f}
    BY <1>1, <1>3, <1>6 DEF InState
  <2>3. /\ Lists(QueueAdd(queue, priority, f), InState("WAITING") \cup {f})
        /\ Sorted(QueueAdd(queue, priority, f), priority)
    BY <1>1, <2>1, <2>2, QueueAddExact
  <2>4. ReadyListed'
    BY <1>1, <1>5, <2>2, <2>3 DEF ReadyListed
  <2>5. /\ InState("SLEEPING")' = InState("SLEEPING") /\ InState("UNUSED")' = InState("UNUSED")
        /\ Undead' = Undead /\ Doomed' = Doomed
    BY <1>1, <1>3, <1>5, <1>6 DEF InState, Undead, Doomed, Calm
  <2> QED BY <1>1, <1>5, <2>4, <2>5 DEF ExactInv, ListsInv, SleepersListed, FreeListed,
       UndeadListed, DoomedListed
<1>8. LifeInv'
  BY <1>1, <1>3, <1>4, <1>5, <1>6 DEF ExactInv, LifeInv
<1>9. SwitchDue'
  BY <1>1 DEF SwitchDue
<1>10. StackInv'
  <2>1. state[running] # "UNUSED"
    BY DEF ExactInv, LifeInv
  <2> QED BY <1>1, <1>3, <1>4, <1>6, <2>1, ZombifyEndParts
<1>11. CallsInv'
  <2> SUFFICES ASSUME NEW q \in Pids, state'[q] # "ZOMBIE", NEW x \in Range(kstack'[q])
               PROVE  CallRight(q, x)'
    BY DEF CallsInv
  <2>1. x.op \in CallOps => x \in Range(kstack[q])
    BY <1>2, ScheduleType DEF CallOps
  <2>2. x.op \in CallOps => CallRight(q, x)
    BY <1>3, <1>6, <2>1 DEF ExactInv, CallsInv
  <2>3. \A d : Child(q, d) => /\ Child(q, d)'
                              /\ state[d] = "ZOMBIE" => state'[d] = "ZOMBIE"
    BY <1>1, <1>3, <1>5, <1>6 DEF Child
  <2>4. CASE q # f
    BY <1>6, <2>2, <2>3, <2>4 DEF CallRight, CallOps, Woken
  <2>5. CASE q = f
    <3>1. Child(q, p)' /\ state'[p] = "ZOMBIE" /\ Woken(q)'
      BY <1>1, <1>3, <1>4, <1>5, <1>6, <2>5 DEF Child, Woken
    <3>2. ~Woken(q) /\ -1 \notin Pids
      BY <1>3, <2>5 DEF Woken, Pids
    <3>3. x.op = "waitpid" => x.arg = p
      BY <1>3, <2>2, <2>5, <3>2 DEF CallRight, CallOps, Child
    <3>4. x.op = "start" => Child(q, x.arg)'
      BY <2>2, <2>3 DEF CallRight, CallOps
    <3> QED BY <1>6, <2>5, <3>1, <3>3, <3>4 DEF CallRight
  <2> QED BY <2>4, <2>5
<1>12. WaitersHaveWakers'
  <2> SUFFICES ASSUME NEW q \in Pids, state'[q] = "BLOCKED_BY_CHILD"
               PROVE  (\E c \in Pids : /\ father[c] = q /\ ~sealed[c]
                                       /\ waiting_code[q] \in {-1, c}
                                       /\ state[c] # "UNUSED"
                                       /\ deallocated[c] => InFrame("zombify", c))'
    BY DEF WaitersHaveWakers
  <2>1. q # f /\ state[q] = "BLOCKED_BY_CHILD"
    BY <1>6
  <2>2. PICK c \in Pids : /\ father[c] = q /\ ~sealed[c]
                          /\ waiting_code[q] \in {-1, c}
                          /\ state[c] # "UNUSED"
                          /\ deallocated[c] => InFrame("zombify", c)
    BY <2>1 DEF ExactInv, WaitersHaveWakers
  <2>3. c # p /\ ~deallocated[c]
    BY <1>1, <2>1, <2>2
  <2> QED BY <1>1, <1>5, <1>6, <2>1, <2>2, <2>3
<1>13. BlockerInv'
  BY <1>1, <1>3, <1>4, <1>5, <1>6 DEF ExactInv, BlockerInv
<1>14. ChildrenListed'
  <2>1. \A q \in Pids : Children(q)' = Children(q)
    BY <1>1, <1>3, <1>5, <1>6 DEF Children, Calm
  <2> QED BY <1>1, <2>1 DEF ExactInv, ChildrenListed
<1>15. ChildrenGone'
  BY <1>1, <1>2, <1>3, <1>5, <1>6 DEF ExactInv, ChildrenGone, Calm, Gone
<1>16. OnlyKnownStops'
  BY <1>1 DEF ExactInv, OnlyKnownStops
<1> QED BY <1>1, <1>7, <1>8, <1>9, <1>10, <1>11, <1>12, <1>13, <1>14, <1>15, <1>16 DEF ExactInv

(* The father is not waiting: the child is sealed if nobody will wait for it. *)
LEMMA ZombifySealsExact ==
  ASSUME ExactInv, ZombifyEnd, NEW p, NEW f, p = Top.arg, f = father[p], ~Awaits(f, p)
  PROVE  ExactInv'
<1>1. /\ TableInv' /\ Calm' /\ running \in Pids
      /\ p \in Pids \ {1, running} /\ f \in Pids
      /\ state[p] = "ZOMBIE" /\ deallocated[p]
      /\ \A c \in Pids : InFrame("zombify", c) <=> c = p
      /\ \A c \in Pids : ~InFrame("destroy", c)
      /\ father' = father /\ childs' = childs /\ pid' = pid /\ deallocated' = deallocated
      /\ priority' = priority /\ running' = running /\ to_zombify' = to_zombify
      /\ free' = free /\ waiting' = waiting /\ panic' = panic
      /\ Top'.op = "schedule" /\ kstack'[running] # <<>>
  BY ZombifyEndParts
<1>2. /\ \A q \in Pids : q # running => kstack'[q] = kstack[q]
      /\ \A x \in Range(kstack'[running]) : x \in Range(kstack[running]) \/ x = Schedule
      /\ \A c \in Range(childs[p]) : Gone(c)
  BY ZombifyEndParts
<1>3. waiting_code' = waiting_code /\ state' = state /\ queue' = queue
  BY DEF ZombifyEnd
<1>4. /\ \A q \in Pids : q # p => sealed'[q] = sealed[q]
      /\ sealed[p] => sealed'[p]
      /\ sealed'[p] => sealed[p] \/ state[f] = "ZOMBIE" \/ f = 1
      /\ DoomedListed'
  <2>1. CASE ~sealed[p] /\ (state[f] = "ZOMBIE" \/ f = 1)
    <3>1. sealed' = [sealed EXCEPT ![p] = TRUE] /\ to_destroy' = Append(to_destroy, p)
      BY <2>1 DEF ZombifyEnd, RequestDestroy
    <3>2. sealed'[p] /\ \A q \in Pids : q # p => sealed'[q] = sealed[q]
      BY <1>1, <3>1 DEF ExactInv, TableInv, TypeOK
    <3>3. p \notin Doomed /\ Doomed' = Doomed \cup {p}
      BY <1>1, <2>1, <3>2 DEF Doomed, Calm
    <3>4. to_destroy \in Seq(Pids) /\ Lists(to_destroy, Doomed)
      BY DEF ExactInv, TableInv, TypeOK, ListsInv, DoomedListed
    <3>5. Lists(Append(to_destroy, p), Doomed \cup {p})
      BY <1>1, <3>3, <3>4, ListsAppend
    <3>6. DoomedListed'
      BY <3>1, <3>3, <3>5 DEF DoomedListed
    <3> QED BY <2>1, <3>2, <3>6
  <2>2. CASE ~(~sealed[p] /\ (state[f] = "ZOMBIE" \/ f = 1))
    <3>1. sealed' = sealed /\ to_destroy' = to_destroy
      BY <2>2 DEF ZombifyEnd
    <3>2. Doomed' = Doomed
      BY <1>1, <3>1 DEF Doomed, Calm
    <3> QED BY <3>1, <3>2 DEF ExactInv, ListsInv, DoomedListed
  <2> QED BY <2>1, <2>2
<1>5. ListsInv'
  <2>1. /\ InState("WAITING")' = InState("WAITING") /\ InState("SLEEPING")' = InState("SLEEPING")
        /\ InState("UNUSED")' = InState("UNUSED") /\ Undead' = Undead
    BY <1>1, <1>3 DEF InState, Undead
  <2> QED BY <1>1, <1>3, <1>4, <2>1 DEF ExactInv, ListsInv, ReadyListed, SleepersListed,
       FreeListed, UndeadListed
<1>6. LifeInv'
  BY <1>1, <1>3, <1>4 DEF ExactInv, LifeInv
<1>7. SwitchDue'
  BY <1>1 DEF SwitchDue
<1>8. StackInv'
  <2>1. state[running] # "UNUSED"
    BY DEF ExactInv, LifeInv
  <2> QED BY <1>1, <1>3, <2>1, ZombifyEndParts
<1>9. CallsInv'
  <2>1. ASSUME NEW q \in Pids, state'[q] # "ZOMBIE", NEW x \in Range(kstack'[q]),
               x.op \in CallOps
        PROVE  /\ state[q] # "ZOMBIE" /\ x \in Range(kstack[q])
               /\ \A d \in Pids : Child(q, d) => Child(q, d)'
               /\ Woken(q) => Woken(q)'
    <3>1. x \in Range(kstack[q])
      BY <1>2, <2>1, ScheduleType DEF CallOps
    <3>2. q # 1
      BY <2>1, <3>1 DEF ExactInv, StackInv
    <3>3. \A d \in Pids : Child(q, d) => Child(q, d)'
      BY <1>1, <1>3, <1>4, <2>1, <3>2 DEF Child
    <3> QED BY <1>3, <2>1, <3>1, <3>3 DEF Woken
  <2> QED BY <1>3, <2>1, CallsKept
<1>10. WaitersHaveWakers'
  <2> SUFFICES ASSUME NEW q \in Pids, state'[q] = "BLOCKED_BY_CHILD"
               PROVE  (\E c \in Pids : /\ father[c] = q /\ ~sealed[c]
                                       /\ waiting_code[q] \in {-1, c}
                                       /\ state[c] # "UNUSED"
                                       /\ deallocated[c] => InFrame("zombify", c))'
    BY DEF WaitersHaveWakers
  <2>1. PICK c \in Pids : /\ father[c] = q /\ ~sealed[c]
                          /\ waiting_code[q] \in {-1, c}
                          /\ state[c] # "UNUSED"
                          /\ deallocated[c] => InFrame("zombify", c)
    BY <1>3 DEF ExactInv, WaitersHaveWakers
  <2>2. c # p
    <3> SUFFICES ASSUME c = p PROVE FALSE
      OBVIOUS
    <3>1. -1 < 0
      OBVIOUS
    <3> QED BY <1>3, <2>1, <3>1 DEF Awaits
  <2> QED BY <1>1, <1>3, <1>4, <2>1, <2>2
<1>11. BlockerInv'
  BY <1>1, <1>3, <1>4 DEF ExactInv, BlockerInv
<1>12. ChildrenListed'
  <2>1. \A q \in Pids : Children(q)' = Children(q)
    BY <1>1, <1>3 DEF Children, Calm
  <2> QED BY <1>1, <2>1 DEF ExactInv, ChildrenListed
<1>13. ChildrenGone'
  <2>1. \A c \in Pids : Gone(c) => Gone(c)'
    BY <1>1, <1>4 DEF Gone
  <2>2. \A q \in Pids : childs[q] \in Seq(Pids)
    BY DEF ExactInv, TableInv, TypeOK
  <2>3. \A q \in Pids : Range(childs[q]) \subseteq Pids
    BY <2>2, RangeMember
  <2>4. \A q \in Pids \ {1} : deallocated'[q] => \A c \in Range(childs'[q]) : Gone(c)'
    BY <1>1, <1>2, <2>1, <2>3 DEF ExactInv, ChildrenGone
  <2> QED BY <1>1, <1>3, <2>4 DEF ExactInv, ChildrenGone, Calm
<1>14. OnlyKnownStops'
  BY <1>1 DEF ExactInv, OnlyKnownStops
<1> QED BY <1>1, <1>5, <1>6, <1>7, <1>8, <1>9, <1>10, <1>11, <1>12, <1>13, <1>14 DEF ExactInv

LEMMA ZombifyEndExact ==
  ASSUME ExactInv, ZombifyEnd
  PROVE  ExactInv'
<1>1. PICK p, f : p = Top.arg /\ f = father[p]
  OBVIOUS
<1> QED BY <1>1, ZombifyWakesExact, ZombifySealsExact

(* destroy() is only entered for a process whose stacks zombify() has freed, *)
(* since clean_processes() empties the other list first.                     *)
LEMMA CleanDestroyExact ==
  ASSUME ExactInv, CleanDestroy
  PROVE  ExactInv'
<1>0. PICK p, d, f, old, s : /\ p = Picked(to_destroy) /\ d = father[p]
                             /\ f = Frame("destroy", p) /\ old = kstack[running]
                             /\ s = <<f>> \o old
  OBVIOUS
<1>1. /\ kstack[running] # <<>> /\ Top.op = "schedule" /\ ~CanPick(to_zombify)
      /\ CanPick(to_destroy) /\ running \in Pids
      /\ to_destroy \in Seq(Pids) /\ to_zombify \in Seq(Pids)
  BY DEF CleanDestroy, InKernel, ExactInv, TableInv, TypeOK
<1>2. TableInv'
  BY CleanDestroyInv DEF ExactInv
<1>3. Lists(to_destroy, Doomed) /\ Lists(to_zombify, Undead)
  BY DEF ExactInv, ListsInv, DoomedListed, UndeadListed
<1>4. p \in Doomed /\ p # running /\ Lists(Unpicked(to_destroy), Doomed \ {p})
  BY <1>0, <1>1, <1>3, PickedExact
<1>5. p \in Pids /\ sealed[p] /\ state[p] = "ZOMBIE" /\ p # 1 /\ d \in Pids
  BY <1>0, <1>4 DEF Doomed, ExactInv, LifeInv
<1>6. deallocated[p]
  <2>1. p \notin Undead
    BY <1>1, <1>3, <1>4, PickedExact
  <2> QED BY <1>5, <2>1 DEF Undead
<1>7. /\ to_destroy' = Unpicked(to_destroy)
      /\ childs' = [childs EXCEPT ![d] = Without(@, p)]
      /\ kstack' = [kstack EXCEPT ![running] = s]
      /\ UNCHANGED <<father, life, sched, to_zombify, free, sleep, clock, waiting_code, panic>>
  BY <1>0, <1>4, <1>5 DEF CleanDestroy, Push
<1>8. f \in Frames /\ f.op = "destroy" /\ f.arg = p
  <2>1. "destroy" \in Ops /\ p \in 0 .. N
    BY <1>5 DEF Ops, Pids
  <2> QED BY <1>0, <2>1, FrameType
<1>9. kstack \in [Pids -> Seq(Frames)] /\ old \in Seq(Frames) /\ WellStacked(old)
  BY <1>0, RunningShape
<1>10. s \in Seq(Frames) /\ s # <<>> /\ Head(s) = f /\ Range(s) = Range(old) \cup {f} /\ WellStacked(s)
  <2>1. old # <<>> /\ Head(old).op = "schedule"
    BY <1>0, <1>1 DEF Top
  <2>2. f.op \notin Bottoms
    BY <1>8 DEF Bottoms
  <2> QED BY <1>0, <1>8, <1>9, <2>1, <2>2, PushedStack
<1>11. kstack'[running] = s /\ \A q \in Pids : q # running => kstack'[q] = kstack[q]
  BY <1>1, <1>7, <1>9
<1>12. /\ father' = father /\ pid' = pid /\ state' = state /\ deallocated' = deallocated
       /\ sealed' = sealed /\ queue' = queue /\ priority' = priority /\ running' = running
       /\ to_zombify' = to_zombify /\ free' = free /\ waiting' = waiting
       /\ waiting_code' = waiting_code /\ panic' = panic
  BY <1>7 DEF life, sched, sleep
<1>13. /\ childs'[d] = Without(childs[d], p) /\ \A q \in Pids : q # d => childs'[q] = childs[q]
       /\ childs[d] \in Seq(Pids)
  BY <1>5, <1>7 DEF ExactInv, TableInv, TypeOK
<1>14. Calm
  BY <1>1, CalmNow
<1>15. /\ \A c \in Pids : InFrame("destroy", c)' <=> c = p
       /\ \A c \in Pids : ~InFrame("zombify", c)'
  BY <1>8, <1>10, <1>11, <1>12 DEF InFrame, Top
<1>16. ListsInv'
  <2>1. Doomed' = Doomed \ {p}
    BY <1>5, <1>12, <1>14, <1>15 DEF Doomed, Calm
  <2>2. DoomedListed'
    BY <1>4, <1>7, <2>1 DEF DoomedListed
  <2> QED BY <1>12, <2>2 DEF ExactInv, ListsInv, ReadyListed, SleepersListed,
       FreeListed, UndeadListed, InState, Undead
<1>17. LifeInv'
  BY <1>12 DEF ExactInv, LifeInv
<1>18. SwitchDue'
  BY <1>8, <1>10, <1>11, <1>12 DEF SwitchDue, Top
<1>19. StackInv'
  <2>1. \A q \in Pids : WellStacked(kstack'[q])
    BY <1>10, <1>11 DEF ExactInv, StackInv
  <2>2. state[running] # "UNUSED"
    BY DEF ExactInv, LifeInv
  <2>3. \A q \in Pids : state'[q] = "UNUSED" => kstack'[q] = <<>>
    BY <1>11, <1>12, <2>2 DEF ExactInv, StackInv
  <2>4. \A q \in Pids : \A x \in Range(kstack'[q]) : x = f \/ x \in Range(kstack[q])
    BY <1>0, <1>10, <1>11
  <2>5. f.op \notin CallOps \cup {"spin", "boot", "hlt"}
    BY <1>8 DEF CallOps
  <2>6. \A q \in Pids : \A x \in Range(kstack'[q]) :
          /\ x.op \in CallOps \cup {"spin"} => q # 1
          /\ x.op = "spin" => state'[q] = "ZOMBIE"
          /\ x.op \in {"boot", "hlt"} => q = 1
    BY <1>12, <2>4, <2>5 DEF ExactInv, StackInv
  <2> QED BY <1>5, <1>6, <1>12, <1>15, <2>1, <2>3, <2>6 DEF StackInv
<1>20. CallsInv'
  <2>1. \A q \in Pids : \A x \in Range(kstack'[q]) : x.op \in CallOps => x \in Range(kstack[q])
    BY <1>0, <1>8, <1>10, <1>11 DEF CallOps
  <2>2. \A q, c \in Pids : Child(q, c) => Child(q, c)'
    BY <1>12 DEF Child
  <2>3. \A q \in Pids : Woken(q) => Woken(q)'
    BY <1>12 DEF Woken
  <2> QED BY <1>12, <2>1, <2>2, <2>3, CallsKept
<1>21. WaitersHaveWakers'
  BY <1>12, <1>14, <1>15 DEF ExactInv, WaitersHaveWakers, Calm
<1>22. BlockerInv'
  BY <1>12 DEF ExactInv, BlockerInv
<1>23. ChildrenListed'
  <2>1. \A q \in Pids : q # d => Children(q)' = Children(q)
    BY <1>0, <1>12, <1>14, <1>15 DEF Children, Calm
  <2>2. Children(d)' = Children(d) \ {p}
    BY <1>0, <1>12, <1>14, <1>15 DEF Children, Calm
  <2>3. d # 1 => Lists(childs'[d], Children(d)')
    <3> SUFFICES ASSUME d # 1 PROVE Lists(childs'[d], Children(d)')
      OBVIOUS
    <3>1. Lists(childs[d], Children(d))
      BY <1>5 DEF ExactInv, ChildrenListed
    <3>2. Lists(Without(childs[d], p), Children(d) \ {p})
      BY <1>13, <3>1, WithoutExact
    <3> QED BY <1>13, <2>2, <3>2
  <2> QED BY <1>13, <2>1, <2>3 DEF ExactInv, ChildrenListed
<1>24. ChildrenGone'
  <2>1. \A q \in Pids : state'[q] = "UNUSED" => childs'[q] = <<>>
    <3>1. childs[d] = <<>> => childs'[d] = <<>>
      BY <1>13 DEF Without
    <3> QED BY <1>12, <1>13, <3>1 DEF ExactInv, ChildrenGone
  <2>2. \A q \in Pids \ {1} : Range(childs'[q]) \subseteq Range(childs[q])
    <3>1. \A q \in Pids \ {1} : Range(childs[q]) = Children(q) /\ Range(childs'[q]) = Children(q)'
      BY <1>23 DEF ExactInv, ChildrenListed, Lists
    <3>2. \A q \in Pids \ {1} : Children(q)' \subseteq Children(q)
      BY <1>12, <1>14 DEF Children, Calm
    <3> QED BY <3>1, <3>2
  <2>3. \A q \in Pids \ {1} : deallocated'[q] => \A c \in Range(childs'[q]) : Gone(c)'
    BY <1>12, <1>14, <2>2 DEF ExactInv, ChildrenGone, Calm, Gone
  <2> QED BY <1>15, <2>1, <2>3 DEF ChildrenGone
<1>25. OnlyKnownStops'
  BY <1>12 DEF ExactInv, OnlyKnownStops
<1> QED BY <1>2, <1>16, <1>17, <1>18, <1>19, <1>20, <1>21, <1>22, <1>23, <1>24, <1>25 DEF ExactInv

(* The children that are left to a process that is destroyed are all sealed. *)
LEMMA DestroyChildExact ==
  ASSUME ExactInv, DestroyChild
  PROVE  ExactInv'
<1>1. PICK p : p = Top.arg
  OBVIOUS
<1>2. p \in Pids \ {1, running} /\ deallocated[p] /\ ~InFrame("zombify", p)
  BY <1>1, InDestroy DEF DestroyChild
<1>3. childs[p] \in Seq(Pids) /\ childs[p] # <<>>
  BY <1>1, <1>2 DEF DestroyChild, ExactInv, TableInv, TypeOK
<1>4. Head(childs[p]) \in Range(childs[p])
  BY <1>3, RangeTail
<1>5. Gone(Head(childs[p]))
  BY <1>2, <1>4 DEF ExactInv, ChildrenGone
<1>6. panic = None /\ Fail("request_destroy")
  BY <1>1, <1>5 DEF DestroyChild, InKernel, Gone
<1> QED BY <1>6, FailExact

LEMMA DestroyEndExact ==
  ASSUME ExactInv, DestroyEnd
  PROVE  ExactInv'
<1>0. PICK p, s : p = Top.arg /\ s = Tail(kstack[running])
  OBVIOUS
<1>1. /\ kstack[running] # <<>> /\ running \in Pids /\ Top.op = "destroy"
      /\ p \in Pids \ {1, running} /\ state[p] = "ZOMBIE" /\ deallocated[p] /\ sealed[p]
      /\ \A c \in Pids : InFrame("destroy", c) <=> c = p
      /\ \A c \in Pids : ~InFrame("zombify", c)
  BY <1>0, InDestroy DEF DestroyEnd
<1>2. TableInv'
  BY DestroyEndInv DEF ExactInv
<1>3. /\ s \in Seq(Frames) /\ WellStacked(s) /\ Range(s) \subseteq Range(kstack[running])
      /\ s # <<>> /\ Head(s).op = "schedule" /\ kstack \in [Pids -> Seq(Frames)]
  BY <1>0, <1>1, RunningShape
<1>4. /\ free' = Append(free, p) /\ childs[p] = <<>>
      /\ pid' = [pid EXCEPT ![p] = NotFound]
      /\ father' = [father EXCEPT ![p] = 0]
      /\ state' = [state EXCEPT ![p] = "UNUSED"]
      /\ priority' = [priority EXCEPT ![p] = 0]
      /\ waiting_code' = [waiting_code EXCEPT ![p] = 0]
      /\ deallocated' = [deallocated EXCEPT ![p] = FALSE]
      /\ sealed' = [sealed EXCEPT ![p] = FALSE]
      /\ childs' = childs /\ queue' = queue /\ running' = running
      /\ to_zombify' = to_zombify /\ to_destroy' = to_destroy
      /\ waiting' = waiting /\ panic' = panic
  BY <1>0 DEF DestroyEnd
<1>5. kstack' = [kstack EXCEPT ![p] = <<>>, ![running] = s]
  <2>1. kstack' = [kstack EXCEPT ![p] = <<>>, ![running] = Tail(@)]
    BY <1>0 DEF DestroyEnd
  <2> QED BY <1>0, <1>1, <1>3, <2>1
<1>6. /\ kstack'[running] = s /\ kstack'[p] = <<>>
      /\ \A q \in Pids : q # running /\ q # p => kstack'[q] = kstack[q]
  BY <1>1, <1>3, <1>5
<1>7. /\ state'[p] = "UNUSED" /\ ~deallocated'[p] /\ ~sealed'[p]
      /\ \A q \in Pids : q # p => /\ state'[q] = state[q] /\ pid'[q] = pid[q]
                                  /\ father'[q] = father[q] /\ priority'[q] = priority[q]
                                  /\ waiting_code'[q] = waiting_code[q]
                                  /\ deallocated'[q] = deallocated[q]
                                  /\ sealed'[q] = sealed[q]
  BY <1>1, <1>4 DEF ExactInv, TableInv, TypeOK
<1>8. Calm'
  BY <1>3, <1>4, <1>6, CalmNext
<1>9. ListsInv'
  <2>1. /\ InState("WAITING")' = InState("WAITING") /\ InState("SLEEPING")' = InState("SLEEPING")
        /\ InState("UNUSED")' = InState("UNUSED") \cup {p} /\ p \notin InState("UNUSED")
        /\ Undead' = Undead /\ p \notin InState("WAITING")
    BY <1>1, <1>7 DEF InState, Undead
  <2>2. Doomed' = Doomed
    BY <1>1, <1>7, <1>8 DEF Doomed, Calm
  <2>3. ReadyListed'
    <3>1. Lists(queue, InState("WAITING")) /\ Sorted(queue, priority) /\ queue \in Seq(Pids)
      BY DEF ExactInv, ListsInv, ReadyListed, TableInv, TypeOK
    <3>2. \A q \in Range(queue) : priority'[q] = priority[q]
      BY <1>7, <2>1, <3>1 DEF Lists, InState
    <3>3. Sorted(queue, priority')
      BY <3>1, <3>2, SortedSame
    <3> QED BY <1>4, <2>1, <3>1, <3>3 DEF ReadyListed
  <2>4. FreeListed'
    <3>1. Lists(free, InState("UNUSED")) /\ free \in Seq(Pids)
      BY DEF ExactInv, ListsInv, FreeListed, TableInv, TypeOK
    <3>2. Lists(Append(free, p), InState("UNUSED") \cup {p})
      BY <1>1, <2>1, <3>1, ListsAppend
    <3> QED BY <1>4, <2>1, <3>2 DEF FreeListed
  <2> QED BY <1>4, <2>1, <2>2, <2>3, <2>4 DEF ExactInv, ListsInv, SleepersListed,
       UndeadListed, DoomedListed
<1>10. LifeInv'
  <2>1. 1 \in Pids
    BY DEF Pids
  <2> QED BY <1>1, <1>4, <1>7, <2>1 DEF ExactInv, LifeInv
<1>11. SwitchDue'
  BY <1>3, <1>4, <1>6 DEF SwitchDue, Top
<1>12. StackInv'
  <2>1. \A q \in Pids : WellStacked(kstack'[q])
    BY <1>3, <1>6, EmptyStack DEF ExactInv, StackInv
  <2>2. state[running] # "UNUSED"
    BY DEF ExactInv, LifeInv
  <2>3. \A q \in Pids : state'[q] = "UNUSED" => kstack'[q] = <<>>
    BY <1>1, <1>6, <1>7, <2>2 DEF ExactInv, StackInv
  <2>4. \A q \in Pids : \A x \in Range(kstack'[q]) : q # p /\ x \in Range(kstack[q])
    BY <1>3, <1>6, EmptyStack
  <2>5. \A q \in Pids : \A x \in Range(kstack'[q]) :
          /\ x.op \in CallOps \cup {"spin"} => q # 1
          /\ x.op = "spin" => state'[q] = "ZOMBIE"
          /\ x.op \in {"boot", "hlt"} => q = 1
    BY <1>7, <2>4 DEF ExactInv, StackInv
  <2> QED BY <1>8, <2>1, <2>3, <2>5 DEF StackInv, Calm
<1>13. CallsInv'
  <2>1. \A q \in Pids : \A x \in Range(kstack'[q]) : q # p /\ x \in Range(kstack[q])
    BY <1>3, <1>6, EmptyStack
  <2>2. \A q, d \in Pids : Child(q, d) => d # p /\ Child(q, d)'
    BY <1>1, <1>7 DEF Child
  <2>3. \A q \in Pids : q # p /\ Woken(q) => Woken(q)'
    BY <1>7 DEF Woken
  <2> QED BY <1>7, <2>1, <2>2, <2>3, CallsKept
<1>14. WaitersHaveWakers'
  <2> SUFFICES ASSUME NEW q \in Pids, state'[q] = "BLOCKED_BY_CHILD"
               PROVE  (\E c \in Pids : /\ father[c] = q /\ ~sealed[c]
                                       /\ waiting_code[q] \in {-1, c}
                                       /\ state[c] # "UNUSED"
                                       /\ deallocated[c] => InFrame("zombify", c))'
    BY DEF WaitersHaveWakers
  <2>1. q # p /\ state[q] = "BLOCKED_BY_CHILD"
    BY <1>7
  <2>2. PICK c \in Pids : /\ father[c] = q /\ ~sealed[c]
                          /\ waiting_code[q] \in {-1, c}
                          /\ state[c] # "UNUSED"
                          /\ deallocated[c] => InFrame("zombify", c)
    BY <2>1 DEF ExactInv, WaitersHaveWakers
  <2>3. c # p /\ ~deallocated[c]
    BY <1>1, <2>2
  <2> QED BY <1>7, <2>1, <2>2, <2>3
<1>15. BlockerInv'
  BY <1>1, <1>4, <1>7 DEF ExactInv, BlockerInv
<1>16. ChildrenListed'
  <2>1. \A q \in Pids : Children(q)' = Children(q)
    BY <1>1, <1>7, <1>8 DEF Children, Calm
  <2> QED BY <1>4, <2>1 DEF ExactInv, ChildrenListed
<1>17. ChildrenGone'
  <2>1. \A q \in Pids \ {1} : \A c \in Range(childs[q]) : c \in Pids /\ c # p
    BY <1>1 DEF ExactInv, ChildrenListed, Lists, Children
  <2>2. \A c \in Pids : c # p /\ Gone(c) => Gone(c)'
    BY <1>7 DEF Gone
  <2>3. \A q \in Pids \ {1} : deallocated'[q] => \A c \in Range(childs'[q]) : Gone(c)'
    BY <1>1, <1>4, <1>7, <2>1, <2>2 DEF ExactInv, ChildrenGone
  <2>4. \A q \in Pids : state'[q] = "UNUSED" => childs'[q] = <<>>
    BY <1>4, <1>7 DEF ExactInv, ChildrenGone
  <2> QED BY <1>8, <2>3, <2>4 DEF ChildrenGone, Calm
<1>18. OnlyKnownStops'
  BY <1>4 DEF ExactInv, OnlyKnownStops
<1> QED BY <1>2, <1>9, <1>10, <1>11, <1>12, <1>13, <1>14, <1>15, <1>16, <1>17, <1>18 DEF ExactInv
-------------------------------------------------------------------------------
(* schedule() *)

LEMMA ScheduleSwitchExact ==
  ASSUME ExactInv, ScheduleSwitch
  PROVE  ExactInv'
<1>0. PICK new, s : new = Last(queue) /\ s = Tail(kstack[running])
  OBVIOUS
<1>1. /\ kstack[running] # <<>> /\ Top.op = "schedule" /\ running \in Pids
      /\ queue \in Seq(Pids) /\ kstack \in [Pids -> Seq(Frames)]
      /\ priority \in [Pids -> Int] /\ ~KeepsRunning /\ Cleaned
  BY PriorityType DEF ScheduleSwitch, InKernel, ExactInv, TableInv, TypeOK
<1>2. TableInv'
  BY ScheduleSwitchInv DEF ExactInv
<1>3. queue # <<>>
  <2> SUFFICES ASSUME queue = <<>> PROVE FALSE
    OBVIOUS
  <2>1. running = 1
    BY SomeoneReady
  <2>2. Candidate = 0
    BY <2>1 DEF Candidate
  <2> QED BY <1>1, <2>2 DEF KeepsRunning
<1>4. /\ new \in Pids /\ state[new] = "WAITING" /\ new # running
      /\ Front(queue) \in Seq(Pids) /\ Lists(Front(queue), InState("WAITING") \ {new})
      /\ Sorted(Front(queue), priority)
  <2>1. Lists(queue, InState("WAITING")) /\ Sorted(queue, priority)
    BY DEF ExactInv, ListsInv, ReadyListed
  <2>2. /\ Front(queue) \in Seq(Pids) /\ new \in Pids /\ new \in InState("WAITING")
        /\ Lists(Front(queue), InState("WAITING") \ {new}) /\ Sorted(Front(queue), priority)
    BY <1>0, <1>1, <1>3, <2>1, FrontExact
  <2>3. state[running] # "WAITING"
    BY DEF ExactInv, LifeInv
  <2> QED BY <2>2, <2>3 DEF InState
<1>5. /\ running' = new
      /\ state' = [state EXCEPT ![running] = IF state[running] = "RUNNING" THEN "WAITING" ELSE @,
                                ![new] = "RUNNING"]
      /\ queue' = IF state[running] = "RUNNING" THEN QueueAdd(Front(queue), priority, running)
                                                ELSE Front(queue)
      /\ kstack' = [kstack EXCEPT ![running] = s]
      /\ UNCHANGED <<family, pid, deallocated, sealed, priority, lists, sleep,
                     clock, waiting_code, panic>>
  BY <1>0, <1>3 DEF ScheduleSwitch, Pop
<1>6. /\ father' = father /\ childs' = childs /\ pid' = pid /\ deallocated' = deallocated
      /\ sealed' = sealed /\ priority' = priority /\ to_zombify' = to_zombify
      /\ to_destroy' = to_destroy /\ free' = free /\ waiting' = waiting
      /\ waiting_code' = waiting_code /\ panic' = panic
  BY <1>5 DEF family, lists, sleep
<1>7. /\ state'[new] = "RUNNING"
      /\ state'[running] = IF state[running] = "RUNNING" THEN "WAITING" ELSE state[running]
      /\ \A q \in Pids : q # new /\ q # running => state'[q] = state[q]
  BY <1>1, <1>4, <1>5 DEF ExactInv, TableInv, TypeOK
<1>8. kstack'[running] = s /\ \A q \in Pids : q # running => kstack'[q] = kstack[q]
  BY <1>1, <1>5
<1>9. s \in Seq(Frames) /\ WellStacked(s) /\ Range(s) \subseteq Range(kstack[running])
  BY <1>0, <1>1, RunningShape
<1>10. Calm /\ Calm'
  <2>1. Calm
    BY <1>1, CalmNow
  <2>2. kstack[new] \in Seq(Frames) /\ kstack'[running'] = kstack[new]
    BY <1>1, <1>4, <1>5, <1>8
  <2>3. ASSUME kstack[new] # <<>> PROVE Head(kstack[new]).op \notin {"zombify", "destroy"}
    <3>1. 1 \in DOMAIN kstack[new] /\ Head(kstack[new]) = kstack[new][1]
      BY <2>2, <2>3, EmptySeq, LenProperties
    <3> QED BY <1>4, <3>1 DEF ExactInv, TableInv, CleaningOnTop
  <2> QED BY <2>1, <2>2, <2>3, CalmNext
<1>11. state[running] # "ZOMBIE" => ~deallocated[running] /\ ~sealed[running]
  BY <1>1 DEF ExactInv, LifeInv
<1>12. ListsInv'
  <2>1. /\ InState("SLEEPING")' = InState("SLEEPING") /\ InState("UNUSED")' = InState("UNUSED")
        /\ Undead' = Undead /\ Doomed' = Doomed
    BY <1>4, <1>6, <1>7, <1>10 DEF InState, Undead, Doomed, Calm
  <2>2. ReadyListed'
    <3>1. CASE state[running] = "RUNNING"
      <4>1. InState("WAITING")' = (InState("WAITING") \ {new}) \cup {running}
        BY <1>1, <1>4, <1>7, <3>1 DEF InState
      <4>2. running \notin InState("WAITING") \ {new}
        BY <3>1 DEF InState
      <4>3. /\ Lists(queue', (InState("WAITING") \ {new}) \cup {running})
            /\ Sorted(queue', priority)
        BY <1>1, <1>4, <1>5, <3>1, <4>2, QueueAddExact
      <4> QED BY <1>6, <4>1, <4>3 DEF ReadyListed
    <3>2. CASE state[running] # "RUNNING"
      <4>1. state[running] # "WAITING"
        BY DEF ExactInv, LifeInv
      <4>2. InState("WAITING")' = InState("WAITING") \ {new}
        BY <1>1, <1>4, <1>7, <3>2, <4>1 DEF InState
      <4> QED BY <1>4, <1>5, <1>6, <3>2, <4>2 DEF ReadyListed
    <3> QED BY <3>1, <3>2
  <2> QED BY <1>6, <2>1, <2>2 DEF ExactInv, ListsInv, SleepersListed, FreeListed,
       UndeadListed, DoomedListed
<1>13. LifeInv'
  <2>1. ~deallocated[new] /\ ~sealed[new]
    BY <1>4 DEF ExactInv, LifeInv
  <2>2. state'[1] \in {"WAITING", "RUNNING"}
    <3>1. 1 \in Pids /\ state[1] \in {"WAITING", "RUNNING"}
      BY DEF Pids, ExactInv, LifeInv
    <3> QED BY <1>7, <3>1
  <2>3. \A q \in Pids : state'[q] = "RUNNING" => q = new
    <3>1. state'[running] # "RUNNING"
      BY <1>7
    <3>2. \A q \in Pids : q # running => state[q] # "RUNNING"
      BY DEF ExactInv, LifeInv
    <3> QED BY <1>7, <3>1, <3>2
  <2>4. \A q \in Pids : deallocated'[q] \/ sealed'[q] => state'[q] = "ZOMBIE"
    BY <1>1, <1>4, <1>6, <1>7, <2>1 DEF ExactInv, LifeInv
  <2>5. \A q \in Pids : state'[q] # "UNUSED" => state[q] # "UNUSED"
    BY <1>4, <1>7
  <2> QED BY <1>5, <1>6, <1>7, <2>1, <2>2, <2>3, <2>4, <2>5 DEF ExactInv, LifeInv
<1>14. SwitchDue'
  BY <1>5, <1>7 DEF SwitchDue
<1>15. StackInv'
  <2>1. \A x \in Range(s) : x \in Range(kstack[running])
    BY <1>9
  <2>2. state'[running] # "UNUSED"
    BY <1>7 DEF ExactInv, LifeInv
  <2>3. \A q \in Pids : /\ state'[q] = "UNUSED" => state[q] = "UNUSED"
                        /\ state[q] = "ZOMBIE" => state'[q] = "ZOMBIE"
    BY <1>4, <1>7
  <2> QED BY <1>1, <1>8, <1>9, <1>10, <2>1, <2>2, <2>3, StackStep
<1>16. CallsInv'
  <2>1. \A q \in Pids : \A x \in Range(kstack'[q]) : x \in Range(kstack[q])
    BY <1>8, <1>9
  <2>2. \A q, d \in Pids : Child(q, d) => /\ Child(q, d)'
                                          /\ state[d] = "ZOMBIE" => state'[d] = "ZOMBIE"
    BY <1>4, <1>6, <1>7 DEF Child
  <2>3. \A q \in Pids : Woken(q) => Woken(q)'
    BY <1>7 DEF Woken
  <2>4. \A q \in Pids : /\ state'[q] # "ZOMBIE" => state[q] # "ZOMBIE"
                        /\ state[q] = "BLOCKED_BY_CHILD" => state'[q] = "BLOCKED_BY_CHILD"
    BY <1>4, <1>7
  <2> QED BY <1>6, <2>1, <2>2, <2>3, <2>4, CallsKept
<1>17. WaitersHaveWakers'
  <2>1. \A q \in Pids : /\ state'[q] = "BLOCKED_BY_CHILD" => state[q] = "BLOCKED_BY_CHILD"
                        /\ state[q] # "UNUSED" => state'[q] # "UNUSED"
    BY <1>4, <1>7
  <2> QED BY <1>6, <1>10, <2>1 DEF ExactInv, WaitersHaveWakers, Calm
<1>18. BlockerInv'
  BY <1>5, <1>7 DEF BlockerInv
<1>19. ChildrenListed'
  <2>1. \A q \in Pids : state'[q] = "UNUSED" <=> state[q] = "UNUSED"
    BY <1>4, <1>7 DEF ExactInv, LifeInv
  <2>2. \A q \in Pids : Children(q)' = Children(q)
    BY <1>6, <1>10, <2>1 DEF Children, Calm
  <2> QED BY <1>6, <2>2 DEF ExactInv, ChildrenListed
<1>20. ChildrenGone'
  <2>1. \A q \in Pids : state'[q] = "UNUSED" => state[q] = "UNUSED"
    BY <1>4, <1>7
  <2> QED BY <1>6, <1>10, <2>1 DEF ExactInv, ChildrenGone, Calm, Gone
<1>21. OnlyKnownStops'
  BY <1>6 DEF ExactInv, OnlyKnownStops
<1> QED BY <1>2, <1>12, <1>13, <1>14, <1>15, <1>16, <1>17, <1>18, <1>19, <1>20, <1>21 DEF ExactInv

-------------------------------------------------------------------------------
(* System calls. *)

LEMMA UserMode ==
  ASSUME ExactInv, InUserMode
  PROVE  /\ running \in Pids \ {1} /\ kstack[running] = <<>> /\ Calm
         /\ kstack \in [Pids -> Seq(Frames)]
         /\ state[running] = "RUNNING" /\ ~sealed[running] /\ ~deallocated[running]
         /\ father[running] \in Pids
<1>1. running \in Pids /\ running # 1 /\ kstack[running] = <<>> /\ kstack \in [Pids -> Seq(Frames)]
  BY DEF InUserMode, ExactInv, TableInv, TypeOK
<1>2. state[running] = "RUNNING"
  BY <1>1 DEF ExactInv, SwitchDue
<1> QED BY <1>1, <1>2, CalmNow DEF ExactInv, LifeInv

(* A new process c, with the stack s of its father after it. *)
LEMMA NewProcessExact ==
  ASSUME ExactInv, TableInv', Calm, running \in Pids, state[running] = "RUNNING",
         free # <<>>, NEW prio \in Prios, NEW c, c = Head(free), NewProcess(running, c, prio),
         NEW s \in Seq(Frames), WellStacked(s), kstack' = [kstack EXCEPT ![running] = s],
         s = <<>> \/ Head(s).op \notin {"zombify", "destroy"},
         \A x \in Range(s) : \/ x.op = "start" /\ x.arg = c /\ running # 1
                             \/ x.op = "hlt" /\ running = 1
                             \/ x.op \notin CallOps \cup {"spin", "boot", "hlt"}
  PROVE  ExactInv'
<1>1. /\ kstack \in [Pids -> Seq(Frames)] /\ queue \in Seq(Pids) /\ free \in Seq(Pids)
      /\ priority \in [Pids -> 0 .. MaxPrio] /\ childs \in [Pids -> Seq(Pids)]
      /\ Tail(free) \in Seq(Pids)
  BY HeadTailProperties DEF ExactInv, TableInv, TypeOK
<1>2. /\ c \in Pids /\ state[c] = "UNUSED" /\ c \in InState("UNUSED")
      /\ Lists(Tail(free), InState("UNUSED") \ {c})
  <2>1. Lists(free, InState("UNUSED"))
    BY DEF ExactInv, ListsInv, FreeListed
  <2>2. c \in InState("UNUSED") /\ Lists(Tail(free), InState("UNUSED") \ {c})
    BY <1>1, <2>1, ListsTail
  <2> QED BY <2>2 DEF InState
<1>3. /\ c # running /\ c # 1 /\ ~sealed[c] /\ ~deallocated[c] /\ kstack[c] = <<>>
      /\ childs[c] = <<>>
  BY <1>2 DEF ExactInv, LifeInv, StackInv, ChildrenGone
<1>4. /\ free' = Tail(free)
      /\ pid' = [pid EXCEPT ![c] = c]
      /\ father' = [father EXCEPT ![c] = running]
      /\ childs' = [childs EXCEPT ![running] = <<c>> \o @, ![c] = <<>>]
      /\ priority' = [priority EXCEPT ![c] = prio]
      /\ deallocated' = [deallocated EXCEPT ![c] = FALSE]
      /\ state' = [state EXCEPT ![c] = "WAITING"]
      /\ queue' = QueueAdd(queue, priority', c)
      /\ sealed' = sealed /\ running' = running /\ to_zombify' = to_zombify
      /\ to_destroy' = to_destroy /\ waiting' = waiting /\ waiting_code' = waiting_code
      /\ panic' = panic
  BY DEF NewProcess, sleep
<1>5. /\ pid'[c] = c /\ father'[c] = running /\ childs'[c] = <<>> /\ priority'[c] = prio
      /\ ~deallocated'[c] /\ state'[c] = "WAITING"
      /\ childs'[running] = <<c>> \o childs[running]
      /\ \A q \in Pids : q # c => /\ pid'[q] = pid[q] /\ father'[q] = father[q]
                                  /\ priority'[q] = priority[q]
                                  /\ deallocated'[q] = deallocated[q] /\ state'[q] = state[q]
      /\ \A q \in Pids : q # c /\ q # running => childs'[q] = childs[q]
  <2>1. /\ pid'[c] = c /\ father'[c] = running /\ priority'[c] = prio
        /\ ~deallocated'[c] /\ state'[c] = "WAITING"
        /\ \A q \in Pids : q # c => /\ pid'[q] = pid[q] /\ father'[q] = father[q]
                                    /\ priority'[q] = priority[q]
                                    /\ deallocated'[q] = deallocated[q] /\ state'[q] = state[q]
    <3>1. TypeOK
      BY DEF ExactInv, TableInv
    <3>2. /\ DOMAIN pid = Pids /\ DOMAIN father = Pids /\ DOMAIN priority = Pids
          /\ DOMAIN deallocated = Pids /\ DOMAIN state = Pids
      BY <3>1 DEF TypeOK
    <3>3. pid'[c] = c /\ \A q \in Pids : q # c => pid'[q] = pid[q]
      BY <1>2, <1>4, <3>2
    <3>4. father'[c] = running /\ \A q \in Pids : q # c => father'[q] = father[q]
      BY <1>2, <1>4, <3>2
    <3>5. priority'[c] = prio /\ \A q \in Pids : q # c => priority'[q] = priority[q]
      BY <1>2, <1>4, <3>2
    <3>6. ~deallocated'[c] /\ \A q \in Pids : q # c => deallocated'[q] = deallocated[q]
      BY <1>2, <1>4, <3>2
    <3>7. state'[c] = "WAITING" /\ \A q \in Pids : q # c => state'[q] = state[q]
      BY <1>2, <1>4, <3>2
    <3> QED BY <3>3, <3>4, <3>5, <3>6, <3>7
  <2>2. /\ childs'[c] = <<>> /\ childs'[running] = <<c>> \o childs[running]
        /\ \A q \in Pids : q # c /\ q # running => childs'[q] = childs[q]
    <3>1. PICK t : t = <<c>> \o childs[running]
      OBVIOUS
    <3>2. childs' = [childs EXCEPT ![running] = <<c>> \o @, ![c] = <<>>]
      BY <1>4
    <3>3. childs' = [childs EXCEPT ![running] = t, ![c] = <<>>]
      BY <1>1, <3>1, <3>2
    <3>4. /\ childs'[c] = <<>> /\ childs'[running] = t
          /\ \A q \in Pids : q # c /\ q # running => childs'[q] = childs[q]
      BY <1>1, <1>2, <1>3, <3>3
    <3> QED BY <3>1, <3>4
  <2> QED BY <2>1, <2>2
<1>0. /\ sealed' = sealed /\ running' = running /\ to_zombify' = to_zombify
      /\ to_destroy' = to_destroy /\ waiting' = waiting /\ waiting_code' = waiting_code
      /\ panic' = panic
  BY <1>4
<1>6. kstack'[running] = s /\ \A q \in Pids : q # running => kstack'[q] = kstack[q]
  BY <1>1
<1>7. Calm'
  BY <1>4, <1>6, CalmNext
<1>8. ListsInv'
  <2>1. /\ InState("WAITING")' = InState("WAITING") \cup {c} /\ c \notin InState("WAITING")
        /\ InState("SLEEPING")' = InState("SLEEPING")
        /\ InState("UNUSED")' = InState("UNUSED") \ {c}
    BY <1>2, <1>5 DEF InState
  <2>0. Undead' = Undead
    BY <1>2, <1>5 DEF Undead
  <2>2. Doomed' = Doomed
    BY <1>4, <1>7 DEF Doomed, Calm
  <2>3. ReadyListed'
    <3>1. Lists(queue, InState("WAITING")) /\ Sorted(queue, priority)
      BY DEF ExactInv, ListsInv, ReadyListed
    <3>2. \A q \in Range(queue) : priority'[q] = priority[q]
      BY <1>5, <2>1, <3>1 DEF Lists, InState
    <3>3. Sorted(queue, priority')
      BY <1>1, <3>1, <3>2, SortedSame
    <3>4. priority' \in [Pids -> Int]
      BY <1>1, <1>4 DEF Prios
    <3>5. /\ Lists(QueueAdd(queue, priority', c), InState("WAITING") \cup {c})
          /\ Sorted(QueueAdd(queue, priority', c), priority')
      BY <1>1, <1>2, <2>1, <3>1, <3>3, <3>4, QueueAddExact
    <3> QED BY <1>4, <2>1, <3>5 DEF ReadyListed
  <2>4. FreeListed'
    BY <1>2, <1>4, <2>1 DEF FreeListed
  <2> QED BY <1>4, <2>0, <2>1, <2>2, <2>3, <2>4 DEF ExactInv, ListsInv, SleepersListed,
       UndeadListed, DoomedListed
<1>9. LifeInv'
  <2>1. 1 \in Pids
    BY DEF Pids
  <2>2. \A q \in Pids : deallocated'[q] \/ sealed'[q] => state'[q] = "ZOMBIE"
    BY <1>0, <1>3, <1>5 DEF ExactInv, LifeInv
  <2>3. \A q \in Pids : state'[q] = "RUNNING" => q = running'
    BY <1>0, <1>5 DEF ExactInv, LifeInv
  <2>4. \A q \in Pids : state'[q] # "UNUSED" => pid'[q] = q /\ (q # 1 => father'[q] \in Pids)
    BY <1>5 DEF ExactInv, LifeInv
  <2>5. /\ state'[1] \in {"WAITING", "RUNNING"}
        /\ state'[running'] \notin {"UNUSED", "WAITING"}
        /\ ~deallocated'[running']
    BY <1>0, <1>3, <1>5, <2>1 DEF ExactInv, LifeInv
  <2> QED BY <2>2, <2>3, <2>4, <2>5 DEF LifeInv
<1>10. SwitchDue'
  BY <1>3, <1>4, <1>5 DEF SwitchDue
<1>11. StackInv'
  <2>1. \A q \in Pids : /\ state'[q] = "UNUSED" => state[q] = "UNUSED"
                        /\ state[q] = "ZOMBIE" => state'[q] = "ZOMBIE"
    BY <1>2, <1>5
  <2>2. state'[running] # "UNUSED"
    BY <1>3, <1>5
  <2>3. \A x \in Range(s) : \/ x \in Range(kstack[running])
                            \/ /\ x.op \in CallOps \cup {"spin"} => running # 1
                               /\ x.op = "spin" => state'[running] = "ZOMBIE"
                               /\ x.op \in {"boot", "hlt"} => running = 1
    BY DEF CallOps
  <2> QED BY <1>6, <1>7, <2>1, <2>2, <2>3, StackStep
<1>12. CallsInv'
  <2> SUFFICES ASSUME NEW q \in Pids, state'[q] # "ZOMBIE", NEW x \in Range(kstack'[q])
               PROVE  CallRight(q, x)'
    BY DEF CallsInv
  <2>1. CASE q = running
    <3>1. Child(q, c)'
      BY <1>2, <1>3, <1>4, <1>5, <2>1 DEF Child
    <3>2. (x.op = "start" /\ x.arg = c) \/ x.op \notin CallOps
      BY <1>6, <2>1 DEF CallOps
    <3> QED BY <3>1, <3>2 DEF CallRight, CallOps
  <2>2. CASE q # running
    <3>1. q # c
      BY <1>3, <1>6, <2>2, EmptyStack
    <3>2. CallRight(q, x) /\ x \in Range(kstack[q])
      BY <1>5, <1>6, <2>2, <3>1 DEF ExactInv, CallsInv
    <3>3. \A d : Child(q, d) => d # c /\ Child(q, d)' /\ state'[d] = state[d]
      BY <1>0, <1>2, <1>5 DEF Child
    <3>4. /\ state'[q] = state[q] /\ waiting_code'[q] = waiting_code[q]
          /\ Woken(q)' <=> Woken(q)
      BY <1>0, <1>5, <3>1 DEF Woken
    <3> QED BY <3>2, <3>3, <3>4 DEF CallRight
  <2> QED BY <2>1, <2>2
<1>13. WaitersHaveWakers'
  <2> SUFFICES ASSUME NEW q \in Pids, state'[q] = "BLOCKED_BY_CHILD"
               PROVE  (\E d \in Pids : /\ father[d] = q /\ ~sealed[d]
                                       /\ waiting_code[q] \in {-1, d}
                                       /\ state[d] # "UNUSED"
                                       /\ deallocated[d] => InFrame("zombify", d))'
    BY DEF WaitersHaveWakers
  <2>1. q # c /\ state[q] = "BLOCKED_BY_CHILD"
    BY <1>5
  <2>2. PICK d \in Pids : /\ father[d] = q /\ ~sealed[d]
                          /\ waiting_code[q] \in {-1, d}
                          /\ state[d] # "UNUSED"
                          /\ deallocated[d] => InFrame("zombify", d)
    BY <2>1 DEF ExactInv, WaitersHaveWakers
  <2>3. d # c /\ ~deallocated[d]
    BY <1>2, <2>2 DEF Calm
  <2> QED BY <1>4, <1>5, <2>1, <2>2, <2>3
<1>14. BlockerInv'
  BY <1>3, <1>4, <1>5 DEF BlockerInv
<1>15. ChildrenListed'
  <2>1. \A q \in Pids : q # running => Children(q)' = Children(q)
    BY <1>2, <1>5, <1>7 DEF Children, Calm
  <2>2. Children(running)' = Children(running) \cup {c} /\ c \notin Children(running)
    BY <1>0, <1>2, <1>5, <1>7 DEF Children, Calm
  <2>3. ASSUME running # 1 PROVE Lists(childs'[running], Children(running)')
    <3>1. Lists(childs[running], Children(running)) /\ childs[running] \in Seq(Pids)
      BY <1>1, <2>3 DEF ExactInv, ChildrenListed
    <3>2. Lists(<<c>> \o childs[running], Children(running) \cup {c})
      BY <1>2, <2>2, <3>1, ListsPush
    <3> QED BY <1>0, <1>5, <2>2, <3>2
  <2>4. \A q \in Pids : q # running => childs'[q] = childs[q]
    BY <1>3, <1>5
  <2>5. \A q \in Pids \ {1} : Lists(childs'[q], Children(q)')
    BY <1>0, <2>1, <2>3, <2>4 DEF ExactInv, ChildrenListed
  <2> QED BY <2>5 DEF ChildrenListed
<1>16. ChildrenGone'
  <2>1. \A q \in Pids : q # running => childs'[q] = childs[q]
    BY <1>3, <1>5
  <2>2. \A d : d \in Pids /\ Gone(d) => Gone(d)'
    BY <1>0, <1>3, <1>5 DEF Gone
  <2>3. \A q \in Pids : Range(childs[q]) \subseteq Pids
    BY <1>1, RangeMember
  <2>4. \A q \in Pids \ {1} : deallocated'[q] => q # running /\ q # c /\ deallocated[q]
    BY <1>5, <1>3 DEF ExactInv, LifeInv
  <2>5. \A q \in Pids \ {1} : deallocated'[q] => \A d \in Range(childs'[q]) : Gone(d)'
    BY <2>1, <2>2, <2>3, <2>4 DEF ExactInv, ChildrenGone, Calm
  <2>6. \A q \in Pids : state'[q] = "UNUSED" => q # running /\ state[q] = "UNUSED"
    BY <1>3, <1>5
  <2> QED BY <1>7, <2>1, <2>5, <2>6 DEF ExactInv, ChildrenGone, Calm
<1>17. OnlyKnownStops'
  BY <1>4 DEF ExactInv, OnlyKnownStops
<1> QED BY <1>8, <1>9, <1>10, <1>11, <1>12, <1>13, <1>14, <1>15, <1>16, <1>17 DEF ExactInv

LEMMA StartExact ==
  ASSUME ExactInv, NEW prio \in Prios, Start(prio)
  PROVE  ExactInv'
<1>1. PICK c, f, b, s : /\ c = Head(free) /\ f = Frame("start", c)
                        /\ b = (prio > priority[running])
                        /\ s = IF b THEN <<Schedule>> \o <<f>> ELSE <<f>>
  OBVIOUS
<1>2. /\ running \in Pids \ {1} /\ Calm /\ state[running] = "RUNNING"
  BY UserMode DEF Start, Calling
<1>3. TableInv' /\ free # <<>>
  BY StartInv DEF ExactInv, Start, Full
<1>4. NewProcess(running, c, prio) /\ kstack' = [kstack EXCEPT ![running] = s]
  BY <1>1 DEF Start
<1>5. f \in Frames /\ f.op = "start" /\ f.arg = c
  <2>1. c \in Pids
    BY <1>1, <1>3, HeadTailProperties DEF ExactInv, TableInv, TypeOK
  <2>2. "start" \in Ops /\ c \in 0 .. N
    BY <2>1 DEF Ops, Pids
  <2> QED BY <1>1, <2>2, FrameType
<1>6. <<f>> \in Seq(Frames) /\ Head(<<f>>) = f /\ Range(<<f>>) = {f} /\ WellStacked(<<f>>)
  BY <1>5, SingleStack
<1>7. /\ <<Schedule>> \o <<f>> \in Seq(Frames) /\ Head(<<Schedule>> \o <<f>>) = Schedule
      /\ Range(<<Schedule>> \o <<f>>) = Range(<<f>>) \cup {Schedule}
      /\ WellStacked(<<Schedule>> \o <<f>>)
  BY <1>6, ScheduleType, PushedStack DEF Bottoms
<1>8. /\ s \in Seq(Frames) /\ WellStacked(s) /\ Head(s).op \notin {"zombify", "destroy"}
      /\ \A x \in Range(s) : x = f \/ x = Schedule
  BY <1>1, <1>5, <1>6, <1>7, ScheduleType
<1>9. \A x \in Range(s) : \/ x.op = "start" /\ x.arg = c /\ running # 1
                          \/ x.op \notin CallOps \cup {"spin", "boot", "hlt"}
  BY <1>2, <1>5, <1>8, ScheduleType DEF CallOps
<1>10. c = Head(free)
  BY <1>1
<1> QED BY <1>2, <1>3, <1>4, <1>8, <1>9, <1>10, NewProcessExact

LEMMA BootExact ==
  ASSUME ExactInv, Boot
  PROVE  ExactInv'
<1>1. PICK c, f, s : c = Head(free) /\ f = Frame("hlt", 0) /\ s = <<Schedule>> \o <<f>>
  OBVIOUS
<1>2. /\ running \in Pids /\ kstack[running] # <<>> /\ Top.op = "boot" /\ Calm
      /\ Top \in Range(kstack[running])
  <2>1. running \in Pids /\ kstack[running] # <<>> /\ Top.op = "boot"
    BY DEF Boot, InKernel, ExactInv, TableInv, TypeOK
  <2> QED BY <2>1, CalmNow, RunningShape
<1>3. running = 1
  BY <1>2 DEF ExactInv, StackInv
<1>4. state[running] = "RUNNING"
  BY <1>2, <1>3 DEF ExactInv, SwitchDue
<1>5. TableInv' /\ free # <<>>
  BY BootInv DEF ExactInv, Boot, Full
<1>6. 2 \in Prios /\ NewProcess(running, c, 2) /\ kstack' = [kstack EXCEPT ![running] = s]
  <2>1. <<Schedule, f>> = <<Schedule>> \o <<f>>
    OBVIOUS
  <2>2. 2 \in Prios
    BY DEF Prios
  <2> QED BY <1>1, <1>3, <2>1, <2>2 DEF Boot
<1>7. f \in Frames /\ f.op = "hlt"
  BY <1>1, FrameType DEF Ops
<1>8. <<f>> \in Seq(Frames) /\ Range(<<f>>) = {f} /\ WellStacked(<<f>>)
  BY <1>7, SingleStack
<1>9. /\ s \in Seq(Frames) /\ Head(s) = Schedule /\ WellStacked(s)
      /\ Range(s) = Range(<<f>>) \cup {Schedule}
  BY <1>1, <1>8, ScheduleType, PushedStack DEF Bottoms
<1>10. \A x \in Range(s) : \/ x.op = "hlt" /\ running = 1
                      \/ x.op \notin CallOps \cup {"spin", "boot", "hlt"}
  BY <1>3, <1>7, <1>8, <1>9, ScheduleType DEF CallOps
<1> QED BY <1>1, <1>2, <1>4, <1>5, <1>6, <1>9, <1>10, ScheduleType, NewProcessExact

(* start() that fails leaves traces only in the slot of a free pid. *)
LEMMA StartFailsExact ==
  ASSUME ExactInv, NEW prio \in Prios, StartFails(prio)
  PROVE  ExactInv'
<1>1. PICK c : c = Head(free)
  OBVIOUS
<1>2. /\ running \in Pids \ {1} /\ Calm /\ state[running] = "RUNNING" /\ TableInv'
  BY UserMode, StartFailsInv DEF StartFails, Calling, ExactInv
<1>3. free \in Seq(Pids) /\ free # <<>> /\ Tail(free) \in Seq(Pids) /\ TypeOK
  BY HeadTailProperties DEF ExactInv, TableInv, TypeOK, StartFails, Full
<1>4. /\ c \in Pids /\ c \in InState("UNUSED") /\ state[c] = "UNUSED"
      /\ Lists(Tail(free), InState("UNUSED") \ {c})
  <2>1. Lists(free, InState("UNUSED"))
    BY DEF ExactInv, ListsInv, FreeListed
  <2>2. c \in InState("UNUSED") /\ Lists(Tail(free), InState("UNUSED") \ {c})
    BY <1>1, <1>3, <2>1, ListsTail
  <2> QED BY <2>2 DEF InState
<1>5. ~deallocated[c] /\ ~sealed[c] /\ childs[c] = <<>> /\ c # running
  BY <1>2, <1>4 DEF ExactInv, LifeInv, ChildrenGone
<1>6. /\ free' = Append(Tail(free), c)
      /\ pid' = [pid EXCEPT ![c] = c]
      /\ father' = [father EXCEPT ![c] = running]
      /\ childs' = [childs EXCEPT ![c] = <<>>]
      /\ priority' = [priority EXCEPT ![c] = prio]
      /\ deallocated' = [deallocated EXCEPT ![c] = FALSE]
      /\ UNCHANGED <<state, sealed, queue, running, to_zombify, to_destroy, sleep,
                     waiting_code, kstack, panic>>
  BY <1>1 DEF StartFails
<1>7. /\ state' = state /\ sealed' = sealed /\ queue' = queue /\ running' = running
      /\ to_zombify' = to_zombify /\ to_destroy' = to_destroy /\ waiting' = waiting
      /\ waiting_code' = waiting_code /\ kstack' = kstack /\ panic' = panic
  BY <1>6 DEF sleep
<1>8. childs' = childs /\ deallocated' = deallocated
  <2>1. childs' = [childs EXCEPT ![c] = childs[c]]
    BY <1>5, <1>6
  <2>2. deallocated[c] = FALSE
    BY <1>3, <1>4, <1>5 DEF TypeOK
  <2>3. deallocated' = [deallocated EXCEPT ![c] = deallocated[c]]
    BY <1>6, <2>2
  <2> QED BY <1>3, <2>1, <2>3 DEF TypeOK
<1>9. \A q \in Pids : q # c => /\ pid'[q] = pid[q] /\ father'[q] = father[q]
                               /\ priority'[q] = priority[q]
  BY <1>3, <1>6 DEF TypeOK
<1>10. Calm' /\ \A q \in Pids : state[q] # "UNUSED" => q # c
  BY <1>2, <1>4, <1>7 DEF Calm, InFrame, Top
<1>11. ListsInv'
  <2>1. Lists(queue, InState("WAITING")) /\ Sorted(queue, priority) /\ queue \in Seq(Pids)
    BY <1>3 DEF ExactInv, ListsInv, ReadyListed, TypeOK
  <2>2. \A q \in Range(queue) : priority'[q] = priority[q]
    BY <1>9, <1>10, <2>1 DEF Lists, InState
  <2>3. Sorted(queue, priority')
    BY <2>1, <2>2, SortedSame
  <2>4. Lists(Append(Tail(free), c), (InState("UNUSED") \ {c}) \cup {c})
    BY <1>3, <1>4, ListsAppend
  <2>5. (InState("UNUSED") \ {c}) \cup {c} = InState("UNUSED")
    BY <1>4
  <2>6. Lists(Append(Tail(free), c), InState("UNUSED"))
    BY <2>4, <2>5
  <2>7. ReadyListed' /\ FreeListed'
    BY <1>6, <1>7, <2>1, <2>3, <2>6 DEF ReadyListed, FreeListed, InState
  <2>8. Undead' = Undead /\ Doomed' = Doomed /\ InState("SLEEPING")' = InState("SLEEPING")
    BY <1>2, <1>7, <1>8, <1>10 DEF Undead, Doomed, Calm, InState
  <2> QED BY <1>7, <2>7, <2>8 DEF ExactInv, ListsInv, SleepersListed, UndeadListed, DoomedListed
<1>12. LifeInv'
  BY <1>7, <1>8, <1>9, <1>10 DEF ExactInv, LifeInv
<1>13. SwitchDue'
  BY <1>2, <1>7 DEF SwitchDue
<1>14. StackInv'
  BY <1>7, <1>10 DEF ExactInv, StackInv, Calm
<1>15. CallsInv'
  <2>1. \A q, d \in Pids : Child(q, d) => Child(q, d)'
    BY <1>7, <1>9, <1>10 DEF Child
  <2>2. \A q \in Pids : Woken(q) => Woken(q)'
    BY <1>7 DEF Woken
  <2> QED BY <1>7, <2>1, <2>2, CallsKept
<1>16. WaitersHaveWakers'
  <2> SUFFICES ASSUME NEW q \in Pids, state'[q] = "BLOCKED_BY_CHILD"
               PROVE  (\E d \in Pids : /\ father[d] = q /\ ~sealed[d]
                                       /\ waiting_code[q] \in {-1, d}
                                       /\ state[d] # "UNUSED"
                                       /\ deallocated[d] => InFrame("zombify", d))'
    BY DEF WaitersHaveWakers
  <2>1. PICK d \in Pids : /\ father[d] = q /\ ~sealed[d]
                          /\ waiting_code[q] \in {-1, d}
                          /\ state[d] # "UNUSED"
                          /\ deallocated[d] => InFrame("zombify", d)
    BY <1>7 DEF ExactInv, WaitersHaveWakers
  <2>2. d # c /\ ~deallocated[d]
    BY <1>2, <1>4, <2>1 DEF Calm
  <2> QED BY <1>7, <1>8, <1>9, <2>1, <2>2
<1>17. BlockerInv'
  BY <1>2, <1>7 DEF BlockerInv
<1>18. ChildrenListed'
  <2>1. \A q \in Pids : Children(q)' = Children(q)
    BY <1>2, <1>7, <1>9, <1>10 DEF Children, Calm
  <2> QED BY <1>8, <2>1 DEF ExactInv, ChildrenListed
<1>19. ChildrenGone'
  BY <1>2, <1>7, <1>8, <1>10 DEF ExactInv, ChildrenGone, Calm, Gone
<1>20. OnlyKnownStops'
  BY <1>7 DEF ExactInv, OnlyKnownStops
<1> QED BY <1>2, <1>11, <1>12, <1>13, <1>14, <1>15, <1>16, <1>17, <1>18, <1>19, <1>20 DEF ExactInv

(* The death of a living process other than init, at the hands of the running *)
(* one or of itself.                                                          *)
LEMMA RequestZombifyExact ==
  ASSUME ExactInv, TableInv', InUserMode, NEW p \in Pids \ {1}, NEW rest,
         state[p] \notin {"UNUSED", "ZOMBIE"}, RequestZombify(p, rest),
         rest \in Seq(Frames), WellStacked(rest),
         \A x \in Range(rest) : x.op = "spin" /\ p = running,
         panic' # "pids_waiting" => Lists(waiting', InState("SLEEPING") \ {p}),
         panic' \in {panic, "pids_waiting"}
  PROVE  ExactInv'
<1>1. PICK s : s = <<Schedule>> \o rest
  OBVIOUS
<1>2. /\ running \in Pids \ {1} /\ Calm /\ state[running] = "RUNNING"
      /\ kstack \in [Pids -> Seq(Frames)] /\ TypeOK
  BY UserMode DEF ExactInv, TableInv
<1>3. /\ s \in Seq(Frames) /\ s # <<>> /\ Head(s) = Schedule /\ WellStacked(s)
      /\ Range(s) = Range(rest) \cup {Schedule}
  BY <1>1, ScheduleType, PushedStack DEF Bottoms
<1>4. /\ to_zombify' = Append(to_zombify, p)
      /\ state' = [state EXCEPT ![p] = "ZOMBIE"]
      /\ queue' = IF p # running THEN Without(queue, p) ELSE queue
      /\ kstack' = [kstack EXCEPT ![running] = s]
      /\ father' = father /\ childs' = childs /\ pid' = pid /\ deallocated' = deallocated
      /\ sealed' = sealed /\ priority' = priority /\ running' = running
      /\ to_destroy' = to_destroy /\ free' = free /\ waiting_code' = waiting_code
  BY <1>1 DEF RequestZombify, QueueDel, family
<1>5. state'[p] = "ZOMBIE" /\ \A q \in Pids : q # p => state'[q] = state[q]
  BY <1>2, <1>4 DEF TypeOK
<1>6. kstack'[running] = s /\ \A q \in Pids : q # running => kstack'[q] = kstack[q]
  BY <1>2, <1>4
<1>7. /\ father' = father /\ childs' = childs /\ pid' = pid /\ deallocated' = deallocated
      /\ sealed' = sealed /\ priority' = priority /\ running' = running
      /\ to_destroy' = to_destroy /\ free' = free /\ waiting_code' = waiting_code
  BY <1>4
<1>8. Calm'
  BY <1>3, <1>6, <1>7, ScheduleType, CalmNext
<1>9. /\ ~deallocated[p] /\ ~sealed[p]
      /\ \A q \in Pids : /\ state'[q] = "UNUSED" <=> state[q] = "UNUSED"
                         /\ state[q] = "ZOMBIE" => state'[q] = "ZOMBIE"
  BY <1>5 DEF ExactInv, LifeInv
<1>10. ListsInv'
  <2>1. /\ InState("WAITING")' = InState("WAITING") \ {p}
        /\ InState("SLEEPING")' = InState("SLEEPING") \ {p}
        /\ InState("UNUSED")' = InState("UNUSED")
    BY <1>5 DEF InState
  <2>2. Undead' = Undead \cup {p} /\ p \notin Undead /\ Doomed' = Doomed
    BY <1>2, <1>5, <1>7, <1>8, <1>9 DEF Undead, Doomed, Calm
  <2>3. ReadyListed'
    <3>1. Lists(queue, InState("WAITING")) /\ Sorted(queue, priority) /\ queue \in Seq(Pids)
      BY <1>2 DEF ExactInv, ListsInv, ReadyListed, TypeOK
    <3>2. /\ Lists(Without(queue, p), InState("WAITING") \ {p})
          /\ Sorted(Without(queue, p), priority)
      BY <3>1, WithoutExact
    <3>3. p = running => InState("WAITING") \ {p} = InState("WAITING")
      BY <1>2 DEF InState
    <3> QED BY <1>4, <2>1, <3>1, <3>2, <3>3 DEF ReadyListed
  <2>4. UndeadListed'
    <3>1. Lists(to_zombify, Undead) /\ to_zombify \in Seq(Pids)
      BY <1>2 DEF ExactInv, ListsInv, UndeadListed, TypeOK
    <3>2. Lists(Append(to_zombify, p), Undead \cup {p})
      BY <2>2, <3>1, ListsAppend
    <3> QED BY <1>4, <2>2, <3>2 DEF UndeadListed
  <2> QED BY <1>7, <2>1, <2>2, <2>3, <2>4 DEF ExactInv, ListsInv, SleepersListed, FreeListed,
       DoomedListed
<1>11. LifeInv'
  <2>1. \A q \in Pids : deallocated'[q] \/ sealed'[q] => state'[q] = "ZOMBIE"
    BY <1>7, <1>9 DEF ExactInv, LifeInv
  <2>2. \A q \in Pids : state'[q] = "RUNNING" => q = running'
    BY <1>5, <1>7 DEF ExactInv, LifeInv
  <2>3. \A q \in Pids : state'[q] # "UNUSED" => pid'[q] = q /\ (q # 1 => father'[q] \in Pids)
    BY <1>7, <1>9 DEF ExactInv, LifeInv
  <2>4. /\ state'[1] \in {"WAITING", "RUNNING"}
        /\ state'[running'] \notin {"UNUSED", "WAITING"}
        /\ ~deallocated'[running']
    <3>1. 1 \in Pids
      BY DEF Pids
    <3> QED BY <1>2, <1>5, <1>7, <3>1 DEF ExactInv, LifeInv
  <2> QED BY <2>1, <2>2, <2>3, <2>4 DEF LifeInv
<1>12. SwitchDue'
  BY <1>3, <1>6, <1>7, ScheduleType DEF SwitchDue, Top
<1>13. StackInv'
  <2>1. \A x \in Range(s) : \/ x \in Range(kstack[running])
                            \/ /\ x.op \in CallOps \cup {"spin"} => running # 1
                               /\ x.op = "spin" => state'[running] = "ZOMBIE"
                               /\ x.op \notin {"boot", "hlt"}
    BY <1>2, <1>3, <1>5, ScheduleType
  <2>2. state'[running] # "UNUSED"
    BY <1>2, <1>9
  <2> QED BY <1>2, <1>3, <1>6, <1>8, <1>9, <2>1, <2>2, StackStep
<1>14. CallsInv'
  <2>1. \A x \in Range(s) : x.op \notin CallOps
    BY <1>3, ScheduleType DEF CallOps
  <2>2. \A q, d \in Pids : Child(q, d) => Child(q, d)'
    BY <1>7, <1>9 DEF Child
  <2>3. \A q \in Pids : q # p => (Woken(q) => Woken(q)')
    BY <1>5 DEF Woken
  <2>4. \A q \in Pids : state'[q] # "ZOMBIE" => q # p /\ state[q] = state'[q]
    BY <1>5
  <2> QED BY <1>6, <1>7, <1>9, <2>1, <2>2, <2>3, <2>4, CallsKept
<1>15. WaitersHaveWakers'
  <2>1. \A q \in Pids : state'[q] = "BLOCKED_BY_CHILD" => state[q] = "BLOCKED_BY_CHILD"
    BY <1>5
  <2> QED BY <1>2, <1>7, <1>9, <2>1 DEF ExactInv, WaitersHaveWakers, Calm
<1>16. BlockerInv'
  BY <1>2, <1>5, <1>7 DEF BlockerInv
<1>17. ChildrenListed'
  <2>1. \A q \in Pids : Children(q)' = Children(q)
    BY <1>2, <1>7, <1>8, <1>9 DEF Children, Calm
  <2> QED BY <1>7, <2>1 DEF ExactInv, ChildrenListed
<1>18. ChildrenGone'
  BY <1>2, <1>7, <1>8, <1>9 DEF ExactInv, ChildrenGone, Calm, Gone
<1>19. OnlyKnownStops'
  BY DEF ExactInv, OnlyKnownStops, CallStops
<1> QED BY <1>10, <1>11, <1>12, <1>13, <1>14, <1>15, <1>16, <1>17, <1>18, <1>19 DEF ExactInv

LEMMA ExitExact ==
  ASSUME ExactInv, Exit
  PROVE  ExactInv'
<1>1. PICK f, rest : f = Frame("spin", 0) /\ rest = <<f>>
  OBVIOUS
<1>2. InUserMode /\ running \in Pids \ {1} /\ state[running] = "RUNNING" /\ TableInv'
  BY UserMode, ExitInv DEF Exit, Calling, ExactInv
<1>3. f \in Frames /\ f.op = "spin"
  BY <1>1, FrameType DEF Ops
<1>4. rest \in Seq(Frames) /\ WellStacked(rest) /\ Range(rest) = {f}
  BY <1>1, <1>3, SingleStack
<1>5. RequestZombify(running, rest) /\ waiting' = waiting /\ panic' = panic
  BY <1>1 DEF Exit
<1>6. panic' # "pids_waiting" => Lists(waiting', InState("SLEEPING") \ {running})
  <2>1. InState("SLEEPING") \ {running} = InState("SLEEPING")
    BY <1>2 DEF InState
  <2> QED BY <1>5, <2>1 DEF ExactInv, ListsInv, SleepersListed
<1>7. PICK p : p = running
  OBVIOUS
<1> QED BY <1>2, <1>3, <1>4, <1>5, <1>6, <1>7, RequestZombifyExact

LEMMA LinkedExact ==
  ASSUME ExactInv, NEW p \in Pids
  PROVE  Linked(p) <=> state[p] = "WAITING"
<1>1. queue \in Seq(Pids) /\ Lists(queue, InState("WAITING"))
  BY DEF ExactInv, TableInv, TypeOK, ListsInv, ReadyListed
<1>2. p \in InState("WAITING") <=> \E i \in 1 .. Len(queue) : queue[i] = p
  BY <1>1, ListsMember
<1>3. DOMAIN queue = 1 .. Len(queue)
  BY <1>1, LenProperties
<1> QED BY <1>2, <1>3 DEF Linked, InState

LEMMA KillExact ==
  ASSUME ExactInv, NEW p \in Pids, Kill(p)
  PROVE  ExactInv'
<1>1. /\ InUserMode /\ panic = None /\ TableInv' /\ state[p] # "ZOMBIE"
      /\ queue \in Seq(Pids) /\ waiting \in Seq(Pids)
  BY KillInv DEF Kill, Calling, InUserMode, ExactInv, TableInv, TypeOK
<1>2. CASE Fail("queue_del") \/ Fail("init")
  BY <1>1, <1>2, FailExact
<1>3. CASE ~(Fail("queue_del") \/ Fail("init"))
  <2>1. /\ p # 1 /\ ~(p # running /\ state[p] \in {"UNUSED", "WAITING", "RUNNING"} /\ ~Linked(p))
        /\ RequestZombify(p, <<>>) /\ waiting' = WaitingAfterKill(p)
        /\ panic' = IF ForgetsSleeper(p) THEN "pids_waiting" ELSE panic
    BY <1>3 DEF Kill
  <2>2. state[p] \notin {"UNUSED", "ZOMBIE"}
    <3>1. state[running] = "RUNNING"
      BY <1>1, UserMode
    <3>2. state[p] # "WAITING" => ~Linked(p)
      BY LinkedExact
    <3> QED BY <1>1, <2>1, <3>1, <3>2
  <2>3. Lists(queue, InState("WAITING")) /\ Lists(waiting, InState("SLEEPING"))
    BY <1>1 DEF ExactInv, ListsInv, ReadyListed, SleepersListed, None
  <2>4. panic' # "pids_waiting" => Lists(waiting', InState("SLEEPING") \ {p})
    <3>1. CASE state[p] = "SLEEPING"
      <4>1. p \in InState("SLEEPING")
        BY <3>1 DEF InState
      <4>2. waiting # <<>>
        BY <1>1, <2>3, <4>1, ListsMember
      <4>3. Lists(Front(waiting), InState("SLEEPING") \ {Last(waiting)})
        BY <1>1, <2>3, <4>2, ListsFront
      <4> QED BY <2>1, <3>1, <4>3 DEF WaitingAfterKill, ForgetsSleeper
    <3>2. CASE state[p] # "SLEEPING"
      <4>1. InState("SLEEPING") \ {p} = InState("SLEEPING")
        BY <3>2 DEF InState
      <4> QED BY <2>1, <2>3, <3>2, <4>1 DEF WaitingAfterKill
    <3> QED BY <3>1, <3>2
  <2>5. PICK rest : rest = <<>>
    OBVIOUS
  <2>6. rest \in Seq(Frames) /\ WellStacked(rest) /\ Range(rest) = {} /\ RequestZombify(p, rest)
    BY <2>1, <2>5, EmptyStack
  <2> QED BY <1>1, <2>1, <2>2, <2>4, <2>6, RequestZombifyExact
<1> QED BY <1>2, <1>3

LEMMA StartNoNodeExact ==
  ASSUME ExactInv, StartNoNode
  PROVE  ExactInv'
<1>1. panic = None /\ Fail("child_list")
  BY DEF StartNoNode, Calling, InUserMode
<1> QED BY <1>1, FailExact

(* The running process blocks: in waitpid with a child to wait for, none of *)
(* those it waits for being dead.                                           *)
LEMMA BlockExact ==
  ASSUME ExactInv, TableInv', InUserMode, NEW st, NEW code, NEW after,
         st \in {"BLOCKED_BY_CHILD", "BLOCKED_BY_MESSAGE", "SLEEPING"},
         Block(st, code, after), after \in Seq(Frames), WellStacked(after),
         \A x \in Range(after) :
           /\ st = "BLOCKED_BY_CHILD"
           /\ \/ x.op = "waitpid" /\ x.arg = code /\ Child(running, code)
              \/ x.op = "waitpid_any" /\ code = -1,
         st = "BLOCKED_BY_CHILD" =>
           /\ \E c \in Pids : Child(running, c) /\ code \in {-1, c}
           /\ \A c \in Pids : Child(running, c) /\ code \in {-1, c} => state[c] # "ZOMBIE",
         SleepersListed'
  PROVE  ExactInv'
<1>1. PICK s : s = <<Schedule>> \o after
  OBVIOUS
<1>2. /\ running \in Pids \ {1} /\ Calm /\ state[running] = "RUNNING" /\ ~deallocated[running]
      /\ ~sealed[running] /\ kstack \in [Pids -> Seq(Frames)] /\ TypeOK
  BY UserMode DEF ExactInv, TableInv
<1>3. /\ s \in Seq(Frames) /\ s # <<>> /\ Head(s) = Schedule /\ WellStacked(s)
      /\ Range(s) = Range(after) \cup {Schedule}
  BY <1>1, ScheduleType, PushedStack DEF Bottoms
<1>4. /\ state' = [state EXCEPT ![running] = st]
      /\ waiting_code' = [waiting_code EXCEPT ![running] = code]
      /\ kstack' = [kstack EXCEPT ![running] = s]
  BY <1>1 DEF Block
<1>5. /\ state'[running] = st /\ waiting_code'[running] = code
      /\ \A q \in Pids : q # running => /\ state'[q] = state[q]
                                        /\ waiting_code'[q] = waiting_code[q]
  BY <1>2, <1>4 DEF TypeOK
<1>6. kstack'[running] = s /\ \A q \in Pids : q # running => kstack'[q] = kstack[q]
  BY <1>2, <1>4
<1>7. /\ father' = father /\ childs' = childs /\ pid' = pid /\ deallocated' = deallocated
      /\ sealed' = sealed /\ queue' = queue /\ priority' = priority /\ running' = running
      /\ to_zombify' = to_zombify /\ to_destroy' = to_destroy /\ free' = free
      /\ panic' = panic
  BY DEF Block, family, sched, lists
<1>8. Calm'
  BY <1>3, <1>6, <1>7, ScheduleType, CalmNext
<1>9. \A q \in Pids : /\ state'[q] = "UNUSED" <=> state[q] = "UNUSED"
                      /\ state[q] = "ZOMBIE" <=> state'[q] = "ZOMBIE"
  BY <1>2, <1>5
<1>10. ListsInv'
  <2>1. /\ InState("WAITING")' = InState("WAITING") /\ InState("UNUSED")' = InState("UNUSED")
    BY <1>2, <1>5 DEF InState
  <2>2. Undead' = Undead /\ Doomed' = Doomed
    BY <1>2, <1>7, <1>8, <1>9 DEF Undead, Doomed, Calm
  <2> QED BY <1>7, <2>1, <2>2 DEF ExactInv, ListsInv, ReadyListed, FreeListed, UndeadListed,
       DoomedListed
<1>11. LifeInv'
  <2>1. \A q \in Pids : deallocated'[q] \/ sealed'[q] => state'[q] = "ZOMBIE"
    BY <1>7, <1>9 DEF ExactInv, LifeInv
  <2>2. \A q \in Pids : state'[q] = "RUNNING" => q = running'
    BY <1>5, <1>7 DEF ExactInv, LifeInv
  <2>3. \A q \in Pids : state'[q] # "UNUSED" => pid'[q] = q /\ (q # 1 => father'[q] \in Pids)
    BY <1>7, <1>9 DEF ExactInv, LifeInv
  <2>4. /\ state'[1] \in {"WAITING", "RUNNING"}
        /\ state'[running'] \notin {"UNUSED", "WAITING"}
        /\ ~deallocated'[running']
    <3>1. 1 \in Pids
      BY DEF Pids
    <3> QED BY <1>2, <1>5, <1>7, <3>1 DEF ExactInv, LifeInv
  <2> QED BY <2>1, <2>2, <2>3, <2>4 DEF LifeInv
<1>12. SwitchDue'
  BY <1>3, <1>6, <1>7, ScheduleType DEF SwitchDue, Top
<1>13. StackInv'
  <2>1. \A x \in Range(s) : \/ x \in Range(kstack[running])
                            \/ /\ x.op \in CallOps \cup {"spin"} => running # 1
                               /\ x.op = "spin" => state'[running] = "ZOMBIE"
                               /\ x.op \notin {"boot", "hlt"}
    BY <1>2, <1>3, ScheduleType
  <2>2. state'[running] # "UNUSED"
    BY <1>2, <1>9
  <2> QED BY <1>2, <1>3, <1>6, <1>8, <1>9, <2>1, <2>2, StackStep
<1>14. \A q, d : Child(q, d) => /\ Child(q, d)'
                                /\ state'[d] = "ZOMBIE" <=> state[d] = "ZOMBIE"
  BY <1>7, <1>9 DEF Child
<1>15. CallsInv'
  <2> SUFFICES ASSUME NEW q \in Pids, state'[q] # "ZOMBIE", NEW x \in Range(kstack'[q])
               PROVE  CallRight(q, x)'
    BY DEF CallsInv
  <2>1. CASE q = running
    <3>1. x = Schedule \/ x \in Range(after)
      BY <1>3, <1>6, <2>1
    <3>2. CASE x = Schedule
      BY <3>2, ScheduleType DEF CallRight
    <3>3. CASE x \in Range(after)
      <4>1. state'[q] = "BLOCKED_BY_CHILD" /\ waiting_code'[q] = code
        BY <1>5, <2>1, <3>3
      <4>2. x.op = "waitpid" => x.arg = code /\ Child(q, x.arg)'
        BY <1>14, <2>1, <3>3
      <4>3. x.op = "waitpid_any" => code = -1
        BY <3>3
      <4>4. x.op # "start"
        BY <3>3
      <4> QED BY <4>1, <4>2, <4>3, <4>4 DEF CallRight
    <3> QED BY <3>1, <3>2, <3>3
  <2>2. CASE q # running
    <3>1. CallRight(q, x) /\ state'[q] = state[q] /\ waiting_code'[q] = waiting_code[q]
      BY <1>5, <1>6, <2>2 DEF ExactInv, CallsInv
    <3>2. Woken(q)' <=> Woken(q)
      BY <3>1 DEF Woken
    <3> QED BY <1>14, <3>1, <3>2 DEF CallRight
  <2> QED BY <2>1, <2>2
<1>16. WaitersHaveWakers'
  <2> SUFFICES ASSUME NEW q \in Pids, state'[q] = "BLOCKED_BY_CHILD"
               PROVE  (\E d \in Pids : /\ father[d] = q /\ ~sealed[d]
                                       /\ waiting_code[q] \in {-1, d}
                                       /\ state[d] # "UNUSED"
                                       /\ deallocated[d] => InFrame("zombify", d))'
    BY DEF WaitersHaveWakers
  <2>1. CASE q = running
    <3>1. st = "BLOCKED_BY_CHILD"
      BY <1>5, <2>1
    <3>2. PICK c \in Pids : Child(running, c) /\ code \in {-1, c} /\ state[c] # "ZOMBIE"
      BY <3>1
    <3>3. ~deallocated[c]
      BY <3>2 DEF ExactInv, LifeInv
    <3> QED BY <1>5, <1>7, <1>9, <2>1, <3>2, <3>3 DEF Child
  <2>2. CASE q # running
    <3>1. PICK d \in Pids : /\ father[d] = q /\ ~sealed[d]
                            /\ waiting_code[q] \in {-1, d}
                            /\ state[d] # "UNUSED"
                            /\ deallocated[d] => InFrame("zombify", d)
      BY <1>5, <2>2 DEF ExactInv, WaitersHaveWakers
    <3> QED BY <1>2, <1>5, <1>7, <1>9, <2>2, <3>1 DEF Calm
  <2> QED BY <2>1, <2>2
<1>17. BlockerInv'
  <2>1. ASSUME st = "BLOCKED_BY_CHILD", NEW c \in Pids, father[c] = running, ~sealed[c],
               code \in {-1, c}
        PROVE  state'[c] # "ZOMBIE"
    <3>1. CASE state[c] = "UNUSED"
      BY <1>9, <3>1
    <3>2. CASE state[c] # "UNUSED"
      BY <1>9, <2>1, <3>2 DEF Child
    <3> QED BY <3>1, <3>2
  <2> QED BY <1>5, <1>7, <2>1 DEF BlockerInv
<1>18. ChildrenListed'
  <2>1. \A q \in Pids : Children(q)' = Children(q)
    BY <1>2, <1>7, <1>8, <1>9 DEF Children, Calm
  <2> QED BY <1>7, <2>1 DEF ExactInv, ChildrenListed
<1>19. ChildrenGone'
  BY <1>2, <1>7, <1>8, <1>9 DEF ExactInv, ChildrenGone, Calm, Gone
<1>20. OnlyKnownStops'
  BY <1>7 DEF ExactInv, OnlyKnownStops
<1> QED BY <1>10, <1>11, <1>12, <1>13, <1>15, <1>16, <1>17, <1>18, <1>19, <1>20 DEF ExactInv

LEMMA SleepersSame ==
  ASSUME ExactInv, state[running] = "RUNNING", NEW st, NEW code, NEW after, st # "SLEEPING",
         Block(st, code, after), waiting' = waiting
  PROVE  SleepersListed'
<1>1. state' = [state EXCEPT ![running] = st] /\ state \in [Pids -> States]
  BY DEF Block, ExactInv, TableInv, TypeOK
<1>2. InState("SLEEPING")' = InState("SLEEPING")
  BY <1>1 DEF InState
<1>3. panic' = panic
  BY DEF Block
<1> QED BY <1>2, <1>3 DEF ExactInv, ListsInv, SleepersListed

LEMMA WaitClockExact ==
  ASSUME ExactInv, NEW t \in 1 .. MaxClock, WaitClock(t)
  PROVE  ExactInv'
<1>1. PICK st, code, after : /\ st = "SLEEPING" /\ code = waiting_code[running]
                             /\ after = <<>>
  OBVIOUS
<1>2. InUserMode /\ TableInv' /\ running \in Pids /\ state[running] = "RUNNING"
  BY UserMode, WaitClockInv DEF WaitClock, Calling, ExactInv
<1>3. Block(st, code, after) /\ waiting' = Append(waiting, running)
  BY <1>1 DEF WaitClock
<1>4. Lists(waiting', InState("SLEEPING") \cup {running})
  <2>1. waiting \in Seq(Pids) /\ Lists(waiting, InState("SLEEPING"))
    BY <1>2 DEF ExactInv, TableInv, TypeOK, ListsInv, SleepersListed, InUserMode, None
  <2>2. running \notin InState("SLEEPING")
    BY <1>2 DEF InState
  <2> QED BY <1>2, <1>3, <2>1, <2>2, ListsAppend
<1>5. after \in Seq(Frames) /\ WellStacked(after) /\ Range(after) = {}
  BY <1>1, EmptyStack
<1>6. SleepersListed'
  <2>1. state' = [state EXCEPT ![running] = st] /\ state \in [Pids -> States]
    BY <1>3 DEF Block, ExactInv, TableInv, TypeOK
  <2>2. InState("SLEEPING")' = InState("SLEEPING") \cup {running}
    BY <1>1, <1>2, <2>1 DEF InState
  <2> QED BY <1>4, <2>2 DEF SleepersListed
<1>7. st \in {"BLOCKED_BY_CHILD", "BLOCKED_BY_MESSAGE", "SLEEPING"} /\ st # "BLOCKED_BY_CHILD"
  BY <1>1
<1>8. \A x \in Range(after) :
        /\ st = "BLOCKED_BY_CHILD"
        /\ \/ x.op = "waitpid" /\ x.arg = code /\ Child(running, code)
           \/ x.op = "waitpid_any" /\ code = -1
  BY <1>5
<1>9. st = "BLOCKED_BY_CHILD" =>
        /\ \E c \in Pids : Child(running, c) /\ code \in {-1, c}
        /\ \A c \in Pids : Child(running, c) /\ code \in {-1, c} => state[c] # "ZOMBIE"
  BY <1>7
<1>10. InUserMode /\ TableInv' /\ Block(st, code, after) /\ after \in Seq(Frames)
       /\ WellStacked(after)
  BY <1>2, <1>3, <1>5
<1> QED BY ONLY ExactInv, <1>6, <1>7, <1>8, <1>9, <1>10, BlockExact

LEMMA BlockByMessageExact ==
  ASSUME ExactInv, BlockByMessage
  PROVE  ExactInv'
<1>1. PICK code, after : code = waiting_code[running] /\ after = <<>>
  OBVIOUS
<1>2. InUserMode /\ TableInv'
  BY BlockByMessageInv DEF BlockByMessage, Calling, ExactInv
<1>3. Block("BLOCKED_BY_MESSAGE", code, after) /\ waiting' = waiting
  BY <1>1 DEF BlockByMessage, sleep
<1>4. SleepersListed'
  BY <1>2, <1>3, UserMode, SleepersSame
<1>5. after \in Seq(Frames) /\ WellStacked(after) /\ Range(after) = {}
  BY <1>1, EmptyStack
<1> QED BY <1>2, <1>3, <1>4, <1>5, BlockExact

(* The running process has waited for its child c, at once or after it was *)
(* woken: c is sealed.                                                     *)
LEMMA ReapExact ==
  ASSUME ExactInv, TableInv', Calm, running \in Pids, state[running] = "RUNNING",
         NEW c \in Pids, Child(running, c), state[c] = "ZOMBIE", Reap(c),
         kstack' = [kstack EXCEPT ![running] = <<>>]
  PROVE  ExactInv'
<1>1. kstack \in [Pids -> Seq(Frames)] /\ TypeOK
  BY DEF ExactInv, TableInv, TypeOK
<1>2. /\ sealed' = [sealed EXCEPT ![c] = TRUE] /\ to_destroy' = Append(to_destroy, c)
      /\ father' = father /\ childs' = childs /\ pid' = pid /\ state' = state
      /\ deallocated' = deallocated /\ queue' = queue /\ priority' = priority
      /\ running' = running /\ to_zombify' = to_zombify /\ free' = free
      /\ waiting' = waiting /\ waiting_code' = waiting_code /\ panic' = panic
  BY DEF Reap, RequestDestroy, family, sched, sleep
<1>3. sealed'[c] /\ \A q \in Pids : q # c => sealed'[q] = sealed[q]
  BY <1>1, <1>2 DEF TypeOK
<1>4. /\ father' = father /\ childs' = childs /\ pid' = pid /\ state' = state
      /\ deallocated' = deallocated /\ queue' = queue /\ priority' = priority
      /\ running' = running /\ to_zombify' = to_zombify /\ free' = free
      /\ waiting' = waiting /\ waiting_code' = waiting_code /\ panic' = panic
  BY <1>2
<1>5. kstack'[running] = <<>> /\ \A q \in Pids : q # running => kstack'[q] = kstack[q]
  BY <1>1
<1>6. Calm'
  <2>1. PICK s : s = <<>>
    OBVIOUS
  <2> QED BY <1>4, <1>5, <2>1, CalmNext
<1>7. father[c] = running /\ ~sealed[c]
  BY DEF Child
<1>8. ListsInv'
  <2>1. c \notin Doomed /\ Doomed' = Doomed \cup {c}
    BY <1>3, <1>6, <1>7 DEF Doomed, Calm
  <2>2. to_destroy \in Seq(Pids) /\ Lists(to_destroy, Doomed)
    BY <1>1 DEF TypeOK, ExactInv, ListsInv, DoomedListed
  <2>3. Lists(Append(to_destroy, c), Doomed \cup {c})
    BY <2>1, <2>2, ListsAppend
  <2>4. DoomedListed'
    BY <1>2, <2>1, <2>3 DEF DoomedListed
  <2> QED BY <1>4, <2>4 DEF ExactInv, ListsInv, ReadyListed, SleepersListed, FreeListed,
       UndeadListed, InState, Undead
<1>9. LifeInv'
  BY <1>3, <1>4 DEF ExactInv, LifeInv
<1>10. SwitchDue'
  BY <1>4 DEF SwitchDue
<1>11. StackInv'
  <2>1. PICK s : s = <<>>
    OBVIOUS
  <2>2. s \in Seq(Frames) /\ WellStacked(s) /\ Range(s) = {}
    BY <2>1, EmptyStack
  <2>3. \A x \in Range(s) : \/ x \in Range(kstack[running])
                            \/ /\ x.op \in CallOps \cup {"spin"} => running # 1
                               /\ x.op = "spin" => state'[running] = "ZOMBIE"
                               /\ x.op \notin {"boot", "hlt"}
    BY <2>2
  <2>4. kstack'[running] = s
    BY <1>5, <2>1
  <2> QED BY <1>4, <1>5, <1>6, <2>2, <2>3, <2>4, StackStep
<1>12. CallsInv'
  <2>1. \A q \in Pids : \A x \in Range(kstack'[q]) : q # running /\ x \in Range(kstack[q])
    BY <1>5, EmptyStack
  <2>2. \A q, d \in Pids : q # running /\ Child(q, d) => Child(q, d)'
    BY <1>3, <1>4, <1>7 DEF Child
  <2>3. \A q \in Pids : Woken(q) => Woken(q)'
    BY <1>4 DEF Woken
  <2> QED BY <1>4, <2>1, <2>2, <2>3, CallsKept
<1>13. WaitersHaveWakers'
  <2> SUFFICES ASSUME NEW q \in Pids, state'[q] = "BLOCKED_BY_CHILD"
               PROVE  (\E d \in Pids : /\ father[d] = q /\ ~sealed[d]
                                       /\ waiting_code[q] \in {-1, d}
                                       /\ state[d] # "UNUSED"
                                       /\ deallocated[d] => InFrame("zombify", d))'
    BY DEF WaitersHaveWakers
  <2>1. PICK d \in Pids : /\ father[d] = q /\ ~sealed[d]
                          /\ waiting_code[q] \in {-1, d}
                          /\ state[d] # "UNUSED"
                          /\ deallocated[d] => InFrame("zombify", d)
    BY <1>4 DEF ExactInv, WaitersHaveWakers
  <2>2. d # c /\ ~deallocated[d]
    BY <1>4, <1>7, <2>1 DEF Calm
  <2> QED BY <1>3, <1>4, <2>1, <2>2
<1>14. BlockerInv'
  BY <1>4 DEF BlockerInv
<1>15. ChildrenListed'
  <2>1. \A q \in Pids : Children(q)' = Children(q)
    BY <1>4, <1>6 DEF Children, Calm
  <2> QED BY <1>4, <2>1 DEF ExactInv, ChildrenListed
<1>16. ChildrenGone'
  <2>1. \A d \in Pids : Gone(d) => Gone(d)'
    BY <1>3, <1>4 DEF Gone
  <2>2. \A q \in Pids : childs[q] \in Seq(Pids)
    BY <1>1 DEF TypeOK
  <2>3. \A q \in Pids : Range(childs[q]) \subseteq Pids
    BY <2>2, RangeMember
  <2>4. \A q \in Pids \ {1} : deallocated'[q] => \A d \in Range(childs'[q]) : Gone(d)'
    BY <1>4, <2>1, <2>3 DEF ExactInv, ChildrenGone, Calm
  <2> QED BY <1>4, <1>6, <2>4 DEF ExactInv, ChildrenGone, Calm
<1>17. OnlyKnownStops'
  BY <1>4 DEF ExactInv, OnlyKnownStops
<1> QED BY <1>8, <1>9, <1>10, <1>11, <1>12, <1>13, <1>14, <1>15, <1>16, <1>17 DEF ExactInv

LEMMA WaitpidExact ==
  ASSUME Disciplined, ExactInv, NEW c \in Pids, Knows(c), Waitpid(c)
  PROVE  ExactInv'
<1>1. /\ InUserMode /\ TableInv' /\ running \in Pids /\ Calm /\ state[running] = "RUNNING"
      /\ kstack[running] = <<>> /\ kstack \in [Pids -> Seq(Frames)]
  BY UserMode, WaitpidInv DEF Waitpid, Calling, ExactInv
<1>2. Child(running, c)
  <2>1. ~sealed[c] /\ father[c] = running
    BY DEF Waitpid
  <2> QED BY <2>1 DEF Knows, Disciplined, Child
<1>3. CASE state[c] = "ZOMBIE"
  <2>1. Reap(c) /\ kstack' = kstack
    BY <1>3 DEF Waitpid
  <2>2. kstack' = [kstack EXCEPT ![running] = <<>>]
    BY <1>1, <2>1
  <2> QED BY <1>1, <1>2, <1>3, <2>1, <2>2, ReapExact
<1>4. CASE state[c] # "ZOMBIE"
  <2>1. PICK st, f, after : /\ st = "BLOCKED_BY_CHILD" /\ f = Frame("waitpid", c)
                            /\ after = <<f>>
    OBVIOUS
  <2>2. Block(st, c, after) /\ waiting' = waiting
    BY <1>4, <2>1 DEF Waitpid, sleep
  <2>3. f \in Frames /\ f.op = "waitpid" /\ f.arg = c
    <3>1. "waitpid" \in Ops /\ c \in 0 .. N
      BY DEF Ops, Pids
    <3> QED BY <2>1, <3>1, FrameType
  <2>4. after \in Seq(Frames) /\ WellStacked(after) /\ Range(after) = {f}
    BY <2>1, <2>3, SingleStack
  <2>5. SleepersListed'
    BY <1>1, <2>1, <2>2, SleepersSame
  <2>6. \A d \in Pids : Child(running, d) /\ c \in {-1, d} => state[d] # "ZOMBIE"
    <3>1. c # -1
      BY DEF Pids
    <3> QED BY <1>4, <3>1
  <2>7. st \in {"BLOCKED_BY_CHILD", "BLOCKED_BY_MESSAGE", "SLEEPING"} /\ st = "BLOCKED_BY_CHILD"
    BY <2>1
  <2>8. \E d \in Pids : Child(running, d) /\ c \in {-1, d}
    BY <1>2
  <2>9. \A x \in Range(after) :
          /\ st = "BLOCKED_BY_CHILD"
          /\ \/ x.op = "waitpid" /\ x.arg = c /\ Child(running, c)
             \/ x.op = "waitpid_any" /\ c = -1
    BY <1>2, <2>3, <2>4, <2>7
  <2> QED BY <1>1, <2>2, <2>4, <2>5, <2>6, <2>7, <2>8, <2>9, BlockExact
<1> QED BY <1>3, <1>4

(* Waitpid(-1) does not block when one of the children is dead. *)
LEMMA WaitpidAnyExact ==
  ASSUME ExactInv, WaitpidAny
  PROVE  ExactInv'
<1>0. PICK l : l = childs[running]
  OBVIOUS
<1>1. /\ InUserMode /\ TableInv' /\ running \in Pids \ {1} /\ Calm /\ state[running] = "RUNNING"
      /\ kstack[running] = <<>> /\ kstack \in [Pids -> Seq(Frames)]
  BY UserMode, WaitpidAnyInv DEF WaitpidAny, Calling, ExactInv
<1>2. l \in Seq(Pids) /\ Lists(l, Children(running)) /\ DOMAIN l = 1 .. Len(l) /\ Len(l) \in Nat
  <2>1. l \in Seq(Pids) /\ Lists(l, Children(running))
    BY <1>0, <1>1 DEF ExactInv, TableInv, TypeOK, ChildrenListed
  <2> QED BY <2>1, LenProperties
<1>3. \A c : c \in Children(running) /\ ~sealed[c] <=> Child(running, c)
  BY <1>1 DEF Children, Child, Calm
<1>4. \A k \in 1 .. Len(l) : l[k] \in Children(running) /\ l[k] \in Pids
  BY <1>2, ListsMember, ElementOfSeq
<1>5. ASSUME NEW k \in DOMAIN l, DeadChild(k), Reap(l[k]), UNCHANGED kstack
      PROVE  ExactInv'
  <2>1. PICK c : c = l[k]
    OBVIOUS
  <2>2. c \in Pids /\ Child(running, c) /\ state[c] = "ZOMBIE" /\ Reap(c)
    BY <1>0, <1>2, <1>3, <1>4, <1>5, <2>1 DEF DeadChild
  <2>3. kstack' = [kstack EXCEPT ![running] = <<>>]
    BY <1>1, <1>5
  <2> QED BY <1>1, <2>2, <2>3, ReapExact
<1>6. ASSUME ~\E k \in DOMAIN l : DeadChild(k), \E k \in DOMAIN l : ~sealed[l[k]],
             Block("BLOCKED_BY_CHILD", -1, <<Frame("waitpid_any", 0)>>), UNCHANGED sleep
      PROVE  ExactInv'
  <2>1. PICK st, code, f, after : /\ st = "BLOCKED_BY_CHILD" /\ code = -1
                                  /\ f = Frame("waitpid_any", 0) /\ after = <<f>>
    OBVIOUS
  <2>2. Block(st, code, after) /\ waiting' = waiting
    BY <1>6, <2>1 DEF sleep
  <2>3. f \in Frames /\ f.op = "waitpid_any"
    BY <2>1, FrameType DEF Ops
  <2>4. after \in Seq(Frames) /\ WellStacked(after) /\ Range(after) = {f}
    BY <2>1, <2>3, SingleStack
  <2>5. SleepersListed'
    BY <1>1, <2>1, <2>2, SleepersSame
  <2>6. ASSUME NEW d \in Pids, Child(running, d), state[d] = "ZOMBIE" PROVE FALSE
    <3> DEFINE T == {k \in 1 .. Len(l) : state[l[k]] = "ZOMBIE" /\ ~sealed[l[k]]}
    <3>1. PICK i \in 1 .. Len(l) : l[i] = d
      BY <1>2, <1>3, <2>6, ListsMember
    <3>2. i \in T /\ T \subseteq Nat
      BY <2>6, <3>1 DEF Child
    <3>3. PICK k \in T : \A j \in T : k <= j
      <4> HIDE DEF T
      <4> QED BY <3>2, LeastNatural
    <3>4. k \in 1 .. Len(l) /\ k \in Nat
      BY <1>2, <3>3
    <3>5. \A j \in 1 .. k - 1 : j \in 1 .. Len(l) /\ ~(k <= j)
      BY <1>2, <3>4
    <3>6. DeadChild(k)
      BY <1>0, <3>3, <3>5 DEF DeadChild
    <3> QED BY <1>2, <1>6, <3>4, <3>6
  <2>7. st \in {"BLOCKED_BY_CHILD", "BLOCKED_BY_MESSAGE", "SLEEPING"} /\ st = "BLOCKED_BY_CHILD"
    BY <2>1
  <2>8. \E d \in Pids : Child(running, d) /\ code \in {-1, d}
    BY <1>2, <1>3, <1>4, <1>6, <2>1
  <2>9. \A d \in Pids : Child(running, d) /\ code \in {-1, d} => state[d] # "ZOMBIE"
    BY <2>6
  <2>10. \A x \in Range(after) :
          /\ st = "BLOCKED_BY_CHILD"
          /\ \/ x.op = "waitpid" /\ x.arg = code /\ Child(running, code)
             \/ x.op = "waitpid_any" /\ code = -1
    BY <2>1, <2>3, <2>4, <2>7
  <2> QED BY <1>1, <2>2, <2>4, <2>5, <2>7, <2>8, <2>9, <2>10, BlockExact
<1> QED BY <1>0, <1>5, <1>6 DEF WaitpidAny

(* The child that the call was about is dead and has not been sealed. *)
LEMMA WaitpidResumesExact ==
  ASSUME ExactInv, WaitpidResumes
  PROVE  ExactInv'
<1>1. /\ running \in Pids /\ kstack[running] # <<>> /\ Top.op \in {"waitpid", "waitpid_any"}
      /\ kstack \in [Pids -> Seq(Frames)] /\ TableInv'
  BY WaitpidResumesInv DEF WaitpidResumes, InKernel, ExactInv, TableInv, TypeOK
<1>2. Calm /\ state[running] = "RUNNING"
  BY <1>1, CalmNow DEF ExactInv, SwitchDue
<1>3. Tail(kstack[running]) = <<>> /\ Top \in Range(kstack[running])
  BY <1>1, RunningShape DEF Bottoms
<1>4. CallRight(running, Top)
  BY <1>1, <1>2, <1>3 DEF ExactInv, CallsInv
<1>5. PICK c : WaitpidReturn(c) /\ Child(running, c) /\ state[c] = "ZOMBIE"
  <2>1. CASE InKernel("waitpid") /\ WaitpidReturn(Top.arg)
    BY <1>2, <1>4, <2>1 DEF CallRight, InKernel
  <2>2. CASE InKernel("waitpid_any") /\ WaitpidReturn(waiting_code[running])
    BY <1>2, <1>4, <2>2 DEF CallRight, InKernel
  <2> QED BY <2>1, <2>2 DEF WaitpidResumes
<1>6. c \in Pids /\ pid[c] = c /\ ~sealed[c] /\ c # NotFound
  BY <1>5 DEF Child, ExactInv, LifeInv, NotFound, Pids
<1>7. Reap(c) /\ kstack' = [kstack EXCEPT ![running] = Tail(@)]
  BY <1>5, <1>6 DEF WaitpidReturn, Pop
<1>8. kstack' = [kstack EXCEPT ![running] = <<>>]
  BY <1>1, <1>3, <1>7
<1> QED BY <1>1, <1>2, <1>5, <1>6, <1>7, <1>8, ReapExact


-------------------------------------------------------------------------------
(* The processes that are woken, by a message or by the clock. *)

LEMMA WakeExact ==
  ASSUME ExactInv, TableInv', Calm, state[running] = "RUNNING", NEW p \in Pids,
         state[p] \in {"BLOCKED_BY_MESSAGE", "SLEEPING"},
         state' = [state EXCEPT ![p] = "WAITING"], queue' = QueueAdd(queue, priority, p),
         Lists(waiting', InState("SLEEPING") \ {p}),
         UNCHANGED <<family, pid, deallocated, sealed, priority, running, lists, waiting_code,
                     panic>>,
         NEW s \in Seq(Frames), kstack' = [kstack EXCEPT ![running] = s], WellStacked(s),
         s = <<>> \/ Head(s).op \notin {"zombify", "destroy"},
         \A x \in Range(s) : x \in Range(kstack[running]) \/ x.op \notin CallOps \cup {"spin", "boot", "hlt"}
  PROVE  ExactInv'
<1>1. running \in Pids /\ kstack \in [Pids -> Seq(Frames)] /\ state \in [Pids -> States]
  BY DEF ExactInv, TableInv, TypeOK
<1>2. /\ father' = father /\ childs' = childs /\ pid' = pid /\ deallocated' = deallocated
      /\ sealed' = sealed /\ priority' = priority /\ running' = running
      /\ to_zombify' = to_zombify /\ to_destroy' = to_destroy /\ free' = free
      /\ waiting_code' = waiting_code /\ panic' = panic
  BY DEF family, lists
<1>3. state'[p] = "WAITING" /\ \A q \in Pids : q # p => state'[q] = state[q]
  BY <1>1
<1>4. kstack'[running] = s /\ \A q \in Pids : q # running => kstack'[q] = kstack[q]
  BY <1>1
<1>5. Calm' /\ p # running
  BY <1>2, <1>4, CalmNext
<1>6. /\ ~deallocated[p] /\ ~sealed[p]
      /\ \A q \in Pids : /\ state'[q] = "UNUSED" <=> state[q] = "UNUSED"
                         /\ state'[q] = "ZOMBIE" <=> state[q] = "ZOMBIE"
                         /\ state'[q] = "BLOCKED_BY_CHILD" <=> state[q] = "BLOCKED_BY_CHILD"
                         /\ Woken(q) => Woken(q)'
  BY <1>3 DEF ExactInv, LifeInv, Woken
<1>7. ListsInv'
  <2>1. /\ queue \in Seq(Pids) /\ priority \in [Pids -> Int]
        /\ Lists(queue, InState("WAITING")) /\ Sorted(queue, priority)
    BY PriorityType DEF ExactInv, TableInv, TypeOK, ListsInv, ReadyListed
  <2>2. p \notin InState("WAITING") /\ InState("WAITING")' = InState("WAITING") \cup {p}
    BY <1>3 DEF InState
  <2>3. /\ Lists(QueueAdd(queue, priority, p), InState("WAITING") \cup {p})
        /\ Sorted(QueueAdd(queue, priority, p), priority)
    BY <2>1, <2>2, QueueAddExact
  <2>4. ReadyListed'
    BY <1>2, <2>2, <2>3 DEF ReadyListed
  <2>5. InState("SLEEPING")' = InState("SLEEPING") \ {p}
    BY <1>3 DEF InState
  <2>6. SleepersListed'
    BY <2>5 DEF SleepersListed
  <2>7. /\ InState("UNUSED")' = InState("UNUSED") /\ Undead' = Undead /\ Doomed' = Doomed
    BY <1>2, <1>5, <1>6 DEF InState, Undead, Doomed, Calm
  <2> QED BY <1>2, <2>4, <2>6, <2>7 DEF ExactInv, ListsInv, FreeListed, UndeadListed,
       DoomedListed
<1>8. LifeInv'
  <2>1. \A q \in Pids : deallocated'[q] \/ sealed'[q] => state'[q] = "ZOMBIE"
    BY <1>2, <1>6 DEF ExactInv, LifeInv
  <2>2. \A q \in Pids : state'[q] = "RUNNING" => q = running'
    BY <1>2, <1>3 DEF ExactInv, LifeInv
  <2>3. \A q \in Pids : state'[q] # "UNUSED" => pid'[q] = q /\ (q # 1 => father'[q] \in Pids)
    BY <1>2, <1>6 DEF ExactInv, LifeInv
  <2>4. /\ state'[1] \in {"WAITING", "RUNNING"}
        /\ state'[running'] \notin {"UNUSED", "WAITING"}
        /\ ~deallocated'[running']
    <3>1. 1 \in Pids
      BY DEF Pids
    <3> QED BY <1>1, <1>2, <1>3, <1>5, <3>1 DEF ExactInv, LifeInv
  <2> QED BY <2>1, <2>2, <2>3, <2>4 DEF LifeInv
<1>9. SwitchDue'
  BY <1>1, <1>2, <1>3, <1>5 DEF SwitchDue
<1>10. StackInv'
  <2>1. \A x \in Range(s) : \/ x \in Range(kstack[running])
                            \/ /\ x.op \in CallOps \cup {"spin"} => running # 1
                               /\ x.op = "spin" => state'[running] = "ZOMBIE"
                               /\ x.op \notin {"boot", "hlt"}
    OBVIOUS
  <2>2. state'[running] # "UNUSED"
    BY <1>1, <1>3, <1>5
  <2> QED BY <1>1, <1>4, <1>5, <1>6, <2>1, <2>2, StackStep
<1>11. CallsInv'
  <2>1. \A q \in Pids : \A x \in Range(kstack'[q]) : x.op \in CallOps => x \in Range(kstack[q])
    BY <1>4
  <2>2. \A q, d \in Pids : Child(q, d) => /\ Child(q, d)'
                                          /\ state[d] = "ZOMBIE" => state'[d] = "ZOMBIE"
    BY <1>2, <1>6 DEF Child
  <2> QED BY <1>2, <1>6, <2>1, <2>2, CallsKept
<1>12. WaitersHaveWakers'
  BY <1>2, <1>5, <1>6 DEF ExactInv, WaitersHaveWakers, Calm
<1>13. BlockerInv'
  BY <1>1, <1>2, <1>3, <1>5 DEF BlockerInv
<1>14. ChildrenListed'
  <2>1. \A q \in Pids : Children(q)' = Children(q)
    BY <1>2, <1>5, <1>6 DEF Children, Calm
  <2> QED BY <1>2, <2>1 DEF ExactInv, ChildrenListed
<1>15. ChildrenGone'
  BY <1>2, <1>5, <1>6 DEF ExactInv, ChildrenGone, Calm, Gone
<1>16. OnlyKnownStops'
  BY <1>2 DEF ExactInv, OnlyKnownStops
<1> QED BY <1>7, <1>8, <1>9, <1>10, <1>11, <1>12, <1>13, <1>14, <1>15, <1>16 DEF ExactInv

LEMMA AwakeExact ==
  ASSUME ExactInv, NEW p \in Pids, Awake(p)
  PROVE  ExactInv'
<1>1. PICK s : s = IF priority[p] > priority[running] THEN <<Schedule>> ELSE <<>>
  OBVIOUS
<1>2. /\ Calm /\ state[running] = "RUNNING" /\ TableInv'
  BY UserMode, AwakeInv DEF Awake, Calling, ExactInv
<1>3. kstack' = [kstack EXCEPT ![running] = s]
  BY <1>1 DEF Awake
<1>4. /\ s \in Seq(Frames) /\ WellStacked(s) /\ Range(s) \subseteq {Schedule}
      /\ s = <<>> \/ Head(s) = Schedule
  BY <1>1, EmptyStack, SingleStack, ScheduleType
<1>5. /\ \A x \in Range(s) : x \in Range(kstack[running]) \/ x.op \notin CallOps \cup {"spin", "boot", "hlt"}
      /\ s = <<>> \/ Head(s).op \notin {"zombify", "destroy"}
  BY <1>4, ScheduleType DEF CallOps
<1>6. /\ state[p] = "BLOCKED_BY_MESSAGE" /\ state' = [state EXCEPT ![p] = "WAITING"]
      /\ queue' = QueueAdd(queue, priority, p)
      /\ UNCHANGED <<family, pid, deallocated, sealed, priority, running, lists, waiting_code,
                     panic>>
      /\ waiting' = waiting
  BY DEF Awake, sleep
<1>7. Lists(waiting', InState("SLEEPING") \ {p})
  <2>1. InState("SLEEPING") \ {p} = InState("SLEEPING")
    BY <1>6 DEF InState
  <2>2. panic # "pids_waiting"
    BY DEF Awake, Calling, InUserMode, None
  <2> QED BY <1>6, <2>1, <2>2 DEF ExactInv, ListsInv, SleepersListed
<1> QED BY <1>2, <1>3, <1>4, <1>5, <1>6, <1>7, WakeExact

(* No sleeper is linked: the assertion of queue_add holds. *)
LEMMA ClockTickWakesExact ==
  ASSUME ExactInv, ClockTickWakes
  PROVE  ExactInv'
<1>1. PICK i \in DOMAIN waiting :
        IF Linked(waiting[i])
          THEN Fail("queue_add")
          ELSE /\ state' = [state EXCEPT ![waiting[i]] = "WAITING"]
               /\ queue' = QueueAdd(queue, priority, waiting[i])
               /\ waiting' = WaitingWithout(i)
               /\ Replace(Frame("clock_woke", 0))
               /\ UNCHANGED <<family, pid, deallocated, sealed, priority, running, lists,
                              sleep_time, clock, waiting_code, panic>>
  BY DEF ClockTickWakes
<1>2. PICK p, f, s : /\ p = waiting[i] /\ f = Frame("clock_woke", 0)
                     /\ s = <<f>> \o Tail(kstack[running])
  OBVIOUS
<1>3. waiting \in Seq(Pids) /\ Lists(waiting, InState("SLEEPING")) /\ i \in 1 .. Len(waiting)
  <2>1. panic # "pids_waiting"
    BY DEF ClockTickWakes, ClockTick, InKernel, None
  <2> QED BY <2>1, LenProperties DEF ExactInv, TableInv, TypeOK, ListsInv, SleepersListed
<1>4. p \in Pids /\ state[p] = "SLEEPING"
  BY <1>2, <1>3, ListsMember DEF InState
<1>5. ~Linked(waiting[i])
  BY <1>2, <1>4, LinkedExact
<1>6. /\ kstack[running] # <<>> /\ Top.op \in {"clock_tick", "clock_woke"} /\ TableInv'
  BY ClockTickWakesInv DEF ClockTickWakes, ClockTick, InKernel, ExactInv
<1>7. Calm /\ state[running] = "RUNNING"
  BY <1>6, CalmNow DEF ExactInv, SwitchDue
<1>8. PICK r : r = Tail(kstack[running])
  OBVIOUS
<1>9. r \in Seq(Frames) /\ WellStacked(r) /\ Range(r) \subseteq Range(kstack[running])
  BY <1>6, <1>8, RunningShape
<1>10. f \in Frames /\ f.op = "clock_woke"
  BY <1>2, FrameType DEF Ops
<1>11. /\ s \in Seq(Frames) /\ s # <<>> /\ Head(s) = f /\ WellStacked(s)
       /\ Range(s) = Range(r) \cup {f}
  BY <1>2, <1>8, <1>9, <1>10, PushedStack DEF Bottoms
<1>12. /\ \A x \in Range(s) : x \in Range(kstack[running]) \/ x.op \notin CallOps \cup {"spin", "boot", "hlt"}
       /\ s = <<>> \/ Head(s).op \notin {"zombify", "destroy"}
  BY <1>9, <1>10, <1>11 DEF CallOps
<1>13. kstack' = [kstack EXCEPT ![running] = s]
  BY <1>1, <1>2, <1>5 DEF Replace
<1>14. Lists(waiting', InState("SLEEPING") \ {p})
  <2>1. Lists(Front([waiting EXCEPT ![i] = Last(waiting)]), InState("SLEEPING") \ {waiting[i]})
    BY <1>3, ListsFillHole
  <2> QED BY <1>1, <1>2, <1>5, <2>1 DEF WaitingWithout
<1>15. /\ state' = [state EXCEPT ![p] = "WAITING"] /\ queue' = QueueAdd(queue, priority, p)
       /\ UNCHANGED <<family, pid, deallocated, sealed, priority, running, lists, waiting_code,
                      panic>>
  BY <1>1, <1>2, <1>5
<1> QED BY <1>4, <1>6, <1>7, <1>11, <1>12, <1>13, <1>14, <1>15, WakeExact
-------------------------------------------------------------------------------
(* chprio: the process is put back where its new priority belongs. *)

LEMMA ChprioRequeues ==
  ASSUME ExactInv, NEW p \in Pids, NEW prio \in Prios, Chprio(p, prio), ~(Requeues(p) /\ ~Linked(p))
  PROVE  ExactInv'
<1>1. /\ TableInv' /\ Calm /\ running \in Pids /\ state[running] = "RUNNING"
      /\ state[p] # "ZOMBIE"
  BY UserMode, ChprioInv DEF Chprio, Calling, ExactInv
<1>2. /\ state[p] = "RUNNING" <=> p = running
      /\ Requeues(p) => state[p] = "WAITING"
  <2>1. state[p] = "RUNNING" <=> p = running
    BY <1>1 DEF ExactInv, LifeInv
  <2> QED BY <2>1, LinkedExact
<1>3. ~(Requeues(p) /\ ~Linked(p))
  OBVIOUS
<1>4. PICK b : b = (\/ prio > priority'[running]
                    \/ p = running /\ priority'[Last(queue')] > prio)
  OBVIOUS
<1>5. PICK s : s = IF b THEN <<Schedule>> ELSE <<>>
  OBVIOUS
<1>6. /\ priority' = [priority EXCEPT ![p] = prio]
      /\ queue' = IF Requeues(p) THEN QueueAdd(Without(queue, p), priority', p) ELSE queue
      /\ kstack' = [kstack EXCEPT ![running] = s]
      /\ UNCHANGED <<family, life, running, lists, sleep, waiting_code, panic>>
  BY <1>3, <1>4, <1>5 DEF Chprio, QueueDel
<1>7. /\ s \in Seq(Frames) /\ WellStacked(s) /\ Range(s) \subseteq {Schedule}
      /\ s = <<>> \/ Head(s) = Schedule
  BY <1>5, EmptyStack, SingleStack, ScheduleType
<1>8. /\ \A x \in Range(s) : x \in Range(kstack[running]) \/ x.op \notin CallOps \cup {"spin", "boot", "hlt"}
      /\ s = <<>> \/ Head(s).op \notin {"zombify", "destroy"}
  BY <1>7, ScheduleType DEF CallOps
<1>9. ReadyListed'
  <2>1. /\ queue \in Seq(Pids) /\ Lists(queue, InState("WAITING")) /\ Sorted(queue, priority)
        /\ priority \in [Pids -> Int] /\ prio \in Int
    BY PriorityType DEF ExactInv, TableInv, TypeOK, ListsInv, ReadyListed, Prios
  <2>2. PICK new : new = priority'
    OBVIOUS
  <2>3. new \in [Pids -> Int] /\ \A q \in Pids : q # p => new[q] = priority[q]
    BY <1>6, <2>1, <2>2
  <2>4. InState("WAITING")' = InState("WAITING")
    BY <1>6 DEF InState, life
  <2>5. CASE Requeues(p)
    <3>1. PICK l : l = Without(queue, p)
      OBVIOUS
    <3>2. /\ l \in Seq(Pids) /\ Lists(l, InState("WAITING") \ {p}) /\ Sorted(l, priority)
      BY <2>1, <3>1, WithoutExact
    <3>3. \A q \in Range(l) : new[q] = priority[q]
      BY <2>3, <3>2 DEF Lists, InState
    <3>4. Sorted(l, new)
      BY <3>2, <3>3, SortedSame
    <3>5. p \in InState("WAITING")
      BY <1>2, <2>5 DEF InState
    <3>6. PICK S : S = InState("WAITING") \ {p}
      OBVIOUS
    <3>7. S \cup {p} = InState("WAITING") /\ p \notin S
      BY <3>5, <3>6
    <3>8. Lists(QueueAdd(l, new, p), S \cup {p}) /\ Sorted(QueueAdd(l, new, p), new)
      BY <2>3, <3>2, <3>4, <3>6, <3>7, QueueAddExact
    <3>9. queue' = QueueAdd(l, new, p)
      BY <1>6, <2>2, <2>5, <3>1
    <3> QED BY <2>2, <2>4, <3>7, <3>8, <3>9 DEF ReadyListed
  <2>6. CASE ~Requeues(p)
    <3>1. p \notin InState("WAITING")
      BY <1>2, <2>6 DEF Requeues, Blocked, InState
    <3>2. \A q \in Range(queue) : new[q] = priority[q]
      BY <2>1, <2>3, <3>1 DEF Lists, InState
    <3>3. Sorted(queue, new)
      BY <2>1, <3>2, SortedSame
    <3>4. queue' = queue
      BY <1>6, <2>6
    <3> QED BY <2>1, <2>2, <2>4, <3>3, <3>4 DEF ReadyListed
  <2> QED BY <2>5, <2>6
<1> QED BY <1>1, <1>6, <1>7, <1>8, <1>9, ReorderExact

LEMMA ChprioExact ==
  ASSUME ExactInv, NEW p \in Pids, NEW prio \in Prios, Chprio(p, prio)
  PROVE  ExactInv'
<1>1. panic = None
  BY DEF Chprio, Calling, InUserMode
<1>2. CASE Fail("queue_del")
  BY <1>1, <1>2, FailExact
<1>3. CASE ~(Requeues(p) /\ ~Linked(p))
  BY <1>3, ChprioRequeues
<1> QED BY <1>2, <1>3 DEF Chprio

-------------------------------------------------------------------------------
LEMMA InitExact == Init => ExactInv
<1> SUFFICES ASSUME Init PROVE ExactInv
  OBVIOUS
<1>1. TableInv /\ TypeOK
  BY InitInv DEF TableInv
<1>2. PICK f, s : f = Frame("boot", 0) /\ s = <<f>>
  OBVIOUS
<1>3. f \in Frames /\ f.op = "boot"
  BY <1>2, FrameType DEF Ops
<1>4. s \in Seq(Frames) /\ s # <<>> /\ Head(s) = f /\ Range(s) = {f} /\ WellStacked(s)
  BY <1>2, <1>3, SingleStack
<1>5. /\ running = 1 /\ 1 \in Pids
      /\ kstack[1] = s /\ \A p \in Pids : p # 1 => kstack[p] = <<>>
  BY <1>2 DEF Init, Pids
<1>6. /\ state[1] = "RUNNING" /\ pid[1] = 1
      /\ \A p \in Pids : /\ p # 1 => state[p] = "UNUSED"
                         /\ ~deallocated[p] /\ ~sealed[p] /\ childs[p] = <<>>
  BY <1>5 DEF Init
<1>7. queue = <<>> /\ to_zombify = <<>> /\ to_destroy = <<>> /\ waiting = <<>> /\ panic = None
  BY DEF Init
<1>8. Calm
  BY <1>3, <1>4, <1>5, CalmNow DEF Top
<1>9. ListsInv
  <2>1. /\ InState("WAITING") = {} /\ InState("SLEEPING") = {} /\ Undead = {} /\ Doomed = {}
    BY <1>6 DEF InState, Undead, Doomed
  <2>2. ReadyListed
    <3>1. Sorted(<<>>, priority)
      <4>1. Len(<<>>) = 0
        BY EmptySeq
      <4> QED BY <4>1 DEF Sorted
    <3> QED BY <1>7, <2>1, <3>1, ListsEmpty DEF ReadyListed
  <2>3. SleepersListed /\ UndeadListed /\ DoomedListed
    BY <1>7, <2>1, ListsEmpty DEF SleepersListed, UndeadListed, DoomedListed
  <2>4. FreeListed
    <3>1. N - 1 \in Nat /\ free = [i \in 1 .. N - 1 |-> i + 1] /\ free \in Seq(Pids)
      BY <1>1 DEF Init, TypeOK
    <3>2. Len(free) = N - 1
      BY <3>1, LenProperties
    <3>3. \A i \in 1 .. N - 1 : free[i] = i + 1
      BY <3>1
    <3>4. \A p : p \in InState("UNUSED") <=> p \in 2 .. N
      BY <1>6 DEF InState, Pids
    <3>5. ASSUME NEW p \in 2 .. N PROVE \E i \in 1 .. Len(free) : free[i] = p
      <4>1. PICK i : i = p - 1
        OBVIOUS
      <4>2. i \in 1 .. N - 1 /\ i + 1 = p
        BY <4>1
      <4>3. i \in 1 .. Len(free) /\ free[i] = p
        BY <3>2, <3>3, <4>2
      <4> QED BY <4>3
    <3>6. \A p : p \in Range(free) <=> p \in 2 .. N
      <4>0. free \in Seq(Pids)
        BY <3>1
      <4>1. \A p : p \in Range(free) <=> \E i \in 1 .. Len(free) : free[i] = p
        BY <4>0, RangeMember
      <4>2. \A i \in 1 .. N - 1 : free[i] \in 2 .. N
        BY <3>3
      <4> QED BY <3>2, <3>5, <4>1, <4>2
    <3>7. Range(free) = InState("UNUSED")
      BY <3>4, <3>6
    <3>8. \A i, j \in 1 .. Len(free) : free[i] = free[j] => i = j
      BY <3>2, <3>3
    <3> QED BY <3>7, <3>8 DEF FreeListed, Lists
  <2> QED BY <2>2, <2>3, <2>4 DEF ListsInv
<1>10. LifeInv
  BY <1>5, <1>6 DEF LifeInv
<1>11. SwitchDue /\ BlockerInv
  BY <1>5, <1>6 DEF SwitchDue, BlockerInv
<1>12. StackInv
  <2>1. \A p \in Pids : WellStacked(kstack[p])
    BY <1>4, <1>5, EmptyStack
  <2>2. \A p \in Pids : \A x \in Range(kstack[p]) : p = 1 /\ x = f
    BY <1>4, <1>5, EmptyStack
  <2>3. \A p \in Pids : state[p] = "UNUSED" => kstack[p] = <<>>
    BY <1>5, <1>6
  <2> QED BY <1>3, <1>8, <2>1, <2>2, <2>3 DEF StackInv, CallOps, Calm
<1>13. CallsInv
  <2>1. \A p \in Pids : \A x \in Range(kstack[p]) : x = f
    BY <1>4, <1>5, EmptyStack
  <2> QED BY <1>3, <2>1 DEF CallsInv, CallRight
<1>14. WaitersHaveWakers
  BY <1>6 DEF WaitersHaveWakers
<1>15. ChildrenListed
  <2>1. father[1] \notin Pids
    BY <1>5 DEF Init, NotFound, Pids
  <2>2. \A p \in Pids : Children(p) = {}
    BY <1>6, <2>1 DEF Children
  <2> QED BY <1>6, <2>2, ListsEmpty DEF ChildrenListed
<1>16. ChildrenGone
  BY <1>6, <1>8 DEF ChildrenGone, Calm
<1>17. OnlyKnownStops
  BY <1>7 DEF OnlyKnownStops
<1> QED BY <1>1, <1>9, <1>10, <1>11, <1>12, <1>13, <1>14, <1>15, <1>16, <1>17 DEF ExactInv

LEMMA StutterExact ==
  ASSUME ExactInv, UNCHANGED vars
  PROVE  ExactInv'
<1>1. /\ UNCHANGED <<pid, father, childs, state, priority, waiting_code, sleep_time, deallocated,
                     sealed, queue, free, to_zombify, to_destroy, waiting, running, kstack,
                     inter, scheduler_delay, panic>>
  BY DEF vars, family, life, sched, lists, sleep, clock
<1>2. TableInv'
  BY <1>1 DEF ExactInv, TableInv, TypeOK, CleaningOnTop
<1>3. (ListsInv /\ LifeInv /\ SwitchDue /\ StackInv)'
  BY <1>1 DEF ExactInv, ListsInv, ReadyListed, SleepersListed, FreeListed, UndeadListed,
     DoomedListed, InState, Undead, Doomed, InFrame, Top, LifeInv, SwitchDue, StackInv
<1>4. (CallsInv /\ WaitersHaveWakers /\ BlockerInv)'
  BY <1>1 DEF ExactInv, CallsInv, CallRight, Child, Woken, WaitersHaveWakers, InFrame, Top,
     BlockerInv
<1>5. (ChildrenListed /\ ChildrenGone /\ OnlyKnownStops)'
  BY <1>1 DEF ExactInv, ChildrenListed, Children, ChildrenGone, Gone, InFrame, Top,
     OnlyKnownStops
<1> QED BY <1>2, <1>3, <1>4, <1>5 DEF ExactInv

LEMMA NextExact ==
  ASSUME Disciplined
  PROVE  ExactInv /\ [Next]_vars => ExactInv'
<1> SUFFICES ASSUME ExactInv, [Next]_vars PROVE ExactInv'
  OBVIOUS
<1>1. CASE KernelStep
  BY <1>1, CleanZombifyExact, ZombifyChildExact, ZombifyEndExact, CleanDestroyExact,
     DestroyChildExact, DestroyEndExact, ScheduleKeepExact, ScheduleSwitchExact,
     StartReturnExact, WaitpidResumesExact, ClockTickWakesExact, ClockTickEndExact DEF KernelStep
<1>2. CASE SystemCall
  BY <1>2, StartExact, StartFailsExact, StartNoNodeExact, ExitExact, KillExact, WaitpidExact,
     AwakeExact, WaitpidAnyExact, WaitClockExact, BlockByMessageExact, ChprioExact
     DEF SystemCall, Blocking
<1>3. CASE Boot \/ Tick
  BY <1>3, BootExact, TickExact
<1>4. CASE Halted \/ UNCHANGED vars
  BY <1>4, StutterExact DEF Halted
<1> QED BY <1>1, <1>2, <1>3, <1>4 DEF Next

LEMMA ExactAlways ==
  ASSUME Disciplined
  PROVE  Spec => []ExactInv
<1> QED BY InitExact, NextExact, PTL DEF Spec

(* What a list without repetition says of the occurrences of a process. *)
LEMMA ListsOnce ==
  ASSUME NEW s \in Seq(Pids), NEW S, Lists(s, S), NEW p
  PROVE  /\ p \in S => OccursOnce(s, p)
         /\ p \notin S => ~Occurs(s, p)
<1>1. DOMAIN s = 1 .. Len(s)
  BY LenProperties
<1>2. /\ p \in S <=> \E i \in 1 .. Len(s) : s[i] = p
      /\ \A i, j \in 1 .. Len(s) : s[i] = s[j] => i = j
  BY ListsMember
<1>3. ASSUME NEW i \in 1 .. Len(s), s[i] = p
      PROVE  OccursOnce(s, p)
  BY <1>1, <1>2, <1>3 DEF OccursOnce
<1> QED BY <1>1, <1>2, <1>3 DEF Occurs

(***************************************************************************)
(* The ready queue of schedule() holds exactly the processes that are      *)
(* ready, in the order of their priorities, and one process runs: after    *)
(* every system call, tick and switch.                                     *)
(***************************************************************************)
THEOREM StatesAreExact ==
  ASSUME Disciplined
  PROVE  Spec => []StatesExact
<1>1. ASSUME ExactInv PROVE StatesExact
  <2>1. /\ queue \in Seq(Pids) /\ Lists(queue, InState("WAITING")) /\ Sorted(queue, priority)
    BY <1>1 DEF ExactInv, TableInv, TypeOK, ListsInv, ReadyListed
  <2>2. DOMAIN queue = 1 .. Len(queue)
    BY <2>1, LenProperties
  <2>3. \A i, j \in 1 .. Len(queue) : queue[i] = queue[j] => i = j
    BY <2>1, ListsMember
  <2>4. \A i, j \in DOMAIN queue : i < j => /\ queue[i] # queue[j]
                                            /\ priority[queue[i]] <= priority[queue[j]]
    BY <2>1, <2>2, <2>3 DEF Sorted
  <2>5. ReadyQueueExact
    BY <1>1, <2>4, LinkedExact DEF ReadyQueueExact
  <2>6. OneRunning
    BY <1>1, UserMode DEF OneRunning, ExactInv, LifeInv
  <2> QED BY <2>5, <2>6 DEF StatesExact
<1> QED BY <1>1, ExactAlways, PTL

(***************************************************************************)
(* clean_processes zombifies and destroys each dead process once, frees no *)
(* stack that is in use, and no assertion on its way fails but that of     *)
(* request_destroy().                                                      *)
(***************************************************************************)
THEOREM CleaningIsExact ==
  ASSUME Disciplined
  PROVE  Spec => []CleaningExact
<1>1. ASSUME ExactInv PROVE CleaningExact
  <2>1. /\ to_zombify \in Seq(Pids) /\ Lists(to_zombify, Undead)
        /\ to_destroy \in Seq(Pids) /\ Lists(to_destroy, Doomed)
    BY <1>1 DEF ExactInv, TableInv, TypeOK, ListsInv, UndeadListed, DoomedListed
  <2>2. \A p \in Pids : /\ p \in Undead <=> state[p] = "ZOMBIE" /\ ~deallocated[p]
                        /\ p \in Doomed <=> sealed[p] /\ ~InFrame("destroy", p)
    BY DEF Undead, Doomed
  <2>3. \A p \in Pids : /\ p \in Undead => OccursOnce(to_zombify, p)
                        /\ p \notin Undead => ~Occurs(to_zombify, p)
                        /\ p \in Doomed => OccursOnce(to_destroy, p)
                        /\ p \notin Doomed => ~Occurs(to_destroy, p)
    BY <2>1, ListsOnce
  <2>4. ListsExact
    BY <2>2, <2>3 DEF ListsExact
  <2>5. StacksLive /\ OnlyKnownStops
    BY <1>1 DEF ExactInv, LifeInv, StacksLive
  <2> QED BY <2>4, <2>5 DEF CleaningExact
<1> QED BY <1>1, ExactAlways, PTL

(***************************************************************************)
(* start() and waitpid() find, when they resume after their schedule(),    *)
(* the child that they were about.                                         *)
(***************************************************************************)
THEOREM CallsResumeRight ==
  ASSUME Disciplined
  PROVE  Spec => []ResumedCallsValid
<1>1. ASSUME ExactInv PROVE ResumedCallsValid
  <2> SUFFICES ASSUME NEW p \in Pids, state[p] # "ZOMBIE", NEW i \in DOMAIN kstack[p],
                      NEW f, f = kstack[p][i]
               PROVE  LET child(c) == c \in Pids /\ pid[c] = c /\ father[c] = p /\ ~sealed[c]
                          woken == state[p] \in {"WAITING", "RUNNING"}
                      IN  /\ f.op \in {"start", "waitpid"} => child(f.arg)
                          /\ f.op = "waitpid" /\ woken => state[f.arg] = "ZOMBIE"
                          /\ f.op = "waitpid_any" /\ woken =>
                               /\ child(waiting_code[p])
                               /\ state[waiting_code[p]] = "ZOMBIE"
    BY DEF ResumedCallsValid
  <2>1. f \in Range(kstack[p])
    <3>1. kstack[p] \in Seq(Frames)
      BY <1>1 DEF ExactInv, TableInv, TypeOK
    <3> QED BY <3>1, LenProperties, RangeMember
  <2>2. CallRight(p, f)
    BY <1>1, <2>1 DEF ExactInv, CallsInv
  <2>3. \A c : Child(p, c) => c \in Pids /\ pid[c] = c /\ father[c] = p /\ ~sealed[c]
    BY <1>1 DEF Child, ExactInv, LifeInv
  <2> QED BY <2>2, <2>3 DEF CallRight, Woken
<1> QED BY <1>1, ExactAlways, PTL

(***************************************************************************)
(* waitpid() loses no wake-up: zombify() of a child that can wake it is    *)
(* still to come.                                                          *)
(***************************************************************************)
THEOREM WakersRemain ==
  ASSUME Disciplined
  PROVE  Spec => []WaitersHaveWakers
<1>1. ExactInv => WaitersHaveWakers
  BY DEF ExactInv
<1> QED BY <1>1, ExactAlways, PTL

(***************************************************************************)
(* start(), failed or not, and destroy() neither lose a pid nor hand one   *)
(* out twice; the lists of children and the fathers agree.                 *)
(***************************************************************************)
THEOREM TableIsExact ==
  ASSUME Disciplined
  PROVE  Spec => []TableAgrees
<1>1. ASSUME ExactInv PROVE TableAgrees
  <2>1. free \in Seq(Pids) /\ Lists(free, InState("UNUSED")) /\ DOMAIN free = 1 .. Len(free)
    BY <1>1, LenProperties DEF ExactInv, TableInv, TypeOK, ListsInv, FreeListed
  <2>2. PidsAccounted
    <3>1. \A p : p \in InState("UNUSED") <=> \E i \in 1 .. Len(free) : free[i] = p
      BY <2>1, ListsMember
    <3>2. \A i, j \in 1 .. Len(free) : free[i] = free[j] => i = j
      BY <2>1, ListsMember
    <3> QED BY <2>1, <3>1, <3>2 DEF PidsAccounted, InState
  <2>3. FamilyAgrees
    <3> SUFFICES ASSUME NEW p \in Pids, NEW c \in Pids, p # 1, state[c] # "UNUSED",
                        ~InFrame("destroy", c)
                 PROVE  IF father[c] = p THEN OccursOnce(childs[p], c) ELSE ~Occurs(childs[p], c)
      BY DEF FamilyAgrees
    <3>1. childs[p] \in Seq(Pids) /\ Lists(childs[p], Children(p))
      BY <1>1 DEF ExactInv, TableInv, TypeOK, ChildrenListed
    <3>2. c \in Children(p) <=> father[c] = p
      BY DEF Children
    <3> QED BY <3>1, <3>2, ListsOnce
  <2> QED BY <2>2, <2>3 DEF TableAgrees
<1> QED BY <1>1, ExactAlways, PTL
-------------------------------------------------------------------------------
(***************************************************************************)
(* What the scheduler promises, from the exact table, for every table size *)
(* and every program that keeps to Disciplined:                            *)
(*   - SleepersAreExact: only one kind of kill breaks pids_waiting;        *)
(*   - PrioritiesHold: in user mode no ready process has a higher priority *)
(*     than the running one, unless the table is full;                     *)
(*   - StopsAreExplained: the kernel stops for the known reasons only;     *)
(*   - StacksAreBounded: schedule() calls itself through clean_processes   *)
(*     and zombify, but a kernel stack holds four activations at most.     *)
(* The second needs that a step which breaks the order of priorities       *)
(* leaves a decision of schedule() to come (HighInv), the third that a     *)
(* dead process has no children when programs wait for theirs (NoOrphans), *)
(* the fourth that the depth of the stack and the number of dead processes *)
(* still to be cleaned are bounded together (DepthInv).                    *)
(***************************************************************************)
-------------------------------------------------------------------------------
(* A waitpid() that was switched out waits for the child it was about. *)
LEMMA WaitpidFinds ==
  ASSUME ExactInv, WaitpidResumes
  PROVE  /\ kstack[running] # <<>> /\ Top.op \in {"waitpid", "waitpid_any"}
         /\ Pop /\ \E c \in Pids : Reap(c)
<1>1. /\ kstack[running] # <<>> /\ Top.op \in {"waitpid", "waitpid_any"}
  BY DEF WaitpidResumes, InKernel
<1>2. state[running] = "RUNNING" /\ running \in Pids
  BY <1>1 DEF ExactInv, SwitchDue, TableInv, TypeOK
<1>3. Top \in Range(kstack[running])
  BY <1>1, RunningShape
<1>4. CallRight(running, Top)
  BY <1>2, <1>3 DEF ExactInv, CallsInv
<1>5. PICK c : WaitpidReturn(c) /\ Child(running, c)
  <2>1. CASE InKernel("waitpid") /\ WaitpidReturn(Top.arg)
    BY <1>4, <2>1 DEF CallRight, InKernel
  <2>2. CASE InKernel("waitpid_any") /\ WaitpidReturn(waiting_code[running])
    BY <1>2, <1>4, <2>2 DEF CallRight, InKernel
  <2> QED BY <2>1, <2>2 DEF WaitpidResumes
<1>6. c \in Pids /\ pid[c] = c /\ ~sealed[c] /\ c # NotFound
  BY <1>5 DEF Child, ExactInv, LifeInv, NotFound, Pids
<1> QED BY <1>1, <1>5, <1>6 DEF WaitpidReturn

(* The steps that stop the kernel. *)
LEMMA PanicStep ==
  ASSUME ExactInv, ExactInv', [Next]_vars
  PROVE  \/ panic' = panic
         \/ panic' = "request_destroy" /\ (ZombifyChild \/ DestroyChild)
         \/ panic' = "queue_del" /\ \E p \in Pids, prio \in Prios : Chprio(p, prio)
         \/ \E p \in Pids : Kill(p)
         \/ panic' = "child_list"
<1>1. panic' \in {None, "request_destroy"} \cup CallStops
  BY DEF ExactInv, OnlyKnownStops
<1>2. CASE ZombifyChild \/ DestroyChild
  BY <1>2 DEF ZombifyChild, DestroyChild, Fail
<1>3. CASE WaitpidResumes
  BY <1>3, WaitpidFinds DEF Reap
<1>4. ASSUME NEW site \in {"zombify", "deallocate", "destroy", "queue_add", "queue_out"}, Fail(site)
      PROVE  FALSE
  BY <1>1, <1>4 DEF Fail, CallStops, None
<1>5. CASE CleanZombify \/ ZombifyEnd \/ CleanDestroy \/ DestroyEnd
  BY <1>4, <1>5 DEF CleanZombify, ZombifyEnd, CleanDestroy, DestroyEnd
<1>6. CASE ScheduleKeep \/ ScheduleSwitch \/ StartReturn \/ ClockTickWakes \/ ClockTickEnd
  BY <1>4, <1>6 DEF ScheduleKeep, ScheduleSwitch, StartReturn, ClockTickWakes, ClockTickEnd
<1>7. CASE SystemCall
  <2>1. CASE \E prio \in Prios : Start(prio) \/ StartFails(prio)
    BY <2>1 DEF Start, StartFails, NewProcess
  <2>2. CASE StartNoNode
    BY <2>2 DEF StartNoNode, Fail
  <2>3. CASE Exit \/ \E p \in Pids : Awake(p)
    BY <2>3 DEF Exit, Awake
  <2>4. CASE Blocking
    BY <2>4 DEF Blocking, Waitpid, WaitpidAny, WaitClock, BlockByMessage, Block, Reap
  <2>5. CASE \E p \in Pids, prio \in Prios : Chprio(p, prio)
    <3>1. PICK p \in Pids, prio \in Prios : Chprio(p, prio)
      BY <2>5
    <3>2. panic' = panic \/ panic' = "queue_del"
      BY <3>1 DEF Chprio, Fail
    <3> QED BY <3>1, <3>2
  <2> QED BY <1>7, <2>1, <2>2, <2>3, <2>4, <2>5 DEF SystemCall
<1>8. CASE Boot \/ Tick
  BY <1>8 DEF Boot, NewProcess, Tick
<1>9. CASE Halted \/ UNCHANGED vars
  BY <1>9 DEF Halted, vars
<1> QED BY <1>2, <1>3, <1>5, <1>6, <1>7, <1>8, <1>9 DEF Next, KernelStep

(* A kill that does more than refuse. *)
LEMMA KillStops ==
  ASSUME ExactInv, NEW p \in Pids, Kill(p)
  PROVE  /\ panic' \in {panic, "queue_del", "init", "pids_waiting"}
         /\ panic' = "queue_del" => state[p] = "UNUSED" /\ pid[p] # NotFound /\ UNCHANGED <<state, pid>>
         /\ panic' = "pids_waiting" => /\ state[p] = "SLEEPING" /\ Last(waiting) # p
                                       /\ state' = [state EXCEPT ![p] = "ZOMBIE"]
                                       /\ waiting' = Front(waiting)
<1>1. /\ panic = None /\ state[running] = "RUNNING" /\ pid[p] # NotFound
      /\ \A q \in Pids : state[q] = "RUNNING" => q = running
  BY UserMode DEF Kill, Calling, InUserMode, Exists, ExactInv, LifeInv
<1>2. CASE p # running /\ state[p] \in {"UNUSED", "WAITING", "RUNNING"} /\ ~Linked(p)
  <2>1. Fail("queue_del")
    BY <1>2 DEF Kill
  <2>2. state[p] = "UNUSED"
    BY <1>1, <1>2, LinkedExact
  <2> QED BY <1>1, <2>1, <2>2 DEF Fail, life
<1>3. CASE Fail("init")
  BY <1>3 DEF Fail
<1>4. CASE /\ RequestZombify(p, <<>>) /\ waiting' = WaitingAfterKill(p)
           /\ panic' = IF ForgetsSleeper(p) THEN "pids_waiting" ELSE panic
  BY <1>1, <1>4 DEF RequestZombify, WaitingAfterKill, ForgetsSleeper, None
<1> QED BY <1>2, <1>3, <1>4 DEF Kill

(* Once the kernel has stopped nothing changes. *)
LEMMA Stopped ==
  ASSUME panic # None, [Next]_vars
  PROVE  UNCHANGED vars
<1>1. \A op : ~InKernel(op)
  BY DEF InKernel
<1>2. ~InUserMode /\ \A call : ~Calling(call)
  BY DEF InUserMode, Calling
<1>3. ~KernelStep
  BY <1>1 DEF KernelStep, CleanZombify, ZombifyChild, ZombifyEnd, CleanDestroy, DestroyChild,
     DestroyEnd, ScheduleKeep, ScheduleSwitch, StartReturn, WaitpidResumes, ClockTickWakes,
     ClockTickEnd, ClockTick
<1>4. ~SystemCall
  BY <1>2 DEF SystemCall, Blocking, Start, StartFails, StartNoNode, Exit, Kill, Waitpid, Awake,
     WaitpidAny, WaitClock, BlockByMessage, Chprio
<1>5. ~Boot /\ ~Tick
  BY <1>1, <1>2 DEF Boot, Tick, Interruptible
<1> QED BY <1>3, <1>4, <1>5 DEF Next, Halted

(***************************************************************************)
(* Whatever else processes do, only the kill of a sleeper that is not the  *)
(* last of pids_waiting breaks the correspondence between that list and    *)
(* the sleeping processes.                                                 *)
(***************************************************************************)
THEOREM SleepersAreExact ==
  ASSUME Disciplined
  PROVE  Spec => SleepersKept
<1> DEFINE Loses == \E p \in Pids : /\ state[p] = "SLEEPING" /\ Last(waiting) # p
                                    /\ state'[p] = "ZOMBIE"
<1>1. ASSUME ExactInv, panic # "pids_waiting" PROVE SleepersExact
  <2>1. waiting \in Seq(Pids) /\ Lists(waiting, InState("SLEEPING"))
    BY <1>1 DEF ExactInv, TableInv, TypeOK, ListsInv, SleepersListed
  <2>2. \A p \in Pids : p \in InState("SLEEPING") <=> state[p] = "SLEEPING"
    BY DEF InState
  <2> QED BY <2>1, <2>2, ListsOnce DEF SleepersExact
<1>2. (ExactInv /\ panic # "pids_waiting" => SleepersExact)'
  BY <1>1, PTL
<1>3. ASSUME ExactInv, ExactInv', [Next]_vars
      PROVE  [SleepersExact => SleepersExact' \/ Loses]_vars
  <2>1. CASE panic # None
    BY <1>3, <2>1, Stopped
  <2>2. CASE panic = None /\ panic' # "pids_waiting"
    BY <1>2, <1>3, <2>2
  <2>3. CASE panic = None /\ panic' = "pids_waiting"
    <3>1. PICK p \in Pids : Kill(p)
      BY <1>3, <2>3, PanicStep DEF None
    <3>2. /\ state[p] = "SLEEPING" /\ Last(waiting) # p
          /\ state' = [state EXCEPT ![p] = "ZOMBIE"]
      BY <1>3, <2>3, <3>1, KillStops
    <3>3. state'[p] = "ZOMBIE"
      BY <1>3, <3>2 DEF ExactInv, TableInv, TypeOK
    <3> QED BY <3>2, <3>3
  <2> QED BY <2>1, <2>2, <2>3
<1>4. ExactInv /\ ExactInv' /\ [Next]_vars => [SleepersExact => SleepersExact' \/ Loses]_vars
  BY <1>3
<1> QED BY <1>4, ExactAlways, PTL DEF Spec, SleepersKept

(***************************************************************************)
(* When every process waits for its children before it dies, zombify() and *)
(* destroy() have no children to deal with.                                *)
(***************************************************************************)
NoOrphans == \A p \in Pids : state[p] = "ZOMBIE" => childs[p] = <<>>

(* A step that neither kills nor gives a child keeps it so. *)
LEMMA NoOrphansKept ==
  ASSUME NoOrphans, childs' = childs,
         \A p \in Pids : state'[p] = "ZOMBIE" => state[p] = "ZOMBIE"
  PROVE  NoOrphans'
BY DEF NoOrphans

LEMMA NewProcessNoOrphans ==
  ASSUME ExactInv, NoOrphans, running \in Pids, state[running] = "RUNNING", free # <<>>,
         NEW prio, NewProcess(running, Head(free), prio)
  PROVE  NoOrphans'
<1>1. PICK c : c = Head(free)
  OBVIOUS
<1>2. /\ childs' = [childs EXCEPT ![running] = <<c>> \o @, ![c] = <<>>]
      /\ state' = [state EXCEPT ![c] = "WAITING"]
      /\ childs \in [Pids -> Seq(Pids)] /\ state \in [Pids -> States]
  BY <1>1 DEF NewProcess, ExactInv, TableInv, TypeOK
<1>3. ASSUME NEW p \in Pids, state'[p] = "ZOMBIE" PROVE childs'[p] = <<>>
  <2>1. p # running /\ p # c /\ state[p] = "ZOMBIE"
    BY <1>2, <1>3
  <2> QED BY <1>2, <2>1 DEF NoOrphans
<1> QED BY <1>3 DEF NoOrphans

LEMMA NoOrphansStep ==
  ASSUME "orphans" \notin Allowed, ExactInv, NoOrphans, [Next]_vars
  PROVE  NoOrphans'
<1>0. /\ running \in Pids /\ state \in [Pids -> States] /\ childs \in [Pids -> Seq(Pids)]
  BY DEF ExactInv, TableInv, TypeOK
<1>1. ASSUME NEW site, Fail(site) PROVE NoOrphans'
  BY <1>1, NoOrphansKept DEF Fail, family, life
<1>2. CASE CleanZombify \/ ScheduleKeep \/ StartReturn \/ ClockTickEnd
  BY <1>1, <1>2, NoOrphansKept
     DEF CleanZombify, ScheduleKeep, StartReturn, ClockTickEnd, family, life
<1>3. CASE ZombifyChild
  <2>1. Top.arg \in Pids /\ childs[Top.arg] = <<>> /\ Top.at \in Nat \ {0}
    BY <1>3, InZombify DEF ZombifyChild, NoOrphans
  <2>2. Len(childs[Top.arg]) = 0
    BY <2>1, EmptySeq
  <2> QED BY <1>3, <2>1, <2>2 DEF ZombifyChild
<1>4. CASE ZombifyEnd
  <2>1. state' = state \/ \E f : state' = [state EXCEPT ![f] = "WAITING"]
    BY <1>4 DEF ZombifyEnd
  <2>2. \A p \in Pids : state'[p] = "ZOMBIE" => state[p] = "ZOMBIE"
    BY <1>0, <2>1
  <2> QED BY <1>4, <2>2, NoOrphansKept DEF ZombifyEnd, family
<1>5. CASE CleanDestroy
  <2>1. PICK p : p = Picked(to_destroy)
    OBVIOUS
  <2>2. CASE Fail("destroy")
    BY <1>1, <2>2
  <2>3. CASE childs' = [childs EXCEPT ![father[p]] = Without(@, p)] /\ UNCHANGED life
    <3>1. \A q \in Pids : childs[q] = <<>> => Without(childs[q], p) = <<>>
      <4>1. DOMAIN <<>> = {}
        OBVIOUS
      <4> QED BY <4>1 DEF Without
    <3>2. \A q \in Pids : childs'[q] = childs[q] \/ childs'[q] = Without(childs[q], p)
      BY <1>0, <2>3
    <3> QED BY <2>3, <3>1, <3>2 DEF NoOrphans, life
  <2> QED BY <1>5, <2>1, <2>2, <2>3 DEF CleanDestroy
<1>6. CASE DestroyChild
  <2>1. Top.arg \in Pids /\ childs[Top.arg] = <<>>
    BY <1>6, InDestroy DEF DestroyChild, NoOrphans
  <2> QED BY <1>6, <2>1 DEF DestroyChild
<1>7. CASE DestroyEnd
  <2>1. \E p : state' = [state EXCEPT ![p] = "UNUSED"]
    BY <1>7 DEF DestroyEnd
  <2>2. \A p \in Pids : state'[p] = "ZOMBIE" => state[p] = "ZOMBIE"
    BY <1>0, <2>1
  <2> QED BY <1>7, <2>2, NoOrphansKept DEF DestroyEnd
<1>8. CASE ScheduleSwitch
  <2>1. CASE queue = <<>>
    BY <1>1, <1>8, <2>1 DEF ScheduleSwitch
  <2>2. CASE queue # <<>>
    <3>1. /\ state' = [state EXCEPT ![running] = IF state[running] = "RUNNING" THEN "WAITING" ELSE @,
                                    ![Last(queue)] = "RUNNING"]
          /\ childs' = childs
      BY <1>8, <2>2 DEF ScheduleSwitch, family
    <3>2. \A p \in Pids : state'[p] = "ZOMBIE" => state[p] = "ZOMBIE"
      BY <1>0, <3>1
    <3> QED BY <3>1, <3>2, NoOrphansKept
  <2> QED BY <2>1, <2>2
<1>9. CASE ClockTickWakes
  <2>1. Fail("queue_add") \/ \E p : state' = [state EXCEPT ![p] = "WAITING"] /\ childs' = childs
    BY <1>9 DEF ClockTickWakes, family
  <2>2. ASSUME NEW p, state' = [state EXCEPT ![p] = "WAITING"], childs' = childs
        PROVE  NoOrphans'
    <3>1. \A q \in Pids : state'[q] = "ZOMBIE" => state[q] = "ZOMBIE"
      BY <1>0, <2>2
    <3> QED BY <2>2, <3>1, NoOrphansKept
  <2> QED BY <1>1, <2>1, <2>2
<1>10. CASE WaitpidResumes
  BY <1>10, WaitpidFinds, NoOrphansKept DEF Reap, family
<1>11. CASE \E prio \in Prios : Start(prio)
  <2>1. InUserMode /\ free # <<>> /\ \E prio \in Prios : NewProcess(running, Head(free), prio)
    BY <1>11 DEF Start, Calling, Full
  <2> QED BY <1>0, <2>1, UserMode, NewProcessNoOrphans
<1>12. CASE \E prio \in Prios : StartFails(prio)
  <2>1. childs' = [childs EXCEPT ![Head(free)] = <<>>] /\ state' = state
    BY <1>12 DEF StartFails
  <2> QED BY <1>0, <2>1 DEF NoOrphans
<1>13. CASE MayDie(running) /\ Exit
  <2>1. childs[running] = <<>> /\ state' = [state EXCEPT ![running] = "ZOMBIE"] /\ childs' = childs
    BY <1>13 DEF MayDie, Exit, RequestZombify, family
  <2> QED BY <1>0, <2>1 DEF NoOrphans
<1>14. CASE \E p \in Pids : MayKill(p) /\ Kill(p)
  <2>1. PICK p \in Pids : MayKill(p) /\ Kill(p)
    BY <1>14
  <2>2. CASE Fail("queue_del") \/ Fail("init")
    BY <1>1, <2>2
  <2>3. CASE p # 1 /\ RequestZombify(p, <<>>)
    <3>1. childs[p] = <<>> /\ state' = [state EXCEPT ![p] = "ZOMBIE"] /\ childs' = childs
      BY <2>1, <2>3 DEF MayKill, MayDie, RequestZombify, family
    <3> QED BY <1>0, <3>1 DEF NoOrphans
  <2> QED BY <2>1, <2>2, <2>3 DEF Kill
<1>15. ASSUME NEW st \in {"BLOCKED_BY_CHILD", "BLOCKED_BY_MESSAGE", "SLEEPING"}, NEW code, NEW after,
              Block(st, code, after)
       PROVE  NoOrphans'
  <2>1. state' = [state EXCEPT ![running] = st] /\ childs' = childs
    BY <1>15 DEF Block, family
  <2>2. \A q \in Pids : state'[q] = "ZOMBIE" => state[q] = "ZOMBIE"
    BY <1>0, <2>1
  <2> QED BY <2>1, <2>2, NoOrphansKept
<1>16. ASSUME NEW c, Reap(c) PROVE NoOrphans'
  BY <1>16, NoOrphansKept DEF Reap, family
<1>17. CASE Blocking
  BY <1>15, <1>16, <1>17 DEF Blocking, Waitpid, WaitpidAny, WaitClock, BlockByMessage
<1>18. CASE StartNoNode
  BY <1>1, <1>18 DEF StartNoNode
<1>19. CASE \E p \in Pids : Awake(p)
  <2>1. \E p : state' = [state EXCEPT ![p] = "WAITING"]
    BY <1>19 DEF Awake
  <2>2. \A q \in Pids : state'[q] = "ZOMBIE" => state[q] = "ZOMBIE"
    BY <1>0, <2>1
  <2> QED BY <1>19, <2>2, NoOrphansKept DEF Awake, family
<1>20. CASE \E p \in Pids, prio \in Prios : Chprio(p, prio)
  <2>1. Fail("queue_del") \/ UNCHANGED <<family, life>>
    BY <1>20 DEF Chprio
  <2> QED BY <1>1, <2>1, NoOrphansKept DEF family, life
<1>21. CASE Boot
  <2>1. kstack[running] # <<>> /\ Top.op = "boot"
    BY <1>21 DEF Boot, InKernel
  <2>2. running = 1 /\ state[running] = "RUNNING"
    <3>1. Top \in Range(kstack[running])
      BY <2>1, RunningShape
    <3> QED BY <1>0, <2>1, <3>1 DEF ExactInv, StackInv, SwitchDue
  <2>3. free # <<>> /\ NewProcess(running, Head(free), 2)
    BY <1>21, <2>2 DEF Boot, Full
  <2> QED BY <1>0, <2>2, <2>3, NewProcessNoOrphans
<1>22. CASE Tick \/ Halted \/ UNCHANGED vars
  BY <1>22, NoOrphansKept DEF Tick, Halted, vars, family, life
<1> QED BY <1>2, <1>3, <1>4, <1>5, <1>6, <1>7, <1>8, <1>9, <1>10, <1>11, <1>12, <1>13, <1>14,
       <1>17, <1>18, <1>19, <1>20, <1>21, <1>22 DEF Next, KernelStep, SystemCall

-------------------------------------------------------------------------------
(***************************************************************************)
(* A kernel stack that will come to a decision of schedule() before its    *)
(* process is back in user mode; when there is none, the running process   *)
(* has the highest priority, unless the table is full and it is not init.  *)
(***************************************************************************)
Decides(s) == \E f \in Range(s) : f.op \in {"schedule", "zombify", "clock_woke"}

HighInv ==
  (Full => running = 1) /\ ~Decides(kstack[running]) =>
    \A p \in Pids : state[p] = "WAITING" => priority[p] <= priority[running]

LEMMA HighLater ==
  ASSUME running' = running, NEW s \in Seq(Frames), s # <<>>,
         Head(s).op \in {"schedule", "zombify", "clock_woke"}, kstack'[running] = s
  PROVE  HighInv'
<1>1. Head(s) \in Range(s)
  BY RangeTail
<1>2. Decides(kstack'[running'])
  BY <1>1 DEF Decides
<1> QED BY <1>2 DEF HighInv

LEMMA HighKept ==
  ASSUME HighInv, running' = running, state' = state, priority' = priority,
         free = <<>> => free' = <<>>, Decides(kstack[running]) => Decides(kstack'[running])
  PROVE  HighInv'
BY DEF HighInv, Full

LEMMA HighFail ==
  ASSUME HighInv, NEW site, Fail(site)
  PROVE  HighInv'
BY HighKept DEF Fail, life, sched, lists

(* A pop of an activation after which no schedule() is due. *)
LEMMA HighPop ==
  ASSUME ExactInv, HighInv, running' = running, state' = state, priority' = priority,
         free' = free, kstack[running] # <<>>, kstack' = [kstack EXCEPT ![running] = Tail(@)],
         Top.op \notin {"schedule", "zombify", "clock_woke"}
  PROVE  HighInv'
<1>1. PICK s : s = kstack[running]
  OBVIOUS
<1>2. s \in Seq(Frames) /\ s # <<>> /\ kstack'[running] = Tail(s)
  BY <1>1, RunningShape
<1>3. Range(s) = Range(Tail(s)) \cup {Head(s)} /\ Head(s) = Top
  BY <1>1, <1>2, RangeTail DEF Top
<1>4. Decides(kstack[running]) => Decides(kstack'[running])
  BY <1>1, <1>2, <1>3 DEF Decides
<1> QED BY <1>4, HighKept

(* The decision to keep the running process. *)
LEMMA KeepHigh ==
  ASSUME ExactInv, ScheduleKeep
  PROVE  HighInv'
<1>1. /\ running' = running /\ state' = state /\ priority' = priority /\ free' = free
      /\ KeepsRunning
  BY DEF ScheduleKeep, life, sched, lists
<1>2. SUFFICES ASSUME Full => running = 1, NEW p \in Pids, state[p] = "WAITING"
               PROVE  priority[p] <= priority[running]
  BY <1>1 DEF HighInv, Full
<1>3. /\ queue \in Seq(Pids) /\ Lists(queue, InState("WAITING")) /\ Sorted(queue, priority)
      /\ priority \in [Pids -> Int] /\ running \in Pids
  BY PriorityType DEF ExactInv, TableInv, TypeOK, ListsInv, ReadyListed
<1>4. p \in InState("WAITING")
  BY <1>2 DEF InState
<1>5. queue # <<>>
  BY <1>3, <1>4, ListsMember
<1>6. /\ Last(queue) \in Pids /\ Last(queue) \in InState("WAITING")
      /\ p = Last(queue) \/ priority[p] <= priority[Last(queue)]
  BY <1>3, <1>4, <1>5, FrontExact
<1>7. Last(queue) # running
  BY <1>6 DEF InState, ExactInv, LifeInv
<1>8. Candidate = Last(queue) /\ Candidate \notin {0, running}
  BY <1>2, <1>5, <1>6, <1>7 DEF Candidate, Pids
<1>9. priority[running] > priority[Last(queue)]
  BY <1>1, <1>8 DEF KeepsRunning
<1>10. priority[p] \in Int /\ priority[running] \in Int /\ priority[Last(queue)] \in Int
  BY <1>3, <1>6
<1> QED BY <1>6, <1>9, <1>10

(* The decision to switch. *)
LEMMA SwitchHigh ==
  ASSUME ExactInv, HighInv, ScheduleSwitch
  PROVE  HighInv'
<1>1. CASE queue = <<>>
  BY <1>1, HighFail DEF ScheduleSwitch
<1>2. CASE queue # <<>>
  <2>1. PICK new : new = Last(queue)
    OBVIOUS
  <2>2. /\ running' = new
        /\ state' = [state EXCEPT ![running] = IF state[running] = "RUNNING" THEN "WAITING" ELSE @,
                                  ![new] = "RUNNING"]
        /\ priority' = priority /\ free' = free /\ ~KeepsRunning
    BY <1>2, <2>1 DEF ScheduleSwitch, lists
  <2> SUFFICES ASSUME Full => new = 1, NEW p \in Pids, state'[p] = "WAITING"
               PROVE  priority[p] <= priority[new]
    BY <2>2 DEF HighInv, Full
  <2>3. /\ queue \in Seq(Pids) /\ Lists(queue, InState("WAITING")) /\ Sorted(queue, priority)
        /\ priority \in [Pids -> Int] /\ running \in Pids /\ state \in [Pids -> States]
    BY PriorityType DEF ExactInv, TableInv, TypeOK, ListsInv, ReadyListed
  <2>4. /\ new \in Pids /\ new \in InState("WAITING")
        /\ \A q \in InState("WAITING") : q = new \/ priority[q] <= priority[new]
    BY <1>2, <2>1, <2>3, FrontExact
  <2>5. /\ priority[p] \in Int /\ priority[new] \in Int /\ priority[running] \in Int
    BY <2>3, <2>4
  <2>6. CASE p = running
    <3>1. state[running] = "RUNNING" /\ new # running
      BY <2>2, <2>3, <2>4, <2>6 DEF InState, ExactInv, LifeInv
    <3>2. Candidate = new
      BY <1>2, <2>1 DEF Candidate
    <3>3. ~(priority[running] > priority[new])
      BY <2>2, <3>1, <3>2 DEF KeepsRunning
    <3> QED BY <2>5, <2>6, <3>3
  <2>7. CASE p # running
    <3>1. p \in InState("WAITING")
      BY <2>2, <2>3, <2>4, <2>7 DEF InState
    <3> QED BY <2>4, <2>5, <3>1
  <2> QED BY <2>6, <2>7
<1> QED BY <1>1, <1>2

(* The steps of clean_processes lead to another schedule(). *)
LEMMA CleaningHigh ==
  ASSUME ExactInv, HighInv,
         CleanZombify \/ ZombifyChild \/ ZombifyEnd \/ CleanDestroy \/ DestroyChild \/ DestroyEnd
  PROVE  HighInv'
<1>0. PICK old, r : old = kstack[running] /\ r = Tail(old)
  OBVIOUS
<1>1. /\ kstack \in [Pids -> Seq(Frames)] /\ running \in Pids /\ old # <<>>
      /\ old \in Seq(Frames) /\ r \in Seq(Frames) /\ Top = Head(old) /\ Top \in Range(old)
      /\ WellStacked(old) /\ WellStacked(r)
      /\ Top.op = "destroy" => r # <<>> /\ Head(r).op = "schedule"
      /\ Range(old) = Range(r) \cup {Top}
  <2>1. kstack[running] # <<>>
    BY DEF CleanZombify, ZombifyChild, ZombifyEnd, CleanDestroy, DestroyChild, DestroyEnd, InKernel
  <2>2. old \in Seq(Frames) /\ old # <<>>
    BY <1>0, <2>1, RunningShape
  <2>3. Range(old) = Range(r) \cup {Head(old)}
    BY <1>0, <2>2, RangeTail
  <2> QED BY <1>0, <2>1, <2>2, <2>3, RunningShape DEF Top
<1>2. CASE CleanZombify
  <2>1. PICK p, f, s : p = Picked(to_zombify) /\ f = Frame("zombify", p) /\ s = <<f>> \o old
    OBVIOUS
  <2>2. p \in Pids /\ p # running
    <3>1. to_zombify \in Seq(Pids) /\ Lists(to_zombify, Undead) /\ CanPick(to_zombify)
      BY <1>2 DEF CleanZombify, ExactInv, TableInv, TypeOK, ListsInv, UndeadListed
    <3> QED BY <1>1, <2>1, <3>1, PickedExact
  <2>3. f \in Frames /\ f.op = "zombify"
    <3>1. "zombify" \in Ops /\ p \in 0 .. N
      BY <2>2 DEF Ops, Pids
    <3> QED BY <2>1, <3>1, FrameType
  <2>4. s \in Seq(Frames) /\ s # <<>> /\ Head(s) = f
    BY <1>1, <2>1, <2>3, PushedStack DEF Bottoms
  <2>5. CASE Fail("zombify") \/ Fail("deallocate")
    BY <2>5, HighFail
  <2>6. CASE /\ kstack' = [kstack EXCEPT ![p] = <<>>, ![running] = <<f>> \o @]
             /\ running' = running
    <3>1. kstack'[running] = s
      BY <1>0, <1>1, <2>1, <2>2, <2>6
    <3> QED BY <2>3, <2>4, <2>6, <3>1, HighLater
  <2> QED BY <1>2, <2>1, <2>5, <2>6 DEF CleanZombify, sched
<1>3. CASE ZombifyChild
  <2>1. Top.op = "zombify" /\ Top \in Frames
    BY <1>3, InZombify DEF ZombifyChild
  <2>2. CASE Fail("request_destroy")
    BY <2>2, HighFail
  <2>3. CASE kstack' = kstack /\ running' = running
    BY <1>0, <1>1, <2>1, <2>3, HighLater
  <2>4. CASE Replace([Top EXCEPT !.at = Top.at + 1]) /\ running' = running
    <3>1. PICK f, s : f = [Top EXCEPT !.at = Top.at + 1] /\ s = <<f>> \o r
      OBVIOUS
    <3>2. f \in Frames /\ f.op = "zombify"
      BY <2>1, <3>1 DEF Frames
    <3>3. s \in Seq(Frames) /\ s # <<>> /\ Head(s) = f
      BY <1>1, <3>1, <3>2, PushedStack DEF Bottoms
    <3>4. kstack'[running] = s
      BY <1>0, <1>1, <2>4, <3>1 DEF Replace
    <3> QED BY <2>4, <3>2, <3>3, <3>4, HighLater
  <2> QED BY <1>3, <2>2, <2>3, <2>4 DEF ZombifyChild, sched
<1>4. CASE ZombifyEnd
  <2>1. PICK s : s = <<Schedule>> \o r
    OBVIOUS
  <2>2. s \in Seq(Frames) /\ s # <<>> /\ Head(s) = Schedule
    BY <1>1, <2>1, ScheduleType, PushedStack DEF Bottoms
  <2>3. kstack'[running] = s /\ running' = running
    BY <1>0, <1>1, <1>4, <2>1 DEF ZombifyEnd, Replace
  <2> QED BY <2>2, <2>3, ScheduleType, HighLater
<1>5. CASE CleanDestroy
  <2>1. PICK f, s : f = Frame("destroy", Picked(to_destroy)) /\ s = <<f>> \o old
    OBVIOUS
  <2>2. CASE Fail("destroy")
    BY <2>2, HighFail
  <2>3. CASE Push(f) /\ running' = running
    <3>1. Picked(to_destroy) \in Pids
      <4>1. to_destroy \in Seq(Pids) /\ Lists(to_destroy, Doomed) /\ CanPick(to_destroy)
        BY <1>5 DEF CleanDestroy, ExactInv, TableInv, TypeOK, ListsInv, DoomedListed
      <4> QED BY <1>1, <4>1, PickedExact
    <3>2. f \in Frames /\ f.op = "destroy"
      <4>1. "destroy" \in Ops /\ Picked(to_destroy) \in 0 .. N
        BY <3>1 DEF Ops, Pids
      <4> QED BY <2>1, <4>1, FrameType
    <3>3. Top.op = "schedule" /\ Head(old).op = "schedule"
      BY <1>1, <1>5 DEF CleanDestroy, InKernel
    <3>4. Range(s) = Range(old) \cup {f}
      BY <1>1, <2>1, <3>2, <3>3, PushedStack DEF Bottoms
    <3>5. kstack'[running] = s
      BY <1>0, <1>1, <2>1, <2>3 DEF Push
    <3>6. Decides(kstack'[running'])
      BY <1>1, <2>3, <3>3, <3>4, <3>5 DEF Decides
    <3> QED BY <3>6 DEF HighInv
  <2> QED BY <1>5, <2>1, <2>2, <2>3 DEF CleanDestroy, sched
<1>6. CASE DestroyChild
  <2>1. CASE Fail("request_destroy")
    BY <2>1, HighFail
  <2>2. CASE kstack' = kstack /\ running' = running
    <3>1. Top.op = "destroy"
      BY <1>6 DEF DestroyChild, InKernel
    <3>2. Head(r) \in Range(r) /\ Head(r).op = "schedule"
      BY <1>1, <3>1, RangeTail
    <3>3. Decides(kstack'[running'])
      BY <1>0, <1>1, <2>2, <3>2 DEF Decides
    <3> QED BY <3>3 DEF HighInv
  <2> QED BY <1>6, <2>1, <2>2 DEF DestroyChild, sched
<1>7. CASE DestroyEnd
  <2>1. Top.op = "destroy" /\ Top.arg # running
    BY <1>7, InDestroy DEF DestroyEnd
  <2>2. kstack'[running] = r /\ running' = running
    BY <1>0, <1>1, <1>7, <2>1 DEF DestroyEnd
  <2> QED BY <1>1, <2>1, <2>2, HighLater
<1> QED BY <1>2, <1>3, <1>4, <1>5, <1>6, <1>7

(* Before a system call the running process has the highest priority. *)
LEMMA HighInUserMode ==
  ASSUME ExactInv, HighInv, InUserMode
  PROVE  /\ running \in Pids /\ priority \in [Pids -> Int] /\ state \in [Pids -> States]
         /\ kstack \in [Pids -> Seq(Frames)]
         /\ ~Full => \A p \in Pids : state[p] = "WAITING" => priority[p] <= priority[running]
<1>1. running \in Pids /\ kstack[running] = <<>>
  BY UserMode
<1>2. ~Decides(kstack[running])
  BY <1>1, EmptyStack DEF Decides
<1> QED BY <1>1, <1>2, PriorityType DEF HighInv, ExactInv, TableInv, TypeOK

(* After a call that ends with a schedule(). *)
LEMMA HighSchedules ==
  ASSUME ExactInv, running' = running, NEW r \in Seq(Frames), WellStacked(r),
         kstack' = [kstack EXCEPT ![running] = <<Schedule>> \o r]
  PROVE  HighInv'
<1>1. PICK s : s = <<Schedule>> \o r
  OBVIOUS
<1>2. s \in Seq(Frames) /\ s # <<>> /\ Head(s) = Schedule
  BY <1>1, ScheduleType, PushedStack DEF Bottoms
<1>3. kstack'[running] = s
  BY <1>1 DEF ExactInv, TableInv, TypeOK
<1> QED BY <1>2, <1>3, ScheduleType, HighLater

(* A process that becomes ready in a call without schedule(). *)
LEMMA HighReady ==
  ASSUME ExactInv, HighInv, InUserMode, NEW c \in Pids, running' = running,
         free' = free \/ free # <<>>, state' = [state EXCEPT ![c] = "WAITING"],
         \A p \in Pids : p # c => priority'[p] = priority[p],
         priority'[c] <= priority[running], c # running, free = <<>> => free' = <<>>
  PROVE  HighInv'
<1>1. running # 1 /\ (free # <<>> => \A p \in Pids : state[p] = "WAITING" => priority[p] <= priority[running])
  BY HighInUserMode DEF InUserMode, Full
<1>2. state \in [Pids -> States] /\ priority'[running] = priority[running]
  BY HighInUserMode
<1>3. CASE free' = <<>>
  BY <1>1, <1>3 DEF HighInv, Full
<1>4. CASE free' # <<>>
  BY <1>1, <1>2, <1>4 DEF HighInv
<1> QED BY <1>3, <1>4

LEMMA StartHigh ==
  ASSUME ExactInv, HighInv, NEW prio \in Prios, Start(prio)
  PROVE  HighInv'
<1>1. PICK c, f : c = Head(free) /\ f = Frame("start", c)
  OBVIOUS
<1>2. InUserMode /\ free # <<>> /\ NewProcess(running, c, prio)
  BY <1>1 DEF Start, Calling, Full
<1>3. /\ free \in Seq(Pids) /\ c \in Pids /\ state[c] = "UNUSED"
  <2>1. free \in Seq(Pids) /\ Lists(free, InState("UNUSED"))
    BY DEF ExactInv, TableInv, TypeOK, ListsInv, FreeListed
  <2>2. c \in InState("UNUSED")
    BY <1>1, <1>2, <2>1, ListsTail
  <2> QED BY <2>1, <2>2 DEF InState
<1>4. running \in Pids /\ c # running /\ priority \in [Pids -> Int] /\ prio \in Int
  BY <1>2, <1>3, HighInUserMode, UserMode DEF Prios
<1>5. f \in Frames /\ f.op = "start"
  <2>1. "start" \in Ops /\ c \in 0 .. N
    BY <1>3 DEF Ops, Pids
  <2> QED BY <1>1, <2>1, FrameType
<1>6. <<f>> \in Seq(Frames) /\ WellStacked(<<f>>)
  BY <1>5, SingleStack
<1>7. /\ running' = running /\ priority' = [priority EXCEPT ![c] = prio]
      /\ state' = [state EXCEPT ![c] = "WAITING"]
  BY <1>2 DEF NewProcess
<1>8. CASE prio > priority[running]
  <2>1. kstack' = [kstack EXCEPT ![running] = <<Schedule>> \o <<f>>]
    BY <1>1, <1>8 DEF Start
  <2> QED BY <1>6, <1>7, <2>1, HighSchedules
<1>9. CASE ~(prio > priority[running])
  <2>1. priority'[c] <= priority[running] /\ \A p \in Pids : p # c => priority'[p] = priority[p]
    BY <1>3, <1>4, <1>7, <1>9
  <2> QED BY <1>2, <1>3, <1>4, <1>7, <2>1, HighReady
<1> QED BY <1>8, <1>9

LEMMA AwakeHigh ==
  ASSUME ExactInv, HighInv, NEW p \in Pids, Awake(p)
  PROVE  HighInv'
<1>1. /\ InUserMode /\ running' = running /\ priority' = priority /\ free' = free
      /\ state[p] = "BLOCKED_BY_MESSAGE" /\ state' = [state EXCEPT ![p] = "WAITING"]
      /\ kstack' = [kstack EXCEPT ![running] =
                      IF priority[p] > priority[running] THEN <<Schedule>> ELSE <<>>]
  BY DEF Awake, Calling, lists
<1>2. running \in Pids /\ p # running /\ priority \in [Pids -> Int]
  BY <1>1, HighInUserMode, UserMode
<1>3. CASE priority[p] > priority[running]
  <2>1. PICK r : r = <<>>
    OBVIOUS
  <2>2. r \in Seq(Frames) /\ WellStacked(r)
    BY <2>1, EmptyStack
  <2>3. <<Schedule>> \o r = <<Schedule>>
    BY <2>1, ScheduleType, SingleStack, ConcatEmptySeq
  <2>4. kstack' = [kstack EXCEPT ![running] = <<Schedule>> \o r]
    BY <1>1, <1>3, <2>3
  <2> QED BY <1>1, <2>2, <2>4, HighSchedules
<1>4. CASE ~(priority[p] > priority[running])
  <2>1. priority[p] \in Int /\ priority[running] \in Int
    BY <1>2
  <2>2. priority'[p] <= priority[running] /\ \A q \in Pids : q # p => priority'[q] = priority[q]
    BY <1>1, <1>4, <2>1
  <2> QED BY <1>1, <1>2, <2>2, HighReady
<1> QED BY <1>3, <1>4

LEMMA ChprioHigh ==
  ASSUME ExactInv, ExactInv', HighInv, NEW p \in Pids, NEW prio \in Prios, Chprio(p, prio)
  PROVE  HighInv'
<1>1. CASE Fail("queue_del")
  BY <1>1, HighFail
<1>2. CASE ~Fail("queue_del")
  <2>1. PICK b, s : /\ b = (\/ prio > priority'[running]
                            \/ p = running /\ priority'[Last(queue')] > prio)
                    /\ s = IF b THEN <<Schedule>> ELSE <<>>
    OBVIOUS
  <2>2. /\ InUserMode /\ priority' = [priority EXCEPT ![p] = prio] /\ state' = state
        /\ kstack' = [kstack EXCEPT ![running] = s] /\ running' = running /\ free' = free
    BY <1>2, <2>1 DEF Chprio, Calling, life, lists
  <2>3. /\ running \in Pids /\ running # 1 /\ priority \in [Pids -> Int] /\ prio \in Int
        /\ priority' \in [Pids -> Int] /\ state[running] = "RUNNING"
        /\ kstack \in [Pids -> Seq(Frames)]
    BY <2>2, HighInUserMode, UserMode DEF Prios
  <2>4. CASE b
    <3>1. s \in Seq(Frames) /\ s # <<>> /\ Head(s) = Schedule
      BY <2>1, <2>4, ScheduleType, SingleStack
    <3>2. kstack'[running] = s
      BY <2>2, <2>3
    <3> QED BY <2>2, <3>1, <3>2, ScheduleType, HighLater
  <2>5. CASE ~b /\ p # running
    <3>1. prio <= priority[running]
      BY <2>1, <2>2, <2>3, <2>5
    <3> QED BY <2>2, <2>3, <2>5, <3>1, HighInUserMode DEF HighInv, Full
  <2>6. CASE ~b /\ p = running
    <3>1. /\ queue' \in Seq(Pids) /\ Lists(queue', InState("WAITING")') /\ Sorted(queue', priority')
      BY DEF ExactInv, TableInv, TypeOK, ListsInv, ReadyListed
    <3>2. InState("WAITING")' = InState("WAITING")
      BY <2>2 DEF InState
    <3>3. ASSUME NEW q \in Pids, state'[q] = "WAITING"
          PROVE  priority'[q] <= priority'[running]
      <4>1. PICK l : l = queue'
        OBVIOUS
      <4>2. l \in Seq(Pids) /\ Lists(l, InState("WAITING")) /\ Sorted(l, priority')
        BY <3>1, <3>2, <4>1
      <4>3. q \in InState("WAITING")
        BY <2>2, <3>3 DEF InState
      <4>4. l # <<>>
        BY <4>2, <4>3, ListsMember
      <4>5. /\ Last(l) \in Pids
            /\ q = Last(l) \/ priority'[q] <= priority'[Last(l)]
        BY <4>2, <4>3, <4>4, FrontExact
      <4>6. ~(priority'[Last(l)] > prio) /\ priority'[running] = prio
        BY <2>1, <2>2, <2>3, <2>6, <4>1
      <4>7. priority'[q] \in Int /\ priority'[Last(l)] \in Int
        BY <2>3, <4>5
      <4> QED BY <2>3, <4>5, <4>6, <4>7
    <3> QED BY <2>2, <3>3 DEF HighInv
  <2> QED BY <2>4, <2>5, <2>6
<1> QED BY <1>1, <1>2

LEMMA TickHigh ==
  ASSUME ExactInv, HighInv, Tick
  PROVE  HighInv'
<1>1. PICK f, old, t, s : /\ f = Frame("clock_tick", 0) /\ old = kstack[running]
                          /\ t = <<f>> \o old
                          /\ s = (IF NextDelay = 0 THEN <<Schedule>> ELSE <<>>) \o t
  OBVIOUS
<1>2. old \in Seq(Frames) /\ WellStacked(old) /\ running \in Pids /\ kstack \in [Pids -> Seq(Frames)]
  BY <1>1, RunningShape
<1>3. f \in Frames /\ f.op = "clock_tick"
  BY <1>1, FrameType DEF Ops
<1>4. t \in Seq(Frames) /\ WellStacked(t) /\ Range(t) = Range(old) \cup {f}
  BY <1>1, <1>2, <1>3, PushedStack DEF Bottoms
<1>5. /\ running' = running /\ state' = state /\ priority' = priority /\ free' = free
      /\ kstack'[running] = s
  <2>1. <<f>> \in Seq(Frames) /\ <<Schedule>> \in Seq(Frames) /\ <<>> \in Seq(Frames)
    BY <1>3, ScheduleType, SingleStack, EmptyStack
  <2>2. /\ (<<Schedule>> \o <<f>>) \o old = <<Schedule>> \o t
        /\ (<<>> \o <<f>>) \o old = <<>> \o t
    BY <1>1, <1>2, <2>1, ConcatAssociative
  <2>3. kstack'[running] = (IF NextDelay = 0 THEN <<Schedule>> ELSE <<>>) \o <<f>> \o old
    BY <1>1, <1>2 DEF Tick
  <2> QED BY <1>1, <2>2, <2>3 DEF Tick, life, sched, lists
<1>6. CASE NextDelay = 0
  <2>1. s = <<Schedule>> \o t
    BY <1>1, <1>6
  <2>2. s \in Seq(Frames) /\ s # <<>> /\ Head(s) = Schedule
    BY <1>4, <2>1, ScheduleType, PushedStack DEF Bottoms
  <2> QED BY <1>5, <2>2, ScheduleType, HighLater
<1>7. CASE NextDelay # 0
  <2>1. s = t
    BY <1>1, <1>4, <1>7, ConcatEmptySeq
  <2>2. Decides(kstack[running]) => Decides(kstack'[running])
    BY <1>1, <1>4, <1>5, <2>1 DEF Decides
  <2> QED BY <1>5, <2>2, HighKept
<1> QED BY <1>6, <1>7

LEMMA ClockHigh ==
  ASSUME ExactInv, HighInv, ClockTickWakes \/ ClockTickEnd
  PROVE  HighInv'
<1>0. PICK f, r : f = Frame("clock_woke", 0) /\ r = Tail(kstack[running])
  OBVIOUS
<1>1. kstack[running] # <<>> /\ Top.op \in {"clock_tick", "clock_woke"}
  BY DEF ClockTickWakes, ClockTickEnd, ClockTick, InKernel
<1>2. r \in Seq(Frames) /\ WellStacked(r) /\ running \in Pids /\ kstack \in [Pids -> Seq(Frames)]
  BY <1>0, <1>1, RunningShape
<1>3. f \in Frames /\ f.op = "clock_woke"
  BY <1>0, FrameType DEF Ops
<1>4. CASE ClockTickWakes
  <2>1. CASE Fail("queue_add")
    BY <2>1, HighFail
  <2>2. CASE Replace(f) /\ running' = running
    <3>1. PICK s : s = <<f>> \o r
      OBVIOUS
    <3>2. s \in Seq(Frames) /\ s # <<>> /\ Head(s) = f
      BY <1>2, <1>3, <3>1, PushedStack DEF Bottoms
    <3>3. kstack'[running] = s
      BY <1>0, <1>2, <2>2, <3>1 DEF Replace
    <3> QED BY <1>3, <2>2, <3>2, <3>3, HighLater
  <2> QED BY <1>0, <1>4, <2>1, <2>2 DEF ClockTickWakes
<1>5. CASE ClockTickEnd
  <2>1. /\ running' = running /\ state' = state /\ priority' = priority /\ free' = free
    BY <1>5 DEF ClockTickEnd, life, sched, lists
  <2>2. CASE Top.op = "clock_woke"
    <3>1. kstack' = [kstack EXCEPT ![running] = <<Schedule>> \o r]
      BY <1>0, <1>5, <2>2 DEF ClockTickEnd, Replace
    <3> QED BY <1>2, <2>1, <3>1, HighSchedules
  <2>3. CASE Top.op = "clock_tick"
    <3>1. kstack' = [kstack EXCEPT ![running] = Tail(@)]
      BY <1>5, <2>3 DEF ClockTickEnd, Pop
    <3> QED BY <1>1, <2>1, <2>3, <3>1, HighPop
  <2> QED BY <1>1, <2>2, <2>3
<1> QED BY <1>4, <1>5

LEMMA ReapHigh ==
  ASSUME ExactInv, HighInv, NEW c, Reap(c), kstack' = kstack
  PROVE  HighInv'
BY HighKept DEF Reap, RequestDestroy, sched

LEMMA BlockHigh ==
  ASSUME ExactInv, NEW st, NEW code, NEW after \in Seq(Frames), WellStacked(after),
         Block(st, code, after)
  PROVE  HighInv'
BY HighSchedules DEF Block, sched

LEMMA CallHigh ==
  ASSUME ExactInv, ExactInv', HighInv, SystemCall
  PROVE  HighInv'
<1>1. PICK nothing : nothing = <<>>
  OBVIOUS
<1>2. nothing \in Seq(Frames) /\ WellStacked(nothing)
  BY <1>1, EmptyStack
<1>3. ASSUME NEW op \in {"spin", "waitpid", "waitpid_any"}, NEW arg \in 0 .. N
      PROVE  <<Frame(op, arg)>> \in Seq(Frames) /\ WellStacked(<<Frame(op, arg)>>)
  <2>1. op \in Ops
    BY DEF Ops
  <2>2. Frame(op, arg) \in Frames /\ Frame(op, arg).op # "destroy"
    BY <2>1, FrameType
  <2> QED BY <2>2, SingleStack
<1>4. CASE \E prio \in Prios : Start(prio)
  BY <1>4, StartHigh
<1>5. CASE \E prio \in Prios : StartFails(prio)
  <2>1. PICK prio \in Prios : StartFails(prio)
    BY <1>5
  <2>2. PICK c : c = Head(free)
    OBVIOUS
  <2>3. /\ InUserMode /\ free # <<>> /\ running' = running /\ state' = state
        /\ priority' = [priority EXCEPT ![c] = prio]
    BY <2>1, <2>2 DEF StartFails, Calling, Full
  <2>4. c \in InState("UNUSED")
    <3>1. free \in Seq(Pids) /\ Lists(free, InState("UNUSED"))
      BY DEF ExactInv, TableInv, TypeOK, ListsInv, FreeListed
    <3> QED BY <2>2, <2>3, <3>1, ListsTail
  <2>5. c # running /\ \A p \in Pids : state[p] = "WAITING" => p # c
    BY <2>3, <2>4, UserMode DEF InState
  <2>6. /\ running \in Pids /\ priority \in [Pids -> Int]
        /\ \A p \in Pids : state[p] = "WAITING" => priority[p] <= priority[running]
    BY <2>3, HighInUserMode DEF Full
  <2> QED BY <2>3, <2>5, <2>6 DEF HighInv
<1>6. CASE Exit
  <2>1. PICK rest : rest = <<Frame("spin", 0)>>
    OBVIOUS
  <2>2. rest \in Seq(Frames) /\ WellStacked(rest)
    BY <1>3, <2>1
  <2>3. running' = running /\ kstack' = [kstack EXCEPT ![running] = <<Schedule>> \o rest]
    BY <1>6, <2>1 DEF Exit, RequestZombify
  <2> QED BY <2>2, <2>3, HighSchedules
<1>7. CASE \E p \in Pids : Kill(p)
  <2>1. PICK p \in Pids : Kill(p)
    BY <1>7
  <2>2. CASE Fail("queue_del") \/ Fail("init")
    BY <2>2, HighFail
  <2>3. CASE RequestZombify(p, nothing)
    BY <1>2, <2>3, HighSchedules DEF RequestZombify
  <2> QED BY <1>1, <2>1, <2>2, <2>3 DEF Kill
<1>8. CASE \E p \in Pids : Waitpid(p)
  <2>1. PICK p \in Pids : Waitpid(p)
    BY <1>8
  <2>2. p \in 0 .. N
    BY DEF Pids
  <2>3. PICK after : after = <<Frame("waitpid", p)>>
    OBVIOUS
  <2>4. after \in Seq(Frames) /\ WellStacked(after)
    BY <1>3, <2>2, <2>3
  <2>5. (Reap(p) /\ kstack' = kstack) \/ Block("BLOCKED_BY_CHILD", p, after)
    BY <2>1, <2>3 DEF Waitpid
  <2> QED BY <2>4, <2>5, ReapHigh, BlockHigh
<1>9. CASE WaitpidAny
  <2>1. PICK after : after = <<Frame("waitpid_any", 0)>>
    OBVIOUS
  <2>2. after \in Seq(Frames) /\ WellStacked(after)
    BY <1>3, <2>1
  <2>3. \/ \E c : Reap(c) /\ kstack' = kstack
        \/ Block("BLOCKED_BY_CHILD", -1, after)
    BY <1>9, <2>1 DEF WaitpidAny
  <2> QED BY <2>2, <2>3, ReapHigh, BlockHigh
<1>10. CASE \E t \in 1 .. MaxClock : WaitClock(t)
  <2>1. Block("SLEEPING", waiting_code[running], nothing)
    BY <1>1, <1>10 DEF WaitClock
  <2> QED BY <1>2, <2>1, BlockHigh
<1>11. CASE BlockByMessage
  <2>1. Block("BLOCKED_BY_MESSAGE", waiting_code[running], nothing)
    BY <1>1, <1>11 DEF BlockByMessage
  <2> QED BY <1>2, <2>1, BlockHigh
<1>12. CASE \E p \in Pids : Awake(p)
  BY <1>12, AwakeHigh
<1>13. CASE \E p \in Pids, prio \in Prios : Chprio(p, prio)
  BY <1>13, ChprioHigh
<1>14. CASE StartNoNode
  BY <1>14, HighFail DEF StartNoNode
<1> QED BY <1>4, <1>5, <1>6, <1>7, <1>8, <1>9, <1>10, <1>11, <1>12, <1>13, <1>14
        DEF SystemCall, Blocking

LEMMA HighNext ==
  ASSUME ExactInv, ExactInv', HighInv, [Next]_vars
  PROVE  HighInv'
<1>1. CASE KernelStep
  <2>1. CASE StartReturn
    <3>1. /\ running' = running /\ state' = state /\ priority' = priority /\ free' = free
          /\ kstack[running] # <<>> /\ Top.op = "start"
          /\ kstack' = [kstack EXCEPT ![running] = Tail(@)]
      BY <2>1 DEF StartReturn, InKernel, Pop, life, sched, lists
    <3> QED BY <3>1, HighPop
  <2>2. CASE WaitpidResumes
    <3>1. /\ kstack[running] # <<>> /\ Top.op \notin {"schedule", "zombify", "clock_woke"}
          /\ kstack' = [kstack EXCEPT ![running] = Tail(@)] /\ \E c \in Pids : Reap(c)
      BY <2>2, WaitpidFinds DEF Pop
    <3>2. /\ running' = running /\ state' = state /\ priority' = priority /\ free' = free
      BY <3>1 DEF Reap, sched
    <3> QED BY <3>1, <3>2, HighPop
  <2> QED BY <1>1, <2>1, <2>2, CleaningHigh, KeepHigh, SwitchHigh, ClockHigh DEF KernelStep
<1>2. CASE SystemCall
  BY <1>2, CallHigh
<1>3. CASE Boot
  <2>1. kstack[running] # <<>> /\ Top.op = "boot"
    BY <1>3 DEF Boot, InKernel
  <2>2. Top \in Range(kstack[running]) /\ running \in Pids /\ kstack \in [Pids -> Seq(Frames)]
    BY <2>1, RunningShape
  <2>3. running = 1
    BY <2>1, <2>2 DEF ExactInv, StackInv
  <2>4. PICK f, r : f = Frame("hlt", 0) /\ r = <<f>>
    OBVIOUS
  <2>5. f \in Frames /\ f.op = "hlt"
    BY <2>4, FrameType DEF Ops
  <2>6. r \in Seq(Frames) /\ WellStacked(r)
    BY <2>4, <2>5, SingleStack
  <2>7. <<Schedule>> \o r = <<Schedule, f>>
    <3>1. <<Schedule, f>> = <<Schedule>> \o <<f>>
      OBVIOUS
    <3> QED BY <2>4, <3>1
  <2>8. kstack' = [kstack EXCEPT ![running] = <<Schedule>> \o r] /\ running' = running
    BY <1>3, <2>3, <2>4, <2>7 DEF Boot, NewProcess
  <2> QED BY <2>6, <2>8, HighSchedules
<1>4. CASE Tick
  BY <1>4, TickHigh
<1>5. CASE Halted \/ UNCHANGED vars
  BY <1>5, HighKept DEF Halted, vars, life, sched, lists
<1> QED BY <1>1, <1>2, <1>3, <1>4, <1>5 DEF Next

(***************************************************************************)
(* No ready process has a higher priority than the one in user mode, for   *)
(* as long as the table is not full: every call and every tick that makes  *)
(* a process ready, or lowers the running one, goes through a schedule().  *)
(***************************************************************************)
THEOREM PrioritiesHold ==
  ASSUME Disciplined
  PROVE  Spec => []HighestPriorityRuns
<1>1. Init => HighInv
  BY DEF Init, HighInv
<1>2. ExactInv /\ ExactInv' /\ HighInv /\ [Next]_vars => HighInv'
  BY HighNext
<1>3. ExactInv /\ HighInv => HighestPriorityRuns
  BY HighInUserMode DEF HighestPriorityRuns
<1> QED BY <1>1, <1>2, <1>3, ExactAlways, PTL DEF Spec

(* Why the kernel has stopped. *)
Causes ==
  /\ panic = "request_destroy" => "orphans" \in Allowed
  /\ panic = "queue_del" =>
       \E p \in Pids : state[p] = "SLEEPING" \/ (state[p] = "UNUSED" /\ pid[p] # NotFound)
  /\ panic = "pids_waiting" => \E p \in Pids : state[p] = "SLEEPING" /\ ~Occurs(waiting, p)

LEMMA KillCauses ==
  ASSUME ExactInv, panic = None, NEW p \in Pids, Kill(p)
  PROVE  Causes'
<1>1. CASE panic' = "pids_waiting"
  <2>1. /\ state[p] = "SLEEPING" /\ Last(waiting) # p /\ waiting' = Front(waiting)
        /\ state' = [state EXCEPT ![p] = "ZOMBIE"]
    BY <1>1, KillStops
  <2>2. /\ waiting \in Seq(Pids) /\ Lists(waiting, InState("SLEEPING"))
        /\ state \in [Pids -> States]
    BY DEF ExactInv, TableInv, TypeOK, ListsInv, SleepersListed, None
  <2>3. p \in InState("SLEEPING")
    BY <2>1 DEF InState
  <2>4. waiting # <<>>
    BY <2>2, <2>3, ListsMember
  <2>5. PICK q, S : q = Last(waiting) /\ S = InState("SLEEPING") \ {q}
    OBVIOUS
  <2>6. /\ q \in InState("SLEEPING") /\ Front(waiting) \in Seq(Pids)
        /\ Lists(Front(waiting), S)
    BY <2>2, <2>4, <2>5, ListsFront, FrontType
  <2>7. q \in Pids /\ state[q] = "SLEEPING" /\ q # p /\ q \notin S
    BY <2>1, <2>5, <2>6 DEF InState
  <2>8. ~Occurs(waiting', q) /\ state'[q] = "SLEEPING"
    BY <2>1, <2>2, <2>6, <2>7, ListsOnce
  <2> QED BY <1>1, <2>7, <2>8 DEF Causes
<1>2. CASE panic' # "pids_waiting"
  BY <1>2, KillStops DEF Causes, None
<1> QED BY <1>1, <1>2

(* chprio only fails for a process that sleeps or has no state at all. *)
LEMMA ChprioCauses ==
  ASSUME ExactInv, NEW p \in Pids, NEW prio \in Prios, Chprio(p, prio), panic' = "queue_del"
  PROVE  Causes'
<1>1. panic = None /\ pid[p] # NotFound /\ state[p] # "ZOMBIE" /\ state[running] = "RUNNING"
  BY UserMode DEF Chprio, Calling, InUserMode, Exists
<1>2. Fail("queue_del") /\ Requeues(p) /\ ~Linked(p)
  BY <1>1 DEF Chprio, None
<1>3. state[p] \in States /\ state[p] # "WAITING" /\ (state[p] = "RUNNING" => p = running)
  BY <1>2, LinkedExact DEF ExactInv, TableInv, TypeOK, LifeInv
<1>4. state[p] \in {"SLEEPING", "UNUSED"}
  BY <1>1, <1>2, <1>3 DEF Requeues, Blocked, States
<1> QED BY <1>1, <1>2, <1>4 DEF Causes, Fail, life

LEMMA CausesStep ==
  ASSUME ExactInv, ExactInv', "orphans" \notin Allowed => NoOrphans, Causes, [Next]_vars
  PROVE  Causes'
<1>1. CASE panic # None
  <2>1. UNCHANGED vars
    BY <1>1, Stopped
  <2> QED BY <2>1 DEF Causes, Occurs, vars, life, sleep
<1>2. CASE panic = None
  <2>1. CASE panic' = panic \/ panic' = "child_list"
    BY <1>2, <2>1 DEF Causes, None
  <2>2. CASE panic' = "request_destroy" /\ ZombifyChild
    <3>1. ~NoOrphans
      <4> SUFFICES ASSUME NoOrphans PROVE FALSE
        OBVIOUS
      <4>1. Top.arg \in Pids /\ childs[Top.arg] = <<>> /\ Top.at \in Nat \ {0}
        BY <2>2, InZombify DEF ZombifyChild, NoOrphans
      <4>2. Len(childs[Top.arg]) = 0
        BY <4>1, EmptySeq
      <4> QED BY <2>2, <4>1, <4>2 DEF ZombifyChild
    <3> QED BY <2>2, <3>1 DEF Causes
  <2>3. CASE panic' = "request_destroy" /\ DestroyChild
    <3>1. ~NoOrphans
      <4> SUFFICES ASSUME NoOrphans PROVE FALSE
        OBVIOUS
      <4>1. Top.arg \in Pids /\ childs[Top.arg] = <<>>
        BY <2>3, InDestroy DEF DestroyChild, NoOrphans
      <4> QED BY <2>3, <4>1 DEF DestroyChild
    <3> QED BY <2>3, <3>1 DEF Causes
  <2>4. CASE panic' = "queue_del" /\ \E p \in Pids, prio \in Prios : Chprio(p, prio)
    BY <2>4, ChprioCauses
  <2>5. CASE \E p \in Pids : Kill(p)
    BY <1>2, <2>5, KillCauses
  <2> QED BY <2>1, <2>2, <2>3, <2>4, <2>5, PanicStep
<1> QED BY <1>1, <1>2

(***************************************************************************)
(* The kernel stops only for a reason on the list: a child destroyed       *)
(* twice, which takes processes that die with children; kill or chprio of  *)
(* a sleeper or of the pid of a failed start; a forgotten sleeper; the     *)
(* kill of init; no memory for a node.  Interrupts are masked for ever     *)
(* only when init runs because no ready process exceeds its priority.      *)
(***************************************************************************)
THEOREM StopsAreExplained ==
  ASSUME Disciplined
  PROVE  Spec => []StopsHaveCauses
<1> DEFINE Inv == HighInv /\ Causes /\ ("orphans" \notin Allowed => NoOrphans)
<1>1. Init => Inv
  BY DEF Init, HighInv, Causes, NoOrphans, None
<1>2. ExactInv /\ ExactInv' /\ Inv /\ [Next]_vars => Inv'
  BY HighNext, CausesStep, NoOrphansStep
<1>3. ASSUME ExactInv PROVE ExitNeverSpins
  <2> SUFFICES ASSUME InKernel("spin") PROVE FALSE
    BY DEF ExitNeverSpins
  <2>1. kstack[running] # <<>> /\ Top.op = "spin"
    BY DEF InKernel
  <2>2. Top \in Range(kstack[running]) /\ running \in Pids
    BY <1>3, <2>1, RunningShape
  <2>3. state[running] = "ZOMBIE"
    BY <1>3, <2>1, <2>2 DEF ExactInv, StackInv
  <2> QED BY <1>3, <2>1, <2>3 DEF ExactInv, SwitchDue
<1>4. ASSUME ExactInv, HighInv, InKernel("hlt"), NEW p \in Pids, state[p] = "WAITING"
      PROVE  priority[p] <= priority[running]
  <2>1. kstack[running] # <<>> /\ Top.op = "hlt" /\ Top = Head(kstack[running])
    BY <1>4 DEF InKernel, Top
  <2>2. kstack[running] \in Seq(Frames) /\ WellStacked(kstack[running]) /\ Top \in Range(kstack[running])
    BY <1>4, <2>1, RunningShape
  <2>3. Len(kstack[running]) = 1
    <3>1. kstack[running][1] = Top /\ 1 \in 1 .. Len(kstack[running])
      BY <2>1, <2>2, EmptySeq
    <3> QED BY <2>1, <2>2, <3>1 DEF WellStacked, Bottoms
  <2>4. ~Decides(kstack[running])
    BY <2>1, <2>2, <2>3, RangeMember DEF Decides
  <2>5. running = 1
    BY <1>4, <2>1, <2>2 DEF ExactInv, StackInv, TableInv, TypeOK
  <2> QED BY <1>4, <2>4, <2>5 DEF HighInv
<1>5. ExactInv /\ Inv => StopsHaveCauses
  BY <1>3, <1>4 DEF StopsHaveCauses, Causes, ExactInv
<1> HIDE DEF Inv
<1> QED BY <1>1, <1>2, <1>5, ExactAlways, PTL DEF Spec
-------------------------------------------------------------------------------
(***************************************************************************)
(* The depth of the kernel stacks.  clean_processes calls zombify, whose   *)
(* schedule() calls clean_processes again: each entry of pids_to_zombify   *)
(* that is not the running process costs one more activation.  So the      *)
(* number of these entries is bounded together with the depth.             *)
(***************************************************************************)
ToClean == Len(to_zombify) - (IF state[running] = "ZOMBIE" THEN 1 ELSE 0)

Cleaners == {"schedule", "zombify", "destroy"}

Fits(s, d) ==
  IF s = <<>> \/ Head(s).op \notin Cleaners THEN Len(s) <= 2 /\ d <= 1
  ELSE Len(s) + d <= IF Head(s).op = "destroy" THEN 4 ELSE 3

\* A process that was switched out has left its innermost schedule().
DepthInv == /\ \A p \in Pids \ {running} : Len(kstack[p]) <= 2
            /\ Fits(kstack[running], ToClean)

\* Interrupts are enabled in init, which is in the kernel, only before the others.
Booting(s) == \E f \in Range(s) : f.op = "boot"

BootAlone ==
  Booting(kstack[1]) => running = 1 /\ \A p \in Pids \ {1} : state[p] = "UNUSED"

LEMMA ToCleanFacts ==
  ASSUME ExactInv
  PROVE  /\ ToClean \in Nat /\ Len(to_zombify) \in Nat
         /\ ~CanPick(to_zombify) => ToClean = 0 /\ Len(to_zombify) <= 1
         /\ CanPick(to_zombify) => Len(Unpicked(to_zombify)) = Len(to_zombify) - 1
<1>1. /\ to_zombify \in Seq(Pids) /\ running \in Pids /\ Lists(to_zombify, Undead)
      /\ ~deallocated[running]
  BY DEF ExactInv, TableInv, TypeOK, ListsInv, UndeadListed, LifeInv
<1>2. Len(to_zombify) \in Nat /\ (to_zombify = <<>> <=> Len(to_zombify) = 0)
  BY <1>1, EmptySeq, LenProperties
<1>3. state[running] = "ZOMBIE" <=> running \in Undead
  BY <1>1 DEF Undead
<1>4. running \in Undead => to_zombify # <<>>
  BY <1>1, ListsMember
<1>5. ToClean \in Nat
  BY <1>2, <1>3, <1>4 DEF ToClean
<1>6. ASSUME ~CanPick(to_zombify) PROVE ToClean = 0 /\ Len(to_zombify) <= 1
  <2>1. CASE to_zombify = <<>>
    BY <1>2, <1>3, <1>4, <2>1 DEF ToClean
  <2>2. CASE to_zombify # <<>>
    <3>1. Last(to_zombify) = running /\ ~(Len(to_zombify) > 1)
      BY <1>6, <2>2 DEF CanPick
    <3>2. running \in Undead
      BY <1>1, <2>2, <3>1, ListsFront
    <3> QED BY <1>2, <1>3, <2>2, <3>1, <3>2 DEF ToClean
  <2> QED BY <2>1, <2>2
<1>7. ASSUME CanPick(to_zombify) PROVE Len(Unpicked(to_zombify)) = Len(to_zombify) - 1
  <2>1. PICK t : t = IF Last(to_zombify) = running THEN [to_zombify EXCEPT ![1] = running]
                                                    ELSE to_zombify
    OBVIOUS
  <2>2. to_zombify # <<>> /\ Len(to_zombify) \in Nat \ {0}
    BY <1>2, <1>7 DEF CanPick
  <2>3. t \in Seq(Pids) /\ Len(t) = Len(to_zombify)
    <3>1. CASE Last(to_zombify) = running
      <4>1. PICK i : i = 1
        OBVIOUS
      <4>2. i \in 1 .. Len(to_zombify)
        BY <2>2, <4>1
      <4>3. t = [to_zombify EXCEPT ![i] = running]
        BY <2>1, <3>1, <4>1
      <4> QED BY <1>1, <4>2, <4>3, ExceptSeq
    <3>2. CASE Last(to_zombify) # running
      BY <1>1, <2>1, <3>2
    <3> QED BY <3>1, <3>2
  <2>4. t # <<>> /\ Unpicked(to_zombify) = Front(t)
    <3>1. t # <<>>
      BY <2>2, <2>3, EmptySeq
    <3> QED BY <2>1, <3>1 DEF Unpicked
  <2> QED BY <2>3, <2>4, FrontProperties
<1> QED BY <1>2, <1>5, <1>6, <1>7

LEMMA ToCleanSame ==
  ASSUME running' = running, to_zombify' = to_zombify,
         state'[running] = "ZOMBIE" <=> state[running] = "ZOMBIE"
  PROVE  ToClean' = ToClean
BY DEF ToClean

(* A step of the running process that leaves it running. *)
LEMMA DepthStep ==
  ASSUME ExactInv, DepthInv, running' = running, NEW s \in Seq(Frames), kstack'[running] = s,
         \A q \in Pids \ {running} : kstack'[q] \in {kstack[q], <<>>},
         Fits(s, ToClean')
  PROVE  DepthInv'
<1>1. Len(<<>>) <= 2
  BY EmptySeq
<1>2. \A q \in Pids \ {running} : Len(kstack'[q]) <= 2
  BY <1>1 DEF DepthInv
<1>3. Fits(kstack'[running'], ToClean')
  OBVIOUS
<1> QED BY <1>2, <1>3 DEF DepthInv

LEMMA DepthKept ==
  ASSUME DepthInv, running' = running, kstack' = kstack, to_zombify' = to_zombify,
         state'[running] = "ZOMBIE" <=> state[running] = "ZOMBIE"
  PROVE  DepthInv'
BY ToCleanSame DEF DepthInv, Fits

LEMMA DepthFail ==
  ASSUME DepthInv, NEW site, Fail(site)
  PROVE  DepthInv'
BY DepthKept DEF Fail, life, sched, lists

(* The return of an activation. *)
LEMMA DepthPop ==
  ASSUME ExactInv, DepthInv, running' = running, to_zombify' = to_zombify,
         state'[running] = "ZOMBIE" <=> state[running] = "ZOMBIE",
         kstack[running] # <<>>, kstack'[running] = Tail(kstack[running]),
         \A q \in Pids \ {running} : kstack'[q] \in {kstack[q], <<>>},
         Top.op # "zombify", Top.op = "schedule" => ToClean = 0
  PROVE  DepthInv'
<1>1. PICK s, t, d : s = kstack[running] /\ t = Tail(s) /\ d = ToClean
  OBVIOUS
<1>2. /\ s \in Seq(Frames) /\ s # <<>> /\ t \in Seq(Frames) /\ Head(s) = Top
      /\ t = <<>> \/ Head(t).op \notin {"zombify", "destroy"}
      /\ Top.op = "destroy" => t # <<>> /\ Head(t).op = "schedule"
  BY <1>1, RunningShape DEF Top
<1>3. Len(s) \in Nat \ {0} /\ Len(t) = Len(s) - 1 /\ d \in Nat
  BY <1>1, <1>2, EmptySeq, HeadTailProperties, ToCleanFacts
<1>4. Fits(s, d) /\ ToClean' = d
  BY <1>1, ToCleanSame DEF DepthInv
<1>5. Fits(t, d)
  <2>1. CASE Top.op \notin Cleaners
    BY <1>2, <1>3, <1>4, <2>1 DEF Fits, Cleaners
  <2>2. CASE Top.op = "schedule"
    <3>1. d = 0 /\ Len(s) <= 3
      BY <1>1, <1>2, <1>3, <1>4, <2>2 DEF Fits, Cleaners
    <3> QED BY <1>2, <1>3, <3>1 DEF Fits, Cleaners
  <2>3. CASE Top.op = "destroy"
    BY <1>2, <1>3, <1>4, <2>3 DEF Fits, Cleaners
  <2> QED BY <2>1, <2>2, <2>3 DEF Cleaners
<1> QED BY <1>1, <1>2, <1>4, <1>5, DepthStep

(* The innermost activation goes on, or becomes another one. *)
LEMMA DepthReplace ==
  ASSUME ExactInv, DepthInv, running' = running, to_zombify' = to_zombify,
         state'[running] = "ZOMBIE" <=> state[running] = "ZOMBIE",
         NEW f \in Frames, f.op \notin {"destroy"} \cup Bottoms, kstack[running] # <<>>,
         kstack' = [kstack EXCEPT ![running] = <<f>> \o Tail(@)],
         \/ Top.op \notin Cleaners
         \/ Top.op = "zombify" /\ f.op \in Cleaners
  PROVE  DepthInv'
<1>1. PICK s, t, u, d : s = kstack[running] /\ t = Tail(s) /\ u = <<f>> \o t /\ d = ToClean
  OBVIOUS
<1>2. /\ s \in Seq(Frames) /\ s # <<>> /\ t \in Seq(Frames) /\ Head(s) = Top
  BY <1>1, RunningShape DEF Top
<1>3. u \in Seq(Frames) /\ u # <<>> /\ Head(u) = f /\ Len(u) = Len(t) + 1
  BY <1>1, <1>2, PushProperties
<1>4. Len(s) \in Nat \ {0} /\ Len(t) = Len(s) - 1 /\ d \in Nat
  BY <1>1, <1>2, EmptySeq, HeadTailProperties, ToCleanFacts
<1>5. Len(u) = Len(s)
  BY <1>3, <1>4
<1>6. Fits(s, d) /\ ToClean' = d
  BY <1>1, ToCleanSame DEF DepthInv
<1>7. Fits(u, d)
  BY <1>2, <1>3, <1>4, <1>5, <1>6 DEF Fits, Cleaners
<1>8. kstack'[running] = u /\ \A q \in Pids \ {running} : kstack'[q] = kstack[q]
  BY <1>1, RunningShape
<1> QED BY <1>3, <1>6, <1>7, <1>8, DepthStep

LEMMA CleanZombifyDepth ==
  ASSUME ExactInv, DepthInv, CleanZombify
  PROVE  DepthInv'
<1>1. PICK p, f, s, u : /\ p = Picked(to_zombify) /\ f = Frame("zombify", p)
                        /\ s = kstack[running] /\ u = <<f>> \o s
  OBVIOUS
<1>2. CanPick(to_zombify) /\ kstack[running] # <<>> /\ Top.op = "schedule"
  BY DEF CleanZombify, InKernel
<1>3. p \in Pids /\ p # running /\ running \in Pids
  <2>1. to_zombify \in Seq(Pids) /\ running \in Pids /\ Lists(to_zombify, Undead)
    BY DEF ExactInv, TableInv, TypeOK, ListsInv, UndeadListed
  <2> QED BY <1>1, <1>2, <2>1, PickedExact
<1>4. CASE Fail("zombify") \/ Fail("deallocate")
  BY <1>4, DepthFail
<1>5. CASE /\ to_zombify' = Unpicked(to_zombify)
           /\ kstack' = [kstack EXCEPT ![p] = <<>>, ![running] = <<f>> \o @]
           /\ state' = state /\ running' = running
  <2>1. f \in Frames /\ f.op = "zombify"
    BY <1>1, <1>3, FrameType DEF Ops, Pids
  <2>2. s \in Seq(Frames) /\ Head(s).op = "schedule" /\ s # <<>> /\ kstack \in [Pids -> Seq(Frames)]
    BY <1>1, <1>2, RunningShape DEF Top
  <2>3. u \in Seq(Frames) /\ u # <<>> /\ Head(u) = f /\ Len(u) = Len(s) + 1 /\ Len(s) \in Nat
    BY <1>1, <2>1, <2>2, PushProperties, LenProperties
  <2>4. kstack'[running] = u /\ \A q \in Pids \ {running} : kstack'[q] \in {kstack[q], <<>>}
    BY <1>1, <1>3, <1>5, <2>2
  <2>5. ToClean' = ToClean - 1 /\ ToClean \in Nat
    BY <1>2, <1>5, ToCleanFacts DEF ToClean
  <2>6. Fits(s, ToClean)
    BY <1>1 DEF DepthInv
  <2>7. Len(s) + ToClean <= 3
    BY <2>2, <2>6 DEF Fits, Cleaners
  <2>8. Len(u) + ToClean' <= 3
    BY <2>3, <2>5, <2>7
  <2>9. Fits(u, ToClean')
    BY <2>1, <2>3, <2>8 DEF Fits, Cleaners
  <2> QED BY <1>5, <2>3, <2>4, <2>9, DepthStep
<1> QED BY <1>1, <1>4, <1>5 DEF CleanZombify, sched

LEMMA ZombifyDepth ==
  ASSUME ExactInv, DepthInv, ZombifyChild \/ ZombifyEnd
  PROVE  DepthInv'
<1>1. /\ kstack[running] # <<>> /\ running \in Pids /\ Top \in Frames /\ Top.op = "zombify"
      /\ state \in [Pids -> States]
  BY InZombify DEF ZombifyChild, ZombifyEnd, ExactInv, TableInv, TypeOK
<1>2. CASE ZombifyChild
  <2>1. PICK k : k = Top.at
    OBVIOUS
  <2>2. PICK f : f = [Top EXCEPT !.at = k + 1]
    OBVIOUS
  <2>3. f \in Frames /\ f.op = "zombify"
    BY <1>1, <2>1, <2>2 DEF Frames
  <2>4. CASE Fail("request_destroy")
    BY <2>4, DepthFail
  <2>5. CASE Replace(f) /\ running' = running /\ to_zombify' = to_zombify /\ state' = state
    <3>1. f.op \notin {"destroy"} \cup Bottoms /\ f.op \in Cleaners
      BY <2>3 DEF Bottoms, Cleaners
    <3> QED BY <1>1, <2>3, <2>5, <3>1, DepthReplace DEF Replace
  <2>6. CASE UNCHANGED <<life, sched, lists, kstack>>
    BY <2>6, DepthKept DEF life, sched, lists
  <2> QED BY <1>2, <2>1, <2>2, <2>4, <2>5, <2>6 DEF ZombifyChild, sched
<1>3. CASE ZombifyEnd
  <2>1. /\ running' = running /\ to_zombify' = to_zombify
        /\ kstack' = [kstack EXCEPT ![running] = <<Schedule>> \o Tail(@)]
    BY <1>3 DEF ZombifyEnd, Replace
  <2>2. state' = state \/ \E f : state[f] = "BLOCKED_BY_CHILD" /\ state' = [state EXCEPT ![f] = "WAITING"]
    BY <1>3 DEF ZombifyEnd, Awaits
  <2>3. state'[running] = "ZOMBIE" <=> state[running] = "ZOMBIE"
    BY <1>1, <2>2
  <2>4. Schedule.op \notin {"destroy"} \cup Bottoms /\ Schedule.op \in Cleaners
    BY ScheduleType DEF Bottoms, Cleaners
  <2> QED BY <1>1, <2>1, <2>3, <2>4, ScheduleType, DepthReplace
<1> QED BY <1>2, <1>3

LEMMA DestroyDepth ==
  ASSUME ExactInv, DepthInv, CleanDestroy \/ DestroyChild \/ DestroyEnd
  PROVE  DepthInv'
<1>1. /\ kstack[running] # <<>> /\ running \in Pids /\ kstack \in [Pids -> Seq(Frames)]
      /\ state \in [Pids -> States]
  BY RunningShape DEF CleanDestroy, DestroyChild, DestroyEnd, InKernel, ExactInv, TableInv, TypeOK
<1>2. CASE CleanDestroy
  <2>1. PICK p, f, s, u : /\ p = Picked(to_destroy) /\ f = Frame("destroy", p)
                          /\ s = kstack[running] /\ u = <<f>> \o s
    OBVIOUS
  <2>2. p \in Pids
    <3>1. to_destroy \in Seq(Pids) /\ CanPick(to_destroy)
      BY <1>2 DEF CleanDestroy, ExactInv, TableInv, TypeOK
    <3> QED BY <1>1, <2>1, <3>1, PickedType DEF CanPick
  <2>3. CASE Fail("destroy")
    BY <2>3, DepthFail
  <2>4. CASE Push(f) /\ running' = running /\ to_zombify' = to_zombify /\ state' = state
    <3>1. f \in Frames /\ f.op = "destroy"
      BY <2>1, <2>2, FrameType DEF Ops, Pids
    <3>2. s \in Seq(Frames) /\ s # <<>> /\ Head(s).op = "schedule"
      BY <1>1, <1>2, <2>1 DEF CleanDestroy, InKernel, Top
    <3>3. u \in Seq(Frames) /\ u # <<>> /\ Head(u) = f /\ Len(u) = Len(s) + 1 /\ Len(s) \in Nat
      BY <2>1, <3>1, <3>2, PushProperties, LenProperties
    <3>4. kstack'[running] = u /\ \A q \in Pids \ {running} : kstack'[q] = kstack[q]
      BY <1>1, <2>1, <2>4 DEF Push
    <3>5. ToClean = 0 /\ ToClean' = 0
      BY <1>2, <2>4, ToCleanFacts, ToCleanSame DEF CleanDestroy
    <3>6. Fits(s, 0)
      BY <2>1, <3>5 DEF DepthInv
    <3>7. Len(s) <= 3
      BY <3>2, <3>3, <3>6 DEF Fits, Cleaners
    <3>8. Fits(u, ToClean')
      BY <3>1, <3>3, <3>5, <3>7 DEF Fits, Cleaners
    <3> QED BY <2>4, <3>3, <3>4, <3>8, DepthStep
  <2> QED BY <1>2, <2>1, <2>3, <2>4 DEF CleanDestroy, life, sched
<1>3. CASE DestroyChild
  <2>1. CASE Fail("request_destroy")
    BY <2>1, DepthFail
  <2>2. CASE running' = running /\ to_zombify' = to_zombify /\ state' = state /\ kstack' = kstack
    BY <2>2, DepthKept
  <2> QED BY <1>3, <2>1, <2>2 DEF DestroyChild, life, sched, lists
<1>4. CASE DestroyEnd
  <2>1. PICK p : p = Top.arg
    OBVIOUS
  <2>2. p \in Pids /\ p # running /\ Top.op = "destroy" /\ state[p] = "ZOMBIE"
    BY <1>4, <2>1, InDestroy DEF DestroyEnd
  <2>3. /\ kstack' = [kstack EXCEPT ![p] = <<>>, ![running] = Tail(@)]
        /\ state' = [state EXCEPT ![p] = "UNUSED"]
        /\ running' = running /\ to_zombify' = to_zombify
    BY <1>4, <2>1 DEF DestroyEnd
  <2>4. /\ kstack'[running] = Tail(kstack[running])
        /\ \A q \in Pids \ {running} : kstack'[q] \in {kstack[q], <<>>}
    BY <1>1, <2>2, <2>3
  <2>5. state'[running] = state[running]
    BY <1>1, <2>2, <2>3
  <2> QED BY <1>1, <2>2, <2>3, <2>4, <2>5, DepthPop
<1> QED BY <1>2, <1>3, <1>4

(* schedule() decides once the dead are cleaned, but for the running one. *)
LEMMA DecisionDepth ==
  ASSUME ExactInv, DepthInv, ScheduleKeep \/ ScheduleSwitch
  PROVE  DepthInv'
<1>1. /\ kstack[running] # <<>> /\ Top.op = "schedule" /\ ~CanPick(to_zombify)
      /\ running \in Pids /\ kstack \in [Pids -> Seq(Frames)] /\ state \in [Pids -> States]
  BY RunningShape DEF ScheduleKeep, ScheduleSwitch, InKernel, Cleaned, ExactInv, TableInv, TypeOK
<1>2. ToClean = 0 /\ Len(to_zombify) <= 1 /\ Len(to_zombify) \in Nat
  BY <1>1, ToCleanFacts
<1>3. CASE ScheduleKeep
  <2>1. /\ running' = running /\ to_zombify' = to_zombify /\ state' = state
        /\ kstack' = [kstack EXCEPT ![running] = Tail(@)]
    BY <1>3 DEF ScheduleKeep, life, sched, lists, Pop
  <2>2. /\ kstack'[running] = Tail(kstack[running])
        /\ \A q \in Pids \ {running} : kstack'[q] = kstack[q]
    BY <1>1, <2>1
  <2> QED BY <1>1, <1>2, <2>1, <2>2, DepthPop
<1>4. CASE ScheduleSwitch /\ queue = <<>>
  BY <1>4, DepthFail DEF ScheduleSwitch
<1>5. CASE ScheduleSwitch /\ queue # <<>>
  <2>1. PICK new, old, t : new = Last(queue) /\ old = running /\ t = Tail(kstack[running])
    OBVIOUS
  <2>2. /\ running' = new /\ to_zombify' = to_zombify
        /\ state' = [state EXCEPT ![old] = IF state[old] = "RUNNING" THEN "WAITING" ELSE @,
                                  ![new] = "RUNNING"]
        /\ kstack' = [kstack EXCEPT ![old] = t]
    BY <1>5, <2>1 DEF ScheduleSwitch, lists, Pop
  <2>3. new \in Pids /\ state[new] = "WAITING" /\ new # old
    <3>1. /\ queue \in Seq(Pids) /\ Lists(queue, InState("WAITING"))
          /\ state[running] # "WAITING"
      BY DEF ExactInv, TableInv, TypeOK, ListsInv, ReadyListed, LifeInv
    <3>2. new \in InState("WAITING") /\ new \in Pids
      BY <1>5, <2>1, <3>1, ListsFront, FrontProperties
    <3> QED BY <2>1, <3>1, <3>2 DEF InState
  <2>4. ToClean' = Len(to_zombify)
    <3>1. state'[new] = "RUNNING"
      BY <1>1, <2>2, <2>3
    <3> QED BY <1>2, <2>2, <3>1 DEF ToClean
  <2>5. Len(t) <= 2
    <3>1. /\ kstack[running] \in Seq(Frames) /\ Len(kstack[running]) \in Nat
          /\ Len(t) = Len(kstack[running]) - 1
      BY <1>1, <2>1, HeadTailProperties, LenProperties
    <3>2. Fits(kstack[running], 0) /\ Head(kstack[running]).op = "schedule"
      BY <1>1, <1>2 DEF DepthInv, Top
    <3>3. Len(kstack[running]) <= 3
      BY <1>1, <3>1, <3>2 DEF Fits, Cleaners
    <3> QED BY <3>1, <3>3
  <2>6. /\ kstack'[old] = t /\ kstack'[new] = kstack[new]
        /\ \A q \in Pids \ {old} : kstack'[q] = kstack[q]
        /\ \A q \in Pids \ {old} : Len(kstack[q]) <= 2
    BY <1>1, <2>1, <2>2, <2>3 DEF DepthInv
  <2>7. \A q \in Pids \ {new} : Len(kstack'[q]) <= 2
    BY <2>5, <2>6
  <2>8. Fits(kstack'[new], ToClean')
    <3>1. PICK s, d : s = kstack[new] /\ d = Len(to_zombify)
      OBVIOUS
    <3>2. s \in Seq(Frames) /\ Len(s) \in Nat /\ Len(s) <= 2 /\ d <= 1 /\ d \in Nat
      BY <1>1, <1>2, <2>3, <2>6, <3>1, LenProperties
    <3>3. Fits(s, d)
      BY <3>2 DEF Fits
    <3> QED BY <2>4, <2>6, <3>1, <3>3
  <2> QED BY <2>2, <2>7, <2>8 DEF DepthInv
<1> QED BY <1>3, <1>4, <1>5
-------------------------------------------------------------------------------
(* System calls: at most two activations, and at most one process is dead      *)
(* that was not before.                                                        *)

LEMMA UserDepth ==
  ASSUME ExactInv, DepthInv, InUserMode
  PROVE  /\ running \in Pids \ {1} /\ kstack \in [Pids -> Seq(Frames)] /\ state \in [Pids -> States]
         /\ state[running] = "RUNNING" /\ to_zombify \in Seq(Pids)
         /\ ToClean = Len(to_zombify) /\ Len(to_zombify) \in 0 .. 1
<1>1. /\ running \in Pids \ {1} /\ kstack \in [Pids -> Seq(Frames)] /\ state \in [Pids -> States]
      /\ state[running] = "RUNNING" /\ kstack[running] = <<>> /\ to_zombify \in Seq(Pids)
  BY UserMode DEF ExactInv, TableInv, TypeOK
<1>2. Fits(<<>>, ToClean)
  BY <1>1 DEF DepthInv
<1>3. ToClean <= 1 /\ Len(to_zombify) \in Nat
  BY <1>2, ToCleanFacts DEF Fits
<1>4. ToClean = Len(to_zombify)
  BY <1>1, <1>3 DEF ToClean
<1> QED BY <1>1, <1>3, <1>4

(* A call that ends with schedule() and then r. *)
LEMMA DepthSchedules ==
  ASSUME ExactInv, DepthInv, running' = running, NEW r \in Seq(Frames),
         kstack' = [kstack EXCEPT ![running] = <<Schedule>> \o r],
         ToClean' \in Nat, Len(r) + ToClean' <= 2
  PROVE  DepthInv'
<1>1. PICK s : s = <<Schedule>> \o r
  OBVIOUS
<1>2. s \in Seq(Frames) /\ s # <<>> /\ Head(s) = Schedule /\ Len(s) = Len(r) + 1 /\ Len(r) \in Nat
  BY <1>1, ScheduleType, PushProperties, LenProperties
<1>3. kstack'[running] = s /\ \A q \in Pids \ {running} : kstack'[q] = kstack[q]
  BY <1>1, RunningShape
<1>4. Len(s) + ToClean' <= 3
  BY <1>2
<1>5. Fits(s, ToClean')
  BY <1>2, <1>4, ScheduleType DEF Fits, Cleaners
<1> QED BY <1>2, <1>3, <1>5, DepthStep

(* A call that returns, or leaves one activation that is not schedule(). *)
LEMMA DepthReturns ==
  ASSUME ExactInv, DepthInv, running' = running, NEW r \in Seq(Frames),
         kstack' = [kstack EXCEPT ![running] = r],
         Len(r) <= 1, r # <<>> => Head(r).op \notin Cleaners, ToClean' <= 1
  PROVE  DepthInv'
<1>1. kstack'[running] = r /\ \A q \in Pids \ {running} : kstack'[q] = kstack[q]
  BY RunningShape
<1>2. Len(r) <= 2
  BY LenProperties
<1>3. Fits(r, ToClean')
  BY <1>2 DEF Fits
<1> QED BY <1>1, <1>3, DepthStep

LEMMA CallStacks ==
  /\ <<>> \in Seq(Frames) /\ Len(<<>>) = 0
  /\ \A op \in Ops \ Cleaners, arg \in 0 .. N :
       /\ <<Frame(op, arg)>> \in Seq(Frames) /\ Len(<<Frame(op, arg)>>) = 1
       /\ Head(<<Frame(op, arg)>>).op \notin Cleaners
<1>1. <<>> \in Seq(Frames) /\ Len(<<>>) = 0
  BY EmptySeq
<1>2. ASSUME NEW op \in Ops \ Cleaners, NEW arg \in 0 .. N
      PROVE  /\ <<Frame(op, arg)>> \in Seq(Frames) /\ Len(<<Frame(op, arg)>>) = 1
             /\ Head(<<Frame(op, arg)>>).op \notin Cleaners
  <2>1. PICK f : f = Frame(op, arg)
    OBVIOUS
  <2>2. f \in Frames /\ f.op \notin Cleaners /\ f.op # "destroy"
    BY <2>1, FrameType DEF Cleaners
  <2>3. <<f>> \in Seq(Frames) /\ Len(<<f>>) = 1 /\ Head(<<f>>) = f
    BY <2>2, SingleStack
  <2> QED BY <2>1, <2>2, <2>3
<1> QED BY <1>1, <1>2

LEMMA RequestZombifyDepth ==
  ASSUME ExactInv, DepthInv, InUserMode, NEW p \in Pids, NEW r \in Seq(Frames), Len(r) <= 1,
         p # running => r = <<>>, RequestZombify(p, r)
  PROVE  DepthInv'
<1>1. /\ running \in Pids \ {1} /\ state \in [Pids -> States] /\ state[running] = "RUNNING"
      /\ to_zombify \in Seq(Pids) /\ Len(to_zombify) \in 0 .. 1
  BY UserDepth
<1>2. /\ running' = running /\ state' = [state EXCEPT ![p] = "ZOMBIE"]
      /\ to_zombify' = Append(to_zombify, p)
      /\ kstack' = [kstack EXCEPT ![running] = <<Schedule>> \o r]
  BY DEF RequestZombify
<1>3. Len(to_zombify') = Len(to_zombify) + 1
  BY <1>1, <1>2, AppendProperties
<1>4. Len(r) \in Nat /\ Len(<<>>) = 0
  BY LenProperties, EmptySeq
<1>5. CASE p = running
  <2>1. ToClean' = Len(to_zombify)
    BY <1>1, <1>2, <1>3, <1>5 DEF ToClean
  <2>2. ToClean' \in Nat /\ Len(r) + ToClean' <= 2
    BY <1>1, <1>4, <2>1
  <2> QED BY <1>2, <2>2, DepthSchedules
<1>6. CASE p # running
  <2>1. ToClean' = Len(to_zombify) + 1
    BY <1>1, <1>2, <1>3, <1>6 DEF ToClean
  <2>2. Len(r) = 0
    BY <1>4, <1>6
  <2>3. \A n \in 0 .. 1 : n + 1 \in Nat /\ 0 + (n + 1) <= 2
    OBVIOUS
  <2>4. ToClean' \in Nat /\ Len(r) + ToClean' <= 2
    BY <1>1, <2>1, <2>2, <2>3
  <2> QED BY <1>2, <2>4, DepthSchedules
<1> QED BY <1>5, <1>6

LEMMA BlockDepth ==
  ASSUME ExactInv, DepthInv, InUserMode, NEW st \in States \ {"ZOMBIE"}, NEW code,
         NEW r \in Seq(Frames), Len(r) <= 1, Block(st, code, r)
  PROVE  DepthInv'
<1>1. /\ running \in Pids /\ state \in [Pids -> States] /\ state[running] = "RUNNING"
      /\ ToClean \in 0 .. 1
  BY UserDepth
<1>2. /\ running' = running /\ state' = [state EXCEPT ![running] = st]
      /\ to_zombify' = to_zombify /\ kstack' = [kstack EXCEPT ![running] = <<Schedule>> \o r]
  BY DEF Block, sched, lists
<1>3. ToClean' = ToClean /\ Len(r) \in Nat
  BY <1>1, <1>2, ToCleanSame, LenProperties
<1>4. ToClean' \in Nat /\ Len(r) + ToClean' <= 2
  BY <1>1, <1>3
<1> QED BY <1>2, <1>4, DepthSchedules

LEMMA CallDepth ==
  ASSUME ExactInv, DepthInv, SystemCall
  PROVE  DepthInv'
<1>0. ASSUME InUserMode
      PROVE  /\ running \in Pids /\ ToClean \in 0 .. 1 /\ state \in [Pids -> States]
             /\ kstack \in [Pids -> Seq(Frames)] /\ state[running] = "RUNNING"
             /\ kstack[running] = <<>>
  BY <1>0, UserDepth, UserMode
<1>1. PICK nothing : nothing = <<>>
  OBVIOUS
<1>2. /\ nothing \in Seq(Frames) /\ Len(nothing) <= 1
      /\ nothing # <<>> => Head(nothing).op \notin Cleaners
  BY <1>1, CallStacks
<1>3. ASSUME NEW st \in {"BLOCKED_BY_CHILD", "BLOCKED_BY_MESSAGE", "SLEEPING"}, NEW code,
              NEW r \in Seq(Frames), Len(r) <= 1, InUserMode, Block(st, code, r)
      PROVE  DepthInv'
  <2>1. st \in States \ {"ZOMBIE"}
    BY DEF States
  <2> QED BY <1>3, <2>1, BlockDepth
<1>4. ASSUME InUserMode, running' = running, to_zombify' = to_zombify,
             state'[running] = "ZOMBIE" <=> state[running] = "ZOMBIE",
             NEW r \in Seq(Frames), NEW s, Len(r) <= 1,
             r # <<>> => Head(r).op \notin Cleaners,
             s = <<Schedule>> \o r \/ s = r,
             kstack' = [kstack EXCEPT ![running] = s]
      PROVE  DepthInv'
  <2>1. ToClean' = ToClean /\ ToClean \in 0 .. 1 /\ Len(r) \in Nat
    BY <1>0, <1>4, ToCleanSame, LenProperties
  <2>2. ToClean' \in Nat /\ ToClean' <= 1 /\ Len(r) + ToClean' <= 2
    BY <1>4, <2>1
  <2>3. CASE s = r
    BY <1>4, <2>2, <2>3, DepthReturns
  <2>4. CASE s = <<Schedule>> \o r
    BY <1>4, <2>2, <2>4, DepthSchedules
  <2> QED BY <1>4, <2>3, <2>4
<1>5. CASE \E prio \in Prios : Start(prio)
  <2>1. PICK prio \in Prios : Start(prio)
    BY <1>5
  <2>2. PICK c, r, s : /\ c = Head(free) /\ r = <<Frame("start", c)>>
                       /\ s = IF prio > priority[running] THEN <<Schedule>> \o r ELSE r
    OBVIOUS
  <2>3. InUserMode /\ free # <<>> /\ NewProcess(running, c, prio)
    BY <2>1, <2>2 DEF Start, Calling, Full
  <2>4. c \in InState("UNUSED") /\ c \in Pids
    <3>1. free \in Seq(Pids) /\ Lists(free, InState("UNUSED"))
      BY DEF ExactInv, TableInv, TypeOK, ListsInv, FreeListed
    <3> QED BY <2>2, <2>3, <3>1, ListsTail DEF InState
  <2>5. r \in Seq(Frames) /\ Len(r) <= 1 /\ Head(r).op \notin Cleaners
    <3>1. "start" \in Ops \ Cleaners /\ c \in 0 .. N
      BY <2>4 DEF Ops, Cleaners, Pids
    <3> QED BY <2>2, <3>1, CallStacks
  <2>6. /\ kstack' = [kstack EXCEPT ![running] = s] /\ (s = <<Schedule>> \o r \/ s = r)
        /\ running' = running /\ to_zombify' = to_zombify
    BY <2>1, <2>2, <2>3 DEF Start, NewProcess
  <2>7. state'[running] = "ZOMBIE" <=> state[running] = "ZOMBIE"
    BY <1>0, <2>3, <2>4 DEF NewProcess, InState
  <2> QED BY <1>4, <2>3, <2>5, <2>6, <2>7
<1>6. CASE \E prio \in Prios : StartFails(prio)
  BY <1>6, DepthKept DEF StartFails
<1>7. CASE Exit
  <2>1. PICK r : r = <<Frame("spin", 0)>>
    OBVIOUS
  <2>2. r \in Seq(Frames) /\ Len(r) <= 1
    <3>1. "spin" \in Ops \ Cleaners /\ 0 \in 0 .. N
      BY DEF Ops, Cleaners
    <3> QED BY <2>1, <3>1, CallStacks
  <2>3. InUserMode /\ RequestZombify(running, r)
    BY <1>7, <2>1 DEF Exit, Calling
  <2> QED BY <1>0, <2>2, <2>3, RequestZombifyDepth
<1>8. CASE \E p \in Pids : Kill(p)
  <2>1. PICK p \in Pids : Kill(p)
    BY <1>8
  <2>2. CASE Fail("queue_del") \/ Fail("init")
    BY <2>2, DepthFail
  <2>3. CASE InUserMode /\ RequestZombify(p, nothing)
    BY <1>1, <1>2, <2>3, RequestZombifyDepth
  <2> QED BY <1>1, <2>1, <2>2, <2>3 DEF Kill, Calling
<1>9. CASE (\E p \in Pids : Waitpid(p)) \/ WaitpidAny
  <2>1. ASSUME NEW c, Reap(c), kstack' = kstack PROVE DepthInv'
    BY <2>1, DepthKept DEF Reap, sched
  <2>2. ASSUME NEW op \in {"waitpid", "waitpid_any"}, NEW arg \in 0 .. N
        PROVE  <<Frame(op, arg)>> \in Seq(Frames) /\ Len(<<Frame(op, arg)>>) <= 1
    <3>1. op \in Ops \ Cleaners
      BY DEF Ops, Cleaners
    <3> QED BY <3>1, CallStacks
  <2>3. \A p \in Pids : p \in 0 .. N
    BY DEF Pids
  <2>4. CASE \E p \in Pids : Waitpid(p)
    BY <1>3, <2>1, <2>2, <2>3, <2>4 DEF Waitpid, Calling
  <2>5. CASE WaitpidAny
    <3>1. 0 \in 0 .. N
      OBVIOUS
    <3> QED BY <1>3, <2>1, <2>2, <2>5, <3>1 DEF WaitpidAny, Calling
  <2> QED BY <1>9, <2>4, <2>5
<1>10. CASE (\E t \in 1 .. MaxClock : WaitClock(t)) \/ BlockByMessage
  BY <1>1, <1>2, <1>3, <1>10 DEF WaitClock, BlockByMessage, Calling
<1>11. <<Schedule>> \o nothing = <<Schedule>>
  BY <1>1, ScheduleType, SingleStack, ConcatEmptySeq
<1>12. CASE \E p \in Pids : Awake(p)
  <2>1. PICK p \in Pids : Awake(p)
    BY <1>12
  <2>2. PICK s : s = IF priority[p] > priority[running] THEN <<Schedule>> ELSE <<>>
    OBVIOUS
  <2>3. /\ InUserMode /\ running' = running /\ to_zombify' = to_zombify
        /\ state[p] = "BLOCKED_BY_MESSAGE" /\ state' = [state EXCEPT ![p] = "WAITING"]
        /\ kstack' = [kstack EXCEPT ![running] = s]
    BY <2>1, <2>2 DEF Awake, Calling, lists
  <2>4. state'[running] = "ZOMBIE" <=> state[running] = "ZOMBIE"
    BY <1>0, <2>3
  <2>5. s = <<Schedule>> \o nothing \/ s = nothing
    BY <1>1, <1>11, <2>2
  <2> QED BY <1>1, <1>2, <1>4, <2>3, <2>4, <2>5
<1>13. CASE \E p \in Pids, prio \in Prios : Chprio(p, prio)
  <2>1. PICK p \in Pids, prio \in Prios : Chprio(p, prio)
    BY <1>13
  <2>2. CASE Fail("queue_del")
    BY <2>2, DepthFail
  <2>3. CASE ~Fail("queue_del")
    <3>1. PICK b, s : /\ b = (\/ prio > priority'[running]
                              \/ p = running /\ priority'[Last(queue')] > prio)
                      /\ s = IF b THEN <<Schedule>> ELSE <<>>
      OBVIOUS
    <3>2. /\ InUserMode /\ running' = running /\ to_zombify' = to_zombify /\ state' = state
          /\ kstack' = [kstack EXCEPT ![running] = s]
      BY <2>1, <2>3, <3>1 DEF Chprio, Calling, life, lists
    <3>3. s = <<Schedule>> \o nothing \/ s = nothing
      BY <1>1, <1>11, <3>1
    <3> QED BY <1>1, <1>2, <1>4, <3>2, <3>3
  <2> QED BY <2>2, <2>3
<1>14. CASE StartNoNode
  BY <1>14, DepthFail DEF StartNoNode
<1> QED BY <1>5, <1>6, <1>7, <1>8, <1>9, <1>10, <1>12, <1>13, <1>14 DEF SystemCall, Blocking
-------------------------------------------------------------------------------
(* The stack of init while it boots. *)

LEMMA PushedFrames ==
  ASSUME NEW f \in Frames, NEW s \in Seq(Frames)
  PROVE  Range(<<f>> \o s) = Range(s) \cup {f}
<1>1. PICK t : t = <<f>> \o s
  OBVIOUS
<1>2. t \in Seq(Frames) /\ t # <<>> /\ Head(t) = f /\ Tail(t) = s
  BY <1>1, PushProperties
<1>3. Range(t) = Range(Tail(t)) \cup {Head(t)}
  BY <1>2, RangeTail
<1> QED BY <1>1, <1>2, <1>3

(* No kernel step puts init back in its boot. *)
LEMMA KernelBoots ==
  ASSUME ExactInv, KernelStep
  PROVE  Booting(kstack'[1]) => Booting(kstack[1])
<1>0. running \in Pids /\ kstack \in [Pids -> Seq(Frames)] /\ 1 \in Pids
  BY RunningShape DEF Pids
<1>1. PICK old, r : old = kstack[running] /\ r = Tail(old)
  OBVIOUS
<1>2. old \in Seq(Frames) /\ old # <<>> => r \in Seq(Frames) /\ Range(r) \subseteq Range(old)
  BY <1>1, RunningShape
<1>3. old \in Seq(Frames) /\ old # <<>>
  BY <1>0, <1>1 DEF KernelStep, CleanZombify, ZombifyChild, ZombifyEnd, CleanDestroy, DestroyChild,
     DestroyEnd, ScheduleKeep, ScheduleSwitch, StartReturn, WaitpidResumes, ClockTickWakes,
     ClockTickEnd, ClockTick, InKernel
<1>4. ASSUME NEW f \in Frames, f.op # "boot"
      PROVE  /\ Range(<<f>> \o old) = Range(old) \cup {f}
             /\ Range(<<f>> \o r) = Range(r) \cup {f}
  BY <1>2, <1>3, PushedFrames
<1>5. ASSUME \/ kstack' = kstack
             \/ \E s, p : /\ kstack' = [kstack EXCEPT ![running] = s]
                             \/ kstack' = [kstack EXCEPT ![p] = <<>>, ![running] = s]
                          /\ \/ s = r
                             \/ \E f \in Frames : f.op # "boot" /\ s \in {<<f>> \o old, <<f>> \o r}
      PROVE  Booting(kstack'[1]) => Booting(kstack[1])
  <2>1. CASE kstack' = kstack
    BY <2>1
  <2>2. CASE kstack' # kstack
    <3>1. PICK s, p : /\ kstack' = [kstack EXCEPT ![running] = s]
                         \/ kstack' = [kstack EXCEPT ![p] = <<>>, ![running] = s]
                      /\ \/ s = r
                         \/ \E f \in Frames : f.op # "boot" /\ s \in {<<f>> \o old, <<f>> \o r}
      BY <1>5, <2>2
    <3>2. \A f \in Range(s) : f.op = "boot" => f \in Range(old)
      <4>1. CASE s = r
        BY <1>2, <1>3, <4>1
      <4>2. ASSUME NEW f \in Frames, f.op # "boot", s \in {<<f>> \o old, <<f>> \o r}
            PROVE  \A g \in Range(s) : g.op = "boot" => g \in Range(old)
        BY <1>2, <1>3, <1>4, <4>2
      <4> QED BY <3>1, <4>1, <4>2
    <3>3. kstack'[1] \in {kstack[1], <<>>, s} /\ (running = 1 \/ kstack'[1] # s \/ kstack'[1] \in {kstack[1], <<>>})
      BY <1>0, <3>1
    <3>4. CASE kstack'[1] \in {kstack[1], <<>>}
      BY <3>4, EmptyStack DEF Booting
    <3>5. CASE running = 1 /\ kstack'[1] = s
      BY <1>1, <3>2, <3>5 DEF Booting
    <3> QED BY <3>3, <3>4, <3>5
  <2> QED BY <2>1, <2>2
<1>6. ASSUME NEW op \in {"zombify", "destroy", "clock_woke"}, NEW arg \in 0 .. N
      PROVE  Frame(op, arg) \in Frames /\ Frame(op, arg).op # "boot"
  <2>1. op \in Ops
    BY DEF Ops
  <2> QED BY <2>1, FrameType
<1>7. ASSUME NEW site, Fail(site) PROVE kstack' = kstack
  BY <1>7 DEF Fail
<1>8. CASE CleanZombify
  <2>1. PICK p, f : p = Picked(to_zombify) /\ f = Frame("zombify", p)
    OBVIOUS
  <2>2. p \in 0 .. N
    <3>1. to_zombify \in Seq(Pids) /\ to_zombify # <<>>
      BY <1>8 DEF CleanZombify, CanPick, ExactInv, TableInv, TypeOK
    <3> QED BY <1>0, <2>1, <3>1, PickedType DEF Pids
  <2>3. f \in Frames /\ f.op # "boot"
    BY <1>6, <2>1, <2>2
  <2>4. kstack' = kstack \/ kstack' = [kstack EXCEPT ![p] = <<>>, ![running] = <<f>> \o @]
    BY <1>7, <1>8, <2>1 DEF CleanZombify
  <2>5. CASE kstack' = [kstack EXCEPT ![p] = <<>>, ![running] = <<f>> \o @]
    <3>1. p # running
      BY <1>8, <2>1, <2>5, PickedExact DEF CleanZombify, ExactInv, TableInv, TypeOK, ListsInv, UndeadListed
    <3>2. kstack' = [kstack EXCEPT ![p] = <<>>, ![running] = <<f>> \o old]
      BY <1>0, <1>1, <2>5, <3>1
    <3> QED BY <1>5, <2>3, <3>2
  <2> QED BY <1>5, <2>4, <2>5
<1>9. CASE ZombifyChild
  <2>1. PICK k, f : k = Top.at /\ f = [Top EXCEPT !.at = k + 1]
    OBVIOUS
  <2>2. f \in Frames /\ f.op # "boot"
    BY <1>9, <2>1, InZombify DEF ZombifyChild, Frames
  <2>3. kstack' = kstack \/ Replace(f)
    BY <1>7, <1>9, <2>1 DEF ZombifyChild
  <2> QED BY <1>1, <1>5, <2>2, <2>3 DEF Replace
<1>10. CASE ZombifyEnd
  <2>1. kstack' = [kstack EXCEPT ![running] = <<Schedule>> \o r]
    BY <1>1, <1>10 DEF ZombifyEnd, Replace
  <2> QED BY <1>5, <2>1, ScheduleType
<1>11. CASE CleanDestroy
  <2>1. PICK p, f : p = Picked(to_destroy) /\ f = Frame("destroy", p)
    OBVIOUS
  <2>2. p \in 0 .. N
    <3>1. to_destroy \in Seq(Pids) /\ to_destroy # <<>>
      BY <1>11 DEF CleanDestroy, CanPick, ExactInv, TableInv, TypeOK
    <3> QED BY <1>0, <2>1, <3>1, PickedType DEF Pids
  <2>3. f \in Frames /\ f.op # "boot"
    BY <1>6, <2>1, <2>2
  <2>4. kstack' = kstack \/ kstack' = [kstack EXCEPT ![running] = <<f>> \o old]
    BY <1>1, <1>7, <1>11, <2>1 DEF CleanDestroy, Push
  <2> QED BY <1>5, <2>3, <2>4
<1>12. CASE DestroyChild
  BY <1>5, <1>7, <1>12 DEF DestroyChild
<1>13. CASE DestroyEnd
  <2>1. PICK p : p = Top.arg
    OBVIOUS
  <2>2. p # running /\ kstack' = [kstack EXCEPT ![p] = <<>>, ![running] = Tail(@)]
    BY <1>13, <2>1, InDestroy DEF DestroyEnd
  <2>3. kstack' = [kstack EXCEPT ![p] = <<>>, ![running] = r]
    BY <1>0, <1>1, <2>2
  <2> QED BY <1>5, <2>3
<1>14. CASE ScheduleKeep \/ ScheduleSwitch \/ StartReturn
  <2>1. kstack' = kstack \/ Pop
    BY <1>7, <1>14 DEF ScheduleKeep, ScheduleSwitch, StartReturn
  <2> QED BY <1>1, <1>5, <2>1 DEF Pop
<1>15. CASE WaitpidResumes
  BY <1>1, <1>5, <1>15, WaitpidFinds DEF Pop
<1>16. CASE ClockTickWakes
  <2>1. PICK f : f = Frame("clock_woke", 0)
    OBVIOUS
  <2>2. f \in Frames /\ f.op # "boot"
    <3>1. 0 \in 0 .. N
      OBVIOUS
    <3> QED BY <1>6, <2>1, <3>1
  <2>3. kstack' = kstack \/ Replace(f)
    BY <1>7, <1>16, <2>1 DEF ClockTickWakes
  <2> QED BY <1>1, <1>5, <2>2, <2>3 DEF Replace
<1>17. CASE ClockTickEnd
  <2>1. Replace(Schedule) \/ Pop
    BY <1>17 DEF ClockTickEnd
  <2> QED BY <1>1, <1>5, <2>1, ScheduleType DEF Replace, Pop
<1> QED BY <1>8, <1>9, <1>10, <1>11, <1>12, <1>13, <1>14, <1>15, <1>16, <1>17 DEF KernelStep

(* While init boots, the kernel has no other process to deal with. *)
LEMMA BootStays ==
  ASSUME ExactInv, BootAlone, KernelStep, Booting(kstack[1])
  PROVE  running' = running /\ \A p \in Pids \ {1} : state'[p] = "UNUSED"
<1>1. /\ running = 1 /\ \A p \in Pids \ {1} : state[p] = "UNUSED"
      /\ state[1] \in {"WAITING", "RUNNING"} /\ state[running] # "WAITING"
  BY DEF BootAlone, ExactInv, LifeInv
<1>2. /\ to_zombify \in Seq(Pids) /\ Lists(to_zombify, Undead)
      /\ to_destroy \in Seq(Pids) /\ Lists(to_destroy, Doomed)
      /\ waiting \in Seq(Pids) /\ Lists(waiting, InState("SLEEPING"))
      /\ queue \in Seq(Pids) /\ Lists(queue, InState("WAITING"))
      /\ running \in Pids
  <2>1. panic # "pids_waiting"
    BY DEF KernelStep, CleanZombify, ZombifyChild, ZombifyEnd, CleanDestroy, DestroyChild, DestroyEnd,
       ScheduleKeep, ScheduleSwitch, StartReturn, WaitpidResumes, ClockTickWakes, ClockTickEnd,
       ClockTick, InKernel, None
  <2> QED BY <2>1 DEF ExactInv, TableInv, TypeOK, ListsInv, ReadyListed, SleepersListed,
       UndeadListed, DoomedListed
<1>3. \A p \in Pids : state[p] \in {"UNUSED", "RUNNING"}
  BY <1>1
<1>4. Undead = {} /\ Doomed = {} /\ InState("SLEEPING") = {} /\ InState("WAITING") = {}
  BY <1>3 DEF Undead, Doomed, InState, ExactInv, LifeInv
<1>5. to_zombify = <<>> /\ to_destroy = <<>> /\ waiting = <<>> /\ queue = <<>>
  BY <1>2, <1>4, ListsMember
<1>6. ~CleanZombify /\ ~CleanDestroy
  BY <1>5 DEF CleanZombify, CleanDestroy, CanPick
<1>7. ~ZombifyChild /\ ~ZombifyEnd
  BY <1>3, InZombify DEF ZombifyChild, ZombifyEnd
<1>8. ~DestroyChild /\ ~DestroyEnd
  BY <1>3, InDestroy DEF DestroyChild, DestroyEnd
<1>9. ~ClockTickWakes
  <2>1. DOMAIN waiting = {}
    BY <1>5
  <2> QED BY <2>1 DEF ClockTickWakes
<1>10. ASSUME NEW site, Fail(site) PROVE running' = running /\ state' = state
  BY <1>10 DEF Fail, life, sched
<1>11. CASE ScheduleKeep \/ ScheduleSwitch \/ StartReturn \/ ClockTickEnd
  BY <1>1, <1>5, <1>10, <1>11 DEF ScheduleKeep, ScheduleSwitch, StartReturn, ClockTickEnd, life, sched
<1>12. CASE WaitpidResumes
  BY <1>1, <1>12, WaitpidFinds DEF Reap, sched
<1> QED BY <1>6, <1>7, <1>8, <1>9, <1>11, <1>12 DEF KernelStep

LEMMA BootStep ==
  ASSUME ExactInv, Boot
  PROVE  /\ running = 1 /\ running' = running /\ to_zombify' = to_zombify /\ Booting(kstack[1])
         /\ \E r \in Seq(Frames) : /\ Len(r) = 1 /\ ~Booting(<<Schedule>> \o r)
                                   /\ kstack' = [kstack EXCEPT ![running] = <<Schedule>> \o r]
<1>1. kstack[running] # <<>> /\ Top.op = "boot"
  BY DEF Boot, InKernel
<1>2. Top \in Range(kstack[running]) /\ running \in Pids
  BY <1>1, RunningShape
<1>3. running = 1 /\ Booting(kstack[1])
  BY <1>1, <1>2 DEF ExactInv, StackInv, Booting
<1>4. PICK f, r : f = Frame("hlt", 0) /\ r = <<f>>
  OBVIOUS
<1>5. f \in Frames /\ f.op = "hlt"
  BY <1>4, FrameType DEF Ops
<1>6. r \in Seq(Frames) /\ Range(r) = {f} /\ Len(r) = 1
  BY <1>4, <1>5, SingleStack
<1>7. ~Booting(<<Schedule>> \o r)
  BY <1>5, <1>6, PushedFrames, ScheduleType DEF Booting
<1>8. <<Schedule>> \o r = <<Schedule, f>>
  <2>1. <<Schedule, f>> = <<Schedule>> \o <<f>>
    OBVIOUS
  <2> QED BY <1>4, <2>1
<1>9. kstack' = [kstack EXCEPT ![running] = <<Schedule>> \o r]
  BY <1>3, <1>4, <1>8 DEF Boot
<1> QED BY <1>3, <1>6, <1>7, <1>9 DEF Boot, NewProcess

LEMMA BootAloneStep ==
  ASSUME ExactInv, BootAlone, [Next]_vars
  PROVE  BootAlone'
<1>1. CASE KernelStep
  BY <1>1, KernelBoots, BootStays DEF BootAlone
<1>2. CASE SystemCall
  <2>1. ASSUME NEW site, Fail(site) PROVE kstack' = kstack
    BY <2>1 DEF Fail
  <2>2. /\ InUserMode
        /\ kstack' = kstack \/ \E s : kstack' = [kstack EXCEPT ![running] = s]
    <3>1. CASE (\E prio \in Prios : Start(prio) \/ StartFails(prio)) \/ StartNoNode
      BY <2>1, <3>1 DEF Start, StartFails, StartNoNode, Calling
    <3>2. CASE Exit \/ \E p \in Pids : Kill(p)
      BY <2>1, <3>2 DEF Exit, Kill, RequestZombify, Calling
    <3>3. CASE (\E p \in Pids : Waitpid(p)) \/ WaitpidAny
      BY <3>3 DEF Waitpid, WaitpidAny, Block, Calling
    <3>4. CASE (\E t \in 1 .. MaxClock : WaitClock(t)) \/ BlockByMessage
      BY <3>4 DEF WaitClock, BlockByMessage, Block, Calling
    <3>5. CASE \E p \in Pids : Awake(p)
      BY <3>5 DEF Awake, Calling
    <3>6. CASE \E p \in Pids, prio \in Prios : Chprio(p, prio)
      BY <2>1, <3>6 DEF Chprio, Calling
    <3> QED BY <1>2, <3>1, <3>2, <3>3, <3>4, <3>5, <3>6 DEF SystemCall, Blocking
  <2>3. running # 1 /\ 1 \in Pids /\ kstack \in [Pids -> Seq(Frames)]
    BY <2>2, UserMode DEF Pids
  <2>4. kstack'[1] = kstack[1]
    BY <2>2, <2>3
  <2> QED BY <2>3, <2>4 DEF BootAlone
<1>3. CASE Boot
  <2>1. PICK r : /\ ~Booting(<<Schedule>> \o r)
                 /\ kstack' = [kstack EXCEPT ![1] = <<Schedule>> \o r]
    BY <1>3, BootStep
  <2>2. kstack'[1] = <<Schedule>> \o r
    BY <2>1, RunningShape DEF Pids
  <2> QED BY <2>1, <2>2 DEF BootAlone
<1>4. CASE Tick
  <2>1. running' = running /\ state' = state
    BY <1>4 DEF Tick, life, sched
  <2>2. CASE InUserMode
    <3>1. running # 1 /\ 1 \in Pids /\ kstack \in [Pids -> Seq(Frames)]
      BY <2>2, UserMode DEF Pids
    <3>2. kstack'[1] = kstack[1]
      BY <1>4, <3>1 DEF Tick
    <3> QED BY <3>1, <3>2 DEF BootAlone
  <2>3. CASE InKernel("boot")
    <3>1. kstack[running] # <<>> /\ Top.op = "boot"
      BY <2>3 DEF InKernel
    <3>2. Top \in Range(kstack[running]) /\ running \in Pids
      BY <3>1, RunningShape
    <3>3. running = 1 /\ Booting(kstack[1])
      BY <3>1, <3>2 DEF ExactInv, StackInv, Booting
    <3> QED BY <2>1, <3>3 DEF BootAlone
  <2> QED BY <1>4, <2>2, <2>3 DEF Tick, Interruptible
<1>5. CASE Halted \/ UNCHANGED vars
  BY <1>5 DEF BootAlone, Halted, vars, life, sched
<1> QED BY <1>1, <1>2, <1>3, <1>4, <1>5 DEF Next
-------------------------------------------------------------------------------
LEMMA TickDepth ==
  ASSUME ExactInv, DepthInv, BootAlone, Tick
  PROVE  DepthInv'
<1>1. PICK f, old, t, s : /\ f = Frame("clock_tick", 0) /\ old = kstack[running]
                          /\ t = <<f>> \o old
                          /\ s = (IF NextDelay = 0 THEN <<Schedule>> ELSE <<>>) \o t
  OBVIOUS
<1>2. old \in Seq(Frames) /\ running \in Pids /\ kstack \in [Pids -> Seq(Frames)]
  BY <1>1, RunningShape
<1>3. f \in Frames /\ f.op = "clock_tick"
  BY <1>1, FrameType DEF Ops
<1>4. t \in Seq(Frames) /\ t # <<>> /\ Head(t) = f /\ Len(t) = Len(old) + 1 /\ Len(old) \in Nat
  BY <1>1, <1>2, <1>3, PushProperties, LenProperties
<1>5. /\ running' = running /\ state' = state /\ to_zombify' = to_zombify
      /\ kstack'[running] = s /\ \A q \in Pids \ {running} : kstack'[q] = kstack[q]
  <2>1. <<f>> \in Seq(Frames) /\ <<Schedule>> \in Seq(Frames) /\ <<>> \in Seq(Frames)
    BY <1>3, ScheduleType, SingleStack, EmptyStack
  <2>2. /\ (<<Schedule>> \o <<f>>) \o old = <<Schedule>> \o t
        /\ (<<>> \o <<f>>) \o old = <<>> \o t
    BY <1>1, <1>2, <2>1, ConcatAssociative
  <2>3. /\ kstack'[running] = (IF NextDelay = 0 THEN <<Schedule>> ELSE <<>>) \o <<f>> \o old
        /\ \A q \in Pids \ {running} : kstack'[q] = kstack[q]
    BY <1>1, <1>2 DEF Tick
  <2> QED BY <1>1, <2>2, <2>3 DEF Tick, life, sched, lists
<1>6. ToClean' = ToClean /\ ToClean \in Nat
  BY <1>5, ToCleanSame, ToCleanFacts
(* A tick comes in user mode, or in init when nobody can be dead. *)
<1>7. (Len(old) = 0 /\ ToClean <= 1) \/ (Len(old) = 1 /\ ToClean = 0)
  <2>1. CASE InUserMode
    <3>1. old = <<>> /\ ToClean \in 0 .. 1
      BY <1>1, <2>1, UserDepth, UserMode
    <3> QED BY <3>1, EmptySeq
  <2>2. CASE InKernel("boot")
    <3>1. old # <<>> /\ Top.op = "boot" /\ Top \in Range(old) /\ Tail(old) = <<>>
      BY <1>1, <2>2, RunningShape DEF InKernel, Bottoms
    <3>2. Len(old) = 1
      <4>1. Len(Tail(old)) = Len(old) - 1 /\ Len(Tail(old)) = 0
        BY <1>2, <3>1, HeadTailProperties, EmptySeq
      <4> QED BY <1>4, <4>1
    <3>3. running = 1 /\ Booting(kstack[1])
      BY <1>1, <1>2, <3>1 DEF ExactInv, StackInv, Booting
    <3>4. \A p \in Pids : state[p] # "ZOMBIE"
      BY <3>3 DEF BootAlone, ExactInv, LifeInv
    <3>5. Undead = {} /\ to_zombify \in Seq(Pids) /\ Lists(to_zombify, Undead)
      BY <3>4 DEF Undead, ExactInv, TableInv, TypeOK, ListsInv, UndeadListed
    <3>6. to_zombify = <<>>
      BY <3>5, ListsMember
    <3>7. ToClean = 0
      BY <1>2, <3>4, <3>6, EmptySeq DEF ToClean
    <3> QED BY <3>2, <3>7
  <2> QED BY <2>1, <2>2 DEF Tick, Interruptible
<1>8. CASE NextDelay = 0
  <2>1. s = <<Schedule>> \o t
    BY <1>1, <1>8
  <2>2. s \in Seq(Frames) /\ s # <<>> /\ Head(s) = Schedule /\ Len(s) = Len(t) + 1
    BY <1>4, <2>1, ScheduleType, PushProperties
  <2>3. Len(s) + ToClean' <= 3
    <3>1. Len(s) = Len(old) + 1 + 1
      BY <1>4, <2>2
    <3>2. CASE Len(old) = 0 /\ ToClean <= 1
      BY <1>6, <3>1, <3>2
    <3>3. CASE Len(old) = 1 /\ ToClean = 0
      BY <1>6, <3>1, <3>3
    <3> QED BY <1>7, <3>2, <3>3
  <2>4. Fits(s, ToClean')
    BY <2>2, <2>3, ScheduleType DEF Fits, Cleaners
  <2> QED BY <1>5, <2>2, <2>4, DepthStep
<1>9. CASE NextDelay # 0
  <2>1. s = t
    BY <1>1, <1>4, <1>9, ConcatEmptySeq
  <2>2. Len(s) <= 2 /\ ToClean' <= 1
    <3>1. Len(s) = Len(old) + 1
      BY <1>4, <2>1
    <3>2. CASE Len(old) = 0 /\ ToClean <= 1
      BY <1>6, <3>1, <3>2
    <3>3. CASE Len(old) = 1 /\ ToClean = 0
      BY <1>6, <3>1, <3>3
    <3> QED BY <1>7, <3>2, <3>3
  <2>3. Fits(s, ToClean')
    BY <1>3, <1>4, <2>1, <2>2 DEF Fits, Cleaners
  <2> QED BY <1>4, <1>5, <2>1, <2>3, DepthStep
<1> QED BY <1>8, <1>9

LEMMA ClockDepth ==
  ASSUME ExactInv, DepthInv, ClockTickWakes \/ ClockTickEnd
  PROVE  DepthInv'
<1>1. /\ kstack[running] # <<>> /\ Top.op \in {"clock_tick", "clock_woke"}
      /\ state \in [Pids -> States] /\ running \in Pids /\ kstack \in [Pids -> Seq(Frames)]
      /\ Top.op \notin Cleaners
  BY DEF ClockTickWakes, ClockTickEnd, ClockTick, InKernel, ExactInv, TableInv, TypeOK, Cleaners
<1>2. CASE ClockTickWakes
  <2>1. CASE Fail("queue_add")
    BY <2>1, DepthFail
  <2>2. CASE ~Fail("queue_add")
    <3>1. PICK i, p, f : /\ i \in DOMAIN waiting /\ p = waiting[i] /\ f = Frame("clock_woke", 0)
                         /\ state' = [state EXCEPT ![p] = "WAITING"] /\ Replace(f)
                         /\ running' = running /\ to_zombify' = to_zombify
      BY <1>2, <2>2 DEF ClockTickWakes, lists
    <3>2. state[p] = "SLEEPING"
      <4>1. /\ waiting \in Seq(Pids) /\ Lists(waiting, InState("SLEEPING"))
            /\ i \in 1 .. Len(waiting)
        BY <1>2, <3>1, LenProperties DEF ExactInv, TableInv, TypeOK, ListsInv, SleepersListed,
           ClockTickWakes, ClockTick, InKernel, None
      <4> QED BY <3>1, <4>1, ListsMember DEF InState
    <3>3. state'[running] = "ZOMBIE" <=> state[running] = "ZOMBIE"
      BY <1>1, <3>1, <3>2
    <3>4. f \in Frames /\ f.op = "clock_woke"
      BY <3>1, FrameType DEF Ops
    <3>5. f.op \notin {"destroy"} \cup Bottoms
      BY <3>4 DEF Bottoms
    <3> QED BY <1>1, <3>1, <3>3, <3>4, <3>5, DepthReplace DEF Replace
  <2> QED BY <2>1, <2>2
<1>3. CASE ClockTickEnd
  <2>1. running' = running /\ to_zombify' = to_zombify /\ state' = state
    BY <1>3 DEF ClockTickEnd, life, sched, lists
  <2>2. CASE Replace(Schedule)
    <3>1. Schedule.op \notin {"destroy"} \cup Bottoms
      BY ScheduleType DEF Bottoms
    <3> QED BY <1>1, <2>1, <2>2, <3>1, ScheduleType, DepthReplace DEF Replace
  <2>3. CASE Pop
    <3>1. /\ kstack'[running] = Tail(kstack[running])
          /\ \A q \in Pids \ {running} : kstack'[q] = kstack[q]
      BY <1>1, <2>3 DEF Pop
    <3> QED BY <1>1, <2>1, <3>1, DepthPop DEF Cleaners
  <2> QED BY <1>3, <2>2, <2>3 DEF ClockTickEnd
<1> QED BY <1>2, <1>3

(* The activations that are at the bottom of a stack return. *)
LEMMA ReturnDepth ==
  ASSUME ExactInv, DepthInv, StartReturn \/ WaitpidResumes
  PROVE  DepthInv'
<1>1. /\ kstack[running] # <<>> /\ Top.op \in {"start", "waitpid", "waitpid_any"} /\ Pop
      /\ running' = running /\ to_zombify' = to_zombify /\ state' = state
  <2>1. CASE StartReturn
    BY <2>1 DEF StartReturn, InKernel, life, sched, lists
  <2>2. CASE WaitpidResumes
    BY <2>2, WaitpidFinds DEF Reap, sched
  <2> QED BY <2>1, <2>2
<1>2. /\ kstack'[running] = Tail(kstack[running])
      /\ \A q \in Pids \ {running} : kstack'[q] = kstack[q]
  BY <1>1, RunningShape DEF Pop
<1> QED BY <1>1, <1>2, DepthPop

LEMMA NextDepth ==
  ASSUME ExactInv, DepthInv, BootAlone, [Next]_vars
  PROVE  DepthInv'
<1>1. CASE KernelStep
  BY <1>1, CleanZombifyDepth, ZombifyDepth, DestroyDepth, DecisionDepth, ReturnDepth, ClockDepth
     DEF KernelStep
<1>2. CASE SystemCall
  BY <1>2, CallDepth
<1>3. CASE Boot
  <2>1. PICK r \in Seq(Frames) : /\ Len(r) = 1
                                 /\ kstack' = [kstack EXCEPT ![running] = <<Schedule>> \o r]
    BY <1>3, BootStep
  <2>2. running = 1 /\ running' = running /\ to_zombify' = to_zombify /\ Booting(kstack[1])
    BY <1>3, BootStep
  <2>3. \A p \in Pids : state[p] # "ZOMBIE"
    BY <2>2 DEF BootAlone, ExactInv, LifeInv
  <2>4. /\ to_zombify = <<>> /\ running \in Pids /\ state \in [Pids -> States]
        /\ ExactInv
    <3>1. Undead = {} /\ to_zombify \in Seq(Pids) /\ Lists(to_zombify, Undead)
      BY <2>3 DEF Undead, ExactInv, TableInv, TypeOK, ListsInv, UndeadListed
    <3> QED BY <3>1, ListsMember DEF ExactInv, TableInv, TypeOK
  <2>5. state'[running] # "ZOMBIE"
    <3>1. state' = [state EXCEPT ![Head(free)] = "WAITING"]
      BY <1>3 DEF Boot, NewProcess
    <3> QED BY <2>3, <2>4, <3>1
  <2>6. ToClean' = 0
    BY <2>2, <2>4, <2>5, EmptySeq DEF ToClean
  <2>7. ToClean' \in Nat /\ Len(r) + ToClean' <= 2
    BY <2>1, <2>6
  <2> QED BY <2>1, <2>2, <2>7, DepthSchedules
<1>4. CASE Tick
  BY <1>4, TickDepth
<1>5. CASE Halted \/ UNCHANGED vars
  BY <1>5, DepthKept DEF Halted, vars, life, sched, lists
<1> QED BY <1>1, <1>2, <1>3, <1>4, <1>5 DEF Next

(***************************************************************************)
(* The kernel stacks never hold more than StackDepth activations, whatever *)
(* the size of the table and however many processes die at once: the       *)
(* recursion of schedule() through zombify() does not go on with every     *)
(* process that is dead.                                                   *)
(***************************************************************************)
THEOREM StacksAreBounded ==
  ASSUME Disciplined
  PROVE  Spec => []BoundedReentrance
<1> DEFINE Inv == DepthInv /\ BootAlone
<1>1. Init => Inv
  <2> SUFFICES ASSUME Init PROVE Inv
    OBVIOUS
  <2>1. PICK f, s : f = Frame("boot", 0) /\ s = <<f>>
    OBVIOUS
  <2>2. f \in Frames /\ f.op = "boot"
    BY <2>1, FrameType DEF Ops
  <2>3. s # <<>> /\ Head(s) = f /\ Len(s) = 1
    BY <2>1, <2>2, SingleStack
  <2>4. /\ running = 1 /\ kstack = [p \in Pids |-> IF p = 1 THEN s ELSE <<>>]
        /\ state = [p \in Pids |-> IF p = 1 THEN "RUNNING" ELSE "UNUSED"] /\ to_zombify = <<>>
    BY <2>1 DEF Init
  <2>5. 1 \in Pids /\ Len(<<>>) = 0
    BY EmptySeq DEF Pids
  <2>6. kstack[running] = s /\ ToClean = 0 /\ \A p \in Pids \ {running} : Len(kstack[p]) <= 2
    BY <2>4, <2>5 DEF ToClean
  <2>7. Fits(s, 0)
    BY <2>2, <2>3 DEF Fits, Cleaners
  <2>8. BootAlone
    BY <2>4 DEF BootAlone
  <2> QED BY <2>6, <2>7, <2>8 DEF DepthInv
<1>2. ExactInv /\ ExactInv' /\ Inv /\ [Next]_vars => Inv'
  BY NextDepth, BootAloneStep
<1>3. ASSUME ExactInv, Inv PROVE BoundedReentrance
  <2>1. ToClean \in Nat /\ Fits(kstack[running], ToClean)
    BY <1>3, ToCleanFacts DEF DepthInv
  <2>2. kstack[running] \in Seq(Frames) /\ Len(kstack[running]) \in Nat
    BY <1>3, RunningShape, LenProperties
  <2>3. Len(kstack[running]) <= 4
    BY <2>1, <2>2 DEF Fits
  <2>4. ASSUME NEW p \in Pids, p # running PROVE Len(kstack[p]) <= 4
    <3>1. kstack[p] \in Seq(Frames) /\ Len(kstack[p]) <= 2
      BY <1>3, <2>4, RunningShape DEF DepthInv
    <3>2. Len(kstack[p]) \in Nat
      BY <3>1, LenProperties
    <3> QED BY <3>1, <3>2
  <2> QED BY <2>3, <2>4 DEF BoundedReentrance, StackDepth
<1>4. ExactInv /\ Inv => BoundedReentrance
  BY <1>3
<1> HIDE DEF Inv
<1> QED BY <1>1, <1>2, <1>4, ExactAlways, PTL DEF Spec
===============================================================================
