----------------------------- MODULE MessageQueue -----------------------------
(***************************************************************************)
(* kernel/message_queue.c: the table of message queues and the system      *)
(* calls on it.                                                            *)
(*                                                                         *)
(* A call runs without interleaving up to the schedule() that follows      *)
(* block_by_message(); what is left of it, the test of reset_releases, is  *)
(* run when the process has been woken and chosen by the scheduler.  Which *)
(* ready process runs next is left open here: every choice of the          *)
(* scheduler of ProcessTable, and more, is covered.  From ProcessTable     *)
(* this module only uses awake, block_by_message, kill and chprio, and the *)
(* reuse of the pid of a dead process.                                     *)
(*                                                                         *)
(* The buffer of a queue is a sequence: LockRing shows its ring of indices *)
(* to be one.  Messages are tokens, sent again only when they are out of   *)
(* the system, so that a lost or doubled one can be told.                  *)
(***************************************************************************)
EXTENDS Integers, FiniteSets, SequencesExt

CONSTANTS Procs,     \* pids
          NbQueue,   \* NBQUEUE
          MaxSize,   \* bound on the capacity that pcreate is asked for
          Messages,  \* what is sent
          MaxPrio,   \* PROCESS_MAX_PRIORITY
          Allowed    \* "kill_released": see Kill

ASSUME QueueConstants == /\ NbQueue \in Nat \ {0}
                         /\ MaxSize \in Nat \ {0}
                         /\ MaxPrio \in Nat \ {0}
                         /\ Messages \cap {"none", "reset"} = {}

VARIABLES size,       \* data[fid].size, 0 when the queue does not exist
          items,      \* data[fid].buffer, from consume to produce index
          locked,     \* data[fid].locked_processes, first to last
          fids,       \* the free fids
          released,   \* reset_releases[]
          prio,       \* priority of each process
          proc,       \* state of each process
          call,       \* the call in which a process is blocked or woken
          dest        \* what was written to *message of its preceive

table == <<size, items, locked, fids>>
procs == <<prio, proc, call, dest>>
vars  == <<table, procs, released>>

Fids  == 0 .. NbQueue - 1
Prios == 1 .. MaxPrio

Entry == [pid : Procs, message : Messages \cup {"none"}, priority : Prios]

Created(f) == size[f] > 0

Running(p) == proc[p] = "ready" /\ call[p] = "none"

InSystem(m) == \/ \E f \in Fids : \/ \E i \in DOMAIN items[f] : items[f][i] = m
                                  \/ \E i \in DOMAIN locked[f] : locked[f][i].message = m
               \/ \E p \in Procs : dest[p] = m
-------------------------------------------------------------------------------
\* process_queue_add_on_priority goes from the last entry back to the first one
\* of higher priority: before its equals, so the latest of them is served first.
Position(q, e) ==
  CHOOSE k \in 1 .. Len(q) + 1 :
    /\ \A i \in k .. Len(q) : q[i].priority <= e.priority
    /\ k > 1 => q[k - 1].priority > e.priority

AddOnPriority(q, e) == InsertAt(q, Position(q, e), e)

Listed(q, p) == \E i \in DOMAIN q : q[i].pid = p

\* The first entry of p.
EntryOf(q, p) == CHOOSE i \in DOMAIN q : /\ q[i].pid = p
                                        /\ \A j \in 1 .. i - 1 : q[j].pid # p

\* Faulty variant: nothing is removed.
KeepPid(q, p) == q

\* process_queue_remove_first_with_pid
RemovePid(q, p) == IF Listed(q, p) THEN RemoveAt(q, EntryOf(q, p)) ELSE q

\* Body of the loop of notify_priority_changed.  The code goes on from the node it
\* has freed: whether that memory is the new node or still the old one, it only
\* meets entries to the right, and moving the entry twice leaves it in place.
NotifyPriority(q, p, np) ==
  IF Listed(q, p)
    THEN AddOnPriority(RemovePid(q, p), [q[EntryOf(q, p)] EXCEPT !.priority = np])
    ELSE q
-------------------------------------------------------------------------------
\* Every call is made by some process.
SomeoneRuns == \E p \in Procs : Running(p)

\* When no fid is left pcreate returns -1.
Pcreate(count) ==
  /\ SomeoneRuns /\ fids # <<>>
  /\ size' = [size EXCEPT ![Head(fids)] = count]
  /\ fids' = Tail(fids)
  /\ UNCHANGED <<items, locked, procs, released>>

\* mem_alloc fails: the fid goes to the end of the free ones.
PcreateFails ==
  /\ SomeoneRuns /\ fids # <<>>
  /\ fids' = Append(Tail(fids), Head(fids))
  /\ UNCHANGED <<size, items, locked, procs, released>>

Block(f, p, kind, m) ==
  /\ locked' = [locked EXCEPT ![f] =
                  AddOnPriority(@, [pid |-> p, message |-> m, priority |-> prio[p]])]
  /\ proc' = [proc EXCEPT ![p] = "blocked"]
  /\ call' = [call EXCEPT ![p] = kind]
  /\ UNCHANGED <<size, fids, prio, released>>

\* The first entry of locked_processes is removed and its process woken.
WakeFirst(f) == /\ locked' = [locked EXCEPT ![f] = Tail(@)]
                /\ proc' = [proc EXCEPT ![Head(locked[f]).pid] = "ready"]
                /\ UNCHANGED <<size, fids, prio, call, released>>

\* Faulty variant: the message given to a waiting process is buffered too.
PsendTwice(f, p, m) ==
  /\ Created(f) /\ Running(p) /\ ~InSystem(m)
  /\ items[f] = <<>> /\ locked[f] # <<>>
  /\ WakeFirst(f)
  /\ dest' = [dest EXCEPT ![Head(locked[f]).pid] = m]
  /\ items' = [items EXCEPT ![f] = Append(@, m)]

Psend(f, p, m) ==
  /\ Created(f) /\ Running(p) /\ ~InSystem(m)
  /\ \/ /\ items[f] = <<>> /\ locked[f] # <<>>
        /\ WakeFirst(f)
        /\ dest' = [dest EXCEPT ![Head(locked[f]).pid] = m]
        /\ UNCHANGED items
     \/ /\ Len(items[f]) = size[f]
        /\ Block(f, p, "psend", m)
        /\ UNCHANGED <<items, dest>>
     \/ /\ Len(items[f]) < size[f]
        /\ items[f] = <<>> => locked[f] = <<>>
        /\ items' = [items EXCEPT ![f] = Append(@, m)]
        /\ UNCHANGED <<size, locked, fids, procs, released>>

\* Faulty variant: a message is taken from a full buffer, the first waiting sender
\* is woken and its message forgotten.
PreceiveDrops(f, p) ==
  /\ Created(f) /\ Running(p)
  /\ \/ /\ Len(items[f]) = size[f] /\ locked[f] # <<>>
        /\ items' = [items EXCEPT ![f] = Tail(@)]
        /\ WakeFirst(f)
        /\ UNCHANGED dest
     \/ /\ items[f] = <<>>
        /\ Block(f, p, "preceive", "none")
        /\ UNCHANGED <<items, dest>>

\* A message received at once is returned at once: it leaves the system.
Preceive(f, p) ==
  /\ Created(f) /\ Running(p)
  /\ \/ /\ Len(items[f]) = size[f] /\ locked[f] # <<>>
        /\ items' = [items EXCEPT ![f] = Append(Tail(@), Head(locked[f]).message)]
        /\ WakeFirst(f)
        /\ UNCHANGED dest
     \/ /\ items[f] = <<>>
        /\ Block(f, p, "preceive", "none")
        /\ UNCHANGED <<items, dest>>
     \/ /\ items[f] # <<>>
        /\ Len(items[f]) = size[f] => locked[f] = <<>>
        /\ items' = [items EXCEPT ![f] = Tail(@)]
        /\ UNCHANGED <<size, locked, fids, procs, released>>

\* Faulty variant: the flag is not taken down.
ResumeKeepsFlag(p) ==
  /\ proc[p] = "ready" /\ call[p] # "none"
  /\ call' = [call EXCEPT ![p] = "none"]
  /\ dest' = [dest EXCEPT ![p] = "none"]
  /\ UNCHANGED <<table, prio, proc, released>>

\* The end of a psend or preceive that was blocked: it returns -1 if the flag
\* of its pid is set, and takes the flag down.
Resume(p) ==
  /\ proc[p] = "ready" /\ call[p] # "none"
  /\ call' = [call EXCEPT ![p] = "none"]
  /\ dest' = [dest EXCEPT ![p] = "none"]
  /\ released' = [released EXCEPT ![p] = FALSE]
  /\ UNCHANGED <<table, prio, proc>>

\* message_queue_reset: every waiting process is woken with its flag raised and,
\* if it was receiving, -1 written for it; the messages are dropped.
Release(f) ==
  LET out == {locked[f][i].pid : i \in DOMAIN locked[f]}
  IN  /\ proc' = [p \in Procs |-> IF p \in out THEN "ready" ELSE proc[p]]
      /\ dest' = [p \in Procs |-> IF p \in out /\ call[p] = "preceive"
                                    THEN "reset" ELSE dest[p]]
      /\ released' = [p \in Procs |-> p \in out \/ released[p]]
      /\ UNCHANGED <<prio, call>>

Preset(f, p) ==
  /\ Created(f) /\ Running(p)
  /\ Release(f)
  /\ items' = [items EXCEPT ![f] = <<>>]
  /\ locked' = [locked EXCEPT ![f] = <<>>]
  /\ UNCHANGED <<size, fids>>

Pdelete(f, p) ==
  /\ Created(f) /\ Running(p)
  /\ Release(f)
  /\ items' = [items EXCEPT ![f] = <<>>]
  /\ locked' = [locked EXCEPT ![f] = <<>>]
  /\ size' = [size EXCEPT ![f] = 0]
  /\ fids' = Append(fids, f)

\* The value that pcount stores.
Pcount(f) == IF items[f] = <<>> THEN -Len(locked[f]) ELSE Len(items[f]) + Len(locked[f])
-------------------------------------------------------------------------------
(* process.c, as far as it concerns the queues. *)

\* message_queues_notify_processus_killed.  Unless "kill_released" is allowed, a
\* process is not killed between its release by a reset and its return.
Kill(p) ==
  /\ SomeoneRuns /\ proc[p] # "dead"
  /\ "kill_released" \in Allowed \/ ~released[p]
  /\ locked' = [f \in Fids |-> IF Created(f) THEN RemovePid(locked[f], p) ELSE locked[f]]
  /\ proc' = [proc EXCEPT ![p] = "dead"]
  /\ call' = [call EXCEPT ![p] = "none"]
  /\ dest' = [dest EXCEPT ![p] = "none"]
  /\ UNCHANGED <<size, items, fids, released, prio>>

\* start() of a new process with a pid that was freed.
Start(p, np) ==
  /\ SomeoneRuns /\ proc[p] = "dead"
  /\ proc' = [proc EXCEPT ![p] = "ready"]
  /\ prio' = [prio EXCEPT ![p] = np]
  /\ UNCHANGED <<table, call, dest, released>>

\* chprio and message_queues_notify_priority_changed.
Chprio(p, np) ==
  /\ SomeoneRuns /\ proc[p] # "dead"
  /\ prio' = [prio EXCEPT ![p] = np]
  /\ locked' = IF proc[p] = "blocked"
                 THEN [f \in Fids |-> IF Created(f) THEN NotifyPriority(locked[f], p, np)
                                                    ELSE locked[f]]
                 ELSE locked
  /\ UNCHANGED <<size, items, fids, proc, call, dest, released>>
-------------------------------------------------------------------------------
Init == /\ size = [f \in Fids |-> 0]
        /\ items = [f \in Fids |-> <<>>]
        /\ locked = [f \in Fids |-> <<>>]
        /\ fids = [i \in 1 .. NbQueue |-> i - 1]
        /\ released = [p \in Procs |-> FALSE]
        /\ prio = [p \in Procs |-> 1]
        /\ proc = [p \in Procs |-> "ready"]
        /\ call = [p \in Procs |-> "none"]
        /\ dest = [p \in Procs |-> "none"]

Next == \/ \E count \in 1 .. MaxSize : Pcreate(count)
        \/ PcreateFails
        \/ \E f \in Fids, p \in Procs : \/ Preceive(f, p) \/ Preset(f, p) \/ Pdelete(f, p)
                                        \/ \E m \in Messages : Psend(f, p, m)
        \/ \E p \in Procs : \/ Resume(p) \/ Kill(p)
                            \/ \E np \in Prios : Start(p, np) \/ Chprio(p, np)

Spec == Init /\ [][Next]_vars
-------------------------------------------------------------------------------
\* Type invariant of the table, of its waiting lists and of the processes.
TypeOK ==
  /\ size \in [Fids -> 0 .. MaxSize]
  /\ items \in [Fids -> Seq(Messages)]
  /\ locked \in [Fids -> Seq(Entry)]
  /\ fids \in Seq(Fids)
  /\ released \in [Procs -> BOOLEAN]
  /\ prio \in [Procs -> Prios]
  /\ proc \in [Procs -> {"ready", "blocked", "dead"}]
  /\ call \in [Procs -> {"none", "psend", "preceive"}]
  /\ dest \in [Procs -> Messages \cup {"none", "reset"}]

\* Every process blocked in psend or preceive has exactly one entry, in one list, of
\* the kind of its call, and no other process has any: nobody is forgotten, woken
\* twice, or woken after its death.
WaitersListed ==
  /\ \A p \in Procs : proc[p] = "blocked" <=> \E f \in Fids : Listed(locked[f], p)
  /\ \A f, g \in Fids : \A i \in DOMAIN locked[f], j \in DOMAIN locked[g] :
       locked[f][i].pid = locked[g][j].pid => f = g /\ i = j
  /\ \A f \in Fids : \A i \in DOMAIN locked[f] :
       LET e == locked[f][i]
       IN  call[e.pid] = IF e.message = "none" THEN "preceive" ELSE "psend"

\* psend and preceive tell senders from receivers in the one list of a queue by the
\* number of messages alone: receivers wait only at an empty buffer, senders only at
\* a full one, and nobody at a queue that does not exist.
NobodyWaitsInVain ==
  \A f \in Fids :
    /\ Len(items[f]) <= size[f]
    /\ locked[f] # <<>> =>
         /\ Created(f)
         /\ \/ items[f] = <<>> /\ \A i \in DOMAIN locked[f] : locked[f][i].message = "none"
            \/ Len(items[f]) = size[f] /\ \A i \in DOMAIN locked[f] : locked[f][i].message # "none"

\* The list of a queue is in the order of the priorities its processes have now,
\* after any chprio of a waiting process.
WaitersByPriority ==
  \A f \in Fids : \A i \in DOMAIN locked[f] :
    /\ locked[f][i].priority = prio[locked[f][i].pid]
    /\ i > 1 => locked[f][i - 1].priority >= locked[f][i].priority

\* A fid is free or in use, and never free twice.
FidsAccounted ==
  /\ \A i, j \in DOMAIN fids : fids[i] = fids[j] => i = j
  /\ \A f \in Fids : Created(f) <=> \A i \in DOMAIN fids : fids[i] # f

\* The waiting lists are exact: they hold the blocked processes of existing queues,
\* each once, those the state of the buffer makes wait, in the order of priority.
WaitersExact ==
  WaitersListed /\ NobodyWaitsInVain /\ WaitersByPriority /\ FidsAccounted

\* A blocked call that has been woken has one answer: a message for a receiver, or
\* -1 with the flag of its pid raised after a reset.  kbd.c:72 asserts that the
\* preceive of cons_read, whose queue the kernel never resets, returns 0.
AnswersExact ==
  \A p \in Procs : call[p] = "preceive" =>
    IF proc[p] = "blocked" THEN dest[p] = "none"
                           ELSE IF released[p] THEN dest[p] = "reset" ELSE dest[p] \in Messages

\* A flag is up only for the process that was released, until its call returns.
FlagsFresh == \A p \in Procs : released[p] => proc[p] = "ready" /\ call[p] # "none"

\* A psend or preceive that was switched out resumes with the answer it was given,
\* and no later call of the process inherits it.
AnswersAgree == AnswersExact /\ FlagsFresh

\* A message is in one place only: a buffer, the entry of its sender, or the
\* variable of its receiver, whatever wakes, resets and deaths went between.
NoMessageTwice ==
  \A m \in Messages :
    LET buffered == {b \in Fids \X (1 .. MaxSize) :
                   b[2] <= Len(items[b[1]]) /\ items[b[1]][b[2]] = m}
        waiting  == {p \in Procs : \E f \in Fids : \E i \in DOMAIN locked[f] :
                                      locked[f][i].pid = p /\ locked[f][i].message = m}
        received == {p \in Procs : dest[p] = m}
    IN  Cardinality(buffered) + Cardinality(waiting) + Cardinality(received) <= 1

\* m is in a buffer q or in an entry of a waiting list l.
Accepted(m, q, l) == \/ \E i \in DOMAIN q : q[i] = m
                     \/ \E i \in DOMAIN l : l[i].message = m

LeavesInOrder(f, m) ==
  Accepted(m, items[f], locked[f]) /\ ~Accepted(m, items'[f], locked'[f]) =>
    \/ items'[f] = <<>> /\ locked'[f] = <<>>
    \/ items[f][1] = m
    \/ \E i \in DOMAIN locked[f] : /\ locked[f][i].message = m
                                  /\ proc'[locked[f][i].pid] = "dead"

\* No accepted message is lost.  What leaves a queue that is not emptied by a reset is
\* the oldest message of its buffer, or the message of a sender that is killed.
NoMessageLost == [][\A f \in Fids, m \in Messages : LeavesInOrder(f, m)]_vars
===============================================================================
