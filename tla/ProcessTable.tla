----------------------------- MODULE ProcessTable -----------------------------
(***************************************************************************)
(* kernel/process.c: the process table, the scheduler and the process      *)
(* system calls, together with the clock interrupt (kernel/timer.c) that   *)
(* drives them and the boot code of kernel/start.c that creates the first  *)
(* two processes.                                                          *)
(*                                                                         *)
(* All the gates of the IDT are interrupt gates, so the kernel runs with   *)
(* interrupts masked: a system call or a clock tick runs to its end, or to *)
(* the context_switch inside process_switch, without interleaving.  What   *)
(* does interleave is the rest of the calls that were switched out.  The   *)
(* kernel stack of every process is therefore part of the state: kstack[p] *)
(* is the list of the activations that are still to be finished, innermost *)
(* first, and one kernel action is one step of the innermost activation of *)
(* the running process.  schedule() is re-entrant (schedule, then          *)
(* clean_processes, zombify and schedule again), which is why these stacks *)
(* grow.                                                                   *)
(*                                                                         *)
(* The fields of process_t are one function per field.  The free pids are  *)
(* a FIFO sequence, which LockRing shows the ring of indices to implement; *)
(* current_size is N - Len(free).  Return codes, names, stacks' addresses  *)
(* and registers are not modelled.                                         *)
(***************************************************************************)
EXTENDS Integers, SequencesExt

CONSTANTS N,         \* PROCESS_TABLE_MAX_SIZE
          MaxPrio,   \* PROCESS_MAX_PRIORITY; PROCESS_MIN_PRIORITY is 1
          MaxClock,  \* bound: wait_clock is called with at most this value
          Calls,     \* the system calls that processes make in this instance
          Allowed    \* what processes do besides, see the rules that name it

ASSUME SizesAssumption == /\ N \in Nat /\ N > 1
                          /\ MaxPrio \in Nat /\ MaxPrio > 1
                          /\ MaxClock \in Nat

VARIABLES pid, father, childs, state, priority, waiting_code, sleep_time,
          deallocated, sealed,           \* fields of process_table.data[]
          queue,                         \* process_queue, lowest priority first
          free,                          \* pids[] between its two indices
          to_zombify, to_destroy,        \* pids_to_zombify[], pids_to_destroy[]
          waiting,                       \* pids_waiting[]
          running,                       \* running_process
          kstack,                        \* kernel stacks
          inter, scheduler_delay,        \* kernel/timer.c
          panic                          \* what stopped the kernel, or the model

family == <<father, childs>>
life   == <<pid, state, deallocated, sealed>>
sched  == <<queue, priority, running>>
lists  == <<to_zombify, to_destroy, free>>
sleep  == <<waiting, sleep_time>>
clock  == <<inter, scheduler_delay>>

vars == <<family, life, sched, lists, sleep, clock, waiting_code, kstack, panic>>

Pids     == 1 .. N
Prios    == 1 .. MaxPrio
NotFound == -1                                   \* PROCESS_NOT_FOUND_CODE
None     == "none"

States == {"UNUSED", "RUNNING", "WAITING", "BLOCKED_BY_MESSAGE",
           "BLOCKED_BY_CHILD", "SLEEPING", "ZOMBIE"}

Blocked == {"BLOCKED_BY_MESSAGE", "BLOCKED_BY_CHILD"}

(***************************************************************************)
(* Activations.  `schedule' is a call of schedule() that has not decided   *)
(* yet; `zombify' and `destroy' are in the loop over the children of       *)
(* process `arg', `at' being the cursor; `waitpid', `waitpid_any' and      *)
(* `start' are the code after the schedule() of those calls; `clock_tick'  *)
(* is the second half of tic_PIT, `clock_woke' the same with awaken set;   *)
(* `spin' is the while(1) of exit; `boot' and `hlt' belong to init.        *)
(***************************************************************************)
Ops == {"schedule", "zombify", "destroy", "waitpid", "waitpid_any", "start",
        "clock_tick", "clock_woke", "spin", "boot", "hlt"}

Frames == [op : Ops, arg : 0 .. N, at : Nat \ {0}]

Frame(op, arg) == [op |-> op, arg |-> arg, at |-> 1]

Schedule == Frame("schedule", 0)
-------------------------------------------------------------------------------
(* shared/queue.h, as the sequence of elements from head->next to head->prev *)

PositionAtHead(q, prio, p) == 1            \* faulty variant: does not sort

\* queue_add stops in front of the first element whose priority is not lower.
Position(q, prio, p) ==
  CHOOSE k \in 1 .. Len(q) + 1 :
    /\ k <= Len(q) => prio[q[k]] >= prio[p]
    /\ \A i \in 1 .. k - 1 : prio[q[i]] < prio[p]

QueueAdd(q, prio, p) == InsertAt(q, Position(q, prio, p), p)

\* Faulty variant: only unlinks the first node.
WithoutHead(s, e) == IF s # <<>> /\ Head(s) = e THEN Tail(s) ELSE s

\* process_child_list_remove and queue_del: unlink e if it is there.
Without(s, e) ==
  IF \E i \in DOMAIN s : s[i] = e
    THEN RemoveAt(s, CHOOSE i \in DOMAIN s : s[i] = e)
    ELSE s

QueueDel(q, p) == Without(q, p)

Linked(p) == \E i \in DOMAIN queue : queue[i] = p
-------------------------------------------------------------------------------
Push(f)    == kstack' = [kstack EXCEPT ![running] = <<f>> \o @]
Replace(f) == kstack' = [kstack EXCEPT ![running] = <<f>> \o Tail(@)]
Pop        == kstack' = [kstack EXCEPT ![running] = Tail(@)]

Top == Head(kstack[running])

InKernel(op) == /\ panic = None
                /\ kstack[running] # <<>>
                /\ Top.op = op

\* Interrupts are enabled in user mode, and in init before it first switches.
InUserMode == panic = None /\ running # 1 /\ kstack[running] = <<>>

\* Faulty variant: the gates leave interrupts enabled.
InterruptibleInKernel == panic = None

Interruptible == InUserMode \/ InKernel("boot")

\* The test of kill, chprio and waitpid.  It also lets through a pid that only
\* a failed start() has used.
Exists(p) == pid[p] # NotFound

Calling(call) == InUserMode /\ call \in Calls

(***************************************************************************)
(* What stops the kernel: a failed assertion, by the function it is in,    *)
(* except `init', the one of zombify() on the pid of init, `child_list',   *)
(* the one on the memory of a node of a list of children, and              *)
(* `pids_waiting', which is no assertion: kill() has forgotten a sleeper   *)
(* and left its victim in pids_waiting.  The code then goes on, and        *)
(* clock_tick() will put a dead process in the ready queue; the model      *)
(* stops, and what it says of the table ends there.                        *)
(***************************************************************************)
CallStops == {"queue_del", "init", "child_list", "pids_waiting"}

Sites == {"zombify", "deallocate", "destroy", "request_destroy", "waitpid",
          "queue_add", "queue_out"} \cup CallStops

\* A failed assertion: panic() prints a message and never returns.
Fail(site) ==
  /\ panic' = site
  /\ UNCHANGED <<family, life, sched, lists, sleep, clock, waiting_code, kstack>>
-------------------------------------------------------------------------------
(* clean_processes: the two lists are emptied from their end; the running   *)
(* process is not cleaned by itself, it is exchanged with the first entry.  *)

CanPick(list) == list # <<>> /\ (Last(list) = running => Len(list) > 1)

Picked(list) == IF Last(list) = running THEN list[1] ELSE Last(list)

UnpickedNoSwap(list) == Front(list)        \* faulty variant: entry 0 not rewritten

Unpicked(list) ==
  Front(IF Last(list) = running THEN [list EXCEPT ![1] = running] ELSE list)

\* request_destroy(p) of a process that is already a zombie, which all its
\* callers ensure; the caller tests `sealed', which request_destroy asserts.
RequestDestroy(p) ==
  /\ sealed' = [sealed EXCEPT ![p] = TRUE]
  /\ to_destroy' = Append(to_destroy, p)

\* One iteration of the first loop: take a process off the list and enter
\* zombify, up to deallocate.
CleanZombify ==
  /\ InKernel("schedule")
  /\ CanPick(to_zombify)
  /\ LET p == Picked(to_zombify)
     IN  IF p = 1 \/ state[p] # "ZOMBIE" \/ p = running \/ father[p] \notin Pids
           THEN Fail("zombify")
         ELSE IF deallocated[p]
           THEN Fail("deallocate")
           ELSE /\ to_zombify' = Unpicked(to_zombify)
                /\ deallocated' = [deallocated EXCEPT ![p] = TRUE]
                /\ kstack' = [kstack EXCEPT ![p] = <<>>,
                                ![running] = <<Frame("zombify", p)>> \o @]
                /\ UNCHANGED <<family, pid, state, sealed, sched, to_destroy, free,
                               sleep, clock, waiting_code, panic>>

\* One child of the dying process: a dead one is destroyed with its father, a
\* live one goes to init.  process_child_list_remove has freed the node by the
\* time its pid is copied to the list of init, which receives a node with pid
\* 0 (mem_free clears the block) that no operation ever finds: it is left out.
ZombifyChild ==
  /\ InKernel("zombify")
  /\ LET p == Top.arg
         k == Top.at
         c == childs[p][k]
     IN  /\ k <= Len(childs[p])
         /\ IF deallocated[c]
              THEN IF sealed[c]
                THEN Fail("request_destroy")
                ELSE /\ RequestDestroy(c)
                     /\ Replace([Top EXCEPT !.at = k + 1])
                     /\ UNCHANGED <<family, pid, state, deallocated, sched, to_zombify,
                                    free, sleep, clock, waiting_code, panic>>
              ELSE /\ childs' = [childs EXCEPT ![p] = RemoveAt(@, k)]
                   /\ father' = [father EXCEPT ![c] = 1]
                   /\ UNCHANGED <<life, sched, lists, sleep, clock, waiting_code,
                                  kstack, panic>>

\* Faulty variants: waitpid(-1) is never woken; any child wakes.
AwaitsByPid(f, p) ==
  state[f] = "BLOCKED_BY_CHILD" /\ ~sealed[p] /\ waiting_code[f] = p
AwaitsAnyChild(f, p) == state[f] = "BLOCKED_BY_CHILD" /\ ~sealed[p]

\* The father is woken if it waits for this child.
Awaits(f, p) == /\ state[f] = "BLOCKED_BY_CHILD"
                /\ ~sealed[p]
                /\ waiting_code[f] < 0 \/ waiting_code[f] = p

\* The rest of zombify, up to its call of schedule().
ZombifyEnd ==
  /\ InKernel("zombify")
  /\ Top.at > Len(childs[Top.arg])
  /\ LET p == Top.arg
         f == father[p]
     IN  /\ IF Awaits(f, p)
              THEN /\ waiting_code' = [waiting_code EXCEPT ![f] = p]
                   /\ state' = [state EXCEPT ![f] = "WAITING"]
                   /\ queue' = QueueAdd(queue, priority, f)
              ELSE UNCHANGED <<waiting_code, state, queue>>
         /\ IF ~sealed[p] /\ (state[f] = "ZOMBIE" \/ f = 1)
              THEN RequestDestroy(p)
              ELSE UNCHANGED <<sealed, to_destroy>>
  /\ Replace(Schedule)
  /\ UNCHANGED <<family, pid, deallocated, priority, running, to_zombify, free,
                 sleep, clock, panic>>

\* One iteration of the second loop: enter destroy.
CleanDestroy ==
  /\ InKernel("schedule")
  /\ ~CanPick(to_zombify)
  /\ CanPick(to_destroy)
  /\ LET p == Picked(to_destroy)
     IN  IF p = 1 \/ state[p] = "RUNNING" \/ p = running \/ father[p] \notin Pids
           THEN Fail("destroy")
           ELSE /\ to_destroy' = Unpicked(to_destroy)
                /\ childs' = [childs EXCEPT ![father[p]] = Without(@, p)]
                /\ Push(Frame("destroy", p))
                /\ UNCHANGED <<father, life, sched, to_zombify, free, sleep, clock,
                               waiting_code, panic>>

\* The loop of destroy over the remaining children.  (The list of init gets the
\* pid of the dying process and not that of the child.)
DestroyChild ==
  /\ InKernel("destroy")
  /\ childs[Top.arg] # <<>>
  /\ LET p == Top.arg
         c == Head(childs[p])
     IN  IF deallocated[c]
           THEN IF sealed[c]
             THEN Fail("request_destroy")
             ELSE /\ childs' = [childs EXCEPT ![p] = Tail(@)]
                  /\ RequestDestroy(c)
                  /\ UNCHANGED <<father, pid, state, deallocated, sched, to_zombify,
                                 free, sleep, clock, waiting_code, kstack, panic>>
           ELSE /\ father' = [father EXCEPT ![c] = 1]
                /\ childs' = [childs EXCEPT ![p] = Tail(@), ![1] = <<p>> \o @]
                /\ UNCHANGED <<life, sched, lists, sleep, clock, waiting_code,
                               kstack, panic>>

\* process_table_unregister, deallocate if need be, *process = no_process.
DestroyEnd ==
  /\ InKernel("destroy")
  /\ childs[Top.arg] = <<>>
  /\ LET p == Top.arg
     IN  /\ free' = Append(free, p)
         /\ pid' = [pid EXCEPT ![p] = NotFound]
         /\ father' = [father EXCEPT ![p] = 0]
         /\ state' = [state EXCEPT ![p] = "UNUSED"]
         /\ priority' = [priority EXCEPT ![p] = 0]
         /\ waiting_code' = [waiting_code EXCEPT ![p] = 0]
         /\ sleep_time' = [sleep_time EXCEPT ![p] = 0]
         /\ deallocated' = [deallocated EXCEPT ![p] = FALSE]
         /\ sealed' = [sealed EXCEPT ![p] = FALSE]
         /\ kstack' = [kstack EXCEPT ![p] = <<>>, ![running] = Tail(@)]
  /\ UNCHANGED <<childs, queue, running, to_zombify, to_destroy, waiting, clock, panic>>
-------------------------------------------------------------------------------
(* The decision of schedule().  When the table is full the candidate that   *)
(* is compared is init, but the process that is taken is still the first of *)
(* the queue.                                                               *)

Cleaned == ~CanPick(to_zombify) /\ ~CanPick(to_destroy)

Full == free = <<>>

CandidateEarly ==                          \* faulty variant: full one too early
  IF Len(free) <= 1 /\ running # 1 THEN 1 ELSE IF queue = <<>> THEN 0 ELSE Last(queue)

Candidate == IF Full /\ running # 1 THEN 1
             ELSE IF queue = <<>> THEN 0        \* NULL
             ELSE Last(queue)

\* Faulty variant: equal priorities do not rotate.
KeepsRunningOnTie ==
  Candidate \notin {0, running} => /\ state[running] = "RUNNING"
                                   /\ priority[running] >= priority[Candidate]

KeepsRunning ==
  Candidate \notin {0, running} => /\ state[running] = "RUNNING"
                                   /\ priority[running] > priority[Candidate]

ScheduleKeep == /\ InKernel("schedule")
                /\ Cleaned
                /\ KeepsRunning
                /\ Pop
                /\ UNCHANGED <<family, life, sched, lists, sleep, clock, waiting_code,
                               panic>>

\* queue_out and process_switch.  The process that is switched out resumes
\* after this call of schedule().
ScheduleSwitch ==
  /\ InKernel("schedule")
  /\ Cleaned
  /\ ~KeepsRunning
  /\ IF queue = <<>>
       THEN Fail("queue_out")        \* the code would dereference NULL here
       ELSE LET new == Last(queue)
                preempted == state[running] = "RUNNING"
            IN  /\ running' = new
                /\ state' = [state EXCEPT ![running] = IF preempted THEN "WAITING" ELSE @,
                                          ![new] = "RUNNING"]
                /\ queue' = IF preempted THEN QueueAdd(Front(queue), priority, running)
                                         ELSE Front(queue)
                /\ Pop
                /\ UNCHANGED <<family, pid, deallocated, sealed, priority, lists, sleep,
                               clock, waiting_code, panic>>
-------------------------------------------------------------------------------
(* start: the part that succeeds, with c the new process of father p.       *)

NewProcess(p, c, prio) ==
  /\ free' = Tail(free)
  /\ pid' = [pid EXCEPT ![c] = c]
  /\ father' = [father EXCEPT ![c] = p]
  /\ childs' = [childs EXCEPT ![p] = <<c>> \o @, ![c] = <<>>]
  /\ priority' = [priority EXCEPT ![c] = prio]
  /\ deallocated' = [deallocated EXCEPT ![c] = FALSE]
  /\ state' = [state EXCEPT ![c] = "WAITING"]
  /\ queue' = QueueAdd(queue, priority', c)
  /\ UNCHANGED <<sealed, running, to_zombify, to_destroy, sleep, clock, waiting_code,
                 panic>>

Start(prio) ==
  /\ Calling("start")
  /\ ~Full
  /\ LET c == Head(free)
         after == <<Frame("start", c)>>
     IN  /\ NewProcess(running, c, prio)
         /\ kstack' = [kstack EXCEPT ![running] =
                         IF prio > priority[running] THEN <<Schedule>> \o after ELSE after]

\* After its schedule() the father reads the pid of the new process again.
StartReturn == /\ InKernel("start")
               /\ Pop
               /\ UNCHANGED <<family, life, sched, lists, sleep, clock, waiting_code, panic>>

\* No memory for one of the two stacks: the pid goes back, the fields that
\* were already set stay in the table.
StartFails(prio) ==
  /\ Calling("start")
  /\ "no_memory" \in Allowed
  /\ ~Full
  /\ LET c == Head(free)
     IN  /\ free' = Append(Tail(free), c)
         /\ pid' = [pid EXCEPT ![c] = c]
         /\ father' = [father EXCEPT ![c] = running]
         /\ childs' = [childs EXCEPT ![c] = <<>>]
         /\ priority' = [priority EXCEPT ![c] = prio]
         /\ deallocated' = [deallocated EXCEPT ![c] = FALSE]
  /\ UNCHANGED <<state, sealed, queue, running, to_zombify, to_destroy, sleep, clock,
                 waiting_code, kstack, panic>>

\* No memory for the third allocation, the node of the father's list of
\* children: process_child_list_add_head asserts that it has got it.
StartNoNode ==
  /\ Calling("start")
  /\ "no_memory" \in Allowed
  /\ ~Full
  /\ Fail("child_list")

\* init() of kernel/start.c: sti(), then start(user_start) with priority 2.  It
\* is switched out inside start; since context_switch does not save the flags,
\* it resumes with interrupts masked and executes hlt.
Boot ==
  /\ InKernel("boot")
  /\ ~Full
  /\ NewProcess(1, Head(free), 2)
  /\ kstack' = [kstack EXCEPT ![1] = <<Schedule, Frame("hlt", 0)>>]
-------------------------------------------------------------------------------
(* request_zombify, followed by schedule() and then the activations `rest'.  *)

\* Faulty variant: schedule() twice.
RequestZombifyTwice(p, rest) ==
  /\ to_zombify' = Append(to_zombify, p)
  /\ state' = [state EXCEPT ![p] = "ZOMBIE"]
  /\ queue' = IF p # running THEN QueueDel(queue, p) ELSE queue
  /\ kstack' = [kstack EXCEPT ![running] = <<Schedule, Schedule>> \o rest]
  /\ UNCHANGED <<family, pid, deallocated, sealed, priority, running, to_destroy, free,
                 sleep_time, clock, waiting_code>>

RequestZombify(p, rest) ==
  /\ to_zombify' = Append(to_zombify, p)
  /\ state' = [state EXCEPT ![p] = "ZOMBIE"]
  /\ queue' = IF p # running THEN QueueDel(queue, p) ELSE queue
  /\ kstack' = [kstack EXCEPT ![running] = <<Schedule>> \o rest]
  /\ UNCHANGED <<family, pid, deallocated, sealed, priority, running, to_destroy, free,
                 sleep_time, clock, waiting_code>>

Exit ==
  /\ Calling("exit")
  /\ RequestZombify(running, <<Frame("spin", 0)>>)
  /\ UNCHANGED <<waiting, panic>>

\* A process that sleeps is taken out of pids_waiting by dropping the LAST
\* entry, whoever that is.
WaitingNotCleaned(p) == waiting            \* faulty variant

WaitingAfterKill(p) == IF state[p] = "SLEEPING" THEN Front(waiting) ELSE waiting

ForgetsSleeper(p) == state[p] = "SLEEPING" /\ Last(waiting) # p

\* request_zombify takes the victim off the ready queue, and queue_del asserts
\* that it is linked.  With init for victim, clean_processes has nothing else to
\* do before the assertion of zombify: the two are one step.
Kill(p) ==
  /\ Calling("kill")
  /\ Exists(p)
  /\ state[p] # "ZOMBIE"
  /\ IF p # running /\ state[p] \in {"UNUSED", "WAITING", "RUNNING"} /\ ~Linked(p)
       THEN Fail("queue_del")
     ELSE IF p = 1
       THEN Fail("init")
       ELSE /\ RequestZombify(p, <<>>)
            /\ waiting' = WaitingAfterKill(p)
            /\ panic' = IF ForgetsSleeper(p) THEN "pids_waiting" ELSE panic
-------------------------------------------------------------------------------
(* waitpid *)

Block(st, code, after) ==
  /\ state' = [state EXCEPT ![running] = st]
  /\ waiting_code' = [waiting_code EXCEPT ![running] = code]
  /\ kstack' = [kstack EXCEPT ![running] = <<Schedule>> \o after]
  /\ UNCHANGED <<family, pid, deallocated, sealed, sched, lists, clock, panic>>

Reap(p) == /\ RequestDestroy(p)
           /\ UNCHANGED <<family, pid, state, deallocated, sched, to_zombify, free, sleep,
                          clock, waiting_code, panic>>

\* Position of the first child on which waitpid(-1) returns at once.
DeadChild(k) ==
  LET c == childs[running]
      dead(i) == state[c[i]] = "ZOMBIE" /\ ~sealed[c[i]]
  IN  dead(k) /\ \A i \in 1 .. k - 1 : ~dead(i)

WaitpidAny ==
  /\ Calling("waitpid")
  /\ LET c == childs[running]
     IN  \/ \E k \in DOMAIN c : DeadChild(k) /\ Reap(c[k]) /\ UNCHANGED kstack
         \/ /\ ~\E k \in DOMAIN c : DeadChild(k)
            /\ \E k \in DOMAIN c : ~sealed[c[k]]
            /\ Block("BLOCKED_BY_CHILD", -1, <<Frame("waitpid_any", 0)>>)
            /\ UNCHANGED sleep

Waitpid(c) ==
  /\ Calling("waitpid")
  /\ Exists(c)
  /\ ~sealed[c]
  /\ father[c] = running
  /\ IF state[c] = "ZOMBIE"
       THEN Reap(c) /\ UNCHANGED kstack
       ELSE /\ Block("BLOCKED_BY_CHILD", c, <<Frame("waitpid", c)>>)
            /\ UNCHANGED sleep

\* The code after the schedule() of both forms.
WaitpidReturn(c) ==
  IF c \notin Pids \/ pid[c] = NotFound THEN Fail("waitpid")
  ELSE IF sealed[c] THEN Fail("request_destroy")
  ELSE Reap(c) /\ Pop

WaitpidResumes == \/ InKernel("waitpid") /\ WaitpidReturn(Top.arg)
                  \/ InKernel("waitpid_any") /\ WaitpidReturn(waiting_code[running])
-------------------------------------------------------------------------------
(* wait_clock: `t' is a date, and not a duration. *)
WaitClock(t) ==
  /\ Calling("wait_clock")
  /\ Block("SLEEPING", waiting_code[running], <<>>)
  /\ sleep_time' = [sleep_time EXCEPT ![running] = t]
  /\ waiting' = Append(waiting, running)

(* block_by_message and awake, which message_queue.c calls; both are         *)
(* followed by schedule(), awake only for a process of higher priority.      *)
BlockByMessage ==
  /\ Calling("message")
  /\ Block("BLOCKED_BY_MESSAGE", waiting_code[running], <<>>)
  /\ UNCHANGED sleep

Awake(p) ==
  /\ Calling("message")
  /\ state[p] = "BLOCKED_BY_MESSAGE"
  /\ state' = [state EXCEPT ![p] = "WAITING"]
  /\ queue' = QueueAdd(queue, priority, p)
  /\ kstack' = [kstack EXCEPT ![running] =
                  IF priority[p] > priority[running] THEN <<Schedule>> ELSE <<>>]
  /\ UNCHANGED <<family, pid, deallocated, sealed, priority, running, lists, sleep, clock,
                 waiting_code, panic>>

(* chprio.  The test of the states does not know SLEEPING: queue_del() is called *)
(* on a process that is not linked, and asserts.                                 *)
RequeuesBlocked(p) == p # running          \* faulty variant: no test of BLOCKED

Requeues(p) == p # running /\ state[p] \notin Blocked

Chprio(p, prio) ==
  /\ Calling("chprio")
  /\ Exists(p)
  /\ state[p] # "ZOMBIE"
  /\ IF Requeues(p) /\ ~Linked(p)
       THEN Fail("queue_del")
       ELSE /\ priority' = [priority EXCEPT ![p] = prio]
            /\ queue' = IF Requeues(p) THEN QueueAdd(QueueDel(queue, p), priority', p)
                                       ELSE queue
            /\ kstack' = [kstack EXCEPT ![running] =
                            IF \/ prio > priority'[running]
                               \/ p = running /\ priority'[Last(queue')] > prio
                              THEN <<Schedule>> ELSE <<>>]
            /\ UNCHANGED <<family, life, running, lists, sleep, clock, waiting_code, panic>>
-------------------------------------------------------------------------------
(* tic_PIT.  The counter of ticks stays at MaxClock, where every date that   *)
(* wait_clock was given has passed.  schedule() is called on every second    *)
(* tick (CLOCKFREQ / SCHEDULER_FREQUENCY).                                   *)

\* Faulty variants: the delay is not reset; it never expires.
NextDelayUnreset == scheduler_delay + 1
NextDelayStuck == 1

NextDelay == (scheduler_delay + 1) % 2

Tick ==
  /\ Interruptible
  /\ inter' = IF inter < MaxClock THEN inter + 1 ELSE inter
  /\ scheduler_delay' = NextDelay
  /\ kstack' = [kstack EXCEPT ![running] =
                  (IF NextDelay = 0 THEN <<Schedule>> ELSE <<>>)
                  \o <<Frame("clock_tick", 0)>> \o @]
  /\ UNCHANGED <<family, life, sched, lists, sleep, waiting_code, panic>>

\* One sleeper whose date has passed, in the order of the loop of clock_tick:
\* the entry is overwritten by the last one and looked at again.
Due(i) == sleep_time[waiting[i]] <= inter

WaitingWithout(i) == Front([waiting EXCEPT ![i] = Last(waiting)])

ClockTick == InKernel("clock_tick") \/ InKernel("clock_woke")

ClockTickWakes ==
  /\ ClockTick
  /\ \E i \in DOMAIN waiting :
       /\ Due(i)
       /\ \A j \in 1 .. i - 1 : ~Due(j)
       /\ IF Linked(waiting[i])
            THEN Fail("queue_add")
            ELSE /\ state' = [state EXCEPT ![waiting[i]] = "WAITING"]
                 /\ queue' = QueueAdd(queue, priority, waiting[i])
                 /\ waiting' = WaitingWithout(i)
                 /\ Replace(Frame("clock_woke", 0))
                 /\ UNCHANGED <<family, pid, deallocated, sealed, priority, running, lists,
                                sleep_time, clock, waiting_code, panic>>

ClockTickEnd ==
  /\ ClockTick
  /\ \A i \in DOMAIN waiting : ~Due(i)
  /\ IF Top.op = "clock_woke" THEN Replace(Schedule) ELSE Pop
  /\ UNCHANGED <<family, life, sched, lists, sleep, clock, waiting_code, panic>>
-------------------------------------------------------------------------------
(* The machine has stopped, or the model has: after panic(), or in a process *)
(* that can only be moved by an interrupt and has them masked.               *)
Halted == /\ panic # None \/ InKernel("hlt") \/ InKernel("spin")
          /\ UNCHANGED vars

Init ==
  /\ pid = [p \in Pids |-> IF p = 1 THEN 1 ELSE NotFound]
  /\ father = [p \in Pids |-> IF p = 1 THEN NotFound ELSE 0]
  /\ childs = [p \in Pids |-> <<>>]
  /\ state = [p \in Pids |-> IF p = 1 THEN "RUNNING" ELSE "UNUSED"]
  /\ priority = [p \in Pids |-> IF p = 1 THEN 1 ELSE 0]
  /\ waiting_code = [p \in Pids |-> 0]
  /\ sleep_time = [p \in Pids |-> 0]
  /\ deallocated = [p \in Pids |-> FALSE]
  /\ sealed = [p \in Pids |-> FALSE]
  /\ queue = <<>>
  /\ free = [i \in 1 .. N - 1 |-> i + 1]
  /\ to_zombify = <<>>
  /\ to_destroy = <<>>
  /\ waiting = <<>>
  /\ running = 1
  /\ kstack = [p \in Pids |-> IF p = 1 THEN <<Frame("boot", 0)>> ELSE <<>>]
  /\ inter = 0
  /\ scheduler_delay = 0
  /\ panic = None

KernelStep == \/ CleanZombify \/ ZombifyChild \/ ZombifyEnd
              \/ CleanDestroy \/ DestroyChild \/ DestroyEnd
              \/ ScheduleKeep \/ ScheduleSwitch
              \/ StartReturn \/ WaitpidResumes
              \/ ClockTickWakes \/ ClockTickEnd

(***************************************************************************)
(* What the programs of an instance do.  These are rules of the            *)
(* environment, which kernel/process.c does not test; a name in Allowed    *)
(* lifts a rule.  user_start, the process that init creates, starts        *)
(* programs and then spins for ever: it does not die or block, and nobody  *)
(* kills it (stop_user).  Nobody dies with children (orphans), kills a     *)
(* sleeper other than the last one (kill_sleeper), kills init (kill_init), *)
(* or waits for a child that start() did not return (stale_pid).           *)
(***************************************************************************)
Steady == 2

MayStop(p) == p # Steady \/ "stop_user" \in Allowed

MayDie(p) == MayStop(p) /\ (childs[p] = <<>> \/ "orphans" \in Allowed)

MayKill(p) == IF p = 1 THEN "kill_init" \in Allowed
              ELSE MayDie(p) /\ (ForgetsSleeper(p) => "kill_sleeper" \in Allowed)

Knows(p) == state[p] # "UNUSED" \/ "stale_pid" \in Allowed

Blocking == \/ \E p \in Pids : Knows(p) /\ Waitpid(p)
            \/ WaitpidAny
            \/ \E t \in 1 .. MaxClock : WaitClock(t)
            \/ BlockByMessage

SystemCall == \/ \E prio \in Prios : Start(prio) \/ StartFails(prio)
              \/ StartNoNode
              \/ MayDie(running) /\ Exit
              \/ \E p \in Pids : MayKill(p) /\ Kill(p)
              \/ MayStop(running) /\ Blocking
              \/ \E p \in Pids : Awake(p)
              \/ \E p \in Pids, prio \in Prios : Chprio(p, prio)

Next == KernelStep \/ SystemCall \/ Boot \/ Tick \/ Halted

Spec == Init /\ [][Next]_vars

(***************************************************************************)
(* Fairness.  A processor in the kernel goes on executing.  The interrupt  *)
(* controller keeps a clock interrupt pending while interrupts are masked  *)
(* and delivers it as soon as a process is back in user mode, so that      *)
(* making system calls in a loop does not keep the clock out: Tick is      *)
(* strongly fair.  Nothing is assumed of what programs do.                 *)
(***************************************************************************)
Fairness == WF_vars(KernelStep) /\ WF_vars(Boot) /\ SF_vars(Tick)

FairSpec == Spec /\ Fairness
-------------------------------------------------------------------------------
(* Type invariant of the process table and of the kernel stacks. *)
TypeOK ==
  /\ pid \in [Pids -> Pids \cup {NotFound}]
  /\ father \in [Pids -> 0 .. N \cup {NotFound}]
  /\ childs \in [Pids -> Seq(Pids)]
  /\ state \in [Pids -> States]
  /\ priority \in [Pids -> 0 .. MaxPrio]
  /\ waiting_code \in [Pids -> 0 .. N \cup {-1}]
  /\ sleep_time \in [Pids -> 0 .. MaxClock]
  /\ deallocated \in [Pids -> BOOLEAN]
  /\ sealed \in [Pids -> BOOLEAN]
  /\ queue \in Seq(Pids)
  /\ free \in Seq(Pids)
  /\ to_zombify \in Seq(Pids)
  /\ to_destroy \in Seq(Pids)
  /\ waiting \in Seq(Pids)
  /\ running \in Pids
  /\ kstack \in [Pids -> Seq(Frames)]
  /\ inter \in 0 .. MaxClock
  /\ scheduler_delay \in {0, 1}
  /\ panic \in Sites \cup {None}

(***************************************************************************)
(* The ready queue holds exactly the processes in state WAITING, each once *)
(* and in the order of their priorities, through every start, kill,        *)
(* chprio, wake-up and switch: no ready process is forgotten, no blocked   *)
(* or dead one can be chosen by schedule().                                *)
(***************************************************************************)
ReadyQueueExact ==
  /\ \A p \in Pids : Linked(p) <=> state[p] = "WAITING"
  /\ \A i, j \in DOMAIN queue : i < j => /\ queue[i] # queue[j]
                                         /\ priority[queue[i]] <= priority[queue[j]]

(* At most one process is RUNNING, it is running_process, and only it can    *)
(* return to user mode.                                                      *)
OneRunning ==
  /\ \A p \in Pids : state[p] = "RUNNING" => p = running
  /\ InUserMode => state[running] = "RUNNING"

(* The states of the processes, the ready queue and running_process agree    *)
(* after every call, tick and switch.                                        *)
StatesExact == ReadyQueueExact /\ OneRunning

(***************************************************************************)
(* Strict priorities: in user mode no ready process has a higher priority  *)
(* than the running one, unless the table is full: schedule() then only    *)
(* compares the running process with init.                                 *)
(***************************************************************************)
HighestPriorityRuns ==
  InUserMode /\ ~Full => \A p \in Pids :
                           state[p] = "WAITING" => priority[p] <= priority[running]

(* The kernel never runs on, nor will ever switch to, a stack that           *)
(* deallocate() has freed.                                                   *)
StacksLive == /\ ~deallocated[running]
              /\ \A p \in Pids : deallocated[p] => state[p] = "ZOMBIE"

(* Every pid is either free, once, or the pid of a process: none leaks when  *)
(* start() fails half-way, none is handed out again before destroy() of the  *)
(* process that had it.                                                      *)
PidsAccounted ==
  /\ \A p \in Pids : state[p] = "UNUSED" <=> \E i \in DOMAIN free : free[i] = p
  /\ \A i, j \in DOMAIN free : free[i] = free[j] => i = j

InFrame(op, p) == kstack[running] # <<>> /\ Top.op = op /\ Top.arg = p

OccursOnce(s, e) == \E i \in DOMAIN s : \A j \in DOMAIN s : s[j] = e <=> i = j

Occurs(s, e) == \E i \in DOMAIN s : s[i] = e

(***************************************************************************)
(* The two lists of clean_processes are exact: a process is queued for     *)
(* zombify once, from its death until its stacks are freed, and queued for *)
(* destroy once, from the moment it is sealed until destroy() takes it.    *)
(***************************************************************************)
ListsExact ==
  \A p \in Pids :
    /\ IF state[p] = "ZOMBIE" /\ ~deallocated[p]
         THEN OccursOnce(to_zombify, p) ELSE ~Occurs(to_zombify, p)
    /\ IF sealed[p] /\ ~InFrame("destroy", p)
         THEN OccursOnce(to_destroy, p) ELSE ~Occurs(to_destroy, p)

(* The only assertion of the cleaning that fails is the one of               *)
(* request_destroy() on a process already sealed; the others that fail are   *)
(* the direct answer to the argument of a call or to a lack of memory.       *)
OnlyKnownStops == panic \in {None, "request_destroy"} \cup CallStops

(***************************************************************************)
(* clean_processes takes each dead process once and at the right time: its *)
(* lists are exact, no stack in use is freed, and no assertion on its way  *)
(* fails but that of request_destroy().                                    *)
(***************************************************************************)
CleaningExact == ListsExact /\ StacksLive /\ OnlyKnownStops

(***************************************************************************)
(* zombify() and destroy() are never interrupted, switched out or          *)
(* re-entered before they are done with the table: they are the innermost  *)
(* activation of the running process, on a process that is neither this    *)
(* one nor init, and that still has its father when zombify() wakes it.    *)
(***************************************************************************)
CleaningOnTop ==
  \A p \in Pids : \A i \in DOMAIN kstack[p] :
    LET f == kstack[p][i]
    IN  f.op \in {"zombify", "destroy"} =>
          /\ p = running /\ i = 1
          /\ f.arg \in Pids \ {1, running}
          /\ f.op = "zombify" => father[f.arg] \in Pids

(***************************************************************************)
(* No lost wake-up in waitpid: while a process is blocked in it, a child   *)
(* it waits for has still to go through the part of zombify that wakes the *)
(* father, and no one has sealed that child.                               *)
(***************************************************************************)
WaitersHaveWakers ==
  \A p \in Pids : state[p] = "BLOCKED_BY_CHILD" =>
    \E c \in Pids : /\ father[c] = p /\ ~sealed[c]
                    /\ waiting_code[p] \in {-1, c}
                    /\ state[c] # "UNUSED"
                    /\ deallocated[c] => InFrame("zombify", c)

(***************************************************************************)
(* What a switched-out call will read when it resumes is still what it was *)
(* about: the child of start() keeps its slot until start() has returned   *)
(* its pid, the child of waitpid() until waitpid() has read its exit code, *)
(* and a woken waitpid() finds that child dead.                            *)
(***************************************************************************)
ResumedCallsValid ==
  \A p \in Pids : state[p] # "ZOMBIE" => \A i \in DOMAIN kstack[p] :
    LET f == kstack[p][i]
        child(c) == c \in Pids /\ pid[c] = c /\ father[c] = p /\ ~sealed[c]
        woken == state[p] \in {"WAITING", "RUNNING"}
    IN  /\ f.op \in {"start", "waitpid"} => child(f.arg)
        /\ f.op = "waitpid" /\ woken => state[f.arg] = "ZOMBIE"
        /\ f.op = "waitpid_any" /\ woken => /\ child(waiting_code[p])
                                            /\ state[waiting_code[p]] = "ZOMBIE"

(* pids_waiting holds exactly the sleeping processes, each once.             *)
SleepersExact ==
  \A p \in Pids : IF state[p] = "SLEEPING" THEN OccursOnce(waiting, p)
                                           ELSE ~Occurs(waiting, p)

(***************************************************************************)
(* One thing breaks the correspondence between the sleeping processes and  *)
(* pids_waiting: the kill of a sleeper that is not the last entry of that  *)
(* list (process.c:535).  Every other sequence of wait_clock, kill, exit,  *)
(* chprio and clock interrupts keeps it.                                   *)
(***************************************************************************)
SleepersKept ==
  [][SleepersExact =>
       SleepersExact' \/ \E p \in Pids : /\ state[p] = "SLEEPING" /\ Last(waiting) # p
                                         /\ state'[p] = "ZOMBIE"]_vars

(***************************************************************************)
(* The links of the family tree agree: the list of a process holds, once,  *)
(* exactly the processes whose father it is.  The list of init is not      *)
(* maintained for the orphans it receives.                                 *)
(***************************************************************************)
FamilyAgrees ==
  \A p, c \in Pids : p # 1 /\ state[c] # "UNUSED" /\ ~InFrame("destroy", c) =>
    IF father[c] = p THEN OccursOnce(childs[p], c) ELSE ~Occurs(childs[p], c)

(* The table is exact after any number of births and deaths, failed starts   *)
(* and orphans included: pids are accounted for and family links agree.      *)
TableAgrees == PidsAccounted /\ FamilyAgrees

(* No assertion of the kernel fails.                                         *)
NoPanic == panic = None

(* exit() does not come back from its schedule(): the while(1) that follows, *)
(* which would hang the machine with interrupts masked, is never reached.    *)
ExitNeverSpins == ~InKernel("spin")

(***************************************************************************)
(* The kernel stops for known reasons only, whatever the processes call:   *)
(* a child is destroyed twice, which takes processes that leave children   *)
(* behind; kill or chprio is called on a process that sleeps or on a pid   *)
(* that only a failed start has used; a sleeper is forgotten; init is      *)
(* killed; start finds no memory for a node.  Interrupts stay masked for   *)
(* ever only in the hlt of init, and only when chprio has given init a     *)
(* priority that no ready process exceeds (start.c:50).  exit() does not   *)
(* come back from its schedule().                                          *)
(***************************************************************************)
StopsHaveCauses ==
  /\ OnlyKnownStops
  /\ panic = "request_destroy" => "orphans" \in Allowed
  /\ panic = "queue_del" =>
       \E p \in Pids : state[p] = "SLEEPING" \/ (state[p] = "UNUSED" /\ pid[p] # NotFound)
  /\ panic = "pids_waiting" => \E p \in Pids : state[p] = "SLEEPING" /\ ~Occurs(waiting, p)
  /\ InKernel("hlt") =>
       \A p \in Pids : state[p] = "WAITING" => priority[p] <= priority[running]
  /\ ExitNeverSpins

(* Re-entrance of schedule() is bounded: the kernel stacks, of 2048 bytes,   *)
(* never hold more than this number of activations.                          *)
StackDepth == 4

BoundedReentrance == \A p \in Pids : Len(kstack[p]) <= StackDepth

-------------------------------------------------------------------------------
(* Every process that dies has its stacks freed, whatever the others do.     *)
DeadAreCleaned ==
  \A p \in Pids : state[p] = "ZOMBIE" ~> (deallocated[p] \/ state[p] # "ZOMBIE")

(* A process that sleeps is woken once its date has passed.                  *)
SleepersWake == \A p \in Pids : state[p] = "SLEEPING" ~> state[p] # "SLEEPING"

(* A process blocked in waitpid does not stay so after the death of a child  *)
(* it waits for (and has not already waited for).                            *)
WaitersWake ==
  \A p \in Pids :
    (/\ state[p] = "BLOCKED_BY_CHILD"
     /\ \E c \in Pids : /\ waiting_code[p] \in {-1, c}
                        /\ father[c] = p /\ state[c] = "ZOMBIE" /\ ~sealed[c])
      ~> state[p] # "BLOCKED_BY_CHILD"

(* Nobody who has been told to wait waits for ever: sleepers and waiting     *)
(* fathers both get back to the ready queue.                                 *)
BlockedWake == SleepersWake /\ WaitersWake

(* Round robin: a ready process than which no ready or running one has a     *)
(* higher priority does not wait for ever.                                   *)
Foremost(p) ==
  /\ state[p] = "WAITING" /\ ~Full
  /\ \A q \in Pids : state[q] \in {"WAITING", "RUNNING"} => priority[q] <= priority[p]

RoundRobin == \A p \in Pids : ~<>[]Foremost(p)
===============================================================================
