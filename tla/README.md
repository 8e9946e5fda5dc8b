# SchlagOS in TLA+

TLA+ specifications of the SchlagOS kernel, the TLC configurations that check
them on small instances, and proofs checked by TLAPS. Paths such as
`kernel/process.c:341` are relative to `src/`.

SchlagOS is a small teaching kernel for the PC: one processor, processes with
strict priorities, message queues, a text console and a PS/2 keyboard. It is
about 3000 lines of its own C and assembly, over a vendored allocator
(`shared/malloc.c.h`), a `printf` from Mach, a keyboard driver from Linux and a
gdb stub. There is no document in the repository besides comments, most of them
in French, and the two copies of the course's tests (`user/test.c`,
`kernel/test.c`).

## 1. Inventory

| Part | State it keeps | Operations | Interacts with |
|---|---|---|---|
| Index rings (`process.c`, `message_queue.c`) | array, two indices with a lock value, a counter | register, unregister | used three times: free pids, free fids, messages of a queue |
| Process table (`kernel/process.c`) | 512 slots with father, children, state, priority, awaited child, wake-up date, `deallocated`, `sealed`; lists to zombify, to destroy, of sleepers; `running_process` | `start`, `exit`, `kill`, `waitpid`, `wait_clock`, `chprio`, `awake`, `block_by_message`, `schedule`, `clean_processes`, `zombify`, `destroy`, `clock_tick` | called by system calls, clock and message queues; tells the queues of deaths and of priority changes |
| Ready queue (`shared/queue.h`) | linked list sorted by priority | `queue_add`, `queue_del`, `queue_top`, `queue_out` | process table |
| Clock (`kernel/timer.c`) | `inter`, `scheduler_delay`, time of day | `tic_PIT` | `schedule`, `clock_tick`, `print_top_right` |
| Message queues (`kernel/message_queue.c`) | 64 queues: ring of messages, list of waiting processes with copies of their priorities; `reset_releases` per pid | `pcreate`, `pdelete`, `psend`, `preceive`, `preset`, `pcount`, two notifications | `block_by_message`, `awake`, `schedule` |
| Standard input (`kernel/kbd.c`) | one message queue of 512 characters, `echo_enabled` | `keyboard_interrupt`, `keyboard_data`, `cons_read`, `cons_echo` | `psend` from an interrupt, `preceive` from a system call, the console for the echo (not modelled) |
| Keyboard driver (`kernel/kbd-linux/`, `keyboard-glue.c`) | pressed keys, modifier counters and set, locks, number being typed, LEDs | `do_scancode` | calls `keyboard_data`, which may block |
| Console (`kernel/console.c`) | screen memory, cursor, colours, escape sequence | `cons_write`, `print_top_right` | written by system calls and by the clock interrupt |
| Entry code (`handlers*.S`, `syscall_handler.c`, `context_switch.S`, `user_switch.S`, `exit_handler.S`) | saved registers | interrupt gates, dispatch of system calls, switch | everything above |
| Boot (`kernel/start.c`, `crt0.S`, `boot/`) | segments, IDT, init | `kernel_start`, `init` | creates `init` (pid 1) and `user_start` (pid 2) |
| Allocators (`shared/malloc.c.h` for `kernel/mem.c`, `kernel/user_stack_mem.c`, `user/mem.c`) | heap with boundary tags, fast, small and large bins, bin map, top, `curptr` | `mem_alloc`, `mem_free` | `start`, `pcreate`, `add_child`; user programs |
| Debugger and gdb stub (`debugger.c`, `gdb_serial*.c`, `serial.c`) | `do_debug`, `gdb_connected`, the packet at hand | `trap_handler`, `gdb_serial_converse` | gdb over COM1; the trapped program |
| C library (`string.c`, `doprnt.c`, `printf.c`, `sprintf.c`, `strto*.c`, `div64.c`) | output buffers, the static of `strtok` | pure functions and `printf` | everything |
| User programs | | system calls | |

What is hard in this code:

* **Re-entrance.** All gates are interrupt gates, so the kernel runs with
  interrupts masked and nothing interleaves inside a call, except that
  `schedule()` is called in the middle of `start`, `waitpid`, `psend`,
  `preceive`, `tic_PIT` and `zombify`, and first runs `clean_processes`, which
  calls `zombify`, which calls `schedule()` again. What was read before such a
  call is used after it, possibly much later, on a stack that somebody may have
  freed in between.
* **Death.** A process goes through ZOMBIE, `deallocated`, `sealed`, destroyed,
  on two lists, by whoever calls `schedule()` next. Its father may be waiting,
  dying too, or `init`.
* **Priorities** are copied: in the ready queue's order and in every waiting
  list. `chprio` has to update all of them, in every state of the process.
* **One list, two meanings.** A message queue keeps senders and receivers in
  one list and tells them apart by the number of messages.
* **Interrupts as actors.** The keyboard handler blocks in `psend` on behalf of
  the process it interrupted; the clock prints through the cursor of the
  program it interrupted; the keyboard driver is left half way whenever one of
  its characters blocks, and entered again by the next key.
* **Redundant state.** The keyboard driver keeps modifiers twice, the allocator
  keeps the size of a free chunk twice and the emptiness of a bin three times.
* **An unreliable line.** The gdb protocol repeats commands and answers over a
  serial line that may lose or alter any of them.

`PROJECT.json` lists these hazards line by line with the properties that watch
them.

## 2. Modules

| Module | Models | Lines of code behind it |
|---|---|---|
| `BoundedFifo` | what a ring promises: a bounded FIFO | abstract |
| `LockRing` | the ring with lock values, for its three uses | `process.c:135-168`, `message_queue.c:155-219` |
| `ProcessTable` | process table, scheduler, clock, process calls, boot | `process.c`, `timer.c`, `start.c`, `queue.h` |
| `MessageQueue` (`MCMessageQueue`) | message queues | `message_queue.c` |
| `Stdin` (`MCStdin`) | standard input; extends `MessageQueue` | `kbd.c` |
| `Terminal` | the console as programs see it | `console.c:142-343` |
| `Console` | screen memory and the clock, over `Terminal` | `console.c` |
| `Keyboard` | keyboard driver, with the keyboard and its user | `scancode.c`, `keyboard.c`, `defkeymap.c`, `keyboard-glue.c` |
| `Allocator` | `mem_alloc` and `mem_free` | `malloc.c.h` (`mALLOc`, `fREe`, `malloc_consolidate`, `sYSMALLOc`, `sYSTRIm`) |
| `GdbStub` | debugger, gdb stub and serial line, with gdb | `debugger.c`, `gdb_serial.c`, `gdb_serial_support.c`, `serial.c` |
| `Strings`, `Numbers` (`MCLibrary`) | functions of the C library | `string.c`; `div64.c`, `doprnt.c`, `strtol.c`, `strtoul.c`, `printf.c`, `sprintf.c`, `putfrags` |
| `SeqLemmas`, `*_proofs` | theorems | |

### ProcessTable

Every field of `process_t` that matters is a function on pids; the ready queue,
the free pids, `pids_to_zombify`, `pids_to_destroy` and `pids_waiting` are
sequences. `kstack[p]` is the list of unfinished kernel activations of process
`p`, innermost first: it is what makes the rest of a switched-out call
explicit. A user process has an empty kernel stack. One action is one step of
the innermost activation of `running`:

| Action | Code |
|---|---|
| `CleanZombify`, `ZombifyChild`, `ZombifyEnd` | first loop of `clean_processes`, `zombify` up to its `schedule()` |
| `CleanDestroy`, `DestroyChild`, `DestroyEnd` | second loop, `destroy` |
| `ScheduleKeep`, `ScheduleSwitch` | the decision of `schedule`, `process_switch` |
| `Start`, `StartFails`, `StartNoNode`, `StartReturn` | `start` before and after its `schedule()`; its failures for lack of a stack and of a list node |
| `Exit`, `Kill`, `Waitpid`, `WaitpidAny`, `WaitpidResumes`, `WaitClock`, `Chprio` | the calls of the same names |
| `BlockByMessage`, `Awake` | what `psend`/`preceive` do to the table |
| `Tick`, `ClockTickWakes`, `ClockTickEnd` | `tic_PIT`, loop of `clock_tick` |
| `Boot` | `init` creating `user_start` |
| `Halted` | after `panic`, or waiting for an interrupt with interrupts masked |

A failed assertion is the value of `panic`, after which nothing happens. One
value is no assertion: a `kill` that forgets a sleeper (`ForgetsSleeper`,
`process.c:535`) leaves the victim in `pids_waiting`; the code goes on and
`clock_tick` will put a dead process in the ready queue. The model stops there
(`"pids_waiting"`), so its properties describe the table up to that call. The kill
of `init` and the assertion of `zombify` to which it leads are one step.

The actions have the guards of the code and no others. Programs are arbitrary: any
process in user mode may make any call of `Calls`. What a careful program
would not do is behind a name in `Allowed`, tested in `SystemCall` by the rules
`MayStop`, `MayDie`, `MayKill` and `Knows`, so that the runs can say which behaviour a
property needs to exclude:

| `Allowed` | Behaviour |
|---|---|
| `orphans` | a process may die with children that it has not waited for |
| `stop_user` | `user_start` may die or block; it never does |
| `no_memory` | an allocation of `start` may fail, the one of the list node (`process.c:449`) included |
| `stale_pid` | `waitpid` of the pid of a failed `start` |
| `kill_init` | `kill(1)` |
| `kill_sleeper` | `kill` of a process in `wait_clock` that is not the last of `pids_waiting` |
| `kill_released` (MessageQueue) | a process is killed between its release by a reset and its return |

### MessageQueue and Stdin

The buffer of a queue is a sequence (`LockRing` shows the ring to be one). A
call that blocks is split at its `schedule()`: `Psend`/`Preceive` and `Resume`.
Which ready process goes on is left open, so every decision of the scheduler is
covered. Messages are tokens, to follow each of them. `Stdin` extends
`MessageQueue` and uses one of its queues: `KeyboardInterrupt` starts a
handler on the process in user mode, `KeyboardData` is one iteration of its
loop, `ConsRead`, `ReadNext` and `ReadResumes` the loop of `cons_read`. `cpu`
keeps the others from running while a handler or a `cons_read` is in the kernel
and has not called `schedule()`. The echo and `cons_echo` are left out: all they do
is console output, and what is on the screen depends on everybody who writes there.

### Terminal and Console

`Terminal` is `treat_char` as far as position, colours and escape sequences go,
on ASCII codes. `Console` adds the screen memory and the clock:
`ClockStart`, `ClockChar` and `ClockEnd` are `print_top_right`, which sends its
characters through the same `treat_char`, at any point of an escape sequence of the
interrupted program. `swallowed` remembers whether the first of them was taken for a
byte of the sequence. The refinement maps the console to a `Terminal` that may also
receive, once and inside an escape sequence, a byte that no program has sent
(`DisturbedNext`).

### Keyboard

A byte on `wire` is handled by one action, named for the handler that its key
has in the keymap of the present modifiers (`DoSelf`, `DoSpec`, `DoShift`, ...;
`NoMap` when those modifiers have no map). What the handler has still to do is
a sequence of steps in `cpu`: strings of characters to `put_queue`, the rest of
`do_shift`, and the tasklet that writes the lights. The steps on characters are
`keyboard_data` over the standard input: stored, dropped, or blocked, the
handler then going to `blocked` or `ready` while the next byte is handled. The
maps give every key its type in every column (`KeyTypes`), the decoding tables
are complete (`e0_keys`, `high_keys`), and every key of the keyboard has a code in
them (`KeysHaveCodes`); of a character only its existence is
kept. The keyboard and its user are external: they press, repeat and release
keys, with the prefixes and fake shifts of a real keyboard, and a release may go
unnoticed.

### Allocator

Addresses and sizes are in units of 8 bytes, and the thresholds of the code are
constants. `heap` maps the address of each chunk to its head and to the word
before it, where the chunk before keeps its size while free: this word belongs
to the block before while it is in use, so that a foot written at the wrong
moment shows as a block that was touched. Each exit of `mALLOc`, and each pass
of its loops, is an action; `op` says where the call stands. `Coalesce` is the
part of `fREe` that `malloc_consolidate` repeats.

### GdbStub

A step of the stub is a character received and everything until the next
`read_com1`. A packet from gdb is five characters (`$`, data, `#`, two digits),
each of which the line may lose or alter (a digit of a checksum into a wrong
one); what the stub sends is one message.
gdb is external and does what the documentation of its remote protocol says:
repeat what is not acknowledged, drop what is not expected. `belief` is what it
has learnt of the instruction pointer and of a byte of memory. `PP` is a command that
writes registers and then meets a malformed digit (`gdb_serial.c:319`): an error is
the answer, and the registers are written. `since` remembers how many faults the line
had made when the last command was sent.

### Strings, Numbers and MCLibrary

Pure operators, one per C function, on sequences of bytes or on numbers of a
few bits; `MCLibrary` calls each of them with every argument of a small set and
states what the results ought to be independently of the code.

## 3. Runs

| Run | Instance | Shows |
|---|---|---|
| `ring` | 3 slots, 3 items | the assertions of register/unregister, the agreement of counter and indices, and that the ring is a FIFO |
| `process_family` | 4 pids, orphans, failing allocations, `user_start` may die | `CleaningExact` (the two cleaning lists and the stacks), `TableAgrees` (pids and family links), wake-ups of `waitpid`, what resumed calls read, bound on re-entrance |
| `process_calls` | 4 pids, 3 priorities, all the calls, sleepers and `init` killed | `StopsHaveCauses` (which calls stop the kernel, and why), `SleepersKept` (which one breaks the list of sleepers), `StatesExact` (ready queue sorted and exact, one RUNNING process), strict priorities |
| `process_liveness` | 4 pids, dates up to 2 | the dead are cleaned, sleepers and waiters wake, equal priorities alternate |
| `message_queue` | 4 processes, 2 queues, sizes up to 2, 3 messages, 2 priorities | waiting lists exact and in order, no message lost or doubled, one answer per blocked call, fids accounted for |
| `standard_input` | 3 processes, 2 priorities, 3 characters, buffer of 1, keys of 1 or 2 characters | at most one process stopped by the keyboard, keys in order, lines edited as a reference says, no overrun |
| `keyboard` | 9 keys, 3 held, 1 release lost, 2 suspended handlers, buffer of 1 | modifiers, locks and lights agree with the keys, a typed number is sent and forgotten |
| `allocator` | heap of 17 units, pages of 8, blocks of 3 sizes, 3 live | boundary tags, bins, blocks left alone, best fit and no early failure |
| `debugger` | 11 kinds of commands, 2 values, 2 faults of the line, 1 repetition, 2 traps | what gdb believes is true, only the command asked for is executed, commands are acknowledged, and answered unless the line made a fault after they were sent |
| `library` | texts of 5 characters, words of 4 and 5 bits, memory of 6 bytes | the functions compute what they should, with the exceptions of section 5 |
| `console` | 5 x 2 screen, time of 2 characters | the time is whole but for what an escape sequence takes, the text is kept, programs see no more of the clock than that |
| `bug_orphan` | 6 pids, 2 priorities | a violation, section 5 |

**Why the bounds are enough.** Four pids are `init`, `user_start` and two more,
the least with a grandchild and with two processes that compete; `bug_orphan`
has six. The table also gets full in these runs, which
is a case of its own in `schedule`. Three priorities tell higher, equal and
lower. Re-entrance reaches its bound (four activations) in `process_family`.
Two capacities of queues (1 and 2) cover full = empty + 1 and the general case;
two queues show that a notification reaches the right list. The buffer of one
character of `standard_input` is full after one key, a second stops a process
and a third is dropped; the message queue itself is checked with larger ones.
A 5 x 2 screen has a top and a bottom line, the one with the time and the one that
scrolls, and columns that the time does not use on each side.
`process_calls` reaches every stop that `StopsHaveCauses` lists but those of an
orphan and of a missing list node, which `process_family` reaches.

The nine keys of `keyboard` are a character that is an empty string with Ctrl,
both Shift keys, Ctrl, Alt, NumLock, a keypad key that is a digit, a function key
or a digit of a number, Pause, and a cursor key with its prefix and fake shifts.
With three held, at most one of them not a modifier, the columns without AltGr are
met and so are modifiers without a map, with two keys for one modifier; AltGr
differs from Alt in the base of the numbers. Buffer 1 and two suspended handlers are enough to have
one blocked, one ready and the next dropped. The heap of `allocator` starts and
ends inside a page, so that the first `sbrk` is aligned, a later one succeeds
and the next fails; sizes 3, 4 and 5 units are a fast bin, and two sizes of
large bins that share one; freed blocks merge into chunks of every bin and
beyond the threshold of consolidation. In `debugger` a character lost and one
altered is the least that glues two packets together with the wrong content.
Words of `library` are small but every pair of numbers of them is divided; the
texts are longer than every limit that cuts them.

**Fairness** (`process_liveness`, `debugger`). `WF(KernelStep)` and `WF(Boot)`: a
processor in the kernel goes on. `SF(Tick)`: the interrupt controller keeps a
clock interrupt pending while interrupts are masked and delivers it when they
are enabled, so a program that makes calls for ever does not keep the clock out.
Nothing is assumed of programs. In `debugger`, `WF(Receive)`: the stub polls the
line; `WF(HostReceive)`, `WF(HostTimeout)`: gdb reads what arrives and its
timeouts expire. Faults of the line are bounded and not fair, nor is anything a
person does (traps, keys, commands). The other runs check safety only.
`CHECK_DEADLOCK FALSE` is set where the instance can really stop: every
process of `message_queue` may block, `standard_input` runs out of keys, a
machine of `debugger` is rebooted, and a call of `library` is a single step.

Every property is checked against a mutant of the code's definition that breaks
it (`mutants` in `PROJECT.json`); the mutants are the definitions marked
"faulty variant" in the modules.

## 4. Proofs

All theorems hold for every value of the constants that satisfies the named
`ASSUME`s.

* `LockRing_proofs`: `RingAgrees`, `RingRefines`. The inductive
  invariant is `RingConsistent` (the assertions hold, and counter and indices agree) with the type of the fields: the writing index lies
  `count` places after the reading one, and is locked exactly when the ring is
  full. It is what makes "full" and "empty" distinguishable at every wrap. The
  refinement maps the ring to the sequence `Contents`.
* `ProcessTable_proofs`: `TableTypes`, `CleaningIsInnermost`. The type invariant
  alone is not inductive: `zombify` of a process wakes `father[p]`, which is a pid
  only because the process that is being cleaned is not `init` and has not been
  destroyed meanwhile, and popping an activation needs to know which one is on
  top. `TableInv` adds `CleaningOnTop`: `zombify` and `destroy` are always
  the innermost activation of the running process, on another process than
  itself and `init`. There is one lemma per action; no behaviour of
  programs is excluded (`Allowed` is arbitrary).
* `ProcessTable_proofs`, second part: `StatesAreExact`, `SleepersAreExact`, `CleaningIsExact`,
  `CallsResumeRight`, `WakersRemain`, `TableIsExact`. None of them is inductive
  alone. `destroy` clears the state of its process without looking at the
  ready queue, so the queue is exact only if what is sealed (handed to `waitpid`) is
  dead; `waitpid` seals the child it resumes for without looking at its state, so
  what is sealed is dead only if the calls that were switched out are still right
  about their child (`CallsInv`); they are because a child with a living father is not
  given to another one, which is what the lists of children are for
  (`ChildrenListed`, `ChildrenGone`). `ExactInv` is the conjunction, with one `Lists` part per list:
  the list holds the processes it is for, each once. The
  theorems suppose `Disciplined`: `Allowed` has no `stale_pid`. A process that waits for
  the pid of a failed `start` blocks for a child that is not there, and
  `WaitersHaveWakers` is false. All other departures of programs (`orphans`, `stop_user`,
  `kill_sleeper`, `kill_init`, `no_memory`, `chprio` of anybody) remain allowed. A kill
  that forgets a sleeper leaves everything but `pids_waiting` in order, and the model
  stops with it: `SleepersListed`, the part of `ExactInv` for that list, is claimed up to
  there. `SleepersAreExact` proves that no other step breaks it (`SleepersKept`).
* `ProcessTable_proofs`, third part, from `ExactInv`:
  * `StopsAreExplained`: of the assertions of `process.c` only four can fail, each for the
    cause that `StopsHaveCauses` gives it: `request_destroy`, which takes orphans (`bug_orphan`
    is a counterexample; without them `NoOrphans`, a dead process has no children, is
    invariant); `queue_del`, which takes a process that sleeps or the pid of a failed `start`;
    that of `zombify` on `init`; and the one on the memory of a list node. `init` gets to
    its `hlt`, which nothing interrupts, only while no ready process has a
    higher priority than it, and `exit` never comes back from its `schedule`.
  * `PrioritiesHold`: `HighestPriorityRuns` holds in user mode only. `HighInv`
    says why it comes back: whenever a ready process is above the
    running one, a decision of `schedule` is still to come in the activations on the
    stack (`Decides`).
  * `StacksAreBounded`: `schedule` calls itself through `clean_processes` and
    `zombify`. The bound of four is not inductive: `DepthInv` bounds the depth
    of the stack together with what is still to be cleaned (`Fits`), because every
    nested `schedule` has one dead process less to deal with; and while `init` is
    the only process the tick may find it in the middle of nothing (`BootAlone`).
* `MessageQueue_proofs`: `QueueTypes`, `ListsAreExact`, `AnswersAreExact`,
  `MessagesInOnePlace`, `MessagesAreKept`. The type invariant is not inductive
  without `NobodyWaitsInVain`: `preceive` moves the message of the first waiting
  sender to the buffer, which is a message only if the waiting process is a
  sender, and it is because somebody waits to send only at a full buffer.
  `QueueInv` adds that the lists are in order with one entry per process and hold the
  blocked processes. `AnswerInv` relates `reset_releases` and the entries of served
  receivers to the calls that will read them; it supposes that a
  released process is not killed before it has returned (`"kill_released"` not in
  `Allowed`), without which the code gives the next process with its pid a wrong
  answer (section 5). `MessageInv` says that a message is in one place only.
* `MessageQueue_proofs`, second part, on `Stdin`: `StdinTypes`, `KeysComeInOrder`,
  `LinesAreEdited`, for all numbers of processes, buffers, keys and lengths.
  `StdinInv` has three parts.
  * `ServiceInv`: the invariants of the queue, which is neither reset nor
    deleted, and at most one process waits to send. `keyboard_data` tests the count
    before it sends, and the count includes who waits, so a second one never blocks.
  * `KeysInv`: the order of what has been taken (`TakenInOrder`) says nothing of the
    characters on their way, so it goes through the queue: those taken come before those
    in the buffer, then the one held by the waiting process, then those the
    handlers have still to send (`QueueInOrder`, `KeysBehind`). Handlers that were
    switched out have sent the first character of their key (`FirstsAtOnce`), which is
    why keys are in order and the rest of a key may not be.
  * `LineInv`: `Survivors` counts deletions over all that follows a character, and
    `cons_read` only drops the last of its string. That these agree is
    `Balanced`: behind a survivor the deletions are as many as the characters they
    deleted, so the next deletion falls on the last survivor and on no other.
* `SeqLemmas`: facts on `Front`, `InsertAt`, `RemoveAt`, prefixes, and on lists
  that hold the members of a set once each (`Lists`), for the above.
* `Console_proofs`: `ConsoleTypes`, `NoScrollByDeletion`, `TimeIsShown`,
  `TextIsKept`, `ClockIsTransparent`, wherever the ticks fall. The invariant `ClockInv`
  says where the cursor of the clock is, which cells it has written, and that a
  tick inside an escape sequence has ended it with its first character; from it
  follow that the last character of the time does not scroll, and the refinement of
  `Terminal` by the mapping that shows the saved cursor while the clock prints.
* `Keyboard_proofs`: `ModifiersKnown`, `LocksKnown`, `NumbersSent`, for every keyboard
  whose keys each have a scan code of their own (`KeysHaveCodes`: a key that sent
  the code of another would make `key_down` wrong, and no such keyboard exists).
  The properties are about the moments at which all bytes are handled, and the
  driver passes through the middle of a code to get there: `WireInv` says which key the
  bytes that are left stand for, with the prefixes, the fake shifts and
  the two halves of Pause, and what the driver will know when they are read. From it
  follows that a release is never one of a key that is not down, so that the two ways of
  updating the modifiers both count the keys down (`ModifiersCount`), and
  that each press switches the lock that it should. `NumberPending` needs it too:
  only a release that ends a modifier leaves a number behind. `KeyboardInv` is the
  conjunction, with the types of the handlers' steps.
* `GdbStub_proofs`: `BeliefIsTrue`, `OnlyAskedIsExecuted`, for any number of lost and
  altered characters and messages, of repetitions and of traps. What gdb may conclude
  from an acknowledgement or an answer depends on what else is on the
  line. `LineInv`: there is one packet on its way at a time, as a `$` that
  the stub has still to see, a packet it is inside of or a `-` that will make gdb send it
  again; and none while gdb does not wait for an acknowledgement, or once the
  acknowledgement is sent. So the checksum that completes a packet is that of the command
  gdb repeats (`SumsInv`), and a command executed twice is executed twice before
  gdb hears of it. `AnswersInv`: what
  follows the acknowledgement on the line, and all answers while gdb waits for one, tell
  the truth as an answer to the last command; the stub does not change the program
  meanwhile, and when the program runs, gdb remembers nothing (`AwayInv`). The line alters the
  digits of a checksum into wrong ones only (`Altered`): data and
  checksum spoiled into another valid packet is what a checksum of two digits cannot
  exclude.

* `Allocator_proofs`: `TagsAgreeHolds`, `BinsAgreeHolds`, `BlocksIntactHolds`,
  `BestFitHolds`, for every heap, page size, layout of the bins and set of
  lengths that satisfies `AllocatorConstants`. None of the four is inductive alone: a step of
  `malloc` trusts the lists to take a chunk as free, the tags to find its neighbours, and
  what the same call has already found where it stands. `AllocInv` is the conjunction of
  four parts. `HeapInv`: the chunks tile the memory up to `curptr` (`Tiled`) and
  each head is right about the chunk before it (`Tagged`), from which "no foot in a block
  in use" and "no two free neighbours" follow. `ListInv`: the free chunks are those of
  the unsorted list and the bins, each once and in the right bin; what is in use and not handed
  out is in the fast bins; the bin map and the two flags miss nothing. `LiveInv`:
  what is handed out is in use and fits. `OpInv`: a call that sorts has found the small bin
  of its size empty, one that searches the map has nothing that will do in the bins up
  to `idx`, and one that uses the top has no free chunk that will do; `BestFit` rests on it.
  The operations on heads (join two chunks, cut one, take one whole, grow the
  top, the first `sbrk`) are each shown once to keep `Tiled` and `Tagged`, for
  any heap; one lemma per action then says what it does to the lists.

The inductive invariants `ExactInv`, `DepthInv`, `HighInv`, `QueueInv`, `AnswerInv`
and `MessageInv` were checked by TLC on the instances of section 3 before
they were proved; `KeyboardInv` with six of the keys and two of them held; `GdbInv` with
one fault and all commands, and with four faults and fewer commands; `AllocInv` on
the instance of `allocator`; `StdinInv` on that of `standard_input`.

Model-checked only: the liveness properties (the prover has no fairness), and the
three properties of `MCLibrary`: what `Strings` and `Numbers` compute is recursive, and
out of the prover's reach, and `Answered`. All other properties of the passing runs are theorems.

## 5. Where the code departs from what it says

Kept as a run that must fail:

* `bug_orphan` - a process that dies with dead children it has not waited for
  makes `request_destroy` fail its assertion.

Not kept as failing runs, but shown by the modules, some with one more behaviour allowed:

* `init` enables interrupts and is switched out inside `start`
  (`start.c:46-47`). The context switch does not save the flags, so it comes
  back with interrupts masked and `hlt` (`start.c:50`) stops the machine. It needs
  `user_start` to block, which it does not do today (with `Allowed = {"stop_user"}` a property of `process_liveness`
  fails), or a `chprio` that puts `init` above every ready process: `process_calls` reaches
  it, and `StopsHaveCauses` says no more than that.
* `kill` of a sleeping process drops the last entry of `pids_waiting`, which may be
  that of another process (`process.c:535`). `process_calls` allows it: the step is the
  exception of `SleepersKept`, and the stop `"pids_waiting"` of `StopsHaveCauses`, where a
  sleeping process is no longer listed and never wakes.
* `reset_releases` survives the process it was raised for; the next process with
  its pid gets -1 from a `preceive` that did receive: `AnswersAgree` fails in
  `message_queue` with `Allowed = {"kill_released"}`.

Met while modelling, not kept as runs:

* With a full table `schedule()` compares the running process with `init` and so
  does not preempt (`process.c:341`): `HighestPriorityRuns` and `RoundRobin`
  exclude that case.
* `chprio` of a sleeping process unlinks it from a queue it is not in and panics
  (`process.c:705`); `kill`, `chprio` and `waitpid` accept the pid of a
  failed `start`; `kill(1)` zombifies `init`; `start` panics when there is no memory
  for the third of its allocations (`process.c:90`) and returns -1 for the first
  two. All are stops of `StopsHaveCauses`, reached in `process_calls` or `process_family`.
* `zombify` reads the pid of a list node that it has just freed
  (`process.c:223-225`): the orphan appears in `init`'s list as pid 0.
* Waiters of equal priority are served last-in first-out
  (`message_queue.c:64-83`).
* `keyboard_data` compares with `>` (`kbd.c:56`): a full buffer stops the process
  that happens to run, which may be the only reader. The handler of a key of
  several characters can be switched out between two of them, so the next key
  may come in between; `KeysInOrder` says what order is kept.
* A tick between two bytes of an escape sequence (`puts` and `putchar` send bytes
  one by one) has its first digit taken for the next byte of the sequence: the time is
  one character short, and the rest of the sequence is printed as text. `console` has
  these ticks: `swallowed` in `TimeShown`, `DisturbedNext` in `RefinesTerminal`.
* Across the end of a line a deletion clears the unused last column and not the
  character before; a new line in the last column does nothing
  (`console.c:129,297`). A control character is echoed as two columns and
  deleted as one, a tab as it is (`kbd.c:24,30`). The echo of all readers and
  the output of all programs share one cursor, so a deletion may erase what somebody
  else has written.
* The keyboard driver: digits typed while `put_queue` of a number is blocked are
  forgotten with it, and if the blocked process is killed the number stays for the
  next Alt (`keyboard.c:773`; `abandoned` in `NumberPending`). The string of a
  cursor key is in a static buffer that the next one overwrites
  (`keyboard.c:406`). A release of code 89 or more without a press counts as a
  press, and is then held for ever (`scancode.c:256`). `npadch` wraps, and -1 means
  none.
* `sYSTRIm` gives memory back with a negative `sbrk`, which `sbrk`
  always refuses (`malloc.c.h:15`), so the top only grows.
* The gdb stub: a stop report that is lost is never sent again
  (`gdb_serial.c:221`); a detach whose acknowledgement is lost keeps the program
  stopped. A packet that fills the buffer with a checksum of 255 is accepted
  without an acknowledgement (`gdb_serial.c:87`); `buffer[2]` is compared with `:`
  beyond the end of a short packet (`gdb_serial.c:112`); a write that reaches an
  unmapped page reports an error after writing the page before; `m` with length 0
  sends its buffer up to the NUL (`gdb_serial.c:371`).
* The library: `do_div64` faults for a divisor whose leading 32 bits are all ones
  (`div64.c:39`; `AllOnes`). A left-adjusted string cut by its precision is padded
  one blank short (`doprnt.c:365`; `cut` in `OutputComplete`). `vsnprintf` writes its
  final NUL after `size` characters (`sprintf.c:90`). `strtol` stops at a `+`
  (`strtol.c:31`); `strstr` of an empty string is NULL; `strtok` returns empty
  tokens; `memmove` leaves the direction flag set.
* `getprio` does not check its argument; a first switch to a new process skips the
  rest of `tic_PIT` of the process that was left, until it resumes.

## 6. Not modelled

* What the echo of the keyboard does to the screen, and `cons_echo` (`kbd.c:16-34,113-116`).
* The linked list of `queue.h` at the level of its links, and `queue_add`
  interrupted during boot (`start.c:46-47` runs `start` with interrupts
  enabled). Planned, see below.
* Keyboard: dead keys (the accent table is empty in this port), raw modes, the
  application keypad, lock and slock keys and direct control of the lights,
  none of which anything selects. The characters of strings (`Stdin` takes over).
* Allocator: `realloc`, `calloc`, `memalign`, `mmap`, statistics and `mallopt`,
  which nothing calls. The list order inside bins is kept, links are not.
* gdb stub: sequence numbers, threads, the difference between stepping and
  continuing, register dumps, console output through gdb.
* Library: the parsing of formats, `%b`, `memccpy`, `memchr`, `memrchr`,
  `memswap`, `strrchr` (single plain loops).
* Registers, address spaces, segments and paging.
* 32-bit overflow of the tick counter (497 days).
* Return codes of processes, names, sizes of stacks. `BoundedReentrance` bounds the
  number of activations; whether four of them fit in 2048 bytes is not in reach of
  the model.

## 7. Plan

Done: rings, process table, message queues, standard input, console, keyboard
driver, allocator, debugger, library; proofs of the rings, of the console, of
all safety properties of the process table, of the message queues, of the
standard input, of the keyboard driver, of the allocator and of the debugger.

Next, in this order:

1. `LinkQueue`: `queue.h` on links, refining the sequences of `ProcessTable`, with
   the boot race.
2. `Kernel`: `ProcessTable` and `MessageQueue` together, so that the scheduler
   chooses who resumes from a blocked call.
