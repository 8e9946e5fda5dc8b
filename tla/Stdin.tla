-------------------------------- MODULE Stdin --------------------------------
(***************************************************************************)
(* kernel/kbd.c: standard input, over the message queue that stdin_init    *)
(* creates.  It composes three parts: the keyboard interrupt, which runs   *)
(* on the stack of the process it interrupts and sends characters from     *)
(* there; cons_read, which receives them; and the queue of MessageQueue.   *)
(*                                                                         *)
(* The kernel is not interrupted, so a handler or a cons_read goes on      *)
(* until it blocks, or until it wakes a process of higher priority and     *)
(* calls schedule().  `cpu' is the process that has the processor in the   *)
(* kernel, or AnyOne when the scheduler may choose.  Programs are supposed *)
(* not to reset or delete the queue of the standard input, whose fid they  *)
(* are not given.                                                          *)
(*                                                                         *)
(* A character is a token that is typed once, so that its way can be       *)
(* followed.  Only cons_read looks at what it is, so that is chosen there: *)
(* `char' below 127, `return', `del' for 127 and `high' above.             *)
(*                                                                         *)
(* The echo is left out: it is output to the console, where what a         *)
(* deletion erases depends on who else has written meanwhile.              *)
(***************************************************************************)
EXTENDS MessageQueue

CONSTANTS BufSize,    \* KEY_BUFFER_SIZE
          MaxLength,  \* bound on the length that cons_read is given
          MaxString,  \* bound on the number of characters of one key
          AnyOne      \* the scheduler may choose

ASSUME StdinConstants == /\ BufSize \in 1 .. MaxSize
                         /\ MaxLength \in Nat \ {0}
                         /\ MaxString \in Nat \ {0}
                         /\ AnyOne \notin Procs

VARIABLES keys,      \* *str of the keyboard_data that runs on a process
          reading,   \* the cons_read of a process
          cpu,
          typed,     \* the strings typed so far
          taken      \* the characters handed to readers so far, in order

ghosts     == <<typed, taken>>
stdin_vars == <<vars, keys, reading, cpu, ghosts>>

Kinds == {"char", "return", "del", "high"}

stdin_fid == 0

\* max is 0 when no call is made; str is the string, seen the characters received.
Idle == [max |-> 0, str |-> <<>>, seen |-> <<>>]

IsReading(p) == reading[p].max > 0

InUser(p) == Running(p) /\ keys[p] = <<>> /\ ~IsReading(p) /\ cpu = AnyOne

HasCpu(p) == cpu \in {p, AnyOne}

\* Whether the schedule() of psend or preceive may choose another process.
Yields(p) == \/ proc'[p] = "blocked"
             \/ \E q \in Procs : proc[q] = "blocked" /\ proc'[q] = "ready" /\ prio[q] > prio[p]

Used == {m \in Messages : \E i \in DOMAIN typed : \E j \in DOMAIN typed[i] : typed[i][j] = m}

\* A key is pressed while p is in user mode: do_scancode translates it to n characters.
KeyboardInterrupt(p, n) ==
  /\ InUser(p)
  /\ \E new \in [1 .. n -> Messages \ Used] :
       /\ IsInjective(new)
       /\ typed' = Append(typed, new)
       /\ keys' = [keys EXCEPT ![p] = new]
  /\ cpu' = p
  /\ UNCHANGED <<vars, reading, taken>>

\* Faulty variant: no test.
TooManyNever == FALSE

\* What keyboard_data tests before each character: the buffer is full and a process is
\* already stopped with a character that has no room.
TooMany == Pcount(stdin_fid) > BufSize

\* Whoever is first in the list is handed the character by psend.
Handed == items[stdin_fid] = <<>> /\ locked[stdin_fid] # <<>>

\* One iteration of keyboard_data.
KeyboardData(p) ==
  /\ keys[p] # <<>> /\ Running(p) /\ HasCpu(p)
  /\ IF TooMany
       THEN /\ keys' = [keys EXCEPT ![p] = <<>>]
            /\ cpu' = AnyOne
            /\ UNCHANGED <<vars, taken>>
       ELSE LET m == Head(keys[p])
            IN  /\ Psend(stdin_fid, p, m)
                /\ keys' = [keys EXCEPT ![p] = Tail(@)]
                /\ taken' = IF Handed THEN Append(taken, m) ELSE taken
                /\ cpu' = IF Yields(p) \/ keys'[p] = <<>> THEN AnyOne ELSE p
  /\ UNCHANGED <<reading, typed>>

\* The interrupted process, stopped in psend, found room and was chosen.
SendResumes(p) ==
  /\ call[p] = "psend" /\ HasCpu(p)
  /\ Resume(p)
  /\ cpu' = IF keys[p] = <<>> THEN AnyOne ELSE p
  /\ UNCHANGED <<keys, reading, ghosts>>
-------------------------------------------------------------------------------
ConsRead(p, length) ==
  /\ InUser(p)
  /\ reading' = [reading EXCEPT ![p] = [Idle EXCEPT !.max = length]]
  /\ cpu' = p
  /\ UNCHANGED <<vars, keys, ghosts>>

\* Faulty variant: every character but 127 is stored.
StoresHigh(k) == k \in {"char", "high"}

Stores(k)     == k = "char"
Deletes(r, k) == k = "del" /\ r.str # <<>>

AfterKey(r, m, k) ==
  [max  |-> r.max,
   str  |-> IF Stores(k) THEN Append(r.str, m)
            ELSE IF Deletes(r, k) THEN Front(r.str) ELSE r.str,
   seen |-> Append(r.seen, [char |-> m, kind |-> k])]

Returns(r, k) == k = "return" \/ Len(r.str) = r.max

\* The body of the loop of cons_read, and its condition.
Got(p, m) ==
  \E k \in Kinds :
    LET r == AfterKey(reading[p], m, k)
    IN  /\ reading' = [reading EXCEPT ![p] = IF Returns(r, k) THEN Idle ELSE r]
        /\ cpu' = IF Yields(p) \/ Returns(r, k) THEN AnyOne ELSE p

\* cons_read calls preceive: it has a character at once, or blocks.
ReadNext(p) ==
  /\ IsReading(p) /\ Running(p) /\ HasCpu(p)
  /\ Preceive(stdin_fid, p)
  /\ IF items[stdin_fid] # <<>>
       THEN /\ Got(p, Head(items[stdin_fid]))
            /\ taken' = Append(taken, Head(items[stdin_fid]))
       ELSE /\ cpu' = AnyOne
            /\ UNCHANGED <<reading, taken>>
  /\ UNCHANGED <<keys, typed>>

\* A blocked preceive of cons_read returns.
ReadResumes(p) ==
  /\ call[p] = "preceive" /\ HasCpu(p)
  /\ Resume(p)
  /\ Got(p, dest[p])
  /\ UNCHANGED <<keys, ghosts>>

\* q kills p, or exits when they are the same.
StdinKill(q, p) ==
  /\ InUser(q)
  /\ Kill(p)
  /\ keys' = [keys EXCEPT ![p] = <<>>]
  /\ reading' = [reading EXCEPT ![p] = Idle]
  /\ UNCHANGED <<cpu, ghosts>>
-------------------------------------------------------------------------------
\* stdin_init has created the queue, and boot some processes.
StdinInit == /\ size = [f \in Fids |-> IF f = stdin_fid THEN BufSize ELSE 0]
             /\ items = [f \in Fids |-> <<>>]
             /\ locked = [f \in Fids |-> <<>>]
             /\ fids = [i \in 1 .. NbQueue - 1 |-> i]
             /\ released = [p \in Procs |-> FALSE]
             /\ prio \in [Procs -> Prios]
             /\ proc = [p \in Procs |-> "ready"]
             /\ call = [p \in Procs |-> "none"]
             /\ dest = [p \in Procs |-> "none"]
             /\ keys = [p \in Procs |-> <<>>]
             /\ reading = [p \in Procs |-> Idle]
             /\ cpu = AnyOne
             /\ typed = <<>>
             /\ taken = <<>>

StdinNext == \E p \in Procs : \/ \E n \in 1 .. MaxString : KeyboardInterrupt(p, n)
                              \/ KeyboardData(p) \/ SendResumes(p)
                              \/ \E length \in 1 .. MaxLength : ConsRead(p, length)
                              \/ ReadNext(p) \/ ReadResumes(p)
                              \/ \E q \in Procs : StdinKill(q, p)

StdinSpec == StdinInit /\ [][StdinNext]_stdin_vars
-------------------------------------------------------------------------------
(* Type invariant: of the queue, and of the keyboard and cons_read parts.    *)
StdinTypeOK ==
  /\ TypeOK
  /\ keys \in [Procs -> Seq(Messages)]
  /\ reading \in [Procs -> [max : 0 .. MaxLength, str : Seq(Messages),
                            seen : Seq([char : Messages, kind : Kinds])]]
  /\ cpu \in Procs \cup {AnyOne}
  /\ typed \in Seq(Seq(Messages))
  /\ taken \in Seq(Messages)

(***************************************************************************)
(* The keyboard stops at most one process: keyboard_data lets a character  *)
(* block the process it interrupted when the buffer is full (kbd.c:56      *)
(* tests > and not >=), but never a second one.                            *)
(***************************************************************************)
OneStopped ==
  \A p, q \in Procs : proc[p] = "blocked" /\ call[p] = "psend"
                      /\ proc[q] = "blocked" /\ call[q] = "psend" => p = q

\* a and b, typed in this order, are of one string, or each the first of theirs.
TypedBefore(a, b) ==
  \E i, k \in DOMAIN typed : \E j \in DOMAIN typed[i], l \in DOMAIN typed[k] :
    /\ typed[i][j] = a /\ typed[k][l] = b
    /\ \/ i = k /\ j < l
       \/ i < k /\ j = 1 /\ l = 1

(***************************************************************************)
(* Readers are handed the keys in the order in which they were typed, and  *)
(* the characters of one key in theirs, whatever processes the interrupts  *)
(* hit and stop.  (The rest of a key of several characters may come after  *)
(* the next key: its handler can be switched out between two of them.)     *)
(***************************************************************************)
TakenInOrder ==
  \A i, j \in DOMAIN taken : i < j => ~TypedBefore(taken[j], taken[i])

(* The queue of standard input behaves as one line of keys: the keyboard     *)
(* holds up at most one process, and readers get the keys as typed.          *)
KeysInOrder == OneStopped /\ TakenInOrder

\* Reference: a character survives if no later deletion falls on it, that is if
\* after it deletions never outnumber characters.
Stored(s) == {i \in DOMAIN s : s[i].kind = "char"}
Deleted(s) == {i \in DOMAIN s : s[i].kind = "del"}
Survivors(s) ==
  {i \in Stored(s) : \A j \in i .. Len(s) :
     Cardinality(Deleted(s) \cap i .. j) <= Cardinality(Stored(s) \cap i + 1 .. j)}

(***************************************************************************)
(* The string that cons_read builds is what is left of the characters the  *)
(* call received, and of no other reader's, once its deletions have been   *)
(* applied; while the call goes on there is room for another character.    *)
(***************************************************************************)
LineIsEdited ==
  \A p \in Procs :
    LET r == reading[p]
        left == Survivors(r.seen)
    IN  /\ Len(r.str) = Cardinality(left)
        /\ \A i \in left : r.str[Cardinality(left \cap 1 .. i)] = r.seen[i].char
        /\ IsReading(p) => Len(r.str) < r.max
===============================================================================
