------------------------------- MODULE Keyboard -------------------------------
(***************************************************************************)
(* The keyboard driver (kbd-linux): the bytes of a PC keyboard become key  *)
(* codes, modifier and lock states, and characters for the standard input. *)
(*                                                                         *)
(* A byte is handled by an interrupt handler that runs with interrupts     *)
(* masked, but keyboard_data() may block or yield in psend(): the process  *)
(* on which the handler runs is then switched out in the middle of it, and *)
(* the handler of the next byte finds what it has done so far.  cpu is     *)
(* what the handler now running has still to do, blocked and ready what    *)
(* the switched-out ones have.  Of a character only its existence is kept. *)
(*                                                                         *)
(* The mode of the keyboard is the one of kbd_init and never changes:      *)
(* translated key codes, repeat, no application keypad.                    *)
(***************************************************************************)
EXTENDS Integers, Sequences, FiniteSets, SequencesExt

CONSTANTS Keys,         \* the key codes of the keys of the keyboard
          MaxHeld,      \* bound: keys held, or believed to be held, at once
          MaxOthers,    \* bound: those of them that are not modifiers
          MaxLost,      \* bound: releases that went unnoticed
          PadValues,    \* values of npadch (2^32); the last one is -1
          CharValues,   \* values of a character (2^8)
          StringLength, \* bound: characters of the string of a function or cursor key
          BufSize,      \* KEY_BUFFER_SIZE
          MaxHandlers   \* bound: processes on which a handler can stand

ASSUME KeyboardConstants ==
  /\ Keys \subseteq 1 .. 127 /\ {MaxHeld, MaxOthers, MaxLost} \subseteq Nat
  /\ {PadValues, CharValues, StringLength, BufSize, MaxHandlers} \subseteq Nat \ {0}

None == PadValues - 1           \* npadch = -1

(***************************************************************************)
(* Scan codes.  A key sends its code when pressed and its code + 128 when  *)
(* released; the keys added to the first PC keyboard send a prefix before. *)
(***************************************************************************)
E0 == 224

E1 == 225

e0_keys == [c \in 0 .. 127 |->
  CASE c = 28 -> 96 [] c = 29 -> 97 [] c = 53 -> 98 [] c = 55 -> 99 [] c = 56 -> 100
    [] c \in 61 .. 65 -> c + 52
    [] c = 70 -> 101 [] c \in 71 .. 73 -> c + 31 [] c = 75 -> 105 [] c = 76 -> 124
    [] c = 77 -> 106 [] c = 78 -> 118 [] c \in 79 .. 83 -> c + 28
    [] c \in 91 .. 93 -> c + 34 [] c = 111 -> 112
    [] OTHER -> 0]

SC_LIM == 89

high_keys == [c \in SC_LIM .. 127 |->
  CASE c \in 89 .. 92 -> c + 35 [] c = 109 -> 122 [] c = 111 -> 123 [] c = 115 -> 89
    [] c = 116 -> 120 [] c = 119 -> 90 [] c \in 120 .. 124 -> c - 29 [] c = 125 -> 124
    [] c = 126 -> 121
    [] OTHER -> 0]

Pause == 119

Break == e0_keys[70]    \* what Pause sends with Ctrl

\* Every key sends something of its own, and Break is not a key of its own.
ASSUME KeysHaveCodes ==
  Keys \subseteq (1 .. 88) \cup {Pause} \cup ({e0_keys[c] : c \in 0 .. 127} \ {0, Break})

InPause == 256          \* prev_scancode after e1 1d

Shifts == {42, 54}      \* the codes that e0 turns into ones to ignore

(* What a byte makes of prev_scancode, and the key code it completes (0 if   *)
(* none).                                                                    *)
Translate(prev, byte) ==
  LET code == byte % 128
      res(p, k) == [prev |-> p, key |-> k]
  IN  IF byte \in {E0, E1} THEN res(byte, 0)
      ELSE CASE prev = E1      -> res(IF code = 29 THEN InPause ELSE 0, 0)
             [] prev = InPause -> res(0, IF code = 69 THEN Pause ELSE 0)
             [] prev = E0      -> res(0, IF code \in Shifts THEN 0 ELSE e0_keys[code])
             [] OTHER          -> res(0, IF code >= SC_LIM THEN high_keys[code] ELSE code)

(* A release of a key that is not down counts as a press for these keys.     *)
UnexpectedIsPress(k) == k >= SC_LIM \/ k = 85
-------------------------------------------------------------------------------
(* The keymap: one column for each set of modifiers that has a map.          *)
Modifiers == {"SHIFT", "ALTGR", "CTRL", "ALT"}

Column(mods) == CASE mods = {}               -> 1
                  [] mods = {"SHIFT"}        -> 2
                  [] mods = {"ALTGR"}        -> 3
                  [] mods = {"CTRL"}         -> 4
                  [] mods = {"ALTGR", "CTRL"} -> 5
                  [] mods = {"ALT"}          -> 6
                  [] mods = {"CTRL", "ALT"}  -> 7
                  [] OTHER                   -> 0

ModifierKeys == {29, 42, 54, 56, 97, 100}

ModifierOf == [k \in ModifierKeys |->
  CASE k \in {42, 54} -> "SHIFT" [] k \in {29, 97} -> "CTRL" [] k = 56 -> "ALT" [] k = 100 -> "ALTGR"]

Letters == (16 .. 25) \cup (30 .. 39) \cup (44 .. 49)

FKeys == (59 .. 68) \cup {87, 88}

PadDigits == 82 :> 0 @@ 79 :> 1 @@ 80 :> 2 @@ 81 :> 3 @@ 75 :> 4 @@ 76 :> 5 @@ 77 :> 6
             @@ 71 :> 7 @@ 72 :> 8 @@ 73 :> 9
             @@ 69 :> 10 @@ 98 :> 11 @@ 55 :> 12 @@ 74 :> 13 @@ 78 :> 14 @@ 96 :> 15

\* KTYP of the key in each of the seven maps; l: latin or letter,
\* f: function, s: special (the keys of the consoles, of which there is one,
\* do nothing and are among them), p: pad, u: cursor, h: shift, m: meta, a: ascii.
KeyTypes == [k \in 1 .. 127 |->
  CASE k \in Letters                              -> <<"l", "l", "l", "l", "l", "m", "m">>
    [] k \in ModifierKeys                          -> <<"h", "h", "h", "h", "h", "h", "h">>
    [] k \in {1, 2, 14, 15, 51, 52}               -> <<"l", "l", "s", "s", "s", "m", "s">>
    [] k \in (3 .. 9) \cup {12, 27}               -> <<"l", "l", "l", "l", "s", "m", "s">>
    [] k \in {10, 11, 13, 86}                     -> <<"l", "l", "l", "s", "s", "m", "s">>
    [] k \in {26, 40, 41, 43, 53, 57}             -> <<"l", "l", "s", "l", "s", "m", "s">>
    [] k = 50                                     -> <<"l", "l", "s", "s", "s", "s", "s">>
    [] k = 28                                     -> <<"s", "s", "s", "s", "s", "m", "s">>
    [] k \in {55, 74, 78, 96, 98}                 -> <<"p", "p", "a", "p", "p", "p", "p">>
    [] k \in FKeys                                -> <<"f", "f", "s", "f", "s", "s", "s">>
    [] k = 69                                     -> <<"s", "s", "a", "s", "s", "s", "s">>
    [] k = 83                                     -> <<"p", "p", "p", "p", "s", "p", "s">>
    [] k \in (71 .. 82) \ {74, 78}                -> <<"p", "p", "a", "p", "p", "a", "p">>
    [] k = 99                                     -> <<"s", "s", "s", "l", "s", "l", "s">>
    [] k \in {102, 107, 110, Pause}               -> <<"f", "f", "f", "f", "f", "f", "f">>
    [] k \in {103, 105, 106}                      -> <<"u", "u", "u", "u", "u", "s", "u">>
    [] k \in {104, 109}                           -> <<"f", "s", "f", "f", "f", "f", "f">>
    [] k = 108                                    -> <<"u", "u", "u", "u", "u", "u", "u">>
    [] k = 111                                    -> <<"f", "f", "f", "f", "s", "f", "s">>
    [] OTHER                                      -> <<"s", "s", "s", "s", "s", "s", "s">>]

\* The function of spec_fn_table; the ones that do nothing in this port are
\* "ignored".
Special(k, column) ==
  CASE k = 28 -> "enter"
    [] k = 58 -> "caps_toggle"
    [] k = 69 -> "num"
    [] k = 70 -> CASE column \in {1, 6} -> "hold" [] column \in {2, 3, 4} -> "ignored"
                   [] OTHER -> "null"
    [] k \in FKeys -> IF column \in {6, 7} THEN "ignored" ELSE "null"
    [] k \in {83, 84, 101, 103, 104, 105, 106, 109, 111} -> "ignored"
    [] OTHER -> "null"
-------------------------------------------------------------------------------
VARIABLES held, lost,                  \* the user: keys held; keys released unnoticed
          wire,                        \* bytes sent by the keyboard
          locks,                       \* the locks that the presses should have made
          prev_scancode, key_down, k_down, shift_state, npadch,
          ledflagstate, ledstate,
          tty_stopped,
          cpu, blocked, ready,         \* handlers
          abandoned,                   \* one was killed before it forgot the number
          stdin                        \* characters in the buffer; -1: a reader waits

user == <<held, lost, locks>>

modifiers == <<k_down, shift_state, npadch>>

handlers == <<cpu, blocked, ready, stdin, abandoned>>

vars == <<user, wire, prev_scancode, key_down, modifiers, ledflagstate, ledstate,
          tty_stopped, handlers>>

(* Steps of a handler: strings of characters, the rest of do_shift, and the  *)
(* tasklet that do_scancode runs at its end.                                 *)
Put(n) == [op |-> "put", n |-> n]

ForgetNumber == [op |-> "forget", n |-> 0]

Tasklet == [op |-> "tasklet", n |-> 0]

Idle == cpu = <<>>

Activations == Len(ready) + IF blocked = <<>> THEN 0 ELSE 1
-------------------------------------------------------------------------------
(* The byte at hand, the key code it completes and what is known of the key. *)
Byte == Head(wire)

Code == Translate(prev_scancode, Byte)

Released == Byte >= 128

Up == Released /\ (Code.key \in key_down \/ ~UnexpectedIsPress(Code.key))

rep == ~Released /\ Code.key \in key_down

Tracked == IF Released THEN key_down \ {Code.key} ELSE key_down \cup {Code.key}

DoScancode(steps) ==
  /\ Idle /\ wire # <<>> /\ Activations < MaxHandlers
  /\ wire' = Tail(wire)
  /\ prev_scancode' = Code.prev
  /\ cpu' = Append(steps, Tasklet)
  /\ UNCHANGED <<user, ledstate, blocked, ready, stdin, abandoned>>

(* The part of handle_scancode before the dispatch, for a key whose type in  *)
(* the present map is t.                                                     *)
Handle(t, steps) ==
  /\ DoScancode(steps)
  /\ Code.key # 0 /\ Column(shift_state) # 0
  /\ KeyTypes[Code.key][Column(shift_state)] = t
  /\ key_down' = Tracked

NoKey ==
  /\ wire # <<>> /\ Code.key = 0
  /\ DoScancode(<<>>)
  /\ UNCHANGED <<key_down, modifiers, ledflagstate, tty_stopped>>

Count(down, m) == Cardinality({k \in down \cap ModifierKeys : ModifierOf[k] = m})

ComputeNothing(down) == UNCHANGED modifiers         \* faulty variant

ComputeShiftState(down) ==
  /\ k_down' = [m \in Modifiers |-> Count(down, m)]
  /\ shift_state' = {m \in Modifiers : Count(down, m) > 0}
  /\ UNCHANGED npadch

(* No map for these modifiers: nothing is sent, the modifiers are recomputed. *)
NoMap ==
  /\ wire # <<>> /\ Code.key # 0 /\ Column(shift_state) = 0
  /\ DoScancode(<<>>)
  /\ key_down' = Tracked
  /\ ComputeShiftState(Tracked)
  /\ UNCHANGED <<ledflagstate, tty_stopped>>

Sends(t, steps) ==
  /\ wire # <<>> /\ Handle(t, IF Up THEN <<>> ELSE steps)
  /\ UNCHANGED <<modifiers, ledflagstate, tty_stopped>>

(* With Ctrl these keys are the character 0, an empty string.                *)
NulKeys == {3, 41, 57}

DoSelf == Sends("l", <<Put(IF Column(shift_state) = 4 /\ Code.key \in NulKeys
                             THEN 0 ELSE 1)>>)

(* func_table has no string for Pause, nor for the function keys past F20.    *)
HasString(k, column) ==
  CASE k = Pause    -> FALSE
    [] k \in FKeys  -> column = 1 \/ (column = 2 /\ k <= 66)
    [] OTHER        -> TRUE

DoFn == Sends("f", IF HasString(Code.key, Column(shift_state)) THEN <<Put(StringLength)>> ELSE <<>>)

DoMeta == Sends("m", <<Put(1), Put(1)>>)

DoCur == Sends("u", <<Put(StringLength)>>)

(* Without NumLock these keys are function keys and cursor keys.             *)
PadStrings == (71 .. 73) \cup (75 .. 77) \cup (79 .. 83)

DoPad == Sends("p", <<Put(IF "NUM" \notin ledflagstate /\ Code.key \in PadStrings
                            THEN StringLength ELSE 1)>>)

Toggle(flags, f) == IF f \in flags THEN flags \ {f} ELSE flags \cup {f}

Flagged(fn) == CASE fn = "caps_toggle" -> Toggle(ledflagstate, "CAPS")
                 [] fn = "num"         -> Toggle(ledflagstate, "NUM")
                 [] OTHER              -> ledflagstate

DoSpec ==
  /\ wire # <<>>
  /\ LET fn == IF Up THEN "ignored" ELSE Special(Code.key, Column(shift_state))
     IN  /\ Handle("s", IF fn = "enter" THEN <<Put(1)>> ELSE <<>>)
         /\ ledflagstate' = IF rep THEN ledflagstate ELSE Flagged(fn)
         /\ tty_stopped' = (tty_stopped # (fn = "hold" /\ ~rep))
         /\ IF fn = "null" THEN ComputeShiftState(Tracked) ELSE UNCHANGED modifiers

(* do_ascii: a digit of a number, decimal with Alt and hexadecimal with AltGr *)
DoAscii ==
  /\ wire # <<>>
  /\ Handle("a", <<>>)
  /\ LET base == IF Column(shift_state) = 6 THEN 10 ELSE 16
         digit == PadDigits[Code.key]
         number == IF npadch = None THEN 0 ELSE npadch
     IN  npadch' = IF Up THEN npadch ELSE (number * base + digit) % PadValues
  /\ UNCHANGED <<k_down, shift_state, ledflagstate, tty_stopped>>

(* do_shift: two keys may stand for the same modifier; the release that ends *)
(* a modifier sends the number typed on the keypad, then forgets it.         *)
Counted(m) == IF ~Up THEN k_down[m] + 1
                     ELSE IF k_down[m] > 0 THEN k_down[m] - 1 ELSE 0

EndsNumberAlt(m, state) == Up /\ m = "ALT" /\ state # shift_state   \* faulty variant

EndsNumber(m, state) == Up /\ state # shift_state

DoShift ==
  /\ wire # <<>> /\ Code.key \in ModifierKeys
  /\ LET m == ModifierOf[Code.key]
         n == IF rep THEN k_down[m] ELSE Counted(m)
         state == IF rep THEN shift_state
                  ELSE IF n > 0 THEN shift_state \cup {m} ELSE shift_state \ {m}
     IN  /\ Handle("h", IF EndsNumber(m, state) /\ npadch # None
                          THEN <<Put(IF npadch % CharValues = 0 THEN 0 ELSE 1), ForgetNumber>>
                          ELSE <<>>)
         /\ k_down' = [k_down EXCEPT ![m] = n]
         /\ shift_state' = state
  /\ UNCHANGED <<npadch, ledflagstate, tty_stopped>>

HandleByte == \/ NoKey \/ NoMap \/ DoSelf \/ DoFn \/ DoMeta \/ DoCur \/ DoPad
              \/ DoSpec \/ DoAscii \/ DoShift
-------------------------------------------------------------------------------
(* keyboard_data() and psend(), for one character of the string at hand.     *)
AtString == cpu # <<>> /\ Head(cpu).op = "put"

Rest == IF Head(cpu).n = 1 THEN Tail(cpu)
                           ELSE <<[Head(cpu) EXCEPT !.n = @ - 1]>> \o Tail(cpu)

unsent == <<user, wire, prev_scancode, key_down, modifiers, ledflagstate, ledstate,
            tty_stopped>>

PutNothing ==            \* the end of an empty string
  /\ AtString /\ Head(cpu).n = 0
  /\ cpu' = Tail(cpu)
  /\ UNCHANGED <<unsent, blocked, ready, stdin, abandoned>>

PutDropped ==            \* a handler is already stopped: the string is cut
  /\ AtString /\ Head(cpu).n > 0 /\ blocked # <<>>
  /\ cpu' = Tail(cpu)
  /\ UNCHANGED <<unsent, blocked, ready, stdin, abandoned>>

PutBlocks ==
  /\ AtString /\ Head(cpu).n > 0 /\ blocked = <<>> /\ stdin = BufSize
  /\ blocked' = Rest /\ cpu' = <<>>
  /\ UNCHANGED <<unsent, ready, stdin, abandoned>>

PutStored ==             \* and, if a reader waited, it may run at once
  /\ AtString /\ Head(cpu).n > 0 /\ blocked = <<>> /\ stdin < BufSize
  /\ stdin' = stdin + 1
  /\ \/ cpu' = Rest /\ UNCHANGED ready
     \/ stdin = -1 /\ Rest # <<>> /\ cpu' = <<>> /\ ready' = Append(ready, Rest)
  /\ UNCHANGED <<unsent, blocked, abandoned>>

DoForget ==
  /\ cpu # <<>> /\ Head(cpu) = ForgetNumber
  /\ cpu' = Tail(cpu) /\ npadch' = None /\ abandoned' = FALSE
  /\ UNCHANGED <<user, wire, prev_scancode, key_down, k_down, shift_state, ledflagstate,
                 ledstate, tty_stopped, blocked, ready, stdin>>

ShownOnce == IF ledstate = {} THEN ledflagstate ELSE ledstate   \* faulty variant

Shown == ledflagstate

KbdBh ==                 \* keyboard_tasklet_fn, at the end of do_scancode
  /\ cpu # <<>> /\ Head(cpu) = Tasklet
  /\ cpu' = Tail(cpu) /\ ledstate' = Shown
  /\ UNCHANGED <<user, wire, prev_scancode, key_down, modifiers, ledflagstate, tty_stopped,
                 blocked, ready, stdin, abandoned>>

(* A reader takes a character; the stopped handler, if any, can go on when   *)
(* its process is chosen.                                                    *)
Read ==
  /\ Idle /\ stdin >= 0
  /\ IF stdin > 0 /\ blocked # <<>>
       THEN ready' = Append(ready, blocked) /\ blocked' = <<>> /\ UNCHANGED stdin
       ELSE stdin' = stdin - 1 /\ UNCHANGED <<blocked, ready>>
  /\ UNCHANGED <<unsent, cpu, abandoned>>

Resume(i) ==
  /\ Idle
  /\ cpu' = ready[i] /\ ready' = RemoveAt(ready, i)
  /\ UNCHANGED <<unsent, blocked, stdin, abandoned>>

(* The process on which a handler stands is killed, and the handler with it. *)
Forgets(h) == \E i \in DOMAIN h : h[i] = ForgetNumber

Kill ==
  /\ Idle
  /\ \/ /\ blocked # <<>>
        /\ blocked' = <<>> /\ abandoned' = (abandoned \/ Forgets(blocked))
        /\ UNCHANGED ready
     \/ \E i \in DOMAIN ready :
          /\ ready' = RemoveAt(ready, i) /\ abandoned' = (abandoned \/ Forgets(ready[i]))
          /\ UNCHANGED blocked
  /\ UNCHANGED <<unsent, cpu, stdin>>

KeyboardData == PutNothing \/ PutDropped \/ PutBlocks \/ PutStored

Sending == KeyboardData \/ DoForget \/ KbdBh \/ Read \/ Kill \/ \E i \in DOMAIN ready : Resume(i)
-------------------------------------------------------------------------------
(***************************************************************************)
(* The keyboard and its user.  Keys repeat while they are held.  A release *)
(* may go unnoticed (the keyboard unplugged or switched to another         *)
(* machine): the driver then still believes the key to be held.  The bytes *)
(* of one event are handled before those of the next are sent, as they     *)
(* are handled in order.                                                   *)
(***************************************************************************)
Believed == held \cup lost

ModifiersOf(keys) == {ModifierOf[k] : k \in keys \cap ModifierKeys}

CodeOf == [k \in Keys |-> IF \E c \in 0 .. 127 : e0_keys[c] = k
                            THEN CHOOSE c \in 0 .. 127 : e0_keys[c] = k ELSE k]

Extended == {k \in Keys : k >= SC_LIM /\ CodeOf[k] # k}

Codes(k, up) ==
  LET u == IF up THEN 128 ELSE 0
  IN  CASE k = Pause /\ "CTRL" \in ModifiersOf(held) -> {<<E0, 70, E0, 198>>}
        [] k = Pause /\ "CTRL" \notin ModifiersOf(held) -> {<<E1, 29, 69, E1, 157, 197>>}
        [] k # Pause /\ k \in Extended ->
             {<<E0, CodeOf[k] + u>>, <<E0, 42, E0, CodeOf[k] + u>>,
              <<E0, CodeOf[k] + u, E0, 170>>}
        [] OTHER -> {<<k + u>>}

Quiet == wire = <<>> /\ Idle

(* The lock that a press of k toggles, from the keys held.                   *)
Locked(k) ==
  LET column == Column(ModifiersOf(Believed))
  IN  IF k \in Believed \/ column = 0 THEN locks
      ELSE CASE k = 58                -> Toggle(locks, "CAPS")
             [] k = 69 /\ column # 3  -> Toggle(locks, "NUM")
             [] OTHER                 -> locks

driver == <<prev_scancode, key_down, modifiers, ledflagstate, ledstate, tty_stopped,
            handlers>>

Press(k) ==              \* a first press, or a repetition
  /\ Quiet /\ Cardinality(Believed \cup {k}) <= MaxHeld
  /\ Cardinality((Believed \cup {k}) \ ModifierKeys) <= MaxOthers
  /\ held' = IF k = Pause THEN held ELSE held \cup {k}
  /\ lost' = lost \ {k}
  /\ locks' = Locked(k)
  /\ \E s \in Codes(k, FALSE) : wire' = s
  /\ UNCHANGED driver

Release(k) ==
  /\ Quiet /\ k \in held
  /\ held' = held \ {k}
  /\ \E s \in Codes(k, TRUE) : wire' = s
  /\ UNCHANGED <<lost, locks, driver>>

LoseRelease(k) ==
  /\ Quiet /\ k \in held /\ Cardinality(lost) < MaxLost
  /\ held' = held \ {k} /\ lost' = lost \cup {k}
  /\ UNCHANGED <<locks, wire, driver>>

User == \E k \in Keys : Press(k) \/ Release(k) \/ LoseRelease(k)

Init ==
  /\ held = {} /\ lost = {} /\ locks = {} /\ wire = <<>>
  /\ prev_scancode = 0 /\ key_down = {}
  /\ k_down = [m \in Modifiers |-> 0] /\ shift_state = {} /\ npadch = None
  /\ ledflagstate = {} /\ ledstate = {} /\ tty_stopped = FALSE
  /\ cpu = <<>> /\ blocked = <<>> /\ ready = <<>> /\ stdin = 0 /\ abandoned = FALSE

Next == User \/ HandleByte \/ Sending

Spec == Init /\ [][Next]_vars
-------------------------------------------------------------------------------
(***************************************************************************)
(* The modifiers are those of the keys: when all bytes are handled the     *)
(* driver knows the keys held, and always the counters and shift_state     *)
(* agree with the keys it knows, through the two ways of updating them     *)
(* (do_shift in a map, compute_shiftstate without one), two keys for one   *)
(* modifier, fake shifts, Pause, unnoticed releases and stopped handlers.  *)
(***************************************************************************)
ModifiersAgree ==
  /\ wire = <<>> => key_down = Believed /\ prev_scancode = 0
  /\ \A m \in Modifiers : k_down[m] = Count(key_down, m)
  /\ shift_state = ModifiersOf(key_down)

(***************************************************************************)
(* A lock changes once for each press that is not a repetition, and only   *)
(* where the map of the modifiers held has the lock; the lights show the   *)
(* locks whenever no handler runs, even while others stand in the middle.  *)
(***************************************************************************)
LocksAgree ==
  /\ wire = <<>> => ledflagstate = locks
  /\ Idle => ledstate = ledflagstate

(***************************************************************************)
(* A number typed on the keypad does not survive the release of the last   *)
(* modifier, after which nothing would send it: it is sent then, and what  *)
(* is left of it is what a handler has sent and not yet forgotten.         *)
(***************************************************************************)
NumberPending ==
  npadch # None => \/ shift_state # {} \/ abandoned
                   \/ Forgets(cpu) \/ Forgets(blocked)
                   \/ \E i \in DOMAIN ready : Forgets(ready[i])
===============================================================================
