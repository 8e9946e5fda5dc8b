---------------------------- MODULE Keyboard_proofs ----------------------------
(***************************************************************************)
(* Proofs about the keyboard driver, for every set of keys and every bound. *)
(*                                                                         *)
(* The properties of Keyboard are about the moments at which all bytes are *)
(* handled; between two of them the driver is in the middle of the code of *)
(* a key.  WireInv says where: which key the code that is left stands for, *)
(* and what the driver will have learnt when it is read to the end.  The   *)
(* other parts are what do_shift, compute_shiftstate and the handlers that *)
(* psend switches out keep: ModifiersCount, LightsInv and NumberPending.   *)
(*                                                                         *)
(* KeysHaveCodes is used: a key that sent the code of another would make   *)
(* key_down lie, and Break is sent by Pause only.                          *)
(***************************************************************************)
EXTENDS Keyboard, SeqLemmas, FiniteSetTheorems

(* What can be completed by the bytes; the two codes of Pause are released   *)
(* with the press.                                                           *)
KeyCodes == Keys \cup {Break}

Momentary == {Pause, Break}

(* Nothing of a code is left, except a fake shift that is ignored.           *)
Done == {<<0, <<>>>>, <<0, <<E0, 170>>>>, <<E0, <<170>>>>}

(* The positions <<prev_scancode, wire>> before the byte that completes the  *)
(* press (u = 0) or the release (u = 128) of k.                              *)
Ahead(k, u) ==
  LET b == CodeOf[k] + u
  IN  CASE k = Pause /\ u = 0 ->
             {<<0, <<E1, 29, 69, E1, 157, 197>>>>, <<E1, <<29, 69, E1, 157, 197>>>>,
              <<InPause, <<69, E1, 157, 197>>>>}
        [] k = Pause /\ u = 128 ->
             {<<0, <<E1, 157, 197>>>>, <<E1, <<157, 197>>>>, <<InPause, <<197>>>>}
        [] k = Break /\ u = 0 -> {<<0, <<E0, 70, E0, 198>>>>, <<E0, <<70, E0, 198>>>>}
        [] k = Break /\ u = 128 -> {<<0, <<E0, 198>>>>, <<E0, <<198>>>>}
        [] k \in 1 .. SC_LIM - 1 -> {<<0, <<k + u>>>>}
        [] OTHER ->
             {<<0, <<E0, b>>>>, <<E0, <<b>>>>, <<0, <<E0, b, E0, 170>>>>, <<E0, <<b, E0, 170>>>>,
              <<0, <<E0, 42, E0, b>>>>, <<E0, <<42, E0, b>>>>}

Here == <<prev_scancode, wire>>

(* The driver knows what the user did.                                       *)
Settled == Believed = key_down /\ locks = ledflagstate

(* The locks after a press of k.                                             *)
Switched(k) ==
  LET column == Column(shift_state)
  IN  IF k \in key_down \/ column = 0 THEN ledflagstate
      ELSE CASE k = 58                -> Toggle(ledflagstate, "CAPS")
             [] k = 69 /\ column # 3  -> Toggle(ledflagstate, "NUM")
             [] OTHER                 -> ledflagstate

(* The press or the release of k is all that the driver does not know yet.   *)
DuePress(k) == IF k \in Momentary THEN Settled
               ELSE Believed = key_down \cup {k} /\ locks = Switched(k)

DueRelease(k) == k \in key_down /\ Believed = key_down \ {k} /\ locks = ledflagstate

WireInv == \/ Here \in Done /\ Settled
           \/ \E k \in KeyCodes : Here \in Ahead(k, 0) /\ DuePress(k)
           \/ \E k \in KeyCodes : Here \in Ahead(k, 128) /\ DueRelease(k)

(* Pause is never held: it sends its release with its press.                 *)
UserTypes == /\ held \subseteq Keys \ {Pause} /\ lost \subseteq Keys \ {Pause}
             /\ held \cap lost = {}

(* The counters of do_shift and its set are those of the keys down.          *)
Counts(counters, mods, down) == /\ counters \in [Modifiers -> Nat]
                                /\ \A m \in Modifiers : counters[m] = Count(down, m)
                                /\ mods = ModifiersOf(down)

ModifiersCount == Counts(k_down, shift_state, key_down)

(* do_scancode ends with the tasklet, which shows the locks.                 *)
LightsInv == ledstate = ledflagstate \/ cpu = <<Tasklet>>
-------------------------------------------------------------------------------
(* The tables. *)

LEMMA ModifierOfType == ModifierOf \in [ModifierKeys -> Modifiers]
BY DEF ModifierOf, ModifierKeys, Modifiers

LEMMA ShiftKeys ==
  ASSUME NEW k \in 1 .. 127, NEW c \in 1 .. 7
  PROVE  KeyTypes[k][c] = "h" <=> k \in ModifierKeys
<1>1. CASE k \in ModifierKeys
  BY <1>1, SMTT(60) DEF KeyTypes, ModifierKeys, Letters, FKeys, Pause
<1>2. CASE k \notin ModifierKeys
  BY <1>2, SMTT(60) DEF KeyTypes, ModifierKeys, Letters, FKeys, Pause
<1> QED BY <1>1, <1>2

LEMMA DigitKeys ==
  ASSUME NEW k \in 1 .. 127
  PROVE  KeyTypes[k][1] # "a"
BY DEF KeyTypes, Letters, FKeys, Pause

LEMMA LockKeys ==
  ASSUME NEW k \in 1 .. 127, NEW c \in 1 .. 7
  PROVE  /\ k = 58 => KeyTypes[k][c] = "s"
         /\ k = 69 => KeyTypes[k][c] = IF c = 3 THEN "a" ELSE "s"
         /\ Special(k, c) = "caps_toggle" <=> k = 58
         /\ Special(k, c) = "num" <=> k = 69
<1>1. ASSUME k = 58
      PROVE  KeyTypes[k] = <<"s", "s", "s", "s", "s", "s", "s">>
  BY <1>1 DEF ModifierKeys, KeyTypes, Letters, FKeys, Pause
<1>2. ASSUME k = 69
      PROVE  KeyTypes[k] = <<"s", "s", "a", "s", "s", "s", "s">>
  BY <1>2 DEF ModifierKeys, KeyTypes, Letters, FKeys, Pause
<1>3. /\ Special(k, c) = "caps_toggle" <=> k = 58
      /\ Special(k, c) = "num" <=> k = 69
  BY DEF Special, FKeys
<1> QED BY <1>1, <1>2, <1>3
-------------------------------------------------------------------------------
(* The bytes. *)

LEMMA PrefixedKeys ==
  ASSUME NEW c \in 0 .. 127, e0_keys[c] # 0
  PROVE  /\ e0_keys[c] \in 96 .. 127 /\ e0_keys[c] # Pause /\ e0_keys[c] # c
         /\ c \notin Shifts \cup {E0 - 128, E1 - 128}
         /\ e0_keys[c] = Break => c = 70
<1>1. e0_keys[c] \in 96 .. 127
  <2>1. e0_keys[c] \in Int
    BY SMTT(60) DEF e0_keys
  <2>2. e0_keys[c] >= 96
    BY SMTT(60) DEF e0_keys
  <2>3. e0_keys[c] <= 127
    BY SMTT(60) DEF e0_keys
  <2> QED BY <2>1, <2>2, <2>3
<1>6. e0_keys[c] # Pause
  BY SMTT(60) DEF e0_keys, Pause
<1>2. e0_keys[c] # c
  BY SMTT(60) DEF e0_keys
<1>3. c \notin Shifts \cup {E0 - 128, E1 - 128}
  BY SMTT(60) DEF e0_keys, Shifts, E0, E1
<1>4. e0_keys[c] = 101 => c = 70
  BY SMTT(60) DEF e0_keys
<1>5. Break = 101
  BY DEF Break, e0_keys
<1> QED BY <1>1, <1>2, <1>3, <1>4, <1>5, <1>6

LEMMA BreakCode == Break = 101 /\ Break # Pause
BY DEF Break, e0_keys, Pause

(* A key other than Pause and Break is alone in sending its code, with or  *)
(* without a prefix.                                                       *)
Prefixed(k) == /\ k \in 96 .. 127 /\ k \notin {Pause, Break} /\ k \in Extended
               /\ CodeOf[k] \in 0 .. 127 /\ e0_keys[CodeOf[k]] = k
               /\ CodeOf[k] \notin Shifts \cup {E0 - 128, E1 - 128}

LEMMA KindsOfKeys ==
  ASSUME NEW k \in Keys
  PROVE  \/ k \in 1 .. 88 /\ k \notin Extended /\ k \notin {Pause, Break}
         \/ k = Pause
         \/ Prefixed(k)
<1>1. k # Break
  BY KeysHaveCodes, BreakCode
<1>2. CASE k \in 1 .. 88
  BY <1>1, <1>2 DEF Pause, Extended, SC_LIM
<1>3. CASE k \in {e0_keys[c] : c \in 0 .. 127} \ {0, Break}
  <2>1. \E c \in 0 .. 127 : e0_keys[c] = k
    BY <1>3
  <2>2. CodeOf[k] = CHOOSE c \in 0 .. 127 : e0_keys[c] = k
    BY <2>1 DEF CodeOf
  <2>3. CodeOf[k] \in 0 .. 127 /\ e0_keys[CodeOf[k]] = k
    BY <2>1, <2>2
  <2>4. k # 0
    BY <1>3
  <2>5. k \in 96 .. 127 /\ k # Pause /\ CodeOf[k] # k
        /\ CodeOf[k] \notin Shifts \cup {E0 - 128, E1 - 128}
    <3>1. PICK c \in 0 .. 127 : c = CodeOf[k]
      BY <2>3
    <3>2. e0_keys[c] = k /\ e0_keys[c] # 0
      BY <2>3, <2>4, <3>1
    <3>3. /\ e0_keys[c] \in 96 .. 127 /\ e0_keys[c] # Pause /\ e0_keys[c] # c
          /\ c \notin Shifts \cup {E0 - 128, E1 - 128}
      BY <3>2, PrefixedKeys
    <3> QED BY <3>1, <3>2, <3>3
  <2> QED BY <1>1, <2>3, <2>5 DEF Prefixed, Extended, SC_LIM
<1> QED BY <1>2, <1>3, KeysHaveCodes

(* One byte. *)
To(p, k) == [prev |-> p, key |-> k]

LEMMA OneByte ==
  /\ \A p : Translate(p, E0) = To(E0, 0) /\ Translate(p, E1) = To(E1, 0)
  /\ \A x \in {42, 170} : Translate(E0, x) = To(0, 0)
  /\ \A x \in {29, 157} : Translate(E1, x) = To(InPause, 0)
  /\ \A x \in {69, 197} : Translate(InPause, x) = To(0, Pause)
  /\ \A x \in {70, 198} : Translate(E0, x) = To(0, Break)
  /\ \A k \in 1 .. 88, u \in {0, 128} : Translate(0, k + u) = To(0, k)
  /\ \A c \in (0 .. 127) \ (Shifts \cup {E0 - 128, E1 - 128}), u \in {0, 128} :
        Translate(E0, c + u) = To(0, e0_keys[c])
<1>1. \A p : Translate(p, E0) = To(E0, 0) /\ Translate(p, E1) = To(E1, 0)
  BY DEF Translate, To
<1>2. \A x \in {42, 170} : x % 128 = 42 /\ x \notin {E0, E1}
  BY DEF E0, E1
<1>3. \A x \in {29, 157} : x % 128 = 29 /\ x \notin {E0, E1}
  BY DEF E0, E1
<1>4. \A x \in {69, 197} : x % 128 = 69 /\ x \notin {E0, E1}
  BY DEF E0, E1
<1>5. \A x \in {70, 198} : x % 128 = 70 /\ x \notin {E0, E1}
  BY DEF E0, E1
<1>6. \A k \in 0 .. 127, u \in {0, 128} :
         (k + u) % 128 = k /\ (k \notin {E0 - 128, E1 - 128} => k + u \notin {E0, E1})
  BY DEF E0, E1
<1>7. E0 # E1 /\ InPause \notin {E0, E1, 0} /\ 0 \notin {E0, E1}
  BY DEF E0, E1, InPause
<1>8. \A x \in {42, 170} : Translate(E0, x) = To(0, 0)
  BY <1>2, <1>7 DEF Translate, To, Shifts
<1>9. \A x \in {29, 157} : Translate(E1, x) = To(InPause, 0)
  BY <1>3, <1>7 DEF Translate, To
<1>10. \A x \in {69, 197} : Translate(InPause, x) = To(0, Pause)
  BY <1>4, <1>7 DEF Translate, To
<1>11. \A x \in {70, 198} : Translate(E0, x) = To(0, Break)
  BY <1>5, <1>7 DEF Translate, To, Shifts, Break
<1>12. \A k \in 1 .. 88, u \in {0, 128} : Translate(0, k + u) = To(0, k)
  <2> SUFFICES ASSUME NEW k \in 1 .. 88, NEW u \in {0, 128}
               PROVE  Translate(0, k + u) = To(0, k)
    OBVIOUS
  <2>1. k \in 0 .. 127 /\ k \notin {E0 - 128, E1 - 128} /\ ~(k >= SC_LIM)
    BY DEF E0, E1, SC_LIM
  <2>2. (k + u) % 128 = k /\ k + u \notin {E0, E1}
    BY <1>6, <2>1
  <2> QED BY <1>7, <2>1, <2>2 DEF Translate, To
<1>13. \A c \in (0 .. 127) \ (Shifts \cup {E0 - 128, E1 - 128}), u \in {0, 128} :
         Translate(E0, c + u) = To(0, e0_keys[c])
  <2> SUFFICES ASSUME NEW c \in (0 .. 127) \ (Shifts \cup {E0 - 128, E1 - 128}),
                      NEW u \in {0, 128}
               PROVE  Translate(E0, c + u) = To(0, e0_keys[c])
    OBVIOUS
  <2>1. (c + u) % 128 = c /\ c + u \notin {E0, E1}
    BY <1>6
  <2> QED BY <1>7, <2>1 DEF Translate, To
<1> QED BY <1>1, <1>8, <1>9, <1>10, <1>11, <1>12, <1>13

(* What follows the byte that completes a key. *)
After(k, u) == IF k \in Momentary /\ u = 0 THEN Ahead(k, 128) ELSE Done

Moves(k, u, p, w) ==
  LET r == Translate(p, Head(w))
  IN  /\ w # <<>>
      /\ \/ r.key = 0 /\ <<r.prev, Tail(w)>> \in Ahead(k, u)
         \/ r.key = k /\ (Head(w) >= 128 <=> u = 128) /\ <<r.prev, Tail(w)>> \in After(k, u)

LEMMA PauseAlone == /\ Break = 101 /\ Pause = 119 /\ SC_LIM = 89
                     /\ Pause \notin 1 .. SC_LIM - 1 /\ Break \notin 1 .. SC_LIM - 1
BY BreakCode DEF Pause, SC_LIM

LEMMA MovesOn ==
  ASSUME NEW k, NEW u, NEW p, NEW w, NEW q, w # <<>>,
         Translate(p, Head(w)) = [prev |-> q, key |-> 0], <<q, Tail(w)>> \in Ahead(k, u)
  PROVE  Moves(k, u, p, w)
<1> DEFINE r == Translate(p, Head(w))
<1>1. r.prev = q /\ r.key = 0
  OBVIOUS
<1> QED BY <1>1, Zenon DEF Moves

LEMMA MovesOver ==
  ASSUME NEW k, NEW u, NEW p, NEW w, NEW q, w # <<>>,
         Translate(p, Head(w)) = [prev |-> q, key |-> k], Head(w) >= 128 <=> u = 128,
         <<q, Tail(w)>> \in After(k, u)
  PROVE  Moves(k, u, p, w)
<1> DEFINE r == Translate(p, Head(w))
<1>1. r.prev = q /\ r.key = k
  OBVIOUS
<1> QED BY <1>1, Zenon DEF Moves

LEMMA NextOfPause ==
  ASSUME NEW u \in {0, 128}, NEW p, NEW w, <<p, w>> \in Ahead(Pause, u)
  PROVE  Moves(Pause, u, p, w)
<1>1. CASE u = 0
  <2>1. Ahead(Pause, u) = {<<0, <<E1, 29, 69, E1, 157, 197>>>>, <<E1, <<29, 69, E1, 157, 197>>>>,
                           <<InPause, <<69, E1, 157, 197>>>>}
    BY <1>1, PauseAlone DEF Ahead
  <2>2. After(Pause, u) = {<<0, <<E1, 157, 197>>>>, <<E1, <<157, 197>>>>, <<InPause, <<197>>>>}
    BY <1>1, PauseAlone DEF Ahead, After, Momentary
  <2>3. CASE p = 0 /\ w = <<E1, 29, 69, E1, 157, 197>>
    <3>1. w # <<>> /\ Head(w) = E1 /\ Tail(w) = <<29, 69, E1, 157, 197>>
      BY <2>3
    <3>0. w # <<>>
      BY <3>1
    <3>2. Translate(p, Head(w)) = [prev |-> E1, key |-> 0]
      BY <3>1, OneByte DEF To
    <3>3. <<E1, Tail(w)>> \in Ahead(Pause, u)
      BY <2>1, <3>1
    <3> QED BY <3>0, <3>2, <3>3, MovesOn
  <2>4. CASE p = E1 /\ w = <<29, 69, E1, 157, 197>>
    <3>1. w # <<>> /\ Head(w) = 29 /\ Tail(w) = <<69, E1, 157, 197>>
      BY <2>4
    <3>0. w # <<>>
      BY <3>1
    <3>2. Translate(p, Head(w)) = [prev |-> InPause, key |-> 0]
      BY <2>4, <3>1, OneByte DEF To
    <3>3. <<InPause, Tail(w)>> \in Ahead(Pause, u)
      BY <2>1, <3>1
    <3> QED BY <3>0, <3>2, <3>3, MovesOn
  <2>5. CASE p = InPause /\ w = <<69, E1, 157, 197>>
    <3>1. w # <<>> /\ Head(w) = 69 /\ Tail(w) = <<E1, 157, 197>>
      BY <2>5
    <3>0. w # <<>>
      BY <3>1
    <3>2. Translate(p, Head(w)) = [prev |-> 0, key |-> Pause]
      BY <2>5, <3>1, OneByte DEF To
    <3>3. <<0, Tail(w)>> \in After(Pause, u)
      BY <2>2, <3>1
    <3>4. Head(w) >= 128 <=> u = 128
      BY <1>1, <3>1
    <3> QED BY <3>0, <3>2, <3>3, <3>4, MovesOver
  <2> QED BY <1>1, <2>1, <2>3, <2>4, <2>5
<1>2. CASE u = 128
  <2>1. Ahead(Pause, u) = {<<0, <<E1, 157, 197>>>>, <<E1, <<157, 197>>>>, <<InPause, <<197>>>>}
    BY <1>2, PauseAlone DEF Ahead
  <2>2. After(Pause, u) = Done
    BY <1>2, PauseAlone DEF After
  <2>3. CASE p = 0 /\ w = <<E1, 157, 197>>
    <3>1. w # <<>> /\ Head(w) = E1 /\ Tail(w) = <<157, 197>>
      BY <2>3
    <3>0. w # <<>>
      BY <3>1
    <3>2. Translate(p, Head(w)) = [prev |-> E1, key |-> 0]
      BY <3>1, OneByte DEF To
    <3>3. <<E1, Tail(w)>> \in Ahead(Pause, u)
      BY <2>1, <3>1
    <3> QED BY <3>0, <3>2, <3>3, MovesOn
  <2>4. CASE p = E1 /\ w = <<157, 197>>
    <3>1. w # <<>> /\ Head(w) = 157 /\ Tail(w) = <<197>>
      BY <2>4
    <3>0. w # <<>>
      BY <3>1
    <3>2. Translate(p, Head(w)) = [prev |-> InPause, key |-> 0]
      BY <2>4, <3>1, OneByte DEF To
    <3>3. <<InPause, Tail(w)>> \in Ahead(Pause, u)
      BY <2>1, <3>1
    <3> QED BY <3>0, <3>2, <3>3, MovesOn
  <2>5. CASE p = InPause /\ w = <<197>>
    <3>1. w # <<>> /\ Head(w) = 197 /\ Tail(w) = <<>>
      BY <2>5
    <3>0. w # <<>>
      BY <3>1
    <3>2. Translate(p, Head(w)) = [prev |-> 0, key |-> Pause]
      BY <2>5, <3>1, OneByte DEF To
    <3>3. <<0, Tail(w)>> \in After(Pause, u)
      BY <2>2, <3>1 DEF Done
    <3>4. Head(w) >= 128 <=> u = 128
      BY <1>2, <3>1
    <3> QED BY <3>0, <3>2, <3>3, <3>4, MovesOver
  <2> QED BY <1>2, <2>1, <2>3, <2>4, <2>5
<1> QED BY <1>1, <1>2

LEMMA NextOfBreak ==
  ASSUME NEW u \in {0, 128}, NEW p, NEW w, <<p, w>> \in Ahead(Break, u)
  PROVE  Moves(Break, u, p, w)
<1>1. CASE u = 0
  <2>1. Ahead(Break, u) = {<<0, <<E0, 70, E0, 198>>>>, <<E0, <<70, E0, 198>>>>}
    BY <1>1, PauseAlone DEF Ahead
  <2>2. After(Break, u) = {<<0, <<E0, 198>>>>, <<E0, <<198>>>>}
    BY <1>1, PauseAlone DEF Ahead, After, Momentary
  <2>3. CASE p = 0 /\ w = <<E0, 70, E0, 198>>
    <3>1. w # <<>> /\ Head(w) = E0 /\ Tail(w) = <<70, E0, 198>>
      BY <2>3
    <3>0. w # <<>>
      BY <3>1
    <3>2. Translate(p, Head(w)) = [prev |-> E0, key |-> 0]
      BY <3>1, OneByte DEF To
    <3>3. <<E0, Tail(w)>> \in Ahead(Break, u)
      BY <2>1, <3>1
    <3> QED BY <3>0, <3>2, <3>3, MovesOn
  <2>4. CASE p = E0 /\ w = <<70, E0, 198>>
    <3>1. w # <<>> /\ Head(w) = 70 /\ Tail(w) = <<E0, 198>>
      BY <2>4
    <3>0. w # <<>>
      BY <3>1
    <3>2. Translate(p, Head(w)) = [prev |-> 0, key |-> Break]
      BY <2>4, <3>1, OneByte DEF To
    <3>3. <<0, Tail(w)>> \in After(Break, u)
      BY <2>2, <3>1
    <3>4. Head(w) >= 128 <=> u = 128
      BY <1>1, <3>1
    <3> QED BY <3>0, <3>2, <3>3, <3>4, MovesOver
  <2> QED BY <1>1, <2>1, <2>3, <2>4
<1>2. CASE u = 128
  <2>1. Ahead(Break, u) = {<<0, <<E0, 198>>>>, <<E0, <<198>>>>}
    BY <1>2, PauseAlone DEF Ahead
  <2>2. After(Break, u) = Done
    BY <1>2, PauseAlone DEF After
  <2>3. CASE p = 0 /\ w = <<E0, 198>>
    <3>1. w # <<>> /\ Head(w) = E0 /\ Tail(w) = <<198>>
      BY <2>3
    <3>0. w # <<>>
      BY <3>1
    <3>2. Translate(p, Head(w)) = [prev |-> E0, key |-> 0]
      BY <3>1, OneByte DEF To
    <3>3. <<E0, Tail(w)>> \in Ahead(Break, u)
      BY <2>1, <3>1
    <3> QED BY <3>0, <3>2, <3>3, MovesOn
  <2>4. CASE p = E0 /\ w = <<198>>
    <3>1. w # <<>> /\ Head(w) = 198 /\ Tail(w) = <<>>
      BY <2>4
    <3>0. w # <<>>
      BY <3>1
    <3>2. Translate(p, Head(w)) = [prev |-> 0, key |-> Break]
      BY <2>4, <3>1, OneByte DEF To
    <3>3. <<0, Tail(w)>> \in After(Break, u)
      BY <2>2, <3>1 DEF Done
    <3>4. Head(w) >= 128 <=> u = 128
      BY <1>2, <3>1
    <3> QED BY <3>0, <3>2, <3>3, <3>4, MovesOver
  <2> QED BY <1>2, <2>1, <2>3, <2>4
<1> QED BY <1>1, <1>2

LEMMA NextOfSingle ==
  ASSUME NEW k \in 1 .. 88, NEW u \in {0, 128}, NEW p, NEW w, <<p, w>> \in Ahead(k, u)
  PROVE  Moves(k, u, p, w)
<1>1. k \notin Momentary
  BY BreakCode DEF Momentary, Pause
<1>2. Ahead(k, u) = {<<0, <<k + u>>>>} /\ After(k, u) = Done
  BY <1>1 DEF Ahead, After, Momentary, SC_LIM
<1>3. p = 0 /\ w = <<k + u>>
  BY <1>2
<1>4. w # <<>> /\ Head(w) = k + u /\ Tail(w) = <<>>
  BY <1>3
<1>5. Translate(p, Head(w)) = To(0, k)
  BY <1>3, <1>4, OneByte
<1>6. Head(w) >= 128 <=> u = 128
  BY <1>4
<1> QED BY <1>2, <1>4, <1>5, <1>6 DEF Moves, To, Done

LEMMA NextOfPrefixed ==
  ASSUME NEW k, Prefixed(k), NEW u \in {0, 128}, NEW p, NEW w, <<p, w>> \in Ahead(k, u)
  PROVE  Moves(k, u, p, w)
<1> DEFINE b == CodeOf[k] + u
<1>1. k \in 96 .. 127 /\ k \notin Momentary /\ k \notin 1 .. SC_LIM - 1
  BY DEF Prefixed, Momentary, SC_LIM
<1>2. Ahead(k, u) = {<<0, <<E0, b>>>>, <<E0, <<b>>>>, <<0, <<E0, b, E0, 170>>>>,
                     <<E0, <<b, E0, 170>>>>, <<0, <<E0, 42, E0, b>>>>, <<E0, <<42, E0, b>>>>}
  BY <1>1 DEF Ahead, Momentary
<1>3. After(k, u) = Done
  BY <1>1 DEF After
<1>4. /\ CodeOf[k] \in (0 .. 127) \ (Shifts \cup {E0 - 128, E1 - 128})
      /\ e0_keys[CodeOf[k]] = k /\ k # 0
  BY <1>1 DEF Prefixed
<1>5. Translate(E0, b) = To(0, k) /\ (b >= 128 <=> u = 128)
  BY <1>4, OneByte
<1>6. \A x : Translate(x, E0) = To(E0, 0)
  BY OneByte
<1>7. Translate(E0, 42) = To(0, 0)
  BY OneByte
<1> HIDE DEF b
<1>8. CASE p = 0 /\ w = <<E0, b>>
  <2>1. w # <<>> /\ Head(w) = E0 /\ Tail(w) = <<b>>
    BY <1>8
  <2> QED BY <1>2, <1>6, <2>1 DEF Moves, To
<1>9. CASE p = E0 /\ w = <<b>>
  <2>1. w # <<>> /\ Head(w) = b /\ Tail(w) = <<>>
    BY <1>9
  <2> QED BY <1>3, <1>5, <1>9, <2>1 DEF Moves, To, Done
<1>10. CASE p = 0 /\ w = <<E0, b, E0, 170>>
  <2>1. w # <<>> /\ Head(w) = E0 /\ Tail(w) = <<b, E0, 170>>
    BY <1>10
  <2> QED BY <1>2, <1>6, <2>1 DEF Moves, To
<1>11. CASE p = E0 /\ w = <<b, E0, 170>>
  <2>1. w # <<>> /\ Head(w) = b /\ Tail(w) = <<E0, 170>>
    BY <1>11
  <2> QED BY <1>3, <1>5, <1>11, <2>1 DEF Moves, To, Done
<1>12. CASE p = 0 /\ w = <<E0, 42, E0, b>>
  <2>1. w # <<>> /\ Head(w) = E0 /\ Tail(w) = <<42, E0, b>>
    BY <1>12
  <2> QED BY <1>2, <1>6, <2>1 DEF Moves, To
<1>13. CASE p = E0 /\ w = <<42, E0, b>>
  <2>1. w # <<>> /\ Head(w) = 42 /\ Tail(w) = <<E0, b>>
    BY <1>13
  <2> QED BY <1>2, <1>7, <1>13, <2>1 DEF Moves, To
<1> QED BY <1>2, <1>8, <1>9, <1>10, <1>11, <1>12, <1>13

LEMMA NextByte ==
  ASSUME NEW k \in KeyCodes, NEW u \in {0, 128}, NEW p, NEW w, <<p, w>> \in Ahead(k, u)
  PROVE  Moves(k, u, p, w)
<1>1. CASE k = Break
  BY <1>1, NextOfBreak
<1>2. CASE k = Pause
  BY <1>2, NextOfPause
<1>3. CASE k \in 1 .. 88
  BY <1>3, NextOfSingle
<1>4. CASE Prefixed(k)
  BY <1>4, NextOfPrefixed
<1> QED BY <1>1, <1>2, <1>3, <1>4, KindsOfKeys DEF KeyCodes

LEMMA NextOfDone ==
  ASSUME NEW p, NEW w, <<p, w>> \in Done, w # <<>>
  PROVE  LET r == Translate(p, Head(w))
         IN  r.key = 0 /\ <<r.prev, Tail(w)>> \in Done
<1>1. CASE p = 0 /\ w = <<E0, 170>>
  <2>1. Head(w) = E0 /\ Tail(w) = <<170>>
    BY <1>1
  <2>2. Translate(p, Head(w)) = [prev |-> E0, key |-> 0]
    BY <2>1, OneByte DEF To
  <2> QED BY <2>1, <2>2 DEF Done
<1>2. CASE p = E0 /\ w = <<170>>
  <2>1. Head(w) = 170 /\ Tail(w) = <<>>
    BY <1>2
  <2>2. Translate(p, Head(w)) = [prev |-> 0, key |-> 0]
    BY <1>2, <2>1, OneByte DEF To
  <2> QED BY <2>1, <2>2 DEF Done
<1> QED BY <1>1, <1>2 DEF Done
-------------------------------------------------------------------------------
(* The counters. *)

LEMMA CountFacts ==
  ASSUME NEW down, NEW m
  PROVE  /\ Count(down, m) \in Nat
         /\ Count(down, m) > 0 <=> m \in ModifiersOf(down)
         /\ \A k : Count(down \cup {k}, m) =
                     IF k \in ModifierKeys \ down /\ ModifierOf[k] = m
                       THEN Count(down, m) + 1 ELSE Count(down, m)
         /\ \A k : Count(down \ {k}, m) =
                     IF k \in ModifierKeys \cap down /\ ModifierOf[k] = m
                       THEN Count(down, m) - 1 ELSE Count(down, m)
<1> DEFINE Of(d) == {k \in d \cap ModifierKeys : ModifierOf[k] = m}
<1>1. \A d : IsFiniteSet(Of(d))
  <2>1. IsFiniteSet(1 .. 127)
    <3>1. 1 \in Int /\ 127 \in Int
      OBVIOUS
    <3> QED BY <3>1, FS_Interval
  <2>2. \A d : Of(d) \in SUBSET (1 .. 127)
    BY DEF ModifierKeys
  <2> QED BY <2>1, <2>2, FS_Subset
<1>2. \A d : Count(d, m) = Cardinality(Of(d))
  BY DEF Count
<1>3. Count(down, m) \in Nat
  <2>1. IsFiniteSet(Of(down)) /\ Count(down, m) = Cardinality(Of(down))
    BY <1>1, <1>2
  <2> HIDE DEF Of
  <2> QED BY <2>1, FS_CardinalityType
<1>4. Count(down, m) > 0 <=> m \in ModifiersOf(down)
  <2>1. Count(down, m) = 0 <=> Of(down) = {}
    BY <1>1, <1>2, FS_EmptySet
  <2>2. m \in ModifiersOf(down) <=> Of(down) # {}
    BY DEF ModifiersOf
  <2> QED BY <1>3, <2>1, <2>2
<1>5. ASSUME NEW k
      PROVE  Count(down \cup {k}, m) =
               IF k \in ModifierKeys \ down /\ ModifierOf[k] = m
                 THEN Count(down, m) + 1 ELSE Count(down, m)
  <2>1. CASE k \in ModifierKeys /\ ModifierOf[k] = m
    <3>1. Of(down \cup {k}) = Of(down) \cup {k} /\ (k \in Of(down) <=> k \in down)
      BY <2>1
    <3>2. Cardinality(Of(down) \cup {k}) =
            IF k \in Of(down) THEN Cardinality(Of(down)) ELSE Cardinality(Of(down)) + 1
      BY <1>1, FS_AddElement
    <3> QED BY <1>2, <2>1, <3>1, <3>2
  <2>2. CASE ~(k \in ModifierKeys /\ ModifierOf[k] = m)
    <3>1. Of(down \cup {k}) = Of(down)
      BY <2>2
    <3> QED BY <1>2, <2>2, <3>1
  <2> QED BY <2>1, <2>2
<1>6. ASSUME NEW k
      PROVE  Count(down \ {k}, m) =
               IF k \in ModifierKeys \cap down /\ ModifierOf[k] = m
                 THEN Count(down, m) - 1 ELSE Count(down, m)
  <2>1. CASE k \in ModifierKeys /\ ModifierOf[k] = m
    <3>1. Of(down \ {k}) = Of(down) \ {k} /\ (k \in Of(down) <=> k \in down)
      BY <2>1
    <3>2. Cardinality(Of(down) \ {k}) =
            IF k \in Of(down) THEN Cardinality(Of(down)) - 1 ELSE Cardinality(Of(down))
      BY <1>1, FS_RemoveElement
    <3> QED BY <1>2, <2>1, <3>1, <3>2
  <2>2. CASE ~(k \in ModifierKeys /\ ModifierOf[k] = m)
    <3>1. Of(down \ {k}) = Of(down)
      BY <2>2
    <3> QED BY <1>2, <2>2, <3>1
  <2> QED BY <2>1, <2>2
<1> QED BY <1>3, <1>4, <1>5, <1>6

LEMMA ModifiersOfType ==
  ASSUME NEW keys
  PROVE  ModifiersOf(keys) \subseteq Modifiers
BY ModifierOfType DEF ModifiersOf

LEMMA Columns ==
  ASSUME NEW mods, mods \subseteq Modifiers, Column(mods) # 0
  PROVE  Column(mods) \in 1 .. 7
BY DEF Column

LEMMA SingleColumns ==
  /\ Column({}) = 1
  /\ \A m \in Modifiers : Column({m}) # 0
BY DEF Column, Modifiers
-------------------------------------------------------------------------------
(***************************************************************************)
(* What the driver knows, from what the keyboard has sent.                 *)
(***************************************************************************)
KnownKeys == key_down \subseteq 1 .. 127

LEMMA KeysDown ==
  ASSUME UserTypes, WireInv
  PROVE  KnownKeys
<1>1. Keys \subseteq 1 .. 127 /\ Break \in 1 .. 127
  BY KeyboardConstants, BreakCode
<1>2. Believed \subseteq 1 .. 127
  BY <1>1 DEF UserTypes, Believed
<1>3. KeyCodes \subseteq 1 .. 127
  BY <1>1 DEF KeyCodes
<1> QED BY <1>2, <1>3 DEF WireInv, Settled, DuePress, DueRelease, KnownKeys

-------------------------------------------------------------------------------
(* The two ways of updating the counters agree. *)

LEMMA CountsRecomputed ==
  ASSUME NEW d
  PROVE  Counts([m \in Modifiers |-> Count(d, m)], {m \in Modifiers : Count(d, m) > 0}, d)
<1>1. \A m : Count(d, m) \in Nat /\ (Count(d, m) > 0 <=> m \in ModifiersOf(d))
  BY CountFacts
<1>2. ModifiersOf(d) \subseteq Modifiers
  BY ModifiersOfType
<1> QED BY <1>1, <1>2 DEF Counts

LEMMA CountsUntouched ==
  ASSUME NEW kd, NEW ss, NEW d, Counts(kd, ss, d), NEW k, k \notin ModifierKeys
  PROVE  Counts(kd, ss, d \cup {k}) /\ Counts(kd, ss, d \ {k})
<1>1. \A m : Count(d \cup {k}, m) = Count(d, m) /\ Count(d \ {k}, m) = Count(d, m)
  BY CountFacts
<1>2. ModifiersOf(d \cup {k}) = ModifiersOf(d) /\ ModifiersOf(d \ {k}) = ModifiersOf(d)
  BY DEF ModifiersOf
<1> QED BY <1>1, <1>2 DEF Counts

LEMMA CountsRepeated ==
  ASSUME NEW kd, NEW ss, NEW d, Counts(kd, ss, d), NEW k \in d, NEW m \in Modifiers
  PROVE  Counts([kd EXCEPT ![m] = kd[m]], ss, d \cup {k})
<1>1. d \cup {k} = d
  OBVIOUS
<1>2. kd \in [Modifiers -> Nat]
  BY DEF Counts
<1>3. [kd EXCEPT ![m] = kd[m]] = kd
  BY <1>2
<1> QED BY <1>1, <1>3

LEMMA CountsPressed ==
  ASSUME NEW kd, NEW ss, NEW d, Counts(kd, ss, d), NEW k \in ModifierKeys \ d
  PROVE  LET m == ModifierOf[k]
         IN  kd[m] + 1 > 0 /\ Counts([kd EXCEPT ![m] = kd[m] + 1], ss \cup {m}, d \cup {k})
<1> DEFINE m == ModifierOf[k]
           t == [kd EXCEPT ![m] = kd[m] + 1]
<1>1. m \in Modifiers
  BY ModifierOfType
<1>2. kd \in [Modifiers -> Nat] /\ (\A x \in Modifiers : kd[x] = Count(d, x)) /\ ss = ModifiersOf(d)
  BY DEF Counts
<1>3. \A x : Count(d \cup {k}, x) = IF x = m THEN Count(d, x) + 1 ELSE Count(d, x)
  BY CountFacts
<1>4. ModifiersOf(d \cup {k}) = ModifiersOf(d) \cup {m}
  BY DEF ModifiersOf
<1>5. t \in [Modifiers -> Nat] /\ \A x \in Modifiers : t[x] = IF x = m THEN kd[x] + 1 ELSE kd[x]
  BY <1>1, <1>2
<1>6. \A x \in Modifiers : t[x] = Count(d \cup {k}, x)
  BY <1>2, <1>3, <1>5
<1>7. kd[m] + 1 > 0
  BY <1>1, <1>2
<1> QED BY <1>2, <1>4, <1>5, <1>6, <1>7 DEF Counts

LEMMA CountsReleased ==
  ASSUME NEW kd, NEW ss, NEW d, Counts(kd, ss, d), NEW k \in ModifierKeys \cap d
  PROVE  LET m == ModifierOf[k]
             n == kd[m] - 1
         IN  kd[m] > 0 /\ Counts([kd EXCEPT ![m] = n], IF n > 0 THEN ss \cup {m} ELSE ss \ {m}, d \ {k})
<1> DEFINE m == ModifierOf[k]
           n == kd[m] - 1
           t == [kd EXCEPT ![m] = n]
           e == d \ {k}
<1>1. m \in Modifiers
  BY ModifierOfType
<1>2. kd \in [Modifiers -> Nat] /\ (\A x \in Modifiers : kd[x] = Count(d, x)) /\ ss = ModifiersOf(d)
  BY DEF Counts
<1>3. \A x : Count(e, x) = IF x = m THEN Count(d, x) - 1 ELSE Count(d, x)
  BY CountFacts
<1>4. m \in ss
  BY <1>2 DEF ModifiersOf
<1>5. kd[m] > 0
  BY <1>1, <1>2, <1>4, CountFacts
<1>6. t \in [Modifiers -> Nat] /\ \A x \in Modifiers : t[x] = IF x = m THEN kd[x] - 1 ELSE kd[x]
  BY <1>1, <1>2, <1>5
<1>7. \A x \in Modifiers : t[x] = Count(e, x)
  BY <1>2, <1>3, <1>6
<1>8. Count(e, m) = n
  BY <1>1, <1>2, <1>3
<1>9. n > 0 <=> m \in ModifiersOf(e)
  BY <1>8, CountFacts
<1>10. ModifiersOf(e) \ {m} = ss \ {m}
  BY <1>2 DEF ModifiersOf
<1>11. ModifiersOf(e) = IF n > 0 THEN ss \cup {m} ELSE ss \ {m}
  BY <1>9, <1>10
<1> HIDE DEF e, t, n
<1>12. Counts(t, IF n > 0 THEN ss \cup {m} ELSE ss \ {m}, e)
  BY <1>6, <1>7, <1>11 DEF Counts
<1> QED BY <1>5, <1>12 DEF e, t, n
-------------------------------------------------------------------------------
(* The byte at hand. *)
Left == <<Code.prev, Tail(wire)>>

Between == \/ Left \in Done /\ Settled
           \/ \E k \in KeyCodes : Left \in Ahead(k, 0) /\ DuePress(k)
           \/ \E k \in KeyCodes : Left \in Ahead(k, 128) /\ DueRelease(k)

PressAtHand == Code.key \in KeyCodes /\ ~Released /\ DuePress(Code.key) /\ Left \in After(Code.key, 0)

ReleaseAtHand == Code.key \in KeyCodes /\ Released /\ DueRelease(Code.key) /\ Left \in Done

LEMMA ByteAtHand ==
  ASSUME WireInv, wire # <<>>
  PROVE  (Code.key = 0 /\ Between) \/ PressAtHand \/ ReleaseAtHand
<1> DEFINE r == Translate(prev_scancode, Head(wire))
<1>1. Code = r
  BY DEF Code, Byte
<1>2. CASE Here \in Done /\ Settled
  <2>1. r.key = 0 /\ <<r.prev, Tail(wire)>> \in Done
    BY <1>2, NextOfDone DEF Here
  <2> QED BY <1>1, <1>2, <2>1 DEF Between, Left
<1>3. ASSUME NEW k \in KeyCodes, Here \in Ahead(k, 0), DuePress(k)
      PROVE  (Code.key = 0 /\ Between) \/ PressAtHand
  <2>1. Moves(k, 0, prev_scancode, wire)
    BY <1>3, NextByte DEF Here
  <2>2. \/ Code.key = 0 /\ Left \in Ahead(k, 0)
        \/ Code.key = k /\ ~Released /\ Left \in After(k, 0)
    BY <1>1, <2>1 DEF Moves, Left, Released, Byte
  <2> QED BY <1>3, <2>2 DEF Between, PressAtHand
<1>4. ASSUME NEW k \in KeyCodes, Here \in Ahead(k, 128), DueRelease(k)
      PROVE  (Code.key = 0 /\ Between) \/ ReleaseAtHand
  <2>1. Moves(k, 128, prev_scancode, wire)
    BY <1>4, NextByte DEF Here
  <2>2. \/ Code.key = 0 /\ Left \in Ahead(k, 128)
        \/ Code.key = k /\ Released /\ Left \in After(k, 128)
    BY <1>1, <2>1 DEF Moves, Left, Released, Byte
  <2>3. After(k, 128) = Done
    BY DEF After
  <2> QED BY <1>4, <2>2, <2>3 DEF Between, ReleaseAtHand
<1> QED BY <1>2, <1>3, <1>4 DEF WireInv

(* What the driver makes of it. *)
Decoded ==
  /\ UNCHANGED user
  /\ prev_scancode' = Code.prev /\ wire' = Tail(wire)
  /\ key_down' = IF Code.key = 0 THEN key_down ELSE Tracked
  /\ ModifiersCount'
  /\ ledflagstate' = IF Code.key # 0 /\ ~Released THEN Switched(Code.key) ELSE ledflagstate

KeyKnown == Code.key # 0 => Code.key \in 1 .. 127 /\ (Released => Code.key \in key_down)

LEMMA KeyIsKnown ==
  ASSUME WireInv, wire # <<>>
  PROVE  KeyKnown
<1>1. KeyCodes \subseteq 1 .. 127
  BY KeyboardConstants, BreakCode DEF KeyCodes
<1> QED BY <1>1, ByteAtHand DEF KeyKnown, PressAtHand, ReleaseAtHand, DueRelease

LEMMA DecodedByNoKey ==
  ASSUME ModifiersCount, NoKey
  PROVE  Decoded
<1>1. Code.key = 0 /\ UNCHANGED <<user, key_down, k_down, shift_state, ledflagstate>>
  BY DEF NoKey, DoScancode, modifiers, user
<1>2. prev_scancode' = Code.prev /\ wire' = Tail(wire)
  BY DEF NoKey, DoScancode
<1> QED BY <1>1, <1>2 DEF Decoded, ModifiersCount

LEMMA DecodedByNoMap ==
  ASSUME ModifiersCount, KeyKnown, NoMap
  PROVE  Decoded
<1>1. Code.key # 0 /\ UNCHANGED <<user, ledflagstate>> /\ key_down' = Tracked
  BY DEF NoMap, DoScancode, user
<1>2. prev_scancode' = Code.prev /\ wire' = Tail(wire)
  BY DEF NoMap, DoScancode
<1>3. ModifiersCount'
  BY <1>1, CountsRecomputed DEF NoMap, ComputeShiftState, ModifiersCount
<1>4. Switched(Code.key) = ledflagstate
  BY DEF NoMap, Switched
<1> QED BY <1>1, <1>2, <1>3, <1>4 DEF Decoded

(* A key that is handled in a map, by its type there. *)
LEMMA Handled ==
  ASSUME ModifiersCount, KeyKnown, wire # <<>>, NEW t, NEW steps, Handle(t, steps)
  PROVE  /\ Code.key \in 1 .. 127 /\ Code.key # 0 /\ Column(shift_state) \in 1 .. 7
         /\ KeyTypes[Code.key][Column(shift_state)] = t
         /\ t = "h" <=> Code.key \in ModifierKeys
         /\ prev_scancode' = Code.prev /\ wire' = Tail(wire) /\ key_down' = Tracked
         /\ cpu = <<>> /\ cpu' = Append(steps, Tasklet)
         /\ UNCHANGED <<user, ledstate, blocked, ready, stdin, abandoned>>
         /\ Up <=> Released
<1>1. Code.key # 0 /\ Column(shift_state) # 0 /\ KeyTypes[Code.key][Column(shift_state)] = t
  BY DEF Handle
<1>2. shift_state \subseteq Modifiers
  BY ModifiersOfType DEF ModifiersCount, Counts
<1>3. Code.key \in 1 .. 127 /\ Column(shift_state) \in 1 .. 7
  BY <1>1, <1>2, Columns DEF KeyKnown
<1>4. t = "h" <=> Code.key \in ModifierKeys
  BY <1>1, <1>3, ShiftKeys
<1>5. Up <=> Released
  BY <1>1 DEF Up, KeyKnown
<1>6. DoScancode(steps) /\ key_down' = Tracked
  BY DEF Handle
<1> QED BY <1>1, <1>3, <1>4, <1>5, <1>6 DEF DoScancode, Idle, user

LEMMA TrackedCounts ==
  ASSUME ModifiersCount, Code.key \notin ModifierKeys
  PROVE  Counts(k_down, shift_state, Tracked)
BY CountsUntouched DEF ModifiersCount, Tracked

(* Only the map entries of the two lock keys change a lock. *)
LEMMA NoLockAtHand ==
  ASSUME NEW k \in 1 .. 127, Column(shift_state) \in 1 .. 7,
         KeyTypes[k][Column(shift_state)] # "s"
  PROVE  Switched(k) = ledflagstate
<1>1. k # 58
  BY LockKeys
<1>2. k = 69 => Column(shift_state) = 3
  BY LockKeys
<1> QED BY <1>1, <1>2 DEF Switched

LEMMA DecodedBySending ==
  ASSUME ModifiersCount, KeyKnown, NEW t \in {"l", "f", "m", "u", "p"}, NEW steps, Sends(t, steps)
  PROVE  Decoded
<1> DEFINE s == IF Up THEN <<>> ELSE steps
<1>1. wire # <<>> /\ Handle(t, s) /\ UNCHANGED <<modifiers, ledflagstate>>
  BY DEF Sends
<1>2. /\ Code.key \in 1 .. 127 /\ Code.key # 0 /\ Column(shift_state) \in 1 .. 7
      /\ KeyTypes[Code.key][Column(shift_state)] = t
      /\ t = "h" <=> Code.key \in ModifierKeys
      /\ prev_scancode' = Code.prev /\ wire' = Tail(wire) /\ key_down' = Tracked
      /\ UNCHANGED user
  BY <1>1, Handled
<1>3. Switched(Code.key) = ledflagstate
  BY <1>2, NoLockAtHand
<1>4. Counts(k_down, shift_state, Tracked)
  BY <1>2, TrackedCounts
<1>5. ModifiersCount'
  BY <1>1, <1>2, <1>4 DEF ModifiersCount, modifiers
<1> QED BY <1>1, <1>2, <1>3, <1>5 DEF Decoded

LEMMA DecodedByAscii ==
  ASSUME ModifiersCount, KeyKnown, DoAscii
  PROVE  Decoded
<1>1. wire # <<>> /\ Handle("a", <<>>) /\ UNCHANGED <<k_down, shift_state, ledflagstate>>
  BY DEF DoAscii
<1>2. /\ Code.key \in 1 .. 127 /\ Code.key # 0 /\ Column(shift_state) \in 1 .. 7
      /\ KeyTypes[Code.key][Column(shift_state)] = "a"
      /\ "a" = "h" <=> Code.key \in ModifierKeys
      /\ prev_scancode' = Code.prev /\ wire' = Tail(wire) /\ key_down' = Tracked
      /\ UNCHANGED user
  BY <1>1, Handled
<1>3. Switched(Code.key) = ledflagstate
  BY <1>2, NoLockAtHand
<1>4. Counts(k_down, shift_state, Tracked)
  BY <1>2, TrackedCounts
<1>5. ModifiersCount'
  BY <1>1, <1>2, <1>4 DEF ModifiersCount
<1> QED BY <1>1, <1>2, <1>3, <1>5 DEF Decoded

LEMMA DecodedBySpec ==
  ASSUME ModifiersCount, KeyKnown, DoSpec
  PROVE  Decoded
<1> DEFINE fn == IF Up THEN "ignored" ELSE Special(Code.key, Column(shift_state))
           s == IF fn = "enter" THEN <<Put(1)>> ELSE <<>>
<1>1. /\ wire # <<>> /\ Handle("s", s)
      /\ ledflagstate' = IF rep THEN ledflagstate ELSE Flagged(fn)
      /\ IF fn = "null" THEN ComputeShiftState(Tracked) ELSE UNCHANGED modifiers
  BY DEF DoSpec
<1>2. /\ Code.key \in 1 .. 127 /\ Code.key # 0 /\ Column(shift_state) \in 1 .. 7
      /\ KeyTypes[Code.key][Column(shift_state)] = "s"
      /\ "s" = "h" <=> Code.key \in ModifierKeys
      /\ prev_scancode' = Code.prev /\ wire' = Tail(wire) /\ key_down' = Tracked
      /\ UNCHANGED user
      /\ Up <=> Released
  BY <1>1, Handled
<1> HIDE DEF s
<1>3. ModifiersCount'
  <2>1. CASE fn = "null"
    BY <1>1, <1>2, <2>1, CountsRecomputed DEF ComputeShiftState, ModifiersCount
  <2>2. CASE fn # "null"
    <3>1. Counts(k_down, shift_state, Tracked)
      BY <1>2, TrackedCounts
    <3>2. k_down' = k_down /\ shift_state' = shift_state
      BY <1>1, <2>2 DEF modifiers
    <3> QED BY <1>2, <3>1, <3>2 DEF ModifiersCount
  <2> QED BY <2>1, <2>2
<1>4. CASE Released
  <2>1. fn = "ignored"
    BY <1>2, <1>4
  <2>2. ledflagstate' = ledflagstate
    BY <1>1, <2>1 DEF Flagged
  <2> QED BY <1>2, <1>3, <1>4, <2>2 DEF Decoded
<1>5. CASE ~Released
  <2>1. fn = Special(Code.key, Column(shift_state))
    BY <1>2, <1>5
  <2>2. /\ fn = "caps_toggle" <=> Code.key = 58
        /\ fn = "num" <=> Code.key = 69
        /\ Code.key = 69 => Column(shift_state) # 3
    <3> DEFINE k == Code.key
               c == Column(shift_state)
    <3>1. k \in 1 .. 127 /\ c \in 1 .. 7 /\ KeyTypes[k][c] = "s"
      BY <1>2
    <3> HIDE DEF k, c
    <3>2. /\ Special(k, c) = "caps_toggle" <=> k = 58
          /\ Special(k, c) = "num" <=> k = 69
          /\ k = 69 => c # 3
      BY <3>1, LockKeys
    <3> QED BY <2>1, <3>2 DEF k, c
  <2> HIDE DEF fn
  <2>3. ledflagstate' = Switched(Code.key)
    <3>1. CASE rep
      BY <1>1, <3>1 DEF rep, Switched
    <3>2. CASE ~rep
      <4>1. Code.key \notin key_down /\ Column(shift_state) # 0
        BY <1>2, <1>5, <3>2 DEF rep
      <4> QED BY <1>1, <2>2, <3>2, <4>1 DEF Flagged, Switched
    <3> QED BY <3>1, <3>2
  <2> QED BY <1>2, <1>3, <1>5, <2>3 DEF Decoded
<1> QED BY <1>4, <1>5

LEMMA DecodedByShift ==
  ASSUME ModifiersCount, KeyKnown, DoShift
  PROVE  Decoded
<1> DEFINE m == ModifierOf[Code.key]
           n == IF rep THEN k_down[m] ELSE Counted(m)
           state == IF rep THEN shift_state
                    ELSE IF n > 0 THEN shift_state \cup {m} ELSE shift_state \ {m}
           s == IF EndsNumber(m, state) /\ npadch # None
                  THEN <<Put(IF npadch % CharValues = 0 THEN 0 ELSE 1), ForgetNumber>> ELSE <<>>
<1>1. /\ wire # <<>> /\ Handle("h", s) /\ Code.key \in ModifierKeys
      /\ k_down' = [k_down EXCEPT ![m] = n] /\ shift_state' = state
      /\ ledflagstate' = ledflagstate
  BY DEF DoShift
<1>2. /\ Code.key \in 1 .. 127 /\ Code.key # 0 /\ Column(shift_state) \in 1 .. 7
      /\ KeyTypes[Code.key][Column(shift_state)] = "h"
      /\ prev_scancode' = Code.prev /\ wire' = Tail(wire) /\ key_down' = Tracked
      /\ UNCHANGED user
      /\ Up <=> Released
  BY <1>1, Handled
<1>3. Switched(Code.key) = ledflagstate
  BY <1>2, NoLockAtHand
<1> HIDE DEF s
<1>4. m \in Modifiers /\ Counts(k_down, shift_state, key_down)
  BY <1>1, ModifierOfType DEF ModifiersCount
<1>5. Counts([k_down EXCEPT ![m] = n], state, Tracked)
  <2>1. CASE rep
    <3>1. Code.key \in key_down /\ Tracked = key_down \cup {Code.key}
      BY <2>1 DEF rep, Tracked
    <3>2. n = k_down[m] /\ state = shift_state
      BY <2>1
    <3> QED BY <1>4, <3>1, <3>2, CountsRepeated
  <2>2. CASE ~rep /\ ~Released
    <3>1. Code.key \in ModifierKeys \ key_down /\ Tracked = key_down \cup {Code.key}
      BY <1>1, <2>2 DEF rep, Tracked
    <3>2. n = k_down[m] + 1
      BY <1>2, <2>2 DEF Counted
    <3>3. k_down[m] + 1 > 0 /\ Counts([k_down EXCEPT ![m] = k_down[m] + 1], shift_state \cup {m}, Tracked)
      BY <1>4, <3>1, CountsPressed
    <3>4. state = shift_state \cup {m}
      BY <2>2, <3>2, <3>3
    <3> QED BY <3>2, <3>3, <3>4
  <2>3. CASE Released
    <3>1. Code.key \in ModifierKeys \cap key_down /\ Tracked = key_down \ {Code.key} /\ ~rep
      <4>1. Code.key \in key_down
        BY <1>2, <2>3 DEF KeyKnown
      <4> QED BY <1>1, <2>3, <4>1 DEF rep, Tracked
    <3>2. /\ k_down[m] > 0
          /\ Counts([k_down EXCEPT ![m] = k_down[m] - 1],
                    IF k_down[m] - 1 > 0 THEN shift_state \cup {m} ELSE shift_state \ {m}, Tracked)
      BY <1>4, <3>1, CountsReleased
    <3>3. n = k_down[m] - 1
      BY <1>2, <2>3, <3>1, <3>2 DEF Counted
    <3>4. state = IF k_down[m] - 1 > 0 THEN shift_state \cup {m} ELSE shift_state \ {m}
      BY <3>1, <3>3
    <3> QED BY <3>2, <3>3, <3>4
  <2> QED BY <2>1, <2>2, <2>3
<1> HIDE DEF m, n, state
<1>6. ModifiersCount'
  BY <1>1, <1>2, <1>5 DEF ModifiersCount
<1> QED BY <1>1, <1>2, <1>3, <1>6 DEF Decoded

LEMMA ByteDecoded ==
  ASSUME WireInv, ModifiersCount, HandleByte
  PROVE  Decoded /\ wire # <<>>
<1>1. wire # <<>>
  BY DEF HandleByte, NoKey, NoMap, DoSelf, DoFn, DoMeta, DoCur, DoPad, Sends, DoSpec, DoAscii, DoShift
<1>2. KeyKnown
  BY <1>1, KeyIsKnown
<1>3. CASE NoKey
  BY <1>1, <1>3, DecodedByNoKey
<1>4. CASE NoMap
  BY <1>1, <1>2, <1>4, DecodedByNoMap
<1>5. CASE DoSelf \/ DoFn \/ DoMeta \/ DoCur \/ DoPad
  BY <1>1, <1>2, <1>5, DecodedBySending DEF DoSelf, DoFn, DoMeta, DoCur, DoPad
<1>6. CASE DoSpec
  BY <1>1, <1>2, <1>6, DecodedBySpec
<1>7. CASE DoAscii
  BY <1>1, <1>2, <1>7, DecodedByAscii
<1>8. CASE DoShift
  BY <1>1, <1>2, <1>8, DecodedByShift
<1> QED BY <1>1, <1>3, <1>4, <1>5, <1>6, <1>7, <1>8 DEF HandleByte
-------------------------------------------------------------------------------
(* What the driver knows of the keys is kept by the bytes. *)

LEMMA NotMomentary ==
  ASSUME UserTypes
  PROVE  Believed \cap Momentary = {}
<1>1. Break \notin Keys
  BY KeysHaveCodes, BreakCode
<1> QED BY <1>1 DEF UserTypes, Believed, Momentary

LEMMA WireAfterByte ==
  ASSUME UserTypes, WireInv, ModifiersCount, HandleByte
  PROVE  WireInv'
<1>1. Decoded /\ wire # <<>>
  BY ByteDecoded
<1>2. Here' = Left /\ Believed' = Believed /\ locks' = locks
  BY <1>1 DEF Decoded, Here, Left, Believed, user
<1>3. CASE Code.key = 0 /\ Between
  <2>1. key_down' = key_down /\ ledflagstate' = ledflagstate
    BY <1>1, <1>3 DEF Decoded
  <2>2. shift_state' = shift_state
    BY <1>1, <2>1 DEF Decoded, ModifiersCount, Counts
  <2>3. Settled' <=> Settled
    BY <1>2, <2>1 DEF Settled
  <2>4. \A k : (DuePress(k)' <=> DuePress(k)) /\ (DueRelease(k)' <=> DueRelease(k))
    BY <1>2, <2>1, <2>2, <2>3 DEF DuePress, DueRelease, Switched
  <2> QED BY <1>2, <1>3, <2>3, <2>4 DEF Between, WireInv
<1>4. CASE PressAtHand
  <2>0. PICK k : k = Code.key
    OBVIOUS
  <2>1. k \in KeyCodes /\ ~Released /\ DuePress(k) /\ Left \in After(k, 0)
    BY <1>4, <2>0 DEF PressAtHand
  <2>2. k # 0
    <3>1. KeyCodes \subseteq 1 .. 127
      BY KeyboardConstants, BreakCode DEF KeyCodes
    <3> QED BY <2>1, <3>1
  <2>3. key_down' = key_down \cup {k} /\ ledflagstate' = Switched(k)
    BY <1>1, <2>0, <2>1, <2>2 DEF Decoded, Tracked
  <2>4. CASE k \in Momentary
    <3>1. Settled /\ Left \in Ahead(k, 128)
      BY <2>1, <2>4 DEF DuePress, After
    <3>2. k \notin key_down
      BY <2>4, <3>1, NotMomentary DEF Settled
    <3>3. k \notin {58, 69}
      BY <2>4, BreakCode DEF Momentary, Pause
    <3>4. Switched(k) = ledflagstate
      BY <3>3 DEF Switched
    <3>5. DueRelease(k)'
      BY <1>2, <2>3, <3>1, <3>2, <3>4 DEF DueRelease, Settled
    <3> QED BY <1>2, <2>1, <3>1, <3>5 DEF WireInv
  <2>5. CASE k \notin Momentary
    <3>1. Left \in Done /\ Believed = key_down \cup {k} /\ locks = Switched(k)
      BY <2>1, <2>5 DEF DuePress, After
    <3>2. Settled'
      BY <1>2, <2>3, <3>1 DEF Settled
    <3> QED BY <1>2, <3>1, <3>2 DEF WireInv
  <2> QED BY <2>4, <2>5
<1>5. CASE ReleaseAtHand
  <2>1. Code.key \in KeyCodes /\ Released /\ DueRelease(Code.key) /\ Left \in Done
    BY <1>5 DEF ReleaseAtHand
  <2>2. Code.key # 0
    <3>1. KeyCodes \subseteq 1 .. 127
      BY KeyboardConstants, BreakCode DEF KeyCodes
    <3> QED BY <2>1, <3>1
  <2>3. key_down' = key_down \ {Code.key} /\ ledflagstate' = ledflagstate
    BY <1>1, <2>1, <2>2 DEF Decoded, Tracked
  <2>4. Settled'
    BY <1>2, <2>1, <2>3 DEF DueRelease, Settled
  <2> QED BY <1>2, <2>1, <2>4 DEF WireInv
<1> QED BY <1>1, <1>3, <1>4, <1>5, ByteAtHand

(* When all bytes are handled the driver knows the keys and the locks. *)
LEMMA WhenQuiet ==
  ASSUME WireInv, wire = <<>>
  PROVE  Settled /\ prev_scancode = 0
<1>1. ASSUME NEW k \in KeyCodes, NEW u \in {0, 128}, Here \in Ahead(k, u)
      PROVE  FALSE
  <2>1. Moves(k, u, prev_scancode, wire)
    BY <1>1, NextByte DEF Here
  <2> QED BY <2>1 DEF Moves
<1>2. Here \in Done /\ Settled
  BY <1>1 DEF WireInv
<1>3. prev_scancode = 0
  BY <1>2 DEF Done, Here
<1> QED BY <1>2, <1>3

LEMMA CodesAhead ==
  ASSUME NEW k \in Keys, k # Pause, NEW up \in BOOLEAN, NEW s \in Codes(k, up)
  PROVE  <<0, s>> \in Ahead(k, IF up THEN 128 ELSE 0)
<1> DEFINE u == IF up THEN 128 ELSE 0
           b == CodeOf[k] + u
<1>1. CASE k \in 1 .. 88 /\ k \notin Extended /\ k # Break
  <2>1. s = <<k + u>>
    BY <1>1 DEF Codes
  <2>2. Ahead(k, u) = {<<0, <<k + u>>>>}
    BY <1>1 DEF Ahead, SC_LIM
  <2> QED BY <2>1, <2>2
<1>2. CASE Prefixed(k)
  <2>1. k \in Extended /\ k \in 96 .. 127 /\ k # Break
    BY <1>2 DEF Prefixed
  <2>2. s \in {<<E0, b>>, <<E0, 42, E0, b>>, <<E0, b, E0, 170>>}
    BY <2>1 DEF Codes
  <2>3. k \notin 1 .. SC_LIM - 1
    BY <2>1 DEF SC_LIM
  <2>4. Ahead(k, u) = {<<0, <<E0, b>>>>, <<E0, <<b>>>>, <<0, <<E0, b, E0, 170>>>>,
                       <<E0, <<b, E0, 170>>>>, <<0, <<E0, 42, E0, b>>>>, <<E0, <<42, E0, b>>>>}
    BY <2>1, <2>3 DEF Ahead
  <2> HIDE DEF b, u
  <2>5. <<0, s>> \in Ahead(k, u)
    BY <2>2, <2>4
  <2> QED BY <2>5 DEF u
<1> QED BY <1>1, <1>2, KindsOfKeys

LEMMA WireAfterUser ==
  ASSUME UserTypes, WireInv, ModifiersCount, NEW k \in Keys,
         Press(k) \/ Release(k) \/ LoseRelease(k)
  PROVE  UserTypes' /\ WireInv'
<1>1. wire = <<>> /\ UNCHANGED <<prev_scancode, key_down, shift_state, ledflagstate>>
  BY DEF Press, Release, LoseRelease, Quiet, driver, modifiers
<1>2. Settled /\ prev_scancode = 0
  BY <1>1, WhenQuiet
<1>3. shift_state = ModifiersOf(Believed)
  BY <1>2 DEF ModifiersCount, Counts, Settled
<1>4. CASE Press(k)
  <2>1. /\ held' = IF k = Pause THEN held ELSE held \cup {k}
        /\ lost' = lost \ {k} /\ locks' = Locked(k)
    BY <1>4 DEF Press
  <2>2. PICK s \in Codes(k, FALSE) : wire' = s
    BY <1>4 DEF Press
  <2>3. UserTypes'
    BY <2>1 DEF UserTypes
  <2>4. Locked(k) = Switched(k)
    BY <1>2, <1>3 DEF Locked, Switched, Settled
  <2>5. CASE k = Pause
    <3>1. Believed' = Believed
      BY <2>1, <2>5 DEF Believed, UserTypes
    <3>2. Locked(k) = locks
      BY <2>5 DEF Locked, Pause
    <3>3. Settled'
      BY <1>1, <1>2, <2>1, <3>1, <3>2 DEF Settled
    <3>4. CASE "CTRL" \in ModifiersOf(held)
      <4>1. wire' = <<E0, 70, E0, 198>>
        BY <2>2, <2>5, <3>4 DEF Codes
      <4>2. <<0, wire'>> \in Ahead(Break, 0)
        BY <4>1, PauseAlone DEF Ahead
      <4> QED BY <1>1, <1>2, <2>3, <3>3, <4>2 DEF WireInv, Here, DuePress, Momentary, KeyCodes
    <3>5. CASE "CTRL" \notin ModifiersOf(held)
      <4>1. wire' = <<E1, 29, 69, E1, 157, 197>>
        BY <2>2, <2>5, <3>5 DEF Codes
      <4>2. <<0, wire'>> \in Ahead(Pause, 0)
        BY <4>1, PauseAlone DEF Ahead
      <4> QED BY <1>1, <1>2, <2>3, <2>5, <3>3, <4>2 DEF WireInv, Here, DuePress, Momentary, KeyCodes
    <3> QED BY <3>4, <3>5
  <2>6. CASE k # Pause
    <3>1. <<0, wire'>> \in Ahead(k, 0)
      BY <2>2, <2>6, CodesAhead
    <3>2. Believed' = key_down \cup {k}
      BY <1>2, <2>1, <2>6 DEF Believed, Settled
    <3>3. Switched(k)' = Switched(k)
      BY <1>1 DEF Switched
    <3>4. k \notin Momentary
      BY <2>6, KeysHaveCodes, BreakCode DEF Momentary
    <3>5. DuePress(k)'
      BY <1>1, <2>1, <2>4, <3>2, <3>3, <3>4 DEF DuePress
    <3>6. Here' \in Ahead(k, 0) /\ k \in KeyCodes
      BY <1>1, <1>2, <3>1 DEF Here, KeyCodes
    <3> QED BY <2>3, <3>5, <3>6 DEF WireInv
  <2> QED BY <2>5, <2>6
<1>5. CASE Release(k)
  <2>1. k \in held /\ held' = held \ {k} /\ lost' = lost /\ locks' = locks
    BY <1>5 DEF Release
  <2>2. PICK s \in Codes(k, TRUE) : wire' = s
    BY <1>5 DEF Release
  <2>3. UserTypes' /\ k # Pause /\ k \notin lost
    BY <2>1 DEF UserTypes
  <2>4. <<0, wire'>> \in Ahead(k, 128)
    BY <2>2, <2>3, CodesAhead
  <2>5. k \in key_down /\ Believed' = key_down \ {k}
    BY <1>2, <2>1, <2>3 DEF Believed, Settled
  <2>6. DueRelease(k)'
    BY <1>1, <1>2, <2>1, <2>5 DEF DueRelease, Settled
  <2>7. Here' \in Ahead(k, 128) /\ k \in KeyCodes
    BY <1>1, <1>2, <2>4 DEF Here, KeyCodes
  <2> QED BY <2>3, <2>6, <2>7 DEF WireInv
<1>6. CASE LoseRelease(k)
  <2>1. /\ k \in held /\ held' = held \ {k} /\ lost' = lost \cup {k}
        /\ locks' = locks /\ wire' = wire
    BY <1>6 DEF LoseRelease
  <2>2. UserTypes'
    BY <2>1 DEF UserTypes
  <2>3. Believed' = Believed
    BY <2>1 DEF Believed
  <2>4. Settled'
    BY <1>1, <1>2, <2>1, <2>3 DEF Settled
  <2>5. Here' \in Done
    BY <1>1, <1>2, <2>1 DEF Here, Done
  <2> QED BY <2>2, <2>4, <2>5 DEF WireInv
<1> QED BY <1>4, <1>5, <1>6
-------------------------------------------------------------------------------
(* The handlers, and the number they have sent and not yet forgotten. *)
Steps == [op : {"put", "forget", "tasklet"}, n : Nat]

HandlerTypes == cpu \in Seq(Steps) /\ blocked \in Seq(Steps) /\ ready \in Seq(Seq(Steps))

LEMMA StepTypes ==
  /\ ForgetNumber \in Steps /\ Tasklet \in Steps /\ ForgetNumber # Tasklet
  /\ \A n \in Nat : Put(n) \in Steps
BY DEF Steps, ForgetNumber, Tasklet, Put

LEMMA ForgetsRange ==
  ASSUME NEW h \in Seq(Steps)
  PROVE  Forgets(h) <=> ForgetNumber \in Range(h)
BY DEF Forgets, Range

LEMMA NothingForgets == ~Forgets(<<>>)
BY DEF Forgets

(* What is left of a handler after a step that does not forget. *)
LEMMA TailForgets ==
  ASSUME NEW h \in Seq(Steps), h # <<>>
  PROVE  /\ Tail(h) \in Seq(Steps) /\ Head(h) \in Steps
         /\ Forgets(h) /\ Head(h) # ForgetNumber => Forgets(Tail(h))
<1>1. Tail(h) \in Seq(Steps) /\ Head(h) \in Steps
  BY HeadTailProperties
<1>2. Range(h) = Range(Tail(h)) \cup {Head(h)}
  BY RangeTail
<1> QED BY <1>1, <1>2, ForgetsRange

LEMMA RestForgets ==
  ASSUME cpu \in Seq(Steps), AtString, Head(cpu).n > 0
  PROVE  Rest \in Seq(Steps) /\ (Forgets(cpu) => Forgets(Rest))
<1>1. cpu # <<>> /\ Head(cpu).op = "put"
  BY DEF AtString
<1>2. Tail(cpu) \in Seq(Steps) /\ Head(cpu) \in Steps
  BY <1>1, TailForgets
<1>3. Head(cpu) # ForgetNumber
  BY <1>1 DEF ForgetNumber
<1>4. Forgets(cpu) => Forgets(Tail(cpu))
  BY <1>1, <1>3, TailForgets
<1>5. CASE Head(cpu).n = 1
  BY <1>2, <1>4, <1>5 DEF Rest
<1>6. CASE Head(cpu).n # 1
  <2> DEFINE e == [Head(cpu) EXCEPT !.n = @ - 1]
  <2>1. e \in Steps
    <3>1. Head(cpu).n \in Nat /\ Head(cpu).op \in {"put", "forget", "tasklet"}
      BY <1>2 DEF Steps
    <3>2. Head(cpu).n - 1 \in Nat
      BY <1>6, <3>1
    <3>3. e = [op |-> Head(cpu).op, n |-> Head(cpu).n - 1]
      BY <1>2 DEF Steps
    <3> QED BY <3>1, <3>2, <3>3 DEF Steps
  <2>2. Rest = <<e>> \o Tail(cpu)
    BY <1>6 DEF Rest
  <2> HIDE DEF e
  <2>3. Rest \in Seq(Steps) /\ Rest # <<>> /\ Tail(Rest) = Tail(cpu) /\ Head(Rest) = e
    BY <1>2, <2>1, <2>2, PushProperties
  <2>4. Range(Rest) = Range(Tail(cpu)) \cup {e}
    BY <2>3, RangeTail
  <2> QED BY <1>2, <1>4, <2>3, <2>4, ForgetsRange
<1> QED BY <1>5, <1>6
-------------------------------------------------------------------------------
(* The handler of a byte begins. *)
Began(steps) == /\ cpu = <<>> /\ cpu' = Append(steps, Tasklet)
                /\ UNCHANGED <<ledstate, blocked, ready, stdin, abandoned>>

LEMMA BeginsRight ==
  ASSUME HandlerTypes, NEW steps \in Seq(Steps), Began(steps)
  PROVE  /\ HandlerTypes' /\ (steps = <<>> => cpu' = <<Tasklet>>)
         /\ ForgetNumber \in Range(steps) => Forgets(cpu')
<1>1. cpu' \in Seq(Steps) /\ Range(cpu') = Range(steps) \cup {Tasklet}
  BY StepTypes, AppendProperties, RangeAppend DEF Began
<1>2. steps = <<>> => cpu' = <<Tasklet>>
  BY DEF Began
<1> QED BY <1>1, <1>2, ForgetsRange DEF HandlerTypes, Began

LEMMA StillPending ==
  ASSUME NumberPending, NEW steps, Began(steps), npadch' = npadch,
         shift_state' = shift_state \/ shift_state' # {} \/ (npadch # None => Forgets(cpu'))
  PROVE  NumberPending'
<1>1. ~Forgets(cpu)
  BY NothingForgets DEF Began
<1>2. UNCHANGED <<blocked, ready, abandoned>>
  BY DEF Began
<1>3. None' = None
  BY DEF None
<1> QED BY <1>1, <1>2, <1>3 DEF NumberPending, Forgets

HandlersInv == HandlerTypes /\ LightsInv /\ NumberPending

(* What an action that does not send a number has to show. *)
LEMMA HandlersBegin ==
  ASSUME HandlersInv, NEW steps \in Seq(Steps), Began(steps), npadch' = npadch,
         shift_state' = shift_state \/ shift_state' # {} \/ (npadch # None => Forgets(cpu')),
         ledflagstate' = ledflagstate \/ steps = <<>>
  PROVE  HandlersInv'
<1>1. HandlerTypes' /\ (steps = <<>> => cpu' = <<Tasklet>>)
  BY BeginsRight DEF HandlersInv
<1>2. NumberPending'
  BY StillPending DEF HandlersInv
<1>3. ledstate = ledflagstate
  BY DEF HandlersInv, LightsInv, Began
<1>4. LightsInv'
  BY <1>1, <1>3 DEF LightsInv, Began, Tasklet
<1> QED BY <1>1, <1>2, <1>4 DEF HandlersInv

LEMMA DoScancodeBegins ==
  ASSUME NEW steps, DoScancode(steps)
  PROVE  Began(steps)
BY DEF DoScancode, Began, Idle

(* Without a map there are two modifiers at least, of which a key leaves one. *)
LEMMA NoMapHoldsModifiers ==
  ASSUME ModifiersCount, Column(shift_state) = 0
  PROVE  ModifiersOf(Tracked) # {}
<1>1. shift_state = ModifiersOf(key_down) /\ shift_state \subseteq Modifiers
  BY ModifiersOfType DEF ModifiersCount, Counts
<1>2. shift_state # {}
  BY SingleColumns
<1>3. \A m \in Modifiers : shift_state # {m}
  BY SingleColumns
<1>4. PICK m \in shift_state, o \in shift_state : m # o
  BY <1>1, <1>2, <1>3
<1>5. \E x \in shift_state : x # ModifierOf[Code.key]
  BY <1>4
<1>6. PICK k \in key_down \cap ModifierKeys : ModifierOf[k] # ModifierOf[Code.key]
  BY <1>1, <1>5 DEF ModifiersOf
<1>7. k \in Tracked
  BY <1>6 DEF Tracked
<1> QED BY <1>6, <1>7 DEF ModifiersOf

LEMMA HandlersAfterSending ==
  ASSUME HandlersInv, NEW t, NEW steps \in Seq(Steps), Sends(t, steps)
  PROVE  HandlersInv'
<1> DEFINE s == IF Up THEN <<>> ELSE steps
<1>1. DoScancode(s) /\ UNCHANGED <<npadch, shift_state, ledflagstate>>
  BY DEF Sends, Handle, modifiers
<1>2. s \in Seq(Steps)
  BY EmptySeq
<1> HIDE DEF s
<1> QED BY <1>1, <1>2, DoScancodeBegins, HandlersBegin

LEMMA HandlersAfterShift ==
  ASSUME HandlersInv, ModifiersCount, KeyKnown, DoShift
  PROVE  HandlersInv'
<1> DEFINE m == ModifierOf[Code.key]
           n == IF rep THEN k_down[m] ELSE Counted(m)
           state == IF rep THEN shift_state
                    ELSE IF n > 0 THEN shift_state \cup {m} ELSE shift_state \ {m}
           put == Put(IF npadch % CharValues = 0 THEN 0 ELSE 1)
           s == IF EndsNumber(m, state) /\ npadch # None THEN <<put, ForgetNumber>> ELSE <<>>
<1>1. /\ DoScancode(s) /\ shift_state' = state
      /\ ledflagstate' = ledflagstate /\ npadch' = npadch
  BY DEF DoShift, Handle
<1>2. Code.key \in ModifierKeys /\ Handle("h", s) /\ wire # <<>>
  BY DEF DoShift
<1>3. Up <=> Released
  BY <1>2, Handled
<1>4. k_down \in [Modifiers -> Nat] /\ m \in Modifiers
  BY <1>2, ModifierOfType DEF ModifiersCount, Counts
<1>5. put \in Steps
  BY StepTypes
<1> HIDE DEF put
<1>6. <<put, ForgetNumber>> \in Seq(Steps) /\ ForgetNumber \in Range(<<put, ForgetNumber>>)
  <2>1. <<put, ForgetNumber>> = <<put>> \o <<ForgetNumber>>
    OBVIOUS
  <2>2. <<ForgetNumber>> \in Seq(Steps)
    BY StepTypes
  <2>3. <<put, ForgetNumber>> \in Seq(Steps)
    BY <1>5, <2>1, <2>2, PushProperties
  <2>4. ForgetNumber \in Range(<<put, ForgetNumber>>)
    BY DEF Range
  <2> QED BY <2>3, <2>4
<1>7. s \in Seq(Steps)
  BY <1>6, EmptySeq
<1>8. state = shift_state \/ state # {} \/ EndsNumber(m, state)
  <2>1. CASE ~rep /\ ~Up
    <3>1. n > 0
      BY <1>4, <2>1 DEF Counted
    <3> QED BY <2>1, <3>1
  <2>2. CASE rep \/ Up
    BY <2>2 DEF EndsNumber
  <2> QED BY <2>1, <2>2
<1>9. Began(s)
  BY <1>1, DoScancodeBegins
<1>10. npadch # None /\ EndsNumber(m, state) => ForgetNumber \in Range(s)
  BY <1>6
<1> HIDE DEF s, state
<1>11. ForgetNumber \in Range(s) => Forgets(cpu')
  BY <1>7, <1>9, BeginsRight DEF HandlersInv
<1> QED BY <1>1, <1>7, <1>8, <1>9, <1>10, <1>11, HandlersBegin

LEMMA HandlersAfterByte ==
  ASSUME HandlersInv, WireInv, ModifiersCount, HandleByte
  PROVE  HandlersInv'
<1>0. wire # <<>> /\ KeyKnown /\ Decoded
  BY ByteDecoded, KeyIsKnown
<1>1. {<<>>, <<Put(0)>>, <<Put(1)>>, <<Put(StringLength)>>, <<Put(1), Put(1)>>} \subseteq Seq(Steps)
  <2>1. StringLength \in Nat
    BY KeyboardConstants
  <2>2. Put(0) \in Steps /\ Put(1) \in Steps /\ Put(StringLength) \in Steps
    BY <2>1, StepTypes
  <2>3. <<Put(1), Put(1)>> = <<Put(1)>> \o <<Put(1)>>
    OBVIOUS
  <2>4. <<Put(1)>> \in Seq(Steps)
    BY <2>2
  <2>5. <<Put(1), Put(1)>> \in Seq(Steps)
    BY <2>2, <2>3, <2>4, PushProperties
  <2> QED BY <2>2, <2>4, <2>5, EmptySeq
<1>2. CASE NoKey
  <2>1. Began(<<>>) /\ UNCHANGED <<npadch, shift_state, ledflagstate>>
    BY <1>2, DoScancodeBegins DEF NoKey, modifiers
  <2> QED BY <1>1, <2>1, HandlersBegin
<1>3. CASE NoMap
  <2>1. Began(<<>>) /\ npadch' = npadch
    BY <1>3, DoScancodeBegins DEF NoMap, ComputeShiftState
  <2>2. shift_state' = ModifiersOf(Tracked)
    BY <1>0, <1>3 DEF NoMap, Decoded, ModifiersCount, Counts
  <2>3. shift_state' # {}
    BY <1>3, <2>2, NoMapHoldsModifiers DEF NoMap
  <2> QED BY <1>1, <2>1, <2>3, HandlersBegin
<1>4. CASE DoSelf
  <2> DEFINE s == <<Put(IF Column(shift_state) = 4 /\ Code.key \in NulKeys THEN 0 ELSE 1)>>
  <2>1. s \in Seq(Steps) /\ Sends("l", s)
    BY <1>1, <1>4 DEF DoSelf
  <2> HIDE DEF s
  <2> QED BY <2>1, HandlersAfterSending
<1>5. CASE DoFn
  <2> DEFINE s == IF HasString(Code.key, Column(shift_state)) THEN <<Put(StringLength)>> ELSE <<>>
  <2>1. s \in Seq(Steps) /\ Sends("f", s)
    BY <1>1, <1>5 DEF DoFn
  <2> HIDE DEF s
  <2> QED BY <2>1, HandlersAfterSending
<1>6. CASE DoMeta \/ DoCur
  BY <1>1, <1>6, HandlersAfterSending DEF DoMeta, DoCur
<1>7. CASE DoPad
  <2> DEFINE s == <<Put(IF "NUM" \notin ledflagstate /\ Code.key \in PadStrings
                          THEN StringLength ELSE 1)>>
  <2>1. s \in Seq(Steps) /\ Sends("p", s)
    BY <1>1, <1>7 DEF DoPad
  <2> HIDE DEF s
  <2> QED BY <2>1, HandlersAfterSending
<1>8. CASE DoSpec
  <2> DEFINE fn == IF Up THEN "ignored" ELSE Special(Code.key, Column(shift_state))
             s == IF fn = "enter" THEN <<Put(1)>> ELSE <<>>
  <2>1. /\ Handle("s", s) /\ ledflagstate' = IF rep THEN ledflagstate ELSE Flagged(fn)
        /\ IF fn = "null" THEN ComputeShiftState(Tracked) ELSE UNCHANGED modifiers
    BY <1>8 DEF DoSpec
  <2>2. Began(s)
    BY <2>1, DoScancodeBegins DEF Handle
  <2>3. npadch' = npadch
    BY <2>1 DEF ComputeShiftState, modifiers
  <2>4. Code.key \notin ModifierKeys /\ key_down' = Tracked
    BY <1>0, <2>1, Handled
  <2>5. shift_state' = shift_state
    <3>1. Counts(k_down, shift_state, Tracked)
      BY <2>4, TrackedCounts
    <3> QED BY <1>0, <2>4, <3>1 DEF Decoded, ModifiersCount, Counts
  <2>6. s \in Seq(Steps) /\ (ledflagstate' = ledflagstate \/ s = <<>>)
    <3>1. s \in Seq(Steps)
      BY <1>1
    <3>2. CASE fn = "enter"
      BY <2>1, <3>1, <3>2 DEF Flagged
    <3>3. CASE fn # "enter"
      BY <3>1, <3>3
    <3> QED BY <3>2, <3>3
  <2> HIDE DEF s
  <2> QED BY <2>2, <2>3, <2>5, <2>6, HandlersBegin
<1>9. CASE DoAscii
  <2>1. Handle("a", <<>>) /\ UNCHANGED <<shift_state, ledflagstate>>
    BY <1>9 DEF DoAscii
  <2>2. Began(<<>>)
    BY <2>1, DoScancodeBegins DEF Handle
  <2>3. Code.key \in 1 .. 127 /\ KeyTypes[Code.key][Column(shift_state)] = "a"
    BY <1>0, <2>1, Handled
  <2>4. shift_state # {}
    BY <2>3, DigitKeys, SingleColumns
  <2>5. HandlerTypes' /\ cpu' = <<Tasklet>>
    BY <1>1, <2>2, BeginsRight DEF HandlersInv
  <2>6. NumberPending'
    BY <2>1, <2>4 DEF NumberPending
  <2>7. LightsInv'
    BY <2>5 DEF LightsInv, Tasklet
  <2> QED BY <2>5, <2>6, <2>7 DEF HandlersInv
<1>10. CASE DoShift
  BY <1>0, <1>10, HandlersAfterShift
<1> QED BY <1>2, <1>3, <1>4, <1>5, <1>6, <1>7, <1>8, <1>9, <1>10 DEF HandleByte
-------------------------------------------------------------------------------
(* The steps of the handlers. *)

LEMMA HandlersAfterPut ==
  ASSUME HandlersInv, KeyboardData
  PROVE  HandlersInv'
<1>1. /\ AtString /\ UNCHANGED <<ledstate, ledflagstate, shift_state, npadch, abandoned>>
      /\ cpu \in Seq(Steps)
  BY DEF KeyboardData, PutNothing, PutDropped, PutBlocks, PutStored, unsent, modifiers,
         HandlersInv, HandlerTypes
<1>2. cpu # <<>> /\ Head(cpu) # ForgetNumber
  BY <1>1 DEF AtString, ForgetNumber
<1>3. Tail(cpu) \in Seq(Steps) /\ (Forgets(cpu) => Forgets(Tail(cpu)))
  BY <1>1, <1>2, TailForgets
<1>4. Head(cpu).n > 0 => Rest \in Seq(Steps) /\ (Forgets(cpu) => Forgets(Rest))
  BY <1>1, RestForgets
<1>5. LightsInv'
  <2>1. cpu # <<Tasklet>>
    BY <1>1 DEF AtString, Tasklet
  <2> QED BY <1>1, <2>1 DEF LightsInv, HandlersInv
<1>6. HandlerTypes /\ NumberPending
  BY DEF HandlersInv
<1>7. (npadch # None)' <=> npadch # None
  BY <1>1 DEF None
<1>8. CASE PutNothing \/ PutDropped
  <2>1. cpu' = Tail(cpu) /\ UNCHANGED <<blocked, ready>>
    BY <1>8 DEF PutNothing, PutDropped
  <2>2. HandlerTypes'
    BY <1>3, <1>6, <2>1 DEF HandlerTypes
  <2>3. Forgets(cpu) => Forgets(cpu')
    BY <1>3, <2>1
  <2>4. NumberPending'
    BY <1>1, <1>6, <1>7, <2>1, <2>3 DEF NumberPending, Forgets
  <2> QED BY <1>5, <2>2, <2>4 DEF HandlersInv
<1>9. CASE PutBlocks
  <2>1. Head(cpu).n > 0 /\ blocked = <<>> /\ blocked' = Rest /\ cpu' = <<>> /\ ready' = ready
    BY <1>9 DEF PutBlocks
  <2>2. HandlerTypes'
    BY <1>4, <1>6, <2>1, EmptySeq DEF HandlerTypes
  <2>3. Forgets(cpu) => Forgets(blocked')
    BY <1>4, <2>1
  <2>4. ~Forgets(blocked)
    BY <2>1, NothingForgets
  <2>5. NumberPending'
    BY <1>1, <1>6, <1>7, <2>1, <2>3, <2>4 DEF NumberPending, Forgets
  <2> QED BY <1>5, <2>2, <2>5 DEF HandlersInv
<1>10. CASE PutStored
  <2>1. Head(cpu).n > 0 /\ blocked' = blocked
    BY <1>10 DEF PutStored
  <2>2. CASE cpu' = Rest /\ ready' = ready
    <3>1. HandlerTypes'
      BY <1>4, <1>6, <2>1, <2>2 DEF HandlerTypes
    <3>2. Forgets(cpu) => Forgets(cpu')
      BY <1>4, <2>1, <2>2
    <3>3. NumberPending'
      BY <1>1, <1>6, <1>7, <2>1, <2>2, <3>2 DEF NumberPending, Forgets
    <3> QED BY <1>5, <3>1, <3>3 DEF HandlersInv
  <2>3. CASE cpu' = <<>> /\ ready' = Append(ready, Rest)
    <3>1. PICK r : r = Rest
      OBVIOUS
    <3>2. r \in Seq(Steps) /\ ready \in Seq(Seq(Steps))
      BY <1>4, <1>6, <2>1, <3>1 DEF HandlerTypes
    <3>3. /\ Append(ready, r) \in Seq(Seq(Steps)) /\ Len(Append(ready, r)) = Len(ready) + 1
          /\ \A i \in 1 .. Len(ready) : Append(ready, r)[i] = ready[i]
          /\ Append(ready, r)[Len(ready) + 1] = r
      BY <3>2, AppendProperties
    <3>4. HandlerTypes'
      BY <1>6, <2>1, <2>3, <3>1, <3>3, EmptySeq DEF HandlerTypes
    <3>5. Len(ready) \in Nat /\ DOMAIN ready = 1 .. Len(ready) /\ DOMAIN ready' = 1 .. Len(ready) + 1
      BY <2>3, <3>1, <3>2, <3>3, LenProperties
    <3>6. Forgets(cpu) => \E i \in DOMAIN ready' : Forgets(ready'[i])
      <4>1. ready'[Len(ready) + 1] = r /\ Len(ready) + 1 \in DOMAIN ready'
        BY <2>3, <3>1, <3>3, <3>5
      <4>2. Forgets(cpu) => Forgets(r)
        BY <1>4, <2>1, <3>1
      <4> QED BY <4>1, <4>2
    <3>7. \A i \in DOMAIN ready : i \in DOMAIN ready' /\ ready'[i] = ready[i]
      BY <2>3, <3>1, <3>3, <3>5
    <3>8. NumberPending'
      BY <1>1, <1>6, <1>7, <2>1, <3>6, <3>7 DEF NumberPending, Forgets
    <3> QED BY <1>5, <3>4, <3>8 DEF HandlersInv
  <2> QED BY <1>10, <2>2, <2>3 DEF PutStored
<1> QED BY <1>8, <1>9, <1>10 DEF KeyboardData

LEMMA HandlersAfterForget ==
  ASSUME HandlersInv, DoForget
  PROVE  HandlersInv'
<1>1. /\ cpu # <<>> /\ Head(cpu) = ForgetNumber /\ cpu' = Tail(cpu) /\ npadch' = None
      /\ UNCHANGED <<ledstate, ledflagstate, blocked, ready>>
  BY DEF DoForget
<1>2. HandlerTypes'
  BY <1>1, TailForgets DEF HandlersInv, HandlerTypes
<1>3. cpu # <<Tasklet>>
  BY <1>1, StepTypes
<1>4. LightsInv'
  BY <1>1, <1>3 DEF LightsInv, HandlersInv
<1>5. NumberPending'
  BY <1>1 DEF NumberPending, None
<1> QED BY <1>2, <1>4, <1>5 DEF HandlersInv

LEMMA HandlersAfterTasklet ==
  ASSUME HandlersInv, KbdBh
  PROVE  HandlersInv'
<1>1. /\ cpu # <<>> /\ Head(cpu) = Tasklet /\ cpu' = Tail(cpu) /\ ledstate' = ledflagstate
      /\ UNCHANGED <<npadch, shift_state, ledflagstate, blocked, ready, abandoned>>
  BY DEF KbdBh, modifiers, Shown
<1>2. /\ Tail(cpu) \in Seq(Steps)
      /\ Forgets(cpu) /\ Head(cpu) # ForgetNumber => Forgets(Tail(cpu))
  BY <1>1, TailForgets DEF HandlersInv, HandlerTypes
<1>3. Forgets(cpu) => Forgets(cpu')
  BY <1>1, <1>2, StepTypes
<1>4. HandlerTypes'
  BY <1>1, <1>2 DEF HandlersInv, HandlerTypes
<1>5. LightsInv'
  BY <1>1 DEF LightsInv
<1>6. NumberPending'
  BY <1>1, <1>3 DEF NumberPending, HandlersInv, Forgets, None
<1> QED BY <1>4, <1>5, <1>6 DEF HandlersInv

(* A handler goes on, is killed or made ready while none runs. *)
LEMMA WhileIdle ==
  ASSUME HandlersInv, Idle, UNCHANGED <<ledstate, ledflagstate, shift_state, npadch>>
  PROVE  /\ LightsInv'
         /\ npadch # None => \/ shift_state # {} \/ abandoned \/ Forgets(blocked)
                             \/ \E i \in DOMAIN ready : Forgets(ready[i])
<1>1. cpu # <<Tasklet>> /\ ~Forgets(cpu)
  BY NothingForgets DEF Idle
<1>2. LightsInv'
  BY <1>1 DEF HandlersInv, LightsInv
<1> QED BY <1>1, <1>2 DEF HandlersInv, NumberPending

LEMMA HandlersAfterRead ==
  ASSUME HandlersInv, Read
  PROVE  HandlersInv'
<1>1. Idle /\ UNCHANGED <<ledstate, ledflagstate, shift_state, npadch, cpu, abandoned>>
  BY DEF Read, unsent, modifiers
<1>2. HandlerTypes
  BY DEF HandlersInv
<1>3. /\ LightsInv'
      /\ npadch # None => \/ shift_state # {} \/ abandoned \/ Forgets(blocked)
                          \/ \E i \in DOMAIN ready : Forgets(ready[i])
  BY <1>1, WhileIdle
<1>4. CASE ready' = Append(ready, blocked) /\ blocked' = <<>>
  <2>1. blocked \in Seq(Steps) /\ ready \in Seq(Seq(Steps))
    BY <1>2 DEF HandlerTypes
  <2>2. /\ Append(ready, blocked) \in Seq(Seq(Steps))
        /\ Len(Append(ready, blocked)) = Len(ready) + 1
        /\ \A i \in 1 .. Len(ready) : Append(ready, blocked)[i] = ready[i]
        /\ Append(ready, blocked)[Len(ready) + 1] = blocked
    BY <2>1, AppendProperties
  <2>3. Len(ready) \in Nat /\ DOMAIN ready = 1 .. Len(ready) /\ DOMAIN ready' = 1 .. Len(ready) + 1
    BY <1>4, <2>1, <2>2, LenProperties
  <2>4. HandlerTypes'
    BY <1>1, <1>2, <1>4, <2>2, EmptySeq DEF HandlerTypes
  <2>5. Forgets(blocked) => \E i \in DOMAIN ready' : Forgets(ready'[i])
    <3>1. ready'[Len(ready) + 1] = blocked /\ Len(ready) + 1 \in DOMAIN ready'
      BY <1>4, <2>2, <2>3
    <3> QED BY <3>1
  <2>6. \A i \in DOMAIN ready : i \in DOMAIN ready' /\ ready'[i] = ready[i]
    BY <1>4, <2>2, <2>3
  <2>7. NumberPending'
    BY <1>1, <1>3, <2>5, <2>6 DEF NumberPending, None, Forgets
  <2> QED BY <1>3, <2>4, <2>7 DEF HandlersInv
<1>5. CASE UNCHANGED <<blocked, ready>>
  <2>1. HandlerTypes'
    BY <1>1, <1>2, <1>5 DEF HandlerTypes
  <2>2. NumberPending'
    BY <1>1, <1>3, <1>5 DEF NumberPending, None, Forgets
  <2> QED BY <1>3, <2>1, <2>2 DEF HandlersInv
<1> QED BY <1>4, <1>5 DEF Read

LEMMA ReadyWithout ==
  ASSUME HandlerTypes, NEW i \in DOMAIN ready
  PROVE  /\ ready[i] \in Seq(Steps) /\ RemoveAt(ready, i) \in Seq(Seq(Steps))
         /\ (\E j \in DOMAIN ready : Forgets(ready[j])) =>
              \/ Forgets(ready[i])
              \/ \E j \in DOMAIN RemoveAt(ready, i) : Forgets(RemoveAt(ready, i)[j])
<1>1. PICK s : s = ready
  OBVIOUS
<1>2. s \in Seq(Seq(Steps)) /\ i \in 1 .. Len(s)
  BY <1>1, LenProperties DEF HandlerTypes
<1>3. s[i] \in Seq(Steps) /\ RemoveAt(s, i) \in Seq(Seq(Steps))
  BY <1>2, ElementOfSeq, RemoveAtProperties
<1>4. \A x \in Range(s) : x = s[i] \/ x \in Range(RemoveAt(s, i))
  BY <1>2, RangeRemoveAt
<1>5. ASSUME NEW j \in DOMAIN s, Forgets(s[j]), ~Forgets(s[i])
      PROVE  \E k \in DOMAIN RemoveAt(s, i) : Forgets(RemoveAt(s, i)[k])
  <2>1. s[j] \in Range(s) /\ s[j] # s[i]
    BY <1>5 DEF Range
  <2>2. s[j] \in Range(RemoveAt(s, i))
    BY <1>4, <2>1
  <2>3. PICK k \in DOMAIN RemoveAt(s, i) : RemoveAt(s, i)[k] = s[j]
    BY <2>2 DEF Range
  <2> QED BY <1>5, <2>3
<1> QED BY <1>1, <1>3, <1>5

LEMMA HandlersAfterResume ==
  ASSUME HandlersInv, NEW i \in DOMAIN ready, Resume(i)
  PROVE  HandlersInv'
<1>1. /\ Idle /\ UNCHANGED <<ledstate, ledflagstate, shift_state, npadch, blocked, abandoned>>
      /\ cpu' = ready[i] /\ ready' = RemoveAt(ready, i)
  BY DEF Resume, unsent, modifiers
<1>2. /\ LightsInv'
      /\ npadch # None => \/ shift_state # {} \/ abandoned \/ Forgets(blocked)
                          \/ \E j \in DOMAIN ready : Forgets(ready[j])
  BY <1>1, WhileIdle
<1>3. HandlerTypes
  BY DEF HandlersInv
<1>4. /\ ready[i] \in Seq(Steps) /\ RemoveAt(ready, i) \in Seq(Seq(Steps))
      /\ (\E j \in DOMAIN ready : Forgets(ready[j])) =>
           \/ Forgets(ready[i])
           \/ \E j \in DOMAIN RemoveAt(ready, i) : Forgets(RemoveAt(ready, i)[j])
  BY <1>3, ReadyWithout
<1>5. HandlerTypes'
  BY <1>1, <1>3, <1>4 DEF HandlerTypes
<1>6. NumberPending'
  BY <1>1, <1>2, <1>4 DEF NumberPending, None, Forgets
<1> QED BY <1>2, <1>5, <1>6 DEF HandlersInv

LEMMA HandlersAfterKill ==
  ASSUME HandlersInv, Kill
  PROVE  HandlersInv'
<1>1. /\ Idle /\ UNCHANGED <<ledstate, ledflagstate, shift_state, npadch, cpu>>
  BY DEF Kill, unsent, modifiers
<1>2. /\ LightsInv'
      /\ npadch # None => \/ shift_state # {} \/ abandoned \/ Forgets(blocked)
                          \/ \E j \in DOMAIN ready : Forgets(ready[j])
  BY <1>1, WhileIdle
<1>3. HandlerTypes
  BY DEF HandlersInv
<1>4. CASE blocked' = <<>> /\ abandoned' = (abandoned \/ Forgets(blocked)) /\ ready' = ready
  <2>1. HandlerTypes'
    BY <1>1, <1>3, <1>4, EmptySeq DEF HandlerTypes
  <2>2. NumberPending'
    BY <1>1, <1>2, <1>4 DEF NumberPending, None, Forgets
  <2> QED BY <1>2, <2>1, <2>2 DEF HandlersInv
<1>5. ASSUME NEW i \in DOMAIN ready, ready' = RemoveAt(ready, i),
             abandoned' = (abandoned \/ Forgets(ready[i])), blocked' = blocked
      PROVE  HandlersInv'
  <2>1. /\ RemoveAt(ready, i) \in Seq(Seq(Steps))
        /\ (\E j \in DOMAIN ready : Forgets(ready[j])) =>
             \/ Forgets(ready[i])
             \/ \E j \in DOMAIN RemoveAt(ready, i) : Forgets(RemoveAt(ready, i)[j])
    BY <1>3, ReadyWithout
  <2>2. HandlerTypes'
    BY <1>1, <1>3, <1>5, <2>1 DEF HandlerTypes
  <2>3. NumberPending'
    BY <1>1, <1>2, <1>5, <2>1 DEF NumberPending, None, Forgets
  <2> QED BY <1>2, <2>2, <2>3 DEF HandlersInv
<1> QED BY <1>4, <1>5 DEF Kill
-------------------------------------------------------------------------------
(* The inductive invariant of the driver and its user.                     *)
KeyboardInv == UserTypes /\ WireInv /\ ModifiersCount /\ HandlersInv

LEMMA KeyboardInit ==
  ASSUME Init
  PROVE  KeyboardInv
<1>1. UserTypes
  BY DEF Init, UserTypes
<1>2. WireInv
  BY DEF Init, WireInv, Here, Done, Settled, Believed
<1>3. ModifiersCount
  <2>1. ModifiersOf({}) = {}
    BY DEF ModifiersOf
  <2>2. \A m : Count({}, m) = 0
    <3>1. \A m : Count({}, m) \in Nat /\ ~(Count({}, m) > 0)
      BY <2>1, CountFacts
    <3> QED BY <3>1
  <2> QED BY <2>1, <2>2 DEF Init, ModifiersCount, Counts
<1>4. HandlersInv
  <2>1. HandlerTypes
    BY EmptySeq DEF Init, HandlerTypes
  <2> QED BY <2>1 DEF Init, HandlersInv, LightsInv, NumberPending
<1> QED BY <1>1, <1>2, <1>3, <1>4 DEF KeyboardInv

(* The user and the handlers that send leave each other's state alone.     *)
LEMMA UserLeavesDriver ==
  ASSUME KeyboardInv, UNCHANGED driver
  PROVE  ModifiersCount' /\ HandlersInv'
BY DEF KeyboardInv, driver, modifiers, handlers, ModifiersCount, HandlersInv, HandlerTypes,
       LightsInv, NumberPending, None, Forgets

LEMMA SendingLeavesKeys ==
  ASSUME KeyboardInv,
         UNCHANGED <<user, wire, prev_scancode, key_down, k_down, shift_state, ledflagstate>>
  PROVE  UserTypes' /\ WireInv' /\ ModifiersCount'
<1>1. UserTypes' /\ ModifiersCount'
  BY DEF KeyboardInv, user, UserTypes, ModifiersCount
<1>2. Here' = Here /\ (Settled' <=> Settled)
  BY DEF user, Here, Settled, Believed
<1>3. \A k : (DuePress(k)' <=> DuePress(k)) /\ (DueRelease(k)' <=> DueRelease(k))
  BY <1>2 DEF user, DuePress, DueRelease, Switched, Believed
<1>4. WireInv'
  BY <1>2, <1>3 DEF KeyboardInv, WireInv
<1> QED BY <1>1, <1>4

LEMMA KeyboardStep ==
  ASSUME KeyboardInv, [Next]_vars
  PROVE  KeyboardInv'
<1>1. UserTypes /\ WireInv /\ ModifiersCount /\ HandlersInv
  BY DEF KeyboardInv
<1>2. CASE User
  <2>1. PICK k \in Keys : Press(k) \/ Release(k) \/ LoseRelease(k)
    BY <1>2 DEF User
  <2>2. UserTypes' /\ WireInv'
    BY <1>1, <2>1, WireAfterUser
  <2>3. UNCHANGED driver
    BY <2>1 DEF Press, Release, LoseRelease
  <2> QED BY <2>2, <2>3, UserLeavesDriver DEF KeyboardInv
<1>3. CASE HandleByte
  <2>1. Decoded
    BY <1>1, <1>3, ByteDecoded
  <2>2. UserTypes' /\ ModifiersCount'
    BY <1>1, <2>1 DEF Decoded, user, UserTypes
  <2> QED BY <1>1, <1>3, <2>2, WireAfterByte, HandlersAfterByte DEF KeyboardInv
<1>4. CASE Sending
  <2>1. UNCHANGED <<user, wire, prev_scancode, key_down, k_down, shift_state, ledflagstate>>
    BY <1>4 DEF Sending, KeyboardData, PutNothing, PutDropped, PutBlocks, PutStored, DoForget,
                KbdBh, Read, Kill, Resume, unsent, modifiers
  <2>2. HandlersInv'
    BY <1>1, <1>4, HandlersAfterPut, HandlersAfterForget, HandlersAfterTasklet,
       HandlersAfterRead, HandlersAfterKill, HandlersAfterResume DEF Sending
  <2> QED BY <2>1, <2>2, SendingLeavesKeys DEF KeyboardInv
<1>5. CASE UNCHANGED vars
  <2>1. UNCHANGED driver
    BY <1>5 DEF vars, driver
  <2>2. UNCHANGED <<user, wire, prev_scancode, key_down, k_down, shift_state, ledflagstate>>
    BY <1>5 DEF vars, modifiers
  <2> QED BY <2>1, <2>2, UserLeavesDriver, SendingLeavesKeys DEF KeyboardInv
<1> QED BY <1>2, <1>3, <1>4, <1>5 DEF Next

LEMMA KeyboardAlways == Spec => []KeyboardInv
BY KeyboardInit, KeyboardStep, PTL DEF Spec

(***************************************************************************)
(* handle_scancode, do_shift and compute_shiftstate: when every byte of    *)
(* the keyboard is handled, key_down holds the keys that the user holds    *)
(* (or whose release went unnoticed) and no prefix is pending; at every    *)
(* moment k_down counts and shift_state collects the modifier keys of      *)
(* key_down, whichever of the two ways updated them.                       *)
(***************************************************************************)
THEOREM ModifiersKnown == Spec => []ModifiersAgree
<1>1. ASSUME KeyboardInv
      PROVE  ModifiersAgree
  <2>1. wire = <<>> => key_down = Believed /\ prev_scancode = 0
    BY <1>1, WhenQuiet DEF KeyboardInv, Settled
  <2> QED BY <1>1, <2>1 DEF KeyboardInv, ModifiersCount, Counts, ModifiersAgree
<1> QED BY <1>1, KeyboardAlways, PTL

(***************************************************************************)
(* do_spec and the tasklet of do_scancode: when every byte is handled the  *)
(* locks are those that the presses should have made, repetitions and      *)
(* bytes of prefixed keys notwithstanding, and the lights show the locks   *)
(* whenever no handler runs, even if others were switched out in psend.    *)
(***************************************************************************)
THEOREM LocksKnown == Spec => []LocksAgree
<1>1. ASSUME KeyboardInv
      PROVE  LocksAgree
  <2>1. wire = <<>> => ledflagstate = locks
    BY <1>1, WhenQuiet DEF KeyboardInv, Settled
  <2>2. Idle => ledstate = ledflagstate
    BY <1>1 DEF KeyboardInv, HandlersInv, LightsInv, Idle
  <2> QED BY <2>1, <2>2 DEF LocksAgree
<1> QED BY <1>1, KeyboardAlways, PTL

(***************************************************************************)
(* do_shift and do_ascii: a number typed on the keypad that no modifier    *)
(* held can still end was sent by a handler that has yet to forget it,     *)
(* running, stopped in psend or ready to go on, or was killed there.       *)
(***************************************************************************)
THEOREM NumbersSent == Spec => []NumberPending
<1>1. ASSUME KeyboardInv
      PROVE  NumberPending
  BY <1>1 DEF KeyboardInv, HandlersInv
<1> QED BY <1>1, KeyboardAlways, PTL
=============================================================================
