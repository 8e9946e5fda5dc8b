---------------------------- MODULE GdbStub_proofs ----------------------------
(***************************************************************************)
(* What gdb knows is true and only what it asks is executed, for every set *)
(* of values and commands, every size of the stub's buffer and any number  *)
(* of faults of the line, of repetitions and of traps.                     *)
(*                                                                         *)
(* Neither is inductive.  What a character or a message means depends on   *)
(* where it is in the line: LineInv says that there is one packet on the   *)
(* way at a time, as a "$" that the stub has still to see or as a "-" that *)
(* makes gdb send it again, and none once it was executed; AnswersInv that *)
(* what comes after the acknowledgement of a command tells the truth, and  *)
(* goes on doing so because the stub is not resumed meanwhile (AwayInv).   *)
(***************************************************************************)
EXTENDS GdbStub, SeqLemmas

Known == Values \cup {Unknown}

Cmds == Commands \cup {NoCommand}

Kinds == {"$", "data", "#", "high", "low", "junk", "}", "+", "-", "none"}

CharTypes == [kind : Kinds, of : Cmds]

Answers == [kind : {"answer"}, val : Known, good : BOOLEAN,
            what : {"stopped", "eip", "byte", "OK", "error", "empty", "exited"}]

MessageTypes == Answers \cup {Ack, Nak}

Has(line, kind) == \E i \in DOMAIN line : line[i].kind = kind

Once(line, kind) ==
  \A i, j \in DOMAIN line : line[i].kind = kind /\ line[j].kind = kind => i = j

LineTypes == toStub \in Seq(CharTypes) /\ toHost \in Seq(MessageTypes)

StubTypes ==
  /\ buffer \in Seq(CharTypes) /\ high \in CharTypes
  /\ answer \in Answers \cup {None} /\ (at = "putfrags" => answer \in Answers)
  /\ retval \in {"GDB_MORE", "GDB_DETACH", "reboot"}
  /\ eip \in Known /\ byte \in Known

HostTypes ==
  /\ host \in [waits : {"off", "nothing", "ack", "answer", "stop"}, cmd : Cmds, tries : Int]
  /\ host.waits = "ack" => host.cmd \in Commands
  /\ belief \in [eip : Known, byte : Known]

(* The stub is inside a packet.                                              *)
InPacket == at \in {"data", "high", "low"}

(* The packet on the way.                                                    *)
LineInv ==
  /\ Once(toStub, "$") /\ Once(toHost, "-") /\ Once(toHost, "+")
  /\ Has(toHost, "-") => ~Has(toStub, "$") /\ ~InPacket
  /\ InPacket /\ Has(toStub, "$") => Head(toStub).kind = "$"
  /\ Has(toHost, "+") => host.waits = "ack"
  /\ host.waits # "ack" \/ Has(toHost, "+") =>
       ~Has(toStub, "$") /\ ~Has(toHost, "-") /\ ~InPacket

(* The checksums on the way are those of the command that gdb repeats.       *)
SumsInv ==
  host.waits = "ack" =>
    \A i \in DOMAIN toStub : toStub[i].kind = "low" => toStub[i].of = host.cmd

(* gdb forgets what a command may change when it sends it.                   *)
ForgottenInv ==
  host.waits = "ack" =>
    /\ host.cmd.op \in Resumes \cup {"P", "PP", "R", "D"} => belief.eip = Unknown
    /\ host.cmd.op \in Resumes \cup {"M", "MM", "R", "D"} => belief.byte = Unknown

(* An answer tells the truth to gdb, which takes it for one to its command.  *)
RightFor(a, cmd, e, b) ==
  a.kind = "answer" =>
    /\ a.what = "eip"  => cmd.op = "g" /\ a.val = e
    /\ a.what = "byte" => cmd.op = "m" /\ a.val = b
    /\ a.what = "OK" /\ cmd.op = "P" => e = cmd.val
    /\ a.what = "OK" /\ cmd.op = "M" => b = cmd.val

Right(a) == RightFor(a, host.cmd, eip, byte)

Listens == host.waits \in {"answer", "stop"}

AnswersInv ==
  /\ Listens \/ Has(toHost, "+") => Right(answer)
  /\ Listens => \A i \in DOMAIN toHost : Right(toHost[i])
  /\ \A i, j \in DOMAIN toHost : j < i /\ toHost[j].kind = "+" => Right(toHost[i])

(* The program runs, or will without another command.                        *)
Away == at \in {"program", "screen"} \/ (at = "putfrags" /\ retval = "GDB_DETACH")

AwayInv ==
  Away => /\ belief.eip = Unknown /\ belief.byte = Unknown
          /\ Listens \/ Has(toHost, "+") => host.cmd.op \in Resumes \cup {"R", "D"}

GdbInv == /\ LineTypes /\ StubTypes /\ HostTypes
          /\ LineInv /\ SumsInv /\ ForgottenInv /\ AnswersInv /\ AwayInv /\ BeliefTrue
-------------------------------------------------------------------------------
(* The line. *)

LEMMA TailKinds ==
  ASSUME NEW T, NEW s \in Seq(T), s # <<>>
  PROVE  /\ Tail(s) \in Seq(T) /\ Head(s) \in T /\ Head(s) = s[1] /\ 1 \in DOMAIN s
         /\ \A i \in DOMAIN Tail(s) : i \in Nat \ {0} /\ i + 1 \in DOMAIN s /\ Tail(s)[i] = s[i + 1]
         /\ \A k : Has(Tail(s), k) => Has(s, k)
         /\ \A k : Once(s, k) => Once(Tail(s), k) /\ (Head(s).kind = k => ~Has(Tail(s), k))
<1>1. /\ Tail(s) \in Seq(T) /\ Head(s) \in T /\ Len(Tail(s)) = Len(s) - 1
      /\ \A i \in 1 .. Len(Tail(s)) : Tail(s)[i] = s[i + 1]
  BY HeadTailProperties
<1>2. /\ Len(s) \in Nat \ {0} /\ DOMAIN s = 1 .. Len(s)
      /\ DOMAIN Tail(s) = 1 .. Len(s) - 1
  BY <1>1, LenProperties, EmptySeq
<1>3. Head(s) = s[1] /\ 1 \in DOMAIN s
  BY <1>2
<1>4. \A i \in DOMAIN Tail(s) : i \in Nat \ {0} /\ i + 1 \in DOMAIN s /\ Tail(s)[i] = s[i + 1]
  BY <1>1, <1>2
<1>5. \A k : Has(Tail(s), k) => Has(s, k)
  BY <1>4 DEF Has
<1>6. ASSUME NEW k, Once(s, k)
      PROVE  Once(Tail(s), k) /\ (Head(s).kind = k => ~Has(Tail(s), k))
  <2>1. Once(Tail(s), k)
    <3>1. ASSUME NEW i \in DOMAIN Tail(s), NEW j \in DOMAIN Tail(s),
                 Tail(s)[i].kind = k, Tail(s)[j].kind = k
          PROVE  i = j
      <4>1. i + 1 = j + 1
        BY <1>4, <1>6, <3>1 DEF Once
      <4> QED BY <1>4, <4>1
    <3> QED BY <3>1 DEF Once
  <2>2. ASSUME Head(s).kind = k, Has(Tail(s), k)
        PROVE  FALSE
    <3>1. PICK i \in DOMAIN Tail(s) : Tail(s)[i].kind = k
      BY <2>2 DEF Has
    <3>2. i + 1 = 1
      BY <1>3, <1>4, <1>6, <2>2, <3>1 DEF Once
    <3> QED BY <1>4, <3>2
  <2> QED BY <2>1, <2>2
<1> QED BY <1>1, <1>3, <1>4, <1>5, <1>6

LEMMA JoinKinds ==
  ASSUME NEW T, NEW s \in Seq(T), NEW t \in Seq(T)
  PROVE  /\ s \o t \in Seq(T)
         /\ \A i \in DOMAIN (s \o t) : \/ i \in DOMAIN s /\ (s \o t)[i] = s[i]
                                       \/ i - Len(s) \in DOMAIN t /\ (s \o t)[i] = t[i - Len(s)]
         /\ DOMAIN s \subseteq DOMAIN (s \o t) /\ DOMAIN s \subseteq Nat /\ DOMAIN t \subseteq Nat
         /\ \A i \in DOMAIN s : (s \o t)[i] = s[i] /\ i <= Len(s)
         /\ \A k : Has(s \o t, k) <=> Has(s, k) \/ Has(t, k)
         /\ \A k : Once(s, k) /\ Once(t, k) /\ ~(Has(s, k) /\ Has(t, k)) => Once(s \o t, k)
         /\ s # <<>> => s \o t # <<>> /\ Head(s \o t) = Head(s)
<1> DEFINE u == s \o t
<1>1. /\ u \in Seq(T) /\ Len(u) = Len(s) + Len(t)
      /\ \A i \in 1 .. Len(s) + Len(t) : u[i] = IF i <= Len(s) THEN s[i] ELSE t[i - Len(s)]
  BY ConcatProperties
<1>2. /\ Len(s) \in Nat /\ Len(t) \in Nat /\ DOMAIN s = 1 .. Len(s) /\ DOMAIN t = 1 .. Len(t)
      /\ DOMAIN u = 1 .. Len(s) + Len(t)
  BY <1>1, LenProperties
<1>3. \A i \in DOMAIN s : i \in DOMAIN u /\ u[i] = s[i] /\ i <= Len(s)
  BY <1>1, <1>2
<1>4. \A i \in DOMAIN t : i + Len(s) \in DOMAIN u /\ u[i + Len(s)] = t[i]
  BY <1>1, <1>2
<1>5. \A i \in DOMAIN u : \/ i \in DOMAIN s /\ u[i] = s[i]
                          \/ i - Len(s) \in DOMAIN t /\ u[i] = t[i - Len(s)]
  BY <1>1, <1>2
<1>6. s # <<>> => u # <<>> /\ Head(u) = Head(s)
  <2>1. s # <<>> => Len(s) # 0
    BY EmptySeq
  <2>2. s # <<>> => Head(s) = s[1] /\ 1 \in DOMAIN s
    BY <1>2, <2>1
  <2>3. s # <<>> => u # <<>>
    <3>1. u = <<>> => Len(u) = 0
      BY EmptySeq
    <3> QED BY <1>1, <1>2, <2>1, <3>1
  <2> QED BY <1>3, <2>2, <2>3
<1> HIDE DEF u
<1>7. \A k : Has(u, k) <=> Has(s, k) \/ Has(t, k)
  <2>1. \A k : Has(u, k) => Has(s, k) \/ Has(t, k)
    BY <1>5 DEF Has
  <2>2. \A k : Has(s, k) => Has(u, k)
    BY <1>3 DEF Has
  <2>3. \A k : Has(t, k) => Has(u, k)
    BY <1>4 DEF Has
  <2> QED BY <2>1, <2>2, <2>3
<1>8. ASSUME NEW k, Once(s, k), Once(t, k), ~(Has(s, k) /\ Has(t, k))
      PROVE  Once(u, k)
  <2>1. ASSUME NEW i \in DOMAIN u, NEW j \in DOMAIN u, u[i].kind = k, u[j].kind = k
        PROVE  i = j
    <3>1. CASE ~Has(t, k)
      <4>1. i \in DOMAIN s /\ u[i] = s[i] /\ j \in DOMAIN s /\ u[j] = s[j]
        BY <1>5, <2>1, <3>1 DEF Has
      <4> QED BY <1>8, <2>1, <4>1 DEF Once
    <3>2. CASE ~Has(s, k)
      <4>1. /\ i - Len(s) \in DOMAIN t /\ u[i] = t[i - Len(s)]
            /\ j - Len(s) \in DOMAIN t /\ u[j] = t[j - Len(s)]
        BY <1>5, <2>1, <3>2 DEF Has
      <4>2. i - Len(s) = j - Len(s)
        BY <1>8, <2>1, <4>1 DEF Once
      <4> QED BY <1>2, <2>1, <4>2
    <3> QED BY <1>8, <3>1, <3>2
  <2> QED BY <2>1 DEF Once
<1> QED BY <1>1, <1>2, <1>3, <1>5, <1>6, <1>7, <1>8 DEF u

LEMMA SuffixKinds ==
  ASSUME NEW T, NEW s \in Seq(T), NEW n \in 1 .. Len(s) + 1
  PROVE  LET t == SubSeq(s, n, Len(s))
         IN  /\ t \in Seq(T)
             /\ \A i \in DOMAIN t : i + n - 1 \in DOMAIN s /\ t[i] = s[i + n - 1]
             /\ \A k : Has(t, k) => Has(s, k)
             /\ \A k : Once(s, k) => Once(t, k)
<1> DEFINE t == SubSeq(s, n, Len(s))
<1>1. /\ t \in Seq(T) /\ Len(t) = Len(s) - n + 1
      /\ \A i \in 1 .. Len(s) - n + 1 : t[i] = s[n + i - 1]
  BY SuffixProperties
<1>2. Len(s) \in Nat /\ DOMAIN s = 1 .. Len(s) /\ DOMAIN t = 1 .. Len(s) - n + 1
  BY <1>1, LenProperties
<1>3. \A i \in DOMAIN t : i \in Nat /\ i + n - 1 \in DOMAIN s /\ t[i] = s[i + n - 1]
  BY <1>1, <1>2
<1> HIDE DEF t
<1>4. \A k : Has(t, k) => Has(s, k)
  BY <1>3 DEF Has
<1>5. ASSUME NEW k, Once(s, k), NEW i \in DOMAIN t, NEW j \in DOMAIN t, t[i].kind = k, t[j].kind = k
      PROVE  i = j
  <2>1. i + n - 1 = j + n - 1
    BY <1>3, <1>5 DEF Once
  <2> QED BY <1>3, <2>1
<1>6. \A k : Once(s, k) => Once(t, k)
  BY <1>5 DEF Once
<1> QED BY <1>1, <1>3, <1>4, <1>6 DEF t

LEMMA OneKind ==
  ASSUME NEW T, NEW e \in T
  PROVE  /\ <<e>> \in Seq(T) /\ DOMAIN <<e>> = {1} /\ <<e>>[1] = e
         /\ \A k : Has(<<e>>, k) <=> e.kind = k
         /\ \A k : Once(<<e>>, k)
BY DEF Has, Once

LEMMA AppendKinds ==
  ASSUME NEW T, NEW s \in Seq(T), NEW e \in T
  PROVE  /\ Append(s, e) \in Seq(T)
         /\ \A i \in DOMAIN Append(s, e) :
              (i \in DOMAIN s /\ Append(s, e)[i] = s[i]) \/ Append(s, e)[i] = e
         /\ \A k : Has(Append(s, e), k) <=> Has(s, k) \/ e.kind = k
         /\ \A k : Once(s, k) /\ e.kind # k => Once(Append(s, e), k)
         /\ s # <<>> => Append(s, e) # <<>> /\ Head(Append(s, e)) = Head(s)
<1>1. <<e>> \in Seq(T) /\ DOMAIN <<e>> = {1} /\ <<e>>[1] = e
  BY OneKind
<1>2. \A k : (Has(<<e>>, k) <=> e.kind = k) /\ Once(<<e>>, k)
  BY OneKind
<1>3. Append(s, e) = s \o <<e>>
  BY AppendIsConcat
<1>4. \A i \in DOMAIN (s \o <<e>>) :
        \/ i \in DOMAIN s /\ (s \o <<e>>)[i] = s[i]
        \/ i - Len(s) \in DOMAIN <<e>> /\ (s \o <<e>>)[i] = <<e>>[i - Len(s)]
  BY <1>1, JoinKinds
<1>5. \A i \in DOMAIN (s \o <<e>>) :
         (i \in DOMAIN s /\ (s \o <<e>>)[i] = s[i]) \/ (s \o <<e>>)[i] = e
  BY <1>1, <1>4
<1>6. /\ s \o <<e>> \in Seq(T)
      /\ \A k : Has(s \o <<e>>, k) <=> Has(s, k) \/ Has(<<e>>, k)
      /\ \A k : Once(s, k) /\ Once(<<e>>, k) /\ ~(Has(s, k) /\ Has(<<e>>, k)) => Once(s \o <<e>>, k)
      /\ s # <<>> => s \o <<e>> # <<>> /\ Head(s \o <<e>>) = Head(s)
  BY <1>1, JoinKinds
<1> QED BY <1>2, <1>3, <1>5, <1>6

LEMMA FrontKinds ==
  ASSUME NEW T, NEW e \in T, NEW t \in Seq(T), NEW u, u = <<e>> \o t
  PROVE  /\ u \in Seq(T) /\ DOMAIN u \subseteq Nat
         /\ \A i \in DOMAIN u : \/ i = 1 /\ u[i] = e
                                \/ i - 1 \in DOMAIN t /\ u[i] = t[i - 1]
         /\ \A k : Has(u, k) <=> e.kind = k \/ Has(t, k)
         /\ \A k : Once(t, k) /\ ~(e.kind = k /\ Has(t, k)) => Once(u, k)
<1>1. PICK s \in Seq(T) : /\ s = <<e>> /\ DOMAIN s = {1} /\ s[1] = e /\ Len(s) = 1
                          /\ \A k : (Has(s, k) <=> e.kind = k) /\ Once(s, k)
  <2>1. <<e>> \in Seq(T) /\ DOMAIN <<e>> = {1} /\ <<e>>[1] = e /\ Len(<<e>>) = 1
    BY OneKind
  <2>2. \A k : (Has(<<e>>, k) <=> e.kind = k) /\ Once(<<e>>, k)
    BY OneKind
  <2> QED BY <2>1, <2>2
<1>2. u = s \o t
  BY <1>1
<1>3. /\ u \in Seq(T)
      /\ \A i \in DOMAIN u : \/ i \in DOMAIN s /\ u[i] = s[i]
                             \/ i - Len(s) \in DOMAIN t /\ u[i] = t[i - Len(s)]
  BY <1>2, JoinKinds
<1>4. /\ \A k : Has(u, k) <=> Has(s, k) \/ Has(t, k)
      /\ \A k : Once(s, k) /\ Once(t, k) /\ ~(Has(s, k) /\ Has(t, k)) => Once(u, k)
  BY <1>2, JoinKinds
<1>5. DOMAIN u \subseteq Nat
  BY <1>3, LenProperties
<1>6. /\ u \in Seq(T)
      /\ \A i \in DOMAIN u : \/ i = 1 /\ u[i] = e
                             \/ i - 1 \in DOMAIN t /\ u[i] = t[i - 1]
  BY <1>1, <1>3
<1>7. /\ \A k : Has(u, k) <=> e.kind = k \/ Has(t, k)
      /\ \A k : Once(t, k) /\ ~(e.kind = k /\ Has(t, k)) => Once(u, k)
  BY <1>1, <1>4
<1> QED BY <1>1, <1>5, <1>6, <1>7

LEMMA CharType ==
  ASSUME NEW k \in Kinds
  PROVE  Char(k) \in CharTypes /\ Char(k).kind = k
BY DEF Char, CharTypes, Cmds

LEMMA FiveType ==
  ASSUME NEW T, NEW a \in T, NEW b \in T, NEW c \in T, NEW d \in T, NEW e \in T
  PROVE  LET p == <<a, b, c, d, e>>
         IN  /\ p \in Seq(T) /\ p # <<>> /\ Head(p) = a /\ DOMAIN p = 1 .. 5
             /\ p[1] = a /\ p[2] = b /\ p[3] = c /\ p[4] = d /\ p[5] = e
OBVIOUS

LEMMA PacketKinds ==
  ASSUME NEW c \in Cmds
  PROVE  /\ Packet(c) \in Seq(CharTypes) /\ Packet(c) # <<>> /\ Head(Packet(c)).kind = "$"
         /\ Has(Packet(c), "$") /\ Once(Packet(c), "$")
         /\ \A i \in DOMAIN Packet(c) : Packet(c)[i].kind = "low" => Packet(c)[i].of = c
<1> DEFINE d == [kind |-> "data", of |-> c]
           h == [kind |-> "high", of |-> c]
           l == [kind |-> "low", of |-> c]
           p == <<Char("$"), d, Char("#"), h, l>>
<1>1. Char("$") \in CharTypes /\ Char("#") \in CharTypes /\ Char("$").kind = "$" /\ Char("#").kind = "#"
  BY CharType DEF Kinds
<1>2. d \in CharTypes /\ h \in CharTypes /\ l \in CharTypes
  BY DEF CharTypes, Kinds
<1>3. d.kind = "data" /\ h.kind = "high" /\ l.kind = "low" /\ l.of = c
  OBVIOUS
<1>4. Packet(c) = p
  BY DEF Packet
<1> HIDE DEF d, h, l
<1>5. /\ p \in Seq(CharTypes) /\ p # <<>> /\ Head(p) = Char("$") /\ DOMAIN p = 1 .. 5
      /\ p[1] = Char("$") /\ p[2] = d /\ p[3] = Char("#") /\ p[4] = h /\ p[5] = l
  BY <1>1, <1>2, FiveType
<1> HIDE DEF p
<1>7. \A i \in DOMAIN p : (p[i].kind = "$" => i = 1) /\ (p[i].kind = "low" => i = 5)
  BY <1>1, <1>3, <1>5
<1> QED BY <1>1, <1>3, <1>4, <1>5, <1>7 DEF Has, Once

(* Out come an acknowledgement or a refusal, an answer, or both. *)
LEMMA MessageType ==
  /\ Ack \in MessageTypes /\ Nak \in MessageTypes /\ Ack.kind = "+" /\ Nak.kind = "-"
  /\ \A a \in Answers : a \in MessageTypes /\ a.kind = "answer"
  /\ None.kind = "none"
  /\ \A v \in Known : \A w \in {"stopped", "eip", "byte", "OK", "error", "empty", "exited"} :
        Answer(w, v) \in Answers /\ Answer(w, v).what = w /\ Answer(w, v).val = v
  /\ Report \in Answers /\ Report.what = "stopped"
BY DEF MessageTypes, Ack, Nak, Answers, None, Report, Answer, Known

LEMMA CommandType ==
  /\ NoCommand \in Cmds
  /\ \A c \in Commands : c \in Cmds /\ c.op \in Plain \cup WithValue
  /\ \A c \in Cmds : c.val \in Known
BY DEF Cmds, Commands, NoCommand, Known
-------------------------------------------------------------------------------
(* What the stub sends and receives. *)

LEMMA Reads ==
  ASSUME LineTypes, LineInv, SumsInv, toStub # <<>>, toStub' = Tail(toStub), host' = host
  PROVE  /\ toStub' \in Seq(CharTypes) /\ Head(toStub) \in CharTypes
         /\ Once(toStub', "$") /\ (Has(toStub', "$") => Has(toStub, "$") /\ ~InPacket)
         /\ Head(toStub).kind = "$" => Has(toStub, "$") /\ ~Has(toStub', "$")
         /\ SumsInv'
<1>1. /\ toStub' \in Seq(CharTypes) /\ Head(toStub) \in CharTypes /\ Head(toStub) = toStub[1]
      /\ 1 \in DOMAIN toStub
      /\ \A i \in DOMAIN toStub' : i \in Nat \ {0} /\ i + 1 \in DOMAIN toStub /\ toStub'[i] = toStub[i + 1]
      /\ Has(toStub', "$") => Has(toStub, "$")
      /\ Once(toStub', "$") /\ (Head(toStub).kind = "$" => ~Has(toStub', "$"))
  BY TailKinds DEF LineTypes, LineInv
<1>2. Has(toStub', "$") => ~InPacket
  BY <1>1 DEF LineInv
<1>3. Head(toStub).kind = "$" => Has(toStub, "$")
  BY <1>1 DEF Has
<1>4. SumsInv'
  BY <1>1 DEF SumsInv
<1> QED BY <1>1, <1>2, <1>3, <1>4

LEMMA LineKept ==
  ASSUME LineTypes, LineInv, NEW out \in Seq(MessageTypes),
         toHost' = toHost \o out, host' = host,
         \A i \in DOMAIN out : out[i].kind \notin {"+", "-"},
         Once(toStub', "$"), Has(toStub', "$") => Has(toStub, "$"),
         InPacket' => ~Has(toStub', "$") /\ (InPacket \/ Has(toStub, "$"))
  PROVE  LineInv' /\ toHost' \in Seq(MessageTypes)
<1>1. ~Has(out, "+") /\ ~Has(out, "-") /\ Once(out, "+") /\ Once(out, "-")
  BY DEF Has, Once
<1>2. /\ toHost' \in Seq(MessageTypes)
      /\ \A k : Has(toHost', k) <=> Has(toHost, k) \/ Has(out, k)
      /\ \A k : Once(toHost, k) /\ Once(out, k) /\ ~(Has(toHost, k) /\ Has(out, k)) => Once(toHost', k)
  BY JoinKinds DEF LineTypes
<1>3. Once(toHost', "-") /\ Once(toHost', "+")
  BY <1>1, <1>2 DEF LineInv
<1>4. (Has(toHost', "-") <=> Has(toHost, "-")) /\ (Has(toHost', "+") <=> Has(toHost, "+"))
  BY <1>1, <1>2
<1> QED BY <1>2, <1>3, <1>4 DEF LineInv

LEMMA AnswersKept ==
  ASSUME LineTypes, AnswersInv, NEW out \in Seq(MessageTypes),
         toHost' = toHost \o out, host' = host,
         \A i \in DOMAIN out : out[i].kind # "+",
         Listens \/ Has(toHost, "+") =>
           /\ \A a : Right(a) => RightFor(a, host.cmd, eip', byte')
           /\ RightFor(answer', host.cmd, eip', byte')
           /\ \A i \in DOMAIN out : RightFor(out[i], host.cmd, eip', byte')
  PROVE  AnswersInv'
<1>1. /\ \A i \in DOMAIN toHost' : \/ i \in DOMAIN toHost /\ toHost'[i] = toHost[i]
                                   \/ i - Len(toHost) \in DOMAIN out /\ toHost'[i] = out[i - Len(toHost)]
      /\ \A k : Has(toHost', k) <=> Has(toHost, k) \/ Has(out, k)
  BY JoinKinds DEF LineTypes
<1>2. Listens' <=> Listens
  BY DEF Listens
<1>3. Has(toHost', "+") <=> Has(toHost, "+")
  BY <1>1 DEF Has
<1>4. Listens \/ Has(toHost, "+") => RightFor(answer', host'.cmd, eip', byte')
  OBVIOUS
<1>5. Listens => \A i \in DOMAIN toHost' : RightFor(toHost'[i], host'.cmd, eip', byte')
  <2>1. Listens => \A i \in DOMAIN toHost : RightFor(toHost[i], host.cmd, eip', byte')
    BY DEF AnswersInv
  <2> QED BY <1>1, <2>1
<1>6. ASSUME NEW i \in DOMAIN toHost', NEW j \in DOMAIN toHost', j < i, toHost'[j].kind = "+"
      PROVE  RightFor(toHost'[i], host'.cmd, eip', byte')
  <2>1. j \in DOMAIN toHost /\ toHost'[j] = toHost[j]
    BY <1>1, <1>6
  <2>2. Has(toHost, "+")
    BY <1>6, <2>1 DEF Has
  <2>3. CASE i \in DOMAIN toHost /\ toHost'[i] = toHost[i]
    <3>1. Right(toHost[i])
      BY <1>6, <2>1, <2>3 DEF AnswersInv
    <3> QED BY <2>2, <2>3, <3>1
  <2>4. CASE i - Len(toHost) \in DOMAIN out /\ toHost'[i] = out[i - Len(toHost)]
    BY <2>2, <2>4
  <2> QED BY <1>1, <2>3, <2>4
<1> QED BY <1>2, <1>3, <1>4, <1>5, <1>6 DEF AnswersInv, Right

(* As long as what the program will find is not changed. *)
LEMMA AnswersStay ==
  ASSUME LineTypes, AnswersInv, NEW out \in Seq(MessageTypes),
         toHost' = toHost \o out, UNCHANGED <<host, eip, byte>>,
         \A i \in DOMAIN out : out[i].kind # "+" /\ (out[i] = answer \/ Right(out[i])),
         answer' = answer \/ Right(answer')
  PROVE  AnswersInv'
<1>1. Listens \/ Has(toHost, "+") => Right(answer)
  BY DEF AnswersInv
<1>2. \A i \in DOMAIN out : out[i].kind # "+"
  OBVIOUS
<1>3. Listens \/ Has(toHost, "+") =>
        /\ \A a : Right(a) => RightFor(a, host.cmd, eip', byte')
        /\ RightFor(answer', host.cmd, eip', byte')
        /\ \A i \in DOMAIN out : RightFor(out[i], host.cmd, eip', byte')
  BY <1>1 DEF Right
<1> QED BY <1>2, <1>3, AnswersKept

LEMMA StubSpeaks ==
  ASSUME GdbInv, toStub # <<>>, toStub' = Tail(toStub), UNCHANGED <<gdb, target>>,
         NEW out \in Seq(MessageTypes), toHost' = toHost \o out,
         \A i \in DOMAIN out : out[i].kind \notin {"+", "-"} /\ (out[i] = answer \/ Right(out[i])),
         answer' = answer \/ Right(answer'), StubTypes',
         InPacket' => InPacket \/ Head(toStub).kind = "$", Away' => Away
  PROVE  GdbInv'
<1>1. UNCHANGED <<host, belief, eip, byte>>
  BY DEF gdb, target
<1>2. LineTypes /\ LineInv /\ SumsInv /\ AnswersInv
  BY DEF GdbInv
<1>3. /\ toStub' \in Seq(CharTypes) /\ Once(toStub', "$") /\ SumsInv'
      /\ Has(toStub', "$") => Has(toStub, "$") /\ ~InPacket
      /\ Head(toStub).kind = "$" => Has(toStub, "$") /\ ~Has(toStub', "$")
  BY <1>1, <1>2, Reads
<1>4. LineInv' /\ toHost' \in Seq(MessageTypes)
  BY <1>1, <1>2, <1>3, LineKept
<1>5. AnswersInv'
  BY <1>1, <1>2, AnswersStay
<1>6. HostTypes' /\ ForgottenInv' /\ BeliefTrue'
  BY <1>1 DEF GdbInv, HostTypes, ForgottenInv, BeliefTrue
<1>7. AwayInv'
  <2>1. Has(toHost', "+") => Has(toHost, "+")
    <3>1. \A k : Has(toHost', k) <=> Has(toHost, k) \/ Has(out, k)
      BY <1>2, JoinKinds DEF LineTypes
    <3> QED BY <3>1 DEF Has
  <2> QED BY <1>1, <2>1 DEF GdbInv, AwayInv, Listens
<1> QED BY <1>3, <1>4, <1>5, <1>6, <1>7 DEF GdbInv, LineTypes

LEMMA SaidAlone ==
  ASSUME NEW before, NEW a \in Answers, before = <<>>, PutPacket(before, a)
  PROVE  toHost' = toHost \o <<a>> /\ answer' = a /\ at' = "putfrags"
<1>1. <<a>> \in Seq(Answers)
  BY OneKind
<1>2. <<>> \o <<a>> = <<a>>
  BY <1>1, ConcatEmptySeq
<1> QED BY <1>2 DEF PutPacket, Send

LEMMA NothingSaid ==
  ASSUME LineTypes
  PROVE  /\ <<>> \in Seq(MessageTypes) /\ toHost = toHost \o <<>>
         /\ \A i \in DOMAIN <<>> : FALSE
BY EmptySeq, ConcatEmptySeq DEF LineTypes

LEMMA AfterPutfrags ==
  ASSUME GdbInv, toStub # <<>>, toStub' = Tail(toStub), UNCHANGED gdb, Putfrags(Head(toStub))
  PROVE  GdbInv'
<1>1. at = "putfrags" /\ UNCHANGED <<gdb, target, buffer, high>>
  BY DEF Putfrags, stub
<1>2. LineTypes /\ StubTypes
  BY DEF GdbInv
<1>3. CASE Head(toStub).kind # "+"
  <2>1. toHost' = toHost \o <<answer>> /\ UNCHANGED stub
    BY <1>3 DEF Putfrags, SendAgain, Send
  <2>2. answer \in MessageTypes /\ answer.kind = "answer"
    BY <1>1, <1>2, MessageType DEF StubTypes
  <2>3. /\ <<answer>> \in Seq(MessageTypes) /\ DOMAIN <<answer>> = {1} /\ <<answer>>[1] = answer
    BY <2>2, OneKind
  <2>4. StubTypes' /\ ~InPacket' /\ (Away' => Away)
    BY <1>1, <1>2, <2>1 DEF stub, target, StubTypes, InPacket, Away
  <2>5. answer' = answer
    BY <2>1 DEF stub
  <2> QED BY <1>1, <2>1, <2>2, <2>3, <2>4, <2>5, StubSpeaks
<1>4. CASE Head(toStub).kind = "+"
  <2>1. /\ toHost' = toHost /\ answer' = None /\ at' \in {"hunt", "off", "program"}
        /\ at' = "program" => Away
        /\ retval' \in {"GDB_MORE", "GDB_DETACH", "reboot"}
    <3>1. CASE retval = "GDB_MORE" \/ retval = "reboot"
      BY <1>1, <1>2, <1>4, <3>1 DEF Putfrags, StubTypes
    <3>2. CASE retval = "GDB_DETACH"
      <4>1. Return("GDB_DETACH", <<>>)
        BY <1>4, <3>2 DEF Putfrags
      <4>2. at' = "program" /\ toHost' = toHost \o <<>> /\ answer' = None /\ retval' = "GDB_MORE"
        BY <4>1 DEF Return, Send
      <4> QED BY <1>1, <1>2, <3>2, <4>2, NothingSaid DEF Away
    <3> QED BY <1>2, <3>1, <3>2 DEF StubTypes
  <2>2. StubTypes' /\ ~InPacket' /\ (Away' => Away)
    BY <1>1, <1>2, <2>1 DEF target, StubTypes, InPacket, Away
  <2>3. Right(answer')
    BY <2>1, MessageType DEF Right, RightFor
  <2> QED BY <1>1, <1>2, <2>1, <2>2, <2>3, NothingSaid, StubSpeaks
<1> QED BY <1>3, <1>4

LEMMA AfterPart ==
  ASSUME GdbInv, toStub # <<>>, toStub' = Tail(toStub), UNCHANGED gdb,
         Hunt(Head(toStub)) \/ Data(Head(toStub)) \/ High(Head(toStub))
  PROVE  GdbInv'
<1>1. /\ at' \in {"hunt", "data", "high", "low"}
      /\ UNCHANGED <<answer, retval, target, toHost>>
  BY DEF Hunt, Data, High
<1>2. LineTypes /\ StubTypes /\ Head(toStub) \in CharTypes
  BY TailKinds DEF GdbInv, LineTypes
<1>3. InPacket' => InPacket \/ Head(toStub).kind = "$"
  BY DEF Hunt, Data, High, InPacket
<1>4. buffer' \in Seq(CharTypes) /\ high' \in CharTypes
  <2>1. Append(buffer, Head(toStub)) \in Seq(CharTypes)
    BY <1>2, AppendProperties DEF StubTypes
  <2>2. <<>> \in Seq(CharTypes)
    BY EmptySeq
  <2> QED BY <1>2, <2>1, <2>2 DEF Hunt, Data, High, StubTypes
<1>5. StubTypes'
  BY <1>1, <1>2, <1>4 DEF StubTypes, target
<1>6. ~Away'
  BY <1>1 DEF Away
<1> QED BY <1>1, <1>2, <1>3, <1>5, <1>6, NothingSaid, StubSpeaks

LEMMA SumsOfCommand ==
  ASSUME GdbInv, toStub # <<>>, at = "low", SumAgrees(Head(toStub))
  PROVE  host.waits = "ack" /\ buffer[1].of = host.cmd
<1>1. host.waits = "ack"
  BY DEF GdbInv, LineInv, InPacket
<1>2. Head(toStub) = toStub[1] /\ 1 \in DOMAIN toStub
  BY TailKinds DEF GdbInv, LineTypes
<1>3. Head(toStub).of = host.cmd
  BY <1>1, <1>2 DEF GdbInv, SumsInv, SumAgrees
<1> QED BY <1>1, <1>3 DEF SumAgrees

(* In a packet, nothing but the command that gdb waits for is on the way. *)
LEMMA InsidePacket ==
  ASSUME GdbInv, InPacket, toStub # <<>>, toStub' = Tail(toStub), host' = host
  PROVE  /\ host.waits = "ack" /\ ~Has(toHost, "+") /\ ~Has(toHost, "-") /\ ~Has(toStub', "$")
         /\ toStub' \in Seq(CharTypes) /\ Once(toStub', "$") /\ SumsInv'
<1>1. LineTypes /\ LineInv /\ SumsInv
  BY DEF GdbInv
<1> QED BY <1>1, Reads DEF LineInv

LEMMA AfterBadSum ==
  ASSUME GdbInv, toStub # <<>>, toStub' = Tail(toStub), UNCHANGED gdb, BadSum(Head(toStub))
  PROVE  GdbInv'
<1>1. /\ InPacket /\ at' = "hunt" /\ toHost' = toHost \o <<Nak>>
      /\ UNCHANGED <<host, belief, eip, byte, answer, retval>>
      /\ high' = Char("none") /\ buffer' = <<>>
  BY DEF BadSum, Send, InPacket, gdb, target
<1>2. LineTypes /\ StubTypes /\ LineInv /\ AnswersInv
  BY DEF GdbInv
<1>3. /\ host.waits = "ack" /\ ~Has(toHost, "+") /\ ~Has(toHost, "-") /\ ~Has(toStub', "$")
      /\ toStub' \in Seq(CharTypes) /\ Once(toStub', "$") /\ SumsInv'
  BY <1>1, InsidePacket
<1>4. /\ <<Nak>> \in Seq(MessageTypes) /\ DOMAIN <<Nak>> = {1} /\ <<Nak>>[1] = Nak
      /\ \A k : (Has(<<Nak>>, k) <=> k = "-") /\ Once(<<Nak>>, k)
  BY MessageType, OneKind
<1>5. /\ toHost' \in Seq(MessageTypes)
      /\ \A k : Has(toHost', k) <=> Has(toHost, k) \/ Has(<<Nak>>, k)
      /\ \A k : Once(toHost, k) /\ Once(<<Nak>>, k) /\ ~(Has(toHost, k) /\ Has(<<Nak>>, k))
                  => Once(toHost', k)
  BY <1>1, <1>2, <1>4, JoinKinds DEF LineTypes
<1>6. LineInv'
  <2>1. Once(toHost', "-") /\ Once(toHost', "+") /\ ~Has(toHost', "+")
    BY <1>2, <1>3, <1>4, <1>5 DEF LineInv
  <2>2. ~InPacket'
    BY <1>1 DEF InPacket
  <2> QED BY <1>1, <1>3, <2>1, <2>2 DEF LineInv
<1>7. AnswersInv'
  <2>1. Right(Nak) /\ Nak.kind # "+"
    BY MessageType DEF Right, RightFor
  <2> QED BY <1>1, <1>2, <1>4, <2>1, AnswersStay
<1>8. StubTypes'
  BY <1>1, <1>2, EmptySeq, CharType DEF StubTypes, Kinds
<1>9. HostTypes' /\ ForgottenInv' /\ BeliefTrue'
  BY <1>1 DEF GdbInv, HostTypes, ForgottenInv, BeliefTrue
<1>10. AwayInv'
  BY <1>1 DEF AwayInv, Away
<1> QED BY <1>3, <1>5, <1>6, <1>7, <1>8, <1>9, <1>10 DEF GdbInv, LineTypes

LEMMA ReplyRight ==
  ASSUME NEW c \in Commands, c.op \notin Resumes \cup {"R", "k"}, Effect(c), StubTypes
  PROVE  Reply(c) \in Answers /\ RightFor(Reply(c), c, eip', byte')
<1>1. eip \in Known /\ byte \in Known /\ Unknown \in Known
  BY DEF StubTypes, Known
<1>2. c.op \in {"g", "m", "?", "P", "PP", "M", "!", "D", "MM", "refused", "unknown"}
  BY CommandType DEF Plain, WithValue, Resumes
<1>3. /\ eip' = IF c.op \in {"P", "PP", "cAA"} THEN c.val ELSE eip
      /\ byte' = IF c.op \in {"M", "MM"} THEN c.val ELSE byte
  BY DEF Effect
<1>4. CASE c.op = "g"
  <2>1. Reply(c) = Answer("eip", eip)
    BY <1>4 DEF Reply
  <2> QED BY <1>1, <1>3, <1>4, <2>1, MessageType DEF RightFor
<1>5. CASE c.op = "m"
  <2>1. Reply(c) = Answer("byte", byte)
    BY <1>5 DEF Reply
  <2> QED BY <1>1, <1>3, <1>5, <2>1, MessageType DEF RightFor
<1>6. CASE c.op = "?"
  <2>1. Reply(c) = Report
    BY <1>6 DEF Reply
  <2> QED BY <2>1, MessageType DEF RightFor
<1>7. CASE c.op \in {"P", "M", "!", "D"}
  <2>1. Reply(c) = Answer("OK", Unknown)
    BY <1>7 DEF Reply
  <2> QED BY <1>1, <1>3, <1>7, <2>1, MessageType DEF RightFor
<1>8. CASE c.op \in {"PP", "MM", "refused"}
  <2>1. Reply(c) = Answer("error", Unknown)
    BY <1>8 DEF Reply
  <2> QED BY <1>1, <2>1, MessageType DEF RightFor
<1>9. CASE c.op = "unknown"
  <2>1. Reply(c) = Answer("empty", Unknown)
    BY <1>9 DEF Reply
  <2> QED BY <1>1, <2>1, MessageType DEF RightFor
<1> QED BY <1>2, <1>4, <1>5, <1>6, <1>7, <1>8, <1>9

(* What an executed command makes the stub say, and where it leaves it. *)
LEMMA Executed ==
  ASSUME NEW c \in Commands, Execute(c), StubTypes
  PROVE  /\ \/ toHost' = toHost \o <<Ack>>
            \/ \E r \in Answers : toHost' = toHost \o (<<Ack>> \o <<r>>) /\ RightFor(r, c, eip', byte')
         /\ answer' \in Answers \cup {None} /\ RightFor(answer', c, eip', byte')
         /\ at' \in {"program", "off", "putfrags"} /\ (at' = "putfrags" => answer' \in Answers)
         /\ retval' \in {"GDB_MORE", "GDB_DETACH"}
         /\ Away' => c.op \in Resumes \cup {"R", "D"}
         /\ eip' \in Known /\ byte' \in Known
<1>1. eip' \in Known /\ byte' \in Known
  BY CommandType DEF Execute, Effect, StubTypes
<1>2. None.kind = "none" /\ RightFor(None, c, eip', byte')
  BY MessageType DEF RightFor
<1>3. CASE c.op \in Resumes \cup {"R"}
  <2>1. at' = "program" /\ toHost' = toHost \o <<Ack>> /\ answer' = None /\ retval' = "GDB_MORE"
    BY <1>3 DEF Execute, Return, Resumes, Send
  <2> QED BY <1>1, <1>2, <1>3, <2>1
<1>4. CASE c.op = "k"
  <2>1. ~connected' /\ GdbSerialExit(<<Ack>>)
    BY <1>4 DEF Execute, Return, Resumes, Closes
  <2>2. at' = "off" /\ toHost' = toHost \o <<Ack>> /\ answer' = None /\ retval' = "GDB_MORE"
    BY <2>1 DEF GdbSerialExit, Send
  <2> QED BY <1>1, <1>2, <2>2 DEF Away
<1>5. CASE c.op \notin Resumes \cup {"R", "k"}
  <2>1. /\ PutPacket(<<Ack>>, Reply(c)) /\ Effect(c)
        /\ retval' = IF c.op = "D" THEN "GDB_DETACH" ELSE "GDB_MORE"
    BY <1>5 DEF Execute, Resumes
  <2>2. /\ toHost' = toHost \o (<<Ack>> \o <<Reply(c)>>)
        /\ answer' = Reply(c) /\ at' = "putfrags"
    BY <2>1 DEF PutPacket, Send
  <2>3. Reply(c) \in Answers /\ RightFor(Reply(c), c, eip', byte')
    BY <1>5, <2>1, ReplyRight
  <2>4. Away' => c.op = "D"
    BY <2>1, <2>2 DEF Away
  <2> QED BY <1>1, <2>1, <2>2, <2>3, <2>4
<1> QED BY <1>3, <1>4, <1>5

LEMMA AckKinds ==
  ASSUME NEW r \in Answers, NEW out \in {<<Ack>>, <<Ack>> \o <<r>>}
  PROVE  /\ out \in Seq(MessageTypes) /\ Has(out, "+") /\ ~Has(out, "-")
         /\ Once(out, "+") /\ Once(out, "-")
         /\ \A i, j \in DOMAIN out : j < i => out[i] = r
<1>1. /\ Ack \in MessageTypes /\ r \in MessageTypes /\ Ack.kind = "+" /\ r.kind = "answer"
  BY MessageType
<1>2. /\ <<Ack>> \in Seq(MessageTypes) /\ DOMAIN <<Ack>> = {1} /\ <<Ack>>[1] = Ack
      /\ \A k : (Has(<<Ack>>, k) <=> k = "+") /\ Once(<<Ack>>, k)
  BY <1>1, OneKind
<1>3. /\ <<r>> \in Seq(MessageTypes) /\ DOMAIN <<r>> = {1} /\ <<r>>[1] = r
      /\ \A k : (Has(<<r>>, k) <=> k = "answer") /\ Once(<<r>>, k)
  BY <1>1, OneKind
<1>4. CASE out = <<Ack>>
  BY <1>2, <1>4
<1>5. CASE out = <<Ack>> \o <<r>>
  <2>1. /\ out \in Seq(MessageTypes)
        /\ \A k : Has(out, k) <=> Has(<<Ack>>, k) \/ Has(<<r>>, k)
        /\ \A k : Once(<<Ack>>, k) /\ Once(<<r>>, k) /\ ~(Has(<<Ack>>, k) /\ Has(<<r>>, k)) => Once(out, k)
    BY <1>2, <1>3, <1>5, JoinKinds
  <2>2. Len(out) = 2 /\ out[2] = r
    BY <1>2, <1>3, <1>5, ConcatProperties
  <2>3. DOMAIN out = 1 .. 2
    BY <2>1, <2>2, LenProperties
  <2> QED BY <1>2, <1>3, <2>1, <2>2, <2>3
<1> QED BY <1>4, <1>5

LEMMA AfterGoodSum ==
  ASSUME GdbInv, toStub # <<>>, toStub' = Tail(toStub), UNCHANGED gdb, GoodSum(Head(toStub))
  PROVE  GdbInv'
<1>1. /\ at = "low" /\ InPacket /\ SumAgrees(Head(toStub)) /\ UNCHANGED <<host, belief>>
      /\ high' = Char("none") /\ buffer' = <<>>
  BY DEF GoodSum, InPacket, gdb
<1>2. LineTypes /\ StubTypes /\ HostTypes /\ LineInv /\ ForgottenInv
  BY DEF GdbInv
<1>3. PICK c \in Commands : c = host.cmd /\ Execute(c)
  <2>1. host.waits = "ack" /\ buffer[1].of = host.cmd
    BY <1>1, SumsOfCommand
  <2> QED BY <1>2, <2>1 DEF HostTypes, GoodSum
<1>4. /\ host.waits = "ack" /\ ~Has(toHost, "+") /\ ~Has(toHost, "-") /\ ~Has(toStub', "$")
      /\ toStub' \in Seq(CharTypes) /\ Once(toStub', "$") /\ SumsInv'
  BY <1>1, InsidePacket
<1>5. /\ answer' \in Answers \cup {None} /\ RightFor(answer', c, eip', byte')
      /\ at' \in {"program", "off", "putfrags"} /\ (at' = "putfrags" => answer' \in Answers)
      /\ retval' \in {"GDB_MORE", "GDB_DETACH"}
      /\ Away' => c.op \in Resumes \cup {"R", "D"}
      /\ eip' \in Known /\ byte' \in Known
  BY <1>2, <1>3, Executed
<1>6. PICK r \in Answers : \E out \in {<<Ack>>, <<Ack>> \o <<r>>} :
         /\ toHost' = toHost \o out
         /\ out # <<Ack>> => RightFor(r, c, eip', byte')
  <2>1. Report \in Answers
    BY MessageType
  <2>2. CASE toHost' = toHost \o <<Ack>>
    BY <2>1, <2>2
  <2>3. CASE \E r \in Answers : toHost' = toHost \o (<<Ack>> \o <<r>>) /\ RightFor(r, c, eip', byte')
    BY <2>3
  <2> QED BY <1>2, <1>3, <2>2, <2>3, Executed
<1>7. PICK out \in {<<Ack>>, <<Ack>> \o <<r>>} :
        /\ toHost' = toHost \o out
        /\ out # <<Ack>> => RightFor(r, c, eip', byte')
  BY <1>6
<1>8. /\ out \in Seq(MessageTypes) /\ Has(out, "+") /\ ~Has(out, "-")
      /\ Once(out, "+") /\ Once(out, "-")
      /\ \A i, j \in DOMAIN out : j < i => out[i] = r
  BY <1>7, AckKinds
<1>9. /\ toHost' \in Seq(MessageTypes)
      /\ \A i \in DOMAIN toHost' : \/ i \in DOMAIN toHost /\ toHost'[i] = toHost[i]
                                   \/ i - Len(toHost) \in DOMAIN out /\ toHost'[i] = out[i - Len(toHost)]
      /\ \A i \in DOMAIN toHost : toHost'[i] = toHost[i] /\ i <= Len(toHost)
      /\ \A k : Has(toHost', k) <=> Has(toHost, k) \/ Has(out, k)
      /\ \A k : Once(toHost, k) /\ Once(out, k) /\ ~(Has(toHost, k) /\ Has(out, k)) => Once(toHost', k)
  BY <1>2, <1>7, <1>8, JoinKinds DEF LineTypes
<1>10. LineInv'
  <2>1. Once(toHost', "-") /\ Once(toHost', "+") /\ Has(toHost', "+") /\ ~Has(toHost', "-")
    BY <1>2, <1>4, <1>8, <1>9 DEF LineInv
  <2>2. ~InPacket'
    BY <1>5 DEF InPacket
  <2> QED BY <1>1, <1>4, <2>1, <2>2 DEF LineInv
<1>11. AnswersInv'
  <2>1. ~Listens'
    BY <1>1, <1>4 DEF Listens
  <2>2. ASSUME NEW i \in DOMAIN toHost', NEW j \in DOMAIN toHost', j < i, toHost'[j].kind = "+"
        PROVE  RightFor(toHost'[i], c, eip', byte')
    <3>0. Len(toHost) \in Nat /\ DOMAIN out \subseteq Nat /\ DOMAIN toHost \subseteq Nat
      BY <1>2, <1>8, LenProperties DEF LineTypes
    <3>1. j - Len(toHost) \in DOMAIN out /\ toHost'[j] = out[j - Len(toHost)] /\ j \notin DOMAIN toHost
      BY <1>4, <1>9, <2>2 DEF Has
    <3>2. i \in Nat /\ j \in Nat
      <4>1. Len(toHost') \in Nat /\ DOMAIN toHost' = 1 .. Len(toHost')
        BY <1>9, LenProperties
      <4> QED BY <2>2, <4>1
    <3>3. DOMAIN toHost = 1 .. Len(toHost) /\ DOMAIN out = 1 .. Len(out) /\ Len(out) \in Nat
      BY <1>2, <1>8, LenProperties DEF LineTypes
    <3>4. i \notin DOMAIN toHost
      BY <2>2, <3>0, <3>1, <3>2, <3>3
    <3>5. i - Len(toHost) \in DOMAIN out /\ toHost'[i] = out[i - Len(toHost)]
      BY <1>9, <2>2, <3>4
    <3>6. toHost'[i] = r
      <4>1. j - Len(toHost) < i - Len(toHost)
        BY <2>2, <3>0, <3>2
      <4> QED BY <1>8, <3>1, <3>5, <4>1
    <3>7. out # <<Ack>>
      <4>1. <<Ack>> \in Seq(MessageTypes) /\ DOMAIN <<Ack>> = {1}
        BY MessageType, OneKind
      <4> QED BY <2>2, <3>0, <3>1, <3>2, <3>5, <4>1
    <3> QED BY <1>7, <3>6, <3>7
  <2> QED BY <1>1, <1>3, <1>5, <2>1, <2>2 DEF AnswersInv, Right
<1>12. StubTypes'
  BY <1>1, <1>2, <1>5, EmptySeq, CharType DEF StubTypes, Kinds
<1>13. HostTypes' /\ ForgottenInv'
  BY <1>1, <1>2 DEF HostTypes, ForgottenInv
<1>14. AwayInv'
  BY <1>1, <1>2, <1>3, <1>4, <1>5 DEF AwayInv, ForgottenInv
<1>15. BeliefTrue'
  <2>1. /\ eip' = IF c.op \in {"P", "PP", "cAA"} THEN c.val ELSE eip
        /\ byte' = IF c.op \in {"M", "MM"} THEN c.val ELSE byte
    BY <1>3 DEF Execute, Effect
  <2> QED BY <1>1, <1>2, <1>3, <1>4, <2>1 DEF ForgottenInv, BeliefTrue, Resumes, GdbInv
<1> QED BY <1>4, <1>9, <1>10, <1>11, <1>12, <1>13, <1>14, <1>15 DEF GdbInv, LineTypes

LEMMA AfterReceive ==
  ASSUME GdbInv, Receive
  PROVE  GdbInv'
<1>1. toStub # <<>> /\ toStub' = Tail(toStub) /\ UNCHANGED gdb
  BY DEF Receive
<1> QED BY <1>1, AfterPutfrags, AfterPart, AfterBadSum, AfterGoodSum DEF Receive
-------------------------------------------------------------------------------
(* The program and the user of its screen. *)

LEMMA WhileAway ==
  ASSUME GdbInv, at \in {"program", "screen"}, UNCHANGED gdb,
         toStub' \in Seq(CharTypes), Once(toStub', "$"), Has(toStub', "$") => Has(toStub, "$"), SumsInv',
         NEW r \in Answers, r.what \in {"stopped", "exited"},
         \/ toHost' = toHost /\ answer' \in {answer, None}
         \/ toHost' = toHost \o <<r>> /\ answer' = r,
         StubTypes', at' \notin {"data", "high", "low"}
  PROVE  GdbInv'
<1>1. UNCHANGED <<host, belief>> /\ LineTypes /\ LineInv /\ AnswersInv
  BY DEF gdb, GdbInv
<1>2. /\ belief.eip = Unknown /\ belief.byte = Unknown
      /\ Listens \/ Has(toHost, "+") => host.cmd.op \in Resumes \cup {"R", "D"}
  BY DEF GdbInv, AwayInv, Away
<1>3. r \in MessageTypes /\ r.kind = "answer" /\ None.kind = "none"
  BY MessageType
<1>4. /\ <<r>> \in Seq(MessageTypes) /\ DOMAIN <<r>> = {1} /\ <<r>>[1] = r
  BY <1>3, OneKind
<1>5. PICK out \in Seq(MessageTypes) :
        /\ toHost' = toHost \o out
        /\ \A i \in DOMAIN out : out[i] = r
        /\ answer' \in {answer, None, r}
  BY <1>1, <1>4, NothingSaid
<1>6. LineInv' /\ toHost' \in Seq(MessageTypes)
  <2>1. ~InPacket'
    BY DEF InPacket
  <2> QED BY <1>1, <1>3, <1>5, <2>1, LineKept
<1>7. AnswersInv'
  <2>1. RightFor(r, host.cmd, eip', byte') /\ RightFor(None, host.cmd, eip', byte')
    BY <1>3 DEF RightFor
  <2>2. ASSUME Listens \/ Has(toHost, "+")
        PROVE  /\ \A a : Right(a) => RightFor(a, host.cmd, eip', byte')
               /\ RightFor(answer', host.cmd, eip', byte')
    <3>1. host.cmd.op \notin {"g", "m", "P", "M"}
      BY <1>2, <2>2 DEF Resumes
    <3>2. \A a : Right(a) => RightFor(a, host.cmd, eip', byte')
      BY <3>1 DEF Right, RightFor
    <3>3. Right(answer)
      BY <1>1, <2>2 DEF AnswersInv
    <3> QED BY <1>5, <2>1, <3>2, <3>3
  <2> QED BY <1>1, <1>3, <1>5, <2>1, <2>2, AnswersKept
<1>8. Has(toHost', "+") => Has(toHost, "+")
  <2>1. Has(toHost \o out, "+") <=> Has(toHost, "+") \/ Has(out, "+")
    BY <1>1, JoinKinds DEF LineTypes
  <2> QED BY <1>3, <1>5, <2>1 DEF Has
<1>9. HostTypes' /\ ForgottenInv' /\ BeliefTrue' /\ AwayInv'
  BY <1>1, <1>2, <1>8 DEF GdbInv, HostTypes, ForgottenInv, BeliefTrue, AwayInv, Listens
<1> QED BY <1>6, <1>7, <1>9 DEF GdbInv, LineTypes

LEMMA AfterTrap ==
  ASSUME GdbInv, Trap
  PROVE  GdbInv'
<1>1. /\ at = "program" /\ eip' \in Known /\ byte' \in Known /\ UNCHANGED <<gdb, buffer, high>>
      /\ \/ toHost' = toHost \o <<Report>> /\ answer' = Report /\ retval' = "GDB_MORE" /\ at' = "putfrags"
         \/ UNCHANGED <<toHost, answer, retval>> /\ at' = "screen"
  BY DEF Trap, Converse, PutPacket, Send, Known, stub
<1>2. LineTypes /\ StubTypes /\ LineInv /\ SumsInv
  BY DEF GdbInv
<1>3. PICK k \in 0 .. (IF toStub = <<>> THEN 0 ELSE Len(toStub) - 1) :
        toStub' = SubSeq(toStub, k + 1, Len(toStub))
  BY DEF Trap
<1>4. PICK n \in 1 .. Len(toStub) + 1 : n = k + 1
  <2>1. Len(toStub) \in Nat /\ k \in Nat /\ k <= Len(toStub)
    BY <1>2, LenProperties DEF LineTypes
  <2> QED BY <2>1
<1>5. /\ toStub' \in Seq(CharTypes) /\ Once(toStub', "$") /\ (Has(toStub', "$") => Has(toStub, "$"))
      /\ \A i \in DOMAIN toStub' : i + n - 1 \in DOMAIN toStub /\ toStub'[i] = toStub[i + n - 1]
  <2>1. toStub' = SubSeq(toStub, n, Len(toStub)) /\ toStub \in Seq(CharTypes)
    BY <1>2, <1>3, <1>4 DEF LineTypes
  <2> QED BY <1>2, <2>1, SuffixKinds DEF LineInv
<1>6. SumsInv'
  BY <1>1, <1>2, <1>5 DEF SumsInv, gdb
<1>7. Report \in Answers /\ Report.what = "stopped"
  BY MessageType
<1>8. StubTypes'
  BY <1>1, <1>2, <1>7 DEF StubTypes
<1> QED BY <1>1, <1>5, <1>6, <1>7, <1>8, WhileAway

LEMMA AfterKey ==
  ASSUME GdbInv, Key
  PROVE  GdbInv'
<1>1. /\ at = "screen" /\ UNCHANGED <<gdb, buffer, high, eip, byte, toStub>>
  BY DEF Key, KeyIgnore, KeyDebug, KeyReboot, target
<1>2. LineTypes /\ StubTypes /\ LineInv /\ SumsInv
  BY DEF GdbInv
<1>3. toStub' \in Seq(CharTypes) /\ Once(toStub', "$") /\ (Has(toStub', "$") => Has(toStub, "$")) /\ SumsInv'
  BY <1>1, <1>2 DEF LineTypes, LineInv, SumsInv, gdb
<1>4. PICK r \in Answers :
        /\ r.what \in {"stopped", "exited"}
        /\ \/ toHost' = toHost /\ answer' \in {answer, None}
           \/ toHost' = toHost \o <<r>> /\ answer' = r
        /\ at' \in {"program", "putfrags", "off"} /\ (at' = "putfrags" => answer' = r)
        /\ retval' \in {retval, "GDB_MORE", "reboot"} /\ answer' \in {answer, None, r}
  <2>1. Report \in Answers /\ Report.what = "stopped"
    BY MessageType
  <2>2. CASE KeyIgnore
    BY <2>1, <2>2 DEF KeyIgnore
  <2>3. CASE KeyDebug
    <3>1. PutPacket(<<>>, Report) /\ retval' = "GDB_MORE"
      BY <2>3 DEF KeyDebug, Converse
    <3> QED BY <2>1, <3>1, SaidAlone
  <2>4. CASE KeyReboot
    <3>1. Answer("exited", Unknown) \in Answers /\ Answer("exited", Unknown).what = "exited"
      BY MessageType DEF Known
    <3>2. GdbSerialExit(<<>>)
      BY <2>4 DEF KeyReboot
    <3>3. CASE connected'
      <4>1. PutPacket(<<>>, Answer("exited", Unknown)) /\ retval' = "reboot"
        BY <3>2, <3>3 DEF GdbSerialExit
      <4> QED BY <3>1, <4>1, SaidAlone
    <3>4. CASE ~connected'
      BY <1>2, <2>1, <3>2, <3>4, NothingSaid DEF GdbSerialExit, Send
    <3> QED BY <3>3, <3>4
  <2> QED BY <2>2, <2>3, <2>4 DEF Key
<1>5. StubTypes'
  BY <1>1, <1>2, <1>4 DEF StubTypes
<1> QED BY <1>1, <1>3, <1>4, <1>5, WhileAway
-------------------------------------------------------------------------------
(* gdb. *)

LEMMA HostDomain ==
  ASSUME HostTypes, NEW w \in {"off", "nothing", "ack", "answer", "stop"}, Waits(w)
  PROVE  /\ host' \in [waits : {"off", "nothing", "ack", "answer", "stop"}, cmd : Cmds, tries : Int]
         /\ host'.waits = w /\ host'.cmd = host.cmd
<1>1. host' = [host EXCEPT !.waits = w, !.tries = 0]
  BY DEF Waits
<1>2. host' = [waits |-> w, cmd |-> host.cmd, tries |-> 0]
  BY <1>1 DEF HostTypes
<1> QED BY <1>2 DEF HostTypes

LEMMA AfterAttach ==
  ASSUME GdbInv, HostAttach
  PROVE  GdbInv'
<1>1. /\ host.waits = "off" /\ Waits("nothing")
      /\ toHost' = <<>> /\ toStub' = Append(toStub, Char("+")) /\ UNCHANGED <<belief, stub, target>>
  BY DEF HostAttach, SendChar
<1>2. LineTypes /\ StubTypes /\ HostTypes /\ LineInv /\ AwayInv
  BY DEF GdbInv
<1>3. host' \in [waits : {"off", "nothing", "ack", "answer", "stop"}, cmd : Cmds, tries : Int]
  BY <1>1, <1>2, HostDomain
<1>4. host'.waits = "nothing"
  BY <1>1, <1>2, HostDomain
<1>5. Char("+") \in CharTypes /\ Char("+").kind = "+"
  BY CharType DEF Kinds
<1>6. /\ toStub' \in Seq(CharTypes) /\ Once(toStub', "$")
      /\ Has(toStub', "$") <=> Has(toStub, "$")
  BY <1>1, <1>2, <1>5, AppendKinds DEF LineTypes, LineInv
<1>7. toHost' \in Seq(MessageTypes) /\ DOMAIN toHost' = {}
  BY <1>1, EmptySeq
<1>8. LineInv'
  BY <1>1, <1>2, <1>6, <1>7 DEF LineInv, InPacket, Has, Once, stub
<1>9. StubTypes' /\ HostTypes'
  BY <1>1, <1>2, <1>3, <1>4 DEF StubTypes, HostTypes, stub, target
<1>10. SumsInv' /\ ForgottenInv' /\ AnswersInv'
  BY <1>4, <1>7 DEF SumsInv, ForgottenInv, AnswersInv, Listens, Has
<1>11. AwayInv' /\ BeliefTrue'
  BY <1>1, <1>4, <1>7 DEF GdbInv, AwayInv, Away, Listens, Has, BeliefTrue, stub, target
<1> QED BY <1>6, <1>7, <1>8, <1>9, <1>10, <1>11 DEF GdbInv, LineTypes

LEMMA AfterCommand ==
  ASSUME GdbInv, NEW c \in Commands, HostCommand(c)
  PROVE  GdbInv'
<1>1. /\ host.waits = "nothing" /\ toStub = <<>> /\ host' = [waits |-> "ack", cmd |-> c, tries |-> 0]
      /\ belief' = Forgotten(c) /\ toStub' = toStub \o Packet(c) /\ UNCHANGED <<stub, target, toHost>>
  BY DEF HostCommand, SendPacket
<1>2. LineTypes /\ StubTypes /\ HostTypes /\ LineInv /\ AnswersInv /\ AwayInv /\ BeliefTrue
  BY DEF GdbInv
<1>3. c \in Cmds
  BY CommandType
<1>4. toStub' = Packet(c)
  <2>1. Packet(c) \in Seq(CharTypes)
    BY <1>3, PacketKinds
  <2>2. <<>> \o Packet(c) = Packet(c)
    BY <2>1, ConcatEmptySeq
  <2> QED BY <1>1, <2>2
<1>5. ~Has(toHost, "+") /\ ~Has(toHost, "-") /\ ~InPacket
  BY <1>1, <1>2 DEF LineInv
<1>6. LineInv' /\ toStub' \in Seq(CharTypes)
  BY <1>1, <1>2, <1>3, <1>4, <1>5, PacketKinds DEF LineInv, InPacket, stub
<1>7. SumsInv'
  BY <1>1, <1>3, <1>4, PacketKinds DEF SumsInv
<1>8. /\ belief'.eip \in {Unknown, belief.eip} /\ belief'.byte \in {Unknown, belief.byte}
      /\ belief' \in [eip : Known, byte : Known]
  BY <1>1, <1>2 DEF Forgotten, HostTypes, Known
<1>9. HostTypes' /\ StubTypes'
  BY <1>1, <1>2, <1>3, <1>8 DEF HostTypes, StubTypes, stub, target
<1>10. ForgottenInv'
  BY <1>1 DEF ForgottenInv, Forgotten
<1>11. AnswersInv'
  <2>1. ~Listens' /\ ~Has(toHost', "+")
    BY <1>1, <1>5 DEF Listens
  <2> QED BY <2>1 DEF AnswersInv, Has
<1>12. AwayInv' /\ BeliefTrue'
  BY <1>1, <1>2, <1>5, <1>8 DEF AwayInv, Away, Listens, BeliefTrue, stub, target
<1> QED BY <1>1, <1>2, <1>6, <1>7, <1>9, <1>10, <1>11, <1>12 DEF GdbInv, LineTypes

(* The rest of what is on its way to gdb, once the first message is gone. *)
LEMMA AnswersTail ==
  ASSUME LineTypes, LineInv, AnswersInv, toHost # <<>>, toHost' = Tail(toHost)
  PROVE  /\ toHost' \in Seq(MessageTypes) /\ Head(toHost) \in MessageTypes
         /\ Once(toHost', "-") /\ Once(toHost', "+") /\ \A k : Has(toHost', k) => Has(toHost, k)
         /\ \A k \in {"+", "-"} : Head(toHost).kind = k => Has(toHost, k) /\ ~Has(toHost', k)
         /\ Listens => Right(Head(toHost))
         /\ Listens \/ Head(toHost).kind = "+" => \A i \in DOMAIN toHost' : Right(toHost'[i])
         /\ \A i, j \in DOMAIN toHost' : j < i /\ toHost'[j].kind = "+" => Right(toHost'[i])
<1>1. /\ toHost' \in Seq(MessageTypes) /\ Head(toHost) \in MessageTypes /\ Head(toHost) = toHost[1]
      /\ 1 \in DOMAIN toHost
      /\ \A i \in DOMAIN toHost' : i \in Nat \ {0} /\ i + 1 \in DOMAIN toHost /\ toHost'[i] = toHost[i + 1]
      /\ \A k : Has(toHost', k) => Has(toHost, k)
      /\ \A k : Once(toHost, k) => Once(toHost', k) /\ (Head(toHost).kind = k => ~Has(toHost', k))
  BY TailKinds DEF LineTypes
<1>2. \A k : Head(toHost).kind = k => Has(toHost, k)
  BY <1>1 DEF Has
<1>3. ASSUME NEW i \in DOMAIN toHost', NEW j \in DOMAIN toHost', j < i, toHost'[j].kind = "+"
      PROVE  Right(toHost'[i])
  <2>1. j + 1 < i + 1 /\ toHost[j + 1].kind = "+"
    BY <1>1, <1>3
  <2> QED BY <1>1, <1>3, <2>1 DEF AnswersInv
<1>4. ASSUME Head(toHost).kind = "+", NEW i \in DOMAIN toHost'
      PROVE  Right(toHost'[i])
  <2>1. 1 < i + 1 /\ toHost[1].kind = "+"
    BY <1>1, <1>4
  <2> QED BY <1>1, <2>1 DEF AnswersInv
<1> QED BY <1>1, <1>2, <1>3, <1>4 DEF AnswersInv, LineInv

LEMMA AfterHostAck ==
  ASSUME GdbInv, toHost # <<>>, toHost' = Tail(toHost), UNCHANGED <<stub, target>>, HostAck(Head(toHost))
  PROVE  GdbInv'
<1>1. host.waits = "ack" /\ UNCHANGED belief
  BY DEF HostAck
<1>2. /\ LineTypes /\ StubTypes /\ HostTypes /\ LineInv /\ SumsInv /\ ForgottenInv /\ AnswersInv
      /\ AwayInv /\ BeliefTrue
  BY DEF GdbInv
<1>3. /\ toHost' \in Seq(MessageTypes)
      /\ Once(toHost', "-") /\ Once(toHost', "+") /\ \A k : Has(toHost', k) => Has(toHost, k)
      /\ \A k \in {"+", "-"} : Head(toHost).kind = k => Has(toHost, k) /\ ~Has(toHost', k)
      /\ Head(toHost).kind = "+" => \A i \in DOMAIN toHost' : Right(toHost'[i])
      /\ \A i, j \in DOMAIN toHost' : j < i /\ toHost'[j].kind = "+" => Right(toHost'[i])
  BY <1>2, AnswersTail
<1>4. host.cmd \in Cmds /\ UNCHANGED <<at, buffer, high, answer, retval, eip, byte>>
  BY <1>2 DEF HostTypes, stub, target
<1>5. StubTypes' /\ BeliefTrue'
  BY <1>1, <1>2, <1>4 DEF StubTypes, BeliefTrue
<1>6. CASE Head(toHost).kind = "+" /\ Waits(Expect(host.cmd)) /\ UNCHANGED toStub
  <2>1. Expect(host.cmd) \in {"stop", "nothing", "off", "answer"}
    BY DEF Expect
  <2>2. /\ host' \in [waits : {"off", "nothing", "ack", "answer", "stop"}, cmd : Cmds, tries : Int]
        /\ host'.waits # "ack" /\ host'.cmd = host.cmd
    BY <1>2, <1>6, <2>1, HostDomain
  <2>3. Has(toHost, "+") /\ ~Has(toHost', "+")
    BY <1>3, <1>6
  <2>4. LineInv'
    BY <1>2, <1>3, <1>4, <1>6, <2>3 DEF LineInv, InPacket
  <2>5. HostTypes' /\ SumsInv' /\ ForgottenInv'
    BY <1>1, <1>2, <2>2 DEF HostTypes, SumsInv, ForgottenInv
  <2>6. AnswersInv'
    BY <1>2, <1>3, <1>4, <1>6, <2>2, <2>3 DEF AnswersInv, Right
  <2>7. AwayInv'
    BY <1>1, <1>2, <1>4, <2>2, <2>3 DEF AwayInv, Away
  <2> QED BY <1>2, <1>3, <1>5, <1>6, <2>4, <2>5, <2>6, <2>7 DEF GdbInv, LineTypes
<1>7. ASSUME host' = host, toStub' \in Seq(CharTypes), LineInv', SumsInv'
      PROVE  GdbInv'
  <2>1. HostTypes' /\ ForgottenInv'
    BY <1>1, <1>2, <1>7 DEF HostTypes, ForgottenInv
  <2>2. AnswersInv'
    BY <1>1, <1>2, <1>3, <1>4, <1>7 DEF AnswersInv, Right, Listens
  <2>3. AwayInv'
    BY <1>1, <1>2, <1>3, <1>4, <1>7 DEF AwayInv, Away, Listens
  <2> QED BY <1>3, <1>5, <1>7, <2>1, <2>2, <2>3 DEF GdbInv, LineTypes
<1>8. CASE Head(toHost).kind = "-" /\ SendPacket(host.cmd) /\ UNCHANGED host
  <2>1. Has(toHost, "-") /\ ~Has(toHost', "-")
    BY <1>3, <1>8
  <2>2. ~Has(toStub, "$") /\ ~InPacket /\ ~Has(toHost, "+")
    BY <1>2, <2>1 DEF LineInv
  <2>3. toStub' = toStub \o Packet(host.cmd)
    BY <1>8 DEF SendPacket
  <2>4. /\ Packet(host.cmd) \in Seq(CharTypes) /\ Has(Packet(host.cmd), "$") /\ Once(Packet(host.cmd), "$")
        /\ \A i \in DOMAIN Packet(host.cmd) :
             Packet(host.cmd)[i].kind = "low" => Packet(host.cmd)[i].of = host.cmd
    BY <1>4, PacketKinds
  <2>5. /\ toStub' \in Seq(CharTypes)
        /\ \A i \in DOMAIN toStub' :
             \/ i \in DOMAIN toStub /\ toStub'[i] = toStub[i]
             \/ i - Len(toStub) \in DOMAIN Packet(host.cmd)
                /\ toStub'[i] = Packet(host.cmd)[i - Len(toStub)]
        /\ \A k : Once(toStub, k) /\ Once(Packet(host.cmd), k)
                  /\ ~(Has(toStub, k) /\ Has(Packet(host.cmd), k)) => Once(toStub', k)
    BY <1>2, <2>3, <2>4, JoinKinds DEF LineTypes
  <2>6. LineInv'
    <3>1. Once(toStub', "$")
      BY <1>2, <2>2, <2>4, <2>5 DEF LineInv
    <3>2. ~InPacket' /\ ~Has(toHost', "-") /\ ~Has(toHost', "+")
      BY <1>3, <1>4, <2>1, <2>2 DEF InPacket
    <3> QED BY <1>1, <1>3, <1>8, <3>1, <3>2 DEF LineInv
  <2>7. SumsInv'
    BY <1>1, <1>2, <1>8, <2>4, <2>5 DEF SumsInv
  <2> QED BY <1>7, <1>8, <2>5, <2>6, <2>7
<1>9. CASE Head(toHost).kind = "answer" /\ SendChar("+") /\ UNCHANGED host
  <2>1. Char("+") \in CharTypes /\ Char("+").kind = "+"
    BY CharType DEF Kinds
  <2>2. toStub' = Append(toStub, Char("+"))
    BY <1>9 DEF SendChar
  <2>3. /\ toStub' \in Seq(CharTypes) /\ Once(toStub', "$")
        /\ Has(toStub', "$") <=> Has(toStub, "$")
        /\ toStub # <<>> => Head(toStub') = Head(toStub)
        /\ \A i \in DOMAIN toStub' :
              (i \in DOMAIN toStub /\ toStub'[i] = toStub[i]) \/ toStub'[i] = Char("+")
    BY <1>2, <2>1, <2>2, AppendKinds DEF LineTypes, LineInv
  <2>4. Has(toStub, "$") => toStub # <<>>
    BY DEF Has
  <2>5. LineInv'
    BY <1>1, <1>2, <1>3, <1>4, <1>9, <2>3, <2>4 DEF LineInv, InPacket
  <2>6. SumsInv'
    BY <1>2, <1>9, <2>1, <2>3 DEF SumsInv
  <2> QED BY <1>7, <1>9, <2>3, <2>5, <2>6
<1> QED BY <1>6, <1>8, <1>9 DEF HostAck

LEMMA AfterHostAnswer ==
  ASSUME GdbInv, toHost # <<>>, toHost' = Tail(toHost), UNCHANGED <<stub, target>>, HostAnswer(Head(toHost))
  PROVE  GdbInv'
<1> DEFINE m == Head(toHost)
<1>1. Listens /\ host.waits # "ack"
  BY DEF HostAnswer, Listens
<1>2. /\ LineTypes /\ StubTypes /\ HostTypes /\ LineInv /\ AnswersInv /\ AwayInv /\ BeliefTrue
  BY DEF GdbInv
<1>3. /\ toHost' \in Seq(MessageTypes) /\ m \in MessageTypes
      /\ Once(toHost', "-") /\ Once(toHost', "+") /\ \A k : Has(toHost', k) => Has(toHost, k)
      /\ Right(m) /\ \A i \in DOMAIN toHost' : Right(toHost'[i])
  BY <1>1, <1>2, AnswersTail
<1>4. /\ host.cmd \in Cmds /\ UNCHANGED <<at, buffer, high, answer, retval, eip, byte>>
      /\ ~Has(toHost, "+") /\ ~Has(toHost, "-") /\ ~Has(toStub, "$") /\ ~InPacket
  BY <1>1, <1>2 DEF HostTypes, stub, target, LineInv
<1>5. StubTypes'
  BY <1>2, <1>4 DEF StubTypes
<1>6. /\ toStub' \in Seq(CharTypes) /\ ~Has(toStub', "$")
  <2>1. CASE toStub' = toStub
    BY <1>2, <1>4, <2>1 DEF LineTypes
  <2>2. ASSUME NEW k \in {"+", "-"}, SendChar(k)
        PROVE  toStub' \in Seq(CharTypes) /\ ~Has(toStub', "$")
    <3>1. Char(k) \in CharTypes /\ Char(k).kind = k /\ toStub' = Append(toStub, Char(k))
      BY <2>2, CharType DEF Kinds, SendChar
    <3> QED BY <1>2, <1>4, <3>1, AppendKinds DEF LineTypes
  <2> QED BY <2>1, <2>2 DEF HostAnswer
<1> HIDE DEF m
<1>7. /\ host' \in [waits : {"off", "nothing", "ack", "answer", "stop"}, cmd : Cmds, tries : Int]
      /\ host'.waits # "ack" /\ host'.cmd = host.cmd
      /\ belief' = belief \/ (m.kind = "answer" /\ belief' = Learnt(host.cmd, m))
      /\ host'.waits = host.waits \/ ~Listens'
  <2>1. CASE UNCHANGED gdb
    BY <1>1, <1>2, <2>1 DEF HostTypes, gdb
  <2>2. CASE m.kind = "answer" /\ belief' = Learnt(host.cmd, m)
             /\ Waits(IF host.cmd.op = "D" THEN "off" ELSE "nothing")
    <3>1. PICK w \in {"off", "nothing"} : Waits(w)
      BY <2>2
    <3>2. /\ host' \in [waits : {"off", "nothing", "ack", "answer", "stop"}, cmd : Cmds, tries : Int]
          /\ host'.waits = w /\ host'.cmd = host.cmd
      BY <1>2, <3>1, HostDomain
    <3> QED BY <2>2, <3>2 DEF Listens
  <2> QED BY <2>1, <2>2 DEF HostAnswer, gdb, m
<1>8. /\ belief' \in [eip : Known, byte : Known] /\ BeliefTrue'
      /\ Away => belief'.eip = Unknown /\ belief'.byte = Unknown
  <2>1. CASE belief' = belief
    BY <1>2, <1>4, <2>1 DEF HostTypes, BeliefTrue, AwayInv
  <2>2. CASE m.kind = "answer" /\ belief' = Learnt(host.cmd, m)
    <3>1. /\ m.what = "eip"  => host.cmd.op = "g" /\ m.val = eip
          /\ m.what = "byte" => host.cmd.op = "m" /\ m.val = byte
          /\ m.what = "OK" /\ host.cmd.op = "P" => eip = host.cmd.val
          /\ m.what = "OK" /\ host.cmd.op = "M" => byte = host.cmd.val
      BY <1>3, <2>2 DEF Right, RightFor
    <3>2. m.val \in Known /\ host.cmd.val \in Known
      <4>1. m \in Answers
        BY <1>3, <2>2, MessageType DEF MessageTypes
      <4> QED BY <1>4, <4>1, CommandType DEF Answers
    <3>3. /\ belief'.eip \in {eip, belief.eip} \cap Known
          /\ belief'.byte \in {byte, belief.byte} \cap Known
          /\ belief' \in [eip : Known, byte : Known]
      BY <1>2, <2>2, <3>1, <3>2 DEF Learnt, HostTypes
    <3>4. BeliefTrue'
      BY <1>2, <1>4, <3>3 DEF BeliefTrue
    <3>5. Away => host.cmd.op \in Resumes \cup {"R", "D"}
      BY <1>1, <1>2 DEF AwayInv
    <3>6. Away => belief' = belief
      BY <1>2, <2>2, <3>1, <3>5 DEF Learnt, Resumes, HostTypes
    <3> QED BY <1>2, <3>3, <3>4, <3>6 DEF AwayInv
  <2> QED BY <1>7, <2>1, <2>2
<1>9. LineInv'
  BY <1>3, <1>4, <1>6 DEF LineInv, InPacket, Once, Has
<1>10. HostTypes' /\ SumsInv' /\ ForgottenInv'
  BY <1>7, <1>8 DEF HostTypes, SumsInv, ForgottenInv
<1>11. AnswersInv'
  BY <1>1, <1>2, <1>3, <1>4, <1>7 DEF AnswersInv, Right
<1>12. AwayInv'
  BY <1>1, <1>2, <1>3, <1>4, <1>7, <1>8 DEF AwayInv, Away
<1> QED BY <1>3, <1>5, <1>6, <1>8, <1>9, <1>10, <1>11, <1>12 DEF GdbInv, LineTypes

LEMMA AfterHostTimeout ==
  ASSUME GdbInv, HostTimeout
  PROVE  GdbInv'
<1>1. toStub = <<>> /\ toHost = <<>> /\ UNCHANGED <<stub, target, toHost, belief>>
  BY DEF HostTimeout, Quiet
<1>2. /\ LineTypes /\ StubTypes /\ HostTypes /\ LineInv /\ ForgottenInv /\ AnswersInv /\ AwayInv
      /\ BeliefTrue
  BY DEF GdbInv
<1>3. UNCHANGED <<at, buffer, high, answer, retval, eip, byte>> /\ DOMAIN toHost = {}
  BY <1>1 DEF stub, target
<1>4. StubTypes' /\ BeliefTrue'
  BY <1>1, <1>2, <1>3 DEF StubTypes, BeliefTrue
<1>5. CASE host.waits = "ack" /\ SendPacket(host.cmd) /\ UNCHANGED host
  <2>1. host.cmd \in Cmds
    BY <1>2 DEF HostTypes
  <2>2. toStub' = Packet(host.cmd)
    <3>1. Packet(host.cmd) \in Seq(CharTypes)
      BY <2>1, PacketKinds
    <3>2. <<>> \o Packet(host.cmd) = Packet(host.cmd)
      BY <3>1, ConcatEmptySeq
    <3> QED BY <1>1, <1>5, <3>2 DEF SendPacket
  <2>3. toStub' \in Seq(CharTypes) /\ SumsInv'
    BY <1>5, <2>1, <2>2, PacketKinds DEF SumsInv
  <2>4. LineInv'
    BY <1>1, <1>2, <1>3, <1>5, <2>1, <2>2, PacketKinds DEF LineInv, InPacket, Has
  <2>5. HostTypes' /\ ForgottenInv' /\ AnswersInv' /\ AwayInv'
    BY <1>1, <1>2, <1>3, <1>5
    DEF HostTypes, ForgottenInv, AnswersInv, Right, Listens, AwayInv, Away
  <2> QED BY <1>1, <1>2, <1>4, <2>3, <2>4, <2>5 DEF GdbInv, LineTypes
<1>6. CASE /\ host.waits = "answer"
           /\ \/ SendChar("-") /\ host' = [host EXCEPT !.tries = @ + 1]
              \/ Waits("nothing") /\ UNCHANGED toStub
  <2>1. /\ host' \in [waits : {"off", "nothing", "ack", "answer", "stop"}, cmd : Cmds, tries : Int]
        /\ host'.waits # "ack" /\ host'.cmd = host.cmd /\ (Listens' => Listens)
    <3>1. CASE host' = [host EXCEPT !.tries = @ + 1]
      BY <1>2, <1>6, <3>1 DEF HostTypes, Listens
    <3>2. CASE Waits("nothing")
      BY <1>2, <1>6, <3>2, HostDomain DEF Listens
    <3> QED BY <1>6, <3>1, <3>2
  <2>2. toStub' \in Seq(CharTypes) /\ ~Has(toStub', "$")
    <3>1. ~Has(toStub, "$")
      BY <1>1 DEF Has
    <3>2. CASE SendChar("-")
      <4>1. Char("-") \in CharTypes /\ Char("-").kind = "-" /\ toStub' = Append(toStub, Char("-"))
        BY <3>2, CharType DEF Kinds, SendChar
      <4> QED BY <1>2, <3>1, <4>1, AppendKinds DEF LineTypes
    <3> QED BY <1>2, <1>6, <3>1, <3>2 DEF LineTypes
  <2>3. LineInv'
    BY <1>1, <1>2, <1>3, <1>6, <2>2 DEF LineInv, InPacket, Has, Once
  <2>4. HostTypes' /\ SumsInv' /\ ForgottenInv'
    BY <1>1, <1>2, <2>1 DEF HostTypes, SumsInv, ForgottenInv
  <2>5. AnswersInv' /\ AwayInv'
    BY <1>1, <1>2, <1>3, <2>1 DEF AnswersInv, Right, AwayInv, Away, Has
  <2> QED BY <1>1, <1>2, <1>4, <2>2, <2>3, <2>4, <2>5 DEF GdbInv, LineTypes
<1> QED BY <1>5, <1>6 DEF HostTimeout
-------------------------------------------------------------------------------
(* Faults of the line. *)

LEMMA LineLess ==
  ASSUME GdbInv, UNCHANGED <<stub, target, gdb>>, toStub' \in Seq(CharTypes), Once(toStub', "$"),
         Has(toStub', "$") => Has(toStub, "$") /\ (InPacket => Head(toStub').kind = "$"), SumsInv',
         toHost' \in Seq(MessageTypes),
         \A k \in {"+", "-"} : Once(toHost', k) /\ (Has(toHost', k) => Has(toHost, k)),
         Listens => \A i \in DOMAIN toHost' : Right(toHost'[i]),
         \A i, j \in DOMAIN toHost' : j < i /\ toHost'[j].kind = "+" => Right(toHost'[i])
  PROVE  GdbInv'
<1>1. UNCHANGED <<at, buffer, high, answer, retval, eip, byte, host, belief>>
  BY DEF stub, target, gdb
<1>2. /\ StubTypes /\ HostTypes /\ LineInv /\ ForgottenInv /\ AnswersInv /\ AwayInv /\ BeliefTrue
  BY DEF GdbInv
<1>3. StubTypes' /\ HostTypes' /\ ForgottenInv' /\ BeliefTrue'
  BY <1>1, <1>2 DEF StubTypes, HostTypes, ForgottenInv, BeliefTrue
<1>4. LineInv'
  BY <1>1, <1>2 DEF LineInv, InPacket
<1>5. AnswersInv' /\ AwayInv'
  BY <1>1, <1>2 DEF AnswersInv, Right, Listens, AwayInv, Away
<1> QED BY <1>3, <1>4, <1>5 DEF GdbInv, LineTypes

LEMMA AfterLoseChar ==
  ASSUME GdbInv, LoseChar
  PROVE  GdbInv'
<1>1. toStub # <<>> /\ toStub' = Tail(toStub) /\ UNCHANGED <<stub, target, gdb, toHost>>
  BY DEF LoseChar, Spoil
<1>2. LineTypes /\ LineInv /\ SumsInv /\ AnswersInv
  BY DEF GdbInv
<1>3. /\ toStub' \in Seq(CharTypes) /\ Once(toStub', "$") /\ SumsInv'
      /\ Has(toStub', "$") => Has(toStub, "$") /\ ~InPacket
  BY <1>1, <1>2, Reads DEF gdb
<1> QED BY <1>1, <1>2, <1>3, LineLess DEF LineTypes, LineInv, AnswersInv

LEMMA AfterAlterChar ==
  ASSUME GdbInv, AlterChar
  PROVE  GdbInv'
<1>1. toStub # <<>> /\ UNCHANGED <<stub, target, gdb, toHost>>
  BY DEF AlterChar, Spoil
<1>2. PICK c \in Altered(Head(toStub)) : toStub' = <<c>> \o Tail(toStub)
  BY DEF AlterChar
<1>3. c \in CharTypes /\ c.kind \notin {"$", "low"}
  <2>1. CASE c \in {Char("junk"), Char("}")}
    BY <2>1, CharType DEF Kinds
  <2>2. CASE c \in [kind : {"data"}, of : Commands]
    BY <2>2, CommandType DEF CharTypes, Kinds
  <2> QED BY <1>2, <2>1, <2>2 DEF Altered
<1>4. LineTypes /\ LineInv /\ SumsInv /\ AnswersInv
  BY DEF GdbInv
<1>5. PICK t : t = Tail(toStub)
  OBVIOUS
<1>6. /\ t \in Seq(CharTypes) /\ Head(toStub) = toStub[1] /\ 1 \in DOMAIN toStub
      /\ \A i \in DOMAIN t : i + 1 \in DOMAIN toStub /\ t[i] = toStub[i + 1]
      /\ Has(t, "$") => Has(toStub, "$") /\ Head(toStub).kind # "$"
      /\ Once(t, "$")
  BY <1>1, <1>4, <1>5, TailKinds DEF LineTypes, LineInv
<1>7. PICK u : u = <<c>> \o t
  OBVIOUS
<1>8. /\ toStub' = u /\ u \in Seq(CharTypes)
      /\ \A i \in DOMAIN u : (i = 1 /\ u[i] = c) \/ (i - 1 \in DOMAIN t /\ u[i] = t[i - 1])
      /\ Has(u, "$") <=> Has(t, "$")
      /\ Once(u, "$")
  <2>1. c \in CharTypes /\ t \in Seq(CharTypes) /\ c.kind # "$"
    BY <1>3, <1>6
  <2>2. /\ u \in Seq(CharTypes)
        /\ \A i \in DOMAIN u : (i = 1 /\ u[i] = c) \/ (i - 1 \in DOMAIN t /\ u[i] = t[i - 1])
    BY <1>7, <2>1, FrontKinds
  <2>3. /\ \A k : Has(u, k) <=> c.kind = k \/ Has(t, k)
        /\ \A k : Once(t, k) /\ ~(c.kind = k /\ Has(t, k)) => Once(u, k)
    BY <1>7, <2>1, FrontKinds
  <2> QED BY <1>2, <1>5, <1>6, <1>7, <2>1, <2>2, <2>3
<1>9. Has(toStub', "$") => Has(toStub, "$") /\ ~InPacket
  BY <1>3, <1>4, <1>6, <1>7, <1>8 DEF LineInv
<1>10. SumsInv'
  <2>1. \A i \in DOMAIN toStub' : toStub'[i] = c \/ \E j \in DOMAIN toStub : toStub'[i] = toStub[j]
    BY <1>6, <1>7, <1>8
  <2> QED BY <1>1, <1>3, <1>4, <2>1 DEF SumsInv, gdb
<1> QED BY <1>1, <1>4, <1>8, <1>9, <1>10, LineLess DEF LineTypes, LineInv, AnswersInv

LEMMA AfterLoseMessage ==
  ASSUME GdbInv, LoseMessage
  PROVE  GdbInv'
<1>1. toHost # <<>> /\ toHost' = Tail(toHost) /\ UNCHANGED <<stub, target, gdb, toStub>>
  BY DEF LoseMessage, Spoil
<1>2. LineTypes /\ LineInv /\ SumsInv /\ AnswersInv
  BY DEF GdbInv
<1>3. /\ toHost' \in Seq(MessageTypes)
      /\ Once(toHost', "-") /\ Once(toHost', "+") /\ \A k : Has(toHost', k) => Has(toHost, k)
      /\ Listens => \A i \in DOMAIN toHost' : Right(toHost'[i])
      /\ \A i, j \in DOMAIN toHost' : j < i /\ toHost'[j].kind = "+" => Right(toHost'[i])
  BY <1>1, <1>2, AnswersTail
<1>4. SumsInv'
  BY <1>1, <1>2 DEF SumsInv, gdb
<1> QED BY <1>1, <1>2, <1>3, <1>4, LineLess DEF LineTypes, LineInv

LEMMA AfterAlterAnswer ==
  ASSUME GdbInv, AlterAnswer
  PROVE  GdbInv'
<1>1. toHost # <<>> /\ Head(toHost).kind = "answer" /\ UNCHANGED <<stub, target, gdb, toStub>>
  BY DEF AlterAnswer, Spoil
<1>2. LineTypes /\ LineInv /\ SumsInv /\ AnswersInv
  BY DEF GdbInv
<1>3. PICK a : a = Head(toHost)
  OBVIOUS
<1>4. PICK t : t = Tail(toHost)
  OBVIOUS
<1>5. PICK b : b = [a EXCEPT !.good = FALSE]
  OBVIOUS
<1>6. toHost' = <<b>> \o t
  BY <1>3, <1>4, <1>5 DEF AlterAnswer
<1>7. /\ t \in Seq(MessageTypes) /\ a \in MessageTypes /\ a = toHost[1] /\ 1 \in DOMAIN toHost
      /\ \A i \in DOMAIN t : i \in Nat \ {0} /\ i + 1 \in DOMAIN toHost /\ t[i] = toHost[i + 1]
      /\ \A k : Has(t, k) => Has(toHost, k)
      /\ \A k : Once(toHost, k) => Once(t, k)
  BY <1>1, <1>2, <1>3, <1>4, TailKinds DEF LineTypes
<1>8. b \in Answers /\ b.kind = "answer" /\ b.what = a.what /\ b.val = a.val
  <2>1. a \in Answers
    BY <1>1, <1>3, <1>7, MessageType DEF MessageTypes
  <2> QED BY <1>5, <2>1 DEF Answers
<1>9. b \in MessageTypes
  BY <1>8, MessageType
<1>10. PICK u : u = <<b>> \o t
  OBVIOUS
<1>11. /\ toHost' = u /\ u \in Seq(MessageTypes) /\ DOMAIN u \subseteq Nat
       /\ \A i \in DOMAIN u : (i = 1 /\ u[i] = b) \/ (i - 1 \in DOMAIN t /\ u[i] = t[i - 1])
       /\ \A k \in {"+", "-"} : (Has(u, k) <=> Has(t, k)) /\ (Once(t, k) => Once(u, k))
  <2>1. b \in MessageTypes /\ t \in Seq(MessageTypes)
    BY <1>7, <1>9
  <2>2. /\ u \in Seq(MessageTypes) /\ DOMAIN u \subseteq Nat
        /\ \A i \in DOMAIN u : (i = 1 /\ u[i] = b) \/ (i - 1 \in DOMAIN t /\ u[i] = t[i - 1])
    BY <1>10, <2>1, FrontKinds
  <2>3. /\ \A k : Has(u, k) <=> b.kind = k \/ Has(t, k)
        /\ \A k : Once(t, k) /\ ~(b.kind = k /\ Has(t, k)) => Once(u, k)
    BY <1>10, <2>1, FrontKinds
  <2> QED BY <1>6, <1>8, <1>10, <2>2, <2>3
<1>12. \A k \in {"+", "-"} : Once(toHost', k) /\ (Has(toHost', k) => Has(toHost, k))
  BY <1>2, <1>7, <1>11 DEF LineInv
<1>13. DOMAIN toHost' \subseteq Nat
  BY <1>11
<1>14. \A i \in DOMAIN toHost' :
         /\ i \in DOMAIN toHost /\ toHost'[i].kind = toHost[i].kind
         /\ Right(toHost[i]) => Right(toHost'[i])
  <2>1. Right(a) => Right(b)
    BY <1>1, <1>3, <1>8 DEF Right, RightFor
  <2>2. ASSUME NEW i \in DOMAIN toHost'
        PROVE  (i = 1 /\ toHost'[i] = b) \/ (i \in DOMAIN toHost /\ toHost'[i] = toHost[i])
    <3>1. CASE i - 1 \in DOMAIN t /\ toHost'[i] = t[i - 1]
      <4>1. (i - 1) + 1 = i
        BY <1>13
      <4> QED BY <1>7, <3>1, <4>1
    <3> QED BY <1>11, <2>2, <3>1
  <2> QED BY <1>1, <1>3, <1>7, <1>8, <2>1, <2>2
<1>15. Listens => \A i \in DOMAIN toHost' : Right(toHost'[i])
  BY <1>2, <1>14 DEF AnswersInv
<1>16. \A i, j \in DOMAIN toHost' : j < i /\ toHost'[j].kind = "+" => Right(toHost'[i])
  BY <1>2, <1>14 DEF AnswersInv
<1>17. SumsInv'
  BY <1>1, <1>2 DEF SumsInv, gdb
<1> QED BY <1>1, <1>2, <1>11, <1>12, <1>15, <1>16, <1>17, LineLess DEF LineTypes, LineInv
-------------------------------------------------------------------------------
(* Every step. *)

LEMMA GdbInit ==
  ASSUME Init
  PROVE  GdbInv
<1>1. PICK v \in Values : \A w \in Values : v <= w
  BY GdbConstants, LeastNatural
<1>2. Min(Values) \in Known
  BY <1>1 DEF Min, Known
<1>3. toStub \in Seq(CharTypes) /\ toHost \in Seq(MessageTypes) /\ buffer \in Seq(CharTypes)
  BY EmptySeq DEF Init
<1>4. DOMAIN toStub = {} /\ DOMAIN toHost = {}
  BY DEF Init
<1>5. StubTypes
  BY <1>2, <1>3, CharType DEF Init, StubTypes, Kinds
<1>6. HostTypes
  BY CommandType DEF Init, HostTypes, Known
<1>7. LineInv /\ SumsInv /\ ForgottenInv
  BY <1>4 DEF Init, LineInv, SumsInv, ForgottenInv, Once, Has, InPacket
<1>8. AnswersInv /\ AwayInv /\ BeliefTrue
  BY <1>4 DEF Init, AnswersInv, AwayInv, BeliefTrue, Listens, Has
<1> QED BY <1>3, <1>5, <1>6, <1>7, <1>8 DEF GdbInv, LineTypes

LEMMA GdbStep ==
  ASSUME GdbInv, [Next]_vars
  PROVE  GdbInv'
<1>1. CASE UNCHANGED vars
  <2>1. UNCHANGED <<at, buffer, high, answer, retval, eip, byte, toStub, toHost, host, belief>>
    BY <1>1 DEF vars, stub, target, gdb
  <2>2. LineTypes' /\ StubTypes' /\ HostTypes'
    BY <2>1 DEF GdbInv, LineTypes, StubTypes, HostTypes
  <2>3. LineInv' /\ SumsInv' /\ ForgottenInv'
    BY <2>1 DEF GdbInv, LineInv, SumsInv, ForgottenInv, InPacket
  <2>4. AnswersInv' /\ AwayInv' /\ BeliefTrue'
    BY <2>1 DEF GdbInv, AnswersInv, Right, AwayInv, Away, Listens, BeliefTrue
  <2> QED BY <2>2, <2>3, <2>4 DEF GdbInv
<1>2. CASE HostReceive
  <2>1. toHost # <<>> /\ toHost' = Tail(toHost) /\ UNCHANGED <<stub, target>>
    BY <1>2 DEF HostReceive
  <2> QED BY <1>2, <2>1, AfterHostAck, AfterHostAnswer DEF HostReceive
<1>3. CASE Receive \/ Trap \/ Key
  BY <1>3, AfterReceive, AfterTrap, AfterKey
<1>4. CASE HostAttach \/ (\E c \in Commands : HostCommand(c)) \/ HostTimeout
  BY <1>4, AfterAttach, AfterCommand, AfterHostTimeout
<1>5. CASE LoseChar \/ AlterChar \/ LoseMessage \/ AlterAnswer
  BY <1>5, AfterLoseChar, AfterAlterChar, AfterLoseMessage, AfterAlterAnswer
<1> QED BY <1>1, <1>2, <1>3, <1>4, <1>5 DEF Next, Host

LEMMA GdbAlways == Spec => []GdbInv
<1>1. Init => GdbInv
  BY GdbInit
<1>2. GdbInv /\ [Next]_vars => GdbInv'
  BY GdbStep
<1> QED BY <1>1, <1>2, PTL DEF Spec
-------------------------------------------------------------------------------
(* What gdb knows, from the answers of gdb_serial_converse to its commands,  *)
(* is what the program will be resumed with: getpacket and putfrags repeat,  *)
(* and commands are executed twice, without an answer being taken for that   *)
(* to another command.                                                       *)
THEOREM BeliefIsTrue == Spec => []BeliefTrue
<1>1. GdbInv => BeliefTrue
  BY DEF GdbInv
<1> QED BY <1>1, GdbAlways, PTL

(* The packet that getpacket takes for good is one of the command whose      *)
(* acknowledgement gdb waits for.                                            *)
THEOREM OnlyAskedIsExecuted == Spec => []OnlyWhatIsAsked
<1>1. GdbInv => OnlyWhatIsAsked
  BY SumsOfCommand DEF OnlyWhatIsAsked
<1> QED BY <1>1, GdbAlways, PTL
===============================================================================
