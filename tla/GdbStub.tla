-------------------------------- MODULE GdbStub -------------------------------
(***************************************************************************)
(* The debugger: trap_handler and its screen (debugger.c), the gdb stub    *)
(* (gdb_serial.c, gdb_serial_support.c) and the serial line (serial.c),    *)
(* talking to gdb over a line that loses and alters characters.            *)
(*                                                                         *)
(* A packet from gdb is the characters "$", its data, "#" and the two      *)
(* digits of its checksum; the data of a command is one character that     *)
(* stands for all of it, and a checksum is right for one command only.     *)
(* What the stub sends is, towards gdb, one message: an acknowledgement or *)
(* a whole answer.  A step of the stub is a character received and all it  *)
(* does until it waits for the next one.                                   *)
(*                                                                         *)
(* gdb itself is external: it repeats a command until it is acknowledged,  *)
(* asks again for an answer that does not arrive, MaxTries times before it *)
(* reports an error, and acknowledges and drops an answer that comes when  *)
(* it expects an acknowledgement.                                          *)
(***************************************************************************)
EXTENDS Integers, Sequences, SequencesExt, FiniteSetsExt

CONSTANTS Values,           \* of the instruction pointer and of a byte
          Ops,              \* the commands gdb uses
          BUFMAX,           \* characters of the stub's buffer
          MaxTries,         \* of gdb, for an answer
          MaxFaults,        \* bound: characters and messages lost or altered
          MaxTraps          \* bound: traps

ASSUME GdbConstants == /\ Values \subseteq Nat /\ Values # {}
                       /\ BUFMAX \in Nat \ {0} /\ {MaxTries, MaxFaults, MaxTraps} \subseteq Nat

Unknown == -1

(* Commands, by what the stub does with them: "m" and "M" stay in mapped     *)
(* pages, "MM" writes across the end of the last one; "PP" is a P or G whose *)
(* digits are bad after the bytes of eip; "refused" is one whose arguments   *)
(* are rejected at once or that reads an unmapped page, "unknown" one that   *)
(* is not handled, as H and T are for want of callbacks; "!" is one with no  *)
(* effect here; "P" is also G, and "M" is also X; "c" is also s, C and S,    *)
(* and "cAA" the same with an address.                                       *)
Plain == {"g", "m", "?", "!", "c", "D", "R", "k", "refused", "unknown"}

WithValue == {"P", "PP", "M", "MM", "cAA"}

Commands == [op : Ops \cap Plain, val : {Unknown}]
            \cup [op : Ops \cap WithValue, val : Values]

Resumes == {"c", "cAA"}

NoCommand == [op |-> "none", val |-> Unknown]

Char(kind) == [kind |-> kind, of |-> NoCommand]

Packet(c) == <<Char("$"), [kind |-> "data", of |-> c], Char("#"),
               [kind |-> "high", of |-> c], [kind |-> "low", of |-> c]>>
-------------------------------------------------------------------------------
VARIABLES at,               \* where the machine stands
          buffer, high,     \* getpacket: the data, the first digit received
          answer, retval,   \* the packet putfrags repeats, what the stub will return
          do_debug, connected,
          eip, byte,        \* p->regs->eip and a byte of a mapped page
          toStub, toHost,   \* the line, each way
          host,             \* gdb: what it waits for, and the last command
          belief,           \* gdb: what it knows of eip and of the byte
          faults, traps,
          since             \* history: faults when gdb sent the last command

stub == <<at, buffer, high, answer, retval, do_debug, connected>>

target == <<eip, byte>>

gdb == <<host, belief, since>>

vars == <<stub, target, toStub, toHost, gdb, faults, traps>>

Send(messages) == toHost' = toHost \o messages

Answer(kind, val) == [kind |-> "answer", what |-> kind, val |-> val, good |-> TRUE]

Ack == [kind |-> "+"]

Nak == [kind |-> "-"]

None == [kind |-> "none"]

Report == Answer("stopped", Unknown)
-------------------------------------------------------------------------------
(* putfrags sends a packet and waits for '+'; any other character makes it   *)
(* send the packet again.                                                    *)
PutPacket(before, a) == /\ Send(before \o <<a>>)
                        /\ answer' = a /\ at' = "putfrags"

(* debugger: the conversation starts with a report of the signal.            *)
Converse == PutPacket(<<>>, Report) /\ retval' = "GDB_MORE"

(* Back in debugger, with what the conversation returned; reboot says so to  *)
(* gdb first, if connected.                                                  *)
GdbSerialExit(before) ==
  IF connected' THEN PutPacket(before, Answer("exited", Unknown)) /\ retval' = "reboot"
  ELSE /\ at' = "off" /\ Send(before)
       /\ answer' = None /\ retval' = "GDB_MORE"

Return(action, before) ==
  /\ do_debug' = (do_debug /\ action # "GDB_DETACH")
  /\ IF action = "GDB_KILL" THEN GdbSerialExit(before)
     ELSE /\ at' = "program" /\ Send(before)
          /\ answer' = None /\ retval' = "GDB_MORE"

\* faulty variant: the packet is sent once
SendOnce == UNCHANGED toHost

SendAgain == Send(<<answer>>)

Putfrags(c) ==
  /\ at = "putfrags"
  /\ IF c.kind # "+" THEN SendAgain /\ UNCHANGED stub
     ELSE /\ UNCHANGED <<buffer, high>>
          /\ CASE retval = "GDB_MORE" -> /\ at' = "hunt" /\ answer' = None
                                         /\ UNCHANGED <<toHost, retval, do_debug, connected>>
               [] retval = "reboot" ->   /\ at' = "off" /\ answer' = None /\ connected' = FALSE
                                         /\ UNCHANGED <<toHost, retval, do_debug>>
               [] OTHER ->               /\ Return(retval, <<>>) /\ UNCHANGED connected
  /\ UNCHANGED target
-------------------------------------------------------------------------------
(* getpacket.                                                                *)
Hunt(c) ==
  /\ at = "hunt"
  /\ at' = IF c.kind = "$" THEN "data" ELSE "hunt"
  /\ buffer' = <<>>
  /\ UNCHANGED <<high, answer, retval, do_debug, connected, target, toHost>>

Escaped == buffer # <<>> /\ Last(buffer).kind = "}"

Data(c) ==
  /\ at = "data"
  /\ IF c.kind = "#" /\ ~Escaped THEN at' = "high" /\ UNCHANGED buffer
     ELSE /\ buffer' = Append(buffer, c)
          /\ at' = IF Len(buffer) + 1 < BUFMAX THEN "data"
                   ELSE IF c.kind = "#" THEN "high" ELSE "hunt"
  /\ UNCHANGED <<high, answer, retval, do_debug, connected, target, toHost>>

High(c) ==
  /\ at = "high"
  /\ at' = "low" /\ high' = c
  /\ UNCHANGED <<buffer, answer, retval, do_debug, connected, target, toHost>>

\* faulty variant: the checksum is not compared
SumIgnored(c) == Len(buffer) = 1 /\ buffer[1].kind = "data"

SumAgrees(c) == /\ Len(buffer) = 1 /\ buffer[1].kind = "data"
                /\ high.kind = "high" /\ c.kind = "low"
                /\ buffer[1].of = high.of /\ high.of = c.of

BadSum(c) ==
  /\ at = "low" /\ ~SumAgrees(c)
  /\ Send(<<Nak>>) /\ at' = "hunt" /\ high' = Char("none") /\ buffer' = <<>>
  /\ UNCHANGED <<answer, retval, do_debug, connected, target>>

(* gdb_serial_converse: a good packet is acknowledged, then executed.  The   *)
(* writes that reach an unmapped page have written the page before it, and   *)
(* bad digits leave what the good ones before them have set.                 *)
EffectRead(c) ==                        \* faulty variant: M reads instead of writing
  /\ eip' = IF c.op \in {"P", "PP", "cAA"} THEN c.val ELSE eip
  /\ byte' = byte

Effect(c) == /\ eip' = IF c.op \in {"P", "PP", "cAA"} THEN c.val ELSE eip
             /\ byte' = IF c.op \in {"M", "MM"} THEN c.val ELSE byte

Reply(c) ==
  CASE c.op = "g" -> Answer("eip", eip)
    [] c.op = "m" -> Answer("byte", byte)
    [] c.op = "?" -> Report
    [] c.op \in {"P", "M", "!", "D"} -> Answer("OK", Unknown)
    [] c.op \in {"PP", "MM", "refused"} -> Answer("error", Unknown)
    [] c.op = "unknown" -> Answer("empty", Unknown)

Closes == {"D", "R", "k"}

Execute(c) ==
  /\ Effect(c)
  /\ connected' = (c.op \notin Closes)
  /\ CASE c.op \in Resumes -> Return("GDB_CONT", <<Ack>>)
       [] c.op = "R" ->       Return("GDB_RUN", <<Ack>>)
       [] c.op = "k" ->       Return("GDB_KILL", <<Ack>>)
       [] OTHER ->            /\ PutPacket(<<Ack>>, Reply(c)) /\ UNCHANGED do_debug
                              /\ retval' = IF c.op = "D" THEN "GDB_DETACH" ELSE "GDB_MORE"

GoodSum(c) ==
  /\ at = "low" /\ SumAgrees(c)
  /\ Execute(buffer[1].of)
  /\ buffer' = <<>> /\ high' = Char("none")

(* read_com1: the next character of the line.                                *)
Receive ==
  /\ toStub # <<>>
  /\ toStub' = Tail(toStub)
  /\ LET c == Head(toStub)
     IN  Putfrags(c) \/ Hunt(c) \/ Data(c) \/ High(c) \/ BadSum(c) \/ GoodSum(c)
  /\ UNCHANGED <<gdb, faults, traps>>
-------------------------------------------------------------------------------
(* trap_handler: the debugger if it is enabled, else the register screen.    *)
(* The program has changed what it likes; of the characters gdb sent         *)
(* meanwhile, the last ones are still there.                                 *)
Trap ==
  /\ at = "program" /\ traps < MaxTraps
  /\ traps' = traps + 1
  /\ eip' \in Values /\ byte' \in Values
  /\ \E k \in 0 .. (IF toStub = <<>> THEN 0 ELSE Len(toStub) - 1) :
       toStub' = SubSeq(toStub, k + 1, Len(toStub))
  /\ IF do_debug THEN Converse
     ELSE at' = "screen" /\ UNCHANGED <<toHost, answer, retval>>
  /\ UNCHANGED <<buffer, high, do_debug, connected, gdb, faults>>

(* Keys of the register screen.                                              *)
KeyIgnore ==
  /\ at = "screen" /\ at' = "program"
  /\ UNCHANGED <<buffer, high, answer, retval, do_debug, connected, toHost>>

KeyDebug ==                 \* enable_debugger
  /\ at = "screen" /\ do_debug' = TRUE
  /\ Converse
  /\ UNCHANGED <<buffer, high, connected>>

KeyReboot ==
  /\ at = "screen"
  /\ UNCHANGED <<buffer, high, do_debug, connected>>
  /\ GdbSerialExit(<<>>)

Key == /\ KeyIgnore \/ KeyDebug \/ KeyReboot
       /\ UNCHANGED <<target, toStub, gdb, faults, traps>>
-------------------------------------------------------------------------------
(* gdb.                                                                      *)
Waits(for) == host' = [host EXCEPT !.waits = for, !.tries = 0]

SendPacket(c) == toStub' = toStub \o Packet(c)

SendChar(kind) == toStub' = Append(toStub, Char(kind))

HostAttach ==               \* its input is flushed, and an old packet acknowledged
  /\ host.waits = "off"
  /\ Waits("nothing") /\ toHost' = <<>> /\ SendChar("+")
  /\ UNCHANGED <<belief, since, stub, target, faults, traps>>

Forgotten(c) ==
  [eip  |-> IF c.op \in Resumes \cup {"P", "PP", "R", "D"} THEN Unknown ELSE belief.eip,
   byte |-> IF c.op \in Resumes \cup {"M", "MM", "R", "D"} THEN Unknown ELSE belief.byte]

HostCommand(c) ==
  /\ host.waits = "nothing" /\ toStub = <<>>
  /\ host' = [waits |-> "ack", cmd |-> c, tries |-> 0]
  /\ belief' = Forgotten(c) /\ since' = faults
  /\ SendPacket(c)
  /\ UNCHANGED <<stub, target, toHost, faults, traps>>

Expect(c) == CASE c.op \in Resumes -> "stop"
               [] c.op = "R" -> "nothing"
               [] c.op = "k" -> "off"
               [] OTHER -> "answer"

Learnt(c, a) ==
  [eip  |-> CASE a.what = "eip" -> a.val
              [] a.what = "OK" /\ c.op = "P" -> c.val
              [] OTHER -> belief.eip,
   byte |-> CASE a.what = "byte" -> a.val
              [] a.what = "OK" /\ c.op = "M" -> c.val
              [] OTHER -> belief.byte]

HostAck(m) ==               \* waiting for an acknowledgement
  /\ host.waits = "ack"
  /\ \/ m.kind = "+" /\ Waits(Expect(host.cmd)) /\ UNCHANGED toStub
     \/ m.kind = "-" /\ SendPacket(host.cmd) /\ UNCHANGED host
     \/ m.kind = "answer" /\ SendChar("+") /\ UNCHANGED host
  /\ UNCHANGED <<belief, since>>

HostAnswer(m) ==            \* waiting for an answer or a stop
  /\ host.waits \in {"answer", "stop"}
  /\ IF m.kind # "answer" THEN UNCHANGED <<gdb, toStub>>
     ELSE IF m.good
       THEN /\ SendChar("+")
            /\ Waits(IF host.cmd.op = "D" THEN "off" ELSE "nothing")
            /\ belief' = Learnt(host.cmd, m) /\ UNCHANGED since
       ELSE SendChar("-") /\ UNCHANGED gdb

HostReceive ==
  /\ toHost # <<>>
  /\ toHost' = Tail(toHost)
  /\ HostAck(Head(toHost)) \/ HostAnswer(Head(toHost))
  /\ UNCHANGED <<stub, target, faults, traps>>

(* A timeout is much longer than what the line takes to carry a packet.      *)
Quiet == toStub = <<>> /\ toHost = <<>>

HostTimeout ==
  /\ Quiet
  /\ \/ host.waits = "ack" /\ SendPacket(host.cmd)
        /\ UNCHANGED host
     \/ host.waits = "answer" /\ host.tries < MaxTries
        /\ SendChar("-") /\ host' = [host EXCEPT !.tries = @ + 1]
     \/ host.waits = "answer" /\ host.tries = MaxTries
        /\ Waits("nothing") /\ UNCHANGED toStub
  /\ UNCHANGED <<stub, target, toHost, belief, since, faults, traps>>

(* Faults of the line.  A stop report is altered, never lost: gdb waits for  *)
(* it without a timeout.                                                     *)
Spoil == faults < MaxFaults /\ faults' = faults + 1
         /\ UNCHANGED <<stub, target, gdb, traps>>

LoseChar == toStub # <<>> /\ toStub' = Tail(toStub) /\ UNCHANGED toHost /\ Spoil

\* A digit of a checksum becomes a wrong one: data and both digits changed alike
\* would be a packet of another value, which no checksum finds out.
Altered(c) ==
  {Char("junk"), Char("}")} \cup
  {d \in [kind : {"data"}, of : Commands] : c.kind = "data" /\ d.of.op = c.of.op /\ d # c}

AlterChar == /\ toStub # <<>> /\ UNCHANGED toHost /\ Spoil
             /\ \E c \in Altered(Head(toStub)) : toStub' = <<c>> \o Tail(toStub)

LoseMessage == /\ toHost # <<>> /\ (Head(toHost).kind = "answer" => Head(toHost).what # "stopped")
               /\ toHost' = Tail(toHost) /\ UNCHANGED toStub /\ Spoil

AlterAnswer == /\ toHost # <<>> /\ Head(toHost).kind = "answer"
               /\ toHost' = <<[Head(toHost) EXCEPT !.good = FALSE]>> \o Tail(toHost)
               /\ UNCHANGED toStub /\ Spoil
-------------------------------------------------------------------------------
Init ==
  /\ at = "program" /\ buffer = <<>> /\ high = Char("none")
  /\ answer = None /\ retval = "GDB_MORE"
  /\ do_debug = FALSE /\ connected = FALSE
  /\ eip = Min(Values) /\ byte = Min(Values)      \* any: a trap sets them
  /\ toStub = <<>> /\ toHost = <<>>
  /\ host = [waits |-> "off", cmd |-> NoCommand, tries |-> 0]
  /\ belief = [eip |-> Unknown, byte |-> Unknown]
  /\ faults = 0 /\ traps = 0 /\ since = 0

Host == HostReceive \/ HostTimeout

Next == \/ Receive \/ Trap \/ Key
        \/ HostAttach \/ (\E c \in Commands : HostCommand(c)) \/ Host
        \/ LoseChar \/ AlterChar \/ LoseMessage \/ AlterAnswer

Fairness == WF_vars(Receive) /\ WF_vars(HostReceive) /\ WF_vars(HostTimeout)

Spec == Init /\ [][Next]_vars /\ Fairness
-------------------------------------------------------------------------------
(***************************************************************************)
(* What gdb knows is true: a value it has read, or written with OK for an  *)
(* answer, is the value the program will be resumed with, whatever was     *)
(* lost, repeated or executed twice on the way.                            *)
(***************************************************************************)
BeliefTrue == /\ belief.eip \in {Unknown, eip}
              /\ belief.byte \in {Unknown, byte}

(***************************************************************************)
(* A packet is only executed while gdb waits for the acknowledgement of    *)
(* that very command: no old packet, and no packet pieced together from    *)
(* two, is taken for a command.                                            *)
(***************************************************************************)
OnlyWhatIsAsked ==
  at = "low" /\ toStub # <<>> /\ SumAgrees(Head(toStub)) =>
    host.waits = "ack" /\ buffer[1].of = host.cmd

(***************************************************************************)
(* The line never locks up: a command gdb has sent to the stub is          *)
(* acknowledged, however many faults there are, and then answered, unless  *)
(* the program runs or the machine was rebooted.  gdb gives up waiting for *)
(* the answer only if a fault has happened since it sent this command: no  *)
(* fault of an earlier exchange leaves the two sides out of step for good. *)
(***************************************************************************)
GivesUp == host.waits = "answer" /\ host.tries = MaxTries /\ Quiet

Answered == /\ host.waits \in {"ack", "answer"} ~>
                 host.waits \notin {"ack", "answer"} \/ at \in {"program", "screen", "off"}
            /\ [](GivesUp => faults > since)
===============================================================================
