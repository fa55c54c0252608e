--------------------------- MODULE Ps2InitProofs ---------------------------
(***************************************************************************)
(* The dialogue of mouse::init with the controller: what it writes back to *)
(* the configuration byte, and how many bytes reach the packet decoder     *)
(* that no movement sent; for every configuration the firmware may leave,  *)
(* any number of keys typed and of movements, and devices of any speed.    *)
(***************************************************************************)
EXTENDS Ps2Init, SequenceTheorems, TLAPS

Byte == [kind : {"ack", "key", "move", "none", "config"}, bits : SUBSET (0 .. 7)]
ConfigBytes == {ConfigByte(c) : c \in SUBSET (0 .. 7)}

\* What each of the three may send.
Sends ==
  /\ queue = [s \in {"controller", "keyboard", "mouse"} |-> queue[s]]
  /\ queue["controller"] \in Seq(ConfigBytes)
  /\ queue["keyboard"] \in Seq({Scancode})
  /\ queue["mouse"] \in Seq({Ack, PacketByte})

TypeInv ==
  /\ pc \in 1 .. 16
  /\ late \in 0 .. 16
  /\ reporting \in BOOLEAN
  /\ {new_config, config, boot} \subseteq SUBSET (0 .. 7)
  /\ obf \in Byte
  /\ last \in Byte
  /\ irq \subseteq {KbdIrq, MouseIrq}
  /\ strays \in Seq(Byte)
  /\ Sends

\* The mouse has n acknowledgements to send and after them only movements.
AcksAhead(n) ==
  /\ n <= Len(queue["mouse"])
  /\ \A i \in 1 .. Len(queue["mouse"]) : queue["mouse"][i] = IF i <= n THEN Ack ELSE PacketByte
-----------------------------------------------------------------------------
(***************************************************************************)
(* The dialogue as it is meant, as long as no wait gives up and the mouse  *)
(* is silent at first: the controller has taken every write but the last,  *)
(* and each answer is in the output buffer or on its way until it is read. *)
(***************************************************************************)
Unread(s, byte) ==
  \/ queue[s] = <<byte>> /\ obf = None
  \/ queue[s] = <<>> /\ obf = byte

\* The write the controller may still have before it at each position.
Before ==
  <<"empty", "AD", "A7", "A7", "A8", "20", "empty", "60", "write_config",
    "D4", "F6", "empty", "D4", "F4", "empty", "AE">>

Target == (boot \cup {MouseIrq}) \ {KbdOff, MouseOff}

WritesInv ==
  /\ inbuf \in {"empty", Before[pc]}
  /\ (pc = 8 /\ inbuf = "empty") \/ inbuf = "write_config" => expect = "config"
  /\ (pc \in {10, 13} /\ inbuf = "empty") \/ inbuf \in {"F6", "F4"} => expect = "mouse"

ConfigInv ==
  /\ pc \in 3 .. 15 \/ (pc = 2 /\ inbuf = "empty") => KbdOff \in config
  /\ pc >= 6 \/ (pc = 5 /\ inbuf = "empty") => MouseOff \notin config
  /\ pc <= 8 \/ inbuf = "write_config" =>
       config \ {KbdOff, MouseOff} = boot \ {KbdOff, MouseOff}
  /\ pc >= 7 => new_config = Target \cup {KbdOff}
  /\ pc >= 9 /\ inbuf # "write_config" => config \ {KbdOff} = Target

AnswersInv ==
  /\ pc # 6 \/ inbuf # "empty" => queue["controller"] = <<>>
  /\ pc <= 10 \/ pc \in {12, 13} \/ inbuf \in {"F6", "F4"} => queue["mouse"] = <<>>
  /\ pc \in {4, 5, 7, 8, 9, 10, 12, 13} \/ inbuf \in {"20", "F6", "F4"} => obf = None
  /\ pc <= 13 \/ inbuf = "F4" => ~reporting
  /\ pc = 6 /\ inbuf = "empty" => Unread("controller", ConfigByte(config))
  /\ pc = 11 /\ inbuf = "empty" => Unread("mouse", Ack)
  /\ pc = 14 /\ inbuf = "empty" => \/ AcksAhead(1) /\ obf = None
                                   \/ AcksAhead(0) /\ obf = Ack
  /\ pc >= 15 => /\ AcksAhead(0) /\ obf \in {None, Scancode, PacketByte}
                 /\ last \in {Ack, Scancode, PacketByte}

DialogueInv == OnTime /\ ~streaming => WritesInv /\ ConfigInv /\ AnswersInv
-----------------------------------------------------------------------------
(***************************************************************************)
(* The bytes that are no movement, however late.  Until the mouse handler  *)
(* is first entered, its interrupt is pending only if an acknowledgement   *)
(* has been offered; afterwards an interrupt is pending only with the byte *)
(* that raised it still in the output buffer, so a later stray byte is     *)
(* another acknowledgement.                                                *)
(***************************************************************************)
F6Due == pc <= 10 \/ inbuf = "F6"
F4Due == pc <= 13 \/ inbuf = "F4"
Due == (IF F6Due THEN 1 ELSE 0) + (IF F4Due THEN 1 ELSE 0)
InBuffer == IF obf = Ack THEN 1 ELSE 0

StraysKnown ==
  /\ OnTime => Len(strays) <= 1 /\ \A i \in DOMAIN strays : strays[i] \in {Ack, Scancode}
  /\ \A i \in DOMAIN strays : i > 1 => strays[i] = Ack

NotEntered(n) ==
  /\ strays = <<>>
  /\ n + Due <= IF MouseIrq \in irq THEN 1 ELSE 2

Entered(n) ==
  /\ Done
  /\ KbdIrq \in irq => obf = Scancode \/ obf \in ConfigBytes
  /\ MouseIrq \in irq => obf \in {Ack, PacketByte}
  /\ Len(strays) + n + Due + InBuffer <= 2
  /\ StraysKnown

StrayAfter(n) ==
  /\ AcksAhead(n)
  /\ F4Due => ~reporting /\ Len(queue["mouse"]) = n
  /\ NotEntered(n) \/ Entered(n)

StrayInv ==
  /\ inbuf = "F6" => pc \in {11, 12}
  /\ inbuf = "F4" => pc \in {14, 15}
  /\ ~streaming => \E n \in 0 .. 2 : StrayAfter(n)
-----------------------------------------------------------------------------
(***************************************************************************)
(* Facts about the program and the bytes.                                  *)
(***************************************************************************)
\* mouse::init makes fifteen port accesses.
LEMMA Program ==
  /\ Len(init) = 15
  /\ init[1] = "AD" /\ init[2] = "A7" /\ init[3] = "flush" /\ init[4] = "A8"
  /\ init[5] = "20" /\ init[6] = "read_config" /\ init[7] = "60" /\ init[8] = "write_config"
  /\ init[9] = "D4" /\ init[10] = "F6" /\ init[11] = "read"
  /\ init[12] = "D4" /\ init[13] = "F4" /\ init[14] = "read" /\ init[15] = "AE"
  <1> DEFINE Ops == {Prologue[i] : i \in 1 .. 8} \cup {Mouse[i] : i \in 1 .. 6} \cup {"AE"}
             start == Prologue \o Mouse
             end == <<"AE">>
  <1>1. Len(Prologue) = 8 /\ Len(Mouse) = 6 /\ Len(end) = 1
    BY DEF Prologue, Mouse
  <1>a. Prologue \in Seq(Ops) /\ Mouse \in Seq(Ops) /\ end \in Seq(Ops)
    <2>1. end \in Seq(Ops)
      OBVIOUS
    <2>2. Prologue \in Seq({Prologue[i] : i \in 1 .. 8})
      BY DEF Prologue
    <2>3. Mouse \in Seq({Mouse[i] : i \in 1 .. 6})
      BY DEF Mouse
    <2> QED
      BY <2>1, <2>2, <2>3
  <1> HIDE DEF Ops
  <1>2. /\ start \in Seq(Ops) /\ Len(start) = 14
        /\ \A i \in 1 .. 14 : start[i] = IF i <= 8 THEN Prologue[i] ELSE Mouse[i - 8]
    <2>1. /\ start \in Seq(Ops) /\ Len(start) = Len(Prologue) + Len(Mouse)
          /\ \A i \in 1 .. Len(Prologue) + Len(Mouse) :
               start[i] = IF i <= Len(Prologue) THEN Prologue[i] ELSE Mouse[i - Len(Prologue)]
      BY <1>a, ConcatProperties, Zenon
    <2> HIDE DEF start
    <2> QED
      BY <1>1, <2>1
  <1>3. /\ Len(init) = 15
        /\ \A i \in 1 .. 15 : init[i] = IF i <= 14 THEN start[i] ELSE end[i - 14]
    <2>1. init = start \o end
      BY DEF init
    <2> HIDE DEF start, end
    <2>2. /\ Len(init) = Len(start) + Len(end)
          /\ \A i \in 1 .. Len(start) + Len(end) :
               init[i] = IF i <= Len(start) THEN start[i] ELSE end[i - Len(start)]
      BY <1>a, <1>2, <2>1, ConcatProperties, Zenon
    <2> QED
      BY <1>1, <1>2, <2>2
  <1>4. \A i \in 1 .. 15 : init[i] = IF i <= 8 THEN Prologue[i]
                                     ELSE IF i <= 14 THEN Mouse[i - 8] ELSE "AE"
    <2>1. end[1] = "AE"
      OBVIOUS
    <2> HIDE DEF start, end
    <2> QED
      BY <1>2, <1>3, <2>1
  <1> HIDE DEF start, end
  <1> QED
    BY <1>3, <1>4 DEF Prologue, Mouse

\* Where each is made.
LEMMA OpAt ==
  ASSUME pc \in 1 .. 16
  PROVE  /\ Op = "AD" <=> pc = 1
         /\ Op = "A7" <=> pc = 2
         /\ Op = "flush" <=> pc = 3
         /\ Op = "A8" <=> pc = 4
         /\ Op = "20" <=> pc = 5
         /\ Op = "read_config" <=> pc = 6
         /\ Op = "60" <=> pc = 7
         /\ Op = "write_config" <=> pc = 8
         /\ Op = "D4" <=> pc \in {9, 12}
         /\ Op = "F6" <=> pc = 10
         /\ Op = "read" <=> pc \in {11, 14}
         /\ Op = "F4" <=> pc = 13
         /\ Op = "AE" <=> pc = 15
         /\ Done <=> pc = 16
  BY Program DEF Op, Done

\* Bytes of different kinds differ, whatever the configuration.
LEMMA Bytes ==
  /\ Ack \in Byte /\ Scancode \in Byte /\ PacketByte \in Byte /\ None \in Byte
  /\ Ack # Scancode /\ Ack # PacketByte /\ Ack # None
  /\ Scancode # PacketByte /\ Scancode # None /\ PacketByte # None
  /\ PacketByte.kind = "move"
  BY DEF Byte, Ack, AckByte, Scancode, PacketByte, None

\* A configuration byte is none of the others, whatever it says.
LEMMA ConfigBytesApart ==
  ASSUME NEW c \in SUBSET (0 .. 7)
  PROVE  /\ ConfigByte(c) \in ConfigBytes
         /\ ConfigByte(c) \in Byte
         /\ ConfigByte(c).bits = c
         /\ ConfigByte(c) # Ack /\ ConfigByte(c) # Scancode
         /\ ConfigByte(c) # PacketByte /\ ConfigByte(c) # None
  <1>1. ConfigByte(c).kind = "config"
    BY DEF ConfigByte
  <1>2. Ack.kind = "ack" /\ Scancode.kind = "key" /\ PacketByte.kind = "move" /\ None.kind = "none"
    BY DEF Ack, Scancode, PacketByte, None
  <1> QED
    BY <1>1, <1>2 DEF ConfigByte, ConfigBytes, Byte

\* What is read is a byte.
LEMMA PortType ==
  ASSUME TypeInv
  PROVE  PortByte \in Byte /\ PortByte.bits \in SUBSET (0 .. 7)
  BY DEF TypeInv, PortByte, Byte
-----------------------------------------------------------------------------
(***************************************************************************)
(* Types.                                                                  *)
(***************************************************************************)
Sources == {"controller", "keyboard", "mouse"}
Sent(s) == CASE s = "controller" -> ConfigBytes
             [] s = "keyboard" -> {Scancode}
             [] s = "mouse" -> {Ack, PacketByte}

\* Sends, one source at a time.
LEMMA SendsEach ==
  Sends <=> queue = [s \in Sources |-> queue[s]] /\ \A s \in Sources : queue[s] \in Seq(Sent(s))
  BY DEF Sends, Sources, Sent

\* A byte that is sent joins its source's queue at the end.
LEMMA ReplySends ==
  ASSUME Sends, NEW s \in Sources, NEW byte \in Sent(s), Reply(s, byte)
  PROVE  /\ Sends'
         /\ queue'[s] = Append(queue[s], byte)
         /\ \A t \in Sources \ {s} : queue'[t] = queue[t]
  <1>1. queue = [t \in Sources |-> queue[t]] /\ \A t \in Sources : queue[t] \in Seq(Sent(t))
    BY SendsEach
  <1>2. Append(queue[s], byte) \in Seq(Sent(s))
    BY <1>1, AppendProperties
  <1>3. /\ queue' = [t \in Sources |-> queue'[t]]
        /\ queue'[s] = Append(queue[s], byte)
        /\ \A t \in Sources \ {s} : queue'[t] = queue[t]
    BY <1>1 DEF Reply
  <1>4. \A t \in Sources : queue'[t] \in Seq(Sent(t))
    BY <1>1, <1>2, <1>3
  <1> QED
    BY <1>3, <1>4 DEF Sends, Sources, Sent

\* A byte that is offered is the first of its source's queue.
LEMMA OfferSends ==
  ASSUME Sends, NEW s \in Sources, queue[s] # <<>>, queue' = [queue EXCEPT ![s] = Tail(@)]
  PROVE  /\ Sends'
         /\ Head(queue[s]) \in Sent(s)
         /\ queue'[s] = Tail(queue[s])
         /\ \A t \in Sources \ {s} : queue'[t] = queue[t]
  <1>1. queue = [t \in Sources |-> queue[t]] /\ \A t \in Sources : queue[t] \in Seq(Sent(t))
    BY SendsEach
  <1>2. Head(queue[s]) \in Sent(s) /\ Tail(queue[s]) \in Seq(Sent(s))
    BY <1>1, HeadTailProperties
  <1>3. /\ queue' = [t \in Sources |-> queue'[t]]
        /\ queue'[s] = Tail(queue[s])
        /\ \A t \in Sources \ {s} : queue'[t] = queue[t]
    BY <1>1
  <1>4. \A t \in Sources : queue'[t] \in Seq(Sent(t))
    BY <1>1, <1>2, <1>3
  <1> QED
    BY <1>2, <1>3, <1>4 DEF Sends, Sources, Sent

\* Everything sent is a byte.
LEMMA SentBytes ==
  ASSUME NEW s \in Sources, NEW byte \in Sent(s)
  PROVE  byte \in Byte /\ byte # None
  BY Bytes, ConfigBytesApart DEF Sources, Sent, ConfigBytes

\* The types hold at power-on.
LEMMA TypeStart == Init => TypeInv
  <1> SUFFICES ASSUME Init PROVE TypeInv
    OBVIOUS
  <1>1. Sends
    BY DEF Init, Sends
  <1>2. obf \in Byte /\ last \in Byte
    BY Bytes DEF Init
  <1>3. boot \in SUBSET (0 .. 7)
    BY ConfigAssumption DEF Init
  <1>4. late \in 0 .. 16 /\ reporting \in BOOLEAN
    <2>1. late = 0
      BY Zenon DEF Init
    <2>2. reporting \in BOOLEAN
      BY Zenon DEF Init
    <2> QED
      BY <2>1, <2>2
  <1>5. pc \in 1 .. 16 /\ strays \in Seq(Byte) /\ {new_config, config, boot} \subseteq SUBSET (0 .. 7)
    BY <1>3, SMT DEF Init
  <1>6. irq = {}
    BY Zenon DEF Init
  <1> QED
    BY <1>1, <1>2, <1>4, <1>5, <1>6 DEF TypeInv

\* Every step keeps them.
LEMMA TypeStep == TypeInv /\ [Next]_vars => TypeInv'
  <1> SUFFICES ASSUME TypeInv, [Next]_vars PROVE TypeInv'
    OBVIOUS
  <1>0. /\ PortByte \in Byte /\ PortByte.bits \in SUBSET (0 .. 7) /\ None \in Byte
        /\ pc \in 1 .. 16
    BY PortType, Bytes DEF TypeInv
  <1>1. CASE Write
    <2>1. pc' \in 1 .. 16
      BY <1>0, <1>1, OpAt DEF Write, Done
    <2>2. late' \in 0 .. 16
      BY <1>0, <1>1 DEF Write, GiveUp, TypeInv
    <2> QED
      BY <1>1, <2>1, <2>2 DEF Write, TypeInv, Sends, devices, history
  <1>2. CASE Read /\ late' \in 0 .. 16
    <2>1. pc' \in 1 .. 16
      BY <1>0, <1>2, OpAt DEF Read
    <2>2. new_config' \in SUBSET (0 .. 7)
      BY <1>0, <1>2 DEF Read, WithMouseIrq, MouseIrq, TypeInv
    <2> QED
      BY <1>0, <1>2, <2>1, <2>2 DEF Read, ReadPort, TypeInv, Sends, devices, history
  <1>3. CASE flush_output_buffer
    <2>1. pc' \in 1 .. 16
      BY <1>0, <1>3, OpAt DEF flush_output_buffer
    <2> QED
      BY <1>0, <1>3, <2>1 DEF flush_output_buffer, ReadPort, TypeInv, Sends, devices, history
  <1>4. CASE keyboard_handler \/ mouse_handler
    <2>1. strays' \in Seq(Byte)
      BY <1>0, <1>4, AppendProperties DEF keyboard_handler, mouse_handler, TypeInv
    <2> QED
      BY <1>0, <1>4, <2>1 DEF keyboard_handler, mouse_handler, ReadPort, TypeInv, Sends, program, devices, history
  <1>5. CASE Obey
    <2>1. Sends' /\ config' \in SUBSET (0 .. 7) /\ reporting' \in BOOLEAN
      <3>1. CASE inbuf = "20"
        <4>1. Reply("controller", ConfigByte(config)) /\ UNCHANGED <<config, reporting>>
          BY <1>5, <3>1 DEF Obey
        <4>2. ConfigByte(config) \in Sent("controller")
          BY ConfigBytesApart DEF TypeInv, Sent
        <4> QED
          BY <4>1, <4>2, ReplySends DEF TypeInv, Sources
      <3>2. CASE inbuf \in {"F6", "F4"} /\ expect = "mouse"
        <4>1. Reply("mouse", Ack) /\ reporting' = (inbuf = "F4") /\ UNCHANGED config
          BY <1>5, <3>2 DEF Obey
        <4> QED
          BY <4>1, ReplySends DEF TypeInv, Sources, Sent
      <3>3. CASE inbuf # "20" /\ ~(inbuf \in {"F6", "F4"} /\ expect = "mouse")
        <4>1. UNCHANGED <<queue, reporting>>
          BY <1>5, <3>3 DEF Obey, Silent
        <4>2. config' \in {config \cup {KbdOff}, config \ {KbdOff}, config \cup {MouseOff},
                           config \ {MouseOff}, config, new_config,
                           {1, 2, 4, 5, 6, 7}, {2, 4, 5, 6, 7}}
          BY <1>5, <3>3 DEF Obey, Silent, Data
        <4> QED
          BY <4>1, <4>2 DEF TypeInv, Sends, KbdOff, MouseOff
      <3> QED
        BY <3>1, <3>2, <3>3
    <2> QED
      BY <1>5, <2>1 DEF Obey, TypeInv, program, history
  <1>6. ASSUME NEW s \in DOMAIN queue, Offer(s) PROVE TypeInv'
    <2>1. s \in Sources
      BY <1>6, SendsEach DEF TypeInv
    <2>2. Sends' /\ Head(queue[s]) \in Sent(s)
      BY <1>6, <2>1, OfferSends DEF Offer, TypeInv
    <2>3. irq' \subseteq {KbdIrq, MouseIrq}
      BY <1>6 DEF Offer, TypeInv
    <2>4. obf' \in Byte
      BY <1>6, <2>1, <2>2, SentBytes DEF Offer
    <2> QED
      BY <1>6, <2>2, <2>3, <2>4 DEF Offer, TypeInv, program, devices, history
  <1>7. CASE KeyPress
    <2>1. Sends'
      BY <1>7, ReplySends DEF KeyPress, TypeInv, Sources, Sent
    <2> QED
      BY <1>7, <2>1 DEF KeyPress, TypeInv, program, devices
  <1>8. CASE MouseMove
    <2>1. Sends'
      BY <1>8, ReplySends DEF MouseMove, TypeInv, Sources, Sent
    <2> QED
      BY <1>8, <2>1 DEF MouseMove, TypeInv, program, devices
  <1>9. CASE UNCHANGED vars
    BY <1>9 DEF vars, TypeInv, Sends
  <1> QED
    BY <1>1, <1>2, <1>3, <1>4, <1>5, <1>6, <1>7, <1>8, <1>9
    DEF Next, Cpu, read_data, ReadTimeout, GiveUp, Controller, TypeInv
-----------------------------------------------------------------------------
(***************************************************************************)
(* The acknowledgements ahead of the movements.                            *)
(***************************************************************************)
\* As long as no movement has been sent, an acknowledgement goes behind the others.
LEMMA AckAppended ==
  ASSUME Sends, NEW n \in Nat, AcksAhead(n), Len(queue["mouse"]) = n,
         queue'["mouse"] = Append(queue["mouse"], Ack)
  PROVE  AcksAhead(n + 1)' /\ Len(queue'["mouse"]) = n + 1
  BY AppendProperties DEF AcksAhead, Sends

\* A movement goes behind all of them.
LEMMA MoveAppended ==
  ASSUME Sends, NEW n \in Nat, AcksAhead(n), queue'["mouse"] = Append(queue["mouse"], PacketByte)
  PROVE  AcksAhead(n)'
  BY AppendProperties DEF AcksAhead, Sends

\* They are taken first.
LEMMA MouseTaken ==
  ASSUME Sends, NEW n \in Nat, AcksAhead(n), queue["mouse"] # <<>>,
         queue'["mouse"] = Tail(queue["mouse"])
  PROVE  /\ Len(queue'["mouse"]) = Len(queue["mouse"]) - 1
         /\ n > 0 => Head(queue["mouse"]) = Ack /\ AcksAhead(n - 1)'
         /\ n = 0 => Head(queue["mouse"]) = PacketByte /\ AcksAhead(0)'
  <1> DEFINE q == queue["mouse"]
  <1>1. q \in Seq({Ack, PacketByte}) /\ q # <<>>
    BY DEF Sends
  <1>2. /\ Len(q) \in Nat \ {0} /\ Head(q) = q[1] /\ Len(Tail(q)) = Len(q) - 1
        /\ \A i \in 1 .. Len(Tail(q)) : Tail(q)[i] = q[i + 1]
    BY <1>1, HeadTailProperties
  <1>3. n <= Len(q) /\ \A i \in 1 .. Len(q) : q[i] = IF i <= n THEN Ack ELSE PacketByte
    BY DEF AcksAhead
  <1> HIDE DEF q
  <1>4. Head(q) = IF n > 0 THEN Ack ELSE PacketByte
    BY <1>2, <1>3
  <1>5. \A i \in 1 .. Len(Tail(q)) : Tail(q)[i] = IF i + 1 <= n THEN Ack ELSE PacketByte
    BY <1>2, <1>3
  <1>6. queue'["mouse"] = Tail(q) /\ q = queue["mouse"]
    BY DEF q
  <1> QED
    BY <1>2, <1>3, <1>4, <1>5, <1>6 DEF AcksAhead

\* Nothing else changes them.
LEMMA AcksKept ==
  ASSUME queue'["mouse"] = queue["mouse"]
  PROVE  \A n \in Nat : AcksAhead(n)' <=> AcksAhead(n)
  BY DEF AcksAhead

\* An empty queue, and one with a single acknowledgement.
LEMMA AcksFew ==
  /\ queue["mouse"] = <<>> => AcksAhead(0) /\ Len(queue["mouse"]) = 0
  /\ queue["mouse"] = <<Ack>> => AcksAhead(1)
  BY DEF AcksAhead
-----------------------------------------------------------------------------
(***************************************************************************)
(* The dialogue is the one meant.                                          *)
(***************************************************************************)
\* It is at power-on.
LEMMA DialogueStart == Init => DialogueInv
  <1> SUFFICES ASSUME Init, OnTime, ~streaming PROVE WritesInv /\ ConfigInv /\ AnswersInv
    BY DEF DialogueInv
  <1>1. pc = 1 /\ inbuf = "empty" /\ config = boot /\ ~reporting
        /\ queue["controller"] = <<>> /\ queue["mouse"] = <<>>
    BY DEF Init
  <1> QED
    BY <1>1 DEF WritesInv, ConfigInv, AnswersInv, Before

\* A write finds the input buffer empty, or the wait before it has given up.
LEMMA DialogueWrite ==
  ASSUME TypeInv, WritesInv, ConfigInv, AnswersInv, OnTime, Write, OnTime'
  PROVE  WritesInv' /\ ConfigInv' /\ AnswersInv'
  <1>a. inbuf = "empty"
    <2>1. pc # 0 /\ late = 0 /\ late' = 0
      BY DEF TypeInv, OnTime
    <2> QED
      BY <2>1, Zenon DEF Write, GiveUp
  <1>1. /\ inbuf = "empty" /\ inbuf' = Op /\ pc' = pc + 1 /\ pc \in 1 .. 15
        /\ pc \notin {3, 6, 11, 14}
    BY <1>a, OpAt DEF Write, TypeInv, Done
  <1>2. inbuf' = Before[pc'] /\ inbuf' # "empty"
    BY <1>1, OpAt DEF Before, TypeInv
  <1>3. UNCHANGED <<new_config, expect, config, boot, reporting, queue, obf, last>>
    BY DEF Write, devices, history
  <1>4. WritesInv'
    BY <1>1, <1>2, <1>3 DEF WritesInv, Before
  <1>5. ConfigInv'
    BY <1>1, <1>2, <1>3 DEF ConfigInv, Before, Target
  <1>6. AnswersInv'
    <2>1. pc = 15 => AcksAhead(0)'
      BY <1>3, AcksKept DEF AnswersInv
    <2> QED
      BY <1>1, <1>2, <1>3, <2>1 DEF AnswersInv, Before, Unread
  <1> QED
    BY <1>4, <1>5, <1>6

\* A read that finds a byte finds the answer it is for.
LEMMA DialogueRead ==
  ASSUME TypeInv, WritesInv, ConfigInv, AnswersInv, read_data
  PROVE  WritesInv' /\ ConfigInv' /\ AnswersInv'
  <1>1. /\ pc \in {6, 11, 14} /\ pc' = pc + 1 /\ obf # None /\ obf' = None
        /\ UNCHANGED <<inbuf, expect, config, boot, reporting, queue>>
    BY OpAt DEF read_data, Read, ReadPort, TypeInv, devices, history
  <1>2. inbuf = "empty"
    BY <1>1 DEF WritesInv, AnswersInv, Before
  <1>3. CASE pc = 6
    <2>1. obf = ConfigByte(config) /\ queue["controller"] = <<>>
      BY <1>1, <1>2, <1>3 DEF AnswersInv, Unread
    <2>2. new_config' = config \cup {MouseIrq}
      BY <1>1, <1>3, <2>1, OpAt, ConfigBytesApart
      DEF read_data, Read, PortByte, WithMouseIrq, TypeInv
    <2>3. new_config' = Target' \cup {KbdOff}
      BY <1>1, <1>3, <2>2 DEF ConfigInv, Target, KbdOff, MouseOff, MouseIrq
    <2>4. ConfigInv'
      BY <1>1, <1>3, <2>3 DEF ConfigInv, Target
    <2> QED
      BY <1>1, <1>2, <1>3, <2>1, <2>4 DEF WritesInv, AnswersInv, Before
  <1>4. CASE pc \in {11, 14}
    <2>1. new_config' = new_config
      BY <1>1, <1>4, OpAt DEF read_data, Read, TypeInv
    <2>2. ConfigInv'
      BY <1>1, <1>2, <1>4, <2>1 DEF ConfigInv, Target
    <2>3. pc = 11 => queue'["mouse"] = <<>>
      BY <1>1, <1>2, <1>4 DEF AnswersInv, Unread
    <2>4. pc = 14 => AcksAhead(0)' /\ last' = Ack
      BY <1>1, <1>2, <1>4, AcksKept DEF AnswersInv, read_data, Read, ReadPort, PortByte
    <2>5. AnswersInv'
      BY <1>1, <1>2, <1>4, <2>3, <2>4, Bytes DEF AnswersInv
    <2> QED
      BY <1>1, <1>2, <1>4, <2>2, <2>5 DEF WritesInv, Before
  <1> QED
    BY <1>1, <1>3, <1>4

\* The flush leaves an empty output buffer behind, and the keyboard is off.
LEMMA DialogueFlush ==
  ASSUME TypeInv, WritesInv, ConfigInv, AnswersInv, flush_output_buffer
  PROVE  WritesInv' /\ ConfigInv' /\ AnswersInv'
  <1>1. /\ pc = 3
        /\ UNCHANGED <<new_config, inbuf, expect, config, boot, reporting, queue>>
        /\ obf' = None /\ pc' \in {3, 4}
    BY OpAt DEF flush_output_buffer, ReadPort, TypeInv, devices, history
  <1>2. inbuf \in {"empty", "A7"}
    BY <1>1 DEF WritesInv, Before
  <1> QED
    BY <1>1, <1>2 DEF WritesInv, ConfigInv, AnswersInv, Before, Target

\* The handlers read what no command has asked for.
LEMMA DialogueHandlers ==
  ASSUME TypeInv, WritesInv, ConfigInv, AnswersInv, keyboard_handler \/ mouse_handler
  PROVE  WritesInv' /\ ConfigInv' /\ AnswersInv'
  <1>1. /\ pc = 16 /\ obf' = None /\ last' = PortByte
        /\ UNCHANGED <<pc, new_config, inbuf, expect, config, boot, reporting, queue>>
    BY OpAt DEF keyboard_handler, mouse_handler, ReadPort, TypeInv, program, devices, history
  <1>2. AcksAhead(0)'
    BY <1>1, AcksKept DEF AnswersInv
  <1>3. inbuf \in {"empty", "AE"}
    BY <1>1 DEF WritesInv, Before
  <1>4. PortByte \in {Ack, Scancode, PacketByte}
    BY <1>1 DEF AnswersInv, PortByte
  <1> QED
    BY <1>1, <1>2, <1>3, <1>4, Bytes DEF WritesInv, ConfigInv, AnswersInv, Before, Target

\* The controller takes the write that is before it.
LEMMA DialogueObey ==
  ASSUME TypeInv, WritesInv, ConfigInv, AnswersInv, Obey
  PROVE  WritesInv' /\ ConfigInv' /\ AnswersInv'
  <1>1. /\ inbuf = Before[pc] /\ inbuf # "empty" /\ inbuf' = "empty" /\ pc \in 1 .. 16
        /\ UNCHANGED <<pc, new_config, boot, obf, last>>
    BY DEF Obey, WritesInv, TypeInv, program, history
  <1>2. expect' = IF inbuf = "60" THEN "config" ELSE IF inbuf = "D4" THEN "mouse" ELSE "keyboard"
    BY DEF Obey
  <1>3. WritesInv'
    BY <1>1, <1>2 DEF WritesInv, Before
  <1>4. config' = CASE pc = 2 -> config \cup {KbdOff}
                    [] pc \in {3, 4} -> config \cup {MouseOff}
                    [] pc = 5 -> config \ {MouseOff}
                    [] pc = 9 -> new_config
                    [] pc = 16 -> config \ {KbdOff}
                    [] OTHER -> config
    BY <1>1 DEF Obey, Data, Silent, WritesInv, Before
  <1>5. ConfigInv'
    <2>1. CASE pc \in {2, 3, 4, 5}
      BY <1>1, <1>4, <2>1 DEF ConfigInv, Before, KbdOff, MouseOff
    <2>2. CASE pc = 9
      BY <1>1, <1>4, <2>2 DEF ConfigInv, Before, Target, KbdOff, MouseOff
    <2>3. CASE pc = 16
      BY <1>1, <1>4, <2>3 DEF ConfigInv, Before, Target, KbdOff, MouseOff
    <2>4. CASE pc \notin {2, 3, 4, 5, 9, 16}
      BY <1>1, <1>4, <2>4 DEF ConfigInv, Before, Target
    <2> QED
      BY <2>1, <2>2, <2>3, <2>4
  <1>6. AnswersInv'
    <2>1. CASE pc = 6
      <3>1. Reply("controller", ConfigByte(config)) /\ UNCHANGED <<config, reporting>>
        BY <1>1, <2>1 DEF Obey, Before
      <3>2. ConfigByte(config) \in Sent("controller")
        BY ConfigBytesApart DEF TypeInv, Sent
      <3>3. queue'["controller"] = Append(<<>>, ConfigByte(config)) /\ queue'["mouse"] = <<>>
        BY <1>1, <2>1, <3>1, <3>2, ReplySends DEF TypeInv, Sources, AnswersInv, Before
      <3> QED
        BY <1>1, <2>1, <3>1, <3>3 DEF AnswersInv, Unread, Before
    <2>2. CASE pc \in {11, 14}
      <3>1. Reply("mouse", Ack) /\ reporting' = (inbuf = "F4")
        BY <1>1, <2>2 DEF Obey, WritesInv, Before
      <3>a. Ack \in Sent("mouse") /\ "mouse" \in Sources /\ "controller" \in Sources \ {"mouse"}
        BY DEF Sent, Sources
      <3>b. queue["mouse"] = <<>> /\ queue["controller"] = <<>>
        BY <1>1, <2>2 DEF AnswersInv, Before
      <3>2. queue'["mouse"] = Append(<<>>, Ack) /\ queue'["controller"] = <<>>
        BY <3>1, <3>a, <3>b, ReplySends DEF TypeInv
      <3>3. AcksAhead(1)'
        BY <3>2 DEF AcksAhead
      <3>4. pc = 11 => ~reporting'
        <4>1. pc = 11 => inbuf # "F4"
          BY <1>1 DEF Before
        <4> QED
          BY <3>1, <4>1, Zenon
      <3> QED
        BY <1>1, <2>2, <3>2, <3>3, <3>4 DEF AnswersInv, Unread, Before
    <2>3. CASE pc \notin {6, 11, 14}
      <3>1. UNCHANGED <<queue, reporting>>
        BY <1>1, <2>3 DEF Obey, Silent, Before
      <3>2. \A n \in Nat : AcksAhead(n)' <=> AcksAhead(n)
        BY <3>1, AcksKept
      <3> QED
        BY <1>1, <2>3, <3>1, <3>2 DEF AnswersInv, Before
    <2> QED
      BY <2>1, <2>2, <2>3
  <1> QED
    BY <1>3, <1>5, <1>6

\* The controller passes an answer on; the keyboard is off until the end.
LEMMA DialogueOffer ==
  ASSUME TypeInv, WritesInv, ConfigInv, AnswersInv, NEW s \in Sources, Offer(s)
  PROVE  WritesInv' /\ ConfigInv' /\ AnswersInv'
  <1>1. /\ UNCHANGED <<pc, new_config, inbuf, expect, config, boot, reporting, last>>
        /\ obf = None /\ obf' = Head(queue[s]) /\ queue[s] # <<>> /\ pc \in 1 .. 16
    BY DEF Offer, program, devices, history, TypeInv
  <1>2. WritesInv' /\ ConfigInv'
    BY <1>1 DEF WritesInv, ConfigInv, Target
  <1>3. /\ Head(queue[s]) \in Sent(s) /\ queue'[s] = Tail(queue[s])
        /\ \A t \in Sources \ {s} : queue'[t] = queue[t]
    BY <1>1, OfferSends DEF Offer, TypeInv
  <1>4. CASE s = "keyboard"
    <2>1. pc \notin 3 .. 15 /\ obf' = Scancode
      BY <1>1, <1>3, <1>4, Bytes DEF Offer, ConfigInv, Sent
    <2>2. queue'["mouse"] = queue["mouse"] /\ queue'["controller"] = queue["controller"]
      BY <1>3, <1>4 DEF Sources
    <2>3. pc = 16 => AcksAhead(0)'
      BY <2>2, AcksKept DEF AnswersInv
    <2>4. inbuf \in {"empty", "AD", "AE"} \/ pc \in 3 .. 15
      BY <1>1, <2>1 DEF WritesInv, Before
    <2> QED
      BY <1>1, <1>2, <2>1, <2>2, <2>3, <2>4 DEF AnswersInv
  <1>5. CASE s = "controller"
    <2>1. pc = 6 /\ inbuf = "empty" /\ queue["controller"] = <<ConfigByte(config)>>
      BY <1>1, <1>5, ConfigBytesApart DEF AnswersInv, Unread, TypeInv
    <2>2. obf' = ConfigByte(config)' /\ queue'["controller"] = <<>> /\ queue'["mouse"] = queue["mouse"]
      BY <1>1, <1>3, <1>5, <2>1 DEF Sources, ConfigByte
    <2> QED
      BY <1>1, <1>2, <2>1, <2>2 DEF AnswersInv, Unread
  <1>6. CASE s = "mouse"
    <2>1. queue'["controller"] = queue["controller"]
      BY <1>3, <1>6 DEF Sources
    <2>2. ~(pc <= 10 \/ pc \in {12, 13} \/ inbuf \in {"F6", "F4"})
      BY <1>1, <1>6 DEF AnswersInv
    <2>3. CASE pc = 11
      <3>1. inbuf = "empty" /\ queue["mouse"] = <<Ack>>
        BY <1>1, <1>6, <2>2, <2>3 DEF WritesInv, Before, AnswersInv, Unread
      <3>2. obf' = Ack /\ queue'["mouse"] = <<>>
        BY <1>1, <1>3, <1>6, <3>1
      <3> QED
        BY <1>1, <1>2, <2>1, <2>3, <3>1, <3>2 DEF AnswersInv, Unread
    <2>4. CASE pc = 14
      <3>1. inbuf = "empty" /\ AcksAhead(1)
        BY <1>1, <2>2, <2>4, Bytes DEF WritesInv, Before, AnswersInv
      <3>2. obf' = Ack /\ AcksAhead(0)'
        <4>1. 1 \in Nat /\ 1 > 0 /\ 1 - 1 = 0
          OBVIOUS
        <4>2. Head(queue["mouse"]) = Ack /\ AcksAhead(1 - 1)'
          BY <1>1, <1>3, <1>6, <3>1, MouseTaken DEF TypeInv
        <4> QED
          BY <1>1, <1>6, <4>1, <4>2
      <3> QED
        BY <1>1, <1>2, <2>1, <2>4, <3>1, <3>2 DEF AnswersInv
    <2>5. CASE pc >= 15
      <3>1. AcksAhead(0)' /\ Head(queue["mouse"]) = PacketByte
        BY <1>1, <1>3, <1>6, <2>5, MouseTaken DEF TypeInv, AnswersInv
      <3>2. obf' = PacketByte
        BY <1>1, <1>6, <3>1
      <3> QED
        BY <1>1, <1>2, <2>1, <2>2, <2>5, <3>1, <3>2 DEF AnswersInv, WritesInv, Before
    <2> QED
      BY <1>1, <2>2, <2>3, <2>4, <2>5
  <1> QED
    BY <1>4, <1>5, <1>6 DEF Sources

\* A key typed waits at the keyboard, a movement behind the acknowledgements.
LEMMA DialogueTyping ==
  ASSUME TypeInv, WritesInv, ConfigInv, AnswersInv, KeyPress \/ MouseMove
  PROVE  WritesInv' /\ ConfigInv' /\ AnswersInv'
  <1>1. UNCHANGED <<pc, new_config, inbuf, expect, config, boot, reporting, obf, last>> /\ pc \in 1 .. 16
    BY DEF KeyPress, MouseMove, program, devices, TypeInv
  <1>2. WritesInv' /\ ConfigInv'
    BY <1>1 DEF WritesInv, ConfigInv, Target
  <1>3. CASE KeyPress
    <2>1. queue'["mouse"] = queue["mouse"] /\ queue'["controller"] = queue["controller"]
      BY <1>3, ReplySends DEF KeyPress, TypeInv, Sources, Sent
    <2>2. \A n \in Nat : AcksAhead(n)' <=> AcksAhead(n)
      BY <2>1, AcksKept
    <2> QED
      BY <1>1, <1>2, <2>1, <2>2 DEF AnswersInv, Unread, ConfigByte
  <1>4. CASE MouseMove
    <2>1. queue'["mouse"] = Append(queue["mouse"], PacketByte) /\ queue'["controller"] = queue["controller"]
      BY <1>4, ReplySends DEF MouseMove, TypeInv, Sources, Sent
    <2>2. pc >= 14 /\ inbuf # "F4"
      BY <1>1, <1>4 DEF MouseMove, AnswersInv
    <2>3. inbuf # "F6" /\ inbuf # "20"
      BY <2>2 DEF WritesInv, Before, TypeInv
    <2>4. \A n \in Nat : AcksAhead(n) => AcksAhead(n)'
      BY <2>1, MoveAppended DEF TypeInv
    <2> QED
      BY <1>1, <1>2, <2>1, <2>2, <2>3, <2>4 DEF AnswersInv
  <1> QED
    BY <1>3, <1>4

\* Once a wait has given up the history says so; what was at power-on, was.
LEMMA Histories == TypeInv /\ Next => streaming' = streaming /\ (late # 0 => late' # 0)
  <1> SUFFICES ASSUME TypeInv, Next PROVE streaming' = streaming /\ (late # 0 => late' # 0)
    OBVIOUS
  <1>1. CASE Write
    BY <1>1 DEF Write, GiveUp, history
  <1>2. CASE read_data \/ ReadTimeout
    BY <1>2 DEF read_data, ReadTimeout, GiveUp, Read, history
  <1>3. CASE flush_output_buffer
    BY <1>3 DEF flush_output_buffer, history
  <1>4. CASE keyboard_handler \/ mouse_handler
    BY <1>4 DEF keyboard_handler, mouse_handler, program, history
  <1>5. CASE Obey
    BY <1>5 DEF Obey, program, history
  <1>6. ASSUME NEW s \in DOMAIN queue, Offer(s) PROVE streaming' = streaming /\ (late # 0 => late' # 0)
    BY <1>6 DEF Offer, program, history
  <1>7. CASE KeyPress \/ MouseMove
    BY <1>7 DEF KeyPress, MouseMove, program
  <1> QED
    BY <1>1, <1>2, <1>3, <1>4, <1>5, <1>6, <1>7 DEF Next, Cpu, Controller

\* No step leaves the dialogue unless a wait gives up.
LEMMA DialogueStep == TypeInv /\ DialogueInv /\ [Next]_vars => DialogueInv'
  <1> SUFFICES ASSUME TypeInv, DialogueInv, [Next]_vars, OnTime', ~streaming'
               PROVE  WritesInv' /\ ConfigInv' /\ AnswersInv'
    BY DEF DialogueInv
  <1>1. CASE UNCHANGED vars
    BY <1>1 DEF vars, OnTime, DialogueInv, WritesInv, ConfigInv, AnswersInv, Unread, AcksAhead, Target, ConfigByte
  <1>2. CASE Next
    <2>1. streaming' = streaming /\ (late # 0 => late' # 0)
      BY <1>2, Histories
    <2>2. WritesInv /\ ConfigInv /\ AnswersInv /\ OnTime
      BY <2>1 DEF DialogueInv, OnTime
    <2>3. ~ReadTimeout
      <3>1. pc # 0 /\ late = 0 /\ late' = 0
        BY <2>2 DEF TypeInv, OnTime
      <3> QED
        BY <3>1, Zenon DEF ReadTimeout, GiveUp
    <2>4. DOMAIN queue = Sources
      BY DEF TypeInv, Sends, Sources
    <2> QED
      BY <1>2, <2>2, <2>3, <2>4, DialogueWrite, DialogueRead, DialogueFlush, DialogueHandlers, DialogueObey,
         DialogueOffer, DialogueTyping DEF Next, Cpu, Controller
  <1> QED
    BY <1>1, <1>2

(***************************************************************************)
(* If no wait gives up and the mouse is silent at power-on, mouse::init    *)
(* writes back what the firmware had set, with the mouse's interrupt and   *)
(* port enabled, whatever is typed meanwhile.                              *)
(***************************************************************************)
THEOREM ConfigurationKept == Spec => []ConfigPreserved
  <1>1. Init => TypeInv /\ DialogueInv
    BY TypeStart, DialogueStart
  <1>2. TypeInv /\ DialogueInv /\ [Next]_vars => TypeInv' /\ DialogueInv'
    BY TypeStep, DialogueStep
  <1>3. TypeInv /\ DialogueInv => ConfigPreserved
    <2> SUFFICES ASSUME TypeInv, DialogueInv, OnTime, ~streaming, Done
                 PROVE  config \ {KbdOff} = (boot \cup {MouseIrq}) \ {KbdOff, MouseOff}
      BY DEF ConfigPreserved
    <2>1. pc = 16 /\ WritesInv /\ ConfigInv
      BY OpAt DEF TypeInv, DialogueInv
    <2>2. inbuf # "write_config"
      BY <2>1 DEF WritesInv, Before
    <2> QED
      BY <2>1, <2>2 DEF ConfigInv, Target
  <1> QED
    BY <1>1, <1>2, <1>3, PTL DEF Spec
-----------------------------------------------------------------------------
(***************************************************************************)
(* Stray bytes.                                                            *)
(***************************************************************************)
\* Two acknowledgements are due at power-on.
LEMMA StrayStart == Init => StrayInv
  <1> SUFFICES ASSUME Init PROVE StrayInv
    OBVIOUS
  <1>1. pc = 1 /\ inbuf = "empty" /\ queue["mouse"] = <<>> /\ strays = <<>> /\ irq = {}
    BY DEF Init
  <1>a. ~streaming => ~reporting
    BY DEF Init
  <1>2. Due = 2
    BY <1>1 DEF Due, F6Due, F4Due
  <1>3. NotEntered(0)
    BY <1>1, <1>2 DEF NotEntered
  <1>4. ~streaming => StrayAfter(0)
    BY <1>1, <1>a, <1>3, AcksFew DEF StrayAfter
  <1> QED
    BY <1>1, <1>4 DEF StrayInv

\* What the processor does to its position and the input buffer.
LEMMA CpuSteps ==
  ASSUME TypeInv, Cpu
  PROVE  /\ pc \in 1 .. 15 /\ pc' \in {pc, pc + 1} /\ ~Done
         /\ inbuf' = inbuf \/ (inbuf' = Op /\ pc' = pc + 1)
         /\ inbuf' = inbuf => pc' = pc \/ pc \in {3, 6, 11, 14} \/ inbuf = Op
         /\ UNCHANGED <<reporting, queue, irq, strays>>
  BY OpAt DEF Cpu, Write, read_data, ReadTimeout, Read, flush_output_buffer, TypeInv, devices, Done

\* A command to the mouse is before the controller until the next write at most.
LEMMA InputBufferCpu ==
  ASSUME TypeInv, StrayInv, Cpu
  PROVE  (inbuf' = "F6" => pc' \in {11, 12}) /\ (inbuf' = "F4" => pc' \in {14, 15})
  <1>1. CASE inbuf' = Op /\ pc' = pc + 1
    BY <1>1, CpuSteps, OpAt
  <1>2. CASE inbuf' = inbuf /\ (pc' = pc \/ pc \in {3, 6, 11, 14})
    BY <1>2, CpuSteps DEF StrayInv
  <1> QED
    BY <1>1, <1>2, CpuSteps, OpAt DEF StrayInv

\* The processor brings no acknowledgement about that was not due before.
LEMMA StrayCpu ==
  ASSUME TypeInv, StrayInv, Cpu, NEW n \in 0 .. 2, StrayAfter(n)
  PROVE  StrayAfter(n)'
  <1>1. /\ pc \in 1 .. 15 /\ pc' \in {pc, pc + 1} /\ ~Done
        /\ inbuf' = inbuf \/ (inbuf' = Op /\ pc' = pc + 1)
        /\ UNCHANGED <<reporting, queue, irq, strays>>
    BY CpuSteps
  <1>3. (F6Due' => F6Due) /\ (F4Due' => F4Due)
    BY <1>1, OpAt DEF F6Due, F4Due
  <1>2. Due' <= Due /\ Due \in Nat /\ Due' \in Nat
    BY <1>3 DEF Due
  <1>4. PICK d \in Nat, e \in Nat : Due = d /\ Due' = e /\ e <= d
    BY <1>2
  <1>5. NotEntered(n)'
    <2>1. NotEntered(n)
      BY <1>1 DEF Entered, StrayAfter
    <2> QED
      BY <1>1, <1>4, <2>1 DEF NotEntered
  <1>6. AcksAhead(n)'
    BY <1>1, AcksKept DEF StrayAfter
  <1> QED
    BY <1>1, <1>3, <1>5, <1>6 DEF StrayAfter

\* How many stray bytes there are is a number.
LEMMA StrayLength ==
  ASSUME TypeInv
  PROVE  Len(strays) \in Nat /\ DOMAIN strays = 1 .. Len(strays)
  BY LenProperties DEF TypeInv

\* They are known as long as nothing changes them.
LEMMA StraysKept ==
  ASSUME TypeInv, UNCHANGED <<late, strays>>
  PROVE  /\ StraysKnown' <=> StraysKnown
         /\ Len(strays') = Len(strays) /\ Len(strays) \in Nat
  BY StrayLength DEF StraysKnown, OnTime

\* Another acknowledgement is the last of them.
LEMMA StrayAppended ==
  ASSUME TypeInv, strays' = Append(strays, Ack)
  PROVE  /\ Len(strays') = Len(strays) + 1
         /\ DOMAIN strays' = 1 .. Len(strays) + 1
         /\ \A i \in 1 .. Len(strays) + 1 : strays'[i] = IF i <= Len(strays) THEN strays[i] ELSE Ack
  <1>1. strays \in Seq(Byte) /\ Ack \in Byte
    BY Bytes DEF TypeInv
  <1> QED
    BY <1>1, AppendProperties, LenProperties

\* A handler of an interrupt whose byte is in the buffer reads that byte.
LEMMA StrayHandlers ==
  ASSUME TypeInv, DialogueInv, StrayInv, ~streaming, keyboard_handler \/ mouse_handler,
         NEW n \in 0 .. 2, StrayAfter(n)
  PROVE  StrayAfter(n)'
  <1>1. /\ Done /\ obf' = None
        /\ UNCHANGED <<pc, late, inbuf, reporting, queue>>
    BY DEF keyboard_handler, mouse_handler, ReadPort, program, devices
  <1>2. AcksAhead(n)' /\ (F4Due' <=> F4Due) /\ Due' = Due /\ Due \in Nat /\ InBuffer' = 0 /\ InBuffer \in {0, 1} /\ Done'
    BY <1>1, AcksKept, Bytes DEF StrayAfter, Due, F6Due, F4Due, InBuffer, Done, Op
  <1>3. CASE keyboard_handler
    <2>1. strays' = strays /\ irq' = irq \ {KbdIrq} /\ KbdIrq \in irq
      BY <1>3 DEF keyboard_handler
    <2>2. CASE NotEntered(n)
      BY <1>1, <1>2, <2>1, <2>2 DEF StrayAfter, NotEntered, KbdIrq, MouseIrq
    <2>3. CASE Entered(n)
      <3>1. MouseIrq \notin irq
        BY <2>1, <2>3, Bytes, ConfigBytesApart DEF Entered, ConfigBytes
      <3> QED
        BY <1>1, <1>2, <2>1, <2>3, <3>1, StraysKept DEF StrayAfter, Entered, TypeInv
    <2> QED
      BY <2>2, <2>3 DEF StrayAfter
  <1>4. CASE mouse_handler
    <2>1. /\ MouseIrq \in irq /\ irq' = {}
          /\ strays' = IF PortByte.kind = "move" THEN strays ELSE Append(strays, PortByte)
      BY <1>4 DEF mouse_handler, TypeInv
    <2>2. CASE NotEntered(n)
      <3>1. OnTime => PortByte \in {Ack, Scancode, PacketByte}
        BY <1>1, OpAt DEF DialogueInv, AnswersInv, PortByte, TypeInv
      <3>2. Len(strays') <= 1 /\ StraysKnown'
        <4>1. CASE PortByte.kind = "move"
          <5>1. strays' = <<>>
            BY <2>1, <2>2, <4>1 DEF NotEntered
          <5> QED
            BY <5>1 DEF StraysKnown
        <4>2. CASE PortByte.kind # "move"
          <5>1. strays' = <<PortByte>> /\ (OnTime => PortByte \in {Ack, Scancode})
            BY <2>1, <2>2, <3>1, <4>2, Bytes DEF NotEntered
          <5>2. Len(strays') = 1 /\ DOMAIN strays' = {1} /\ strays'[1] = PortByte
            BY <5>1
          <5> QED
            BY <1>1, <5>1, <5>2 DEF StraysKnown, OnTime
        <4> QED
          BY <4>1, <4>2
      <3>3. n + Due <= 1 /\ Len(strays') \in Nat
        BY <2>1, <2>2, StrayLength, TypeStep DEF NotEntered, TypeInv, Next
      <3> QED
        BY <1>1, <1>2, <2>1, <3>2, <3>3 DEF StrayAfter, Entered
    <2>3. CASE Entered(n)
      <3>1. obf \in {Ack, PacketByte} /\ PortByte = obf
        BY <2>1, <2>3, Bytes DEF Entered, PortByte
      <3>2. CASE obf = PacketByte
        <4>1. strays' = strays
          BY <2>1, <3>1, <3>2, Bytes
        <4> QED
          BY <1>1, <1>2, <2>1, <2>3, <4>1, StraysKept DEF StrayAfter, Entered
      <3>3. CASE obf = Ack
        <4>1. ~OnTime /\ InBuffer = 1
          BY <1>1, <3>3, Bytes, OpAt DEF TypeInv, DialogueInv, AnswersInv, InBuffer
        <4>2. Ack.kind # "move"
          BY DEF Ack
        <4>3. strays' = Append(strays, Ack)
          BY <2>1, <3>1, <3>3, <4>2
        <4>4. /\ Len(strays) \in Nat /\ Len(strays') = Len(strays) + 1 /\ DOMAIN strays = 1 .. Len(strays)
              /\ DOMAIN strays' = 1 .. Len(strays) + 1
              /\ \A i \in 1 .. Len(strays) + 1 : strays'[i] = IF i <= Len(strays) THEN strays[i] ELSE Ack
          BY <4>3, StrayLength, StrayAppended
        <4>5. StraysKnown'
          BY <1>1, <2>3, <4>1, <4>4 DEF Entered, StraysKnown, OnTime
        <4>6. PICK k \in Nat : k = Len(strays) /\ Len(strays') = k + 1
          BY <4>4
        <4> QED
          BY <1>1, <1>2, <2>1, <2>3, <4>1, <4>5, <4>6 DEF StrayAfter, Entered
      <3> QED
        BY <3>1, <3>2, <3>3
    <2> QED
      BY <2>2, <2>3 DEF StrayAfter
  <1> QED
    BY <1>3, <1>4

\* A command to the mouse makes the acknowledgement that was due.
LEMMA StrayObey ==
  ASSUME TypeInv, StrayInv, Obey, NEW n \in 0 .. 2, StrayAfter(n)
  PROVE  \E m \in 0 .. 2 : StrayAfter(m)'
  <1>1. /\ UNCHANGED <<pc, late, obf, irq, strays>> /\ inbuf' = "empty" /\ pc \in 1 .. 16 /\ n \in Nat
    BY DEF Obey, program, TypeInv
  <1>2. /\ F6Due' <=> pc <= 10
        /\ F4Due' <=> pc <= 13
        /\ InBuffer' = InBuffer /\ InBuffer \in Nat /\ (Done' <=> Done)
    BY <1>1 DEF F6Due, F4Due, InBuffer, Done, Op
  <1>a. PICK b \in Nat : InBuffer = b /\ InBuffer' = b
    BY <1>2
  <1>3. CASE inbuf \in {"F6", "F4"} /\ expect = "mouse"
    <2>1. Reply("mouse", Ack) /\ reporting' = (inbuf = "F4")
      BY <1>3 DEF Obey
    <2>2. queue'["mouse"] = Append(queue["mouse"], Ack)
      BY <2>1, ReplySends DEF TypeInv, Sources, Sent
    <2>3. F4Due /\ Len(queue["mouse"]) = n
      BY <1>3 DEF StrayInv, F4Due, StrayAfter
    <2>4. AcksAhead(n + 1)' /\ Len(queue'["mouse"]) = n + 1
      BY <1>1, <2>2, <2>3, AckAppended DEF TypeInv, StrayAfter
    <2>5. F4Due' => ~reporting'
      <3>1. F4Due' => inbuf # "F4"
        BY <1>2 DEF StrayInv
      <3> QED
        BY <2>1, <3>1, Zenon
    <2>a. Due' + 1 = Due /\ Due' \in Nat
      BY <1>2, <1>3 DEF Due, F6Due, F4Due, StrayInv
    <2>6. PICK e \in Nat : Due = e + 1 /\ Due' = e
      BY <2>a
    <2>7. NotEntered(n) => n + 1 \in 0 .. 2 /\ NotEntered(n + 1)'
      BY <1>1, <2>6 DEF NotEntered
    <2>8. Entered(n) => n + 1 \in 0 .. 2 /\ Entered(n + 1)'
      BY <1>1, <1>2, <1>a, <2>6, StraysKept DEF Entered
    <2> QED
      BY <2>4, <2>5, <2>7, <2>8 DEF StrayAfter
  <1>4. CASE ~(inbuf \in {"F6", "F4"} /\ expect = "mouse")
    <2>1. reporting' = reporting /\ queue'["mouse"] = queue["mouse"]
      <3>1. CASE inbuf = "20"
        <4>1. Reply("controller", ConfigByte(config)) /\ UNCHANGED reporting
          BY <3>1 DEF Obey
        <4>2. ConfigByte(config) \in Sent("controller")
          BY ConfigBytesApart DEF TypeInv, Sent
        <4> QED
          BY <4>1, <4>2, ReplySends DEF TypeInv, Sources
      <3>2. CASE inbuf # "20"
        BY <1>4, <3>2 DEF Obey, Silent
      <3> QED
        BY <3>1, <3>2
    <2>2. AcksAhead(n)'
      BY <2>1, AcksKept DEF StrayAfter
    <2>a. Due' <= Due /\ Due' \in Nat /\ Due \in Nat /\ (F4Due' => F4Due)
      BY <1>2 DEF Due, F6Due, F4Due
    <2>3. PICK d \in Nat, e \in Nat : Due = d /\ Due' = e /\ e <= d
      BY <2>a
    <2>4. NotEntered(n) => NotEntered(n)'
      BY <1>1, <2>3 DEF NotEntered
    <2>5. Entered(n) => Entered(n)'
      BY <1>1, <1>2, <1>a, <2>3, StraysKept DEF Entered
    <2> QED
      BY <2>1, <2>2, <2>a, <2>4, <2>5 DEF StrayAfter
  <1> QED
    BY <1>3, <1>4

\* A byte is offered with its own interrupt only, into an empty buffer.
LEMMA StrayOffer ==
  ASSUME TypeInv, StrayInv, NEW s \in Sources, Offer(s), NEW n \in 0 .. 2, StrayAfter(n)
  PROVE  \E m \in 0 .. 2 : StrayAfter(m)'
  <1>1. /\ UNCHANGED <<pc, late, inbuf, reporting, strays>> /\ n \in Nat /\ pc \in 1 .. 16
        /\ obf = None /\ obf' = Head(queue[s]) /\ queue[s] # <<>>
        /\ irq' = irq \cup (config \cap {IF s = "mouse" THEN MouseIrq ELSE KbdIrq})
    BY DEF Offer, program, devices, TypeInv
  <1>2. /\ Head(queue[s]) \in Sent(s) /\ queue'[s] = Tail(queue[s])
        /\ \A t \in Sources \ {s} : queue'[t] = queue[t]
    BY <1>1, OfferSends DEF Offer, TypeInv
  <1>3. /\ (F4Due' <=> F4Due) /\ Due' = Due /\ Due \in Nat /\ InBuffer = 0 /\ (Done' <=> Done)
    BY <1>1, Bytes DEF F6Due, F4Due, Due, InBuffer, Done, Op
  <1>4. Entered(n) => KbdIrq \notin irq /\ MouseIrq \notin irq
    BY <1>1, Bytes, ConfigBytesApart DEF Entered, ConfigBytes
  <1>5. CASE s = "mouse"
    <2>1. Len(queue["mouse"]) \in Nat /\ Len(queue["mouse"]) # 0 /\ AcksAhead(n)
      BY <1>1, <1>5, EmptySeq DEF TypeInv, Sends, StrayAfter
    <2>2. CASE n > 0
      <3>1. obf' = Ack /\ AcksAhead(n - 1)' /\ Len(queue'["mouse"]) = Len(queue["mouse"]) - 1
        BY <1>1, <1>2, <1>5, <2>1, <2>2, MouseTaken DEF TypeInv
      <3>2. InBuffer' = 1 /\ n - 1 \in 0 .. 2
        BY <2>2, <3>1 DEF InBuffer
      <3>3. NotEntered(n) => NotEntered(n - 1)'
        BY <1>1, <1>3, <2>2 DEF NotEntered
      <3>4. Entered(n) => Entered(n - 1)'
        BY <1>1, <1>3, <1>4, <1>5, <2>2, <3>1, <3>2, StraysKept DEF Entered, KbdIrq, MouseIrq
      <3> QED
        BY <1>1, <1>3, <3>1, <3>2, <3>3, <3>4 DEF StrayAfter
    <2>3. CASE n = 0
      <3>1. obf' = PacketByte /\ AcksAhead(0)'
        BY <1>1, <1>2, <1>5, <2>1, <2>3, MouseTaken DEF TypeInv
      <3>2. ~F4Due /\ Due = 0 /\ InBuffer' = 0
        <4>1. ~F4Due
          BY <2>1, <2>3 DEF StrayAfter
        <4> QED
          BY <1>1, <3>1, <4>1, Bytes DEF F4Due, F6Due, Due, InBuffer, StrayInv
      <3>3. NotEntered(0) => NotEntered(0)'
        BY <1>1, <1>3, <3>2 DEF NotEntered
      <3>4. Entered(0) => Entered(0)'
        BY <1>1, <1>3, <1>4, <1>5, <2>3, <3>1, <3>2, StraysKept DEF Entered, KbdIrq, MouseIrq
      <3> QED
        BY <1>3, <2>3, <3>1, <3>2, <3>3, <3>4 DEF StrayAfter
    <2> QED
      BY <1>1, <2>2, <2>3
  <1>6. CASE s # "mouse"
    <2>1. queue'["mouse"] = queue["mouse"]
      BY <1>2, <1>6 DEF Sources
    <2>2. AcksAhead(n)'
      BY <2>1, AcksKept DEF StrayAfter
    <2>a. obf' = Scancode \/ obf' \in ConfigBytes
      BY <1>1, <1>2, <1>6 DEF Sent, Sources
    <2>b. obf' # Ack
      BY <2>a, Bytes, ConfigBytesApart DEF ConfigBytes
    <2>3. (obf' = Scancode \/ obf' \in ConfigBytes) /\ InBuffer' = 0
      BY <2>a, <2>b DEF InBuffer
    <2>4. NotEntered(n) => NotEntered(n)'
      BY <1>1, <1>3, <1>6 DEF NotEntered, KbdIrq, MouseIrq
    <2>5. Entered(n) => Entered(n)'
      BY <1>1, <1>3, <1>4, <1>6, <2>3, StraysKept DEF Entered, KbdIrq, MouseIrq
    <2> QED
      BY <1>1, <1>3, <2>1, <2>2, <2>4, <2>5 DEF StrayAfter
  <1> QED
    BY <1>5, <1>6

\* A key typed concerns nobody here; a movement goes behind the acknowledgements.
LEMMA StrayTyping ==
  ASSUME TypeInv, KeyPress \/ MouseMove, NEW n \in 0 .. 2, StrayAfter(n)
  PROVE  StrayAfter(n)'
  <1>1. UNCHANGED <<pc, late, inbuf, reporting, obf, irq, strays>> /\ n \in Nat
    BY DEF KeyPress, MouseMove, program, devices
  <1>2. /\ F4Due' <=> F4Due
        /\ NotEntered(n)' <=> NotEntered(n)
        /\ Entered(n)' <=> Entered(n)
    BY <1>1, StraysKept DEF F4Due, F6Due, Due, InBuffer, NotEntered, Entered, Done, Op
  <1>3. CASE KeyPress
    <2>1. queue'["mouse"] = queue["mouse"]
      BY <1>3, ReplySends DEF KeyPress, TypeInv, Sources, Sent
    <2>2. AcksAhead(n)'
      BY <1>1, <2>1, AcksKept DEF StrayAfter
    <2> QED
      BY <1>1, <1>2, <2>1, <2>2 DEF StrayAfter
  <1>4. CASE MouseMove
    <2>1. queue'["mouse"] = Append(queue["mouse"], PacketByte) /\ reporting
      BY <1>4, ReplySends DEF MouseMove, TypeInv, Sources, Sent
    <2>2. AcksAhead(n)'
      BY <1>1, <2>1, MoveAppended DEF TypeInv, StrayAfter
    <2> QED
      BY <1>1, <1>2, <2>1, <2>2 DEF StrayAfter
  <1> QED
    BY <1>3, <1>4

\* No step makes more stray bytes than there are acknowledgements.
LEMMA StrayStep == TypeInv /\ DialogueInv /\ StrayInv /\ [Next]_vars => StrayInv'
  <1> SUFFICES ASSUME TypeInv, DialogueInv, StrayInv, [Next]_vars PROVE StrayInv'
    OBVIOUS
  <1>1. CASE UNCHANGED vars
    BY <1>1, StraysKept DEF vars, StrayInv, StrayAfter, AcksAhead, NotEntered, Entered, F6Due, F4Due, Due, InBuffer, Done, Op
  <1>2. CASE Next
    <2>1. streaming' = streaming /\ DOMAIN queue = Sources
      BY <1>2, Histories DEF TypeInv, Sends, Sources
    <2>2. (inbuf' = "F6" => pc' \in {11, 12}) /\ (inbuf' = "F4" => pc' \in {14, 15})
      <3>1. CASE Cpu
        BY <3>1, InputBufferCpu
      <3>2. CASE ~Cpu
        <4>1. pc' = pc /\ inbuf' \in {inbuf, "empty"}
          BY <1>2, <3>2 DEF Next, keyboard_handler, mouse_handler, Controller, Obey, Offer, KeyPress, MouseMove, program
        <4> QED
          BY <4>1 DEF StrayInv
      <3> QED
        BY <3>1, <3>2
    <2>3. ASSUME ~streaming PROVE \E m \in 0 .. 2 : StrayAfter(m)'
      <3>1. PICK n \in 0 .. 2 : StrayAfter(n)
        BY <2>3 DEF StrayInv
      <3> QED
        BY <1>2, <2>1, <2>3, <3>1, StrayCpu, StrayHandlers, StrayObey, StrayOffer, StrayTyping
        DEF Next, Controller
    <2> QED
      BY <2>1, <2>2, <2>3 DEF StrayInv
  <1> QED
    BY <1>1, <1>2

(***************************************************************************)
(* If the mouse is silent at power-on, at most two bytes reach add_byte    *)
(* that no movement sent, the second an acknowledgement; and if no wait    *)
(* gave up at most one, an acknowledgement or a scancode, whatever is      *)
(* typed and however the configuration byte ends up.                       *)
(***************************************************************************)
THEOREM FewStrayBytes == Spec => []StrayBytesBounded
  <1>1. Init => TypeInv /\ DialogueInv /\ StrayInv
    BY TypeStart, DialogueStart, StrayStart
  <1>2. TypeInv /\ DialogueInv /\ StrayInv /\ [Next]_vars => TypeInv' /\ DialogueInv' /\ StrayInv'
    BY TypeStep, DialogueStep, StrayStep
  <1>3. TypeInv /\ StrayInv => StrayBytesBounded
    <2> SUFFICES ASSUME TypeInv, StrayInv, ~streaming
                 PROVE  Len(strays) <= 2 /\ StraysKnown
      BY DEF StrayBytesBounded, StraysKnown
    <2>1. PICK n \in 0 .. 2 : StrayAfter(n)
      BY DEF StrayInv
    <2>2. Due \in Nat /\ InBuffer \in Nat
      BY DEF Due, InBuffer
    <2>3. CASE NotEntered(n)
      BY <2>3 DEF NotEntered, StraysKnown
    <2>4. CASE Entered(n)
      BY <2>2, <2>4, StrayLength DEF Entered
    <2> QED
      BY <2>1, <2>3, <2>4 DEF StrayAfter
  <1> QED
    BY <1>1, <1>2, <1>3, PTL DEF Spec
=============================================================================
