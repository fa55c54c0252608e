------------------------------ MODULE Ps2Init ------------------------------
(***************************************************************************)
(* mouse::init: the dialogue with the PS/2 controller that kernel_main has *)
(* before it enables interrupts, and the interrupts that were latched      *)
(* meanwhile.  Every wait polls TIMEOUT times and then goes on regardless; *)
(* here it may give up whenever it finds the controller not ready, so the  *)
(* controller and the devices behind it may be as slow as they like.       *)
(*                                                                         *)
(* A byte is the set of its bits that are set.                             *)
(***************************************************************************)
EXTENDS Integers, Sequences

CONSTANTS
  BootConfigs,  \* configuration bytes the firmware may leave behind
  MaxKeys,      \* bound on the scancodes the keyboard sends
  MaxMoves      \* bound on the packet bytes the mouse sends

ASSUME ConfigAssumption == BootConfigs \subseteq SUBSET (0 .. 7)
ASSUME BoundAssumption == MaxKeys \in Nat /\ MaxMoves \in Nat

\* Bits of the configuration byte.
KbdIrq == 0
MouseIrq == 1
KbdOff == 4
MouseOff == 5

AckByte == {1, 3, 4, 5, 6, 7}                            \* 0xFA
Ack == [kind |-> "ack", bits |-> AckByte]
Scancode == [kind |-> "key", bits |-> {1, 2, 3, 4}]      \* 0x1E
PacketByte == [kind |-> "move", bits |-> {3}]
None == [kind |-> "none", bits |-> {}]
ConfigByte(c) == [kind |-> "config", bits |-> c]

VARIABLES
  pc,           \* position in mouse::init
  new_config,   \* its local of that name
  late,         \* history: the position of the first wait that gave up, 0 if none has
  inbuf,        \* input buffer: the write the controller has not looked at yet
  expect,       \* what the controller takes the next data byte for
  config,       \* its configuration byte
  boot,         \* history: the configuration byte at power-on
  streaming,    \* history: did the mouse report movements at power-on
  reporting,    \* does it now
  queue,        \* bytes controller, keyboard and mouse have ready to send
  obf,          \* output buffer
  last,         \* what the data port reads when the output buffer is empty
  irq,          \* interrupt lines latched by the PIC
  keys, moves,  \* bytes the keyboard and the mouse may still send
  strays        \* history: the bytes given to add_byte that no movement sent

program == <<pc, new_config, late>>
devices == <<expect, config, reporting>>
history == <<boot, streaming, keys, moves>>
vars == <<pc, new_config, late, inbuf, expect, config, boot, streaming, reporting,
          queue, obf, last, irq, keys, moves, strays>>

\* mouse::init, write by write and read by read.
Prologue == <<"AD", "A7", "flush", "A8", "20", "read_config", "60", "write_config">>
Mouse == <<"D4", "F6", "read", "D4", "F4", "read">>

\* Mutants: the output buffer is not flushed; the acknowledgements are not
\* read; the keyboard is not enabled again.
Unflushed == SelectSeq(Prologue, LAMBDA op : op # "flush") \o Mouse \o <<"AE">>
AcksUnread == Prologue \o SelectSeq(Mouse, LAMBDA op : op # "read") \o <<"AE">>
NotEnabled == Prologue \o Mouse
init == Prologue \o Mouse \o <<"AE">>

Op == IF pc <= Len(init) THEN init[pc] ELSE "done"
Done == Op = "done"

Init ==
  /\ pc = 1
  /\ new_config = {}
  /\ late = 0
  /\ inbuf = "empty"
  /\ expect = "keyboard"
  /\ boot \in BootConfigs
  /\ config = boot
  /\ streaming \in BOOLEAN
  /\ reporting = streaming
  /\ queue = [s \in {"controller", "keyboard", "mouse"} |-> <<>>]
  /\ obf \in {None, Scancode}
  /\ last = None
  /\ irq = {}
  /\ keys = MaxKeys
  /\ moves = MaxMoves
  /\ strays = <<>>
-----------------------------------------------------------------------------
(***************************************************************************)
(* The processor.  A write whose wait gave up overwrites the one before.   *)
(***************************************************************************)
\* write_command and write_data behind wait_for_write.
GiveUp == late' = IF late = 0 THEN pc ELSE late

Write ==
  /\ Op \notin {"flush", "read_config", "read", "done"}
  /\ inbuf' = Op
  /\ IF inbuf = "empty" THEN UNCHANGED late ELSE GiveUp
  /\ pc' = pc + 1
  /\ UNCHANGED <<new_config, devices, history, queue, obf, last, irq, strays>>

\* The data port, also read when the output buffer is empty.
PortByte == IF obf = None THEN last ELSE obf
ReadPort == last' = PortByte /\ obf' = None

WithMouseIrq(c) == c \cup {MouseIrq}

Read ==
  /\ Op \in {"read_config", "read"}
  /\ ReadPort
  /\ new_config' = IF Op = "read_config" THEN WithMouseIrq(PortByte.bits) ELSE new_config
  /\ pc' = pc + 1
  /\ UNCHANGED <<inbuf, devices, history, queue, irq, strays>>

read_data == obf # None /\ Read /\ UNCHANGED late
ReadTimeout == obf = None /\ Read /\ GiveUp

flush_output_buffer ==
  /\ Op = "flush"
  /\ IF obf = None THEN pc' = pc + 1 /\ UNCHANGED <<obf, last>>
                   ELSE ReadPort /\ UNCHANGED pc
  /\ UNCHANGED <<new_config, late, inbuf, devices, history, queue, irq, strays>>

Cpu == Write \/ read_data \/ ReadTimeout \/ flush_output_buffer

(***************************************************************************)
(* Once kernel_main has enabled interrupts: the handlers read the port,    *)
(* whatever byte it now holds.                                             *)
(***************************************************************************)
keyboard_handler ==
  /\ Done
  /\ KbdIrq \in irq
  /\ irq' = irq \ {KbdIrq}
  /\ ReadPort
  /\ UNCHANGED <<program, inbuf, devices, history, queue, strays>>

mouse_handler ==
  /\ Done
  /\ MouseIrq \in irq
  /\ KbdIrq \notin irq
  /\ irq' = irq \ {MouseIrq}
  /\ ReadPort
  /\ strays' = IF PortByte.kind = "move" THEN strays ELSE Append(strays, PortByte)
  /\ UNCHANGED <<program, inbuf, devices, history, queue>>

(***************************************************************************)
(* The controller takes a write from its input buffer, and offers a byte   *)
(* of its own or of a port that is not disabled.                           *)
(***************************************************************************)
Reply(s, byte) == queue' = [queue EXCEPT ![s] = Append(@, byte)]
Silent == UNCHANGED queue

\* The data bytes the kernel writes, should the controller take them for its
\* configuration byte.
Data(write) == CASE write = "write_config" -> new_config
                 [] write = "F6" -> {1, 2, 4, 5, 6, 7}
                 [] write = "F4" -> {2, 4, 5, 6, 7}

\* A data byte that reaches the keyboard for want of another addressee is ignored.
Obey ==
  /\ inbuf # "empty"
  /\ inbuf' = "empty"
  /\ expect' = CASE inbuf = "60" -> "config" [] inbuf = "D4" -> "mouse" [] OTHER -> "keyboard"
  /\ CASE inbuf = "AD" -> config' = config \cup {KbdOff} /\ Silent /\ UNCHANGED reporting
       [] inbuf = "AE" -> config' = config \ {KbdOff} /\ Silent /\ UNCHANGED reporting
       [] inbuf = "A7" -> config' = config \cup {MouseOff} /\ Silent /\ UNCHANGED reporting
       [] inbuf = "A8" -> config' = config \ {MouseOff} /\ Silent /\ UNCHANGED reporting
       [] inbuf = "20" -> Reply("controller", ConfigByte(config)) /\ UNCHANGED <<config, reporting>>
       [] inbuf \in {"write_config", "F6", "F4"} /\ expect = "config" ->
            config' = Data(inbuf) /\ Silent /\ UNCHANGED reporting
       [] inbuf \in {"F6", "F4"} /\ expect = "mouse" ->
            /\ Reply("mouse", Ack)
            /\ reporting' = (inbuf = "F4")
            /\ UNCHANGED config
       [] OTHER -> Silent /\ UNCHANGED <<config, reporting>>
  /\ UNCHANGED <<program, history, obf, last, irq, strays>>

Offer(s) ==
  /\ obf = None
  /\ queue[s] # <<>>
  /\ s = "keyboard" => KbdOff \notin config
  /\ s = "mouse" => MouseOff \notin config
  /\ obf' = Head(queue[s])
  /\ queue' = [queue EXCEPT ![s] = Tail(@)]
  /\ irq' = irq \cup (config \cap {IF s = "mouse" THEN MouseIrq ELSE KbdIrq})
  /\ UNCHANGED <<program, inbuf, devices, history, last, strays>>

KeyPress ==
  /\ keys > 0
  /\ keys' = keys - 1
  /\ Reply("keyboard", Scancode)
  /\ UNCHANGED <<program, inbuf, devices, boot, streaming, moves, obf, last, irq, strays>>

MouseMove ==
  /\ reporting
  /\ moves > 0
  /\ moves' = moves - 1
  /\ Reply("mouse", PacketByte)
  /\ UNCHANGED <<program, inbuf, devices, boot, streaming, keys, obf, last, irq, strays>>

Controller == Obey \/ \E s \in DOMAIN queue : Offer(s)

Next == Cpu \/ keyboard_handler \/ mouse_handler \/ Controller \/ KeyPress \/ MouseMove

\* The processor and the controller run; how fast, compared with each other,
\* is left open, and a byte may wait for ever behind a disabled port.
Spec == Init /\ [][Next]_vars /\ WF_vars(Cpu) /\ WF_vars(Obey)
-----------------------------------------------------------------------------
OnTime == late = 0

(***************************************************************************)
(* If no wait gave up and the mouse was silent at power-on, the byte       *)
(* written back is the one the firmware had set plus the mouse interrupt,  *)
(* whatever was typed meanwhile: read_data cannot mistake a scancode or an *)
(* acknowledgement for the configuration byte.                             *)
(***************************************************************************)
ConfigPreserved ==
  OnTime /\ ~streaming /\ Done =>
    config \ {KbdOff} = (boot \cup {MouseIrq}) \ {KbdOff, MouseOff}

(***************************************************************************)
(* However late the answers are, if they come at all, mouse::init comes to *)
(* its end and leaves the keyboard port enabled.  Its interrupt too, if    *)
(* the firmware had it enabled, the mouse was silent at power-on and no    *)
(* wait gave up before the configuration byte was taken back: then keys    *)
(* arrive even without a mouse, for no byte blocks the output buffer       *)
(* without an interrupt by which it is read.  If read_config itself finds  *)
(* no byte, the byte written back has not got the keyboard interrupt       *)
(* (wait_for_write, wait_for_read, mouse::init).                           *)
(***************************************************************************)
ConfigWritten == late = 0 \/ late > 9  \* the wait of write 9 follows write_config

KeysArrive == KbdIrq \in config /\ (obf # None => irq # {})

KeyboardComesBack ==
  <>[](/\ Done /\ KbdOff \notin config
       /\ ConfigWritten /\ ~streaming /\ KbdIrq \in boot => KeysArrive)

(***************************************************************************)
(* What reaches add_byte once interrupts are enabled, besides movements,   *)
(* if the mouse was silent at power-on.  At most one byte, which is an     *)
(* acknowledgement or a scancode read again from the empty port; at most   *)
(* two if a wait gave up, of which the second is an acknowledgement, while *)
(* the first may be whatever the port held (mouse_handler).  MousePackets  *)
(* lets more arrive, and any byte.                                         *)
(***************************************************************************)
StrayBytesBounded ==
  ~streaming =>
    /\ Len(strays) <= (IF OnTime THEN 1 ELSE 2)
    /\ OnTime => \A i \in DOMAIN strays : strays[i] \in {Ack, Scancode}
    /\ \A i \in DOMAIN strays : i > 1 => strays[i] = Ack
=============================================================================
