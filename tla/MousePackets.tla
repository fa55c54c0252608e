---------------------------- MODULE MousePackets ----------------------------
(***************************************************************************)
(* The packet decoder of mouse.rs: add_byte, called by the mouse interrupt *)
(* handler with one byte at a time, against a PS/2 mouse that reports each *)
(* movement as three bytes.  The line is not reliable: a byte may be lost  *)
(* before the handler reads it, and the handler may find a byte in the     *)
(* port that is not of the mouse's movements: it reads whatever is there.  *)
(* What such a byte may be and how many there are is a result of Ps2Init   *)
(* (StrayBytesBounded); here it may be any byte and come at any time.      *)
(***************************************************************************)
EXTENDS Integers

CONSTANTS
  Moves,       \* the movements the user makes
  NoEvent,     \* no event
  StrayBytes,  \* bytes of no movement that the handler may find in the port
  MaxLosses,   \* bound on the bytes lost
  MaxStrays    \* and on the stray ones

\* A movement as the mouse measures it; overflow if it exceeds nine bits.
Move == [dx : -256 .. 255, dy : -256 .. 255, left : BOOLEAN, right : BOOLEAN,
         middle : BOOLEAN, overflow : BOOLEAN]

ASSUME MoveAssumption == \A m \in Moves : m \in Move
ASSUME LossAssumption == MaxLosses \in Nat /\ MaxStrays \in Nat

MouseEvent == [dx : -256 .. 255, dy : -256 .. 255, left : BOOLEAN, right : BOOLEAN,
               middle : BOOLEAN]

Byte == 0 .. 255

ASSUME StrayAssumption == StrayBytes \subseteq Byte

VARIABLES
  PACKET_STATE,  \* which byte the decoder waits for
  PACKET_BYTES,  \* the bytes it has
  event,         \* the last event pushed for the packet on the line, or NoEvent
  move,          \* the movement being reported
  sent,          \* how many of its bytes the mouse has sent
  losses,        \* bytes lost so far
  strays,        \* stray bytes read so far
  costly,        \* history: those taken into a packet that is not marked as overflowed
  aligned,       \* history: did this packet find the decoder waiting for byte 0
  clean,         \* history: has every byte of this packet arrived, and no other
  mixed,         \* history: has the decoder bytes that are not all of this packet
  noisy,         \* history: has a movement byte had bit 3 set
  bogus          \* history: events pushed that are not made of one packet, not
                 \* counted beyond TooMany

decoder == <<PACKET_STATE, PACKET_BYTES>>
mouseVars == <<PACKET_STATE, PACKET_BYTES, event, move, sent, losses, strays, costly,
               aligned, clean, mixed, noisy, bogus>>

TooMany == MaxLosses + MaxStrays + 1

Bit(byte, k) == (byte \div 2 ^ k) % 2 = 1

(***************************************************************************)
(* The mouse.                                                              *)
(***************************************************************************)
Flag(b, k) == IF b THEN 2 ^ k ELSE 0

Encode(m) ==
  <<8 + Flag(m.left, 0) + Flag(m.right, 1) + Flag(m.middle, 2)
      + Flag(m.dx < 0, 4) + Flag(m.dy < 0, 5) + Flag(m.overflow, 6),
    m.dx % 256,
    m.dy % 256>>

Quiet(m) == ~Bit(Encode(m)[2], 3) /\ ~Bit(Encode(m)[3], 3)

MouseInit ==
  /\ PACKET_STATE = 0
  /\ PACKET_BYTES = <<0, 0, 0>>
  /\ event = NoEvent
  /\ move \in Moves
  /\ sent = 3
  /\ losses = 0
  /\ strays = 0
  /\ costly = 0
  /\ aligned = FALSE
  /\ clean = FALSE
  /\ mixed = FALSE
  /\ noisy = FALSE
  /\ bogus = 0
-----------------------------------------------------------------------------
(***************************************************************************)
(* add_byte, one alternative per arm of its match and early return.        *)
(* PACKET_STATE is never anything but 0, 1 or 2, so the resetting arm for  *)
(* other values is left out.                                               *)
(***************************************************************************)
\* Mutant: the sign bit is not applied.
Unsigned(sign, byte) == byte
NineBit(sign, byte) == IF sign THEN byte - 256 ELSE byte

DecodeEvent(b) ==
  [dx |-> NineBit(Bit(b[1], 4), b[2]), dy |-> NineBit(Bit(b[1], 5), b[3]),
   left |-> Bit(b[1], 0), right |-> Bit(b[1], 1), middle |-> Bit(b[1], 2)]

Overflowed(b) == Bit(b[1], 6) \/ Bit(b[1], 7)

\* Mutant: any byte is taken for a byte 0.
AnyByte(byte) == TRUE
LooksLikeByte0(byte) == Bit(byte, 3)

Following(state) == (state + 1) % 3

Take(byte) ==
  /\ PACKET_BYTES' = [PACKET_BYTES EXCEPT ![PACKET_STATE + 1] = byte]
  /\ PACKET_STATE' = Following(PACKET_STATE)

SkipByte0(byte) ==
  /\ PACKET_STATE = 0
  /\ ~LooksLikeByte0(byte)
  /\ UNCHANGED <<decoder, event>>

TakeByte0(byte) ==
  /\ PACKET_STATE = 0
  /\ LooksLikeByte0(byte)
  /\ Take(byte)
  /\ UNCHANGED event

TakeByte1(byte) ==
  /\ PACKET_STATE = 1
  /\ Take(byte)
  /\ UNCHANGED event

DropPacket(byte) ==
  /\ PACKET_STATE = 2
  /\ Take(byte)
  /\ Overflowed(PACKET_BYTES')
  /\ UNCHANGED event

PushEvent(byte) ==
  /\ PACKET_STATE = 2
  /\ Take(byte)
  /\ ~Overflowed(PACKET_BYTES')
  /\ event' = DecodeEvent(PACKET_BYTES')

add_byte(byte) ==
  \/ SkipByte0(byte) \/ TakeByte0(byte)
  \/ TakeByte1(byte)
  \/ DropPacket(byte) \/ PushEvent(byte)

\* The histories of what the decoder holds, after a byte that is or is not the
\* one of the packet on the line that it waits for.
Blend(own) ==
  LET spoilt == mixed \/ ~own
      pushed == PACKET_STATE = 2 /\ ~Overflowed(PACKET_BYTES')
  IN  /\ mixed' = (spoilt /\ PACKET_STATE' # 0)
      /\ bogus' = IF pushed /\ spoilt /\ bogus < TooMany THEN bogus + 1 ELSE bogus

(***************************************************************************)
(* What happens on the line.                                               *)
(***************************************************************************)
StartPacket ==
  /\ sent = 3
  /\ \E m \in Moves : /\ move' = m
                      /\ noisy' = (noisy \/ ~Quiet(m))
  /\ sent' = 0
  /\ event' = NoEvent
  /\ aligned' = (PACKET_STATE = 0)
  /\ clean' = TRUE
  /\ mixed' = (PACKET_STATE # 0)
  /\ UNCHANGED <<decoder, losses, strays, costly, bogus>>

Deliver ==
  /\ sent < 3
  /\ add_byte(Encode(move)[sent + 1])
  /\ Blend(PACKET_STATE = sent)
  /\ sent' = sent + 1
  /\ UNCHANGED <<move, losses, strays, costly, aligned, clean, noisy>>

Lose ==
  /\ sent < 3
  /\ losses < MaxLosses
  /\ losses' = losses + 1
  /\ sent' = sent + 1
  /\ clean' = FALSE
  /\ mixed' = (PACKET_STATE # 0)
  /\ UNCHANGED <<decoder, event, move, strays, costly, aligned, noisy, bogus>>

\* mouse_handler is entered for an interrupt whose byte is no longer in the port.
StrayByte ==
  /\ strays < MaxStrays
  /\ strays' = strays + 1
  /\ \E byte \in StrayBytes : add_byte(byte)
  /\ Blend(FALSE)
  /\ LET taken == PACKET_STATE' # PACKET_STATE
     IN  /\ costly' = IF taken /\ ~Overflowed(PACKET_BYTES') THEN costly + 1 ELSE costly
         /\ clean' = (clean /\ ~taken)
  /\ UNCHANGED <<move, sent, losses, aligned, noisy>>

MouseNext == StartPacket \/ Deliver \/ Lose \/ StrayByte

MouseSpec == MouseInit /\ [][MouseNext]_mouseVars
-----------------------------------------------------------------------------
MouseTypeOK ==
  /\ PACKET_STATE \in 0 .. 2
  /\ PACKET_BYTES \in Byte \X Byte \X Byte
  /\ event \in MouseEvent \cup {NoEvent}
  /\ move \in Moves
  /\ sent \in 0 .. 3
  /\ losses \in 0 .. MaxLosses
  /\ strays \in 0 .. MaxStrays
  /\ costly \in 0 .. strays
  /\ aligned \in BOOLEAN
  /\ clean \in BOOLEAN
  /\ mixed \in BOOLEAN
  /\ noisy \in BOOLEAN
  /\ bogus \in 0 .. TooMany

EventOf(m) ==
  [dx |-> m.dx, dy |-> m.dy, left |-> m.left, right |-> m.right, middle |-> m.middle]

(***************************************************************************)
(* A packet that arrives whole at a decoder waiting for byte 0 yields      *)
(* exactly the movement made, nine-bit signs included, or nothing if the   *)
(* mouse reported an overflow; and it leaves the decoder waiting for the   *)
(* next byte 0 (add_byte).                                                 *)
(***************************************************************************)
FaithfulDecoding ==
  sent = 3 /\ clean /\ aligned =>
    /\ event = (IF move.overflow THEN NoEvent ELSE EventOf(move))
    /\ PACKET_STATE = 0

(***************************************************************************)
(* The check of bit 3 puts a decoder that is out of step back in step:     *)
(* whatever was lost before, it waits for byte 0 after one complete packet *)
(* whose movement bytes have bit 3 clear (arm 0 of add_byte).              *)
(***************************************************************************)
QuietPacketResyncs == sent = 3 /\ clean /\ Quiet(move) => PACKET_STATE = 0

(***************************************************************************)
(* A lost byte costs at most one event that no movement made, and so does  *)
(* a stray one, whatever it is (an acknowledgement or a scancode), as long *)
(* as no movement byte looks like a byte 0.  A stray byte costs none if    *)
(* the decoder skips it or the packet it gets into has an overflow bit: an *)
(* acknowledgement in the place of a byte 0 has one, the scancode 0x1E has *)
(* not (add_byte).                                                         *)
(***************************************************************************)
BogusEventsBounded == ~noisy => bogus <= losses + costly
=============================================================================
