---------------------------- MODULE InputProofs ----------------------------
(***************************************************************************)
(* The way of the input: the ring buffer between handler and task, and the *)
(* decoder of the mouse's packets.                                         *)
(*                                                                         *)
(* The queue, for every BUF_SIZE > 1: it keeps its inductive invariant,    *)
(* its two sides never touch the same slot, and it implements LossyFifo.   *)
(*                                                                         *)
(* The decoder, for every set of movements, all buttons and deltas of nine *)
(* bits included, and any number of lost bytes.                            *)
(***************************************************************************)
EXTENDS RingBuffer, MousePackets, SequenceTheorems, TLAPS

(***************************************************************************)
(* The wrapped index of push and pop, without the modulus.                 *)
(***************************************************************************)
LEMMA SuccLemma ==
  ASSUME NEW i \in Slots
  PROVE  /\ Succ(i) = IF i = BUF_SIZE - 1 THEN 0 ELSE i + 1
         /\ Succ(i) \in Slots
  BY BufSizeAssumption DEF Succ, Slots

\* The static queue starts in the invariant.
LEMMA RingInit == Init => RingInv
  BY BufSizeAssumption, ValAssumption
  DEF Init, RingInv, TypeOK, PushStillHasRoom, PopStillHasValue, WrittenSlotKept,
      ReadValueKept, OfferedWhilePushing, Slots

(***************************************************************************)
(* Every step of push and of pop preserves the invariant.                  *)
(***************************************************************************)
LEMMA RingStep == RingInv /\ [Next]_vars => RingInv'
<1> SUFFICES ASSUME RingInv, [Next]_vars
             PROVE  RingInv'
  OBVIOUS
<1> USE ValAssumption
    DEF RingInv, TypeOK, PushStillHasRoom, PopStillHasValue, WrittenSlotKept,
        ReadValueKept, OfferedWhilePushing, pushVars, popVars
<1>a. head \in Slots /\ tail \in Slots /\ Slots \subseteq Nat
  BY DEF Slots
<1>b. /\ Succ(head) \in Slots /\ Succ(head) # head
      /\ Succ(tail) \in Slots /\ Succ(tail) # tail
      /\ Succ(head) = Succ(tail) => head = tail
  <2>1. /\ Succ(head) = IF head = BUF_SIZE - 1 THEN 0 ELSE head + 1
        /\ Succ(tail) = IF tail = BUF_SIZE - 1 THEN 0 ELSE tail + 1
        /\ Succ(head) \in Slots /\ Succ(tail) \in Slots
    BY <1>a, SuccLemma
  <2> QED
    BY <2>1, <1>a, BufSizeAssumption DEF Slots
<1>1. ASSUME NEW v \in Val, PushCall(v) PROVE RingInv'
  BY <1>1 DEF PushCall
<1>2. CASE PushCheckFull
  BY <1>2 DEF PushCheckFull, Full
<1>3. CASE PushCheckRoom
  BY <1>3 DEF PushCheckRoom, Full
<1>4. CASE PushWrite
  BY <1>4, <1>a DEF PushWrite
<1>5. CASE PushPublish
  BY <1>5, <1>b DEF PushPublish
<1>6. CASE PopEmpty
  BY <1>6 DEF PopEmpty, Empty
<1>7. CASE PopFound
  BY <1>7 DEF PopFound, Empty
<1>8. CASE PopRead
  BY <1>8, <1>a DEF PopRead
<1>9. CASE PopAdvance
  BY <1>9, <1>b DEF PopAdvance
<1>10. CASE UNCHANGED vars
  BY <1>10 DEF vars
<1> QED
  BY <1>1, <1>2, <1>3, <1>4, <1>5, <1>6, <1>7, <1>8, <1>9, <1>10
  DEF Next, Push, Pop

(***************************************************************************)
(* The inductive invariant of the ring holds in every reachable state.     *)
(***************************************************************************)
THEOREM RingInvariant == Spec => []RingInv
<1>1. Init => RingInv
  BY RingInit
<1>2. RingInv /\ [Next]_vars => RingInv'
  BY RingStep
<1> QED
  BY <1>1, <1>2, PTL DEF Spec

(***************************************************************************)
(* push and pop never access the same slot of the UnsafeCell at once, for  *)
(* every size of the buffer.                                               *)
(***************************************************************************)
THEOREM SlotRaceFreedom == Spec => []NoSlotRace
<1>1. RingInv => NoSlotRace
  BY DEF RingInv, PopStillHasValue, NoSlotRace
<1> QED
  BY <1>1, RingInvariant, PTL
-----------------------------------------------------------------------------
(***************************************************************************)
(* The abstract queue is a sequence of Count values.                       *)
(***************************************************************************)
LEMMA ContentsType ==
  ASSUME TypeOK
  PROVE  /\ Count \in 0 .. BUF_SIZE - 1
         /\ \A k \in 0 .. BUF_SIZE - 1 : Slot(k) \in Slots
         /\ Contents \in Seq(Val)
         /\ Len(Contents) = Count
         /\ \A k \in 1 .. Count : Contents[k] = data[Slot(k - 1)]
         /\ (Contents = <<>>) <=> (head = tail)
         /\ (Count = BUF_SIZE - 1) <=> (Succ(head) = tail)
<1>1. Count \in 0 .. BUF_SIZE - 1 /\ ((Count = 0) <=> (head = tail))
  BY BufSizeAssumption DEF TypeOK, Count, Slots
<1>2. \A k \in 0 .. BUF_SIZE - 1 : Slot(k) \in Slots
  BY BufSizeAssumption DEF TypeOK, Slot, Slots
<1>3. \A k \in 1 .. Count : data[Slot(k - 1)] \in Val
  BY <1>1, <1>2, BufSizeAssumption DEF TypeOK
<1>4. Contents \in Seq(Val) /\ Len(Contents) = Count
  BY <1>1, <1>3 DEF Contents
<1>5. (Contents = <<>>) <=> (Count = 0)
  BY <1>1, <1>4
<1>6. (Count = BUF_SIZE - 1) <=> (Succ(head) = tail)
  BY SuccLemma, BufSizeAssumption DEF TypeOK, Count, Slots
<1> QED
  BY <1>1, <1>2, <1>4, <1>5, <1>6 DEF Contents

(***************************************************************************)
(* Publishing appends the pushed value, advancing removes the oldest one.  *)
(***************************************************************************)
LEMMA PublishAppends ==
  ASSUME RingInv, PushPublish, TypeOK'
  PROVE  Contents' = Append(Contents, pushVal)
<1> USE BufSizeAssumption
<1>1. TypeOK /\ Succ(head) # tail /\ data[head] = pushVal /\ pushVal \in Val
  BY ValAssumption DEF RingInv, TypeOK, PushPublish, PushStillHasRoom, WrittenSlotKept,
                       OfferedWhilePushing
<1>2. /\ Succ(head) = IF head = BUF_SIZE - 1 THEN 0 ELSE head + 1
      /\ head' = Succ(head) /\ tail' = tail /\ data' = data
  BY <1>1, SuccLemma DEF PushPublish, popVars, TypeOK
<1>3. /\ Count \in Nat /\ Count' = Count + 1
      /\ Slot(Count) = head
      /\ \A k \in 0 .. Count : Slot(k)' = Slot(k)
  BY <1>1, <1>2 DEF Count, Slot, TypeOK, Slots
<1>4. /\ Contents \in Seq(Val) /\ Len(Contents) = Count
      /\ \A k \in 1 .. Count : Contents[k] = data[Slot(k - 1)]
  BY <1>1, ContentsType
<1>5. Contents' = [k \in 1 .. Count + 1 |-> data[Slot(k - 1)]]
  <2>1. Contents' = [k \in 1 .. Count' |-> data'[Slot(k - 1)']]
    BY DEF Contents
  <2> QED
    BY <2>1, <1>2, <1>3
<1>6. \A k \in 1 .. Count + 1 : /\ data[Slot(k - 1)] \in Val
                                  /\ data[Slot(k - 1)] = Append(Contents, pushVal)[k]
  <2> TAKE k \in 1 .. Count + 1
  <2>1. CASE k \in 1 .. Count
    BY <2>1, <1>3, <1>4
  <2>2. CASE k = Count + 1
    BY <2>2, <1>1, <1>3, <1>4
  <2>3. k \in 1 .. Count \/ k = Count + 1
    BY <1>3
  <2> QED
    BY <2>1, <2>2, <2>3
<1>7. Contents' \in Seq(Val) /\ Len(Contents') = Count + 1
  <2>1. Count + 1 \in Nat
    BY <1>3
  <2>2. \A k \in 1 .. Count + 1 : data[Slot(k - 1)] \in Val
    BY <1>6
  <2>3. [k \in 1 .. Count + 1 |-> data[Slot(k - 1)]] \in Seq(Val)
    BY <2>1, <2>2
  <2> QED
    BY <1>5, <2>1, <2>3
<1>8. Append(Contents, pushVal) \in Seq(Val) /\ Len(Append(Contents, pushVal)) = Count + 1
  BY <1>1, <1>3, <1>4
<1> QED
  BY <1>5, <1>6, <1>7, <1>8, SeqEqual

\* The store of tail in pop takes the first value off the queue and returns it.
LEMMA AdvanceRemoves ==
  ASSUME RingInv, PopAdvance, TypeOK'
  PROVE  /\ Contents # <<>>
         /\ popVal = Head(Contents)
         /\ Contents' = Tail(Contents)
<1> USE BufSizeAssumption
<1>1. TypeOK /\ head # tail /\ popVal = data[tail]
  BY DEF RingInv, PopAdvance, PopStillHasValue, ReadValueKept
<1>2. /\ Succ(tail) = IF tail = BUF_SIZE - 1 THEN 0 ELSE tail + 1
      /\ tail' = Succ(tail) /\ head' = head /\ data' = data
  BY <1>1, SuccLemma DEF PopAdvance, pushVars, TypeOK
<1>3. /\ Count \in Nat /\ Count > 0 /\ Count' = Count - 1
      /\ Slot(0) = tail
      /\ \A k \in 0 .. Count - 2 : Slot(k)' = Slot(k + 1)
  BY <1>1, <1>2 DEF Count, Slot, TypeOK, Slots
<1>4. /\ Contents \in Seq(Val) /\ Len(Contents) = Count
      /\ \A k \in 1 .. Count : Contents[k] = data[Slot(k - 1)]
  BY <1>1, ContentsType
<1>5. Contents' = [k \in 1 .. Count - 1 |-> data[Slot(k)]]
  <2>1. Contents' = [k \in 1 .. Count' |-> data'[Slot(k - 1)']]
    BY DEF Contents
  <2> QED
    BY <2>1, <1>2, <1>3
<1>6. Contents # <<>> /\ Head(Contents) = Contents[1]
  BY <1>3, <1>4
<1>7. /\ Tail(Contents) \in Seq(Val) /\ Len(Tail(Contents)) = Count - 1
      /\ \A k \in 1 .. Count - 1 : Tail(Contents)[k] = Contents[k + 1]
  BY <1>4, <1>6, HeadTailProperties
<1>8. \A k \in 1 .. Count - 1 : /\ data[Slot(k)] \in Val
                                /\ data[Slot(k)] = Tail(Contents)[k]
  BY <1>3, <1>4, <1>7
<1>9. Contents' \in Seq(Val) /\ Len(Contents') = Count - 1
  BY <1>3, <1>5, <1>8
<1>10. Contents' = Tail(Contents)
  BY <1>5, <1>7, <1>8, <1>9, SeqEqual
<1> QED
  BY <1>1, <1>3, <1>4, <1>6, <1>10

(***************************************************************************)
(* The ring buffer implements the lossy first-in first-out queue for every *)
(* BUF_SIZE: no interleaving of push and pop loses, duplicates or reorders *)
(* a value, and a value is discarded only when the queue is full.          *)
(***************************************************************************)
THEOREM RingImplementsFifo == Spec => ImplementsFifo
<1>1. Init => Fifo!Init
  <2> SUFFICES ASSUME Init PROVE Fifo!Init
    OBVIOUS
  <2>1. TypeOK /\ head = tail
    BY RingInit DEF Init, RingInv
  <2> QED
    BY <2>1, ContentsType DEF Init, Fifo!Init
<1>2. RingInv /\ RingInv' /\ [Next]_vars => [Fifo!Next]_Fifo!vars
  <2> SUFFICES ASSUME RingInv, RingInv', [Next]_vars
               PROVE  [Fifo!Next]_Fifo!vars
    OBVIOUS
  <2>a. TypeOK /\ TypeOK'
    BY DEF RingInv
  <2>b. ASSUME UNCHANGED <<data, head, tail>> PROVE Contents' = Contents
    BY <2>b DEF Contents, Count, Slot
  <2>c. ASSUME UNCHANGED <<data, head, tail, pushVal, taken>>
        PROVE  UNCHANGED Fifo!vars
    BY <2>b, <2>c DEF Fifo!vars
  <2>1. ASSUME NEW v \in Val, PushCall(v) PROVE Fifo!Offer(v)
    BY <2>1, <2>b DEF PushCall, popVars, Fifo!Offer, RingInv, OfferedWhilePushing
  <2>2. CASE PushCheckFull
    <3>1. Len(Contents) = BUF_SIZE - 1 /\ Contents' = Contents
      BY <2>2, <2>a, <2>b, ContentsType DEF PushCheckFull, Full, popVars
    <3>2. Fifo!Discard
      BY <2>2, <3>1 DEF PushCheckFull, Full, popVars, Fifo!Discard, RingInv, OfferedWhilePushing
    <3> QED
      BY <3>2 DEF Fifo!Next
  <2>3. CASE PushCheckRoom
    BY <2>3, <2>c DEF PushCheckRoom, Full, popVars
  <2>4. CASE PushWrite
    <3>1. Contents' = Contents
      <4>1. /\ Count \in Nat /\ Count <= BUF_SIZE - 1 /\ Count' = Count
            /\ \A k \in 1 .. Count : /\ Slot(k - 1) \in Slots /\ Slot(k - 1) # head
                                     /\ Slot(k - 1)' = Slot(k - 1)
        BY <2>4, <2>a, BufSizeAssumption DEF PushWrite, popVars, Count, Slot, Slots, TypeOK
      <4>2. \A k \in 1 .. Count : data'[Slot(k - 1)] = data[Slot(k - 1)]
        BY <2>4, <2>a, <4>1 DEF PushWrite, TypeOK
      <4>3. Contents' = [k \in 1 .. Count' |-> data'[Slot(k - 1)']]
        BY DEF Contents
      <4> QED
        BY <4>1, <4>2, <4>3 DEF Contents
    <3> QED
      BY <2>4, <3>1 DEF PushWrite, popVars, Fifo!vars
  <2>5. CASE PushPublish
    <3>1. Contents' = Append(Contents, pushVal)
      BY <2>5, <2>a, PublishAppends
    <3>2. Len(Contents) \in 0 .. BUF_SIZE - 1 /\ Len(Contents) # BUF_SIZE - 1
      BY <2>5, <2>a, ContentsType DEF PushPublish, RingInv, PushStillHasRoom
    <3>3. Fifo!Accept
      BY <2>5, <3>1, <3>2, BufSizeAssumption
      DEF PushPublish, popVars, Fifo!Accept, RingInv, OfferedWhilePushing
    <3> QED
      BY <3>3 DEF Fifo!Next
  <2>6. CASE PopEmpty
    <3>1. Contents = <<>> /\ Contents' = Contents
      BY <2>6, <2>a, <2>b, ContentsType DEF PopEmpty, Empty, pushVars
    <3>2. Fifo!TakeNone
      BY <2>6, <3>1 DEF PopEmpty, Empty, pushVars, Fifo!TakeNone
    <3> QED
      BY <3>2 DEF Fifo!Next
  <2>7. CASE PopFound
    BY <2>7, <2>c DEF PopFound, Empty, pushVars
  <2>8. CASE PopRead
    BY <2>8, <2>c DEF PopRead, pushVars
  <2>9. CASE PopAdvance
    <3>1. Contents # <<>> /\ popVal = Head(Contents) /\ Contents' = Tail(Contents)
      BY <2>9, <2>a, AdvanceRemoves
    <3>2. Fifo!Take
      BY <2>9, <3>1 DEF PopAdvance, pushVars, Fifo!Take
    <3> QED
      BY <3>2 DEF Fifo!Next
  <2>10. CASE UNCHANGED vars
    BY <2>10, <2>c DEF vars
  <2> QED
    BY <2>1, <2>2, <2>3, <2>4, <2>5, <2>6, <2>7, <2>8, <2>9, <2>10
    DEF Next, Push, Pop, Fifo!Next
<1> QED
  BY <1>1, <1>2, RingInvariant, PTL DEF Spec, ImplementsFifo, Fifo!Spec

(***************************************************************************)
(* The packet decoder.                                                     *)
(***************************************************************************)
DecoderType ==
  /\ PACKET_STATE \in 0 .. 2
  /\ PACKET_BYTES \in [1 .. 3 -> Byte]
  /\ move \in Moves
  /\ sent \in 0 .. 3
  /\ losses \in 0 .. MaxLosses
  /\ strays \in 0 .. MaxStrays
  /\ costly \in 0 .. strays
  /\ mixed \in BOOLEAN
  /\ bogus \in 0 .. TooMany

\* Bytes that are all of the packet on the line are as many as it has sent.
KeptInv ==
  /\ PACKET_STATE = 0 => ~mixed
  /\ PACKET_STATE # 0 /\ ~mixed => PACKET_STATE = sent

\* A packet that found the decoder waiting for byte 0 has been stored byte by byte.
StoredInv ==
  clean /\ aligned =>
    /\ sent < 3 => PACKET_STATE = sent /\ event = NoEvent
    /\ sent > 0 /\ sent < 3 => PACKET_BYTES[1] = Encode(move)[1]
    /\ sent = 2 => PACKET_BYTES[2] = Encode(move)[2]
    /\ FaithfulDecoding

\* Where a quiet packet leaves a decoder that was out of step.
ResyncInv ==
  clean /\ Quiet(move) =>
    /\ aligned => PACKET_STATE = sent % 3
    /\ ~aligned /\ sent = 0 => PACKET_STATE # 0
    /\ ~aligned /\ sent = 1 => PACKET_STATE # 1
    /\ ~aligned /\ sent >= 2 => PACKET_STATE = 0

\* A lost or stray byte that can still cost an event: the bytes kept are not all
\* of the packet on the line, and are not dropped for their overflow bits.
Owed == IF mixed /\ ~Overflowed(PACKET_BYTES) THEN 1 ELSE 0

DebtInv ==
  ~noisy =>
    /\ sent < 3 => Quiet(move)
    /\ bogus + Owed <= losses + costly

DecoderInv == DecoderType /\ KeptInv /\ StoredInv /\ ResyncInv /\ DebtInv
-----------------------------------------------------------------------------
\* A delta of nine bits, from its low byte and its sign.
LEMMA DeltaByte ==
  ASSUME NEW d \in -256 .. 255
  PROVE  d % 256 \in Byte /\ (IF d < 0 THEN (d % 256) - 256 ELSE d % 256) = d
  BY DEF Byte

\* A packet holds its movement.
LEMMA Encoded ==
  ASSUME NEW m \in Moves
  PROVE  /\ Encode(m)[1] \in Byte /\ Encode(m)[2] \in Byte /\ Encode(m)[3] \in Byte
         /\ Bit(Encode(m)[1], 3) /\ ~Bit(Encode(m)[1], 7)
         /\ Bit(Encode(m)[1], 6) <=> m.overflow
         /\ Bit(Encode(m)[1], 0) <=> m.left
         /\ Bit(Encode(m)[1], 1) <=> m.right
         /\ Bit(Encode(m)[1], 2) <=> m.middle
         /\ NineBit(Bit(Encode(m)[1], 4), Encode(m)[2]) = m.dx
         /\ NineBit(Bit(Encode(m)[1], 5), Encode(m)[3]) = m.dy
  <1>1. m \in Move
    BY MoveAssumption
  <1>2. /\ m.left \in BOOLEAN /\ m.right \in BOOLEAN /\ m.middle \in BOOLEAN /\ m.overflow \in BOOLEAN
        /\ m.dx \in -256 .. 255 /\ m.dy \in -256 .. 255
    BY <1>1 DEF Move
  <1>4. PICK e : e = 8 + Flag(m.left, 0) + Flag(m.right, 1) + Flag(m.middle, 2)
                       + Flag(m.dx < 0, 4) + Flag(m.dy < 0, 5) + Flag(m.overflow, 6)
    OBVIOUS
  <1>5. Encode(m)[1] = e /\ Encode(m)[2] = m.dx % 256 /\ Encode(m)[3] = m.dy % 256
    BY <1>4 DEF Encode
  <1>6. /\ e \in Byte /\ Bit(e, 3) /\ ~Bit(e, 7) /\ (Bit(e, 6) <=> m.overflow)
        /\ (Bit(e, 0) <=> m.left) /\ (Bit(e, 1) <=> m.right) /\ (Bit(e, 2) <=> m.middle)
        /\ (Bit(e, 4) <=> m.dx < 0) /\ (Bit(e, 5) <=> m.dy < 0)
    BY <1>2, <1>4 DEF Bit, Flag, Byte
  <1>7. /\ m.dx % 256 \in Byte /\ (IF m.dx < 0 THEN (m.dx % 256) - 256 ELSE m.dx % 256) = m.dx
        /\ m.dy % 256 \in Byte /\ (IF m.dy < 0 THEN (m.dy % 256) - 256 ELSE m.dy % 256) = m.dy
    BY <1>2, DeltaByte
  <1>8. NineBit(Bit(e, 4), m.dx % 256) = m.dx /\ NineBit(Bit(e, 5), m.dy % 256) = m.dy
    BY <1>6, <1>7 DEF NineBit
  <1> QED
    BY <1>5, <1>6, <1>7, <1>8

\* And is decoded to it.
LEMMA DecodesEncoded ==
  ASSUME NEW m \in Moves, NEW b, b[1] = Encode(m)[1], b[2] = Encode(m)[2], b[3] = Encode(m)[3]
  PROVE  DecodeEvent(b) = EventOf(m) /\ (Overflowed(b) <=> m.overflow)
  <1>1. m \in Move
    BY MoveAssumption
  <1>2. /\ m.left \in BOOLEAN /\ m.right \in BOOLEAN /\ m.middle \in BOOLEAN /\ m.overflow \in BOOLEAN
    BY <1>1 DEF Move
  <1>3. /\ Bit(b[1], 0) = m.left /\ Bit(b[1], 1) = m.right /\ Bit(b[1], 2) = m.middle
    BY <1>2, Encoded DEF Bit
  <1>4. NineBit(Bit(b[1], 4), b[2]) = m.dx /\ NineBit(Bit(b[1], 5), b[3]) = m.dy
    BY Encoded
  <1>5. Overflowed(b) <=> m.overflow
    BY Encoded DEF Overflowed
  <1> QED
    BY <1>3, <1>4, <1>5 DEF DecodeEvent, EventOf

\* Every byte of a packet is one.
LEMMA EncodedByte ==
  ASSUME move \in Moves, sent \in 0 .. 2
  PROVE  Encode(move)[sent + 1] \in Byte
  <1>1. sent + 1 = 1 \/ sent + 1 = 2 \/ sent + 1 = 3
    OBVIOUS
  <1> QED
    BY <1>1, Encoded

\* What add_byte does, state by state.
LEMMA AddByte ==
  ASSUME DecoderType, NEW byte \in Byte, add_byte(byte)
  PROVE  /\ PACKET_BYTES' \in [1 .. 3 -> Byte]
         /\ PACKET_STATE = 0 /\ ~Bit(byte, 3) => UNCHANGED <<PACKET_STATE, PACKET_BYTES, event>>
         /\ PACKET_STATE = 0 /\ Bit(byte, 3) =>
              PACKET_STATE' = 1 /\ PACKET_BYTES'[1] = byte /\ UNCHANGED event
         /\ PACKET_STATE = 1 =>
              /\ PACKET_STATE' = 2 /\ PACKET_BYTES'[2] = byte /\ PACKET_BYTES'[1] = PACKET_BYTES[1]
              /\ UNCHANGED event
         /\ PACKET_STATE = 2 =>
              /\ PACKET_STATE' = 0 /\ PACKET_BYTES'[3] = byte
              /\ PACKET_BYTES'[1] = PACKET_BYTES[1] /\ PACKET_BYTES'[2] = PACKET_BYTES[2]
              /\ \/ Overflowed(PACKET_BYTES') /\ UNCHANGED event
                 \/ ~Overflowed(PACKET_BYTES') /\ event' = DecodeEvent(PACKET_BYTES')
  <1>0. PACKET_STATE \in 0 .. 2 /\ PACKET_BYTES \in [1 .. 3 -> Byte]
    BY DEF DecoderType
  <1>1. CASE SkipByte0(byte)
    BY <1>0, <1>1 DEF SkipByte0, LooksLikeByte0, decoder
  <1>a. ASSUME Take(byte)
        PROVE  /\ PACKET_BYTES' \in [1 .. 3 -> Byte] /\ PACKET_STATE' = (PACKET_STATE + 1) % 3
               /\ PACKET_BYTES'[PACKET_STATE + 1] = byte
               /\ \A k \in 1 .. 3 : k # PACKET_STATE + 1 => PACKET_BYTES'[k] = PACKET_BYTES[k]
    BY <1>0, <1>a DEF Take, Following
  <1>2. CASE TakeByte0(byte)
    BY <1>0, <1>2, <1>a DEF TakeByte0, LooksLikeByte0
  <1>3. CASE TakeByte1(byte)
    BY <1>0, <1>3, <1>a DEF TakeByte1
  <1>4. CASE DropPacket(byte)
    BY <1>0, <1>4, <1>a DEF DropPacket
  <1>5. CASE PushEvent(byte)
    BY <1>0, <1>5, <1>a DEF PushEvent
  <1> QED
    BY <1>1, <1>2, <1>3, <1>4, <1>5 DEF add_byte

\* What becomes of the histories: the bytes kept are mixed if they were or the
\* byte is not their packet's, and an event is bogus if its bytes are.
LEMMA Blended ==
  ASSUME DecoderType, KeptInv, NEW own \in BOOLEAN, Blend(own)
  PROVE  /\ mixed' \in BOOLEAN /\ bogus' \in 0 .. TooMany
         /\ PACKET_STATE' = 0 => ~mixed'
         /\ PACKET_STATE' # 0 => (mixed' <=> (mixed \/ ~own))
         /\ PACKET_STATE = 2 /\ ~Overflowed(PACKET_BYTES') /\ (mixed \/ ~own) =>
              bogus' <= bogus + 1
         /\ ~(PACKET_STATE = 2 /\ ~Overflowed(PACKET_BYTES') /\ (mixed \/ ~own)) =>
              bogus' = bogus
  <1>1. TooMany \in Nat /\ bogus \in 0 .. TooMany /\ mixed \in BOOLEAN
    BY LossAssumption DEF DecoderType, TooMany
  <1>2. /\ mixed' = ((mixed \/ ~own) /\ PACKET_STATE' # 0)
        /\ bogus' = IF (PACKET_STATE = 2 /\ ~Overflowed(PACKET_BYTES')) /\ (mixed \/ ~own) /\ bogus < TooMany
                    THEN bogus + 1 ELSE bogus
    BY DEF Blend
  <1>3. bogus' \in 0 .. TooMany /\ bogus' <= bogus + 1
    BY <1>1, <1>2
  <1>4. mixed' \in BOOLEAN
    BY <1>2
  <1> QED
    BY <1>2, <1>3, <1>4

\* An event is paid for by the debt it ends, or by the stray byte that makes it.
LEMMA Paid ==
  ASSUME NEW g \in Nat, NEW h \in Nat, NEW p \in Nat, NEW q \in Nat, g <= p,
         (h = g /\ q = p) \/ (h <= g + 1 /\ ((g + 1 <= p /\ q = p) \/ q = p + 1))
  PROVE  h + 0 <= q
  OBVIOUS

\* Another loss pays for another debt of one event.
LEMMA Pays ==
  ASSUME NEW g \in Nat, NEW p \in Nat, NEW a \in 0 .. 1, NEW b \in 0 .. 1, g + a <= p
  PROVE  g + b <= p + 1 /\ g + b <= p + b /\ g <= p /\ (a = 1 => g + 1 <= p)
  OBVIOUS

-----------------------------------------------------------------------------
\* A byte arrives.
LEMMA DeliverStep == DecoderInv /\ Deliver => DecoderInv'
  <1> SUFFICES ASSUME DecoderInv, Deliver PROVE DecoderInv'
    OBVIOUS
  <1> DEFINE byte == Encode(move)[sent + 1]
             own  == PACKET_STATE = sent
  <1>0. /\ PACKET_STATE \in 0 .. 2 /\ sent \in 0 .. 2 /\ move \in Moves /\ mixed \in BOOLEAN
        /\ losses \in Nat /\ costly \in Nat /\ bogus \in Nat
    BY LossAssumption DEF DecoderInv, DecoderType, Deliver, TooMany
  <1>1. /\ add_byte(byte) /\ Blend(own) /\ sent' = sent + 1 /\ move' = move /\ losses' = losses
        /\ strays' = strays /\ costly' = costly /\ aligned' = aligned /\ clean' = clean /\ noisy' = noisy
    BY DEF Deliver
  <1>2. byte \in Byte
    BY <1>0, EncodedByte
  <1>3. /\ Bit(Encode(move)[1], 3)
        /\ Quiet(move) => ~Bit(Encode(move)[2], 3) /\ ~Bit(Encode(move)[3], 3)
    BY <1>0, Encoded DEF Quiet
  <1>4. /\ sent = 0 => Bit(byte, 3) /\ byte = Encode(move)[1]
        /\ sent = 1 => byte = Encode(move)[2]
        /\ sent = 2 => byte = Encode(move)[3]
        /\ sent > 0 /\ Quiet(move) => ~Bit(byte, 3)
    <2>1. sent = 0 \/ sent = 1 \/ sent = 2
      BY <1>0
    <2> QED
      BY <1>3, <2>1
  <1>b. /\ mixed' \in BOOLEAN /\ bogus' \in 0 .. TooMany
        /\ PACKET_STATE' = 0 => ~mixed'
        /\ PACKET_STATE' # 0 => (mixed' <=> (mixed \/ PACKET_STATE # sent))
        /\ PACKET_STATE = 2 /\ ~Overflowed(PACKET_BYTES') /\ (mixed \/ PACKET_STATE # sent) =>
             bogus' <= bogus + 1
        /\ ~(PACKET_STATE = 2 /\ ~Overflowed(PACKET_BYTES') /\ (mixed \/ PACKET_STATE # sent)) =>
             bogus' = bogus
    <2>1. own \in BOOLEAN
      OBVIOUS
    <2> QED
      BY <1>1, <2>1, Blended DEF DecoderInv
  <1> HIDE DEF byte
  <1>5. /\ PACKET_BYTES' \in [1 .. 3 -> Byte]
        /\ PACKET_STATE = 0 /\ ~Bit(byte, 3) => UNCHANGED <<PACKET_STATE, PACKET_BYTES, event>>
        /\ PACKET_STATE = 0 /\ Bit(byte, 3) =>
             PACKET_STATE' = 1 /\ PACKET_BYTES'[1] = byte /\ UNCHANGED event
        /\ PACKET_STATE = 1 =>
             /\ PACKET_STATE' = 2 /\ PACKET_BYTES'[2] = byte /\ PACKET_BYTES'[1] = PACKET_BYTES[1]
             /\ UNCHANGED event
        /\ PACKET_STATE = 2 =>
             /\ PACKET_STATE' = 0 /\ PACKET_BYTES'[3] = byte
             /\ PACKET_BYTES'[1] = PACKET_BYTES[1] /\ PACKET_BYTES'[2] = PACKET_BYTES[2]
             /\ \/ Overflowed(PACKET_BYTES') /\ UNCHANGED event
                \/ ~Overflowed(PACKET_BYTES') /\ event' = DecodeEvent(PACKET_BYTES')
    BY <1>1, <1>2, AddByte DEF DecoderInv
  <1>6. PACKET_STATE' \in 0 .. 2
    BY <1>0, <1>5
  <1>7. DecoderType'
    BY <1>0, <1>1, <1>5, <1>6, <1>b DEF DecoderInv, DecoderType
  <1>k. (PACKET_STATE = 0 => ~mixed) /\ (PACKET_STATE # 0 /\ ~mixed => PACKET_STATE = sent)
    BY DEF DecoderInv, KeptInv
  <1>8. KeptInv'
    BY <1>0, <1>1, <1>4, <1>5, <1>b, <1>k DEF KeptInv
  <1>9. StoredInv'
    <2> SUFFICES ASSUME clean, aligned
                 PROVE  /\ sent' < 3 => PACKET_STATE' = sent' /\ event' = NoEvent
                        /\ sent' > 0 /\ sent' < 3 => PACKET_BYTES'[1] = Encode(move)[1]
                        /\ sent' = 2 => PACKET_BYTES'[2] = Encode(move)[2]
                        /\ FaithfulDecoding'
      BY <1>1 DEF StoredInv
    <2>1. /\ PACKET_STATE = sent /\ event = NoEvent
          /\ sent > 0 => PACKET_BYTES[1] = Encode(move)[1]
          /\ sent = 2 => PACKET_BYTES[2] = Encode(move)[2]
      BY <1>0 DEF DecoderInv, StoredInv
    <2>2. CASE sent = 0
      BY <1>1, <1>4, <1>5, <2>1, <2>2 DEF FaithfulDecoding
    <2>3. CASE sent = 1
      BY <1>1, <1>4, <1>5, <2>1, <2>3 DEF FaithfulDecoding
    <2>4. CASE sent = 2
      <3>1. /\ PACKET_BYTES'[1] = Encode(move)[1] /\ PACKET_BYTES'[2] = Encode(move)[2]
            /\ PACKET_BYTES'[3] = Encode(move)[3]
        BY <1>4, <1>5, <2>1, <2>4
      <3>2. /\ DecodeEvent(PACKET_BYTES') = EventOf(move)
            /\ Overflowed(PACKET_BYTES') <=> move.overflow
        BY <1>0, <3>1, DecodesEncoded
      <3>3. event' = (IF move.overflow THEN NoEvent ELSE EventOf(move)) /\ PACKET_STATE' = 0 /\ sent' = 3
        BY <1>1, <1>5, <2>1, <2>4, <3>2
      <3>4. FaithfulDecoding'
        BY <1>1, <3>3 DEF FaithfulDecoding, EventOf
      <3> QED
        BY <3>3, <3>4
    <2> QED
      BY <1>0, <2>2, <2>3, <2>4
  <1>10. ResyncInv'
    <2> SUFFICES ASSUME clean, Quiet(move)
                 PROVE  /\ aligned => PACKET_STATE' = sent' % 3
                        /\ ~aligned /\ sent' = 0 => PACKET_STATE' # 0
                        /\ ~aligned /\ sent' = 1 => PACKET_STATE' # 1
                        /\ ~aligned /\ sent' >= 2 => PACKET_STATE' = 0
      BY <1>1 DEF ResyncInv, Quiet
    <2>1. /\ aligned => PACKET_STATE = sent % 3
          /\ ~aligned /\ sent = 0 => PACKET_STATE # 0
          /\ ~aligned /\ sent = 1 => PACKET_STATE # 1
          /\ ~aligned /\ sent >= 2 => PACKET_STATE = 0
      BY DEF DecoderInv, ResyncInv
    <2>2. CASE sent = 0
      BY <1>0, <1>1, <1>4, <1>5, <2>1, <2>2
    <2>3. CASE sent = 1
      BY <1>0, <1>1, <1>4, <1>5, <2>1, <2>3
    <2>4. CASE sent = 2
      BY <1>0, <1>1, <1>4, <1>5, <2>1, <2>4
    <2> QED
      BY <1>0, <2>2, <2>3, <2>4
  <1>11. DebtInv'
    <2> SUFFICES ASSUME ~noisy PROVE Quiet(move) /\ bogus' + Owed' <= losses + costly
      BY <1>1 DEF DebtInv, Quiet
    <2>1. Quiet(move) /\ bogus + Owed <= losses + costly
      BY <1>0 DEF DecoderInv, DebtInv
    <2>2. PACKET_STATE # 0 => (Overflowed(PACKET_BYTES') <=> Overflowed(PACKET_BYTES))
      BY <1>0, <1>5 DEF Overflowed
    <2>3. Owed \in {0, 1} /\ Owed' \in {0, 1}
      BY DEF Owed
    <2>4. CASE PACKET_STATE = 0
      <3>1. ~mixed' /\ bogus' = bogus
        BY <1>0, <1>1, <1>4, <1>5, <1>b, <1>k, <2>1, <2>4
      <3>2. Owed' = 0
        BY <3>1 DEF Owed
      <3> QED
        BY <1>0, <2>1, <2>3, <3>1, <3>2
    <2>5. CASE PACKET_STATE = 1
      <3>1. (mixed' <=> mixed) /\ bogus' = bogus
        BY <1>0, <1>5, <1>b, <1>k, <2>5
      <3>2. Owed' = Owed
        BY <2>2, <2>5, <3>1 DEF Owed
      <3> QED
        BY <2>1, <3>1, <3>2
    <2>6. CASE PACKET_STATE = 2
      <3>1. ~mixed'
        BY <1>5, <1>b, <2>6
      <3>2. Owed' = 0
        BY <3>1 DEF Owed
      <3>3. bogus' \in Nat /\ (bogus' = bogus \/ (bogus' <= bogus + 1 /\ Owed = 1))
        BY <1>0, <1>5, <1>b, <1>k, <2>2, <2>6, LossAssumption DEF Owed, TooMany
      <3>4. PICK a \in 0 .. 1 : a = Owed
        BY <2>3
      <3>5. bogus + a <= losses + costly /\ (bogus' = bogus \/ (bogus' <= bogus + 1 /\ a = 1))
        BY <2>1, <3>3, <3>4
      <3>6. bogus' + 0 <= losses + costly
        <4>1. losses + costly \in Nat
          BY <1>0
        <4>2. bogus <= losses + costly /\ (a = 1 => bogus + 1 <= losses + costly)
          BY <1>0, <3>5, <4>1, Pays
        <4> QED
          BY <1>0, <3>3, <3>5, <4>1, <4>2, Paid
      <3> QED
        BY <2>1, <3>2, <3>6
    <2> QED
      BY <1>0, <2>1, <2>4, <2>5, <2>6
  <1> QED
    BY <1>7, <1>8, <1>9, <1>10, <1>11 DEF DecoderInv

\* A byte arrives that is of no movement.
LEMMA StrayStep == DecoderInv /\ StrayByte => DecoderInv'
  <1> SUFFICES ASSUME DecoderInv, StrayByte PROVE DecoderInv'
    OBVIOUS
  <1>0. /\ PACKET_STATE \in 0 .. 2 /\ sent \in 0 .. 3 /\ move \in Moves /\ mixed \in BOOLEAN
        /\ MaxStrays \in Nat /\ strays \in 0 .. MaxStrays /\ strays < MaxStrays /\ costly \in 0 .. strays
        /\ losses \in Nat /\ bogus \in Nat
    BY LossAssumption DEF DecoderInv, DecoderType, StrayByte, TooMany
  <1>1. PICK byte \in Byte : add_byte(byte)
    BY StrayAssumption DEF StrayByte
  <1>2. /\ Blend(FALSE) /\ strays' = strays + 1 /\ move' = move /\ sent' = sent /\ losses' = losses
        /\ aligned' = aligned /\ noisy' = noisy
        /\ costly' = IF PACKET_STATE' # PACKET_STATE /\ ~Overflowed(PACKET_BYTES') THEN costly + 1 ELSE costly
        /\ clean' = (clean /\ ~(PACKET_STATE' # PACKET_STATE))
    BY DEF StrayByte
  <1>b. /\ mixed' \in BOOLEAN /\ bogus' \in 0 .. TooMany
        /\ PACKET_STATE' = 0 => ~mixed'
        /\ PACKET_STATE' # 0 => mixed'
        /\ PACKET_STATE = 2 /\ ~Overflowed(PACKET_BYTES') => bogus' <= bogus + 1
        /\ ~(PACKET_STATE = 2 /\ ~Overflowed(PACKET_BYTES')) => bogus' = bogus
    BY <1>2, Blended DEF DecoderInv
  <1>5. /\ PACKET_BYTES' \in [1 .. 3 -> Byte]
        /\ PACKET_STATE = 0 /\ ~Bit(byte, 3) => UNCHANGED <<PACKET_STATE, PACKET_BYTES, event>>
        /\ PACKET_STATE = 0 /\ Bit(byte, 3) => PACKET_STATE' = 1
        /\ PACKET_STATE = 1 => PACKET_STATE' = 2 /\ PACKET_BYTES'[1] = PACKET_BYTES[1]
        /\ PACKET_STATE = 2 => PACKET_STATE' = 0 /\ PACKET_BYTES'[1] = PACKET_BYTES[1]
    BY <1>1, AddByte DEF DecoderInv
  <1>6. PACKET_STATE' \in 0 .. 2
    BY <1>0, <1>5
  <1>c. costly' \in 0 .. strays'
    BY <1>0, <1>2
  <1>7. DecoderType'
    BY <1>0, <1>2, <1>5, <1>6, <1>b, <1>c DEF DecoderInv, DecoderType
  <1>8. KeptInv'
    BY <1>b DEF KeptInv
  <1>9. StoredInv' /\ ResyncInv'
    <2>1. CASE PACKET_STATE' # PACKET_STATE
      BY <1>2, <2>1 DEF StoredInv, ResyncInv
    <2>2. CASE PACKET_STATE' = PACKET_STATE
      <3>1. PACKET_BYTES' = PACKET_BYTES /\ event' = event
        BY <1>0, <1>5, <2>2
      <3>2. clean' <=> clean
        BY <1>2, <2>2
      <3> QED
        BY <1>2, <2>2, <3>1, <3>2 DEF DecoderInv, StoredInv, ResyncInv, FaithfulDecoding, EventOf, Quiet
    <2> QED
      BY <2>1, <2>2
  <1>10. DebtInv'
    <2>1. Owed \in {0, 1} /\ Owed' \in {0, 1}
      BY DEF Owed
    <2>2. ~noisy => (sent < 3 => Quiet(move)) /\ bogus + Owed <= losses + costly
      BY DEF DecoderInv, DebtInv
    <2>3. ASSUME ~noisy PROVE bogus' + Owed' <= losses' + costly'
      <3>0. PICK a \in 0 .. 1, b \in 0 .. 1 : a = Owed /\ b = Owed'
        BY <2>1
      <3>1. bogus + Owed <= losses + costly /\ costly \in Nat /\ losses' = losses
        BY <1>0, <1>2, <2>2, <2>3
      <3>a. bogus + a <= losses + costly
        BY <3>0, <3>1
      <3>2. CASE PACKET_STATE = 0 /\ ~Bit(byte, 3)
        <4>1. PACKET_STATE' = 0 /\ bogus' = bogus /\ costly' = costly
          BY <1>2, <1>5, <1>b, <3>2
        <4>2. Owed' = 0
          BY <1>b, <4>1 DEF Owed
        <4>3. bogus' + 0 <= losses + costly'
          BY <1>0, <3>a, <4>1
        <4> QED
          BY <3>1, <4>2, <4>3
      <3>3. CASE (PACKET_STATE = 0 /\ Bit(byte, 3)) \/ PACKET_STATE = 1
        <4>1. PACKET_STATE' # 0 /\ PACKET_STATE' # PACKET_STATE /\ bogus' = bogus
          BY <1>5, <1>b, <3>3
        <4>2. costly' = costly + Owed'
          BY <1>0, <1>2, <1>b, <4>1 DEF Owed
        <4>3. bogus' + b <= losses + (costly + b)
          <5>1. losses + costly \in Nat
            BY <1>0
          <5>2. bogus + b <= (losses + costly) + b
            BY <1>0, <3>a, <5>1, Pays
          <5> QED
            BY <1>0, <4>1, <5>2
        <4> QED
          BY <3>0, <3>1, <4>2, <4>3
      <3>4. CASE PACKET_STATE = 2
        <4>1. PACKET_STATE' = 0 /\ bogus' \in Nat
          BY <1>5, <1>b, <3>4, LossAssumption DEF TooMany
        <4>2. Owed' = 0
          BY <1>b, <4>1 DEF Owed
        <4>3. (bogus' = bogus /\ costly' = costly) \/ (bogus' <= bogus + 1 /\ costly' = costly + 1)
          <5>1. CASE Overflowed(PACKET_BYTES')
            <6>1. bogus' = bogus
              BY <1>b, <5>1
            <6>2. costly' = costly
              BY <1>2, <5>1
            <6> QED
              BY <6>1, <6>2
          <5>2. CASE ~Overflowed(PACKET_BYTES')
            BY <1>2, <1>b, <3>4, <4>1, <5>2
          <5> QED
            BY <5>1, <5>2
        <4>4. bogus' + 0 <= losses + costly'
          <5>1. losses + costly \in Nat
            BY <1>0
          <5>2. bogus <= losses + costly
            BY <1>0, <3>a, <5>1, Pays
          <5> QED
            <6>1. losses + costly' \in Nat /\ losses + costly' \in {losses + costly, (losses + costly) + 1}
              BY <1>0, <4>3
            <6>2. \/ bogus' = bogus /\ losses + costly' = losses + costly
                  \/ bogus' <= bogus + 1 /\ losses + costly' = (losses + costly) + 1
              BY <1>0, <4>3
            <6> QED
              BY <1>0, <4>1, <5>1, <5>2, <6>1, <6>2, Paid
        <4> QED
          BY <3>1, <4>2, <4>4
      <3> QED
        BY <1>0, <3>2, <3>3, <3>4
    <2> QED
      BY <1>2, <2>2, <2>3 DEF DebtInv, Quiet
  <1> QED
    BY <1>7, <1>8, <1>9, <1>10 DEF DecoderInv

\* A byte is lost.
LEMMA LoseStep == DecoderInv /\ Lose => DecoderInv'
  <1> SUFFICES ASSUME DecoderInv, Lose PROVE DecoderInv'
    OBVIOUS
  <1>0. /\ sent \in 0 .. 2 /\ losses \in 0 .. MaxLosses /\ losses < MaxLosses /\ MaxLosses \in Nat
        /\ bogus \in Nat /\ costly \in Nat
    BY LossAssumption DEF DecoderInv, DecoderType, Lose, TooMany
  <1>1. /\ losses' = losses + 1 /\ sent' = sent + 1 /\ ~clean' /\ move' = move /\ bogus' = bogus
        /\ strays' = strays /\ costly' = costly /\ mixed' = (PACKET_STATE # 0)
        /\ PACKET_STATE' = PACKET_STATE /\ PACKET_BYTES' = PACKET_BYTES /\ noisy' = noisy
    BY DEF Lose, decoder
  <1>2. DecoderType'
    <2>1. mixed' \in BOOLEAN
      BY <1>1
    <2> QED
      BY <1>0, <1>1, <2>1 DEF DecoderInv, DecoderType
  <1>3. KeptInv'
    BY <1>1 DEF KeptInv
  <1>4. StoredInv' /\ ResyncInv'
    BY <1>1 DEF StoredInv, ResyncInv
  <1>5. DebtInv'
    <2>1. Owed \in {0, 1} /\ Owed' \in {0, 1}
      BY DEF Owed
    <2>2. ~noisy => Quiet(move) /\ bogus + Owed <= losses + costly
      BY <1>0 DEF DecoderInv, DebtInv
    <2>3. ASSUME ~noisy PROVE bogus' + Owed' <= losses' + costly'
      <3>1. bogus' = bogus /\ losses' = losses + 1 /\ costly' = costly /\ losses \in Nat
        BY <1>0, <1>1
      <3>2. PICK a \in 0 .. 1, b \in 0 .. 1 : a = Owed /\ b = Owed'
        BY <2>1
      <3>3. bogus + a <= losses + costly
        BY <2>2, <2>3, <3>2
      <3>4. bogus + b <= (losses + 1) + costly
        <4>1. losses + costly \in Nat
          BY <1>0, <3>1
        <4>2. bogus + b <= (losses + costly) + 1
          BY <1>0, <3>3, <4>1, Pays
        <4> QED
          BY <1>0, <3>1, <4>2
      <3> QED
        BY <3>1, <3>2, <3>4
    <2> QED
      BY <1>1, <2>2, <2>3 DEF DebtInv, Quiet
  <1> QED
    BY <1>2, <1>3, <1>4, <1>5 DEF DecoderInv

\* The mouse reports the next movement.
LEMMA StartStep == DecoderInv /\ StartPacket => DecoderInv'
  <1> SUFFICES ASSUME DecoderInv, StartPacket PROVE DecoderInv'
    OBVIOUS
  <1>0. sent = 3 /\ PACKET_STATE \in 0 .. 2
    BY DEF DecoderInv, DecoderType, StartPacket
  <1>1. /\ move' \in Moves /\ noisy' = (noisy \/ ~Quiet(move')) /\ sent' = 0 /\ event' = NoEvent
        /\ (aligned' <=> PACKET_STATE = 0) /\ clean' /\ losses' = losses /\ bogus' = bogus
        /\ strays' = strays /\ costly' = costly /\ mixed' = (PACKET_STATE # 0)
        /\ PACKET_STATE' = PACKET_STATE /\ PACKET_BYTES' = PACKET_BYTES
    BY DEF StartPacket, decoder
  <1>2. mixed' \in BOOLEAN
    BY <1>1
  <1>3. DecoderType'
    BY <1>1, <1>2 DEF DecoderInv, DecoderType
  <1>4. KeptInv'
    BY <1>1 DEF KeptInv
  <1>5. StoredInv'
    BY <1>1 DEF StoredInv, FaithfulDecoding
  <1>6. ResyncInv'
    BY <1>0, <1>1 DEF ResyncInv
  <1>7. DebtInv'
    <2>1. mixed' <=> mixed
      <3>1. mixed \in BOOLEAN /\ (PACKET_STATE = 0 => ~mixed) /\ (PACKET_STATE # 0 /\ ~mixed => PACKET_STATE = 3)
        BY <1>0 DEF DecoderInv, DecoderType, KeptInv
      <3>2. CASE PACKET_STATE = 0
        BY <1>1, <3>1, <3>2
      <3>3. CASE PACKET_STATE # 0
        BY <1>0, <1>1, <3>1, <3>3
      <3> QED
        BY <3>2, <3>3
    <2>2. Owed' = Owed
      BY <1>1, <2>1 DEF Owed
    <2> QED
      BY <1>1, <2>2 DEF DecoderInv, DebtInv, Quiet
  <1> QED
    BY <1>3, <1>4, <1>5, <1>6, <1>7 DEF DecoderInv

\* The invariant holds before the first byte.
LEMMA DecoderStart == MouseInit => DecoderInv
  <1> SUFFICES ASSUME MouseInit PROVE DecoderInv
    OBVIOUS
  <1>1. /\ PACKET_STATE = 0 /\ PACKET_BYTES = <<0, 0, 0>> /\ move \in Moves /\ sent = 3
        /\ losses = 0 /\ strays = 0 /\ costly = 0 /\ ~clean /\ mixed = FALSE /\ bogus = 0
    BY DEF MouseInit
  <1>2. PACKET_BYTES \in [1 .. 3 -> Byte]
    BY <1>1 DEF Byte
  <1>3. DecoderType
    <2>1. TooMany \in Nat /\ MaxLosses \in Nat /\ MaxStrays \in Nat
      BY LossAssumption DEF TooMany
    <2>2. mixed \in BOOLEAN
      BY <1>1
    <2>3. costly \in 0 .. strays
      BY <1>1
    <2> QED
      BY <1>1, <1>2, <2>1, <2>2, <2>3 DEF DecoderType
  <1> QED
    BY <1>1, <1>3 DEF DecoderInv, KeptInv, StoredInv, ResyncInv, DebtInv, Owed

\* A movement and a byte delivered, lost or astray preserve it.
LEMMA DecoderStep == DecoderInv /\ [MouseNext]_mouseVars => DecoderInv'
  <1> SUFFICES ASSUME DecoderInv, [MouseNext]_mouseVars PROVE DecoderInv'
    OBVIOUS
  <1>1. CASE UNCHANGED mouseVars
    BY <1>1 DEF mouseVars, DecoderInv, DecoderType, KeptInv, StoredInv, FaithfulDecoding, EventOf, ResyncInv,
                DebtInv, Owed, Overflowed, Quiet
  <1> QED
    BY <1>1, StartStep, DeliverStep, LoseStep, StrayStep DEF MouseNext

(***************************************************************************)
(* Every movement of nine bits, with any buttons, that arrives whole at a  *)
(* decoder waiting for byte 0 is decoded to exactly itself, or to nothing  *)
(* if it overflowed (add_byte).                                            *)
(***************************************************************************)
THEOREM PacketsDecodeFaithfully == MouseSpec => []FaithfulDecoding
  <1>1. DecoderInv => FaithfulDecoding
    BY DEF DecoderInv, StoredInv, FaithfulDecoding
  <1> QED
    BY <1>1, DecoderStart, DecoderStep, PTL DEF MouseSpec

(***************************************************************************)
(* After any losses one whole packet without bit 3 in its movement bytes   *)
(* puts the decoder back in step (arm 0 of add_byte).                      *)
(***************************************************************************)
THEOREM QuietPacketsResync == MouseSpec => []QuietPacketResyncs
  <1>1. DecoderInv => QuietPacketResyncs
    BY DEF DecoderInv, ResyncInv, QuietPacketResyncs
  <1> QED
    BY <1>1, DecoderStart, DecoderStep, PTL DEF MouseSpec

(***************************************************************************)
(* While no movement byte looks like a byte 0, every lost byte and every   *)
(* stray byte taken into a packet without an overflow bit cost at most one *)
(* event that no movement made, for every number of them, whatever the     *)
(* stray bytes are and wherever they come (add_byte).                      *)
(***************************************************************************)
THEOREM LossesCostOneEvent == MouseSpec => []BogusEventsBounded
  <1>1. DecoderInv => BogusEventsBounded
    <2> SUFFICES ASSUME DecoderInv, ~noisy PROVE bogus <= losses + costly
      BY DEF BogusEventsBounded
    <2>1. /\ Owed \in {0, 1} /\ bogus + Owed <= losses + costly
          /\ bogus \in Nat /\ losses \in Nat /\ costly \in Nat
      BY LossAssumption DEF DecoderInv, DecoderType, DebtInv, Owed, TooMany
    <2> QED
      BY <2>1
  <1> QED
    BY <1>1, DecoderStart, DecoderStep, PTL DEF MouseSpec
=============================================================================
