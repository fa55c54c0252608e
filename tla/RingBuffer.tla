----------------------------- MODULE RingBuffer -----------------------------
(***************************************************************************)
(* The lock-free single-producer single-consumer ring buffer that carries  *)
(* scancodes from the keyboard interrupt handler to the shell task         *)
(* (keyboard.rs) and, as the same code over MouseEvent, mouse packets from *)
(* the mouse interrupt handler to the idle loop (mouse.rs).                *)
(*                                                                         *)
(* Every atomic load, atomic store and access to the UnsafeCell is a step  *)
(* of its own.  On the one CPU the kernel runs on the handler is never     *)
(* interrupted by the consumer, so the code's behaviours are those where   *)
(* the steps of a push are adjacent; the model also allows the others,     *)
(* which is what `unsafe impl Sync for RingBuffer` promises.               *)
(***************************************************************************)
EXTENDS Naturals, Sequences

CONSTANTS
  BUF_SIZE,   \* 128 in the code
  Val,        \* scancodes, or mouse events
  Zero,       \* what the static array is filled with
  None

ASSUME BufSizeAssumption == BUF_SIZE \in Nat /\ BUF_SIZE > 1
ASSUME ValAssumption == Zero \in Val /\ None \notin Val

VARIABLES
  data, head, tail,    \* the fields of RingBuffer
  pushPc, pushVal,     \* where push is, and its argument
  popPc, popVal,       \* where pop is, and its local val
  taken                \* the Option returned by the last completed pop

vars == <<data, head, tail, pushPc, pushVal, popPc, popVal, taken>>
pushVars == <<data, head, pushPc, pushVal>>
popVars == <<tail, popPc, popVal, taken>>

Slots == 0 .. BUF_SIZE - 1

\* Mutant: the indices wrap one slot early.
SuccWrapsEarly(i) == (i + 1) % (BUF_SIZE - 1)

Succ(i) == (i + 1) % BUF_SIZE

\* Mutants: push does not look whether the ring is full, pop whether it is empty.
NeverFull == FALSE
Full == Succ(head) = tail

NeverEmpty == FALSE
Empty == tail = head

Init ==
  /\ data = [i \in Slots |-> Zero]
  /\ head = 0
  /\ tail = 0
  /\ pushPc = "idle"
  /\ pushVal = None
  /\ popPc = "idle"
  /\ popVal = Zero
  /\ taken = None

-----------------------------------------------------------------------------
(***************************************************************************)
(* push.  Only push writes head, so its relaxed load of head can be folded *)
(* into the call.                                                          *)
(***************************************************************************)
PushCall(v) ==
  /\ pushPc = "idle"
  /\ pushPc' = "check"
  /\ pushVal' = v
  /\ UNCHANGED <<data, head, popVars>>

PushCheckFull ==
  /\ pushPc = "check"
  /\ Full
  /\ pushPc' = "idle"
  /\ pushVal' = None
  /\ UNCHANGED <<data, head, popVars>>

PushCheckRoom ==
  /\ pushPc = "check"
  /\ ~Full
  /\ pushPc' = "write"
  /\ UNCHANGED <<data, head, pushVal, popVars>>

PushWrite ==
  /\ pushPc = "write"
  /\ data' = [data EXCEPT ![head] = pushVal]
  /\ pushPc' = "publish"
  /\ UNCHANGED <<head, pushVal, popVars>>

PushPublish ==
  /\ pushPc = "publish"
  /\ head' = Succ(head)
  /\ pushPc' = "idle"
  /\ pushVal' = None
  /\ UNCHANGED <<data, popVars>>

(***************************************************************************)
(* pop.  Only pop writes tail.                                             *)
(***************************************************************************)
PopEmpty ==
  /\ popPc = "idle"
  /\ Empty
  /\ taken' = None
  /\ UNCHANGED <<tail, popPc, popVal, pushVars>>

PopFound ==
  /\ popPc = "idle"
  /\ ~Empty
  /\ popPc' = "read"
  /\ UNCHANGED <<tail, popVal, taken, pushVars>>

PopRead ==
  /\ popPc = "read"
  /\ popVal' = data[tail]
  /\ popPc' = "advance"
  /\ UNCHANGED <<tail, taken, pushVars>>

PopAdvance ==
  /\ popPc = "advance"
  /\ tail' = Succ(tail)
  /\ taken' = popVal
  /\ popPc' = "idle"
  /\ UNCHANGED <<popVal, pushVars>>

Push ==
  \/ \E v \in Val : PushCall(v)
  \/ PushCheckFull \/ PushCheckRoom \/ PushWrite \/ PushPublish

Pop == PopEmpty \/ PopFound \/ PopRead \/ PopAdvance

Next == Push \/ Pop

Spec == Init /\ [][Next]_vars
-----------------------------------------------------------------------------
TypeOK ==
  /\ data \in [Slots -> Val]
  /\ head \in Slots
  /\ tail \in Slots
  /\ pushPc \in {"idle", "check", "write", "publish"}
  /\ pushVal \in Val \cup {None}
  /\ popPc \in {"idle", "read", "advance"}
  /\ popVal \in Val
  /\ taken \in Val \cup {None}

(***************************************************************************)
(* The abstract queue held by the ring: the Count values from tail on.     *)
(***************************************************************************)
Count == IF head >= tail THEN head - tail ELSE head - tail + BUF_SIZE

Slot(k) == IF tail + k < BUF_SIZE THEN tail + k ELSE tail + k - BUF_SIZE

Contents == [k \in 1 .. Count |-> data[Slot(k - 1)]]

Fifo == INSTANCE LossyFifo
          WITH Cap <- BUF_SIZE - 1, queue <- Contents, offered <- pushVal

(***************************************************************************)
(* The ring implements the lossy queue: values come out in the order they  *)
(* went in, each once, and one is discarded only while BUF_SIZE - 1 are    *)
(* waiting (push and pop of keyboard.rs and mouse.rs).                     *)
(***************************************************************************)
ImplementsFifo == Fifo!Spec

(***************************************************************************)
(* The handler never writes the slot the consumer is reading: the          *)
(* unsynchronised accesses to the UnsafeCell in push and pop never meet.   *)
(***************************************************************************)
NoSlotRace == ~(pushPc = "write" /\ popPc = "read" /\ head = tail)

(***************************************************************************)
(* What makes the two above inductive: the check each side made still      *)
(* holds when it acts on it, although the other side moved in between.     *)
(***************************************************************************)
PushStillHasRoom == pushPc \in {"write", "publish"} => Succ(head) # tail
PopStillHasValue == popPc \in {"read", "advance"} => head # tail
WrittenSlotKept == pushPc = "publish" => data[head] = pushVal
ReadValueKept == popPc = "advance" => popVal = data[tail]
OfferedWhilePushing == (pushVal = None) <=> (pushPc = "idle")

RingInv ==
  /\ TypeOK
  /\ PushStillHasRoom
  /\ PopStillHasValue
  /\ WrittenSlotKept
  /\ ReadValueKept
  /\ OfferedWhilePushing
=============================================================================
