----------------------------- MODULE LossyFifo -----------------------------
(***************************************************************************)
(* What the two input queues of the kernel promise (the scancode queue of  *)
(* keyboard.rs and the event queue of mouse.rs): a first-in first-out      *)
(* queue of at most Cap values that discards what arrives when it is full, *)
(* and only then.                                                          *)
(***************************************************************************)
EXTENDS Naturals, Sequences

CONSTANTS
  Cap,    \* how many values the queue holds
  Val,    \* the values
  None    \* the None of Option<u8> and Option<MouseEvent>

VARIABLES
  queue,    \* the values pushed and not yet popped
  offered,  \* the value the interrupt handler is pushing, or None
  taken     \* what the last completed pop returned

vars == <<queue, offered, taken>>

Init ==
  /\ queue = <<>>
  /\ offered = None
  /\ taken = None

Offer(v) ==
  /\ offered = None
  /\ offered' = v
  /\ UNCHANGED <<queue, taken>>

Accept ==
  /\ offered # None
  /\ Len(queue) < Cap
  /\ queue' = Append(queue, offered)
  /\ offered' = None
  /\ UNCHANGED taken

Discard ==
  /\ offered # None
  /\ Len(queue) = Cap
  /\ offered' = None
  /\ UNCHANGED <<queue, taken>>

Take ==
  /\ queue # <<>>
  /\ taken' = Head(queue)
  /\ queue' = Tail(queue)
  /\ UNCHANGED offered

TakeNone ==
  /\ queue = <<>>
  /\ taken' = None
  /\ UNCHANGED <<queue, offered>>

Next ==
  \/ \E v \in Val : Offer(v)
  \/ Accept
  \/ Discard
  \/ Take
  \/ TakeNone

Spec == Init /\ [][Next]_vars
=============================================================================
