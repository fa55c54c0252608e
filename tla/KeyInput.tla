------------------------------ MODULE KeyInput ------------------------------
(***************************************************************************)
(* The way of a key from the keyboard to the shell: scancodes by interrupt *)
(* into the queue (LossyFifo, which RingBuffer is shown to implement), one *)
(* decoded key per turn of the shell out of it, and only while the shell's *)
(* window has the focus, which the idle task moves.  Interrupts are taken  *)
(* only while the idle task runs (OnlyIdleInterruptible of Scheduler).     *)
(*                                                                         *)
(* Three keys tell everything apart that the decoder of pc_keyboard does   *)
(* here: a modifier, a character, and a key with a two-byte scancode whose *)
(* second byte alone is another key.                                       *)
(***************************************************************************)
EXTENDS Integers, Sequences

CONSTANTS
  Cap,        \* scancodes the queue holds
  MaxEvents   \* bound on key presses and releases

ASSUME BoundAssumption == Cap \in Nat \ {0} /\ MaxEvents \in Nat

Shift == "2A"
Letter == "1E"
Home == "47"
Keys == {Shift, Letter, Home}

E0 == [code |-> "E0", up |-> FALSE]
Byte == {E0} \cup [code : Keys, up : BOOLEAN]
None == [code |-> "none", up |-> FALSE]

VARIABLES
  held,       \* keys the user holds down
  events,     \* presses and releases so far
  wire,       \* scancodes in the keyboard
  offered,    \* scancode in the data port
  queue,      \* SCANCODE_QUEUE
  taken,      \* what pop returned last
  dec,        \* state of KEYBOARD
  turn,       \* who runs: the idle task, or the shell in try_read_key
  focused,    \* has the shell's window the focus
  typed,      \* history: the characters the user typed
  handled,    \* history: the characters given to handle_char
  dropped,    \* history: has a scancode been discarded
  cut,        \* history: is the last scancode queued the first byte of two
  unsure      \* history: has one been discarded since the modifier last got through
              \* other than behind such a byte

user == <<held, events, typed>>
shell == <<dec, turn, handled>>
keyVars == <<held, events, wire, offered, queue, taken, dec, turn, focused, typed, handled,
          dropped, cut, unsure>>

Fifo == INSTANCE LossyFifo WITH Val <- Byte
-----------------------------------------------------------------------------
(***************************************************************************)
(* pc_keyboard with scancode set 1: add_byte and process_keyevent.         *)
(***************************************************************************)
Decoder == [state : {"start", "extended"}, shift : BOOLEAN]
NewDecoder == [state |-> "start", shift |-> FALSE]

NextDecoder(d, b) ==
  [state |-> IF d.state = "start" /\ b = E0 THEN "extended" ELSE "start",
   shift |-> IF d.state = "start" /\ b.code = Shift THEN ~b.up ELSE d.shift]

\* The characters the decoder gives out.
Out == {"a", "A", "7"}
Character(shift) == IF shift THEN "A" ELSE "a"

\* The key a byte completes: a character, "raw" for a key without one, "no" key.
Key(d, b) ==
  IF b.up \/ b = E0 THEN "no" ELSE
  CASE d.state = "start" /\ b.code = Letter -> Character(d.shift)
    [] d.state = "start" /\ b.code = Home -> "7"         \* of the keypad
    [] d.state = "extended" /\ b.code = Letter -> "no"   \* unknown
    [] OTHER -> "raw"

Chars(key) == IF key \in {"no", "raw"} THEN <<>> ELSE <<key>>

\* The decoder, and the characters it has given out, after another byte.
Decoded(so_far, b) ==
  [dec |-> NextDecoder(so_far.dec, b), out |-> so_far.out \o Chars(Key(so_far.dec, b))]

\* And after a sequence of bytes.
Decode(d, bytes) ==
  LET after[n \in 0 .. Len(bytes)] ==
        IF n = 0 THEN [dec |-> d, out |-> <<>>] ELSE Decoded(after[n - 1], bytes[n])
  IN  after[Len(bytes)]

KeyInit ==
  /\ held = {}
  /\ events = 0
  /\ wire = <<>>
  /\ Fifo!Init
  /\ dec = NewDecoder
  /\ turn = "idle"
  /\ focused = TRUE        \* the shell's window is created first
  /\ typed = <<>>
  /\ handled = <<>>
  /\ dropped = FALSE
  /\ cut = FALSE
  /\ unsure = FALSE

(***************************************************************************)
(* The user and the keyboard.                                              *)
(***************************************************************************)
PressOrRelease(k) ==
  /\ events < MaxEvents
  /\ wire = <<>>
  /\ LET up == k \in held IN
       /\ held' = IF up THEN held \ {k} ELSE held \cup {k}
       /\ wire' = (IF k = Home THEN <<E0>> ELSE <<>>) \o <<[code |-> k, up |-> up]>>
       /\ typed' = IF k = Letter /\ ~up THEN Append(typed, Character(Shift \in held)) ELSE typed
  /\ events' = events + 1
  /\ UNCHANGED <<offered, queue, taken, shell, focused, dropped, cut, unsure>>

Send ==
  /\ wire # <<>>
  /\ Fifo!Offer(Head(wire))
  /\ wire' = Tail(wire)
  /\ UNCHANGED <<user, shell, focused, dropped, cut, unsure>>

(***************************************************************************)
(* keyboard_handler: read the port, push.                                  *)
(***************************************************************************)
Push ==
  /\ turn = "idle"
  /\ Fifo!Accept
  /\ cut' = (offered = E0)
  /\ unsure' = (unsure /\ ~(offered.code = Shift /\ ~cut))
  /\ UNCHANGED <<user, wire, shell, focused, dropped>>

PushFull ==
  /\ turn = "idle"
  /\ Fifo!Discard
  /\ dropped' = TRUE
  /\ unsure' = TRUE
  /\ UNCHANGED <<user, wire, shell, focused, cut>>

keyboard_handler == Push \/ PushFull

(***************************************************************************)
(* The idle task moves the focus on a click; the shell looks for it and,   *)
(* if it has it, reads one key: scancodes until one completes a key.       *)
(***************************************************************************)
Click ==
  /\ turn = "idle"
  /\ focused' = ~focused
  /\ UNCHANGED <<user, wire, offered, queue, taken, shell, dropped, cut, unsure>>

\* Mutants: the decoder is a local of try_read_key; the test is inverted.
LocalDecoder == NewDecoder
Unfocused == ~focused

KEYBOARD == dec
is_focused == focused

ShellTurn ==
  /\ turn = "idle"
  /\ is_focused
  /\ turn' = "shell"
  /\ dec' = KEYBOARD
  /\ UNCHANGED <<user, wire, offered, queue, taken, focused, handled, dropped, cut, unsure>>

ReadNone ==
  /\ turn = "shell"
  /\ Fifo!TakeNone
  /\ turn' = "idle"
  /\ UNCHANGED <<user, wire, dec, focused, handled, dropped, cut, unsure>>

ReadByte ==
  /\ turn = "shell"
  /\ Fifo!Take
  /\ dec' = NextDecoder(dec, taken')
  /\ LET key == Key(dec, taken') IN
       /\ handled' = handled \o Chars(key)
       /\ turn' = IF key = "no" THEN "shell" ELSE "idle"
  /\ UNCHANGED <<user, wire, focused, dropped, cut, unsure>>

try_read_key == ReadNone \/ ReadByte

KeyNext ==
  \/ \E k \in Keys : PressOrRelease(k)
  \/ Send \/ keyboard_handler \/ Click \/ ShellTurn \/ try_read_key

\* The keyboard sends, the CPU executes, and every task gets its turn, so that the
\* shell sees a focus that comes back again and again.  That is NoStarvation of
\* Scheduler; its exceptions do not arise here: the halt command takes more than
\* these keys, and no mouse events flood the idle task.
KeySpec ==
  /\ KeyInit /\ [][KeyNext]_keyVars
  /\ WF_keyVars(Send) /\ WF_keyVars(try_read_key)
  /\ SF_keyVars(keyboard_handler) /\ SF_keyVars(ShellTurn)
-----------------------------------------------------------------------------
\* Scancodes on their way, in order.
Received == queue \o (IF offered = None THEN <<>> ELSE <<offered>>)
Pending == Received \o wire

(***************************************************************************)
(* Until a full queue discards something, the shell is given what was      *)
(* typed: each character once, in order, in the case it was typed in, also *)
(* if the focus was elsewhere at the time (try_read_key, task_main).       *)
(***************************************************************************)
NothingTypedIsLost == ~dropped => handled \o Decode(dec, Pending).out = typed

(***************************************************************************)
(* A discarded scancode may leave the decoder with a modifier that is not  *)
(* held, or without one that is, but not for good: a press or release of   *)
(* the modifier that gets through makes the two agree again.  One that     *)
(* gets through right behind the first byte of a two-byte scancode, the    *)
(* second of which was discarded, is taken for that second byte; then the  *)
(* next one makes them agree (KEYBOARD).                                   *)
(***************************************************************************)
StuckModifierHeals == ~unsure => (Decode(dec, Pending).dec.shift <=> Shift \in held)

KeyType ==
  /\ dec \in Decoder
  /\ queue \in Seq(Byte) /\ wire \in Seq(Byte) /\ offered \in Byte \cup {None}
  /\ typed \in Seq(Out) /\ handled \in Seq(Out)
  /\ dropped \in BOOLEAN /\ cut \in BOOLEAN /\ unsure \in BOOLEAN

\* A decoder that is between two keys and knows whether the modifier is held.
InStep(d, keys) == d.state = "start" /\ (d.shift <=> Shift \in keys)

\* The last byte of the modifier to be sent says whether it is held, and brings a
\* decoder that is between two keys in step again.
LastSaysHeld ==
  \A i \in 1 .. Len(wire) :
    wire[i].code = Shift => i = Len(wire) /\ (wire[i].up <=> Shift \notin held)
OfferedHeals ==
  offered.code = Shift =>
    \A d \in Decoder :
      d.state = "start" /\ (d.shift <=> ~offered.up) => InStep(Decode(d, wire).dec, held)

\* A decoder that the queue leaves between the two bytes of a key has had the first.
CutInv == ~cut => Decode(dec, queue).dec.state = "start"

\* Inductive: with these, a decoder that is sure is in step, not only in the modifier.
KeyInv ==
  /\ KeyType /\ LastSaysHeld /\ OfferedHeals /\ CutInv
  /\ ~unsure => InStep(Decode(dec, Pending).dec, held)
  /\ unsure => dropped
  /\ NothingTypedIsLost

(***************************************************************************)
(* If the shell keeps getting the focus, all that was typed is handled in  *)
(* the end, unless a full queue discarded some of it.                      *)
(***************************************************************************)
TypingIsHandled == []<>focused => <>[](handled = typed \/ dropped)
=============================================================================
