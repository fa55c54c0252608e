------------------------------ MODULE Counter ------------------------------
(***************************************************************************)
(* The counter task against the timer interrupt: a tick count that wraps,  *)
(* and a copy of it, the count the window shows, that is compared with a   *)
(* wrapping subtraction.  The task runs with interrupts off, so a turn of  *)
(* it is one step; any number of ticks pass between two turns.             *)
(***************************************************************************)
EXTENDS Integers

CONSTANTS
  Modulus,  \* the tick count wraps at it, 2^64 in the code
  MaxGap    \* bound on the ticks between two turns of the task

ASSUME GapAssumption ==
  /\ Modulus \in Nat
  /\ MaxGap \in 1 .. (Modulus - 16)

\* Bound on a history variable, out of reach as DisplayFresh shows.
MaxAge == Modulus

VARIABLES
  TICK_COUNT,
  last_displayed,   \* the local of task_main, and what the window shows
  gap,              \* history: ticks since the last turn
  age               \* history: ticks since the count that is shown

vars == <<TICK_COUNT, last_displayed, gap, age>>
-----------------------------------------------------------------------------
\* Mutant: a subtraction that stops at zero.
SaturatingSub(a, b) == IF a < b THEN 0 ELSE a - b
wrapping_sub(a, b) == (a - b) % Modulus

Init ==
  /\ TICK_COUNT = 0
  /\ last_displayed = 0
  /\ gap = 0
  /\ age = 0

timer_handler ==
  /\ gap < MaxGap
  /\ TICK_COUNT' = (TICK_COUNT + 1) % Modulus
  /\ gap' = gap + 1
  /\ age' = IF age < MaxAge THEN age + 1 ELSE age
  /\ UNCHANGED last_displayed

\* One round of the loop, from the load of the ticks to yield_now.
Turn ==
  /\ IF wrapping_sub(TICK_COUNT, last_displayed) >= 16
       THEN /\ last_displayed' = TICK_COUNT
            /\ age' = 0
       ELSE UNCHANGED <<last_displayed, age>>
  /\ gap' = 0
  /\ UNCHANGED TICK_COUNT

Next == timer_handler \/ Turn

Spec == Init /\ [][Next]_vars
-----------------------------------------------------------------------------
(***************************************************************************)
(* However many ticks pass between two turns of the task, and across the   *)
(* wrap of the count, what the window shows is never more than 15 ticks    *)
(* older than the last turn (the wrapping_sub of task_main).               *)
(***************************************************************************)
DisplayFresh ==
  /\ age - gap \in 0 .. 15
  /\ wrapping_sub(TICK_COUNT, last_displayed) = age

\* Inductive: the two counts as numbers that have wrapped equally often, or not.
CounterInv ==
  /\ TICK_COUNT \in 0 .. Modulus - 1
  /\ last_displayed \in 0 .. Modulus - 1
  /\ gap \in 0 .. MaxGap
  /\ age \in Nat
  /\ age - gap \in 0 .. 15
  /\ TICK_COUNT = last_displayed + age \/ TICK_COUNT = last_displayed + age - Modulus
=============================================================================
