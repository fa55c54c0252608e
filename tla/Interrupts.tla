----------------------------- MODULE Interrupts -----------------------------
(***************************************************************************)
(* Interrupt and exception handlers on top of the code they interrupt, and *)
(* the spin locks all of them take.  There is one CPU: while a handler     *)
(* runs, nothing below it on the stack does, so a lock held there is never *)
(* released before the handler returns.                                    *)
(*                                                                         *)
(* A routine is what matters of it here: the locks it takes, nested in     *)
(* this order, and whether it wraps them in without_interrupts.            *)
(***************************************************************************)
EXTENDS Integers, Sequences, SequencesExt

CONSTANTS
  MaxFaults     \* bound on the exceptions and panics raised

ASSUME FaultsAssumption == MaxFaults \in Nat

Routine(masked, locks) == [masked |-> masked, locks |-> locks]

Routines ==
  [serial_init         |-> Routine(FALSE, <<"SERIAL">>),
   framebuffer_init    |-> Routine(FALSE, <<"FB_STATE">>),
   init_pics           |-> Routine(FALSE, <<"PICS">>),
   allocator_init      |-> Routine(FALSE, <<"ALLOCATOR">>),
   info                |-> Routine(TRUE, <<"FB_STATE">>),
   alloc               |-> Routine(FALSE, <<"ALLOCATOR">>),
   wm_init             |-> Routine(FALSE, <<"WM">>),
   set_memory_regions  |-> Routine(FALSE, <<"MEM_REGIONS">>),
   create_window       |-> Routine(TRUE, <<"WM", "ALLOCATOR">>),
   with_wm             |-> Routine(TRUE, <<"WM">>),
   composite           |-> Routine(TRUE, <<"WM", "FB_STATE">>),
   task_init           |-> Routine(FALSE, <<"SCHEDULER">>),
   spawn               |-> Routine(FALSE, <<"SCHEDULER", "ALLOCATOR">>),
   draw_memmap         |-> Routine(TRUE, <<"WM", "MEM_REGIONS">>),
   try_read_key        |-> Routine(FALSE, <<"KEYBOARD">>),
   yield_now           |-> Routine(TRUE, <<"SCHEDULER">>)]

\* In order; enable stands for interrupts::enable, and run takes the same locks
\* as spawn.  After it the tasks use their routines in any order.
kernel_main ==
  <<"serial_init", "framebuffer_init", "init_pics", "enable", "allocator_init", "info",
    "alloc", "wm_init", "set_memory_regions", "create_window", "with_wm", "composite",
    "task_init", "spawn">>
InTasks == {"with_wm", "composite", "draw_memmap", "try_read_key", "yield_now"}

\* Interrupt lines, the highest priority first.
Lines == <<"timer", "keyboard", "mouse">>

\* Mutant: serial output is not protected from interrupts.
PrintUnmasked == Routine(FALSE, <<"SERIAL">>)

Handler == Routine(FALSE, <<"PICS">>)
_print == Routine(TRUE, <<"SERIAL">>)

\* panic, double_fault_handler and breakpoint_handler: all print first.
Exceptions == {"panic", "double_fault", "breakpoint"}

VARIABLES
  at,         \* the next call of kernel_main; past its end, the tasks run
  stack,      \* the contexts, the one that executes last
  intr,       \* the interrupt flag
  requested,  \* lines with an interrupt to deliver
  inservice,  \* lines the PIC waits for the end of
  ended,      \* how the machine stopped, if it has
  faults      \* exceptions and panics so far

vars == <<at, stack, intr, requested, inservice, ended, faults>>

\* locks: still to take; held: taken; was: the flag without_interrupts restores;
\* back: the flag iretq restores
Context(code, routine, was, back) ==
  [code |-> code, masked |-> routine.masked, locks |-> routine.locks, held |-> <<>>,
   was |-> was, back |-> back]

Base == Context("base", Routine(FALSE, <<>>), FALSE, FALSE)

Top == Last(stack)
SetTop(c) == stack' = [stack EXCEPT ![Len(stack)] = c]
HeldBelow(n) == UNION {Range(stack[i].held) : i \in 1 .. n}
Locked == HeldBelow(Len(stack))

Init ==
  /\ at = 1
  /\ stack = <<Base>>
  /\ intr = FALSE
  /\ requested = {}
  /\ inservice = {}
  /\ ended = "no"
  /\ faults = 0

Running == ended = "no"
-----------------------------------------------------------------------------
(***************************************************************************)
(* Code outside handlers: one routine after another.  Only the idle task   *)
(* runs with interrupts enabled (shown for Scheduler), so a switch of      *)
(* tasks, which happens between two routines, may change the flag.         *)
(***************************************************************************)
AtBase == Running /\ stack = <<Base>>

Calls(r) ==
  /\ stack' = <<Context("base", Routines[r], intr, FALSE)>>
  /\ intr' = (intr /\ ~Routines[r].masked)
  /\ UNCHANGED <<requested, inservice, ended, faults>>

Boot ==
  /\ AtBase
  /\ at <= Len(kernel_main)
  /\ at' = at + 1
  /\ IF kernel_main[at] = "enable"
       THEN intr' = TRUE /\ UNCHANGED <<stack, requested, inservice, ended, faults>>
       ELSE Calls(kernel_main[at])

Call ==
  /\ AtBase
  /\ at > Len(kernel_main)
  /\ \E r \in InTasks : Calls(r)
  /\ UNCHANGED at

SwitchTask ==
  /\ AtBase
  /\ at > Len(kernel_main)
  /\ intr' = ~intr
  /\ UNCHANGED <<at, stack, requested, inservice, ended, faults>>

\* The halt command of the shell: a hlt with interrupts disabled, which none ends.
cmd_halt ==
  /\ AtBase
  /\ at > Len(kernel_main)
  /\ ~intr
  /\ ended' = "halted"
  /\ UNCHANGED <<at, stack, intr, requested, inservice, faults>>

(***************************************************************************)
(* Any context: take the next lock if it is free, else spin; do the work;  *)
(* release and return.                                                     *)
(***************************************************************************)
Lock ==
  /\ Running
  /\ Top.locks # <<>>
  /\ Head(Top.locks) \notin Locked
  /\ SetTop([Top EXCEPT !.held = Append(@, Head(Top.locks)), !.locks = Tail(@)])
  /\ UNCHANGED <<at, intr, requested, inservice, ended, faults>>

\* Mutex::lock finds the lock taken and polls it.
Spinning == Running /\ Top.locks # <<>> /\ Head(Top.locks) \in Locked

Finished == Running /\ Top.held # <<>> /\ Top.locks = <<>>

Return ==
  /\ Finished
  /\ Top.code = "base"
  /\ stack' = <<Base>>
  /\ intr' = (IF Top.masked THEN Top.was ELSE intr)
  /\ UNCHANGED <<at, requested, inservice, ended, faults>>

\* Mutant: the timer handler does not tell the PIC that it is done.
NoTimerEoi(line) == inservice \ ({line} \ {"timer"})

notify_end_of_interrupt(line) == inservice \ {line}

HandlerReturn ==
  /\ Finished
  /\ Top.code \in Range(Lines)
  /\ inservice' = notify_end_of_interrupt(Top.code)
  /\ stack' = Front(stack)
  /\ intr' = Top.back
  /\ UNCHANGED <<at, requested, ended, faults>>

\* Mutant: panic returns.
PanicReturns(code) == IF code = "double_fault" THEN "halted" ELSE "no"

\* breakpoint_handler returns; double_fault_handler halts; panic exits.
Ending(code) ==
  CASE code = "panic" -> "exited" [] code = "double_fault" -> "halted" [] OTHER -> "no"

ExceptionReturn ==
  /\ Finished
  /\ Top.code \in Exceptions
  /\ ended' = Ending(Top.code)
  /\ stack' = Front(stack)
  /\ intr' = Top.back
  /\ UNCHANGED <<at, requested, inservice, faults>>

Cpu == Boot \/ Call \/ SwitchTask \/ Lock \/ Return \/ HandlerReturn \/ ExceptionReturn

(***************************************************************************)
(* A device raises its line; the PIC passes the interrupt on unless one of *)
(* the same or of a higher priority is in service.                         *)
(***************************************************************************)
Request(line) ==
  /\ Running
  /\ line \notin requested
  /\ requested' = requested \cup {line}
  /\ UNCHANGED <<at, stack, intr, inservice, ended, faults>>

Interrupt(i) ==
  /\ Running
  /\ intr
  /\ Lines[i] \in requested
  /\ \A j \in 1 .. i : Lines[j] \notin inservice
  /\ requested' = requested \ {Lines[i]}
  /\ inservice' = inservice \cup {Lines[i]}
  /\ stack' = Append(stack, Context(Lines[i], Handler, FALSE, TRUE))
  /\ intr' = FALSE
  /\ UNCHANGED <<at, ended, faults>>

\* Any instruction may fault, those that poll a lock excepted.  An exception
\* enters its handler with interrupts disabled; a failed assertion does not.
Fault ==
  /\ Running /\ ~Spinning
  /\ faults < MaxFaults
  /\ faults' = faults + 1
  /\ \E e \in Exceptions, entry \in {intr, FALSE} :
       /\ e # "panic" => ~entry
       /\ stack' = Append(stack, Context(e, _print, entry, intr))
       /\ intr' = (entry /\ ~_print.masked)
  /\ UNCHANGED <<at, requested, inservice, ended>>

Next ==
  \/ Cpu \/ cmd_halt
  \/ \E line \in Range(Lines) : Request(line)
  \/ \E i \in DOMAIN Lines : Interrupt(i)
  \/ Fault

\* The CPU executes; the idle task, and with it the enabled flag, comes back, and
\* an interrupt that can be delivered again and again is.  That the idle task
\* comes back is NoStarvation of Scheduler, with its exceptions: after the halt
\* command nothing does (cmd_halt), and a flood of mouse events, which keeps the
\* loop of kernel_main from ending, keeps it in the idle task itself.
Spec ==
  /\ Init /\ [][Next]_vars
  /\ WF_vars(Cpu) /\ SF_vars(SwitchTask)
  /\ \A i \in DOMAIN Lines : SF_vars(Interrupt(i))
-----------------------------------------------------------------------------
(***************************************************************************)
(* No handler spins on a lock of the code below it, however they nest,     *)
(* with one exception: code that faults while it prints cannot print the   *)
(* fault.  Then that code is right below, so its own fault is the one that *)
(* goes unreported (PICS.lock in the handlers, SERIAL.lock in _print).     *)
(***************************************************************************)
SpinsOnlyOnOwnPrint ==
  Spinning =>
    /\ Top.code \in Exceptions
    /\ "SERIAL" \in Range(stack[Len(stack) - 1].held)
    /\ "SERIAL" \notin HeldBelow(Len(stack) - 2)

(***************************************************************************)
(* An interrupt raised is an interrupt handled, unless the machine stops   *)
(* (an exit, a double fault, the halt command) or spins: every handler     *)
(* tells the PIC that it is done and restores the flag it found, and so    *)
(* does every routine that disables interrupts.  That the idle task gets   *)
(* its turns is assumed here (see Spec).                                   *)
(***************************************************************************)
EveryInterruptServed ==
  \A i \in DOMAIN Lines : Lines[i] \in requested ~> (Lines[i] \notin requested \/ ~Running \/ Spinning)

(***************************************************************************)
(* A panic is reported and stops the machine, wherever it is raised,       *)
(* unless it is raised by printing.                                        *)
(***************************************************************************)
Panicking == \E i \in 1 .. Len(stack) : stack[i].code = "panic"
PanicEndsMachine == Panicking ~> (~Running \/ Spinning)
=============================================================================
