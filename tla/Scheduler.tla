----------------------------- MODULE Scheduler -----------------------------
(***************************************************************************)
(* The cooperative scheduler of task.rs on the one CPU of the machine: the *)
(* task table, yield_now with its critical section and the stack swap of   *)
(* switch_context, the idle loop of run, and the interrupt flag that all   *)
(* of them save, clear and restore.                                        *)
(*                                                                         *)
(* A task is a loop that does some work and calls yield_now.  Indices of   *)
(* the task table count from 1 here and from 0 in the code.                *)
(* SCHEDULER_RUNNING is set before the first call of yield_now, so the     *)
(* early return it guards is never taken and the flag is left out.         *)
(***************************************************************************)
EXTENDS Integers, Sequences

CONSTANTS
  Reg,          \* contents of the callee-saved registers
  ZeroReg,      \* what spawn writes for them on a fresh stack
  Window,       \* window ids
  NoWindow,     \* Option::None
  ShellWindow,  \* the window whose task is the shell
  MaxTasks,     \* bound on the tasks kernel_main spawns
  Plans,        \* the lists of windows kernel_main may spawn tasks for
  MouseCap      \* bound on the waiting mouse events

ASSUME RegAssumption == ZeroReg \in Reg
ASSUME WindowAssumption == NoWindow \notin Window
ASSUME PlanAssumption ==
  /\ MaxTasks \in Nat
  /\ \A p \in Plans : p \in Seq(Window) /\ Len(p) <= MaxTasks
ASSUME MouseCapAssumption == MouseCap \in Nat

VARIABLES
  plan,         \* the windows kernel_main spawns its tasks for
  tasks,        \* Scheduler::tasks
  current,      \* Scheduler::current
  next_id,      \* Scheduler::next_id
  lock,         \* is the SCHEDULER mutex held
  pc,           \* what the CPU executes
  regs,         \* its callee-saved registers
  intr,         \* its interrupt flag
  owner,        \* id of the task whose stack it runs on
  flag,         \* on that stack: the flag without_interrupts restores
  ret,          \* on that stack: where yield_now returns to
  from,         \* old_idx of the yield_now in progress
  mouseq,       \* mouse events waiting in MOUSE_QUEUE
  composite,    \* WindowManager::needs_composite
  called,       \* history: the registers each task last called yield_now with
  win_id,       \* the local win_id of each task, from current_window_id
  ran           \* history: has a task run in this pass of the idle loop

boot == <<plan, next_id>>
table == <<tasks, current>>
cpu == <<regs, intr, owner, flag, ret, from>>
screen == <<mouseq, composite>>
history == <<called, win_id, ran>>
vars == <<plan, tasks, current, next_id, lock, pc, regs, intr, owner, flag, ret, from,
          mouseq, composite, called, win_id, ran>>

Id == 0 .. MaxTasks

\* What a switched-out stack holds; rsp is the only pointer to it.
Frame == [regs : Reg, resume : {"entry", "return"}, ret : {"hlt", "body"},
          flag : BOOLEAN, owner : Id]

Task == [id : Id, state : {"Ready", "Running", "Sleeping"},
         window_id : Window \cup {NoWindow}, context : Frame]

Init ==
  /\ plan \in Plans
  /\ tasks = <<>>
  /\ current = 1
  /\ next_id = 0
  /\ lock = FALSE
  /\ pc = "boot"
  /\ regs \in Reg
  /\ intr = TRUE          \* kernel_main enables interrupts before task::init
  /\ owner = 0
  /\ flag = FALSE
  /\ ret = "hlt"
  /\ from = 1
  /\ mouseq = 0
  /\ composite = FALSE    \* kernel_main composites before it spawns
  /\ called = [i \in Id |-> ZeroReg]
  /\ win_id = [i \in Id |-> NoWindow]
  /\ ran = FALSE
-----------------------------------------------------------------------------
(***************************************************************************)
(* kernel_main: spawn builds a stack that looks as if the task had been    *)
(* switched out at its entry point; run makes kernel_main's own stack the  *)
(* idle task and puts it in front of the table.                            *)
(***************************************************************************)
FreshFrame(id) ==
  [regs |-> ZeroReg, resume |-> "entry", ret |-> "body", flag |-> FALSE, owner |-> id]

spawn ==
  /\ pc = "boot"
  /\ next_id < Len(plan)
  /\ tasks' = Append(tasks, [id |-> next_id, state |-> "Ready",
                             window_id |-> plan[next_id + 1],
                             context |-> FreshFrame(next_id)])
  /\ next_id' = next_id + 1
  /\ UNCHANGED <<plan, current, lock, pc, cpu, screen, history>>

run ==
  /\ pc = "boot"
  /\ next_id = Len(plan)
  /\ tasks' = <<[id |-> next_id, state |-> "Running", window_id |-> NoWindow,
                 context |-> FreshFrame(next_id)]>> \o tasks
  /\ current' = 1
  /\ next_id' = next_id + 1
  /\ owner' = next_id
  /\ pc' = "mouse"
  /\ UNCHANGED <<plan, lock, regs, intr, flag, ret, from, screen, history>>

(***************************************************************************)
(* The idle loop.  handle_mouse composites before it returns if it or a    *)
(* task has asked for it.                                                  *)
(***************************************************************************)
\* Mutant: a request for a composite is not honoured.
composite_Missing == UNCHANGED composite
composite_if_needed == composite' = FALSE

HandleMouse ==
  /\ pc = "mouse"
  /\ mouseq > 0
  /\ mouseq' = mouseq - 1
  /\ composite_if_needed
  /\ UNCHANGED <<boot, table, lock, pc, cpu, history>>

Composite ==
  /\ pc = "mouse"
  /\ mouseq = 0
  /\ composite_if_needed
  /\ regs' \in Reg
  /\ ret' = "hlt"
  /\ pc' = "yield"
  /\ ran' = FALSE
  /\ UNCHANGED <<boot, table, lock, intr, owner, flag, from, mouseq, called, win_id>>

Hlt ==
  /\ pc = "hlt"
  /\ pc' = "asleep"
  /\ UNCHANGED <<boot, table, lock, cpu, screen, history>>

(***************************************************************************)
(* The three task_main functions: ask for the window once, then draw or    *)
(* not and yield, for ever.  The halt command of the shell stops the CPU   *)
(* in a loop of its own.                                                   *)
(***************************************************************************)
\* Mutant: the task's id is used as its index in the table.
WindowOfId == tasks[owner + 1].window_id
current_window_id == tasks[current].window_id

TaskEntry ==
  /\ pc = "entry"
  /\ ~lock
  /\ win_id' = [win_id EXCEPT ![owner] = current_window_id]
  /\ composite' = TRUE
  /\ pc' = "body"
  /\ UNCHANGED <<boot, table, lock, cpu, mouseq, called, ran>>

TaskBody ==
  /\ pc = "body"
  /\ regs' \in Reg
  /\ composite' \in {composite, TRUE}
  /\ ret' = "body"
  /\ pc' = "yield"
  /\ UNCHANGED <<boot, table, lock, intr, owner, flag, from, mouseq, history>>

cmd_halt ==
  /\ pc = "body"
  /\ win_id[owner] = ShellWindow
  /\ pc' = "dead"
  /\ UNCHANGED <<boot, table, lock, cpu, screen, history>>

\* Interrupts are off here, so the hlt of the halt command never ends.
HaltLoop ==
  /\ pc = "dead"
  /\ UNCHANGED vars

(***************************************************************************)
(* yield_now.  without_interrupts remembers the interrupt flag on the      *)
(* caller's stack; the mutex is released before the stacks are swapped.    *)
(***************************************************************************)
Runnable(i) == tasks[i].state \in {"Ready", "Running"}

\* Mutant: the scan starts at the front of the table every time.
SkippedFromFront(j) == (1 .. (j - 1)) \ {current}

\* The scan from current + 1: j is runnable and no index passed on the way is.
Skipped(j) ==
  IF current < j THEN (current + 1) .. (j - 1)
                 ELSE ((current + 1) .. Len(tasks)) \cup (1 .. (j - 1))

NextReady(j) ==
  /\ j # current
  /\ Runnable(j)
  /\ \A i \in Skipped(j) : ~Runnable(i)

YieldLock ==
  /\ pc = "yield"
  /\ ~lock
  /\ flag' = intr
  /\ intr' = FALSE
  /\ lock' = TRUE
  /\ pc' = "locked"
  /\ called' = [called EXCEPT ![owner] = regs]
  /\ UNCHANGED <<boot, table, regs, owner, ret, from, screen, win_id, ran>>

YieldNone ==
  /\ pc = "locked"
  /\ \A j \in 1 .. Len(tasks) : ~NextReady(j)
  /\ lock' = FALSE
  /\ pc' = "return"
  /\ UNCHANGED <<boot, table, cpu, screen, history>>

\* Mutant: the task that yields stays marked Running.
KeepsRunning(j) == [tasks EXCEPT ![j].state = "Running"]
Handover(j) == [tasks EXCEPT ![current].state = "Ready", ![j].state = "Running"]

YieldPick ==
  /\ pc = "locked"
  /\ \E j \in 1 .. Len(tasks) :
       /\ NextReady(j)
       /\ tasks' = Handover(j)
       /\ current' = j
  /\ from' = current
  /\ lock' = FALSE
  /\ pc' = "switch"
  /\ UNCHANGED <<boot, regs, intr, owner, flag, ret, screen, history>>

\* Mutant: the callee-saved registers are not pushed.
NotPushed == [regs |-> ZeroReg, resume |-> "return", ret |-> ret, flag |-> flag, owner |-> owner]
Pushed == [regs |-> regs, resume |-> "return", ret |-> ret, flag |-> flag, owner |-> owner]

switch_context ==
  /\ pc = "switch"
  /\ tasks' = [tasks EXCEPT ![from].context = Pushed]
  /\ LET new == tasks[current].context IN
       /\ regs' = new.regs
       /\ pc' = new.resume
       /\ ret' = new.ret
       /\ flag' = new.flag
       /\ owner' = new.owner
  /\ ran' = TRUE
  /\ UNCHANGED <<boot, current, lock, intr, from, screen, called, win_id>>

\* Mutant: interrupts are enabled, whatever they were before.
AlwaysOn == TRUE
RestoredFlag == intr \/ flag

YieldReturn ==
  /\ pc = "return"
  /\ intr' = RestoredFlag
  /\ pc' = ret
  /\ UNCHANGED <<boot, table, lock, regs, owner, flag, ret, from, screen, history>>

(***************************************************************************)
(* Interrupts are taken where the flag is set, between any two steps, and  *)
(* end the sleep of the idle task.  A mouse packet is dropped if the queue *)
(* is full.                                                                *)
(***************************************************************************)
Wake == pc' = IF pc = "asleep" THEN "mouse" ELSE pc

TimerIrq ==
  /\ intr
  /\ Wake
  /\ UNCHANGED <<boot, table, lock, cpu, screen, history>>

MouseIrq ==
  /\ intr
  /\ Wake
  /\ mouseq' = IF mouseq < MouseCap THEN mouseq + 1 ELSE mouseq
  /\ UNCHANGED <<boot, table, lock, cpu, composite, history>>

CpuStep ==
  \/ spawn \/ run
  \/ HandleMouse \/ Composite \/ Hlt
  \/ TaskEntry \/ TaskBody \/ cmd_halt \/ HaltLoop
  \/ YieldLock \/ YieldNone \/ YieldPick \/ switch_context \/ YieldReturn

Next == CpuStep \/ TimerIrq \/ MouseIrq

Spec == Init /\ [][Next]_vars

\* The CPU executes as long as it can and the timer keeps ticking; nothing is
\* assumed of the mouse.
FairSpec == Spec /\ WF_vars(CpuStep) /\ WF_vars(TimerIrq)
-----------------------------------------------------------------------------
TypeOK ==
  /\ plan \in Seq(Window)
  /\ tasks \in Seq(Task)
  /\ current \in Nat \ {0}
  /\ next_id \in 0 .. MaxTasks + 1
  /\ lock \in BOOLEAN
  /\ pc \in {"boot", "mouse", "hlt", "asleep", "entry", "body", "dead",
             "yield", "locked", "switch", "return"}
  /\ regs \in Reg
  /\ intr \in BOOLEAN
  /\ owner \in Id
  /\ flag \in BOOLEAN
  /\ ret \in {"hlt", "body"}
  /\ from \in Nat \ {0}
  /\ mouseq \in 0 .. MouseCap
  /\ composite \in BOOLEAN
  /\ called \in [Id -> Reg]
  /\ win_id \in [Id -> Window \cup {NoWindow}]
  /\ ran \in BOOLEAN

Booted == pc # "boot"
Idle == Len(plan)                    \* the id run gives itself
SwitchedOut(i) == i # (IF pc = "switch" THEN from ELSE current)

(***************************************************************************)
(* Scheduler::current names the task that executes: the stack the CPU runs *)
(* on is that of tasks[current] (of tasks[old_idx] for the moment between  *)
(* the choice and the swap in yield_now), and exactly that task is marked  *)
(* Running.                                                                *)
(***************************************************************************)
CurrentRuns ==
  Booted =>
    /\ current \in 1 .. Len(tasks)
    /\ \A i \in 1 .. Len(tasks) : tasks[i].state = (IF i = current THEN "Running" ELSE "Ready")
    /\ from \in 1 .. Len(tasks)
    /\ tasks[IF pc = "switch" THEN from ELSE current].id = owner

(***************************************************************************)
(* Only the idle task ever executes with interrupts enabled: a spawned     *)
(* task starts inside the without_interrupts of whoever switched to it,    *)
(* and its own yields restore the disabled flag they found.                *)
(***************************************************************************)
OnlyIdleInterruptible == Booted /\ intr => owner = Idle

(***************************************************************************)
(* The idle task never executes hlt with interrupts disabled, which no     *)
(* interrupt would end (the hlt after yield_now in run).                   *)
(***************************************************************************)
SleepInterruptible == pc \in {"mouse", "hlt", "asleep"} => intr

(***************************************************************************)
(* A task that returns from yield_now finds its callee-saved registers as  *)
(* it left them, however many tasks ran in between (switch_context).       *)
(***************************************************************************)
ContextPreserved == pc = "return" => regs = called[owner]

(***************************************************************************)
(* current_window_id gives each task the window it was spawned for, also   *)
(* after run has shifted the table by one.                                 *)
(***************************************************************************)
OwnWindow ==
  \A id \in Id : win_id[id] # NoWindow => id < Len(plan) /\ win_id[id] = plan[id + 1]

(***************************************************************************)
(* The SCHEDULER mutex is held only inside the critical section of         *)
(* yield_now: no stack swap happens under it, so no task meets it locked.  *)
(***************************************************************************)
LockReleased == lock <=> pc = "locked"

(***************************************************************************)
(* What the stacks of the switched-out tasks hold.                         *)
(***************************************************************************)
SavedFrames ==
  Booted =>
    \A i \in 1 .. Len(tasks) : SwitchedOut(i) =>
      LET c == tasks[i].context IN
        /\ c.owner = tasks[i].id
        /\ c.flag = (c.owner = Idle)
        /\ c.ret = (IF c.owner = Idle THEN "hlt" ELSE "body")
        /\ c.resume = "return" => c.regs = called[c.owner]
        /\ c.owner = Idle => c.resume = "return"

(***************************************************************************)
(* Where each kind of task can be, and the flag its yield found.           *)
(***************************************************************************)
Placement ==
  /\ pc = "boot" => intr /\ from = 1
  /\ pc \in {"mouse", "hlt", "asleep"} => owner = Idle
  /\ pc \in {"entry", "body", "dead"} => owner # Idle /\ ~intr
  /\ pc \in {"yield", "locked", "switch", "return"} =>
       ret = (IF owner = Idle THEN "hlt" ELSE "body")
  /\ pc = "yield" => intr = (owner = Idle)
  /\ pc \in {"locked", "switch", "return"} => ~intr /\ flag = (owner = Idle)
  /\ pc \in {"locked", "switch"} => called[owner] = regs
  /\ pc = "switch" => from # current

\* The table as kernel_main builds it.
TableLayout ==
  /\ plan \in Plans
  /\ pc = "boot" =>
       /\ next_id <= Len(plan)
       /\ Len(tasks) = next_id
       /\ \A i \in 1 .. Len(tasks) :
            /\ tasks[i].id = i - 1
            /\ tasks[i].window_id = plan[i]
            /\ tasks[i].state = "Ready"
            /\ tasks[i].context = FreshFrame(i - 1)
  /\ Booted =>
       /\ Len(tasks) = Len(plan) + 1
       /\ tasks[1].id = Idle
       /\ \A i \in 2 .. Len(tasks) : tasks[i].id = i - 2 /\ tasks[i].window_id = plan[i - 1]

SchedulerInv ==
  /\ TypeOK
  /\ TableLayout
  /\ CurrentRuns
  /\ SleepInterruptible
  /\ ContextPreserved
  /\ OwnWindow
  /\ LockReleased
  /\ SavedFrames
  /\ Placement

(***************************************************************************)
(* No task starves: unless the shell has halted the CPU, or the mouse      *)
(* sends faster than the while loop of run consumes, every task, the idle  *)
(* task included, executes again and again.                                *)
(***************************************************************************)
NoStarvation ==
  \/ <>(pc = "dead")
  \/ <>[](pc = "mouse")
  \/ \A id \in Id : []<>(id < next_id => owner = id)

(***************************************************************************)
(* What a task has drawn reaches the screen: a request for a composite is  *)
(* honoured by the idle loop or by handle_mouse, however many mouse events *)
(* arrive, unless the shell halts the CPU first.                           *)
(***************************************************************************)
DrawnIsShown == composite ~> (~composite \/ pc = "dead")

(***************************************************************************)
(* "If no tasks ran, halt until next interrupt": the comment at the hlt of *)
(* run says the idle task sleeps only after a pass in which no task ran.   *)
(***************************************************************************)
HaltsOnlyIfNoTaskRan == pc = "asleep" => ~ran
=============================================================================
