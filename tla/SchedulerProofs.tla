-------------------------- MODULE SchedulerProofs --------------------------
(***************************************************************************)
(* Proofs about the scheduler, for any number of tasks, any registers and  *)
(* any depth of the mouse queue.                                           *)
(***************************************************************************)
EXTENDS Scheduler, SequenceTheorems, TLAPS

\* The scheduler as task::init leaves it satisfies the invariant.
LEMMA SchedulerInit == Init => SchedulerInv
  <1> SUFFICES ASSUME Init PROVE SchedulerInv
    OBVIOUS
  <1> USE RegAssumption, WindowAssumption, PlanAssumption, MouseCapAssumption
  <1>1. TypeOK
    BY DEF Init, TypeOK, Id
  <1>2. TableLayout /\ CurrentRuns /\ SavedFrames /\ SleepInterruptible /\ ContextPreserved /\ LockReleased /\ Placement
    BY DEF Init, TableLayout, CurrentRuns, SavedFrames, Booted, SleepInterruptible, ContextPreserved, LockReleased, Placement
  <1>3. OwnWindow
    BY DEF Init, OwnWindow
  <1> QED
    BY <1>1, <1>2, <1>3 DEF SchedulerInv

(***************************************************************************)
(* Most steps leave the task table and the identity of the running stack   *)
(* alone.                                                                  *)
(***************************************************************************)
LEMMA TableKept ==
  ASSUME SchedulerInv, pc \notin {"boot", "switch"}, pc' \notin {"boot", "switch"},
         UNCHANGED <<plan, tasks, current, from, owner>>
  PROVE  TableLayout' /\ CurrentRuns' /\ (called' = called => SavedFrames')
  BY DEF SchedulerInv, TableLayout, CurrentRuns, SavedFrames, SwitchedOut, Booted, Idle

(***************************************************************************)
(* Once run has put the idle task in front, no two tasks of the table have *)
(* the same id.                                                            *)
(***************************************************************************)
LEMMA DistinctIds ==
  ASSUME TableLayout, Booted
  PROVE  \A i, j \in 1 .. Len(tasks) : tasks[i].id = tasks[j].id => i = j
<1> SUFFICES ASSUME NEW i \in 1 .. Len(tasks), NEW j \in 1 .. Len(tasks), i # j
             PROVE  tasks[i].id # tasks[j].id
  OBVIOUS
<1>1. plan \in Seq(Window)
  BY PlanAssumption DEF TableLayout
<1>2. Len(plan) \in Nat /\ Len(tasks) = Len(plan) + 1
  BY <1>1 DEF TableLayout
<1>3. /\ tasks[1].id = Len(plan)
      /\ \A k \in 2 .. Len(tasks) : tasks[k].id = k - 2
  BY DEF TableLayout, Idle
<1>4. CASE i = 1
  BY <1>2, <1>3, <1>4
<1>5. CASE j = 1
  BY <1>2, <1>3, <1>5
<1>6. CASE i # 1 /\ j # 1
  <2>1. i \in 2 .. Len(tasks) /\ j \in 2 .. Len(tasks)
    BY <1>2, <1>6
  <2> QED
    BY <1>2, <1>3, <2>1
<1> QED
  BY <1>4, <1>5, <1>6

(***************************************************************************)
(* Every action of the scheduler, the tasks and the interrupt handlers     *)
(* preserves the invariant.                                                *)
(***************************************************************************)
LEMMA SchedulerStep == SchedulerInv /\ [Next]_vars => SchedulerInv'
  <1> SUFFICES ASSUME SchedulerInv, [Next]_vars PROVE SchedulerInv'
    OBVIOUS
  <1> USE RegAssumption, WindowAssumption, PlanAssumption, MouseCapAssumption
  <1>1. CASE spawn
    <2> USE <1>1 DEF spawn, cpu, screen, history, SchedulerInv
    <2>1. TypeOK'
      BY DEF TypeOK, Task, Frame, FreshFrame, Id, TableLayout
    <2>2. TableLayout'
      <3> DEFINE t == [id |-> next_id, state |-> "Ready", window_id |-> plan[next_id + 1],
                       context |-> FreshFrame(next_id)]
      <3>1. Len(tasks) = next_id /\ next_id \in Nat
        BY DEF TypeOK, TableLayout
      <3>2. tasks' = Append(tasks, t)
        OBVIOUS
      <3> HIDE DEF t
      <3>3. /\ Len(tasks') = next_id + 1
            /\ tasks'[next_id + 1] = t
            /\ \A i \in 1 .. next_id : tasks'[i] = tasks[i]
        BY <3>1, <3>2 DEF TypeOK
      <3>4. \A i \in 1 .. Len(tasks') : i = next_id + 1 \/ i \in 1 .. next_id
        BY <3>1, <3>3
      <3>5. /\ t.id = next_id /\ t.window_id = plan[next_id + 1]
            /\ t.state = "Ready" /\ t.context = FreshFrame(next_id)
        BY DEF t
      <3>6. next_id + 1 - 1 = next_id
        BY <3>1
      <3>7. next_id' <= Len(plan')
        BY <3>1 DEF TypeOK
      <3>8. \A i \in 1 .. Len(tasks') :
              /\ tasks'[i].id = i - 1
              /\ tasks'[i].window_id = plan[i]
              /\ tasks'[i].state = "Ready"
              /\ tasks'[i].context = FreshFrame(i - 1)
        BY <3>1, <3>3, <3>4, <3>5, <3>6 DEF TableLayout
      <3> QED
        BY <3>1, <3>3, <3>7, <3>8 DEF TableLayout, Booted, FreshFrame
    <2>3. CurrentRuns'
      BY DEF TypeOK, CurrentRuns, Booted, TableLayout, NextReady, SavedFrames, SwitchedOut, Placement
    <2>4. SavedFrames'
      BY DEF TypeOK, SavedFrames, Booted, SwitchedOut, Idle, CurrentRuns, TableLayout, Placement, FreshFrame
    <2>5. Placement' /\ SleepInterruptible' /\ ContextPreserved' /\ LockReleased'
      BY DEF TypeOK, Placement, SleepInterruptible, ContextPreserved, LockReleased, Idle, TableLayout, SavedFrames, Booted, SwitchedOut, CurrentRuns
    <2>6. OwnWindow'
      BY DEF OwnWindow
    <2> QED
      BY <2>1, <2>2, <2>3, <2>4, <2>5, <2>6
  <1>2. CASE run
    <2> USE <1>2 DEF run, screen, history, SchedulerInv
    <2>0. /\ Len(tasks') = Len(plan) + 1
          /\ tasks'[1].id = next_id /\ tasks'[1].state = "Running"
          /\ \A i \in 2 .. Len(tasks') :
               /\ tasks'[i].id = i - 2
               /\ tasks'[i].state = "Ready"
               /\ tasks'[i].context = FreshFrame(i - 2)
      <3> DEFINE t == [id |-> next_id, state |-> "Running", window_id |-> NoWindow,
                       context |-> FreshFrame(next_id)]
      <3>1. Len(tasks) = Len(plan) /\ Len(plan) \in Nat
        BY DEF TypeOK, TableLayout
      <3>2. tasks' = <<t>> \o tasks /\ t.id = next_id /\ t.state = "Running"
        OBVIOUS
      <3> HIDE DEF t
      <3>3. /\ Len(tasks') = Len(tasks) + 1
            /\ tasks'[1] = t
            /\ \A i \in 2 .. Len(tasks') : tasks'[i] = tasks[i - 1]
        BY <3>1, <3>2 DEF TypeOK
      <3>4. \A i \in 2 .. Len(tasks') : i - 1 \in 1 .. Len(tasks) /\ i - 1 - 1 = i - 2
        BY <3>1, <3>3
      <3> QED
        BY <3>1, <3>2, <3>3, <3>4 DEF TableLayout
    <2>1. TypeOK'
      BY DEF TypeOK, Task, Frame, FreshFrame, Id, TableLayout
    <2>2. TableLayout'
      BY DEF TypeOK, TableLayout, Booted, Idle, Id, FreshFrame
    <2>3. CurrentRuns'
      <3>1. from \in 1 .. Len(tasks')
        BY <2>0 DEF TypeOK, Placement
      <3> QED
        BY <2>0, <3>1 DEF TypeOK, CurrentRuns, Booted
    <2>4. SavedFrames'
      <3>1. next_id = Len(plan) /\ next_id \in Nat
        BY DEF TypeOK
      <3>2. \A i \in 1 .. Len(tasks') : i # 1 => i \in 2 .. Len(tasks') /\ i - 2 # next_id
        BY <2>0, <3>1
      <3> SUFFICES ASSUME NEW i \in 1 .. Len(tasks'), i # 1
                   PROVE  LET c == tasks'[i].context IN
                            /\ c.owner = tasks'[i].id
                            /\ c.flag = (c.owner = Idle)
                            /\ c.ret = (IF c.owner = Idle THEN "hlt" ELSE "body")
                            /\ c.resume = "return" => c.regs = called[c.owner]
                            /\ c.owner = Idle => c.resume = "return"
        BY DEF SavedFrames, SwitchedOut, Idle
      <3>3. tasks'[i].context = FreshFrame(i - 2) /\ tasks'[i].id = i - 2 /\ i - 2 # Idle
        BY <2>0, <3>1, <3>2 DEF Idle
      <3>4. LET f == FreshFrame(i - 2) IN
              /\ f.owner = i - 2 /\ f.flag = FALSE /\ f.ret = "body" /\ f.resume = "entry"
        BY DEF FreshFrame
      <3> QED
        BY <3>3, <3>4, Zenon
    <2>5. Placement' /\ SleepInterruptible' /\ ContextPreserved' /\ LockReleased'
      BY DEF Placement, SleepInterruptible, ContextPreserved, LockReleased, Idle, TypeOK
    <2>6. OwnWindow'
      BY DEF OwnWindow
    <2> QED
      BY <2>1, <2>2, <2>3, <2>4, <2>5, <2>6
  <1>3. CASE HandleMouse
    <2> USE <1>3 DEF HandleMouse, composite_if_needed, boot, table, cpu, history, SchedulerInv
    <2>1. TypeOK'
      <3>1. mouseq' \in 0 .. MouseCap
        BY DEF TypeOK
      <3> QED
        BY <3>1 DEF TypeOK
    <2>2. TableLayout' /\ CurrentRuns' /\ SavedFrames'
      BY TableKept
    <2>3. Placement' /\ SleepInterruptible' /\ ContextPreserved' /\ LockReleased'
      BY DEF TypeOK, Placement, SleepInterruptible, ContextPreserved, LockReleased, Idle
    <2>4. OwnWindow'
      BY DEF OwnWindow, Idle
    <2> QED
      BY <2>1, <2>2, <2>3, <2>4
  <1>4. CASE Composite
    <2> USE <1>4 DEF Composite, composite_if_needed, boot, table, SchedulerInv
    <2>1. TypeOK'
      BY DEF TypeOK
    <2>2. TableLayout' /\ CurrentRuns' /\ SavedFrames'
      BY TableKept
    <2>3. Placement' /\ SleepInterruptible' /\ ContextPreserved' /\ LockReleased'
      BY DEF TypeOK, Placement, SleepInterruptible, ContextPreserved, LockReleased, Idle
    <2>4. OwnWindow'
      BY DEF OwnWindow, Idle
    <2> QED
      BY <2>1, <2>2, <2>3, <2>4
  <1>5. CASE Hlt
    <2> USE <1>5 DEF Hlt, boot, table, cpu, screen, history, SchedulerInv
    <2>1. TypeOK'
      BY DEF TypeOK
    <2>2. TableLayout' /\ CurrentRuns' /\ SavedFrames'
      BY TableKept
    <2>3. Placement' /\ SleepInterruptible' /\ ContextPreserved' /\ LockReleased'
      BY DEF TypeOK, Placement, SleepInterruptible, ContextPreserved, LockReleased, Idle
    <2>4. OwnWindow'
      BY DEF OwnWindow, Idle
    <2> QED
      BY <2>1, <2>2, <2>3, <2>4
  <1>6. CASE TaskEntry
    <2> USE <1>6 DEF TaskEntry, current_window_id, boot, table, cpu, SchedulerInv
    <2>1. TypeOK'
      <3>1. tasks[current] \in Task
        BY ElementOfSeq DEF TypeOK, CurrentRuns, Booted
      <3>2. tasks[current].window_id \in Window \cup {NoWindow}
        BY <3>1 DEF Task
      <3> QED
        BY <3>2 DEF TypeOK
    <2>2. TableLayout' /\ CurrentRuns' /\ SavedFrames'
      BY TableKept
    <2>3. Placement' /\ SleepInterruptible' /\ ContextPreserved' /\ LockReleased'
      BY DEF TypeOK, Placement, SleepInterruptible, ContextPreserved, LockReleased, Idle
    <2>4. OwnWindow'
      <3>1. owner # Idle /\ tasks[current].id = owner /\ current \in 1 .. Len(tasks)
        BY DEF Placement, CurrentRuns, Booted
      <3>2. current \in 2 .. Len(tasks) /\ Len(plan) \in Nat /\ Len(tasks) = Len(plan) + 1
        BY <3>1 DEF TableLayout, Booted, TypeOK
      <3>3. owner = current - 2 /\ tasks[current].window_id = plan[current - 1]
        BY <3>1, <3>2 DEF TableLayout, Booted
      <3>4. owner < Len(plan) /\ owner + 1 = current - 1
        BY <3>2, <3>3
      <3> QED
        BY <3>3, <3>4 DEF OwnWindow, TypeOK
    <2> QED
      BY <2>1, <2>2, <2>3, <2>4
  <1>7. CASE TaskBody
    <2> USE <1>7 DEF TaskBody, boot, table, history, SchedulerInv
    <2>1. TypeOK'
      BY DEF TypeOK
    <2>2. TableLayout' /\ CurrentRuns' /\ SavedFrames'
      BY TableKept
    <2>3. Placement' /\ SleepInterruptible' /\ ContextPreserved' /\ LockReleased'
      BY DEF TypeOK, Placement, SleepInterruptible, ContextPreserved, LockReleased, Idle
    <2>4. OwnWindow'
      BY DEF OwnWindow, Idle
    <2> QED
      BY <2>1, <2>2, <2>3, <2>4
  <1>8. CASE cmd_halt
    <2> USE <1>8 DEF cmd_halt, boot, table, cpu, screen, history, SchedulerInv
    <2>1. TypeOK'
      BY DEF TypeOK
    <2>2. TableLayout' /\ CurrentRuns' /\ SavedFrames'
      BY TableKept
    <2>3. Placement' /\ SleepInterruptible' /\ ContextPreserved' /\ LockReleased'
      BY DEF TypeOK, Placement, SleepInterruptible, ContextPreserved, LockReleased, Idle
    <2>4. OwnWindow'
      BY DEF OwnWindow, Idle
    <2> QED
      BY <2>1, <2>2, <2>3, <2>4
  <1>9. CASE YieldLock
    <2> USE <1>9 DEF YieldLock, boot, table, screen, SchedulerInv
    <2>1. TypeOK'
      BY DEF TypeOK, Id
    <2>2. TableLayout' /\ CurrentRuns'
      BY TableKept
    <2>3. \A i \in 1 .. Len(tasks) : i # current => tasks[i].id # owner
      <3>1. Booted /\ current \in 1 .. Len(tasks) /\ tasks[current].id = owner
        BY DEF CurrentRuns, Booted
      <3> QED
        BY <3>1, DistinctIds
    <2>4. SavedFrames'
      BY <2>3 DEF TypeOK, SavedFrames, Booted, SwitchedOut, Idle
    <2>5. Placement' /\ SleepInterruptible' /\ ContextPreserved' /\ LockReleased'
      BY DEF TypeOK, Placement, SleepInterruptible, ContextPreserved, LockReleased, Idle
    <2>6. OwnWindow'
      BY DEF OwnWindow, Idle
    <2> QED
      BY <2>1, <2>2, <2>4, <2>5, <2>6
  <1>10. CASE YieldNone
    <2> USE <1>10 DEF YieldNone, boot, table, cpu, screen, history, SchedulerInv
    <2>1. TypeOK'
      BY DEF TypeOK
    <2>2. TableLayout' /\ CurrentRuns' /\ SavedFrames'
      BY TableKept
    <2>3. Placement' /\ SleepInterruptible' /\ ContextPreserved' /\ LockReleased'
      BY DEF TypeOK, Placement, SleepInterruptible, ContextPreserved, LockReleased, Idle
    <2>4. OwnWindow'
      BY DEF OwnWindow, Idle
    <2> QED
      BY <2>1, <2>2, <2>3, <2>4
  <1>11. CASE YieldPick
    <2> USE <1>11 DEF YieldPick, Handover, boot, screen, history, SchedulerInv
    <2>0. PICK j \in 1 .. Len(tasks) :
            /\ NextReady(j)
            /\ tasks' = [tasks EXCEPT ![current].state = "Ready", ![j].state = "Running"]
            /\ current' = j
      OBVIOUS
    <2>a. current \in 1 .. Len(tasks) /\ j # current /\ Booted
      BY <2>0 DEF CurrentRuns, Booted, NextReady
    <2> DEFINE a == [tasks[current] EXCEPT !.state = "Ready"]
               b == [tasks[j] EXCEPT !.state = "Running"]
               mid == [tasks EXCEPT ![current] = a]
    <2>b. /\ tasks \in Seq(Task) /\ tasks[current] \in Task /\ tasks[j] \in Task
          /\ a \in Task /\ b \in Task
          /\ a.id = tasks[current].id /\ a.window_id = tasks[current].window_id
          /\ a.context = tasks[current].context /\ a.state = "Ready"
          /\ b.id = tasks[j].id /\ b.window_id = tasks[j].window_id
          /\ b.context = tasks[j].context /\ b.state = "Running"
      <3>1. tasks \in Seq(Task) /\ tasks[current] \in Task /\ tasks[j] \in Task
        BY <2>a, ElementOfSeq DEF TypeOK
      <3> QED
        BY <3>1 DEF Task
    <2>k. tasks' = [mid EXCEPT ![j] = b]
      BY <2>0, <2>a, <2>b
    <2> HIDE DEF a, b
    <2>l. /\ mid \in Seq(Task) /\ Len(mid) = Len(tasks)
          /\ \A i \in 1 .. Len(tasks) : mid[i] = IF i = current THEN a ELSE tasks[i]
      BY <2>a, <2>b, ExceptSeq
    <2> HIDE DEF mid
    <2>m. /\ tasks' \in Seq(Task) /\ Len(tasks') = Len(tasks)
          /\ \A i \in 1 .. Len(tasks) : tasks'[i] = IF i = j THEN b ELSE mid[i]
      <3>1. j \in 1 .. Len(mid)
        BY <2>l
      <3>2. mid \in Seq(Task) /\ b \in Task
        BY <2>b, <2>l
      <3> DEFINE fin == [mid EXCEPT ![j] = b]
      <3>3. /\ fin \in Seq(Task) /\ Len(fin) = Len(mid)
            /\ \A i \in 1 .. Len(mid) : fin[i] = IF i = j THEN b ELSE mid[i]
        BY <3>1, <3>2, ExceptSeq
      <3> QED
        BY <2>k, <2>l, <3>3
    <2>c. \A i \in 1 .. Len(tasks) :
            /\ tasks'[i].id = tasks[i].id
            /\ tasks'[i].window_id = tasks[i].window_id
            /\ tasks'[i].context = tasks[i].context
            /\ tasks'[i].state = (IF i = j THEN "Running" ELSE
                                   IF i = current THEN "Ready" ELSE tasks[i].state)
      BY <2>a, <2>b, <2>l, <2>m
    <2> HIDE <1>11
    <2>d. /\ from' = current /\ lock' = FALSE /\ pc = "locked" /\ pc' = "switch"
          /\ UNCHANGED <<plan, next_id, regs, intr, owner, flag, ret, mouseq, composite, called, win_id, ran>>
      BY <1>11
    <2>1. TypeOK'
      <3>1. current' \in Nat \ {0} /\ from' \in Nat \ {0}
        BY <2>0, <2>d DEF TypeOK
      <3> QED
        BY <2>m, <2>d, <3>1 DEF TypeOK
    <2>2. TableLayout'
      BY <2>a, <2>m, <2>c, <2>d DEF TypeOK, TableLayout, Booted, Idle
    <2>3. CurrentRuns'
      BY <2>0, <2>a, <2>m, <2>c, <2>d DEF CurrentRuns, Booted
    <2>4. SavedFrames'
      BY <2>0, <2>a, <2>m, <2>c, <2>d DEF SavedFrames, SwitchedOut, Booted, Idle
    <2>5. Placement' /\ SleepInterruptible' /\ ContextPreserved' /\ LockReleased'
      BY <2>0, <2>a, <2>d DEF Placement, SleepInterruptible, ContextPreserved, LockReleased, Idle
    <2>6. OwnWindow'
      BY <2>d DEF OwnWindow
    <2> QED
      BY <2>1, <2>2, <2>3, <2>4, <2>5, <2>6
  <1>12. CASE switch_context
    <2> USE <1>12 DEF switch_context, Pushed, boot, screen, SchedulerInv
    <2> DEFINE new == tasks[current].context
               old == [regs |-> regs, resume |-> "return", ret |-> ret, flag |-> flag,
                       owner |-> owner]
    <2>a. /\ current \in 1 .. Len(tasks) /\ from \in 1 .. Len(tasks) /\ from # current
          /\ Booted /\ tasks[from].id = owner
      BY DEF CurrentRuns, Booted, Placement
    <2>b. new \in Frame /\ old \in Frame
      <3>1. tasks[current] \in Task
        BY <2>a, ElementOfSeq DEF TypeOK
      <3> QED
        BY <3>1 DEF TypeOK, Task, Frame
    <2>c. tasks' = [tasks EXCEPT ![from].context = old]
      OBVIOUS
    <2>d. /\ regs' = new.regs /\ pc' = new.resume /\ ret' = new.ret
          /\ flag' = new.flag /\ owner' = new.owner /\ ran' = TRUE /\ pc = "switch"
          /\ UNCHANGED <<plan, next_id, current, lock, intr, from, mouseq, composite, called, win_id>>
      OBVIOUS
    <2>e. /\ old.owner = owner /\ old.flag = flag /\ old.ret = ret
          /\ old.resume = "return" /\ old.regs = regs
      OBVIOUS
    <2> HIDE <1>12 DEF old
    <2> DEFINE upd == [tasks[from] EXCEPT !.context = old]
    <2>k. /\ tasks \in Seq(Task) /\ upd \in Task
          /\ upd.id = tasks[from].id /\ upd.window_id = tasks[from].window_id
          /\ upd.state = tasks[from].state /\ upd.context = old
      <3>1. tasks \in Seq(Task) /\ tasks[from] \in Task
        BY <2>a, ElementOfSeq DEF TypeOK
      <3> QED
        BY <2>b, <3>1 DEF Task
    <2>l. tasks' = [tasks EXCEPT ![from] = upd]
      BY <2>a, <2>c, <2>k
    <2> HIDE DEF upd
    <2>f. /\ tasks' \in Seq(Task) /\ Len(tasks') = Len(tasks)
          /\ \A i \in 1 .. Len(tasks) : tasks'[i] = IF i = from THEN upd ELSE tasks[i]
      BY <2>a, <2>k, <2>l, ExceptSeq
    <2>g. \A i \in 1 .. Len(tasks) :
            /\ tasks'[i].id = tasks[i].id
            /\ tasks'[i].window_id = tasks[i].window_id
            /\ tasks'[i].state = tasks[i].state
            /\ tasks'[i].context = IF i = from THEN old ELSE tasks[i].context
      BY <2>k, <2>f
    <2>h. /\ new.owner = tasks[current].id
          /\ new.flag = (new.owner = Idle)
          /\ new.ret = (IF new.owner = Idle THEN "hlt" ELSE "body")
          /\ new.resume = "return" => new.regs = called[new.owner]
          /\ new.owner = Idle => new.resume = "return"
          /\ new.resume \in {"entry", "return"}
      BY <2>a, <2>b, <2>d DEF SavedFrames, SwitchedOut, Frame
    <2>i. ~intr /\ flag = (owner = Idle) /\ ret = (IF owner = Idle THEN "hlt" ELSE "body")
          /\ called[owner] = regs
      BY <2>d DEF Placement
    <2>j. Booted' /\ pc' # "switch"
      BY <2>d, <2>h DEF Booted
    <2>1. TypeOK'
      BY <2>b, <2>d, <2>f DEF TypeOK, Frame
    <2> HIDE DEF new
    <2>2. TableLayout'
      <3>1. Len(tasks') = Len(plan) + 1 /\ Len(plan) \in Nat /\ plan' = plan
        BY <2>a, <2>d, <2>f DEF TypeOK, TableLayout
      <3> QED
        BY <2>a, <2>g, <2>j, <2>f, <3>1 DEF TableLayout, Booted, Idle
    <2>3. CurrentRuns'
      BY <2>a, <2>d, <2>f, <2>g, <2>h, <2>j DEF CurrentRuns, Booted
    <2>4. SavedFrames'
      BY <2>a, <2>d, <2>e, <2>f, <2>g, <2>i, <2>j DEF SavedFrames, SwitchedOut, Idle
    <2>5. Placement' /\ SleepInterruptible' /\ ContextPreserved' /\ LockReleased'
      BY <2>a, <2>d, <2>h, <2>i DEF Placement, SleepInterruptible, ContextPreserved, LockReleased, Idle
    <2>6. OwnWindow'
      BY <2>d DEF OwnWindow
    <2> QED
      BY <2>1, <2>2, <2>3, <2>4, <2>5, <2>6
  <1>13. CASE YieldReturn
    <2> USE <1>13 DEF YieldReturn, RestoredFlag, boot, table, screen, history, SchedulerInv
    <2>1. TypeOK'
      BY DEF TypeOK
    <2>2. TableLayout' /\ CurrentRuns' /\ SavedFrames'
      BY TableKept DEF TypeOK
    <2>3. Placement' /\ SleepInterruptible' /\ ContextPreserved' /\ LockReleased'
      BY DEF TypeOK, Placement, SleepInterruptible, ContextPreserved, LockReleased, Idle
    <2>4. OwnWindow'
      BY DEF OwnWindow, Idle
    <2> QED
      BY <2>1, <2>2, <2>3, <2>4
  <1>14. CASE TimerIrq
    <2> USE <1>14 DEF TimerIrq, Wake, boot, table, cpu, screen, history, SchedulerInv
    <2>1. TypeOK'
      BY DEF TypeOK
    <2>2. TableLayout' /\ CurrentRuns' /\ SavedFrames'
      BY DEF TableLayout, CurrentRuns, SavedFrames, Booted, SwitchedOut, Idle
    <2>3. Placement' /\ SleepInterruptible' /\ ContextPreserved' /\ LockReleased'
      BY DEF TypeOK, Placement, SleepInterruptible, ContextPreserved, LockReleased, Idle
    <2>4. OwnWindow'
      BY DEF OwnWindow, Idle
    <2> QED
      BY <2>1, <2>2, <2>3, <2>4
  <1>15. CASE MouseIrq
    <2> USE <1>15 DEF MouseIrq, Wake, boot, table, cpu, history, SchedulerInv
    <2>1. TypeOK'
      BY DEF TypeOK
    <2>2. TableLayout' /\ CurrentRuns' /\ SavedFrames'
      BY DEF TableLayout, CurrentRuns, SavedFrames, Booted, SwitchedOut, Idle
    <2>3. Placement' /\ SleepInterruptible' /\ ContextPreserved' /\ LockReleased'
      BY DEF TypeOK, Placement, SleepInterruptible, ContextPreserved, LockReleased, Idle
    <2>4. OwnWindow'
      BY DEF OwnWindow, Idle
    <2> QED
      BY <2>1, <2>2, <2>3, <2>4
  <1>16. CASE HaltLoop \/ UNCHANGED vars
    <2> UNCHANGED vars
      BY <1>16 DEF HaltLoop
    <2> QED
      BY DEF vars, SchedulerInv, TypeOK, TableLayout, CurrentRuns, SavedFrames, Booted, SleepInterruptible, ContextPreserved, LockReleased, Placement, OwnWindow, Idle, SwitchedOut
  <1> QED
    BY <1>1, <1>2, <1>3, <1>4, <1>5, <1>6, <1>7, <1>8, <1>9, <1>10, <1>11, <1>12, <1>13, <1>14, <1>15, <1>16 DEF Next, CpuStep

(***************************************************************************)
(* The scheduler keeps its invariant for any number of tasks: the task     *)
(* marked Running is the one on whose stack the CPU is, every yield_now    *)
(* returns with the registers it was called with, each task has its own    *)
(* window, and the mutex is never held across a stack swap.  The           *)
(* strengthening needed is what a switched-out stack holds (SavedFrames)   *)
(* and where each kind of task can be (Placement).                         *)
(***************************************************************************)
THEOREM SchedulerInvariant == Spec => []SchedulerInv
  BY SchedulerInit, SchedulerStep, PTL DEF Spec

(***************************************************************************)
(* No spawned task ever executes with interrupts enabled, so an interrupt  *)
(* handler never runs between two steps of a task.                         *)
(***************************************************************************)
THEOREM InterruptsOnlyInIdle == Spec => []OnlyIdleInterruptible
  <1>1. SchedulerInv => OnlyIdleInterruptible
    BY DEF SchedulerInv, OnlyIdleInterruptible, Booted, TypeOK, Placement
  <1> QED
    BY <1>1, SchedulerInvariant, PTL

(***************************************************************************)
(* The hlt of the idle loop can always be ended by an interrupt.           *)
(***************************************************************************)
THEOREM IdleWakes == Spec => []SleepInterruptible
  <1>1. SchedulerInv => SleepInterruptible
    BY DEF SchedulerInv
  <1> QED
    BY <1>1, SchedulerInvariant, PTL

(***************************************************************************)
(* A task returns from yield_now with the callee-saved registers it called *)
(* it with.                                                                *)
(***************************************************************************)
THEOREM RegistersPreserved == Spec => []ContextPreserved
  <1>1. SchedulerInv => ContextPreserved
    BY DEF SchedulerInv
  <1> QED
    BY <1>1, SchedulerInvariant, PTL

(***************************************************************************)
(* Every task draws in the window it was spawned for.                      *)
(***************************************************************************)
THEOREM TasksKeepTheirWindow == Spec => []OwnWindow
  <1>1. SchedulerInv => OwnWindow
    BY DEF SchedulerInv
  <1> QED
    BY <1>1, SchedulerInvariant, PTL
=============================================================================
