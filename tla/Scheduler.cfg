CONSTANTS
  w0 = w0
  w1 = w1
  w2 = w2
  Reg = {r0, r1}
  ZeroReg = r0
  Window = {w0, w1, w2}
  NoWindow = NoWindow
  ShellWindow = w0
  MaxTasks = 3
  Plans <- MCPlans
  MouseCap = 2
SPECIFICATION FairSpec
INVARIANTS SchedulerInv OnlyIdleInterruptible ContextPreserved OwnWindow
PROPERTIES NoStarvation DrawnIsShown
