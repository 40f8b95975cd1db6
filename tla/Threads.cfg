CONSTANTS
  Cpus = {c1, c2}
  Harts = {c1, c2}
  c1 = c1
  NPROC = 3
  Bound = 2
  NoCpu = NoCpu
  Ticks = tickslock
  ClockCpu = c1
  Procs <- OneProc
  Order <- TheOrder
SPECIFICATION TSpec
INVARIANTS
  BoundedBypass
  LocksExclude
  ThreadsOwnInterrupts
PROPERTIES
  ThreadsGoOn
