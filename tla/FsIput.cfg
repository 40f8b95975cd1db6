CONSTANTS
  p1 = p1
  p2 = p2
  Procs = {p1, p2}
  NoProc = NoProc
  Inums = {1, 2, 3}
  Blocks = {1, 2, 3, 4}
  PerBlock = 3
  Workloads <- MCTwo
  MaxCrashes = 0
SPECIFICATION Spec
INVARIANTS
  LastPutFrees
CHECK_DEADLOCK FALSE
