CONSTANTS
  Cpus = {c1, c2}
  NoCpu = NoCpu
  NPROC = 3
SPECIFICATION HSpec
INVARIANTS
  NoLostExit
  FamilyTree
  SchedLocks
  LockOrder
PROPERTIES
  ImplementsDispatch
  OrphansGo
