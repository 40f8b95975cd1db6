CONSTANTS
  Cpus = {c1, c2}
  NPROC = 2
  NPRIO = 3
  Bound = 9
SPECIFICATION BypassSpec
INVARIANTS
  TypeOK
  Rule3
  BoundedBypass
PROPERTIES
  ImplementsDispatch
  NoStarvation
