CONSTANTS
  Cpus = {c1, c2}
  NoCpu = NoCpu
  NPROC = 3
SPECIFICATION Spec
INVARIANT OnlyProcessesKilled
