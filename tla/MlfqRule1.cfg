CONSTANTS
  Cpus = {c1}
  NPROC = 2
  NPRIO = 3
SPECIFICATION Spec
PROPERTY Rule1
