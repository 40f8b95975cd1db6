CONSTANTS
  p1 = p1
  p2 = p2
  Procs = {p1, p2}
  NoProc = NoProc
  Inums = {1, 2, 3}
  Blocks = {1, 2, 3, 4}
  PerBlock = 3
  Workloads <- MCWorkloads
  MaxCrashes = 1
  MemSlots = {1, 2}
  Memories = {12, 17}
  PGSIZE = 2
  FAN = 2
  MaxSz = 5
  Images <- MCImages
  Readers <- MCReaders
  Writers <- MCWriters
  Scenes <- MCScenes
  INBUF = 2
  INDEX = 4
  TXBUF = 2
  RXFIFO = 2
SPECIFICATION KSpec
INVARIANTS
  Coherent
  NothingLost
  NeverPanics
  PagesKept
PROPERTIES
  CallsReturn
  ConsoleServes
CHECK_DEADLOCK FALSE
