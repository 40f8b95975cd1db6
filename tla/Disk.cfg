CONSTANTS
  Procs = {p1, p2, p3}
  Boot = p1
  Blocks = {b1, b2}
  Values = {0, 1}
  Zero = 0
  Absent = Absent
  MAXOPBLOCKS = 4
  LOGSIZE = 8
  NLOG = 8
  OpBlocks = 2
  Tasks = {1, 2, 3}
  NoTask = 0
  BlockNos = {1, 2, 3, 4}
  NoBlock = 0
  NBUF = 3
  NUM = 8
  Programs <- MCPrograms
SPECIFICATION DSpec
INVARIANTS
  Admission
  Durable
  LatestData
PROPERTIES
  ImplementsAtomicDisk
  WaitsEnd
CHECK_DEADLOCK FALSE
