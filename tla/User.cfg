CONSTANTS
  Threads = {parent, child, third}
  NoThread = NoThread
  Sems = {0, 1}
  MaxValue = 6
  Closers = {parent, child}
  Parent = parent
  Child = child
  N = 4
  Pipelines <- MCPipelines
  Message <- MCMessage
  MaxRead = 2
  PIPESIZE = 2
  UINT = 4
  NFILE = 5
  NOFILE = 5
  Pages = {1, 2}
  Sessions <- MCSessions
SPECIFICATION USpec
INVARIANTS
  NoLostUp
  Alternation
  Delivered
  DescriptorsRight
PROPERTIES
  ImplementsSemaphore
  PingPongEnds
  LinesEnd
CHECK_DEADLOCK FALSE
