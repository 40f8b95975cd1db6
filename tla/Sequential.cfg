CONSTANTS
  NC = 4
  K = 2
  Files <- MCFiles
  Dirs <- MCDirs
  Data <- MCData
  MaxSize = 3
  MaxLog = 3
  Keys = {0, 1, 2, 3, 4, 5, 6}
  Nil = Nil
  Dir <- MCDir
  MaxInserts = 8
  Lines <- MCLines
  Login <- MCLogin
  Directories <- MCDirectories
  MaxLines = 2
  MaxTokens = 5
SPECIFICATION SSpec
INVARIANTS
  ChainsApart
  TreeIsImage
  NoLeak
  IndexFindsAll
  AsTyped
  MemorySound
PROPERTIES
  LogKept
CHECK_DEADLOCK FALSE
