CONSTANTS
  NC = 4
  K = 2
  Files <- MCFiles
  Dirs <- MCDirs
  Data <- MCData
  MaxSize = 3
  MaxLog = 3
SPECIFICATION Spec
PROPERTIES
  EntriesKept
