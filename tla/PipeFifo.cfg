CONSTANTS
  Dirs <- MCDirs
  Root = "r"
  Files <- MCFiles
  parentDir <- MCParentDir
  fileDir <- MCFileDir
  matches <- MCMatches
  MayFail = {"opendir", "pipe", "fork", "fopen"}
  Capacity = 1
  NoResult = NoResult
SPECIFICATION FairSpec
CHECK_DEADLOCK FALSE
INVARIANTS TypeOK NoTotalLost ReturnsTotal LinesExact FifoRemoved
PROPERTIES Terminates
