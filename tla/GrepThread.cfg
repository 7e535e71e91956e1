CONSTANTS
  Dirs <- MCDirs
  Root = "r"
  Files <- MCFiles
  parentDir <- MCParentDir
  fileDir <- MCFileDir
  matches <- MCMatches
  MayFail = {"opendir", "fork", "fopen"}
  Descriptors = {"bad", "stdin"}
  None = None
SPECIFICATION FairSpec
CHECK_DEADLOCK FALSE
INVARIANTS TypeOK LinesExact
PROPERTY Terminates
