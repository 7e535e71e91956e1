CONSTANTS
  Dirs <- MCDirs
  Root = "r"
  Files <- MCFiles
  parentDir <- MCParentDir
  fileDir <- MCFileDir
  matches <- MCMatches
  MayFail = {"opendir", "fork", "fopen"}
  NoResult = NoResult
SPECIFICATION FairSpec
CHECK_DEADLOCK FALSE
INVARIANTS
  TypeOK
  LinesExact
PROPERTIES
  Terminates
