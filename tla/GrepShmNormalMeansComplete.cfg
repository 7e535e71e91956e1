CONSTANTS
  Dirs <- MCDirs
  Root = "r"
  Files <- MCFiles
  parentDir <- MCParentDir
  fileDir <- MCFileDir
  matches <- MCMatches
  MayFail = {"opendir", "fork", "fopen"}
  StaleSem = {}
  StaleShm = {0}
  MaxSignals = 0
  NoResult = NoResult
SPECIFICATION Spec
CHECK_DEADLOCK FALSE
INVARIANTS
  NormalMeansComplete
