CONSTANTS
  Dirs <- MCTreeDirs
  Root = "r"
  Files <- MCTreeFiles
  parentDir <- MCTreeParentDir
  fileDir <- MCTreeFileDir
  matches <- MCTreeMatches
  MayFail = {"opendir", "fork"}
  StaleSem = {}
  StaleShm = {7}
  MaxSignals = 1
  NoResult = NoResult
SPECIFICATION Spec
CHECK_DEADLOCK FALSE
INVARIANTS
  ReportExact
  NoOrphans
