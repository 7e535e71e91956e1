CONSTANTS
  Dirs <- MCDirs
  Root = "r"
  Files <- MCFiles
  parentDir <- MCParentDir
  fileDir <- MCFileDir
  matches <- MCMatches
  MayFail = {"shmat", "opendir", "fork", "fopen"}
  StaleSem = {0, 1}
  StaleShm = {7}
  MaxSignals = 1
  NoResult = NoResult
SPECIFICATION FairSpec
CHECK_DEADLOCK FALSE
INVARIANTS
  TypeOK
  LogMutex
  NoLostUpdate
  LogLines
PROPERTIES
  CountsOnce
  Terminates
