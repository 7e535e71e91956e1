CONSTANTS
  Clients = {c1, c2}
  MayFail = {"fork", "mkfifo", "compute"}
  MaxSignals = 2
  NoClient = NoClient
SPECIFICATION FairSpec
CHECK_DEADLOCK FALSE
INVARIANTS TypeOK ServedAreKnown
PROPERTIES ForkedOnce MatrixArrives ShutsDown
