CONSTANTS
  Clients = {c1, c2}
  Methods = {3}
  Sizes = {4, 7}
  MaxSignals = 1
  None = None
  Garbage = Garbage
SPECIFICATION FairSpec
CHECK_DEADLOCK FALSE
INVARIANTS
  TypeOK
  NoStrayProcess
  OwnWhenAlone
PROPERTIES
  EveryClientAnswered
  ShutsDown
