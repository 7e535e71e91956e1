CONSTANTS
  Clients = {c1, c2}
  Methods = {1, 2, 3}
  Sizes = {3}
  MaxSignals = 0
  None = None
  Garbage = Garbage
SPECIFICATION Spec
CHECK_DEADLOCK FALSE
INVARIANTS
  UniqueSegment
