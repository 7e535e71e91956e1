CONSTANTS
  MAX_SIZE_MATRIX = 2
  Numbers = {0, 1}
  Garbage = Garbage
SPECIFICATION Spec
CHECK_DEADLOCK FALSE
INVARIANT ErrorIsNorm
