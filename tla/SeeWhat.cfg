CONSTANTS
  Generated <- MCGenerated
  Heap = {0, 3}
  RoundedToZero <- MCRoundedToZero
SPECIFICATION Computation
CHECK_DEADLOCK FALSE
INVARIANTS ComputationTypeOK DeterminantExact InversesExact CrashMeansSingular ConvolutionExact
PROPERTY SameEveryTime
