CONSTANTS
  Genesis = 1
  MinArguments <- MCMin
  MaxArguments <- MCMax
  Targets = {0, 1, 2}
  MaxL2 = 7
  MaxL1 = 3
  ProbeFaults = TRUE
SPECIFICATION Spec
INVARIANT RangeIsExact PassedRangeIsComplete
PROPERTY CallEnds
