SPECIFICATION Spec
CONSTANTS
  N = 3
  Roots <- SomeRoots
  CofVarNums = {0, 1, 3}
  Extracted <- SomeExtracted
  GroupSizes = {2, 4}
  Iterations <- SomeIterations
  CubesMax = 3
  NULL = NULL
INVARIANTS DivideLedger GroupsLedger
