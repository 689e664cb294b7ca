SPECIFICATION Spec
CONSTANTS
  N = 4
  Roots <- SomeRoots
INVARIANTS HalvesXor ProperPartition
