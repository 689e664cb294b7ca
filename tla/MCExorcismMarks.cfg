SPECIFICATION Spec
CONSTANTS
  N = 3
  Outs = {1, 2}
  Arguments <- MCArguments
  nCubesMax = 6
  AdditionalCubes = 33
  CubePairFactor = 150
  LastID = 15
INVARIANT MarkedCubesAreFar
