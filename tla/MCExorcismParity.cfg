SPECIFICATION Spec
CONSTANTS
  N = 6
  Outs = {1}
  Arguments <- MCArguments
  nCubesMax = 20000
  AdditionalCubes = 33
  CubePairFactor = 20
  LastID = 255
INVARIANT RoomForPairs
