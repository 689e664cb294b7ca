SPECIFICATION FairSpec
CONSTANTS
  N = 3
  Outs = {1, 2}
  Arguments <- MCArguments
  nCubesMax = 6
  AdditionalCubes = 33
  CubePairFactor = 150
  LastID = 15
INVARIANTS TypeOK CellsAccounted CoverLedger TriedInVain NoClosePairs LiteralsCounted
PROPERTIES ImplementsEsopCover SearchEnds
