SPECIFICATION GFairSpec
CONSTANTS
  N = 3
  Roots <- SymmetricRoots
INVARIANTS MintermLedger EsopRealisesRoot TrailMatchesStack NoCubeTwice
PROPERTY WalkEnds
CHECK_DEADLOCK FALSE
