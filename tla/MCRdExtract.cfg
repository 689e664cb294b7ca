SPECIFICATION FairSpec
CONSTANTS
  N = 5
  Levels = {0, 1, 2}
  Bounds = {1, 3, 5}
  Roots <- SomeRoots
INVARIANTS TypeOK OnlyConstantsDefaulted RefineFindsEntry FullBoundIsExact CostCoversCubes
PROPERTIES ImplementsPsdkro ExtractEnds CostsNeverRise RefineReachesChildren
