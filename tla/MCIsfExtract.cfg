SPECIFICATION FairSpec
CONSTANTS
  N = 4
  Roots <- SomeRoots
  Cares <- SomeCares
  Modes = {TRUE, FALSE}
INVARIANTS TypeOK MemoAgreesOnCare LookupFinds CombinesDifferent EsopAgreesOnCare CostIsCubeCount FullCareIsExact
PROPERTIES ImplementsPsdkro ExtractEnds
