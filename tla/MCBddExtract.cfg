SPECIFICATION FairSpec
CONSTANTS
  N = 3
  Roots <- AllRoots
INVARIANTS LookupFinds MemoClosed EsopIsMinimal
PROPERTIES ImplementsPsdkro ExtractEnds
CHECK_DEADLOCK FALSE
