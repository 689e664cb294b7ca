SPECIFICATION Spec
CONSTANTS
  N = 4
  Roots <- FewRoots
  Cares <- FewCares
  Modes = {TRUE}
INVARIANT NaiveEsopAgreesOnCare
