SPECIFICATION Spec
CONSTANTS
  N = 4
  Roots <- SomeRoots
  Cares <- SomeCares
  Modes = {FALSE}
INVARIANT EsopRespectsDontCares
