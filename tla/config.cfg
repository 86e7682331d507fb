SPECIFICATION Spec
CONSTANTS
  Stems <- MCStems
  MaxThreads = 3
  Inputs <- MCInputs
INVARIANTS
  MatchesReference
  DistinctNames
