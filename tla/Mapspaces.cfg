SPECIFICATION Spec
CONSTANTS
  NumDims = 3
  Configs <- MCConfigs
  FilterFanout = TRUE
  Sizes <- MCSizes
  SplitCounts <- MCSplitCounts
INVARIANTS
  SplitsDisjoint
  SplitsCover
  SplitsKept
  LoopsCoverBound
  PruningLosesNothing
  UserConstraintsKept
