SPECIFICATION FairFactorySpec
CONSTANTS
  IFSize = 3
  LPSize <- MCLPSize
  SSize <- MCSSize
  DBSize = 2
  MaxPermutationsPerVisit = 2
  FullSize <- MCFullSize
  Points = {p1, p2}
INVARIANTS
  WalkComplete
PROPERTIES
  WalksAsLinear
  FilteredSearchEnds
