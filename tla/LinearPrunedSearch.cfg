SPECIFICATION FairSpec
CONSTANTS
  IFSize = 2
  LPSize <- MCLPSize
  SSize <- MCSSize
  DBSize = 3
INVARIANTS
  NoRevisit
  SkipsJustified
PROPERTIES
  Terminates
  KeepsContract
