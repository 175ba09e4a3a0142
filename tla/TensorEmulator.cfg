SPECIFICATION FairSpec
CONSTANTS
  Ops <- MCOps
  DataSpaces = {"I", "O"}
  Output = "O"
  Projection <- MCProjection
  Units <- MCUnits
  Depth = 3
  Mappings <- MCMappings
INVARIANTS OneWritableCopy
PROPERTIES RunsAsReference SavesResult
