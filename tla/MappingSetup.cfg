CONSTANTS
  Meshes <- MCMeshes
  NumDims = 2
  Bound <- MCBound
  DataSpaces = {"A", "B"}
  ConstraintInputs <- MCConstraintInputs
  MappingInputs <- MCMappingInputs
  MaxConstraints = 2
  MaxDirectives = 3

SPECIFICATION Spec

INVARIANTS
  NothingOverwritten
  AcceptedKeepsFactors
  NestCoversBounds
  PrintedReadsBack

CHECK_DEADLOCK FALSE
