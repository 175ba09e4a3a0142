SPECIFICATION Spec
CONSTANTS
  Nests <- MCNests
  Distributions <- MCDistributions
  UpdatedRMW = {FALSE, TRUE}
  Elisions = {TRUE}
  NoCoalesce <- MCNoCoalesce
  FirstUpdates <- MCFirstUpdates
INVARIANTS TileSizesAreExact DeliversWhatIsNew OperationsConserved NetworksAreFed
CHECK_DEADLOCK FALSE
