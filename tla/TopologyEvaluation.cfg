SPECIFICATION Spec
CONSTANTS
  NumStorageLevels = 2
  Networks = {"reads", "updates", "bus"}
  ReadFill <- MCReadFill
  DrainUpdate <- MCDrainUpdate
  MaxFailures = 2
  MaxEvaluations = 2
INVARIANTS
  VerdictsAgree StatsAreComplete
CHECK_DEADLOCK FALSE
