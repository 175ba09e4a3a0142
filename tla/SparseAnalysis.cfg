SPECIFICATION Spec
CONSTANT Evaluations <- MCEvaluations
INVARIANTS
  NonzerosConserved
  EachReadSavedOnce
  EffectualComputesKept
  ProbabilityIsCounted
CHECK_DEADLOCK FALSE
