SPECIFICATION FairSpec
CONSTANTS
  NumThreads = 2
  SearchSizeSetting = 3
  Timeout = 2
  VictoryCondition = 1
  SyncInterval = 1
  PenalizeBypass = FALSE
  Walk <- MCWalk
  MaxSignals = 2
  Costs <- OneMetric
INVARIANTS
  GlobalBestIsBest
  ResultsIntact
  OneMappingAfterSignal
  TimeoutIsConsecutive
PROPERTIES
  Finishes
