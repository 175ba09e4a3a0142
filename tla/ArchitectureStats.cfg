SPECIFICATION Spec
CONSTANTS
  DataSpaces <- MCDataSpaces
  ReadWrite <- MCReadWrite
  DRAMEnergy <- MCDRAMEnergy
  SRAMEnergy <- MCSRAMEnergy
  SRAMArea <- MCSRAMArea
  AdderEnergy <- MCAdderEnergy
  WireEnergy <- MCWireEnergy
  MultiplierEnergy <- MCMultiplierEnergy
  MultiplierArea <- MCMultiplierArea
  Side <- MCSide
  StorageAttributes <- MCStorage
  ArithmeticAttributes <- MCArithmetic
  UserNetworks <- MCUserNetworks
  EnergyTables <- MCEnergyTables
  MulticastTables <- MCMulticastTables
  AreaTables <- MCAreaTables
  Mappings <- MCMappings
  MaxEvaluations = 2
  Resolution <- MCResolution
INVARIANTS
  EvaluationForgets
  CapacityIsJudged
  CyclesAreEnough
PROPERTY ConfidenceIsFound
CHECK_DEADLOCK FALSE
