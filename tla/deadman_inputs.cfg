SPECIFICATION HSpec
CONSTANTS
  TaskPeriod = 1
  SpdPeriod = 1
  AlivePeriod = 1
  AckTimeout = 1
  BeepPeriod = 1
  DoubleTap = 0
  StableSamples = 3
  Diag = TRUE
  DiagPeriod = 2
  TickMod = 2
  TxLength = 1
  Speeds <- MCOneSpeed
  Inputs <- MCAllInputs
INVARIANTS
  TypeOK
  FilterCounts
  LossStops
  OperatorOperates
  EmergencyHasCause
PROPERTIES
  ChangeOnlyForCause
