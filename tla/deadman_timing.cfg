SPECIFICATION HFairSpec
CONSTANTS
  TaskPeriod = 2
  SpdPeriod = 2
  AlivePeriod = 2
  AckTimeout = 5
  BeepPeriod = 3
  DoubleTap = 5
  StableSamples = 1
  Diag = FALSE
  DiagPeriod = 1
  TickMod = 8
  TxLength = 1
  Speeds <- MCOneSpeed
  Inputs <- MCFewInputs
INVARIANTS
  NeverSilent
  NoStrayTone
PROPERTIES
  RetryCadence
  DoubleTapToggles
  AlarmBeeps
  ImplementsNotice
