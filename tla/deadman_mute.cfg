SPECIFICATION HSpec
CONSTANTS
  TaskPeriod = 20
  SpdPeriod = 250
  AlivePeriod = 1000
  AckTimeout = 500
  BeepPeriod = 125
  DoubleTap = 400
  StableSamples = 3
  Diag = FALSE
  DiagPeriod = 1
  TickMod = 1000000
  TxLength = 8
  Speeds <- MCOneSpeed
  Inputs <- MCAllInputs
PROPERTIES
  MuteNeedsDoubleTap
