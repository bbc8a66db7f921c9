SPECIFICATION LFairSpec
CONSTANTS
  TaskPeriod = 1
  SpdPeriod = 2
  AlivePeriod = 3
  AckTimeout = 2
  BeepPeriod = 1
  DoubleTap = 0
  StableSamples = 1
  Diag = FALSE
  DiagPeriod = 1
  TickMod = 1
  TxLength = 4
  Speeds <- MCSpeeds
  Inputs <- MCInputs
  MaxCommands = 1
  MaxFaults = 0
  Backlog = 2
  QuietReengage = FALSE
INVARIANTS
  StopNeverForgotten
PROPERTIES
  StopReachesRobot
  StopIsSettled
