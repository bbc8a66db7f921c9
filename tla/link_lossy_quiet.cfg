SPECIFICATION LFairSpec
CONSTANTS
  TaskPeriod = 1
  SpdPeriod = 2
  AlivePeriod = 3
  AckTimeout = 2
  BeepPeriod = 1
  DoubleTap = 0
  StableSamples = 1
  Diag = FALSE
  DiagPeriod = 1
  TickMod = 1
  TxLength = 3
  Speeds <- MCSpeeds
  Inputs <- MCInputs
  MaxCommands = 1
  MaxFaults = 2
  Backlog = 2
  QuietReengage = TRUE
INVARIANTS
  LinkTypeOK
  StopNeverForgotten
PROPERTIES
  StopReachesRobot
  PresenceReachesRobot
