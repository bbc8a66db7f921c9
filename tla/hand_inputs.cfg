SPECIFICATION FairSpec
CONSTANTS
  Window = 2
  AdcMax = 15
  SamplePeriod = 1
  Positions <- MCPositions
  DemoPeriod = 3
  TxLength = 1
INVARIANTS
  HandTypeOK
  ButtonSettles
  DemoFollows
PROPERTIES
  OnlyRaceSeesBounce
  MeanApproaches
  BrightnessSettles
