SPECIFICATION FairSpec
CONSTANTS
  Window = 1
  AdcMax = 4095
  SamplePeriod = 1
  Positions <- MCNearFull
  DemoPeriod = 1
  TxLength = 1
PROPERTIES
  FullScaleReached
