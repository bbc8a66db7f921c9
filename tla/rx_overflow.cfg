SPECIFICATION FairSpec
CONSTANTS
  IsrLength = 1
  ParserLength = 1
  AppLength = 1
  TxLength = 1
  ActuatorLength = 1
  Requests <- MCOneRequest
  ReadOrders <- MCReadOrders
  MaxFrames = 6
  MaxBurst = 1
INVARIANTS
  PipeTypeOK
  EveryByteAccounted
  LossCostsOneRequest
  ReportAddsUp
PROPERTIES
  DropOnlyWhenChoked
  Drains
