SPECIFICATION FairSpec
CONSTANTS
  IsrLength = 2
  ParserLength = 1
  AppLength = 1
  TxLength = 1
  ActuatorLength = 1
  Requests <- MCRequests
  ReadOrders <- MCReadOrders
  MaxFrames = 4
  MaxBurst = 2
INVARIANTS
  HandledInOrder
  AnsweredOnceInOrder
PROPERTIES
  ImplementsChannel
