SPECIFICATION LineSpec
CONSTANTS
  MaxPayload = 8
  MaxFrameSize = 24
  Messages <- MCMessages
  NoiseBytes <- MCNoise
  MaxFrames = 3
  MaxFaults = 2
INVARIANTS
  ParserTypeOK
  FieldsInStep
  NothingForged
  LossCostsOneMessage
PROPERTIES
  IntactDelivered
  BlackoutEnds
