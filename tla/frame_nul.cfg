SPECIFICATION LineSpec
CONSTANTS
  MaxPayload = 8
  MaxFrameSize = 24
  Messages <- MCLedOff
  NoiseBytes <- MCNoiseNul
  MaxFrames = 1
  MaxFaults = 1
INVARIANTS
  NothingForged
