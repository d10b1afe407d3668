SPECIFICATION DecoderSpec
CONSTANTS
  HuntFrames = 5
  Payloads = {53, 24}
  Lost = {1, 2}
  MaxLosses = 2
INVARIANTS
  DecoderTypeOK
PROPERTIES
  KeepsPhase
  Recovers
  NeverDark
