SPECIFICATION Spec
CONSTANTS
  Nominal = 44
  RateFrac = 4
  Microframes = 8
  PerSecond = 1
  Scale = 16
  Alpha = 4
  Tolerance = 2
  Warmup = 2
  FbMin = 40
  FbMax = 49
  Bytes <- SomeBytes
  Packets = 2
  PacketFrames = 13
INVARIANTS
  TypeOK
  NothingLost
  BelievesCounts
PROPERTIES
  Even
  Settles
