SPECIFICATION Spec
CONSTANTS
  PlayLimit = 3
  Bursts = {1, 4}
  Transfers = {t1, t2}
  Sizes = {1, 2}
  MaxFrames = 7
SYMMETRY Interchangeable
INVARIANTS
  TypeOK
  Accounted
  InOrder
PROPERTIES
  NeverTwice
  KeepsOrder
