SPECIFICATION Spec
CONSTANTS
  PlayLimit = 6
  Floor = 2
  Quanta = {1, 2}
  Sizes = {1, 3}
INVARIANTS
  TypeOK
  SilentWhenOver
PROPERTIES
  StartsPrimed
  StaysOn
  GoesQuiet
