SPECIFICATION Spec
CONSTANTS
  Channels = 2
  Numbers = 3
  HAZARDS = {1}
  Deadly = {1, 2}
  MaxRuns = 3
  MaxPast = 1
  MaxFound = 2
  MaxTears = 1
INVARIANTS
  TypeOK
  OneLit
PROPERTIES
  NeverForgets
  StepsOver
CHECK_DEADLOCK FALSE
