SPECIFICATION BridgeSpec
CONSTANTS
  Setups <- MCQuit
  Length = 5
  Throttle = 1
  PlayLimit = 4
PROPERTY QuitFinishes
CHECK_DEADLOCK FALSE
