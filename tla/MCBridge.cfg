SPECIFICATION BridgeSpec
CONSTANTS
  Setups <- MCSetups
  Length = 5
  Throttle = 1
  PlayLimit = 4
PROPERTIES
  Ends
  PlaysItAll
  NodesComeUp
  FollowsReader
CHECK_DEADLOCK FALSE
