SPECIFICATION Spec
CONSTANTS
  Transfers <- MCTransfers
  Bulk = {"audioIn", "midiIn"}
  Commands <- AllCommands
  FailAt = {1, 2}
  RoundsSuffice = TRUE
CHECK_DEADLOCK FALSE
INVARIANTS
  TypeOK
  BufferOutlives
PROPERTIES
  GoneIsNoticed
  Ends
