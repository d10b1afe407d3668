SPECIFICATION Spec
CONSTANTS
  Transfers <- MCTransfers
  Bulk = {"audioIn", "midiIn"}
  Commands <- HandleFirst
  FailAt = {1}
  RoundsSuffice = TRUE
CHECK_DEADLOCK FALSE
INVARIANTS
  HandleOutlives
