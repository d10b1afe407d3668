SPECIFICATION Spec
CONSTANTS
  button = button
  fader = fader
  platter = platter
  Notes = {button}
  Ccs = {fader, platter}
  CONTINUOUS_EVENTS = 2
  Announced = 1
  MaxCount = 4
  MaxTyped = 1
  MaxSessions = 2
INVARIANTS
  NamedOnce
PROPERTIES
  NamesWhatWasShown
  FileGrows
CHECK_DEADLOCK FALSE
