SPECIFICATION Spec
CONSTANTS
  control = control
  note = note
  pressure = pressure
  Statuses = {control, note, pressure}
  OneByte = {pressure}
  PacketIn = 3
  PacketOut = 4
  MaxMessages = 3
  MaxLost = 1
INVARIANTS
  AsSent
  NothingLeftBehind
