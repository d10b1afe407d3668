SPECIFICATION Spec
CONSTANTS
  RecLimit = 6
  Floor = 2
  Requests = {1, 2}
  Payload = 1
  Waiting = 2
INVARIANTS
  TypeOK
  ArmedIsFresh
PROPERTIES
  GetsServed
  StopsDecoding
