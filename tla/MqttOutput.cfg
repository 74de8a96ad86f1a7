\* Two runs with the default client id; a connection may be lost once otherwise.
CONSTANTS
  r1 = r1
  r2 = r2
  Runs = {r1, r2}
  ClientID <- DefaultID
  MaxBatches = 2
  MaxOutages = 1
SPECIFICATION Spec
INVARIANTS
  TypeOK
  AtMostOnceInOrder
  AckedUnlessCut
PROPERTIES
  ClosedStaysOut
  CallsReturn
\* The runs end.
CHECK_DEADLOCK FALSE
