\* Runs that follow each other, appending or truncating, that append together, or
\* that do both at the same time.
CONSTANTS
  r1 = r1
  r2 = r2
  Runs = {r1, r2}
  Setups <- AnySetup
  MaxRows = 3
SYMMETRY Symmetry
SPECIFICATION Spec
INVARIANTS
  TypeOK
  AckedIsStored
  TornIsLast
  HeaderOnTopInTurn
PROPERTY CloseTellsLoss
\* The runs end.
CHECK_DEADLOCK FALSE
