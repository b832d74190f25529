SPECIFICATION Spec
CONSTANTS
  Iterations = 1
  MaxConnections = 3
  MaxPinged = 3
  MaxWire = 2
INVARIANTS OwnAnswer  StaleIsEvidence
