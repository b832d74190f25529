SPECIFICATION Spec
CONSTANTS
  Iterations = 1
  MaxConnections = 1
  MaxPinged = 3
  MaxWire = 2
INVARIANTS NumbersIncrease
