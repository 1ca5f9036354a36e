SPECIFICATION Spec
CONSTANTS
  c1 = c1
  c2 = c2
  c3 = c3
  NoConnection = NoConnection
  Connections <- ThreeConnections
  MAX_CLIENTS = 2
CHECK_DEADLOCK FALSE
INVARIANTS
  FinishedThreadsMakeRoom
