SPECIFICATION FairSpecClientsLeave
CONSTANTS
  c1 = c1
  c2 = c2
  c3 = c3
  NoConnection = NoConnection
  Connections <- ThreeConnections
  MAX_CLIENTS = 1
CHECK_DEADLOCK FALSE
PROPERTIES
  StopCompletes
  HungUpIsClosed
