SPECIFICATION FairSpec
CONSTANTS
  c1 = c1
  c2 = c2
  c3 = c3
  NoConnection = NoConnection
  Connections <- TwoConnections
  MAX_CLIENTS = 2
CHECK_DEADLOCK FALSE
PROPERTIES
  StopCompletes
