SPECIFICATION LifetimeSpec
CONSTANTS
  c1 = c1
  c2 = c2
  c3 = c3
  NoConnection = NoConnection
  Connections <- ThreeConnections
  MAX_CLIENTS = 2
SYMMETRY ConnectionSymmetry
CHECK_DEADLOCK FALSE
INVARIANTS
  TypeOK
  CounterIsExact
  NeverTooMany
  NoThreadIsLost
  SocketHasOneOwner
  NoCommandAfterHandler
  NothingOutlivesServer
