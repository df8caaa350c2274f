SPECIFICATION NetworkSpec
CONSTANTS
  Clients = {c1, c2, c3}
  Sockets = {c1, c2, c3}
  ServerSock = serverSock
  MaxClients = 2
  Backlog = 1
  QueueCapacity = 2
  NoSocket = noSocket
  Packets <- ThreePackets
  MostPackets = 2
INVARIANTS
  EntriesMatchConnections
  ReportsServedOnce
  QueueCallsSucceed
  EachSocketHasOneOwner
  PacketsKeepTheirBounds
PROPERTIES
  EverySocketIsClosed
  PacketsArrive
CHECK_DEADLOCK FALSE
