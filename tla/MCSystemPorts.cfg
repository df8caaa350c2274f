SPECIFICATION SystemSpec
CONSTANTS
  Clients = {c1, c2}
  Users = {u1}
  Passwords = {p1}
  GroupNames = {g1, g2}
  Sockets = {4, 5}
  Listener = 3
  Backlog = 1
  MaxGroups = 2
  DefaultMulticastPort = 5
  PortBound = 7
  LargestPortText = 9
  WirePorts = 2
  Faults = {"none", "member"}
  Addresses <- AllAddresses
  Pids = {pid1, pid2}
  MaxActiveGroups = 1
  MaxQueues = 2
  NoName = NoName
SYMMETRY Symmetry
INVARIANTS
  NoCrosstalk
PROPERTIES
  EmptyGroupsExplained
CHECK_DEADLOCK FALSE
