SPECIFICATION FairSpec
CONSTANTS
  Clients = {c1, c2, c3}
  Users = {}
  Passwords = {p1}
  GroupNames = {}
  Sockets = {4, 5}
  Listener = 3
  Backlog = 2
  MaxGroups = 1
  DefaultMulticastPort = 5
  PortBound = 5
  LargestPortText = 9
  WirePorts = 16
  Faults = {"none"}
INVARIANTS
  DescriptorsTracked
  ReportedStillReadable
PROPERTIES
  DeadConnectionsReleased
CHECK_DEADLOCK FALSE
