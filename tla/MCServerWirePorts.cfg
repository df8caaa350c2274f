SPECIFICATION Spec
CONSTANTS
  Clients = {c1}
  Users = {u1}
  Passwords = {p1}
  GroupNames = {g1, g2}
  Sockets = {4}
  Listener = 3
  Backlog = 2
  MaxGroups = 2
  DefaultMulticastPort = 5
  PortBound = 8
  LargestPortText = 9
  WirePorts = 2
  Faults = {"none"}
INVARIANTS
  PortsUniqueOnTheWire
CHECK_DEADLOCK FALSE
