SPECIFICATION Spec
CONSTANTS
  Clients = {c1}
  Users = {u1}
  Passwords = {p1}
  GroupNames = {g1}
  Sockets = {4}
  Listener = 3
  Backlog = 2
  MaxGroups = 1
  DefaultMulticastPort = 5
  PortBound = 6
  LargestPortText = 9
  WirePorts = 16
  Faults = {"none"}
INVARIANTS
  LoggedInUsersAreConnected
CHECK_DEADLOCK FALSE
