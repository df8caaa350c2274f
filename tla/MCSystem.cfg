SPECIFICATION SystemSpec
CONSTANTS
  Clients = {c1, c2}
  Users = {u1, u2}
  Passwords = {p1}
  GroupNames = {g1}
  Sockets = {4, 5}
  Listener = 3
  Backlog = 1
  MaxGroups = 1
  DefaultMulticastPort = 5
  PortBound = 7
  LargestPortText = 9
  WirePorts = 16
  Faults = {"none"}
  Addresses <- AllAddresses
  Pids = {pid1, pid2}
  MaxActiveGroups = 1
  MaxQueues = 2
  NoName = NoName
SYMMETRY Symmetry
INVARIANTS
  ServerTypeOK
  MenuAgreesWithServer
  GrantStillHolds
  GrantsAreNew
  ChatsAreMemberships
PROPERTIES
  LogoutClearsMemberships
CHECK_DEADLOCK FALSE
