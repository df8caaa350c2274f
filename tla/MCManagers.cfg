SPECIFICATION ManagersSpec
CONSTANTS
  Clients = {}
  Users = {u1, u2, u3}
  Passwords = {p1, p2}
  Sockets = {4, 5}
  GroupNames = {g1, g2, g3}
  MaxGroups = 2
  DefaultMulticastPort = 5
  PortBound = 11
  Faults = {"none", "object", "insert", "member"}
SYMMETRY Symmetry
INVARIANTS
  UserManagerTypeOK
  SocketMapConsistent
  GroupManagerTypeOK
  AddressPoolConserved
  MemberCountExact
  PortsUnique
PROPERTIES
  SessionNeverStolen
  AddressStable
CHECK_DEADLOCK FALSE
