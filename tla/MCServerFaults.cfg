SPECIFICATION FairSpec
CONSTANTS
  Clients = {c1, c2}
  Users = {u1}
  Passwords = {p1, p2}
  GroupNames = {g1}
  Sockets = {4}
  Listener = 3
  Backlog = 2
  MaxGroups = 1
  DefaultMulticastPort = 5
  PortBound = 8
  LargestPortText = 6
  WirePorts = 16
  Faults = {"none", "object", "insert", "member"}
INVARIANTS
  AnsweredExactlyOnce
PROPERTIES
  EveryRequestAnswered
CHECK_DEADLOCK FALSE
