SPECIFICATION SessionsFairSpec
CONSTANTS
  Clients = {c1}
  Users = {}
  Faults = {"none"}
  GroupNames = {g1, g2, g3}
  Addresses = {a1}
  Pids = {1, 2, 3}
  MaxActiveGroups = 2
  MaxQueues = 3
INVARIANTS
  NoStrayProcess
  OneSessionPerGroup
PROPERTIES
  StartCompletes
CHECK_DEADLOCK FALSE
