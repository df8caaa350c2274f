SPECIFICATION SingleListSpec
CONSTANTS
  Persons = {1, 2, 3, 4}
  NoPerson = 0
  m_id <- IdOf
INVARIANTS
  RemovedStayOut
CHECK_DEADLOCK FALSE
