CONSTANTS
  Clients = {1}
  NFDESC = 3
  MaxFd = 6
  Role = "backup"
  MaxChanges = 2
SPECIFICATION FairSpec
INVARIANTS KeptUntilTheyLeave
PROPERTIES Answered
CHECK_DEADLOCK FALSE
