CONSTANTS
  Clients = {1, 2, 3}
  NFDESC = 3
  MaxFd = 6
  Role = "primary"
  MaxChanges = 0
SPECIFICATION FairSpec
PROPERTIES Accepted
CHECK_DEADLOCK FALSE
