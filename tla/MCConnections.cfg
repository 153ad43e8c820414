CONSTANTS
  Clients = {1, 2, 3}
  NFDESC = 3
  MaxFd = 6
  Role = "primary"
  MaxChanges = 2
SPECIFICATION FairSpec
INVARIANTS TableSound OnlyLeaversClosed
PROPERTIES AnsweredIfKept AcceptedIfRoom
CHECK_DEADLOCK FALSE
