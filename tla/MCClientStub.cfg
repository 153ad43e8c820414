SPECIFICATION Spec
CONSTANTS
  Servers = {s1, s2, s3}
  Nobody = Nobody
  Ops = {"put", "get", "verify"}
  Worlds = {TRUE, FALSE}
  MaxCommands = 3
  MaxSocket = 4
SYMMETRY Symmetry
INVARIANTS LinksLead AnswersAreOwn NotLeftBehind
CHECK_DEADLOCK FALSE
