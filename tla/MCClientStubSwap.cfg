SPECIFICATION FairSpec
CONSTANTS
  Servers = {s1, s2, s3}
  Nobody = Nobody
  Ops = {"put", "get", "verify"}
  Worlds = {TRUE}
  MaxCommands = 1
  MaxSocket = 6
PROPERTY CommandsReturn
CHECK_DEADLOCK FALSE
