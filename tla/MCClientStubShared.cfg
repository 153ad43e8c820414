SPECIFICATION Spec
CONSTANTS
  Servers = {s1, s2, s3, s4}
  Nobody = Nobody
  Ops = {"put", "get", "verify"}
  Worlds = {TRUE}
  MaxCommands = 1
  MaxSocket = 6
INVARIANT PrimaryFollowed
CHECK_DEADLOCK FALSE
