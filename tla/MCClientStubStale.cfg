SPECIFICATION Spec
CONSTANTS
  Servers = {s1, s2, s3}
  Nobody = Nobody
  Ops = {"put", "get", "verify"}
  Worlds = {TRUE}
  MaxCommands = 3
  MaxSocket = 6
INVARIANTS OwnAnswer SuccessIsOwn
CHECK_DEADLOCK FALSE
