SPECIFICATION Spec
CONSTANTS
  Servers = {s1, s2}
  Nobody = Nobody
  Ops = {"get", "verify"}
  Worlds = {TRUE}
  MaxCommands = 1
  MaxSocket = 6
INVARIANTS NoWildPointer DoneMeansDone
CHECK_DEADLOCK FALSE
