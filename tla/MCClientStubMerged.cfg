SPECIFICATION Spec
CONSTANTS
  Servers = {s1, s2, s3, s4}
  Nobody = Nobody
  Ops = {"put", "get", "verify"}
  Worlds = {FALSE}
  MaxCommands = 0
  MaxSocket = 6
INVARIANT BackupLink
CHECK_DEADLOCK FALSE
