SPECIFICATION Spec
CONSTANTS Servers = {s1, s2, s3}
          Nobody = Nobody
          Length = Length
          Mortal = {s1, s2, s3}
          Buffer = 4
          MaxWrites = 1
          MaxLog = 2
PROPERTY WritesReachBackup
CHECK_DEADLOCK FALSE
