SPECIFICATION FairSpec
CONSTANTS Servers = {s1, s2}
          Nobody = Nobody
          Length = Length
          Mortal = {s1, s2}
          Buffer = 6
          MaxWrites = 2
          MaxLog = 3
PROPERTY Answered BackupCatchesUp
CHECK_DEADLOCK FALSE
