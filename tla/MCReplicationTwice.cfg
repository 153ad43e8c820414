SPECIFICATION FairSpec
CONSTANTS Servers = {s1, s2, s3}
          Nobody = Nobody
          Length = Length
          Mortal = {s1, s2, s3}
          Buffer = 6
          MaxWrites = 1
          MaxLog = 4
PROPERTY Answered
CHECK_DEADLOCK FALSE
