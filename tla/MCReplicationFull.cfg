SPECIFICATION FairSpec
CONSTANTS Servers = {s1, s2}
          Nobody = Nobody
          Length = Length
          Mortal = {}
          Buffer = 1
          MaxWrites = 3
          MaxLog = 4
PROPERTY Answered
CHECK_DEADLOCK FALSE
