SPECIFICATION Spec
CONSTANTS Servers = {s1, s2}
          Nobody = Nobody
          Length = Length
          Mortal = {}
          Buffer = 4
          MaxWrites = 2
          MaxLog = 3
INVARIANT OnlyMortalsDie
CHECK_DEADLOCK FALSE
