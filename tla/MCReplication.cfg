SPECIFICATION Spec
CONSTANTS Servers = {s1, s2, s3}
          Nobody = Nobody
          Length = Length
          Mortal = {s1, s2, s3}
          Buffer = 4
          MaxWrites = 2
          MaxLog = 3
SYMMETRY Symmetry
INVARIANTS Consistent WritesOnce
CHECK_DEADLOCK FALSE
