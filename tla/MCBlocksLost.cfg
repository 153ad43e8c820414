CONSTANTS
  Key = {1, 2}
  Value = {}
  NoValue = NoValue
  MaxBlocks = 10
SPECIFICATION BlocksSpec
PROPERTIES PutLosesNothing DelFreesPut
CHECK_DEADLOCK FALSE
