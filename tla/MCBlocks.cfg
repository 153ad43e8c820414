CONSTANTS
  Key = {1, 2, 3, 4}
  Value = {}
  NoValue = NoValue
  MaxBlocks = 19
SPECIFICATION BlocksSpec
INVARIANTS HeapSound DestroyFreesTree
CHECK_DEADLOCK FALSE
