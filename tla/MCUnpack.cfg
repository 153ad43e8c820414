CONSTANTS
  Messages <- MCMessages
  FirstSlab = 2
SPECIFICATION UnpackSpec
INVARIANTS PackFillsBuffer ReadAsSent FreedOnce NothingLeaks
CHECK_DEADLOCK FALSE
