CONSTANTS
  Messages <- MCMessages
  FirstSlab = 2
SPECIFICATION UnpackSpec
INVARIANTS SentIsLive SentIsFreed
CHECK_DEADLOCK FALSE
