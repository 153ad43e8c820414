CONSTANTS
  Requests <- MCRequest
  Replies <- MCReplies
  MaxMsg = 3
  Huge = 1000
  MaxRequests = 2
SPECIFICATION Spec
INVARIANTS IsTheRequest
CHECK_DEADLOCK FALSE
