CONSTANTS
  Requests <- MCRequests
  Replies <- MCReplies
  MaxMsg = 3
  Huge = 1000
  MaxRequests = 2
SPECIFICATION Spec
INVARIANTS IsTheReply Survives
CHECK_DEADLOCK FALSE
