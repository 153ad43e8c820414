CONSTANTS
  Requests <- MCRequest
  Replies <- MCReplies
  MaxMsg = 3
  Huge = 1000
  MaxRequests = 2
SPECIFICATION FairSpec
INVARIANTS RequestsArrive SurvivesWholeReads RepliesArrive
PROPERTIES CallsReturn
CHECK_DEADLOCK FALSE
