SPECIFICATION Spec
CONSTANTS
  MaxOps = 2
  MaxReply = 4
  Replies <- FaultyReplies
INVARIANTS
  TypeOK
  RowsMatchDescription
CHECK_DEADLOCK FALSE
