SPECIFICATION Spec
CONSTANTS
  MaxOps = 3
  MaxRows = 1
  Cols = {2}
  Replies <- ServerReplies
INVARIANTS
  InSync
  OwnAnswer
  EarlyConnectUnusable
CHECK_DEADLOCK FALSE
