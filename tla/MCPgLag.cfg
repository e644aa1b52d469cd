SPECIFICATION Spec
CONSTANTS
  MaxOps = 5
  MaxRows = 0
  Cols = {1}
  Replies <- FewReplies
INVARIANTS
  AnswersInOrder
  LagAccount
PROPERTIES
  EveryOperationEnds
CHECK_DEADLOCK FALSE
