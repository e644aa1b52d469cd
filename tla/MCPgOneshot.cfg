SPECIFICATION MixedSpec
CONSTANTS
    MaxOps = 4
    MaxRows = 1
    Cols = {1}
    Replies <- MixedReplies
INVARIANTS WriterTypeOK OneshotOwnAnswer BehindUnseen AnswersInOrder
PROPERTIES WrittenBeforeEnd EveryOperationEnds
CHECK_DEADLOCK FALSE
