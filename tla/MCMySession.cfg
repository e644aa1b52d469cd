SPECIFICATION Spec
CONSTANTS
  MaxOps = 5
  MaxRows = 2
  SeqMod = 256
  Builds = {TRUE, FALSE}
  Greetings <- AllGreetings
  Replies <- MCReplies
INVARIANTS
  QueryReportsOwnAnswer
PROPERTIES
  EveryOperationEnds
CHECK_DEADLOCK FALSE
