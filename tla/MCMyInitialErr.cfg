SPECIFICATION Spec
CONSTANTS
  MaxOps = 1
  MaxRows = 0
  SeqMod = 256
  Builds = {FALSE}
  Greetings <- AllGreetings
  Replies <- MCReplies
INVARIANTS
  AssertionsHold
CHECK_DEADLOCK FALSE
