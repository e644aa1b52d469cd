SPECIFICATION Spec
CONSTANTS
  MaxOps = 4
  MaxRows = 5
  SeqMod = 3
  Builds = {FALSE}
  Greetings <- NativeOnly
  Replies <- MCSingle
INVARIANTS
  MyTypeOK
  ReadSplitsDoNotMatter WholeOrLost
CHECK_DEADLOCK FALSE
