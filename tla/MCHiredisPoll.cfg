SPECIFICATION Spec
CONSTANT Commands = {1, 2, 3}
INVARIANT InterestKept
PROPERTIES QuietAfterCleanup CommandsEnd
CHECK_DEADLOCK FALSE
