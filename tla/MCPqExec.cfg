SPECIFICATION PqSpec
CONSTANTS
    MaxOps = 4
    MaxRunning = 3
    Answers <- OneCommand
INVARIANTS PqTypeOK OwnResult AtRest
PROPERTIES ExecEnds
CHECK_DEADLOCK FALSE
