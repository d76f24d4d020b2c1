CONSTANTS
    Forms <- EventOnly
    KeepRuns = 2
    Limits <- OwnTurn
SPECIFICATION ASpec
INVARIANTS FinishIsHeard
CHECK_DEADLOCK FALSE
