CONSTANTS
    Forms <- TimedAndEvent
    KeepRuns = 2
    Limits <- AnyFour
SPECIFICATION AFairSpec
INVARIANTS ATypeOK FollowsItsPane OneManualRun
PROPERTIES NumbersOnlyGrow DueIsAnswered RunsMoveOn
CHECK_DEADLOCK FALSE
