CONSTANTS
    MaxTasks = 1
    MaxDeps = 0
    MaxDispatches = 2
    MaxGates = 0
    MaxTerms = 2
    MaxRuntimes = 2
    MaxResets = 0
    BreakerTrips = 2
    Service = TRUE
    Commands <- ClosingCommands
SPECIFICATION Spec
INVARIANTS ReleasedIsClosedOrTold RunsItsOwnBrief
PROPERTIES ClosesOnlyItsOwn
CHECK_DEADLOCK FALSE
