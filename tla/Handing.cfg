CONSTANTS
    MaxTasks = 2
    MaxDeps = 1
    MaxDispatches = 2
    MaxGates = 1
    MaxTerms = 1
    MaxRuntimes = 2
    MaxResets = 0
    BreakerTrips = 1
    Service = FALSE
    Commands <- HandingCommands
SPECIFICATION Spec
INVARIANTS BreakerHolds
PROPERTIES SettledTogether
CHECK_DEADLOCK FALSE
