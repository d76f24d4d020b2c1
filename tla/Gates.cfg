CONSTANTS
    MaxTasks = 3
    MaxDeps = 2
    MaxDispatches = 2
    MaxGates = 3
    MaxTerms = 1
    MaxRuntimes = 1
    MaxResets = 0
    BreakerTrips = 2
    Service = FALSE
    Commands <- GateCommands
SPECIFICATION Spec
INVARIANTS GateHoldsItsTask DependentsWait
CHECK_DEADLOCK FALSE
