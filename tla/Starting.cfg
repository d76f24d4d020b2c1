CONSTANTS
    MaxTasks = 2
    MaxDeps = 0
    MaxDispatches = 2
    MaxGates = 0
    MaxTerms = 1
    MaxRuntimes = 2
    MaxResets = 1
    BreakerTrips = 2
    Service = FALSE
    Commands <- StartingCommands
SPECIFICATION Spec
INVARIANTS WorkerHoldsItsTask OneWorkerPerTask DispatchedHasItsWorker OneDispatchPerTerminal
PROPERTIES FinishedIsFinal
CHECK_DEADLOCK FALSE
