CONSTANTS
    MaxTasks = 1
    MaxDeps = 1
    MaxDispatches = 2
    MaxGates = 0
    MaxTerms = 2
    MaxRuntimes = 2
    MaxResets = 0
    BreakerTrips = 2
    Service = TRUE
    Commands <- ExitCommands
SPECIFICATION FairSpec
INVARIANTS DeathIsTold
PROPERTIES NoFalseDeath StartEnds
CHECK_DEADLOCK FALSE
