CONSTANTS
    Requests <- MCRequests
    NoKey = "none"
    MaxPending = 2
    MaxQueued = 3
    MaxSends = 4
    MaxRuntimes = 3
    MaxResets = 1
SPECIFICATION Spec
INVARIANTS NeverDoneTwice ShowsTheTruth
CHECK_DEADLOCK FALSE
