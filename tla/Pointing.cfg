CONSTANTS
    Panes = {"c", "w"}
    Dispatches = {}
    WorkerOf <- MCWorkerOf
    RunOf <- MCRunOf
    Kinds = {"status", "question"}
    Coordinators = {"c"}
    Letters <- MCLetters
    Checks <- MCChecks
    MaxRuns = 2
    MaxMessages = 2
    MaxEpoch = 2
    MaxWaits = 1
    MaxResets = 0
SPECIFICATION PFairSpec
INVARIANTS WaitingHasRunner PointedOnce
PROPERTIES MailIsPointed
CHECK_DEADLOCK FALSE
