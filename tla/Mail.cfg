CONSTANTS
    Panes = {"c", "w"}
    Dispatches = {"d"}
    WorkerOf <- MCWorkerOf
    RunOf <- MCRunOf
    Kinds = {"status", "question"}
    Coordinators = {"c"}
    Letters <- MCLetters
    Checks <- MCChecks
    MaxRuns = 2
    MaxMessages = 2
    MaxEpoch = 2
    MaxWaits = 1
    MaxResets = 1
SPECIFICATION FairSpec
INVARIANTS GivenOnce ArrivalOrder FencedOff
PROPERTIES KeepsItsPromise WaitsEnd
CHECK_DEADLOCK FALSE
