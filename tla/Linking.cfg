CONSTANTS
    Panes = {"p"}
    Text <- MCText
    LineBreak = "line break"
    TailKeep = 2
    HistoryCap = 2
    Probe = 2
    LeastOverlap = 2
    EarlyCap = 1
    MaxTerms = 2
    MaxOutput = 3
    MaxEvents = 4
SPECIFICATION LFairSpec
INVARIANTS LTypeOK HandedInOrder SavedWhole EndsNoOnesPane
PROPERTIES NewsArrives
CHECK_DEADLOCK FALSE
