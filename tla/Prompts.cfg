CONSTANTS
    Requests = {"ask", "draft", "yes"}
    Texts = {"ask", "draft"}
    Submitted = {"ask"}
    Interrupts = {"draft"}
    Openers = {"pane"}
    ReceiptsKept = 1
    MaxAsks = 3
    MaxKeys = 1
    MaxFails = 1
    MaxRestarts = 1
SPECIFICATION FairSpec
INVARIANTS OneAtATime TypedOnce HeldBack
PROPERTIES SendsEnd
CHECK_DEADLOCK FALSE
