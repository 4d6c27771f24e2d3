CONSTANTS
    a = a
    b = b
    f = f
    k1 = k1
    NoKey = NoKey
    None = None
    Entry <- OpenAndClose
    Queued = {a, b}
    FitStops = {}
    Keys = {k1}
    MaxJobs = 2
    MaxAttempts = 1
    MaxCrashes = 1
    Clocks = {"settle", "fill"}
    FlushFaults = FALSE
    AckFaults = FALSE
SPECIFICATION FairSpec
INVARIANTS OneOpenQuestion
PROPERTIES IntentNeverLost SubmittingSettles SubmittedEnds InboxDrains QueueMoves
