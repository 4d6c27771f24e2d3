CONSTANTS
    a = a
    b = b
    f = f
    k1 = k1
    NoKey = NoKey
    None = None
    Entry <- OneIdea
    Queued = {a, b}
    FitStops = {}
    Keys = {k1}
    MaxJobs = 3
    MaxAttempts = 1
    MaxCrashes = 1
    Clocks = {"settle", "fill", "cooldown", "retain"}
    FlushFaults = TRUE
    AckFaults = FALSE
SPECIFICATION Spec
INVARIANTS OnePerKey
PROPERTIES UnresolvedStays
