CONSTANTS
    a = a
    b = b
    f = f
    k1 = k1
    NoKey = NoKey
    None = None
    Entry <- OneMargin
    Queued = {a}
    FitStops = {}
    Keys = {k1}
    MaxJobs = 2
    MaxAttempts = 1
    MaxCrashes = 1
    Clocks = {"settle"}
    FlushFaults = TRUE
    AckFaults = FALSE
SPECIFICATION Spec
PROPERTIES IntentNeverLost
