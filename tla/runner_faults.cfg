CONSTANTS
    a = a
    b = b
    f = f
    k1 = k1
    NoKey = NoKey
    None = None
    Entry <- ReduceThenFit
    Queued = {a}
    FitStops = {f}
    Keys = {k1}
    MaxJobs = 3
    MaxAttempts = 2
    MaxCrashes = 1
    Clocks = {"settle"}
    FlushFaults = TRUE
    AckFaults = TRUE
SPECIFICATION Spec
INVARIANTS TypeOK DigestBeforeBytes NothingLive
PROPERTIES AtMostOnce
