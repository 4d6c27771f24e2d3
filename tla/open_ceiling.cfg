CONSTANTS
    Undefined = Undefined
    NaN = NaN
    Agents = {}
    OneShots = {"execute"}
    AtOnce = 1
    small = small
    Writes = {one, two, small}
    Intent <- TheIntents
    TheScope <- TheCeilings
    MaxCrashes = 0
    MaxFaults = 0
SPECIFICATION Spec
CHECK_DEADLOCK FALSE
INVARIANT OpenCeilingHolds
