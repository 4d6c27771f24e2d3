CONSTANTS
    Undefined = Undefined
    NaN = NaN
    Agents = {"agent"}
    OneShots = {"execute"}
    AtOnce = 2
    small = small
    Writes = {one, two, small}
    Intent <- TheIntents
    TheScope <- TheCeilings
    MaxCrashes = 1
    MaxFaults = 1
SPECIFICATION Spec
CHECK_DEADLOCK FALSE
SYMMETRY Equals
INVARIANTS SpendCoversSignatures BudgetKept OneSignaturePerAuthorization OpenWithinWhatWasSeen
