CONSTANTS
    p1 = p1
    e1 = e1
    e2 = e2
    v1 = v1
    v2 = v2
    r1 = r1
    None = None
    Plans = {p1}
    Executes = {e1, e2}
    PlanOf <- OnePlan
    Reviews = {v1, v2}
    ReviewOf <- TwoReviews
    Reconciles = {r1}
    MaxSettled = 0
    Overlapping = FALSE
    AppendFaults = TRUE
    LaggingNode = TRUE
SPECIFICATION FairSpec
CHECK_DEADLOCK FALSE
INVARIANTS TypeOK LedgersAccount VerdictIsTrue
PROPERTIES OneApprovalOneTransaction VerdictStands SubmissionsSettle
