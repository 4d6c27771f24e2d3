CONSTANTS
    p1 = p1
    e1 = e1
    e2 = e2
    v1 = v1
    v2 = v2
    r1 = r1
    None = None
    Plans = {p1}
    Executes = {e1, e2}
    PlanOf <- OnePlan
    Reviews = {v1}
    ReviewOf <- OneReview
    Reconciles = {r1}
    MaxSettled = 0
    Overlapping = TRUE
    AppendFaults = FALSE
    LaggingNode = FALSE
SPECIFICATION Spec
CHECK_DEADLOCK FALSE
PROPERTIES OneApprovalOneTransaction
