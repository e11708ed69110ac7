SPECIFICATION Spec
CONSTANTS
    Agents = {"inventory", "staffing"}
    MaxIterations = 2
    MaxCalls = 2
    MaxApprovals = 2
    MaxDelegations = 2
    MaxRetries = 1
    Jobs = {"inventory_monitoring", "daily_briefing"}
    MaxStarts = 2
    RunImmediately = TRUE
    MaxQuantity = 5
    LookbackDays = 3
    MinimumStaff = 2
INVARIANTS TypeOK CompletenessFloor ProposalsAccountedFor CommittedTrailIsSettled OneLoopPerJob PlansSuffice
PROPERTIES EveryRequestEnds KeepsTicking
CHECK_DEADLOCK FALSE
