CONSTANTS
    dev1 = dev1
    dev2 = dev2
    eval = eval
    c1 = c1
    c2 = c2
    a1 = a1
    a2 = a2
    w1 = w1
    w2 = w2
    Procs <- OneDeveloper
    Mode <- MCMode
    Native <- OneDeveloper
    EventBound = 32
    ObservationBound = 8
    RequirementBound = 16
    Contents <- OneContent
    Auths <- OneAuth
    Policies <- MCPolicies
    Plans <- MCPlans
    Workflows <- OneWorkflow
    Required <- MCRequired
    MaxHistory = 7
    MaxAfterSelection = 0
    MaxEdits = 0
    Restore = FALSE
SPECIFICATION Spec
INVARIANT EvaluatorEntryKept
CHECK_DEADLOCK FALSE
