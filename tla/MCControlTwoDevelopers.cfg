CONSTANTS
    dev1 = dev1
    dev2 = dev2
    eval = eval
    c1 = c1
    c2 = c2
    a1 = a1
    a2 = a2
    w1 = w1
    w2 = w2
    Procs <- TwoDevelopers
    Mode <- MCMode
    Native = {}
    EventBound = 32
    ObservationBound = 8
    RequirementBound = 16
    Contents <- TwoContents
    Auths <- OneAuth
    Policies <- MCPolicies
    Plans <- TwoPlans
    Workflows <- OneWorkflow
    Required <- MCRequired
    MaxHistory = 4
    MaxAfterSelection = 1
    MaxEdits = 1
    Restore = TRUE
SPECIFICATION Spec
SYMMETRY SymmetricProcs
INVARIANTS SelectionBacked FreezeBacked CandidateOnce NativeFailsClosed
CHECK_DEADLOCK FALSE
