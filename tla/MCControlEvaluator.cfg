CONSTANTS
    dev1 = dev1
    dev2 = dev2
    eval = eval
    c1 = c1
    c2 = c2
    a1 = a1
    a2 = a2
    w1 = w1
    w2 = w2
    Procs <- OneDeveloper
    Mode <- MCMode
    Native = {}
    EventBound = 32
    ObservationBound = 8
    RequirementBound = 16
    Contents <- TwoContents
    Auths <- TwoAuths
    Policies <- MCPolicies
    Plans <- MCPlans
    Workflows <- TwoWorkflows
    Required <- MCRequired
    MaxHistory = 5
    MaxAfterSelection = 1
    MaxEdits = 1
    Restore = FALSE
SPECIFICATION Spec
SYMMETRY Symmetric
INVARIANTS NeverAmbiguous FreezeIsFinal SelectionClean ReportedEvaluationSound ReconcileSound NativeAgrees
CHECK_DEADLOCK FALSE
