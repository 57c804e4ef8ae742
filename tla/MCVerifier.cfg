CONSTANTS
    p1 = p1
    p2 = p2
    a1 = a1
    a2 = a2
    Procs <- TwoProcesses
    Actions <- MCActions
    MaxCrashes = 2
SPECIFICATION FairSpec
INVARIANTS RecoveryRespectsExecutor RunResultsOrdered
PROPERTY EveryActionTerminates
