CONSTANTS
    MaxGen = 2
    MaxPids = 3
    MaxFailures = 1
    Limits = {"TimedOut"}
    MaxCancelled = 1
SPECIFICATION RunnerSpec
INVARIANTS CompleteMeansGone NoLostCancellation
PROPERTY BothReturn
CHECK_DEADLOCK FALSE
