CONSTANTS
    p1 = p1
    p2 = p2
    p3 = p3
    b1 = b1
    b2 = b2
    b3 = b3
    Ids <- MCIds
    Cli = Cli
    Pids <- MCPids
    Owners = {"o1", "o2"}
    Runtimes = {"r1", "r2"}
    Revisions = {"v1"}
    MaxEvents = 4
    Selections <- MCSelections
SPECIFICATION Spec
SYMMETRY Symmetric
INVARIANTS Tracked StoppedMeansStopped
PROPERTY OnlyOwnedControlled
CHECK_DEADLOCK FALSE
