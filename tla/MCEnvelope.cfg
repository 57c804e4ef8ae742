CONSTANTS
    Procs = {p1, p2}
    MaxRuns = 2
    MaxCrashes = 1
    HostMemory <- MCHostMemory
    FreeMemory <- MCFreeMemory
    Events = {"oom_kill"}
    Settings <- MCSettings
SPECIFICATION Spec
INVARIANTS OneCommand ResultIsUnits
PROPERTY SlotFreed
