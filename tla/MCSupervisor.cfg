CONSTANTS
    Limit = 2
    Triggers = 2
    Capacity = 1
    MaxEvents = 3
    MaxStreams = 2
    MaxStarts = 2
    MaxCrashes = 1
SPECIFICATION FairSpec
INVARIANTS SkippedOnlyBySupersession NothingDropped
PROPERTY StopRequestEnds
CHECK_DEADLOCK FALSE
