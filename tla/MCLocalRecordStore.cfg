CONSTANTS
    i1 = i1
    i2 = i2
    v1 = v1
    v2 = v2
    t1 = t1
    t2 = t2
    Ids <- MCIds
    Contents <- MCContents
    TxIds <- MCTxIds
    MaxCrashes = 3
SPECIFICATION FairSpec
INVARIANTS CompleteOldOrNew NeverWedged IndexBound
PROPERTIES ImplementsRecordLog PreparedIsFinished
