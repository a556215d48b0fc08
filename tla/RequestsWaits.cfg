SPECIFICATION FairSpec

CONSTANTS
    r1 = r1
    r2 = r2
    r3 = r3
    Ids <- TwoRequests
    Known <- OneKnown
    All = all
    MaxConnections = 2
    MaxDepth = 2

INVARIANTS
    WaitersEntryKept
    ReportedOkIsServed
    FailedLeavesObject

PROPERTIES
    WaitsReturn

CHECK_DEADLOCK FALSE
