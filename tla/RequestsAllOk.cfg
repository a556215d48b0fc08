SPECIFICATION Spec

CONSTANTS
    r1 = r1
    r2 = r2
    r3 = r3
    Ids <- TwoRequests
    Known <- OneKnown
    All = all
    MaxConnections = 2
    MaxDepth = 1

PROPERTIES
    AllOkIsNoTimeout

CHECK_DEADLOCK FALSE
