SPECIFICATION FairSpec

CONSTANTS
    p1 = p1
    p2 = p2
    p3 = p3
    r1 = r1
    Parts <- TwoParts
    Results <- OneResult
    Files <- TwoParts
    FileOf <- Own
    NoFile = NoFile
    Damaged = Damaged
    ChunkSize = 1
    MaxStarts = 2

INVARIANTS
    NothingLeft
    HistoryComplete
    ShownIsOnDisk

PROPERTIES
    LoadsHistory
    CloseReturns

CHECK_DEADLOCK FALSE
