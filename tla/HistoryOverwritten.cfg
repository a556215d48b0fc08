SPECIFICATION Spec

CONSTANTS
    p1 = p1
    p2 = p2
    p3 = p3
    r1 = r1
    Parts <- TwoParts
    Results <- OneResult
    Files <- TwoParts
    FileOf <- Own
    NoFile = NoFile
    Damaged = Damaged
    ChunkSize = 1
    MaxStarts = 2

PROPERTIES
    HoldsAllData

CHECK_DEADLOCK FALSE
