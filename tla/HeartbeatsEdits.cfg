SPECIFICATION FairSpec

CONSTANTS
    a = a
    b = b
    ready = ready
    Stations <- Computers
    None = none
    States <- Reported
    S_UNKNOWN = unknown
    Down = down
    MaxLost = 0
    MaxServers = 2
    MaxEdits = 1
    MaxStationChanges = 1
    MaxDatagrams = 2

INVARIANTS
    AddressIsLookedUp

PROPERTIES
    WrongStatePasses
    AliveIsShown
