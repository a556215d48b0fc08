\* Clients that only change things and run DoTest.
SPECIFICATION Spec

CONSTANTS
    Suppliers <- Three
    Inputs <- Chain
    Level <- Numbering
    Environment = {"observers read"}

INVARIANTS
    CacheCoherent
    TestDeliversCurrent
    ParametersApplied
    NextChangeAnnounced

PROPERTIES
    InputChangeInvalidates
    ImplementsResultCache
