SPECIFICATION Spec

CONSTANTS
    SubtasksCount = 2
    AdditionalCount = 0
    Proxies <- FirstIsProxy

INVARIANTS
    TypeOK
    CategoryCurrent
    WorkStatusCurrent
    CategoryIsWorst
    TestCalculatesAll
    NoOldResult
    SummaryFollowsLoop
