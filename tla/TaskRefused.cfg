SPECIFICATION Spec

CONSTANTS
    SubtasksCount = 2
    AdditionalCount = 0
    Proxies <- FirstIsProxy

INVARIANTS
    RefusalShown
