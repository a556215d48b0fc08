SPECIFICATION Spec

CONSTANTS
    PagesCount = 3
    Controlled <- LastControlled
    Dependencies <- LastOnSecond

INVARIANTS
    PageStates
    VerdictCurrent
    NavigationAgrees
