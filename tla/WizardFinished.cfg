SPECIFICATION Spec

CONSTANTS
    PagesCount = 3
    Controlled <- AllControlled
    Dependencies <- LastOnFirst

INVARIANTS
    StaysNavigable
