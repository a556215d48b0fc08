\* A production that does not get to all its inputs.
SPECIFICATION Spec

CONSTANTS
    Suppliers <- Two
    Inputs <- Pair
    Level <- Numbering
    Environment = {"partial reads"}

INVARIANTS
    ParametersApplied
