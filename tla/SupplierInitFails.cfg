\* InitializeWork returns false.
SPECIFICATION Spec

CONSTANTS
    Suppliers <- Two
    Inputs <- Pair
    Level <- Numbering
    Environment = {"init fails"}

PROPERTIES
    FailureStands
