\* An input shared by a supplier and by the input of that supplier.
SPECIFICATION Spec

CONSTANTS
    Suppliers <- Three
    Inputs <- Diamond
    Level <- Numbering
    Environment = {"observers read"}

PROPERTIES
    InputChangeInvalidates
