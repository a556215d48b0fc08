\* A client reads an invalidated supplier before it is initialized.
SPECIFICATION Spec

CONSTANTS
    Suppliers <- Two
    Inputs <- Pair
    Level <- Numbering
    Environment = {"clients read"}

INVARIANTS
    TestDeliversCurrent
