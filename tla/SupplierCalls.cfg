\* Everything components and clients do to a supplier and its input.
SPECIFICATION Spec

CONSTANTS
    Suppliers <- Two
    Inputs <- Pair
    Level <- Numbering
    Environment = {"observers read", "clients read", "clients step", "partial reads", "init fails"}

INVARIANTS
    TypeOK
    LockedOnlyInCall
    NotReentered
    OnlyFinishedWorkHandedOut
    ProductMatchesLastWork

PROPERTIES
    CallsReturn
