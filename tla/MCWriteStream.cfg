SPECIFICATION Spec
CONSTANTS
    MaxWrites = 5
    MaxPendingWrites = 4
    MaxLosses = 2
INVARIANTS
    TypeOK
    NoAssertionFails
    OnlyRefusedDropped
PROPERTIES
    ImplementsQueue
    WritesSettle
CHECK_DEADLOCK FALSE
