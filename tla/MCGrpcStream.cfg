SPECIFICATION Spec
CONSTANTS
    MaxReads = 4
    MaxWrites = 4
INVARIANTS
    TypeOK
    NothingOutlivesStream
    CallFinishedOnce
    WritesOneByOne
PROPERTIES
    WorkerReleased
    FailureReported
CHECK_DEADLOCK FALSE
