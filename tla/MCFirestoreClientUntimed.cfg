SPECIFICATION Spec
CONSTANTS
    q1 = q1
    Target = {q1}
    Request <- MCTwoRequests
    MaxWatchStreamFailures = 1
    MaxDocuments = 1
    MaxFailures = 1
    MaxInFlight = 3
INVARIANT UnknownIsTimed
CHECK_DEADLOCK FALSE
