CONSTANTS
    r1 = r1
    r2 = r2
    a1 = a1
    Reqs <- MCReqsOne
    AttIds <- MCAttIds
    MaxBatch = 2
    HeaderValues <- MCHeaderValues
SPECIFICATION Spec
PROPERTY BroadcastFailureStillPooled
CHECK_DEADLOCK FALSE
