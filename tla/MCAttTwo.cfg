CONSTANTS
    r1 = r1
    r2 = r2
    a1 = a1
    Reqs <- MCReqsTwo
    AttIds <- MCAttIds
    MaxBatch = 1
    HeaderValues <- MCHeaderValues
SPECIFICATION Spec
INVARIANTS TypeOK PoolAdmission BatchAccounting
PROPERTIES ImplementsAdmission
CHECK_DEADLOCK FALSE
