CONSTANTS
    r1 = r1
    r2 = r2
    v1 = v1
    v2 = v2
    Reqs <- MCReqsTwo
    Validators <- MCValidatorsOne
    MaxBatch = 2
    RateLimit = 1
    MaxFork = 3
SYMMETRY MCReqsSymmetry
SPECIFICATION Spec
INVARIANTS TypeOK RateLimitRespected ForkGate BroadcastWasAdmitted
CHECK_DEADLOCK FALSE
