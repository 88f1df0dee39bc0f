CONSTANTS
    r1 = r1
    r2 = r2
    Reqs <- MCReqsOne
    MaxBatch = 3
SPECIFICATION Spec
INVARIANTS TypeOK SubmittedOnlyConverted SuccessMeansAllSubmitted
CHECK_DEADLOCK FALSE
