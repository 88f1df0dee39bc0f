CONSTANTS
    r1 = r1
    r2 = r2
    Reqs <- MCReqsOne
    MaxBatch = 3
SPECIFICATION Spec
INVARIANT ConversionFailuresReported
CHECK_DEADLOCK FALSE
