CONSTANTS
    r1 = r1
    r2 = r2
    o1 = o1
    Reqs <- MCReqsTwo
    Endpoints <- MCAllEndpoints
    OpIds <- MCOpIds
    HeaderValues <- MCHeaderValues
    Epochs <- MCEpochs
    SlotsPerEpoch = 4
    SlotBits = 4
    MaxFork = 5
    DisableBroadcastSlashings = FALSE
SPECIFICATION Spec
INVARIANTS TypeOK AnnouncedOnlyWhenStaged BroadcastFailureStillPooled SuccessMeansStaged
CHECK_DEADLOCK FALSE
