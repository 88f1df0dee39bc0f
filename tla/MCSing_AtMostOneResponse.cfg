CONSTANTS
    r1 = r1
    r2 = r2
    o1 = o1
    Reqs <- MCReqsOne
    Endpoints <- MCAttesterEndpoints
    OpIds <- MCOpIds
    HeaderValues <- MCHeaderValues
    Epochs <- MCEpochs
    SlotsPerEpoch = 4
    SlotBits = 4
    MaxFork = 5
    DisableBroadcastSlashings = FALSE
SPECIFICATION Spec
INVARIANT AtMostOneResponse
CHECK_DEADLOCK FALSE
