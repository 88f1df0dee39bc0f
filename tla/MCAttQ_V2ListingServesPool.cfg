CONSTANTS
    r1 = r1
    a1 = a1
    l1 = l1
    Reqs <- MCReqsOne
    AttIds <- MCAttIds
    MaxBatch = 1
    HeaderValues <- MCHeaderValues
    Lists <- MCLists
    QueryValues <- MCQueryValues
    AttSlot <- MCAttSlot
    AttCommittee <- MCAttCommittee
    HeadForks <- MCHeadForks
SPECIFICATION QSpec
INVARIANT V2ListingServesPool
CHECK_DEADLOCK FALSE
