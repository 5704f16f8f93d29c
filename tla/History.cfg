CONSTANTS
    a1 = a1
    a2 = a2
    c1 = c1
    c2 = c2
    s1 = s1
    d1 = d1
    n1 = n1
    n2 = n2
    n3 = n3
    transfer = transfer
    escalation = escalation
    Root = Root
    Ids <- MCIds
    Requests <- MCRequests
    Batch <- MCBatch
    Single = {"s", "d", "n", "again", "next"}
    Denials = {"d"}
    Keys = {"x", "y", "child"}
    KeysOf <- MCKeysOf
    Stream <- MCStream
    Streams = {"x", "y"}
    Number <- MCNumber
    Cause <- MCCause
    Overlap = FALSE
    MaxRestarts = 2
    Sagas <- MCSagas
    Plan <- MCPlan
    RefuseUndo = TRUE
    AckMayBeLost = TRUE
    StoreMayFail = TRUE
    MaxCrashes = 1
SPECIFICATION MCSpec
CHECK_DEADLOCK FALSE
INVARIANTS TypesOK StoreMatchesFile SagaOutcomes
PROPERTIES FileOnlyGrows EverySagaEnds
