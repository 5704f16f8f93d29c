CONSTANTS
    Commands = {c1, c2, c3}
    Batches <- MCBatches
    Aside = {"unknown"}
    Kinds <- MCKinds
    Aggregates = {payment, transfer}
    payment = payment
    transfer = transfer
    c1 = c1
    c2 = c2
    c3 = c3
    Fields <- MCFields
    Sets <- MCSets
    Inserts <- MCInserts
    PaymentEvents <- MCPayment
    Counted <- MCCounted
    Ttl = 2
    MaxTime = 5
    MaxAside = 1
    MaxBoots = 1
    Overlaps = {"apart", "any"}
    AckMayBeLost = TRUE
SPECIFICATION MCSpec
CHECK_DEADLOCK FALSE
INVARIANTS TypeOK ReadModelsFollowLog AnswerWithinTtl OtherModelsFollowLog
