CONSTANTS
    p1 = p1
    p2 = p2
    Payments = {p1, p2}
    MaxRetries = 2
    Threshold = 2
    MaxSubmits <- SecondTry
    Idempotent = TRUE
    RejectsUnsent = FALSE
SPECIFICATION MCFairSpec
INVARIANTS TypeOK CircuitMatchesCount SubmittedIsTrue ExecutedOnce RejectionIsFinal
PROPERTY EverySubmitAnswered
CHECK_DEADLOCK FALSE
