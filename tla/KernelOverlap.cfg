CONSTANTS
    Commands <- OverlapCommands
    Batch <- OverlapBatch
    Aggregates = {sr, ep, ap, en}
    NoState = NoState
    Unread = Unread
    sr = sr
    ep = ep
    ap = ap
    en = en
    States <- MCStates
    InitialState <- MCInitialState
    Machine <- MCMachine
    Managed = {sr, ep, ap}
    Overlap = TRUE
    FineClock = TRUE
    AckMayBeLost = FALSE
SPECIFICATION FairSpec
INVARIANTS AnswerMatchesLog LegalTransitions
PROPERTIES EveryCommandEnds
