CONSTANTS
    Commands <- SettlementCommands
    Batch <- SettlementBatch
    Aggregates = {sr, ep, ap, en}
    NoState = NoState
    Unread = Unread
    sr = sr
    ep = ep
    ap = ap
    en = en
    States <- MCStates
    InitialState <- MCInitialState
    Machine <- MCMachine
    Managed = {sr, ep, ap}
    Overlap = FALSE
    FineClock = TRUE
    AckMayBeLost = FALSE
SPECIFICATION Spec
INVARIANTS TypeOK StateMatchesLog LogIsOneChain
PROPERTY IsAtomic
