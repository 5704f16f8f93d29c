CONSTANTS
    Commands <- RaceCommands
    Batch <- RaceBatch
    Aggregates = {sr, ep, ap, en}
    NoState = NoState
    Unread = Unread
    sr = sr
    ep = ep
    ap = ap
    en = en
    States <- MCStates
    InitialState <- MCInitialState
    Machine <- MCMachine
    Managed = {sr, ep, ap}
    Overlap = TRUE
    FineClock = TRUE
    AckMayBeLost = FALSE
SPECIFICATION Spec
INVARIANT StateMatchesLog
