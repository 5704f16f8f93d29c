CONSTANTS
    Accounts = {d, c, o}
    Debit = d
    Credit = c
    d = d
    c = c
    o = o
    Heartbeat = Heartbeat
    Legacy = Legacy
    Moves = {m1}
    m1 = m1
    None = None
    Plans <- MCPlans
    MaxEras = 1
SPECIFICATION Spec
INVARIANT LockedIsGenesis
