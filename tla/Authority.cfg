CONSTANTS
    gov = gov
    root = root
    agent = agent
    x = x
    y = y
    Anyone = Anyone
    System = System
    AnyCap = AnyCap
    GovernanceCaps = GovernanceCaps
    Root = root
    Actors <- MCActors
    Governors <- MCGovernors
    Caps <- MCCaps
    GrantCap = "grant"
    RevokeCap = "revoke"
    SessionCap = "session"
    Scopes <- MCScopes
    Commands <- MCCommands
    Cmd <- MCCmd
    Ttl = 2
    Forever = 9
    MaxTime = 2
SPECIFICATION MCSpec
CHECK_DEADLOCK FALSE
INVARIANTS TypeOK Revocation CommittedWasGranted OnlyGovernanceGrants
PROPERTY DeniedOnlyUnentitled
