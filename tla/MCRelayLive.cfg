SPECIFICATION FairSpec
CONSTANTS
    c1 = c1
    c2 = c2
    c3 = c3
    c4 = c4
    c5 = c5
    d1 = d1
    d2 = d2
    t1 = t1
    t2 = t2
    Conns <- ThreeConns
    Devices <- OneDevice
    Tokens <- TwoTokens
    MaxConnections = 3
    MaxPending = 1
    MaxClaims = 2
    InviteCapacity = 1
    None = None
    Declined = Declined
CHECK_DEADLOCK FALSE
PROPERTIES
    EveryTaskSettles
    SupersededLeaves
    KeepsPromiseInTime
