SPECIFICATION Spec
CONSTANTS
    c1 = c1
    c2 = c2
    c3 = c3
    c4 = c4
    c5 = c5
    d1 = d1
    d2 = d2
    t1 = t1
    t2 = t2
    Conns <- FiveConns
    Devices <- TwoDevices
    Tokens <- TwoTokens
    MaxConnections = 4
    MaxPending = 2
    MaxClaims = 2
    InviteCapacity = 1
    None = None
    Declined = Declined
SYMMETRY Symmetry
CONSTRAINT Instances
CHECK_DEADLOCK FALSE
INVARIANTS
    TypeOK
    ListingIsExact
    LinkedWithOwner
    DialsAccounted
    CarriersAccounted
PROPERTIES
    KeepsPromise
    NoLateLink
