SPECIFICATION MCSpec
CONSTANTS
    Cases = {"saving"}
    p1 = p1
    p2 = p2
    Password = {p1, p2}
    None = None
    NoVault = NoVault
    Locked = Locked
    MaxUnsynced = 2
    Tickets = {1, 2, 3, 4}
    MaxAttempts = 2
    Window = 1
    Horizon = 1
    MaxReplaced = 1
    relay = relay
    direct = direct
    Agents = {relay, direct}
    Relayed = {relay}
    Multi = {direct}
    MaxConcurrentSessions = 2
    MaxPairingFailures = 2
    NoAgent = NoAgent
SYMMETRY AnyPassword
VIEW Observed
INVARIANTS
    CopiesJournaled
