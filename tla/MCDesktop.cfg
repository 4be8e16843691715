SPECIFICATION MCSpec
CONSTANTS
    r1 = r1
    r2 = r2
    r3 = r3
    local = local
    remote = remote
    c1 = c1
    c2 = c2
    Runs <- ThreeRuns
    Ids <- TwoTunnels
    tunnel <- TunnelOf
    RemoteIds <- OneRemote
    Conns <- TwoConns
    runOf <- RunOf
    MaxActiveTunnels = 2
    MaxConnectionsPerTunnel = 1
    MaxGlobalConnections = 1
    NoRun = NoRun
    s1 = s1
    s2 = s2
    s3 = s3
    s4 = s4
    s5 = s5
    first = first
    again = again
    now = now
    person = person
    l1 = l1
    l2 = l2
    l3 = l3
    reused = reused
    Sessions <- FiveSessions
    Prompts <- FourPrompts
    Human <- OnePerson
    Immediate <- OneImmediate
    Launches <- FourLaunches
    session <- SessionOf
    requestId <- RequestId
    operation <- Operation
    dropped = dropped
    other = other
    fresh = fresh
    text = text
    Uploads <- ThreeUploads
    Saves <- OneSave
    Dropped <- OneDropped
    Overwriting <- TwoOverwrite
    MaxUnheard = 1
    NoFile = NoFile
    NoOne = NoOne
    MaxQueuedPrompts = 1
    MaxRecentOutcomes = 2
    MaxLaunched = 1
    MaxGeneration = 1
    MaxEpoch = 3
    NoPrompt = NoPrompt
    NoCall = NoCall
CHECK_DEADLOCK FALSE
INVARIANTS
    StopIsBoundary OneOwner SlotsCovered AtMostOnce GrantsHonoured
    NothingLostUntold
PROPERTIES
    EveryStopAnswered RunsOnceAsPromised StopsAsPromised
