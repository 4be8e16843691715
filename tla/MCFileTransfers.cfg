SPECIFICATION MCSpec
CONSTANTS
    up1 = up1
    up2 = up2
    down = down
    docs = docs
    Uploads <- TwoUploads
    Downloads <- OneDownload
    Folders <- OneFolder
    folder <- SameFolder
    announced <- OneByte
    FileJobLimit = 2
    ActiveUploadLimit = 2
    ActiveDownloadLimit = 1
    MaxSessionBytes = 2
    CommandCapacity = 1
    OutgoingCapacity = 1
    MaxSessions = 2
    RequestCapacity = 1
    MaxBegun = 1
    None = None
SYMMETRY Symmetry
VIEW Observed
CHECK_DEADLOCK FALSE
INVARIANTS
    TypeOK
    AnswersHonest
    BytesAccounted
    ResourcesOwned
    DrainedClean
    NoLostWakeup
    ShownIsReal
PROPERTIES
    PublishesAsPromised
