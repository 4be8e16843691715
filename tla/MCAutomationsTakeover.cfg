SPECIFICATION FairSpec
CONSTANTS
    nightly = nightly
    report = report
    sweep = sweep
    none = none
    Automation <- ChainOf
    Source <- ChainSource
    Timed = none
    OnlyOnSuccess = {report}
    Period = 1
    Cap = 1
    Horizon = 2
    MaxPushes = 1
    MaxEdits = 0
    MaxOutages = 1
VIEW ButPast
PROPERTIES
    TakeoverClean
    DueRuns
