SPECIFICATION Spec
CONSTANTS
    nightly = nightly
    report = report
    sweep = sweep
    none = none
    Automation <- ChainOf
    Source <- ChainSource
    Timed = none
    OnlyOnSuccess = {}
    Period = 1
    Cap = 2
    Horizon = 5
    MaxPushes = 1
    MaxEdits = 0
    MaxOutages = 0
PROPERTIES
    DueMarkConsumed
