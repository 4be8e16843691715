SPECIFICATION Spec
CONSTANTS
    nightly = nightly
    report = report
    sweep = sweep
    none = none
    Automation <- AllThree
    Source <- ThreeSources
    Timed = none
    OnlyOnSuccess = {}
    Period = 1
    Cap = 2
    Horizon = 4
    MaxPushes = 1
    MaxEdits = 1
    MaxOutages = 0
INVARIANTS
    CapHolds
