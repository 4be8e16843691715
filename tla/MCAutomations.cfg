SPECIFICATION Spec
CONSTANTS
    nightly = nightly
    report = report
    sweep = sweep
    none = none
    Automation <- ChainOf
    Source <- ChainSource
    Timed = none
    OnlyOnSuccess = {}
    Period = 1
    Cap = 1
    Horizon = 2
    MaxPushes = 1
    MaxEdits = 1
    MaxOutages = 1
ACTION_CONSTRAINT OutageMeetsRemoval
VIEW ButHistory
INVARIANTS
    TypeOK
    RunsCounted
PROPERTIES
    ServiceNeverRepeats
    ProgressStays
    DueChainStays
