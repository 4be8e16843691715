SPECIFICATION Spec
CONSTANTS
    nightly = nightly
    report = report
    sweep = sweep
    none = none
    Automation <- Solo
    Source <- SoloSource
    Timed = none
    OnlyOnSuccess = {}
    Period = 1
    Cap = 1
    Horizon = 4
    MaxPushes = 1
    MaxEdits = 0
    MaxOutages = 0
ACTION_CONSTRAINT PromptDue
PROPERTIES
    ServiceRunNotRepeated
