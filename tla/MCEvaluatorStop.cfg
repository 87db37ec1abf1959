CONSTANTS
    Devices = {d1}
    Effectives <- MCEffectives
    Reminder = 0
    Collapse = TRUE
    FaultModels = {{"stop"}}
    MaxNow = 5
    MaxRestarts = 1
SPECIFICATION Spec
INVARIANTS
    NoSilentOutage
CHECK_DEADLOCK FALSE
