CONSTANTS
    Devices = {d1, d2}
    Effectives <- MCEffectives
    Reminder = 2
    Collapse = TRUE
    FaultModels <- MCFaultModels
    MaxNow = 6
    MaxRestarts = 2
SYMMETRY Symmetry
SPECIFICATION Spec
INVARIANTS
    IInv
    DiskAgrees
    RecoveryOnlyIfAlerted
    NoReAlert
CHECK_DEADLOCK FALSE
