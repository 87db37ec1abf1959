CONSTANTS
    Effectives <- MCEffectives
    Reminder = 2
    MaxNow = 7
SPECIFICATION Spec
INVARIANTS
    StatusIsHysteresis
    OutagesMatchHistory
    RecoveryFollowsDown
    ReminderSpacing
CHECK_DEADLOCK FALSE
