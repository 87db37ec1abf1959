CONSTANTS
    Devices = {d1}
    DayLen = 2
    Threshold = 2
    Batch = 1
    Chunk = 2
    RawDays <- MCRawDays
    RollupDays <- MCRollupDays
    MaxNow = 6
    MaxFailures = 2
    MaxFaults = 1
    None = None
SPECIFICATION Spec
INVARIANTS
    TypeOK
    HistoryIsTrue
    PrunedOnceRolledUp
PROPERTY
    CatchesUp
