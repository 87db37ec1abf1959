CONSTANTS
    d1 = d1
    d2 = d2
    Devices = {d1, d2}
    ChannelSize = 2
    FlushSize = 2
    DrainSize = 1
    MaxSamples = 5
    MaxFaults = 1
SPECIFICATION Spec
INVARIANTS
    TypeOK
    OnePlace
PROPERTY
    SampleLands
CHECK_DEADLOCK FALSE
