CONSTANTS
    d1 = d1
    d2 = d2
    slow = slow
    fast = fast
    c1 = c1
    Devices = {d1}
    Timings = {slow, fast}
    Checks = {c1}
    Slots = 2
    QueueCap = 1
    MaxLoops = 3
SPECIFICATION Spec
INVARIANTS OneLoop OneLateVerdict
PROPERTIES StopReturns ImplementsWorkerSet
CHECK_DEADLOCK FALSE
