CONSTANTS
    d1 = d1
    d2 = d2
    g1 = g1
    slow = slow
    fast = fast
    h1 = h1
    h2 = h2
    Devices = {d1}
    Groups = {g1}
    Timings = {slow, fast}
    Inherit = Inherit
    NoGroup = NoGroup
    Handlers = {h1, h2}
    MaxNow = 2
    MaxEdits = 2
    MaxFaults = 1
SPECIFICATION Spec
INVARIANTS MaintenanceHolds NoMissedEdit IncidentNotLost
PROPERTIES EditsTakeEffect
