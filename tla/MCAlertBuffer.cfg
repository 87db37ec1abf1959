CONSTANTS
    d1 = d1
    d2 = d2
    lone1 = lone1
    lone2 = lone2
    site = site
    Devices = {d1, d2, lone1, lone2}
    Groups = {site}
    Ungrouped = Ungrouped
    GroupOf <- MCGroupOf
    Recipients <- MCRecipients
    Windows = {0, 2}
    MaxHold = 2
    DigestThreshold = 2
    GlobalThreshold = 3
    MaxPerHour = 2
    Hour = 2
    MaxNow = 5
    MaxOutages = 3
    MaxEdits = 1
SYMMETRY MCSymmetry
SPECIFICATION Spec
INVARIANTS
    TypeOK
    EveryAlertOnce
    HeldAtMostMaxHold
    SiteOutageGoesAtOnce
    
    FirstWithheldIsTold
CHECK_DEADLOCK FALSE
