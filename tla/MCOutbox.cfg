CONSTANTS
    good = good
    good2 = good2
    bad = bad
    Mails = {good, good2, bad}
    Poison = {bad}
    Limit = 2
    Backoff <- MCBackoff
    MaxFaults = 1
SPECIFICATION Spec
INVARIANTS
    TypeOK
    NothingForgotten
    NoDuplicateByStop
PROPERTIES
    AttemptsAreSends
    BackoffRespected
    AlertArrives
