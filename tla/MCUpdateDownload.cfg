SPECIFICATION Spec
CONSTANTS
    r1 = r1
    r2 = r2
    MaxVersion = 3
    Requests = {r1}
    MaxReleases = 2
    MaxRestarts = 1
    MaxFaults = 1
INVARIANTS
    DownloadFindsRelease
