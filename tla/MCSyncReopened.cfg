CONSTANTS
    a = a
    b = b
    Companies = {a, b}
    Allowed <- Reopening
    MaxChanges = 3
    MaxFaults = 0
    MaxRequests = 8
    MaxSha = 1
    NumReleases = 6
SPECIFICATION FairSyncSpec
PROPERTIES CatchesUp
