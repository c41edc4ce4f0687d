CONSTANTS
    a = a
    b = b
    Companies = {a, b}
    Allowed <- Outages
    MaxChanges = 2
    MaxFaults = 2
    MaxRequests = 8
    MaxSha = 2
    NumReleases = 6
SPECIFICATION FairSyncSpec
PROPERTIES RequestsSettle CatchesUp
