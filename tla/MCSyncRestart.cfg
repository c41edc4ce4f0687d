CONSTANTS
    a = a
    b = b
    Companies = {a, b}
    Allowed <- Restarts
    MaxChanges = 2
    MaxFaults = 1
    MaxRequests = 8
    MaxSha = 1
    NumReleases = 6
SPECIFICATION FairSyncSpec
PROPERTIES InterruptedResumes
