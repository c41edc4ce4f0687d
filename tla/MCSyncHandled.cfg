CONSTANTS
    a = a
    b = b
    Companies = {a, b}
    Allowed <- Handled
    MaxChanges = 2
    MaxFaults = 2
    MaxRequests = 8
    MaxSha = 2
    NumReleases = 6
SPECIFICATION SyncSpec
INVARIANTS HomeAgreesWithLive RecordedReleaseStands
