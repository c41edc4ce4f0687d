CONSTANTS
    a = a
    b = b
    Companies = {a, b}
    Allowed <- Hostile
    MaxChanges = 2
    MaxFaults = 2
    MaxRequests = 8
    MaxSha = 2
    NumReleases = 6
SPECIFICATION SyncSpec
INVARIANTS BaselineFaithful OneCandidate
PROPERTIES MovesAlongParents RolledBackStays
