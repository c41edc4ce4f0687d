CONSTANTS
    a = a
    b = b
    c = c
    d = d
    i1 = i1
    i2 = i2
    x = x
    y = y
    Running = {"incidents"}
    Users = {a, b, c, d}
    Invitations = {i1, i2}
    Requests = {r1, r2}
    SeatLimit = 3
    Beginnings <- MCBeginnings
    Guests = {c, d}
    Offers = {"OWNER", "MEMBER"}
    RoleChanges = {"OWNER", "MEMBER"}
    StatusChanges = {"active", "suspended"}
    MaxRequests = 3
    Free = Free
    Rows = {1, 2, 3, 4}
    Uploads <- MCUploads
    Chunk = 2
    Calls = {c1, c2}
    NumPublished = 2
    MaxErrors = 2
    MaxEdits = 3
    Nobody = Nobody
    Workspaces = {w1, w2}
    Facts <- MCFacts
    MaxFacts = 3
    MaxActs = 2
    Unknown = Unknown
    Hidden = Hidden
    NumReleases = 2
    Untils = {1, 2}
    Companies = {x, y}
    Registered = {x}
    Enriched = {y}
    Listed <- MCListed
    MaxAttempts = 2
    MaxDay = 2
    MaxOffers = 1
    MaxTrouble = 1
    MaxCommands = 1
    NoJob = NoJob
    Kinds = {"network", "parser", "normalize"}
    Domain <- MCDomain
    Waits = {}
    Level0 = {}
    PolicyAttempts = 1
    MaxIncidents = 3
    MaxFaults = 3
    MaxOwnerActs = 2
    MaxPolls = 3
    NoFault = NoFault
    Processes = {p1, p2}
    Schemas = {"x1", "x2"}
    Etags = {"e1", "e2"}
    MaxServed = 2
    MaxStops = 2
    Absent = Absent
    Empty = Empty
    MaxRestarts = 1
    Scopes <- MCScopes
    NoTask = NoTask
    page1 = page1
    Schedulers = {s1, s2}
    Pages = {page1}
    Inns = {x, y}
    Lists <- MCLists
    BatchLimit = 2
    MaxTries = 2
    MaxCrawls = 2
    MaxTroubles = 1
SPECIFICATION ComponentsSpec
INVARIANT PlaybooksCounted
CHECK_DEADLOCK FALSE
