\* Two sources; the handler version of the first job is not registered.
CONSTANTS
    a = a
    b = b
    w1 = w1
    Sources = {a, b}
    NumJobs = 2
    JobSource <- TwoSources
    JobPriority <- SamePriority
    Signals = {}
    JobSignals <- NoSignals
    Registered <- AllButFirst
    Workers = {w1}
    WorkerId <- SameId
    Admits <- AdmitAll
    MaxAttempts = 1
    LeaseTTL = 1
    StaleAfter = 2
    Timeout = 2
    BaseDelay = 1
    MaxDelay = 1
    MaxLag = 0
    MaxGeneration = 1
SPECIFICATION FairSpec
PROPERTIES
    NoSourceStarves
