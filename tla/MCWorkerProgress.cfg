\* A sweep that runs; executors that may do anything or nothing, or that poll
\* and may die at every attempt.
CONSTANTS
    a = a
    b = b
    w1 = w1
    w2 = w2
    Sources = {a}
    NumJobs = 2
    JobSource <- OneSource
    JobPriority <- SamePriority
    Signals = {}
    JobSignals <- NoSignals
    Registered <- AllJobs
    Workers = {w1, w2}
    WorkerId <- SameId
    Admits <- AdmitAll
    MaxAttempts = 2
    LeaseTTL = 1
    StaleAfter = 2
    Timeout = 1
    BaseDelay = 1
    MaxDelay = 1
    MaxLag = 0
    MaxGeneration = 0
SPECIFICATION SweepSpec
PROPERTIES
    NoStrandedRun
    EveryJobSettles
