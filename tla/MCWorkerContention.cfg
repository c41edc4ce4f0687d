\* Two jobs of one source that own the same replay signal,
\* two processes that present the same worker id,
\* clock readings up to one tick old when the row locks are obtained.
CONSTANTS
    a = a
    b = b
    w1 = w1
    w2 = w2
    x = x
    Sources = {a}
    NumJobs = 2
    JobSource <- OneSource
    JobPriority <- SamePriority
    Signals = {x}
    JobSignals <- SharedSignals
    Registered <- AllJobs
    Workers = {w1, w2}
    WorkerId <- SameId
    Admits <- AdmitAll
    MaxAttempts = 2
    LeaseTTL = 1
    StaleAfter = 2
    Timeout = 2
    BaseDelay = 1
    MaxDelay = 1
    MaxLag = 1
    MaxGeneration = 3
SPECIFICATION Spec
INVARIANTS
    TypeOK
    AttemptHistory
    LeaseGuardsNewestRun
    PointersNameSuccesses
    ScheduledSignalHasLiveJob
PROPERTIES
    FencedPublication
    OutcomesAreFinal
    ImplementsJobService
