SPECIFICATION EngineSpec
CONSTANTS
    a = a
    b = b
    c = c
    g = g
    m = m
    tickA = tickA
    tickB = tickB
    timer = timer
    key = key
    NoKey = NoKey
    Task <- PairTask
    Kind <- PairKind
    Deps <- PairDeps
    Inputs <- NoInputs
    MaxAttempts <- FirstTwice
    RetryOn <- RetryAll
    Produces <- NoOutputs
    BlockDownstream = {}
    MaxOrdinal = 2
    TickPass = {tickA, tickB}
    AutoPass = {}
    MaxRunning = 2
    QueueCapacity = 2
    IdRank <- PairRank
    Priority <- SamePriority
    KeyOf <- NoKeys
    TimedTask = {a}
    StartFailures = {"transient"}
    ChildResults = {"completed", "error"}
    MergeResults = {}
    Decisions = {}
    Controls = {"pause", "resume", "stop", "retry_task"}
    Crashes = TRUE
SYMMETRY TickSymmetry
INVARIANTS
    EngineTypeOK
    OneOwner
    SlotsAccounted
    DrainedRunIsIdle
    NoStragglerOutlivesStop
PROPERTIES
    ClaimsNeedALiveRun
CHECK_DEADLOCK FALSE
