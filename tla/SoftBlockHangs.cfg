SPECIFICATION EngineSpec
CONSTANTS
    a = a
    b = b
    c = c
    g = g
    m = m
    tickA = tickA
    tickB = tickB
    timer = timer
    key = key
    NoKey = NoKey
    Task <- PairTask
    Kind <- PairKind
    Deps <- ReaderDeps
    Inputs <- ReaderInputs
    MaxAttempts <- Once
    RetryOn <- RetryAll
    Produces <- ReaderProduces
    BlockDownstream <- PairTask
    MaxOrdinal = 2
    TickPass = {tickA}
    AutoPass = {}
    MaxRunning = 2
    QueueCapacity = 2
    IdRank <- PairRank
    Priority <- SamePriority
    KeyOf <- NoKeys
    TimedTask = {}
    StartFailures = {}
    ChildResults = {"completed"}
    MergeResults = {}
    Decisions = {}
    Controls = {"cancel_task"}
    Crashes = FALSE
INVARIANTS
    SoftBlockCanClear
CHECK_DEADLOCK FALSE
