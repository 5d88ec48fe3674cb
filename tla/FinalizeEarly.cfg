SPECIFICATION EngineSpec
CONSTANTS
    a = a
    b = b
    c = c
    g = g
    m = m
    tickA = tickA
    tickB = tickB
    timer = timer
    key = key
    NoKey = NoKey
    Task <- ChainTask
    Kind <- ChainKind
    Deps <- ChainDeps
    Inputs <- NoInputs
    MaxAttempts <- Once
    RetryOn <- RetryAll
    Produces <- NoOutputs
    BlockDownstream <- ChainTask
    MaxOrdinal = 2
    TickPass = {tickA}
    AutoPass = {}
    MaxRunning = 2
    QueueCapacity = 2
    IdRank <- ChainRank
    Priority <- SamePriority
    KeyOf <- NoKeys
    TimedTask = {}
    StartFailures = {}
    ChildResults = {"completed", "permanent"}
    MergeResults = {"completed"}
    Decisions = {}
    Controls = {"retry_task"}
    Crashes = FALSE
PROPERTIES
    FinalizeOnlyDeadGraphs
CHECK_DEADLOCK FALSE
