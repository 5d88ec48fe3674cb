SPECIFICATION FairSpec
CONSTANTS
    a = a
    b = b
    c = c
    g = g
    m = m
    tickA = tickA
    tickB = tickB
    timer = timer
    key = key
    NoKey = NoKey
    Task <- PairTask
    Kind <- PairKind
    Deps <- PairDeps
    Inputs <- NoInputs
    MaxAttempts <- FirstTwice
    RetryOn <- RetryAll
    Produces <- NoOutputs
    BlockDownstream <- PairTask
    MaxOrdinal = 2
    TickPass = {tickA}
    AutoPass = {}
    MaxRunning = 2
    QueueCapacity = 2
    IdRank <- PairRank
    Priority <- SamePriority
    KeyOf <- NoKeys
    TimedTask = {}
    StartFailures = {}
    ChildResults = {"completed", "error"}
    MergeResults = {}
    Decisions = {}
    Controls = {"stop"}
    Crashes = FALSE
PROPERTIES
    StopCompletes
CHECK_DEADLOCK FALSE
