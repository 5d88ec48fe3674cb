SPECIFICATION EngineSpec
CONSTANTS
    a = a
    b = b
    c = c
    g = g
    m = m
    tickA = tickA
    tickB = tickB
    timer = timer
    key = key
    NoKey = NoKey
    Task <- MixedTask
    Kind <- MixedKind
    Deps <- MixedDeps
    Inputs <- MixedInputs
    MaxAttempts <- MixedTwice
    RetryOn <- RetryAll
    Produces <- MixedProduces
    BlockDownstream <- MixedTask
    MaxOrdinal = 2
    TickPass = {tickA}
    AutoPass = {timer}
    MaxRunning = 2
    QueueCapacity = 2
    IdRank <- MixedRank
    Priority <- SamePriority
    KeyOf <- NoKeys
    TimedTask = {}
    StartFailures = {"permanent"}
    ChildResults = {"completed", "error"}
    MergeResults = {"completed", "transient", "permanent", "threw", "conflicted", "queued"}
    Decisions = {"approved", "rejected"}
    Controls = {"pause", "resume", "stop", "retry_task", "cancel_task"}
    Crashes = TRUE
PROPERTIES
    LedgerSpec
CHECK_DEADLOCK FALSE
