SPECIFICATION FairSpec
CONSTANTS
    a = a
    b = b
    c = c
    g = g
    m = m
    tickA = tickA
    tickB = tickB
    timer = timer
    key = key
    NoKey = NoKey
    Task <- GateTask
    Kind <- GateKind
    Deps <- GateDeps
    Inputs <- NoInputs
    MaxAttempts <- FirstTwice
    RetryOn <- RetryAll
    Produces <- NoOutputs
    BlockDownstream <- GateTask
    MaxOrdinal = 2
    TickPass = {tickA}
    AutoPass = {}
    MaxRunning = 2
    QueueCapacity = 1
    IdRank <- GateRank
    Priority <- GatePriority
    KeyOf <- GateKeys
    TimedTask = {}
    StartFailures = {}
    ChildResults = {"completed", "error"}
    MergeResults = {}
    Decisions = {"approved", "rejected"}
    Controls = {"pause", "resume"}
    Crashes = TRUE
INVARIANTS
    KeyIsExclusive
PROPERTIES
    PauseDrains
    RunFinishes
CHECK_DEADLOCK FALSE
