SPECIFICATION ChainSpec
CONSTANTS
    a = a
    m = m
    g = g
    Task <- MCTask
    Kind <- MCKind
    Deps <- MCDeps
    Inputs <- MCInputs
    MaxAttempts <- MCMaxAttempts
    RetryOn <- MCRetryOn
    Produces <- MCProduces
    BlockDownstream <- MCTask
    MaxOrdinal = 2
INVARIANTS
    TypeOK
    RunningHasItsAttempt
    StartedIsJustified
    OutputMeansSuccess
    IntentMatchesRun
    BudgetRespected
    ParkHasApproval
    NoOrphanAfterBoot
PROPERTIES
    AbsorbingStates
    PromiseKept
    BrokenIsQuarantined
