SPECIFICATION FairSpec
CONSTANTS
    Task <- Tasks
    Needs <- NeedsDef
    Slots = 2
    MaxRounds = 6
    SettleMs = 3
    Jitter = 1
    PumpModes = {TRUE, FALSE}
INVARIANTS WaitIsBounded QuiescentMeansIdle WaitIsHarvested
PROPERTY CallReturns
CHECK_DEADLOCK FALSE
