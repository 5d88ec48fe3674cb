SPECIFICATION FairSpec
CONSTANTS
    a = a
    b = b
    c = c
    Task <- MCTask
    Unknown = Unknown
CHECK_DEADLOCK FALSE
INVARIANTS
    AcceptedIsAcyclic
    ReportedIsCycle
    InputVerdictIsExact
    DepthIsLongestChain
PROPERTIES
    PlanningEnds
