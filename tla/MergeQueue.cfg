SPECIFICATION FairSpec
CONSTANTS
    Merge <- TwoMerges
    Worktree <- Worktrees
    Unchanged = {"w1"}
    SourcesOf <- Sources
    RepoOf <- Repos
    BranchOf <- OneBranch
    Verify = {"m2"}
    MaxAttempts = 2
    MaxOrdinal = 3
    Mishaps = {"gone", "refuse", "fail", "busy", "conflict"}
    MaxMishaps = 2
    Crashes = 1
INVARIANTS SuccessMeansIntegrated
PROPERTIES ConflictWaitsForAHuman MergesComplete
CHECK_DEADLOCK FALSE
