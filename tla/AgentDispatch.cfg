SPECIFICATION FairSpec
CONSTANTS
    a = a
    b = b
    Task <- MCTask
    Slug <- MCSlug
    Declares <- MCVerifies
    Verifies <- MCVerifies
    Services <- MCServices
    MaxAttempts <- MCMaxAttempts
    MaxCrashes = 1
CHECK_DEADLOCK FALSE
INVARIANTS
    CheckoutIsExclusive
    OwnCheckoutIsNoObstacle
    MergeSourceIsTheWork
    SuccessCarriesItsReceipt
PROPERTIES
    AttemptsEnd
