SPECIFICATION FairSpec
CONSTANTS
    r1 = r1
    r2 = r2
    r3 = r3
    Requests <- Requests2
    Providers <- ManagedProviders
    Managed <- ManagedProviders
    Routes <- ManagedRoutes
    Available <- ManagedProviders
    Extractive <- None
    FailureThreshold = 2
    RecoveryTicks = 5
    RetryAttempts = 2
    CallTicks = 2
    BackoffBase = 1
    BackoffCap = 2
PROPERTIES
    GateSpec
    EveryRequestAnswered
    NeverWedged
