SPECIFICATION Spec
CONSTANTS
    r1 = r1
    r2 = r2
    r3 = r3
    Requests <- Requests3
    Providers <- AllProviders
    Managed <- ManagedProviders
    Routes <- RouterRoutes
    Available <- AllProviders
    Extractive <- LocalExtractive
    FailureThreshold = 2
    RecoveryTicks = 4
    RetryAttempts = 2
    CallTicks = 1
    BackoffBase = 1
    BackoffCap = 2
SYMMETRY RequestSymmetry
INVARIANTS
    TypeOK
    BreakerShape
    SoleProbe
    ExtractiveSafetyNet
PROPERTY ManagedFirst
