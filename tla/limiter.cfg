SPECIFICATION HistorySpec
CONSTANTS
    c1 = c1
    c2 = c2
    c3 = c3
    Clients <- ThreeClients
    Limit = 1
    Burst = 1
    WindowSeconds = 2
    TicksPerSecond = 2
    MaxTracked = 2
INVARIANTS
    TypeOK
    KeepsMostRecent
    NeverOvercounts
PROPERTIES
    ExactUntilEviction
    SecondLaterSuffices
