SPECIFICATION HistorySpec
CONSTANTS
    c1 = c1
    c2 = c2
    c3 = c3
    Clients <- OneClient
    Limit = 2
    Burst = 1
    WindowSeconds = 2
    TicksPerSecond = 2
    MaxTracked = 2
PROPERTY RetryAfterSuffices
