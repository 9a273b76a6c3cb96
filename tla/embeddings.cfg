SPECIFICATION FairSpec
CONSTANTS
    r1 = r1  r2 = r2  hash = hash  small = small  large = large
    a = a  b = b  c = c
    Nothing = Nothing
    Ttl = 1
    MaxEntries = 2
    Requests <- TwoRequests
    Texts <- ThreeTexts
    Asks <- QueryAndDocument
    Configs <- AllConfigs
    Local <- HashProvider
    Class <- ClassOf
    Attempts = 2
    MaxBatch = 2
    MaxRestarts = 1
INVARIANTS
    TypeOK
    ResultsFaithful
    CacheFaithful
    KeepsRecentlyUsed
PROPERTY
    EmbeddingEnds
