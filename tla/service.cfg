SPECIFICATION FairSpec
CONSTANTS
    a1 = a1  s1 = s1  q1 = q1  q2 = q2
    Apps <- OneApp
    Scripts <- OneScript
    Queries <- TwoQueries
INVARIANTS
    TypeOK
    SchemaAfterStart
    FailsOnlyForCause
    LeavesOnlyEmbeddings
PROPERTY
    StartsAnyway
