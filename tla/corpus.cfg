SPECIFICATION FairSpec
CONSTANTS
    i1 = i1  i2 = i2  fileA = fileA  fileB = fileB  uriA = uriA  uriB = uriB
    Broken = Broken
    Ingesters <- TwoIngesters
    FileOrder <- TwoFiles
    SourceUri <- UriOfEach
    MaxEdits = 1
    MaxRuns = 3
CHECK_DEADLOCK FALSE
INVARIANTS
    TypeOK
    OneDocumentPerSource
    InSync
PROPERTIES
    ReplacesAtomically
    IngestionEnds
