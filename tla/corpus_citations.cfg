SPECIFICATION Spec
CONSTANTS
    i1 = i1  i2 = i2  fileA = fileA  fileB = fileB  uriA = uriA  uriB = uriB
    Broken = Broken
    Ingesters <- OneIngester
    FileOrder <- OneFile
    SourceUri <- UriOfOne
    MaxEdits = 0
    MaxRuns = 2
CHECK_DEADLOCK FALSE
INVARIANT CitationsResolve
