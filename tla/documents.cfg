SPECIFICATION Spec
CONSTANTS
    one = one  two = two
    NoHeading = Document
    MaxLines = 4
    Sizes = {1, 5}
    Texts <- SmallTexts
    Labels <- TwoLabels
    TargetTokens = 3
    OverlapTokens = 1
    Asked = {1, 3}
    RetrievalLimit = 2
    Quoted = {3}
    BatchSize = 2
INVARIANTS
    TypeOK
    NoWordLost
    WindowsOverlap
    OwnVector
    CitationsSound
    PromptMatches
    SupportedWasShown
    CitedTextTraceable
