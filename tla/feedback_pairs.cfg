SPECIFICATION Spec
CONSTANTS
    w1 = w1  w2 = w2  t1 = t1  r1 = r1  r2 = r2
    good = good  bad = bad  text = text
    NoTrace = NoTrace  NoResponse = NoResponse  NoRating = NoRating
    NoText = NoText  NoRun = NoRun
    Workers <- OneWorker
    Traces <- OneTrace
    Responses <- Answers
    Ratings <- Verdicts
    Corrections <- Texts
    MaxFeedback = 1
SYMMETRY Symmetry
CHECK_DEADLOCK FALSE
INVARIANT DatasetFaithful
