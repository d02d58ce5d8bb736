SPECIFICATION FairSpec
CONSTANTS
    a = a  b = b  c = c  d = d
    Req = {a, b, c, d}
    None = None
    Prompt <- PromptsLong
    NumPredict <- LimitMixed
    NumKeep <- KeepMixed
    Shift = {a}
    Truncate = {b}
    Embedding = {c, d}
    Impatient = {a, c}
    Models <- ModelsBoth
    CanResume = {TRUE}
    Parallel = 1
    NumCtx = 2
    ResponsesCap = 1
    MultiUserCache = FALSE
    MaxText = 4
    Vocab = {1}
PROPERTIES EveryRequestEnds GoneIsRemoved
CHECK_DEADLOCK FALSE
