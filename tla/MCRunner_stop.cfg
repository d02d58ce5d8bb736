SPECIFICATION Spec
CONSTANTS
    a = a  b = b  c = c  d = d
    Req = {a}
    None = None
    Prompt <- PromptsShort
    NumPredict <- NoLimit
    NumKeep <- KeepNone
    Shift = {a}
    Truncate = {}
    Embedding = {}
    Impatient = {}
    Models <- ModelsWhole
    CanResume = {TRUE}
    Parallel = 1
    NumCtx = 4
    ResponsesCap = 1
    MultiUserCache = FALSE
    MaxText = 8
    Vocab = {1}
INVARIANT NoPanic
