SPECIFICATION Spec
CONSTANTS
    a = a  b = b  c = c  d = d
    Req = {a, b}
    None = None
    Prompt <- PromptsShort
    NumPredict <- LimitOne
    NumKeep <- KeepNone
    Shift = {}
    Truncate = {}
    Embedding = {}
    Impatient = {}
    Models <- ModelsWhole
    CanResume = {TRUE}
    Parallel = 1
    NumCtx = 3
    ResponsesCap = 1
    MultiUserCache = FALSE
    MaxText = 4
    Vocab = {1}
INVARIANT OwnAnswer
