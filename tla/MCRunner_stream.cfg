SPECIFICATION Spec
CONSTANTS
    a = a  b = b  c = c  d = d
    Req = {a, b, c}
    None = None
    Prompt <- PromptsShared
    NumPredict <- NoLimit
    NumKeep <- KeepMixed
    Shift = {a, b}
    Truncate = {}
    Embedding = {}
    Impatient = {a}
    Models <- ModelsPair
    CanResume = {TRUE, FALSE}
    Parallel = 2
    NumCtx = 3
    ResponsesCap = 1
    MultiUserCache = TRUE
    MaxText = 5
    Vocab = {1}
INVARIANTS TypeOK SlotPerPermit OwnAnswer ContextIsHistory PendingInOneBatch
    TokensResolved BatchesInOrder
