SPECIFICATION Spec
CONSTANTS
    a = a  b = b  c = c  d = d
    Req = {a, b, c, d}
    None = None
    Prompt <- PromptsMixed
    NumKeep <- KeepMixed
    Shift = {a, b}
    Parallel = 2
    NSeqMax = 2
    NumCtx = 4
    Size = 4
    BatchSize = 2
    NUbatch = 2
    NSwa = 0
    MultiUserCache = TRUE
    Vocab = {1}
    NumPredict <- PredictMixed
    Embedding = {d}
    MaxCut = 1
INVARIANTS TypeOK KvHoldsInputs AttendsToText NeverRefused
