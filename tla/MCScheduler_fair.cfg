SPECIFICATION FairSpec
CONSTANTS
    q1 = q1  q2 = q2  q3 = q3  s1 = s1
    Req = {q1, q3}
    Stop = {s1}
    None = None
    ModelOf <- ModelsShared
    OptsOf <- OptsAuto
    DurOf <- DurMixed
    Impatient = {q1, q3}
    StopModel <- StopFirst
    KeepAlive = 1
    Forever = 9
    MaxRunners = 1
    ModelsPerGPU = 1
    NumGPUs = 1
    MaxQueue = 4
    RefMod = 8
INVARIANTS IdleRunnerExpires LoadedWithinLimit
PROPERTIES RequestsAnswered IdleRunnerUnloaded
