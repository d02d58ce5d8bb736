SPECIFICATION Spec
CONSTANTS
    q1 = q1  q2 = q2  q3 = q3  s1 = s1
    Req = {q1, q2, q3}
    Stop = {}
    None = None
    ModelOf <- ModelsShared
    OptsOf <- OptsAuto
    DurOf <- DurKept
    Impatient = {q1}
    StopModel <- StopFirst
    KeepAlive = 1
    Forever = 9
    MaxRunners = 0
    ModelsPerGPU = 2
    NumGPUs = 1
    MaxQueue = 1
    RefMod = 8
INVARIANTS TypeOK AnsweredOnce NoLostRequest RefCountExact InUseStaysLoaded
    NoLeakedProcess IdleMakesRoom IdleRunnerExpires NeverStillLoaded
CHECK_DEADLOCK FALSE
