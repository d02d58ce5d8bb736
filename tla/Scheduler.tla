------------------------------ MODULE Scheduler ------------------------------
(***************************************************************************)
(* The model scheduler of server/sched.go.                                 *)
(*                                                                         *)
(* HTTP handlers call GetRunner to obtain a runner, a subprocess with one  *)
(* model loaded.  Two goroutines serve them: processPending loads models   *)
(* and evicts others to make room; processCompleted counts finished        *)
(* requests down and unloads idle runners.  They share four bounded        *)
(* channels, the map `loaded' (under loadedMu) and the fields of each      *)
(* runner (under the runner's refMu).                                      *)
(*                                                                         *)
(* A section of code that runs under loadedMu, or under one refMu without  *)
(* blocking, is one step.  refMu is explicit because the code keeps it     *)
(* across blocking operations: a model load, the wait for VRAM recovery    *)
(* and a send on expiredCh.                                                *)
(*                                                                         *)
(* A request leads to at most one newServerFn call, so the llama server    *)
(* created for request q, and the runnerRef that wraps it, is named q.     *)
(***************************************************************************)
EXTENDS Integers, Sequences, FiniteSets

CONSTANTS
    Req,          \* requests; also the names of the runners they create
    Stop,         \* calls of expireRunner (`ollama stop')
    None,         \* the nil pointer
    ModelOf,      \* ModelOf[q]: the model path; a number, since paths are ordered
    OptsOf,       \* OptsOf[q]: [numGPU, rest], the runner options of the request
    DurOf,        \* DurOf[q]: keep_alive of the request, NoDuration if absent
    Impatient,    \* the requests whose client may go away before the answer
    StopModel,    \* StopModel[s]: the model path that call s expires
    KeepAlive,    \* envconfig.KeepAlive()
    Forever,      \* what a negative keep_alive becomes: the longest duration
    MaxRunners,   \* envconfig.MaxRunners(), 0 for automatic
    ModelsPerGPU, \* defaultModelsPerGPU
    NumGPUs,      \* how many GPUs getGpuFn reports
    MaxQueue,     \* envconfig.MaxQueue(), the capacity of every channel
    RefMod        \* refCount is a uint: it counts modulo RefMod

NoDuration == -1
Path == {ModelOf[q] : q \in Req} \cup {StopModel[s] : s \in Stop}

ASSUME ReqAssumption ==
    /\ None \notin Req
    /\ IsFiniteSet(Req)
    /\ Impatient \subseteq Req
    /\ ModelOf \in [Req -> Nat]
    /\ OptsOf \in [Req -> [numGPU : Int, rest : Nat]]
    /\ DurOf \in [Req -> Nat \cup {NoDuration}]
    /\ StopModel \in [Stop -> Nat]

ASSUME EnvAssumption ==
    /\ {KeepAlive, MaxRunners, NumGPUs, RefMod} \subseteq Nat
    /\ {ModelsPerGPU, MaxQueue, Forever} \subseteq Nat \ {0}
    /\ RefMod > Cardinality(Req)

VARIABLES
    req,       \* the GetRunner call of each request, and the request it makes
    pendingReqCh, finishedReqCh, expiredCh, unloadedCh,
    loaded,    \* model path -> runner
    activeLoading,
    runner,    \* the llama server and runnerRef of each name
    p,         \* the locals of processPending
    c,         \* the locals of processCompleted
    stop,      \* the expireRunner calls
    phase,     \* "run", "done" (scheduler context cancelled), "unloaded"
    panicked,
    stale      \* history: some request was given a runner no longer in `loaded'

chans == <<pendingReqCh, finishedReqCh, expiredCh, unloadedCh>>
maps == <<loaded, activeLoading>>
env == <<stop, phase, panicked, stale>>
vars == <<req, chans, maps, runner, p, c, env>>

LoadedRunners == {loaded[m] : m \in Path} \ {None}
Opt(S) == S \cup {None}

\* The holders of refMu across a send on expiredCh, apart from the two loops.
Detached == {"timer", "stop", "failed"}

Requests == [
    pc : {"new", "check", "use", "enqueue", "wait"},
    run : Opt(Req),                         \* the runner it looked up
    ctx : {"live", "done"},
    answer : {"none", "ok", "err", "busy", "twice"},  \* sends on successCh and errCh
    held : Opt(Req),                        \* the runner sent on successCh
    watch : {"none", "armed", "queued", "taken", "gone"}]  \* its finished event

Runners == [
    proc : {"none", "up", "closed"},        \* the subprocess
    loader : Opt(Req),                      \* the request that gave it its Options
    refMu : {"free", "load", "vram", "pending", "completed"} \cup Detached,
    refCount : 0 .. (RefMod - 1),
    dur : Nat,                              \* sessionDuration
    timer : {"nil", "armed", "fired"},      \* expireTimer
    callbacks : Nat,                        \* fired timers waiting for refMu
    retries : Nat]                          \* sleeping senders on expiredCh

Pending == [
    pc : {"idle", "snap", "check", "use", "fit", "space", "loading", "find", "scan",
          "expire", "send", "wait", "exit"},
    req : Opt(Req), run : Opt(Req),
    scan : SUBSET Req, dur : [Req -> Nat], head : Opt(Req),  \* the sorted list
    first : BOOLEAN,                        \* loadedCount = 0
    maxRunners : Nat]

Completed == [
    pc : {"idle", "finish", "expired", "send", "vram", "notify", "exit"},
    req : Opt(Req), run : Opt(Req)]

TypeOK ==
    /\ req \in [Req -> Requests]
    /\ pendingReqCh \in Seq(Req) /\ finishedReqCh \in Seq(Req) /\ expiredCh \in Seq(Req)
    /\ unloadedCh \in Nat
    /\ loaded \in [Path -> Opt(Req)] /\ activeLoading \in Opt(Req)
    /\ runner \in [Req -> Runners]
    /\ p \in Pending
    /\ c \in Completed
    /\ stop \in [Stop -> [pc : {"new", "found", "done"}, run : Opt(Req)]]
    /\ phase \in {"run", "done", "unloaded"}
    /\ panicked \in {"no", "other model", "nil activeLoading"}
    /\ stale \in BOOLEAN

Init ==
    /\ req = [q \in Req |-> [pc |-> "new", run |-> None, ctx |-> "live",
                             answer |-> "none", held |-> None, watch |-> "none"]]
    /\ pendingReqCh = <<>> /\ finishedReqCh = <<>> /\ expiredCh = <<>> /\ unloadedCh = 0
    /\ loaded = [m \in Path |-> None] /\ activeLoading = None
    /\ runner = [r \in Req |-> [proc |-> "none", loader |-> None, refMu |-> "free",
                                refCount |-> 0, dur |-> 0, timer |-> "nil",
                                callbacks |-> 0, retries |-> 0]]
    /\ p = [pc |-> "idle", req |-> None, run |-> None, scan |-> {},
            dur |-> [r \in Req |-> 0], head |-> None, first |-> FALSE,
            maxRunners |-> MaxRunners]
    /\ c = [pc |-> "idle", req |-> None, run |-> None]
    /\ stop = [s \in Stop |-> [pc |-> "new", run |-> None]]
    /\ phase = "run" /\ panicked = "no" /\ stale = FALSE

-----------------------------------------------------------------------------
(* Operations the goroutines share.                                        *)

Free(r) == runner[r].refMu = "free"

NoIncrement(n) == n
Increment(n) == (n + 1) % RefMod

Decrement(n) == (n + RefMod - 1) % RefMod

\* What happens to a runner: a request takes it, it is marked to go away (an idle
\* one keeps its refMu with `holder' for the send on expiredCh), it is unloaded.
TakenNoDefault(ref, q) ==
    [ref EXCEPT !.refCount = Increment(ref.refCount), !.timer = "nil", !.dur = DurOf[q]]
Taken(ref, q) ==
    [ref EXCEPT !.refCount = Increment(ref.refCount), !.timer = "nil",
                !.dur = IF DurOf[q] = NoDuration THEN ref.dur ELSE DurOf[q]]
MarkedNoSend(ref, holder) == [ref EXCEPT !.timer = "nil", !.dur = 0]
Marked(ref, holder) ==
    [ref EXCEPT !.timer = "nil", !.dur = 0,
                !.refMu = IF ref.refCount = 0 THEN holder ELSE ref.refMu]
Unload(ref) == [ref EXCEPT !.timer = "nil", !.proc = "closed"]

\* What happens to a request: a send on successCh or errCh; the send of a runner,
\* with the finished event set up.
Answered(rq, a) == [rq EXCEPT !.answer = IF rq.answer = "none" THEN a ELSE "twice"]
Refused(q) == req' = [req EXCEPT ![q] = Answered(req[q], "err")]
Granted(rq, r) == [Answered(rq, "ok") EXCEPT !.held = r, !.watch = "armed",
                                             !.pc = "wait", !.run = None]

\* The options comparison of needsReload: num_gpu = -1 matches any num_gpu.
SameOptions(existing, new) ==
    /\ existing.rest = new.rest
    /\ new.numGPU < 0 \/ existing.numGPU = new.numGPU

\* What needsReload(r, q) = false takes: matching options and an answer to the
\* ping.  A ping may time out, so needsReload may be true of any runner; an
\* unloaded runner has neither Options nor a process.
MayReuse(r, q) ==
    /\ runner[r].proc = "up"
    /\ SameOptions(OptsOf[runner[r].loader], OptsOf[q])

useLoadedRunner(q, r) ==
    /\ Free(r)
    /\ runner' = [runner EXCEPT ![r] = Taken(runner[r], q)]
    /\ req' = [req EXCEPT ![q] = Granted(req[q], r)]
    /\ stale' = (stale \/ loaded[ModelOf[r]] # r)

\* The blocking send on expiredCh of whoever holds the runner's refMu.
SendAndUnlock(r) ==
    /\ Len(expiredCh) < MaxQueue
    /\ expiredCh' = Append(expiredCh, r)
    /\ runner' = [runner EXCEPT ![r].refMu = "free"]
    /\ UNCHANGED <<pendingReqCh, finishedReqCh, unloadedCh>>

\* ByDurationAndName.Less, on the durations read when the list was sorted.
Less(r1, r2, dur) ==
    \/ dur[r1] < dur[r2]
    \/ dur[r1] = dur[r2] /\ ModelOf[r1] < ModelOf[r2]

IsFirst(r, S, dur) == r \in S /\ \A x \in S \ {r} : Less(r, x, dur)

-----------------------------------------------------------------------------
(* GetRunner, run by the handler of request q, and the request's life.     *)

Lookup(q) ==
    /\ req[q].pc = "new"
    /\ LET r == loaded[ModelOf[q]] IN
       req' = [req EXCEPT ![q] =
                [req[q] EXCEPT !.run = r, !.pc = IF r = None THEN "enqueue" ELSE "check"]]
    /\ UNCHANGED <<chans, maps, runner, p, c, env>>

NeedsReload(q) ==
    /\ req[q].pc = "check" /\ Free(req[q].run)
    /\ \E pc \in {"enqueue", "use"} :
       /\ pc = "use" => MayReuse(req[q].run, q) /\ req[q].ctx = "live"
       /\ req' = [req EXCEPT ![q].pc = pc]
    /\ UNCHANGED <<chans, maps, runner, p, c, env>>

Use(q) ==
    /\ req[q].pc = "use"
    /\ useLoadedRunner(q, req[q].run)
    /\ UNCHANGED <<chans, maps, p, c, stop, phase, panicked>>

Enqueue(q) ==
    /\ req[q].pc = "enqueue" /\ Len(pendingReqCh) < MaxQueue
    /\ pendingReqCh' = Append(pendingReqCh, q)
    /\ req' = [req EXCEPT ![q] = [req[q] EXCEPT !.pc = "wait", !.run = None]]
    /\ UNCHANGED <<finishedReqCh, expiredCh, unloadedCh, maps, runner, p, c, env>>

Busy(q) ==
    /\ req[q].pc = "enqueue" /\ Len(pendingReqCh) >= MaxQueue
    /\ req' = [req EXCEPT ![q] = [Answered(req[q], "busy") EXCEPT !.pc = "wait", !.run = None]]
    /\ UNCHANGED <<chans, maps, runner, p, c, env>>

\* The handler got its answer, served the client and returned.
Complete(q) ==
    /\ req[q].ctx = "live" /\ req[q].answer # "none"
    /\ req' = [req EXCEPT ![q].ctx = "done"]
    /\ UNCHANGED <<chans, maps, runner, p, c, env>>

\* The client went away before there was an answer.
Cancel(q) ==
    /\ q \in Impatient
    /\ req[q].ctx = "live" /\ req[q].answer = "none" /\ req[q].pc # "new"
    /\ req' = [req EXCEPT ![q].ctx = "done"]
    /\ UNCHANGED <<chans, maps, runner, p, c, env>>

\* The goroutine that waits for the context and sends the finished event.
SendFinished(q) ==
    /\ req[q].watch = "armed" /\ req[q].ctx = "done"
    /\ Len(finishedReqCh) < MaxQueue
    /\ finishedReqCh' = Append(finishedReqCh, q)
    /\ req' = [req EXCEPT ![q].watch = "queued"]
    /\ UNCHANGED <<pendingReqCh, expiredCh, unloadedCh, maps, runner, p, c, env>>

-----------------------------------------------------------------------------
(* processPending.                                                         *)

Idle == [p EXCEPT !.pc = "idle", !.req = None, !.run = None]

PRecv ==
    /\ p.pc = "idle" /\ pendingReqCh # <<>>
    /\ pendingReqCh' = Tail(pendingReqCh)
    /\ LET q == Head(pendingReqCh) IN
       p' = IF req[q].ctx = "done" THEN p ELSE [p EXCEPT !.pc = "snap", !.req = q]
    /\ UNCHANGED <<req, finishedReqCh, expiredCh, unloadedCh, maps, runner, c, env>>

AgainDropped == Idle
Again == [p EXCEPT !.pc = "snap", !.run = None]

\* An unload nobody waits for is ignored; while waiting, any unload wakes the
\* loop, not only that of the runner it expired.
PUnloaded ==
    /\ p.pc \in {"idle", "wait"} /\ unloadedCh > 0
    /\ unloadedCh' = unloadedCh - 1
    /\ p' = IF p.pc = "idle" THEN p ELSE Again
    /\ UNCHANGED <<req, pendingReqCh, finishedReqCh, expiredCh, maps, runner, c, env>>

PExit ==
    /\ p.pc \in {"idle", "wait"} /\ phase # "run"
    /\ p' = [p EXCEPT !.pc = "exit"]
    /\ UNCHANGED <<req, chans, maps, runner, c, env>>

AtLimitLate(n) == p.maxRunners > 0 /\ n > p.maxRunners
AtLimit(n) == p.maxRunners > 0 /\ n >= p.maxRunners

\* The top of the inner loop: one look at `loaded' decides between the loaded
\* runner, making room, and loading.
PSnapshot ==
    /\ p.pc = "snap"
    /\ LET r == loaded[ModelOf[p.req]]
           loadedCount == Cardinality(LoadedRunners)
       IN \/ r # None /\ p' = [p EXCEPT !.pc = "check", !.run = r]
          \/ r = None /\ AtLimit(loadedCount) /\ p' = [p EXCEPT !.pc = "find"]
          \/ /\ r = None /\ ~AtLimit(loadedCount)
             /\ p' = [p EXCEPT !.pc = "fit", !.first = (loadedCount = 0),
                        !.maxRunners = IF @ > 0 THEN @
                            ELSE ModelsPerGPU * (IF NumGPUs > 1 THEN NumGPUs ELSE 1)]
    /\ UNCHANGED <<req, chans, maps, runner, c, env>>

PNeedsReloadLoads ==
    /\ p.pc = "check" /\ Free(p.run)
    /\ \E pc \in {"fit", "use"} :
       /\ pc = "use" => MayReuse(p.run, p.req) /\ phase = "run"
       /\ p' = [p EXCEPT !.pc = pc]
    /\ UNCHANGED <<req, chans, maps, runner, c, env>>
PNeedsReload ==
    /\ p.pc = "check" /\ Free(p.run)
    /\ \E pc \in {"expire", "use"} :
       /\ pc = "use" => MayReuse(p.run, p.req) /\ phase = "run"
       /\ p' = [p EXCEPT !.pc = pc]
    /\ UNCHANGED <<req, chans, maps, runner, c, env>>

PUse ==
    /\ p.pc = "use"
    /\ useLoadedRunner(p.req, p.run)
    /\ p' = Idle
    /\ UNCHANGED <<chans, maps, c, stop, phase, panicked>>

\* The error ends the work on the request.
RefuseNoBreak == Refused(p.req) /\ p' = [p EXCEPT !.pc = "snap"]
Refuse == Refused(p.req) /\ p' = Idle

LoadModelFails ==
    /\ p.pc = "fit"
    /\ Refuse
    /\ UNCHANGED <<chans, maps, runner, c, env>>

\* updateFreeSpace lists the loaded runners, then takes each refMu in turn.
UpdateFreeSpace ==
    /\ p.pc = "fit"
    /\ p' = [p EXCEPT !.pc = "space",
               !.scan = IF OptsOf[p.req].numGPU = 0 \/ NumGPUs = 0 THEN {}
                        ELSE LoadedRunners]
    /\ UNCHANGED <<req, chans, maps, runner, c, env>>

UpdateFreeSpaceOf(r) ==
    /\ p.pc = "space" /\ r \in p.scan /\ Free(r)
    /\ p' = [p EXCEPT !.scan = @ \ {r}]
    /\ UNCHANGED <<req, chans, maps, runner, c, env>>

-----------------------------------------------------------------------------
(* load, called by processPending.                                         *)

NewServer ==
    /\ p.pc = "space" /\ p.scan = {} /\ activeLoading = None
    /\ activeLoading' = p.req
    /\ runner' = [runner EXCEPT ![p.req].proc = "up"]
    /\ p' = [p EXCEPT !.pc = "loading", !.run = p.req]
    /\ UNCHANGED <<req, chans, loaded, c, env>>

NewServerFails ==
    /\ p.pc = "space" /\ p.scan = {} /\ activeLoading = None
    /\ Refuse
    /\ UNCHANGED <<chans, maps, runner, c, env>>

\* The server of an earlier attempt, kept while another model was evicted.
ResumeServer ==
    /\ p.pc = "space" /\ p.scan = {} /\ activeLoading # None
    /\ ModelOf[activeLoading] = ModelOf[p.req]
    /\ p' = [p EXCEPT !.pc = "loading", !.run = activeLoading]
    /\ UNCHANGED <<req, chans, maps, runner, c, env>>

PanicOtherModel ==
    /\ p.pc = "space" /\ p.scan = {} /\ activeLoading # None
    /\ ModelOf[activeLoading] # ModelOf[p.req]
    /\ panicked' = "other model"
    /\ UNCHANGED <<req, chans, maps, runner, p, c, stop, phase, stale>>

\* llama.Load succeeded: the runner goes into `loaded', and its refMu to the
\* goroutine that waits until it is up.  A runner still loaded is shut down.
LoadSucceeds ==
    /\ p.pc = "loading"
    /\ LET m == ModelOf[p.req]
           old == loaded[m]
           new == [runner[p.run] EXCEPT !.loader = p.req, !.refMu = "load",
                     !.dur = IF DurOf[p.req] = NoDuration THEN KeepAlive ELSE DurOf[p.req]]
       IN /\ old # None => Free(old)
          /\ runner' = [r \in Req |->
                          IF r = p.run THEN new
                          ELSE IF r = old THEN Unload(runner[r])
                          ELSE runner[r]]
          /\ loaded' = [loaded EXCEPT ![m] = p.run]
    /\ activeLoading' = None
    /\ p' = Idle
    /\ UNCHANGED <<req, chans, c, env>>

\* ErrLoadRequiredFull while other models are loaded: keep the server, evict.
LoadNeedsEviction ==
    /\ p.pc = "loading" /\ ~p.first
    /\ p' = [p EXCEPT !.pc = "find", !.run = None]
    /\ UNCHANGED <<req, chans, maps, runner, c, env>>

\* Any other error, or a model too large for the empty system.  The code closes
\* s.activeLoading, which it reads without loadedMu.
LoadFails ==
    /\ p.pc = "loading" /\ activeLoading # None
    /\ Refuse
    /\ runner' = [runner EXCEPT ![activeLoading].proc = "closed"]
    /\ activeLoading' = None
    /\ UNCHANGED <<chans, loaded, c, env>>

PanicNilActive ==
    /\ p.pc = "loading" /\ activeLoading = None
    /\ panicked' = "nil activeLoading"
    /\ UNCHANGED <<req, chans, maps, runner, p, c, stop, phase, stale>>

\* The goroutine started by load, which holds refMu until the runner is up.
Running(r) ==
    /\ runner[r].refMu = "load" /\ runner[r].proc = "up"
    /\ runner' = [runner EXCEPT ![r] =
                    [runner[r] EXCEPT !.refMu = "free", !.refCount = Increment(runner[r].refCount)]]
    /\ LET q == runner[r].loader IN
       req' = [req EXCEPT ![q] = Granted(req[q], r)]
    /\ UNCHANGED <<chans, maps, p, c, env>>

\* WaitUntilRunning fails: the process died, stalled, or the client went away.
NotRunning(r) ==
    /\ runner[r].refMu = "load"
    /\ runner' = [runner EXCEPT ![r].refMu = "failed"]
    /\ Refused(runner[r].loader)
    /\ UNCHANGED <<chans, maps, p, c, env>>

-----------------------------------------------------------------------------
(* Making room: findRunnerToUnload, and the wait for the unload.           *)

\* The list is sorted once, by the durations of this moment.
FindRunnerToUnload ==
    /\ p.pc = "find"
    /\ \/ LoadedRunners = {} /\ p' = [p EXCEPT !.pc = "snap"]
       \/ LET dur == [r \in Req |-> runner[r].dur] IN
          \E r \in LoadedRunners :
          /\ IsFirst(r, LoadedRunners, dur)
          /\ p' = [p EXCEPT !.pc = "scan", !.scan = LoadedRunners, !.dur = dur, !.head = r]
    /\ UNCHANGED <<req, chans, maps, runner, c, env>>

\* Walk the list for an idle runner; the head of the list if there is none.
Scan(r) ==
    /\ p.pc = "scan" /\ IsFirst(r, p.scan, p.dur) /\ Free(r)
    /\ p' = IF runner[r].refCount # 0 /\ p.scan # {r}
            THEN [p EXCEPT !.scan = @ \ {r}]
            ELSE [p EXCEPT !.run = IF runner[r].refCount = 0 THEN r ELSE p.head,
                    !.scan = {}, !.dur = [x \in Req |-> 0], !.head = None, !.pc = "expire"]
    /\ UNCHANGED <<req, chans, maps, runner, c, env>>

PExpire ==
    /\ p.pc = "expire"
    /\ Free(p.run)
    /\ runner' = [runner EXCEPT ![p.run] = Marked(runner[p.run], "pending")]
    /\ p' = [p EXCEPT !.pc = IF runner[p.run].refCount = 0 THEN "send" ELSE "wait"]
    /\ UNCHANGED <<req, chans, maps, c, env>>

PSendExpired ==
    /\ p.pc = "send"
    /\ SendAndUnlock(p.run)
    /\ p' = [p EXCEPT !.pc = "wait"]
    /\ UNCHANGED <<req, maps, c, env>>

-----------------------------------------------------------------------------
(* processCompleted.                                                       *)

\* A finished request: its runner is looked up by model path.
CRecvFinished ==
    /\ c.pc = "idle" /\ finishedReqCh # <<>>
    /\ finishedReqCh' = Tail(finishedReqCh)
    /\ LET q == Head(finishedReqCh)
           r == loaded[ModelOf[q]]
       IN IF r = None
          THEN req' = [req EXCEPT ![q].watch = "gone"] /\ UNCHANGED c
          ELSE /\ req' = [req EXCEPT ![q].watch = "taken"]
               /\ c' = [pc |-> "finish", req |-> q, run |-> r]
    /\ UNCHANGED <<pendingReqCh, expiredCh, unloadedCh, maps, runner, p, env>>

CIdle == [pc |-> "idle", req |-> None, run |-> None]

\* A runner whose last user left: an expired event to send if it has no keep_alive,
\* else its timer is started (or, if it still has one, reset).
GoneIdleNoTimer(ref) ==
    IF ref.dur = 0 THEN [ref EXCEPT !.timer = "nil", !.refMu = "completed"] ELSE ref
GoneIdle(ref) ==
    IF ref.dur = 0 THEN [ref EXCEPT !.timer = "nil", !.refMu = "completed"]
    ELSE [ref EXCEPT !.timer = "armed"]

CFinish ==
    /\ c.pc = "finish" /\ Free(c.run)
    /\ LET ref == [runner[c.run] EXCEPT !.refCount = Decrement(runner[c.run].refCount)] IN
       /\ runner' = [runner EXCEPT ![c.run] = IF ref.refCount = 0 THEN GoneIdle(ref) ELSE ref]
       /\ c' = IF ref.refCount = 0 /\ ref.dur = 0 THEN [c EXCEPT !.pc = "send", !.req = None]
               ELSE CIdle
    /\ req' = [req EXCEPT ![c.req].watch = "gone"]
    /\ UNCHANGED <<chans, maps, p, env>>

CSendExpired ==
    /\ c.pc = "send"
    /\ SendAndUnlock(c.run)
    /\ c' = CIdle
    /\ UNCHANGED <<req, maps, p, env>>

CRecvExpired ==
    /\ c.pc = "idle" /\ expiredCh # <<>>
    /\ expiredCh' = Tail(expiredCh)
    /\ c' = [pc |-> "expired", req |-> None, run |-> Head(expiredCh)]
    /\ UNCHANGED <<req, pendingReqCh, finishedReqCh, unloadedCh, maps, runner, p, env>>

InUseIgnored(r) == FALSE
InUse(r) == runner[r].refCount > 0

\* The runner is in use: a goroutine sleeps, then sends the event again.
CRetry ==
    /\ c.pc = "expired" /\ Free(c.run) /\ InUse(c.run)
    /\ runner' = [runner EXCEPT ![c.run].retries = runner[c.run].retries + 1]
    /\ c' = CIdle
    /\ UNCHANGED <<req, chans, maps, p, env>>

CDuplicate ==
    /\ c.pc = "expired" /\ Free(c.run) /\ ~InUse(c.run)
    /\ loaded[ModelOf[c.run]] = None
    /\ c' = CIdle
    /\ UNCHANGED <<req, chans, maps, runner, p, env>>

\* Another runner took over the path (the pids differ): shut the orphan down.
COrphan ==
    /\ c.pc = "expired" /\ Free(c.run) /\ ~InUse(c.run)
    /\ loaded[ModelOf[c.run]] \notin {None, c.run}
    /\ runner' = [runner EXCEPT ![c.run] = Unload(runner[c.run])]
    /\ c' = CIdle
    /\ UNCHANGED <<req, chans, maps, p, env>>

CUnload ==
    /\ c.pc = "expired" /\ Free(c.run) /\ ~InUse(c.run)
    /\ loaded[ModelOf[c.run]] = c.run
    /\ runner' = [runner EXCEPT ![c.run] = [Unload(runner[c.run]) EXCEPT !.refMu = "vram"]]
    /\ loaded' = [loaded EXCEPT ![ModelOf[c.run]] = None]
    /\ c' = [c EXCEPT !.pc = "vram"]
    /\ UNCHANGED <<req, chans, activeLoading, p, env>>

\* waitForVRAMRecovery reports: free memory converged, or the wait timed out.
CRecovered ==
    /\ c.pc = "vram"
    /\ runner' = [runner EXCEPT ![c.run].refMu = "free"]
    /\ c' = [c EXCEPT !.pc = "notify", !.run = None]
    /\ UNCHANGED <<req, chans, maps, p, env>>

SendUnloadedLost == UNCHANGED unloadedCh
SendUnloaded == unloadedCh' = unloadedCh + 1

CNotify ==
    /\ c.pc = "notify" /\ unloadedCh < MaxQueue
    /\ SendUnloaded
    /\ c' = CIdle
    /\ UNCHANGED <<req, pendingReqCh, finishedReqCh, expiredCh, maps, runner, p, env>>

CExit ==
    /\ c.pc = "idle" /\ phase # "run"
    /\ c' = [c EXCEPT !.pc = "exit"]
    /\ UNCHANGED <<req, chans, maps, runner, p, env>>

-----------------------------------------------------------------------------
(* Timers, and the goroutines that send on expiredCh on their own.         *)

TimerFires(r) ==
    /\ runner[r].timer = "armed" /\ runner[r].dur # Forever
    /\ runner' = [runner EXCEPT ![r] =
                    [runner[r] EXCEPT !.timer = "fired", !.callbacks = runner[r].callbacks + 1]]
    /\ UNCHANGED <<req, chans, maps, p, c, env>>

\* Stopping the timer does not stop a callback that already runs.
TimerCallback(r) ==
    /\ runner[r].callbacks > 0 /\ Free(r)
    /\ runner' = [runner EXCEPT ![r] =
                    [runner[r] EXCEPT !.callbacks = runner[r].callbacks - 1,
                                      !.timer = "nil", !.refMu = "timer"]]
    /\ UNCHANGED <<req, chans, maps, p, c, env>>

\* The send of a timer callback, an expireRunner call or a failed load.
SendExpired(r) ==
    /\ runner[r].refMu \in Detached
    /\ SendAndUnlock(r)
    /\ UNCHANGED <<req, maps, p, c, env>>

Retry(r) ==
    /\ runner[r].retries > 0 /\ Len(expiredCh) < MaxQueue
    /\ runner' = [runner EXCEPT ![r].retries = runner[r].retries - 1]
    /\ expiredCh' = Append(expiredCh, r)
    /\ UNCHANGED <<req, pendingReqCh, finishedReqCh, unloadedCh, maps, p, c, env>>

-----------------------------------------------------------------------------
(* expireRunner, and the shutdown of the server.                           *)

ExpireLookup(s) ==
    /\ stop[s].pc = "new"
    /\ LET r == loaded[StopModel[s]] IN
       stop' = [stop EXCEPT ![s] = [pc |-> IF r = None THEN "done" ELSE "found", run |-> r]]
    /\ UNCHANGED <<req, chans, maps, runner, p, c, phase, panicked, stale>>

ExpireRunner(s) ==
    /\ stop[s].pc = "found"
    /\ Free(stop[s].run)
    /\ runner' = [runner EXCEPT ![stop[s].run] = Marked(runner[stop[s].run], "stop")]
    /\ stop' = [stop EXCEPT ![s] = [pc |-> "done", run |-> None]]
    /\ UNCHANGED <<req, chans, maps, p, c, phase, panicked, stale>>

\* A signal: schedDone() cancels the context of both loops.
Shutdown ==
    /\ phase = "run"
    /\ phase' = "done"
    /\ UNCHANGED <<req, chans, maps, runner, p, c, stop, panicked, stale>>

ClosingLoadedOnly == LoadedRunners
Closing == LoadedRunners \cup {activeLoading}

unloadAllRunners ==
    /\ phase = "done"
    /\ phase' = "unloaded"
    /\ runner' = [r \in Req |-> IF r \in Closing
                                THEN [runner[r] EXCEPT !.proc = "closed"] ELSE runner[r]]
    /\ activeLoading' = None
    /\ UNCHANGED <<req, chans, loaded, p, c, stop, panicked, stale>>

-----------------------------------------------------------------------------
(* The specification.                                                      *)

Handler(q) == Lookup(q) \/ NeedsReload(q) \/ Use(q) \/ Enqueue(q) \/ Busy(q)
Client(q) == Complete(q) \/ Cancel(q) \/ SendFinished(q)

load ==
    \/ NewServer \/ NewServerFails \/ ResumeServer \/ PanicOtherModel
    \/ LoadSucceeds \/ LoadNeedsEviction \/ LoadFails \/ PanicNilActive

processPending ==
    \/ PRecv \/ PUnloaded \/ PExit \/ PSnapshot \/ PNeedsReload \/ PUse
    \/ LoadModelFails \/ UpdateFreeSpace \/ load
    \/ FindRunnerToUnload \/ PExpire \/ PSendExpired
    \/ \E r \in Req : UpdateFreeSpaceOf(r) \/ Scan(r)

processCompleted ==
    \/ CRecvFinished \/ CFinish \/ CSendExpired \/ CRecvExpired \/ CRetry \/ CDuplicate
    \/ COrphan \/ CUnload \/ CRecovered \/ CNotify \/ CExit

Goroutines(r) ==
    \/ Running(r) \/ NotRunning(r)
    \/ TimerFires(r) \/ TimerCallback(r) \/ SendExpired(r) \/ Retry(r)

expireRunner(s) == ExpireLookup(s) \/ ExpireRunner(s)

\* Nothing is left to do: every call returned, every finished event was counted
\* and both loops wait for work.
Quiescent ==
    /\ \A q \in Req : /\ req[q].pc = "wait" /\ req[q].ctx = "done"
                      /\ req[q].watch \in {"none", "gone"}
    /\ \A s \in Stop : stop[s].pc = "done"
    /\ pendingReqCh = <<>> /\ finishedReqCh = <<>> /\ expiredCh = <<>> /\ unloadedCh = 0
    /\ p.pc = "idle" /\ c.pc = "idle"

\* A bounded set of requests comes to an end and the server waits for ever; a
\* panic, or both loops returning, ends the program.
Terminated == Quiescent \/ panicked # "no" \/ (p.pc = "exit" /\ c.pc = "exit")

Serve ==
    \/ \E q \in Req : Handler(q) \/ Client(q) \/ Goroutines(q)
    \/ processPending
    \/ processCompleted
    \/ \E s \in Stop : expireRunner(s)

Next ==
    \/ panicked = "no" /\ (Serve \/ Shutdown \/ unloadAllRunners)
    \/ Terminated /\ UNCHANGED vars

Spec == Init /\ [][Next]_vars

\* The server while no signal arrives.
ServeNext ==
    \/ panicked = "no" /\ Serve
    \/ Terminated /\ UNCHANGED vars

ServeSpec == Init /\ [][ServeNext]_vars

\* Every goroutine keeps running.  Fairness is strong because a sync.Mutex hands
\* itself to the longest waiter, blocked senders on a channel queue up in order, and
\* select picks at random among its ready cases: what again and again becomes
\* possible is done.  A client may go away but need not.
Fairness ==
    LET Alive(A) == panicked = "no" /\ A IN
    /\ SF_vars(Alive(processPending))
    /\ SF_vars(Alive(processCompleted)) /\ SF_vars(Alive(CRecvFinished))
    /\ \A q \in Req : /\ SF_vars(Alive(Handler(q) \/ Complete(q) \/ SendFinished(q)))
                      /\ SF_vars(Alive(Goroutines(q)))

FairSpec == ServeSpec /\ Fairness

-----------------------------------------------------------------------------
(* Safety.                                                                 *)

\* No request is answered twice.  successCh and errCh have room for one answer
\* each and nobody reads a second one, so a second send would block its goroutine
\* (and the refMu it holds) for ever; an "ok" is what hands out a runner.
AnsweredOnce ==
    \A q \in Req : /\ req[q].answer # "twice"
                   /\ req[q].held # None <=> req[q].answer = "ok"

\* No request is lost: once GetRunner returned, a request without an answer is
\* still queued, in the hands of processPending, or waiting for its runner to come
\* up, unless its client went away.
NoLostRequest ==
    \A q \in Req :
        req[q].pc = "wait" /\ req[q].answer = "none" /\ req[q].ctx = "live" =>
            \/ \E i \in 1 .. Len(pendingReqCh) : pendingReqCh[i] = q
            \/ p.req = q
            \/ \E r \in Req : runner[r].refMu = "load" /\ runner[r].loader = q

\* The requests that were given r and whose finished event is not yet counted.
Users(r) == {q \in Req : req[q].held = r /\ req[q].watch \in {"armed", "queued", "taken"}}

\* refCount counts the users of every runner, for as long as no request was given
\* an unloaded runner: each grant counts once, and each finished event, which
\* processCompleted resolves by model path, is counted against the runner it used.
RefCountExact ==
    ~stale => \A r \in Req : runner[r].refCount = Cardinality(Users(r))

\* A runner some request is using stays loaded and is not shut down, until the
\* server itself stops (same proviso).
InUseStaysLoaded ==
    ~stale => \A r \in Req : Users(r) # {} =>
        /\ loaded[ModelOf[r]] = r
        /\ phase # "unloaded" => runner[r].proc = "up"

\* No runner process outlives the bookkeeping that would shut it down: every
\* process that is up is in `loaded' or is being loaded.
NoLeakedProcess ==
    \A r \in Req : runner[r].proc = "up" => r \in LoadedRunners \/ r = activeLoading

\* What will expire runner r: a timer, a callback, a sleeping retry, an event in
\* expiredCh, or somebody who is about to send or to handle one.
ExpiryPending(r) ==
    \/ runner[r].timer = "armed" /\ runner[r].dur # Forever
    \/ runner[r].callbacks > 0 \/ runner[r].retries > 0
    \/ \E i \in 1 .. Len(expiredCh) : expiredCh[i] = r
    \/ runner[r].refMu # "free"
    \/ c.pc = "expired" /\ c.run = r

\* A loaded runner nobody uses is always on its way out, or armed to be: none is
\* stranded in VRAM without a timer (same proviso).
IdleRunnerExpires ==
    ~stale => \A r \in LoadedRunners : runner[r].refCount = 0 =>
        ExpiryPending(r) \/ (runner[r].timer = "armed" /\ runner[r].dur = Forever)

\* docs/faq.mdx: "As prior models become idle, one or more will be unloaded to make
\* room for the new model."  While processPending waits for room and all runners are
\* idle, some unload is under way: the event it waits for was not consumed before,
\* and no other request revoked the eviction (same proviso).
IdleMakesRoom ==
    p.pc = "wait" /\ ~stale /\ (\A r \in LoadedRunners : runner[r].refCount = 0) =>
        unloadedCh > 0 \/ c.pc \in {"vram", "notify"} \/ \E r \in LoadedRunners : ExpiryPending(r)

\* OLLAMA_MAX_LOADED_MODELS holds at all times, though processPending compares it
\* with a count that is stale when the load ends.
LoadedWithinLimit ==
    p.maxRunners > 0 => Cardinality(LoadedRunners) <= p.maxRunners

\* The safeguard of load ("model was still loaded") is never needed: nobody loads
\* the path while processPending works on it.
NeverStillLoaded == p.pc = "loading" => loaded[ModelOf[p.req]] = None

-----------------------------------------------------------------------------
(* Liveness.                                                               *)

\* A behaviour that the safety findings below have spoilt.
Spoilt == stale \/ panicked # "no"

\* Every request is answered unless its client goes away first: it is not left
\* queued behind a request that waits for an unload nobody will do.
RequestsAnswered ==
    \A q \in Req :
        req[q].pc # "new" ~> req[q].answer # "none" \/ req[q].ctx = "done" \/ Spoilt

\* A runner with a finite keep_alive that nobody uses is used again or unloaded in
\* the end: no timer, event or retry gets lost on the way.
IdleRunnerUnloaded ==
    \A r \in Req :
        r \in LoadedRunners /\ runner[r].refCount = 0 ~>
            r \notin LoadedRunners \/ runner[r].refCount > 0 \/ runner[r].dur = Forever \/ Spoilt

-----------------------------------------------------------------------------
(* What the source says of itself and the code does not keep.              *)

\* runnerRef: "refCount uint // prevent unloading if > 0".  A request that was
\* given a runner and is still being served never sees it shut down.
RefCountPreventsUnload ==
    \A q \in Req :
        req[q].held # None /\ req[q].ctx = "live" /\ phase # "unloaded"
            => runner[req[q].held].proc = "up"

=============================================================================
