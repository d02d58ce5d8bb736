------------------------- MODULE SchedulerUseProofs -------------------------
(* What refCount and the expiry of idle runners rest on: theorems about    *)
(* Scheduler, for any sets of requests and any limits.                     *)
EXTENDS SchedulerProofs

-----------------------------------------------------------------------------
(* The invariant.                                                          *)

\* Whoever has a runner in hand has one of its own model.
SameModel ==
    /\ \A q \in Req : /\ req[q].run # None => ModelOf[req[q].run] = ModelOf[q]
                      /\ req[q].held # None => ModelOf[req[q].held] = ModelOf[q]
    /\ p.pc \in {"check", "use"} => ModelOf[p.run] = ModelOf[p.req]
    /\ \A r \in Known : ModelOf[runner[r].loader] = ModelOf[r]

\* A loaded runner is up until the server stops; one that comes up is loaded; one
\* whose memory is being recovered is not.
UpWhileLoaded ==
    /\ \A m \in Path : loaded[m] # None /\ phase # "unloaded" => runner[loaded[m]].proc = "up"
    /\ \A r \in Req : runner[r].refMu = "load" => loaded[ModelOf[r]] = r
    /\ c.pc = "vram" => c.run \notin LoadedRunners

\* Until the server stops, so is the one being loaded, which is the one load works on.
LoadingUp ==
    phase # "unloaded" =>
        /\ activeLoading # None => runner[activeLoading].proc = "up"
        /\ p.pc = "loading" => activeLoading = p.run

\* A finished event is sent once, and processCompleted counts it against the runner
\* that was used.
Finishing ==
    /\ \A i, j \in 1 .. Len(finishedReqCh) : finishedReqCh[i] = finishedReqCh[j] => i = j
    /\ \A i \in 1 .. Len(finishedReqCh) : req[finishedReqCh[i]].watch = "queued"
    /\ c.pc = "finish" => /\ req[c.req].watch = "taken"
                          /\ ~stale => req[c.req].held = c.run
    /\ \A q \in Req : req[q].watch # "none" => req[q].held # None

\* The counts are exact, and a runner in use is the one loaded for its model.
Counted ==
    /\ RefCountExact
    /\ ~stale => \A r \in Req : Users(r) # {} => loaded[ModelOf[r]] = r

\* An unload is under way, or was and processPending has yet to hear of it.
UnloadComes == unloadedCh > 0 \/ c.pc \in {"vram", "notify"}

\* What processPending means to expire is still loaded, or it will hear of an unload.
Room ==
    /\ p.pc \in {"check", "expire", "send", "wait"} =>
          p.run \in Req /\ (p.run \in LoadedRunners \/ UnloadComes)
    /\ p.pc = "scan" => p.scan \cup {p.head} \subseteq LoadedRunners \/ UnloadComes

\* The runner processPending expired does not get an endless keep_alive back.
StillGoing == p.pc \in {"send", "wait"} => runner[p.run].dur # Forever

-----------------------------------------------------------------------------
(* The fields of a runner after each operation.                            *)

\* A request takes the runner.
LEMMA TakenFields ==
    ASSUME NEW ref \in GoodRunners, NEW q \in Req
    PROVE  /\ Taken(ref, q).proc = ref.proc /\ Taken(ref, q).loader = ref.loader
           /\ Taken(ref, q).refMu = ref.refMu
           /\ Taken(ref, q).refCount = Increment(ref.refCount)
           /\ Taken(ref, q).dur \in {ref.dur, DurOf[q]}
  BY DEF Taken, GoodRunners, Runners

\* The runner is marked to go away.
LEMMA MarkedFields ==
    ASSUME NEW ref \in GoodRunners, NEW h \in {"pending", "stop"}
    PROVE  /\ Marked(ref, h).proc = ref.proc /\ Marked(ref, h).loader = ref.loader
           /\ Marked(ref, h).refMu = IF ref.refCount = 0 THEN h ELSE ref.refMu
           /\ Marked(ref, h).refCount = ref.refCount
           /\ Marked(ref, h).dur = 0
  BY DEF Marked, GoodRunners, Runners

\* The runner is unloaded.
LEMMA UnloadFields ==
    ASSUME NEW ref \in GoodRunners
    PROVE  /\ Unload(ref).proc = "closed" /\ Unload(ref).loader = ref.loader
           /\ Unload(ref).refMu = ref.refMu /\ Unload(ref).refCount = ref.refCount
           /\ Unload(ref).dur = ref.dur
           /\ [Unload(ref) EXCEPT !.refMu = "vram"].proc = "closed"
           /\ [Unload(ref) EXCEPT !.refMu = "vram"].loader = ref.loader
           /\ [Unload(ref) EXCEPT !.refMu = "vram"].refMu = "vram"
           /\ [Unload(ref) EXCEPT !.refMu = "vram"].refCount = ref.refCount
           /\ [Unload(ref) EXCEPT !.refMu = "vram"].dur = ref.dur
  BY DEF Unload, GoodRunners, Runners

\* processCompleted counted a request down.
LEMMA FinishFields ==
    ASSUME NEW ref \in GoodRunners, NEW n \in 0 .. (RefMod - 1)
    PROVE  LET x == [ref EXCEPT !.refCount = n]
               y == IF x.refCount = 0 THEN GoneIdle(x) ELSE x
           IN /\ x.refCount = n /\ x.dur = ref.dur
              /\ y.proc = ref.proc /\ y.loader = ref.loader /\ y.dur = ref.dur
              /\ y.refCount = n
              /\ y.refMu \in {ref.refMu, "completed"}
              /\ n = 0 => y.timer = "armed" \/ y.refMu = "completed"
  BY DEF GoneIdle, GoodRunners, Runners

\* The request gets its runner.
LEMMA GrantedFields ==
    ASSUME NEW rq \in GoodRequests, NEW r \in Req
    PROVE  /\ Granted(rq, r).held = r /\ Granted(rq, r).watch = "armed"
           /\ Granted(rq, r).run = None
  BY DEF Granted, Answered, GoodRequests, Requests

\* Answers leave the rest of a request alone.
LEMMA AnsweredFields ==
    ASSUME NEW rq \in GoodRequests, NEW a \in {"err", "busy"}
    PROVE  /\ Answered(rq, a).held = rq.held /\ Answered(rq, a).watch = rq.watch
           /\ Answered(rq, a).run = rq.run
           /\ [Answered(rq, a) EXCEPT !.pc = "wait", !.run = None].held = rq.held
           /\ [Answered(rq, a) EXCEPT !.pc = "wait", !.run = None].watch = rq.watch
           /\ [Answered(rq, a) EXCEPT !.pc = "wait", !.run = None].run = None
  BY DEF Answered, GoodRequests, Requests

-----------------------------------------------------------------------------
(* The steps that give a runner away or count one back, and all others.    *)

SameUse == \A q \in Req : req'[q].held = req[q].held /\ req'[q].watch = req[q].watch
SameCount == \A r \in Req : runner'[r].refCount = runner[r].refCount

UsesKept ==
    /\ SameUse /\ SameCount
    /\ UNCHANGED <<stale, finishedReqCh>>
    /\ c'.pc = "finish" => UNCHANGED c

\* A request is given runner r.
Grant(q, r) ==
    /\ req[q].answer = "none"
    /\ ModelOf[r] = ModelOf[q]
    /\ req' = [req EXCEPT ![q] = Granted(req[q], r)]
    /\ runner' \in [Req -> GoodRunners]
    /\ runner'[r].refCount = Increment(runner[r].refCount)
    /\ runner'[r].proc = runner[r].proc /\ runner'[r].loader = runner[r].loader
    /\ runner'[r].refMu = "free"
    /\ runner'[r].dur \in {runner[r].dur, DurOf[q]}
    /\ \A x \in Req \ {r} : runner'[x] = runner[x]
    /\ UNCHANGED <<chans, maps, c, stop, phase>>
    /\ stale' \/ (~stale /\ loaded[ModelOf[r]] = r)

\* The fast path of GetRunner, processPending and the end of a load give runners away.
LEMMA GrantSteps ==
    ASSUME Inv, SameModel, UpWhileLoaded, NEW q \in Req
    PROVE  /\ Use(q) => req[q].run \in Req /\ Grant(q, req[q].run) /\ UNCHANGED p
           /\ PUse => /\ p.req \in Req /\ p.run \in Req /\ Grant(p.req, p.run)
                      /\ p'.pc = "idle"
           /\ Running(q) => /\ runner[q].loader \in Req /\ Grant(runner[q].loader, q)
                            /\ UNCHANGED p
  <1>0. /\ req \in [Req -> GoodRequests] /\ runner \in [Req -> GoodRunners] /\ p \in GoodPending
        /\ stale \in BOOLEAN
    BY DEF Inv, Typed, ReqOK, RunnerOK, POK, EnvOK
  <1>1. ASSUME NEW x \in Req, NEW r \in Req, useLoadedRunner(x, r), req[x].answer = "none",
               ModelOf[r] = ModelOf[x], UNCHANGED <<chans, maps, c, stop, phase>>
        PROVE  Grant(x, r)
    <2>1. /\ runner'[r] = Taken(runner[r], x) /\ runner[r].refMu = "free"
          /\ \A y \in Req \ {r} : runner'[y] = runner[y]
      BY <1>0, <1>1 DEF useLoadedRunner, Free
    <2>2. runner' \in [Req -> GoodRunners]
      BY <1>0, <1>1, RunnerTypes DEF useLoadedRunner
    <2> QED
      BY <1>0, <1>1, <2>1, <2>2, TakenFields DEF Grant, useLoadedRunner
  <1>2. ASSUME Use(q)
        PROVE  req[q].run \in Req /\ Grant(q, req[q].run) /\ UNCHANGED p
    <2>1. req[q].run \in Req /\ req[q].pc = "use"
      BY <1>0, <1>2 DEF Use, GoodRequests
    <2>2. req[q].answer = "none"
      BY <2>1 DEF Inv, AnswerInv, Exclusive
    <2>3. ModelOf[req[q].run] = ModelOf[q]
      BY <2>1, ReqAssumption DEF SameModel
    <2> QED
      BY <1>1, <1>2, <2>1, <2>2, <2>3 DEF Use
  <1>3. ASSUME PUse
        PROVE  p.req \in Req /\ p.run \in Req /\ Grant(p.req, p.run) /\ p'.pc = "idle"
    <2>1. p.req \in Req /\ p.run \in Req /\ p.pc = "use" /\ p'.pc = "idle"
      BY <1>0, <1>3 DEF PUse, Idle, GoodPending, Pending
    <2>2. req[p.req].answer = "none"
      BY <2>1 DEF Inv, AnswerInv, Exclusive
    <2>3. ModelOf[p.run] = ModelOf[p.req]
      BY <2>1 DEF SameModel
    <2> QED
      BY <1>1, <1>3, <2>1, <2>2, <2>3 DEF PUse
  <1>4. ASSUME Running(q)
        PROVE  runner[q].loader \in Req /\ Grant(runner[q].loader, q) /\ UNCHANGED p
    <2>1. runner[q].loader \in Req /\ runner[q].refMu = "load"
      BY <1>0, <1>4 DEF Running, GoodRunners
    <2>2. req[runner[q].loader].answer = "none"
      BY <2>1 DEF Inv, AnswerInv, Exclusive, AwaitsRunner
    <2>3. ModelOf[runner[q].loader] = ModelOf[q] /\ loaded[ModelOf[q]] = q
      BY <2>1, ReqAssumption DEF SameModel, UpWhileLoaded, Known
    <2>4. runner'[q] = [runner[q] EXCEPT !.refMu = "free",
                                         !.refCount = Increment(runner[q].refCount)]
      BY <1>0, <1>4 DEF Running
    <2>5. /\ runner'[q].refCount = Increment(runner[q].refCount)
          /\ runner'[q].proc = runner[q].proc /\ runner'[q].loader = runner[q].loader
          /\ runner'[q].refMu = "free" /\ runner'[q].dur = runner[q].dur
      BY <1>0, <2>4 DEF GoodRunners, Runners
    <2>6. runner' \in [Req -> GoodRunners]
      <3>0. runner[q] \in GoodRunners
        BY <1>0
      <3>1. Increment(runner[q].refCount) \in 0 .. (RefMod - 1)
        BY <3>0, CountArithmetic DEF GoodRunners, Runners
      <3>2. [runner[q] EXCEPT !.refMu = "free", !.refCount = Increment(runner[q].refCount)]
              \in GoodRunners
        BY <3>0, <3>1 DEF GoodRunners, Runners
      <3> QED
        BY <1>0, <1>4, <3>2 DEF Running
    <2> QED
      BY <1>0, <1>4, <2>1, <2>2, <2>3, <2>5, <2>6 DEF Grant, Running, env
  <1> QED
    BY <1>2, <1>3, <1>4

\* Handlers and clients.
LEMMA HandlerUses ==
    ASSUME Typed, NEW q \in Req, Handler(q) \/ Client(q)
    PROVE  UsesKept \/ Use(q) \/ SendFinished(q)
  <1>0. req \in [Req -> GoodRequests]
    BY DEF Typed, ReqOK
  <1>1. CASE Lookup(q) \/ NeedsReload(q) \/ Enqueue(q) \/ Complete(q) \/ Cancel(q)
    <2>1. SameUse
      <3>1. CASE Lookup(q)
        BY <1>0, <3>1 DEF SameUse, Lookup, GoodRequests, Requests
      <3>2. CASE NeedsReload(q)
        BY <1>0, <3>2 DEF SameUse, NeedsReload, GoodRequests, Requests
      <3>3. CASE Enqueue(q)
        BY <1>0, <3>3 DEF SameUse, Enqueue, GoodRequests, Requests
      <3>4. CASE Complete(q) \/ Cancel(q)
        BY <1>0, <3>4 DEF SameUse, Complete, Cancel, GoodRequests, Requests
      <3> QED
        BY <1>1, <3>1, <3>2, <3>3, <3>4
    <2> QED
      BY <1>1, <2>1 DEF UsesKept, SameCount, Lookup, NeedsReload, Enqueue, Complete, Cancel,
                        chans, env
  <1>2. CASE Busy(q)
    BY <1>0, <1>2, AnsweredFields DEF UsesKept, SameUse, SameCount, Busy, chans, env
  <1> QED
    BY <1>1, <1>2 DEF Handler, Client

\* The goroutines of a runner.
LEMMA GoroutinesUses ==
    ASSUME Typed, NEW r \in Req, Goroutines(r)
    PROVE  UsesKept \/ Running(r)
  <1>0. req \in [Req -> GoodRequests] /\ runner \in [Req -> GoodRunners]
    BY DEF Typed, ReqOK, RunnerOK
  <1>1. CASE NotRunning(r)
    <2>1. SameUse
      <3>1. runner[r].loader \in Req
        BY <1>0, <1>1 DEF NotRunning, GoodRunners
      <3> QED
        BY <1>0, <1>1, <3>1, AnsweredFields DEF NotRunning, Refused, SameUse
    <2>2. SameCount
      BY <1>0, <1>1 DEF NotRunning, SameCount, GoodRunners, Runners
    <2> QED
      BY <1>1, <2>1, <2>2 DEF NotRunning, UsesKept, chans, env
  <1>2. CASE TimerFires(r) \/ TimerCallback(r) \/ SendExpired(r) \/ Retry(r)
    <2>1. SameCount
      <3>1. CASE TimerFires(r)
        BY <1>0, <3>1 DEF TimerFires, SameCount, GoodRunners, Runners
      <3>2. CASE TimerCallback(r)
        BY <1>0, <3>2 DEF TimerCallback, SameCount, GoodRunners, Runners
      <3>3. CASE SendExpired(r)
        BY <1>0, <3>3 DEF SendExpired, SendAndUnlock, SameCount, GoodRunners, Runners
      <3>4. CASE Retry(r)
        BY <1>0, <3>4 DEF Retry, SameCount, GoodRunners, Runners
      <3> QED
        BY <1>2, <3>1, <3>2, <3>3, <3>4
    <2> QED
      BY <1>2, <2>1 DEF TimerFires, TimerCallback, SendExpired, Retry, SendAndUnlock, UsesKept,
                        SameUse, chans, env
  <1> QED
    BY <1>1, <1>2 DEF Goroutines

\* `ollama stop' and the shutdown of the server.
LEMMA StopUses ==
    ASSUME Typed, (\E s \in Stop : expireRunner(s)) \/ Shutdown \/ unloadAllRunners
    PROVE  UsesKept
  <1>0. runner \in [Req -> GoodRunners] /\ stop \in [Stop -> GoodStops]
    BY DEF Typed, RunnerOK, StopOK
  <1>1. ASSUME NEW s \in Stop, ExpireLookup(s) PROVE UsesKept
    BY <1>1 DEF ExpireLookup, UsesKept, SameUse, SameCount, chans
  <1>2. ASSUME NEW s \in Stop, ExpireRunner(s) PROVE UsesKept
    <2>1. stop[s].run \in Req
      BY <1>0, <1>2 DEF ExpireRunner, GoodStops
    <2>2. SameCount
      BY <1>0, <1>2, <2>1, MarkedFields DEF ExpireRunner, SameCount
    <2> QED
      BY <1>2, <2>2 DEF ExpireRunner, UsesKept, SameUse, chans
  <1>3. CASE Shutdown
    BY <1>3 DEF Shutdown, UsesKept, SameUse, SameCount, chans
  <1>4. CASE unloadAllRunners
    <2>1. SameCount
      BY <1>0, <1>4 DEF unloadAllRunners, SameCount, GoodRunners, Runners
    <2> QED
      BY <1>4, <2>1 DEF unloadAllRunners, UsesKept, SameUse, chans
  <1> QED
    BY <1>1, <1>2, <1>3, <1>4 DEF expireRunner

\* processPending.
LEMMA PendingUses ==
    ASSUME Typed, processPending
    PROVE  UsesKept \/ PUse
  <1>0. /\ req \in [Req -> GoodRequests] /\ runner \in [Req -> GoodRunners] /\ p \in GoodPending
    BY DEF Typed, ReqOK, RunnerOK, POK
  <1>1. CASE PExpire \/ PSendExpired
    <2>1. SameCount /\ UNCHANGED <<req, finishedReqCh, c, stale>>
      <3>1. CASE PExpire
        <4>1. p.run \in Req
          BY <1>0, <3>1 DEF PExpire, GoodPending
        <4> QED
          BY <1>0, <3>1, <4>1, MarkedFields DEF PExpire, SameCount, chans, env
      <3>2. CASE PSendExpired
        <4>1. UNCHANGED <<req, finishedReqCh, c, stale>>
          BY <3>2 DEF PSendExpired, SendAndUnlock, env
        <4> QED
          BY <1>0, <3>2, <4>1 DEF PSendExpired, SendAndUnlock, SameCount, GoodRunners, Runners
      <3> QED
        BY <1>1, <3>1, <3>2
    <2> QED
      BY <2>1 DEF UsesKept, SameUse
  <1>2. CASE NewServer \/ LoadSucceeds
    <2>1. SameCount
      <3>1. CASE NewServer
        BY <1>0, <3>1 DEF NewServer, SameCount, GoodRunners, Runners
      <3>2. CASE LoadSucceeds
        <4>1. ASSUME NEW r \in Req PROVE runner'[r].refCount = runner[r].refCount
          <5>1. CASE runner'[r] = Unload(runner[r]) \/ runner'[r] = runner[r]
            BY <1>0, <5>1, UnloadFields
          <5>2. CASE r = p.run
            <6>1. runner'[r] = [runner[r] EXCEPT !.loader = p.req, !.refMu = "load",
                     !.dur = IF DurOf[p.req] = NoDuration THEN KeepAlive ELSE DurOf[p.req]]
              BY <3>2, <5>2 DEF LoadSucceeds
            <6> QED
              BY <1>0, <6>1 DEF GoodRunners, Runners
          <5> QED
            BY <3>2, <5>1, <5>2 DEF LoadSucceeds
        <4> QED
          BY <4>1 DEF SameCount
      <3> QED
        BY <1>2, <3>1, <3>2
    <2> QED
      BY <1>2, <2>1 DEF NewServer, LoadSucceeds, UsesKept, SameUse, chans, env
  <1>3. CASE LoadModelFails \/ NewServerFails \/ LoadFails
    <2>1. SameUse
      <3>1. p.req \in Req /\ Refuse
        BY <1>0, <1>3 DEF LoadModelFails, NewServerFails, LoadFails, GoodPending
      <3> QED
        BY <1>0, <3>1, AnsweredFields DEF SameUse, Refuse, Refused
    <2>2. SameCount
      BY <1>0, <1>3 DEF LoadModelFails, NewServerFails, LoadFails, SameCount, GoodRunners, Runners
    <2> QED
      BY <1>3, <2>1, <2>2 DEF LoadModelFails, NewServerFails, LoadFails, UsesKept, chans, env
  <1>4. CASE UNCHANGED <<req, finishedReqCh, runner, c, stale>>
    BY <1>4 DEF UsesKept, SameUse, SameCount
  <1>5. CASE PRecv \/ PUnloaded \/ PExit \/ PSnapshot \/ PNeedsReload \/ UpdateFreeSpace
             \/ ResumeServer \/ PanicOtherModel \/ LoadNeedsEviction \/ PanicNilActive
             \/ FindRunnerToUnload
    BY <1>4, <1>5 DEF PRecv, PUnloaded, PExit, PSnapshot, PNeedsReload, UpdateFreeSpace,
             ResumeServer, PanicOtherModel, LoadNeedsEviction, PanicNilActive,
             FindRunnerToUnload, chans, env
  <1>6. ASSUME NEW r \in Req, UpdateFreeSpaceOf(r) \/ Scan(r) PROVE UsesKept \/ PUse
    BY <1>4, <1>6 DEF UpdateFreeSpaceOf, Scan, chans, env
  <1> QED
    BY <1>1, <1>2, <1>3, <1>5, <1>6 DEF processPending, load

\* processCompleted.
LEMMA CompletedUses ==
    ASSUME Typed, processCompleted
    PROVE  UsesKept \/ CRecvFinished \/ CFinish
  <1>0. runner \in [Req -> GoodRunners] /\ c \in GoodCompleted
    BY DEF Typed, RunnerOK, COK
  <1>1. CASE CSendExpired \/ CRetry \/ CRecovered
    <2>1. SameCount /\ c'.pc # "finish"
      <3>1. CASE CSendExpired
        BY <1>0, <3>1 DEF CSendExpired, SendAndUnlock, SameCount, CIdle, GoodRunners, Runners
      <3>2. CASE CRetry
        BY <1>0, <3>2 DEF CRetry, SameCount, CIdle, GoodRunners, Runners
      <3>3. CASE CRecovered
        <4>1. c'.pc = "notify"
          BY <1>0, <3>3 DEF CRecovered, GoodCompleted, Completed
        <4> QED
          BY <1>0, <3>3, <4>1 DEF CRecovered, SameCount, GoodRunners, Runners
      <3> QED
        BY <1>1, <3>1, <3>2, <3>3
    <2> QED
      BY <1>1, <2>1 DEF CSendExpired, CRetry, CRecovered, SendAndUnlock, UsesKept, SameUse,
                        chans, env
  <1>2. CASE COrphan \/ CUnload
    <2>0. c.run \in Req
      BY <1>0, <1>2 DEF COrphan, CUnload, GoodCompleted
    <2>1. SameCount
      <3>1. CASE COrphan
        BY <1>0, <2>0, <3>1, UnloadFields DEF COrphan, SameCount
      <3>2. CASE CUnload
        <4>1. runner'[c.run] = [Unload(runner[c.run]) EXCEPT !.refMu = "vram"]
          BY <1>0, <2>0, <3>2 DEF CUnload
        <4>2. \A x \in Req \ {c.run} : runner'[x] = runner[x]
          BY <1>0, <3>2 DEF CUnload
        <4>3. runner[c.run] \in GoodRunners
          BY <1>0, <2>0
        <4>4. runner'[c.run].refCount = runner[c.run].refCount
          BY <4>1, <4>3, UnloadFields
        <4> QED
          BY <4>2, <4>4 DEF SameCount
      <3> QED
        BY <1>2, <3>1, <3>2
    <2>2. c'.pc # "finish"
      BY <1>0, <1>2 DEF COrphan, CUnload, CIdle, GoodCompleted, Completed
    <2> QED
      BY <1>2, <2>1, <2>2 DEF COrphan, CUnload, UsesKept, SameUse, chans, env
  <1>3. CASE CRecvExpired \/ CDuplicate \/ CNotify \/ CExit
    <2>1. c'.pc # "finish"
      BY <1>0, <1>3 DEF CRecvExpired, CDuplicate, CNotify, CExit, CIdle, GoodCompleted, Completed
    <2> QED
      BY <1>3, <2>1 DEF CRecvExpired, CDuplicate, CNotify, CExit, UsesKept, SameUse, SameCount,
                        chans, env
  <1> QED
    BY <1>1, <1>2, <1>3 DEF processCompleted

\* All steps together.
LEMMA UseSteps ==
    ASSUME Typed, [Next]_vars
    PROVE  \/ UsesKept \/ PUse \/ CRecvFinished \/ CFinish
           \/ \E q \in Req : Use(q) \/ SendFinished(q) \/ Running(q)
  <1>1. CASE UNCHANGED vars
    BY <1>1 DEF vars, UsesKept, SameUse, SameCount, chans, env
  <1>2. CASE Next
    BY <1>1, <1>2, HandlerUses, GoroutinesUses, StopUses, PendingUses, CompletedUses
    DEF Next, Serve
  <1> QED
    BY <1>1, <1>2

-----------------------------------------------------------------------------
(* Counting.                                                               *)

\* Sets of requests are finite, and smaller than refCount can count.
LEMMA RequestSets ==
    ASSUME NEW S \in SUBSET Req
    PROVE  /\ Cardinality(S) \in Nat /\ Cardinality(S) < RefMod
           /\ Cardinality(S) = 0 <=> S = {}
           /\ \A x \in Req \ S : Cardinality(S \cup {x}) = Cardinality(S) + 1
           /\ \A x \in S : Cardinality(S \ {x}) = Cardinality(S) - 1
  <1>1. /\ IsFiniteSet(S) /\ Cardinality(S) <= Cardinality(Req)
    BY ReqAssumption, FS_Subset
  <1>2. Cardinality(S) \in Nat /\ Cardinality(Req) \in Nat
    BY <1>1, ReqAssumption, FS_CardinalityType
  <1>3. \A x \in Req \ S : Cardinality(S \cup {x}) = Cardinality(S) + 1
    BY <1>1, FS_AddElement
  <1>4. \A x \in S : Cardinality(S \ {x}) = Cardinality(S) - 1
    BY <1>1, FS_RemoveElement
  <1>5. Cardinality(S) = 0 <=> S = {}
    BY <1>1, FS_EmptySet
  <1> QED
    BY <1>1, <1>2, <1>3, <1>4, <1>5, EnvAssumption

\* Within those bounds the count does not wrap.
LEMMA NoWrap ==
    ASSUME NEW n \in Nat, n < RefMod
    PROVE  /\ n + 1 < RefMod => Increment(n) = n + 1
           /\ n > 0 => Decrement(n) = n - 1
  <1>1. RefMod \in Nat
    BY EnvAssumption
  <1>2. n > 0 => (n + RefMod - 1) % RefMod = n - 1
    <2> SUFFICES ASSUME n > 0 PROVE (n + RefMod - 1) % RefMod = n - 1
      OBVIOUS
    <2>1. n + RefMod - 1 = RefMod + (n - 1) /\ n - 1 \in 0 .. (RefMod - 1)
      BY <1>1
    <2> QED
      BY <1>1, <2>1
  <1> QED
    BY <1>1, <1>2 DEF Increment, Decrement

\* Only a load that ends and an unload change `loaded'.
LEMMA MapSteps ==
    ASSUME [Next]_vars
    PROVE  UNCHANGED loaded \/ LoadSucceeds \/ CUnload
  <1>1. ASSUME NEW q \in Req, Handler(q) \/ Client(q) \/ Goroutines(q) PROVE UNCHANGED loaded
    BY <1>1 DEF Handler, Client, Goroutines, Lookup, NeedsReload, Use, Enqueue, Busy, Complete,
                Cancel, SendFinished, Running, NotRunning, TimerFires, TimerCallback,
                SendExpired, Retry, maps
  <1>2. CASE processPending /\ ~LoadSucceeds
    BY <1>2 DEF processPending, load, PRecv, PUnloaded, PExit, PSnapshot, PNeedsReload, PUse,
           LoadModelFails, UpdateFreeSpace, NewServer, NewServerFails, ResumeServer,
           PanicOtherModel, LoadNeedsEviction, LoadFails, PanicNilActive, FindRunnerToUnload,
           PExpire, PSendExpired, UpdateFreeSpaceOf, Scan, maps
  <1>3. CASE processCompleted /\ ~CUnload
    BY <1>3 DEF processCompleted, CRecvFinished, CFinish, CSendExpired, CRecvExpired, CRetry,
           CDuplicate, COrphan, CRecovered, CNotify, CExit, maps
  <1>4. ASSUME NEW s \in Stop, expireRunner(s) PROVE UNCHANGED loaded
    BY <1>4 DEF expireRunner, ExpireLookup, ExpireRunner, maps
  <1>5. CASE Shutdown \/ unloadAllRunners \/ UNCHANGED vars
    BY <1>5 DEF Shutdown, unloadAllRunners, vars, maps
  <1> QED
    BY <1>1, <1>2, <1>3, <1>4, <1>5 DEF Next, Serve

\* A load puts a runner nobody knows in the place of none; an unload takes out the
\* runner that processCompleted holds, which is idle.
LEMMA MapEffect ==
    ASSUME Inv
    PROVE  /\ LoadSucceeds =>
                /\ p.req \in Req /\ p.run \in Req \ Known /\ ModelOf[p.run] = ModelOf[p.req]
                /\ ModelOf[p.run] \in Path /\ loaded[ModelOf[p.run]] = None
                /\ loaded' = [loaded EXCEPT ![ModelOf[p.run]] = p.run]
                /\ LoadedRunners' = LoadedRunners \cup {p.run}
           /\ CUnload =>
                /\ c.run \in Req /\ ModelOf[c.run] \in Path /\ loaded[ModelOf[c.run]] = c.run
                /\ loaded' = [loaded EXCEPT ![ModelOf[c.run]] = None]
                /\ LoadedRunners' = LoadedRunners \ {c.run}
                /\ runner[c.run].refCount = 0
  <1>0. /\ p \in GoodPending /\ c \in GoodCompleted /\ loaded \in [Path -> Opt(Req)]
        /\ runner \in [Req -> GoodRunners]
        /\ \A m \in Path : loaded[m] # None => ModelOf[loaded[m]] = m
        /\ \A q \in Req : ModelOf[q] \in Path
    BY DEF Inv, Typed, POK, COK, MapsOK, RunnerOK, LoadInv, Path
  <1>1. ASSUME LoadSucceeds
        PROVE  /\ p.req \in Req /\ p.run \in Req \ Known /\ ModelOf[p.run] = ModelOf[p.req]
               /\ ModelOf[p.run] \in Path /\ loaded[ModelOf[p.run]] = None
               /\ loaded' = [loaded EXCEPT ![ModelOf[p.run]] = p.run]
               /\ LoadedRunners' = LoadedRunners \cup {p.run}
    <2>1. p.req \in Req /\ p.run \in Req /\ p.pc = "loading"
      BY <1>0, <1>1 DEF LoadSucceeds, GoodPending
    <2>2. ModelOf[p.run] = ModelOf[p.req] /\ loaded[ModelOf[p.req]] = None
      BY <2>1 DEF Inv, LoadInv, Loading
    <2>3. p.run \notin Known
      BY <2>1 DEF Inv, AnswerInv, Fresh
    <2>4. loaded' = [loaded EXCEPT ![ModelOf[p.run]] = p.run]
      BY <1>1, <2>2 DEF LoadSucceeds
    <2>5. PICK m \in Path, r \in Req : m = ModelOf[p.run] /\ r = p.run
      BY <1>0, <2>1
    <2>6. {loaded'[x] : x \in Path} \ {None} = ({loaded[x] : x \in Path} \ {None}) \cup {r}
      <3>1. loaded' = [loaded EXCEPT ![m] = r] /\ loaded[m] = None /\ r # None
        BY <2>1, <2>2, <2>4, <2>5, ReqAssumption
      <3>2. loaded'[m] = r /\ \A x \in Path \ {m} : loaded'[x] = loaded[x]
        BY <1>0, <3>1
      <3> QED
        BY <3>1, <3>2
    <2> QED
      BY <1>0, <2>1, <2>2, <2>3, <2>4, <2>5, <2>6 DEF LoadedRunners
  <1>2. ASSUME CUnload
        PROVE  /\ c.run \in Req /\ ModelOf[c.run] \in Path /\ loaded[ModelOf[c.run]] = c.run
               /\ loaded' = [loaded EXCEPT ![ModelOf[c.run]] = None]
               /\ LoadedRunners' = LoadedRunners \ {c.run}
               /\ runner[c.run].refCount = 0
    <2>1. /\ c.run \in Req /\ loaded[ModelOf[c.run]] = c.run
          /\ loaded' = [loaded EXCEPT ![ModelOf[c.run]] = None]
      BY <1>0, <1>2 DEF CUnload, GoodCompleted
    <2>2. runner[c.run].refCount = 0
      BY <1>0, <1>2, <2>1, EnvAssumption DEF CUnload, InUse, GoodRunners, Runners
    <2>3. PICK m \in Path, r \in Req : m = ModelOf[c.run] /\ r = c.run
      BY <1>0, <2>1
    <2>4. {loaded'[x] : x \in Path} \ {None} = ({loaded[x] : x \in Path} \ {None}) \ {r}
      <3>1. loaded' = [loaded EXCEPT ![m] = None] /\ loaded[m] = r /\ r # None /\ ModelOf[r] = m
        BY <2>1, <2>3, ReqAssumption
      <3>2. loaded'[m] = None /\ \A x \in Path \ {m} : loaded'[x] = loaded[x]
        BY <1>0, <3>1
      <3>3. \A x \in Path \ {m} : loaded[x] # r
        BY <1>0, <3>1
      <3> QED
        BY <3>1, <3>2, <3>3
    <2> QED
      BY <1>0, <2>1, <2>2, <2>3, <2>4 DEF LoadedRunners
  <1> QED
    BY <1>1, <1>2

\* The finished events while nothing is sent, taken or counted on finishedReqCh.
LEMMA FinishingFrame ==
    ASSUME Typed, Finishing, UNCHANGED finishedReqCh, c'.pc = "finish" => UNCHANGED c,
           stale => stale', stale' \in BOOLEAN,
           \A q \in Req : req[q].watch # "none" => /\ req'[q].watch = req[q].watch
                                                   /\ req'[q].held = req[q].held,
           \A q \in Req : req'[q].watch # "none" => req'[q].held # None
    PROVE  Finishing'
  <1>0. /\ finishedReqCh \in Seq(Req) /\ c \in GoodCompleted
        /\ c.pc = "finish" => c.req \in Req
        /\ \A i \in 1 .. Len(finishedReqCh) : finishedReqCh[i] \in Req
    BY DEF Typed, ChansOK, COK, GoodCompleted
  <1>1. \A i \in 1 .. Len(finishedReqCh) : req'[finishedReqCh[i]].watch = "queued"
    BY <1>0 DEF Finishing
  <1>2. c.pc = "finish" => /\ req'[c.req].watch = "taken"
                           /\ ~stale' => req'[c.req].held = c.run
    BY <1>0 DEF Finishing
  <1> QED
    BY <1>1, <1>2 DEF Finishing

\* A step that neither gives away nor counts back keeps the counts.
LEMMA KeptCounted ==
    ASSUME Inv, Finishing, Counted, [Next]_vars, UsesKept
    PROVE  Finishing' /\ Counted'
  <1>0. stale \in BOOLEAN /\ Typed /\ loaded \in [Path -> Opt(Req)]
        /\ \A q \in Req : ModelOf[q] \in Path
    BY DEF Inv, Typed, EnvOK, MapsOK, Path
  <1>1. Finishing'
    BY <1>0, FinishingFrame DEF UsesKept, SameUse, Finishing
  <1>2. \A r \in Req : Users(r)' = Users(r)
    BY DEF Users, UsesKept, SameUse
  <1>3. RefCountExact'
    BY <1>2 DEF RefCountExact, Counted, UsesKept, SameCount
  <1>4. ASSUME ~stale', NEW r \in Req, Users(r)' # {} PROVE loaded'[ModelOf[r]] = r
    <2>1. loaded[ModelOf[r]] = r /\ ~stale /\ Users(r) # {}
      BY <1>2, <1>4 DEF Counted, UsesKept
    <2>2. CASE UNCHANGED loaded
      BY <2>1, <2>2
    <2>3. CASE LoadSucceeds
      <3>1. ModelOf[r] # ModelOf[p.run]
        BY <2>1, <2>3, MapEffect, ReqAssumption
      <3> QED
        BY <1>0, <2>1, <2>3, <3>1, MapEffect
    <2>4. CASE CUnload
      <3>1. runner[r].refCount = Cardinality(Users(r)) /\ Users(r) \in SUBSET Req
        BY <2>1 DEF Counted, RefCountExact, Users
      <3>2. runner[r].refCount # 0
        BY <2>1, <3>1, RequestSets
      <3>3. r # c.run
        BY <2>4, <3>2, MapEffect
      <3>4. ModelOf[r] # ModelOf[c.run]
        BY <2>1, <2>4, <3>3, MapEffect
      <3> QED
        BY <1>0, <2>1, <2>4, <3>4, MapEffect
    <2> QED
      BY <2>2, <2>3, <2>4, MapSteps
  <1> QED
    BY <1>1, <1>3, <1>4 DEF Counted

\* A grant counts the request that gets the runner, and once: it had none before.
LEMMA GrantCounted ==
    ASSUME Inv, Finishing, Counted, NEW q \in Req, NEW r \in Req, Grant(q, r),
           stale' \in BOOLEAN
    PROVE  Finishing' /\ Counted' /\ (~stale' => runner'[r].refCount > 0)
  <1>0. /\ Typed /\ req \in [Req -> GoodRequests] /\ runner \in [Req -> GoodRunners]
        /\ stale \in BOOLEAN
    BY DEF Inv, Typed, ReqOK, RunnerOK, EnvOK
  <1>1. /\ req'[q].held = r /\ req'[q].watch = "armed"
        /\ \A x \in Req \ {q} : req'[x] = req[x]
    BY <1>0, GrantedFields DEF Grant
  <1>2. req[q].held = None /\ req[q].watch = "none"
    BY DEF Grant, Inv, AnswerInv, AnsweredOnce, Finishing
  <1>3. Finishing'
    <2>1. \A x \in Req : req[x].watch # "none" => /\ req'[x].watch = req[x].watch
                                                  /\ req'[x].held = req[x].held
      BY <1>1, <1>2
    <2>2. \A x \in Req : req'[x].watch # "none" => req'[x].held # None
      BY <1>1, ReqAssumption DEF Finishing
    <2> QED
      BY <1>0, <2>1, <2>2, FinishingFrame DEF Grant, chans
  <1>4. /\ Users(r)' = Users(r) \cup {q} /\ q \notin Users(r)
        /\ \A x \in Req \ {r} : Users(x)' = Users(x)
    BY <1>1, <1>2, ReqAssumption DEF Users
  <1>5. ASSUME ~stale'
        PROVE  /\ runner'[r].refCount = Cardinality(Users(r)') /\ runner'[r].refCount > 0
               /\ loaded[ModelOf[r]] = r /\ ~stale
    <2>1. ~stale /\ loaded[ModelOf[r]] = r
      BY <1>5 DEF Grant
    <2>2. PICK S \in SUBSET Req : S = Users(r)
      BY DEF Users
    <2>3. /\ Cardinality(S) \in Nat /\ Cardinality(S) < RefMod
          /\ Cardinality(S \cup {q}) = Cardinality(S) + 1
          /\ Cardinality(S \cup {q}) < RefMod
      BY <1>4, <2>2, RequestSets
    <2>4. runner'[r].refCount = Increment(Cardinality(S))
      BY <2>1, <2>2 DEF Grant, Counted, RefCountExact
    <2>5. Increment(Cardinality(S)) = Cardinality(S) + 1
      BY <2>3, NoWrap
    <2> QED
      BY <1>4, <2>1, <2>2, <2>3, <2>4, <2>5
  <1>6. RefCountExact'
    <2>1. ASSUME ~stale', NEW x \in Req \ {r} PROVE runner'[x].refCount = Cardinality(Users(x)')
      BY <1>4, <1>5, <2>1 DEF Grant, Counted, RefCountExact
    <2> QED
      BY <1>5, <2>1 DEF RefCountExact
  <1>7. ASSUME ~stale', NEW x \in Req, Users(x)' # {} PROVE loaded'[ModelOf[x]] = x
    BY <1>4, <1>5, <1>7 DEF Grant, Counted, maps
  <1> QED
    BY <1>3, <1>5, <1>6, <1>7 DEF Counted

\* The finished event enters the channel once.
LEMMA SendCounted ==
    ASSUME Inv, Finishing, Counted, NEW q \in Req, SendFinished(q)
    PROVE  Finishing' /\ Counted'
  <1>0. /\ req \in [Req -> GoodRequests] /\ c \in GoodCompleted /\ finishedReqCh \in Seq(Req)
        /\ c.pc = "finish" => c.req \in Req
        /\ \A i \in 1 .. Len(finishedReqCh) : finishedReqCh[i] \in Req
        /\ Len(finishedReqCh) \in Nat
    BY DEF Inv, Typed, ReqOK, COK, ChansOK, GoodCompleted
  <1>1. /\ req'[q].watch = "queued" /\ req[q].watch = "armed" /\ req'[q].held = req[q].held
        /\ \A x \in Req \ {q} : req'[x] = req[x]
        /\ UNCHANGED <<loaded, runner, c, stale>>
    BY <1>0 DEF SendFinished, GoodRequests, Requests, maps, env
  <1>2. finishedReqCh' = Append(finishedReqCh, q)
    BY DEF SendFinished
  <1>3. /\ Len(finishedReqCh') = Len(finishedReqCh) + 1
        /\ \A i \in 1 .. Len(finishedReqCh) : finishedReqCh'[i] = finishedReqCh[i]
        /\ finishedReqCh'[Len(finishedReqCh) + 1] = q
    BY <1>0, <1>2
  <1>4. \A i \in 1 .. Len(finishedReqCh) : finishedReqCh[i] # q
    BY <1>1 DEF Finishing
  <1>5. Finishing'
    <2>1. \A i, j \in 1 .. Len(finishedReqCh') : finishedReqCh'[i] = finishedReqCh'[j] => i = j
      BY <1>0, <1>3, <1>4 DEF Finishing
    <2>2. \A i \in 1 .. Len(finishedReqCh') : req'[finishedReqCh'[i]].watch = "queued"
      BY <1>0, <1>1, <1>3, <1>4 DEF Finishing
    <2>3. c'.pc = "finish" => /\ req'[c'.req].watch = "taken"
                              /\ ~stale' => req'[c'.req].held = c'.run
      BY <1>0, <1>1 DEF Finishing
    <2>4. \A x \in Req : req'[x].watch # "none" => req'[x].held # None
      BY <1>1 DEF Finishing
    <2> QED
      BY <2>1, <2>2, <2>3, <2>4 DEF Finishing
  <1>6. \A r \in Req : Users(r)' = Users(r)
    BY <1>1 DEF Users
  <1> QED
    BY <1>1, <1>5, <1>6 DEF Counted, RefCountExact

\* processCompleted resolves the event by model path, and finds the runner that was used.
LEMMA ReceiveCounted ==
    ASSUME Inv, SameModel, Finishing, Counted, CRecvFinished
    PROVE  Finishing' /\ Counted'
  <1>0. /\ req \in [Req -> GoodRequests] /\ c \in GoodCompleted /\ finishedReqCh \in Seq(Req)
        /\ finishedReqCh # <<>>
        /\ \A i \in 1 .. Len(finishedReqCh) : finishedReqCh[i] \in Req
    BY DEF Inv, Typed, ReqOK, COK, ChansOK, CRecvFinished
  <1>1. PICK q \in Req : q = Head(finishedReqCh)
    BY <1>0, Receive
  <1>2. q = finishedReqCh[1] /\ 1 \in 1 .. Len(finishedReqCh)
    BY <1>0, <1>1
  <1>3. req[q].watch = "queued" /\ req[q].held # None
    BY <1>2 DEF Finishing
  <1>4. req[q].held \in Req /\ ModelOf[req[q].held] = ModelOf[q]
    BY <1>0, <1>3 DEF SameModel, GoodRequests, Requests, Opt
  <1>5. ~stale => loaded[ModelOf[q]] = req[q].held
    BY <1>3, <1>4 DEF Counted, Users
  <1>6. /\ finishedReqCh' = Tail(finishedReqCh)
        /\ Len(finishedReqCh') = Len(finishedReqCh) - 1 /\ Len(finishedReqCh) \in Nat
        /\ \A i \in 1 .. Len(finishedReqCh') : finishedReqCh'[i] = finishedReqCh[i + 1]
    BY <1>0 DEF CRecvFinished
  <1>7. /\ \A x \in Req \ {q} : req'[x] = req[x]
        /\ req'[q].held = req[q].held
        /\ req'[q].watch = IF loaded[ModelOf[q]] = None THEN "gone" ELSE "taken"
    BY <1>0, <1>1 DEF CRecvFinished, GoodRequests, Requests
  <1>8. /\ UNCHANGED <<loaded, runner, stale>>
        /\ c'.pc = "finish" => c'.req = q /\ c'.run = loaded[ModelOf[q]] /\ loaded[ModelOf[q]] # None
    BY <1>1 DEF CRecvFinished, maps, env
  <1>9. Finishing'
    <2>1. \A i, j \in 1 .. Len(finishedReqCh') : finishedReqCh'[i] = finishedReqCh'[j] => i = j
      BY <1>0, <1>6 DEF Finishing
    <2>2. \A i \in 1 .. Len(finishedReqCh') :
            /\ i + 1 \in 1 .. Len(finishedReqCh) /\ finishedReqCh[i + 1] # q
      BY <1>2, <1>6 DEF Finishing
    <2>3. \A i \in 1 .. Len(finishedReqCh') : req'[finishedReqCh'[i]].watch = "queued"
      BY <1>0, <1>6, <1>7, <2>2 DEF Finishing
    <2>4. c'.pc = "finish" => /\ req'[c'.req].watch = "taken"
                              /\ ~stale' => req'[c'.req].held = c'.run
      BY <1>5, <1>7, <1>8
    <2>5. \A x \in Req : req'[x].watch # "none" => req'[x].held # None
      BY <1>3, <1>7 DEF Finishing
    <2> QED
      BY <2>1, <2>3, <2>4, <2>5 DEF Finishing
  <1>10. ASSUME ~stale, NEW r \in Req PROVE Users(r)' = Users(r)
    <2>1. req'[q].watch = "taken"
      BY <1>4, <1>5, <1>7, <1>10, ReqAssumption
    <2> QED
      BY <1>3, <1>7, <2>1 DEF Users
  <1> QED
    BY <1>8, <1>9, <1>10 DEF Counted, RefCountExact

\* The count goes down with the request that is counted.
LEMMA FinishCounted ==
    ASSUME Inv, Finishing, Counted, CFinish
    PROVE  Finishing' /\ Counted'
  <1>0. /\ req \in [Req -> GoodRequests] /\ c \in GoodCompleted /\ finishedReqCh \in Seq(Req)
        /\ runner \in [Req -> GoodRunners]
        /\ c.req \in Req /\ c.run \in Req /\ c.pc = "finish"
        /\ \A i \in 1 .. Len(finishedReqCh) : finishedReqCh[i] \in Req
    BY DEF Inv, Typed, ReqOK, COK, ChansOK, RunnerOK, CFinish, GoodCompleted
  <1>1. PICK q \in Req, r \in Req : q = c.req /\ r = c.run
    BY <1>0
  <1>2. req[q].watch = "taken" /\ (~stale => req[q].held = r)
    BY <1>0, <1>1 DEF Finishing
  <1>3. /\ req'[q].watch = "gone" /\ req'[q].held = req[q].held
        /\ \A x \in Req \ {q} : req'[x] = req[x]
        /\ UNCHANGED <<loaded, stale, finishedReqCh>>
    BY <1>0, <1>1 DEF CFinish, GoodRequests, Requests, maps, env, chans
  <1>4. c'.pc # "finish"
    BY <1>0 DEF CFinish, CIdle, GoodCompleted, Completed
  <1>5. /\ runner'[r].refCount = Decrement(runner[r].refCount)
        /\ \A x \in Req \ {r} : runner'[x] = runner[x]
    <2>1. PICK ref \in GoodRunners, n \in 0 .. (RefMod - 1) :
             ref = runner[r] /\ n = Decrement(runner[r].refCount)
      BY <1>0, CountArithmetic DEF GoodRunners, Runners
    <2>2. runner'[r] = IF [ref EXCEPT !.refCount = n].refCount = 0
                       THEN GoneIdle([ref EXCEPT !.refCount = n])
                       ELSE [ref EXCEPT !.refCount = n]
      BY <1>0, <1>1, <2>1 DEF CFinish
    <2>3. \A x \in Req \ {r} : runner'[x] = runner[x]
      BY <1>0, <1>1 DEF CFinish
    <2> QED
      BY <2>1, <2>2, <2>3, FinishFields
  <1>6. Finishing'
    <2>1. \A i \in 1 .. Len(finishedReqCh) : req'[finishedReqCh[i]].watch = "queued"
      BY <1>0, <1>2, <1>3 DEF Finishing
    <2>2. \A x \in Req : req'[x].watch # "none" => req'[x].held # None
      BY <1>2, <1>3 DEF Finishing
    <2> QED
      BY <1>3, <1>4, <2>1, <2>2 DEF Finishing
  <1>7. ASSUME ~stale
        PROVE  /\ Users(r)' = Users(r) \ {q} /\ q \in Users(r)
               /\ \A x \in Req \ {r} : Users(x)' = Users(x)
    BY <1>2, <1>3, <1>7 DEF Users
  <1>8. ASSUME ~stale PROVE runner'[r].refCount = Cardinality(Users(r)')
    <2>1. PICK S \in SUBSET Req : S = Users(r)
      BY DEF Users
    <2>2. /\ Cardinality(S) \in Nat /\ Cardinality(S) < RefMod /\ Cardinality(S) # 0
          /\ Cardinality(S \ {q}) = Cardinality(S) - 1
      BY <1>7, <1>8, <2>1, RequestSets
    <2>3. Decrement(Cardinality(S)) = Cardinality(S) - 1
      BY <2>2, NoWrap
    <2>4. runner[r].refCount = Cardinality(S)
      BY <1>8, <2>1 DEF Counted, RefCountExact
    <2> QED
      BY <1>5, <1>7, <1>8, <2>1, <2>2, <2>3, <2>4
  <1>9. RefCountExact'
    BY <1>3, <1>5, <1>7, <1>8 DEF Counted, RefCountExact
  <1>10. ASSUME ~stale', NEW x \in Req, Users(x)' # {} PROVE loaded'[ModelOf[x]] = x
    BY <1>3, <1>7, <1>10 DEF Counted
  <1> QED
    BY <1>6, <1>9, <1>10 DEF Counted

\* All steps together.
LEMMA CountedNext ==
    ASSUME Inv, SameModel, UpWhileLoaded, Finishing, Counted, [Next]_vars
    PROVE  Finishing' /\ Counted'
  <1>0. Typed /\ stale' \in BOOLEAN
    BY InvNext DEF Inv, Typed, EnvOK
  <1>1. ASSUME NEW q \in Req, Use(q) \/ SendFinished(q) \/ Running(q)
        PROVE  Finishing' /\ Counted'
    BY <1>0, <1>1, GrantSteps, GrantCounted, SendCounted
  <1>2. CASE PUse
    <2>1. p.req \in Req
      BY <1>0, <1>2 DEF Typed, POK, GoodPending, PUse
    <2>2. p.run \in Req /\ Grant(p.req, p.run)
      BY <1>2, <2>1, GrantSteps
    <2> QED
      BY <1>0, <2>1, <2>2, GrantCounted
  <1> QED
    BY <1>0, <1>1, <1>2, UseSteps, KeptCounted, ReceiveCounted, FinishCounted

-----------------------------------------------------------------------------
(* What a step can do to a runner, apart from its count.                   *)

\* The runner stays what it is, and its keep_alive can only be taken away.
Tame(r) ==
    /\ runner'[r].proc = runner[r].proc /\ runner'[r].loader = runner[r].loader
    /\ runner'[r].refMu = "load" => runner[r].refMu = "load"
    /\ runner'[r].dur \in {runner[r].dur, 0}

\* The goroutines of a runner.
LEMMA GoroutinesTame ==
    ASSUME Typed, NEW r \in Req, Goroutines(r)
    PROVE  (\A x \in Req : Tame(x)) \/ Running(r)
  <1>0. runner \in [Req -> GoodRunners]
    BY DEF Typed, RunnerOK
  <1>1. CASE NotRunning(r)
    BY <1>0, <1>1 DEF NotRunning, Tame, GoodRunners, Runners
  <1>2. CASE TimerFires(r)
    BY <1>0, <1>2 DEF TimerFires, Tame, GoodRunners, Runners
  <1>3. CASE TimerCallback(r)
    BY <1>0, <1>3 DEF TimerCallback, Tame, GoodRunners, Runners
  <1>4. CASE SendExpired(r)
    BY <1>0, <1>4 DEF SendExpired, SendAndUnlock, Tame, GoodRunners, Runners
  <1>5. CASE Retry(r)
    BY <1>0, <1>5 DEF Retry, Tame, GoodRunners, Runners
  <1> QED
    BY <1>1, <1>2, <1>3, <1>4, <1>5 DEF Goroutines

\* Handlers and clients touch a runner only to take it.
LEMMA HandlerTame ==
    ASSUME NEW q \in Req, Handler(q) \/ Client(q)
    PROVE  UNCHANGED runner \/ Use(q)
  BY DEF Handler, Client, Lookup, NeedsReload, Enqueue, Busy, Complete, Cancel, SendFinished

\* `ollama stop' marks a runner, the shutdown closes all of them.
LEMMA StopTame ==
    ASSUME Typed, (\E s \in Stop : expireRunner(s)) \/ Shutdown
    PROVE  \A x \in Req : Tame(x)
  <1>0. runner \in [Req -> GoodRunners] /\ stop \in [Stop -> GoodStops]
    BY DEF Typed, RunnerOK, StopOK
  <1>1. ASSUME NEW s \in Stop, ExpireRunner(s) PROVE \A x \in Req : Tame(x)
    <2>1. stop[s].run \in Req
      BY <1>0, <1>1 DEF ExpireRunner, GoodStops
    <2> QED
      BY <1>0, <1>1, <2>1, MarkedFields DEF ExpireRunner, Tame
  <1>2. ASSUME NEW s \in Stop, ExpireLookup(s) PROVE \A x \in Req : Tame(x)
    BY <1>2 DEF ExpireLookup, Tame
  <1>3. CASE Shutdown
    BY <1>3 DEF Shutdown, Tame
  <1> QED
    BY <1>1, <1>2, <1>3 DEF expireRunner

\* processPending.
LEMMA PendingTame ==
    ASSUME Typed, processPending
    PROVE  \/ \A x \in Req : Tame(x)
           \/ PUse \/ NewServer \/ LoadFails \/ LoadSucceeds
  <1>0. runner \in [Req -> GoodRunners] /\ p \in GoodPending
    BY DEF Typed, RunnerOK, POK
  <1>1. CASE PExpire
    <2>1. p.run \in Req
      BY <1>0, <1>1 DEF PExpire, GoodPending
    <2> QED
      BY <1>0, <1>1, <2>1, MarkedFields DEF PExpire, Tame
  <1>2. CASE PSendExpired
    BY <1>0, <1>2 DEF PSendExpired, SendAndUnlock, Tame, GoodRunners, Runners
  <1>3. CASE UNCHANGED runner
    BY <1>3 DEF Tame
  <1> QED
    BY <1>1, <1>2, <1>3 DEF processPending, load, PRecv, PUnloaded, PExit, PSnapshot,
           PNeedsReload, LoadModelFails, UpdateFreeSpace, NewServerFails, ResumeServer,
           PanicOtherModel, LoadNeedsEviction, PanicNilActive, FindRunnerToUnload,
           UpdateFreeSpaceOf, Scan

\* processCompleted.
LEMMA CompletedTame ==
    ASSUME Typed, processCompleted
    PROVE  (\A x \in Req : Tame(x)) \/ COrphan \/ CUnload
  <1>0. runner \in [Req -> GoodRunners] /\ c \in GoodCompleted
    BY DEF Typed, RunnerOK, COK
  <1>1. CASE CFinish
    <2>0. c.run \in Req
      BY <1>0, <1>1 DEF CFinish, GoodCompleted
    <2>1. PICK ref \in GoodRunners, n \in 0 .. (RefMod - 1) :
             ref = runner[c.run] /\ n = Decrement(runner[c.run].refCount)
      BY <1>0, <2>0, CountArithmetic DEF GoodRunners, Runners
    <2>2. runner'[c.run] = IF [ref EXCEPT !.refCount = n].refCount = 0
                           THEN GoneIdle([ref EXCEPT !.refCount = n])
                           ELSE [ref EXCEPT !.refCount = n]
      BY <1>0, <1>1, <2>0, <2>1 DEF CFinish
    <2>3. \A x \in Req \ {c.run} : runner'[x] = runner[x]
      BY <1>0, <1>1 DEF CFinish
    <2>4. /\ runner'[c.run].proc = ref.proc /\ runner'[c.run].loader = ref.loader
          /\ runner'[c.run].dur = ref.dur /\ runner'[c.run].refMu \in {ref.refMu, "completed"}
      BY <2>2, FinishFields
    <2>5. Tame(c.run)
      BY <2>1, <2>4 DEF Tame
    <2> QED
      BY <2>3, <2>5 DEF Tame
  <1>2. CASE CSendExpired
    BY <1>0, <1>2 DEF CSendExpired, SendAndUnlock, Tame, GoodRunners, Runners
  <1>3. CASE CRetry
    BY <1>0, <1>3 DEF CRetry, Tame, GoodRunners, Runners
  <1>4. CASE CRecovered
    BY <1>0, <1>4 DEF CRecovered, Tame, GoodRunners, Runners
  <1>5. CASE UNCHANGED runner
    BY <1>5 DEF Tame
  <1> QED
    BY <1>1, <1>2, <1>3, <1>4, <1>5 DEF processCompleted, CRecvFinished, CRecvExpired,
           CDuplicate, CNotify, CExit

\* All steps together.
LEMMA TameSteps ==
    ASSUME Typed, [Next]_vars
    PROVE  \/ \A x \in Req : Tame(x)
           \/ \E q \in Req : Use(q) \/ Running(q)
           \/ PUse \/ NewServer \/ LoadFails \/ LoadSucceeds \/ COrphan \/ CUnload
           \/ unloadAllRunners
  <1>1. CASE UNCHANGED runner
    BY <1>1 DEF Tame
  <1>2. CASE UNCHANGED vars
    BY <1>1, <1>2 DEF vars
  <1>3. CASE Next
    BY <1>1, <1>2, <1>3, GoroutinesTame, HandlerTame, StopTame, PendingTame, CompletedTame
    DEF Next, Serve
  <1> QED
    BY <1>2, <1>3

\* The fields of the runners after the steps that start or end a process.
LEMMA ProcessFields ==
    ASSUME Inv
    PROVE  /\ NewServer =>
                \A x \in Req : /\ runner'[x].loader = runner[x].loader
                               /\ runner'[x].refMu = runner[x].refMu
                               /\ runner'[x].dur = runner[x].dur
                               /\ runner[x].proc = "up" \/ x = p.req => runner'[x].proc = "up"
           /\ LoadFails \/ unloadAllRunners =>
                \A x \in Req : /\ runner'[x].loader = runner[x].loader
                               /\ runner'[x].refMu = runner[x].refMu
                               /\ runner'[x].dur = runner[x].dur
           /\ LoadFails => \A x \in Known : runner'[x].proc = runner[x].proc
           /\ LoadSucceeds =>
                /\ runner'[p.run].loader = p.req /\ runner'[p.run].proc = runner[p.run].proc
                /\ \A x \in Req \ {p.run} : runner'[x] = runner[x]
           /\ COrphan \/ CUnload =>
                /\ c.run \in Req
                /\ runner'[c.run].loader = runner[c.run].loader
                /\ runner'[c.run].refMu # "load"
                /\ runner'[c.run].dur = runner[c.run].dur
                /\ \A x \in Req \ {c.run} : runner'[x] = runner[x]
  <1>0. runner \in [Req -> GoodRunners] /\ c \in GoodCompleted
    BY DEF Inv, Typed, RunnerOK, COK
  <1>1. ASSUME NewServer
        PROVE  \A x \in Req : /\ runner'[x].loader = runner[x].loader
                              /\ runner'[x].refMu = runner[x].refMu
                              /\ runner'[x].dur = runner[x].dur
                              /\ runner[x].proc = "up" \/ x = p.req => runner'[x].proc = "up"
    BY <1>0, <1>1 DEF NewServer, GoodRunners, Runners
  <1>2. ASSUME LoadFails
        PROVE  /\ \A x \in Req : /\ runner'[x].loader = runner[x].loader
                                 /\ runner'[x].refMu = runner[x].refMu
                                 /\ runner'[x].dur = runner[x].dur
               /\ \A x \in Known : runner'[x].proc = runner[x].proc
    <2>1. activeLoading \notin Known
      BY <1>2 DEF LoadFails, Inv, AnswerInv, Fresh
    <2>2. \A x \in Req : /\ runner'[x].loader = runner[x].loader
                         /\ runner'[x].refMu = runner[x].refMu
                         /\ runner'[x].dur = runner[x].dur
      BY <1>0, <1>2 DEF LoadFails, GoodRunners, Runners
    <2>3. \A x \in Req \ {activeLoading} : runner'[x] = runner[x]
      BY <1>0, <1>2 DEF LoadFails
    <2> QED
      BY <2>1, <2>2, <2>3 DEF Known
  <1>3. ASSUME unloadAllRunners
        PROVE  \A x \in Req : /\ runner'[x].loader = runner[x].loader
                              /\ runner'[x].refMu = runner[x].refMu
                              /\ runner'[x].dur = runner[x].dur
    BY <1>0, <1>3 DEF unloadAllRunners, GoodRunners, Runners
  <1>4. ASSUME LoadSucceeds
        PROVE  /\ runner'[p.run].loader = p.req /\ runner'[p.run].proc = runner[p.run].proc
               /\ \A x \in Req \ {p.run} : runner'[x] = runner[x]
    <2>1. p.run \in Req /\ ModelOf[p.run] = ModelOf[p.req] /\ loaded[ModelOf[p.run]] = None
      BY <1>4, MapEffect DEF LoadSucceeds
    <2>2. runner'[p.run] = [runner[p.run] EXCEPT !.loader = p.req, !.refMu = "load",
                   !.dur = IF DurOf[p.req] = NoDuration THEN KeepAlive ELSE DurOf[p.req]]
      BY <1>4, <2>1 DEF LoadSucceeds
    <2>3. runner'[p.run].loader = p.req /\ runner'[p.run].proc = runner[p.run].proc
      BY <1>0, <2>1, <2>2 DEF GoodRunners, Runners
    <2>4. \A x \in Req \ {p.run} : runner'[x] = runner[x]
      BY <1>4, <2>1, ReqAssumption DEF LoadSucceeds
    <2> QED
      BY <2>3, <2>4
  <1>5. ASSUME COrphan \/ CUnload
        PROVE  /\ c.run \in Req
               /\ runner'[c.run].loader = runner[c.run].loader
               /\ runner'[c.run].refMu # "load"
               /\ runner'[c.run].dur = runner[c.run].dur
               /\ \A x \in Req \ {c.run} : runner'[x] = runner[x]
    <2>1. c.run \in Req /\ runner[c.run] \in GoodRunners /\ runner[c.run].refMu = "free"
      BY <1>0, <1>5 DEF COrphan, CUnload, GoodCompleted, Free
    <2>2. runner'[c.run] \in {Unload(runner[c.run]), [Unload(runner[c.run]) EXCEPT !.refMu = "vram"]}
      BY <1>0, <1>5, <2>1 DEF COrphan, CUnload
    <2>3. \A x \in Req \ {c.run} : runner'[x] = runner[x]
      BY <1>0, <1>5 DEF COrphan, CUnload
    <2> QED
      BY <2>1, <2>2, <2>3, UnloadFields
  <1> QED
    BY <1>1, <1>2, <1>3, <1>4, <1>5

\* A request looks its runner up by its model, and forgets it in the end.
LEMMA RunSteps ==
    ASSUME Inv, [Next]_vars, NEW x \in Req
    PROVE  req'[x].run \in {req[x].run, None, loaded[ModelOf[x]]}
  <1>0. req \in [Req -> GoodRequests] /\ runner \in [Req -> GoodRunners] /\ p \in GoodPending
        /\ c \in GoodCompleted
    BY DEF Inv, Typed, ReqOK, RunnerOK, POK, COK
  <1>1. ASSUME UNCHANGED req PROVE req'[x].run = req[x].run
    BY <1>1
  <1>2. ASSUME NEW q \in Req, NEW r \in Req, req' = [req EXCEPT ![q] = Granted(req[q], r)]
        PROVE  req'[x].run \in {req[x].run, None}
    BY <1>0, <1>2, GrantedFields
  <1>3. ASSUME NEW q \in Req, Refused(q) PROVE req'[x].run = req[x].run
    BY <1>0, <1>3, AnsweredFields DEF Refused
  <1>4. ASSUME NEW q \in Req, Handler(q) \/ Client(q)
        PROVE  req'[x].run \in {req[x].run, None, loaded[ModelOf[x]]}
    <2>1. CASE Lookup(q)
      BY <1>0, <2>1 DEF Lookup, GoodRequests, Requests
    <2>2. CASE NeedsReload(q)
      BY <1>0, <2>2 DEF NeedsReload, GoodRequests, Requests
    <2>3. CASE Use(q)
      <3>1. req[q].run \in Req
        BY <1>0, <2>3 DEF Use, GoodRequests
      <3> QED
        BY <1>2, <2>3, <3>1 DEF Use, useLoadedRunner
    <2>4. CASE Enqueue(q)
      BY <1>0, <2>4 DEF Enqueue, GoodRequests, Requests
    <2>5. CASE Busy(q)
      BY <1>0, <2>5, AnsweredFields DEF Busy
    <2>6. CASE Client(q)
      BY <1>0, <2>6 DEF Client, Complete, Cancel, SendFinished, GoodRequests, Requests
    <2> QED
      BY <1>4, <2>1, <2>2, <2>3, <2>4, <2>5, <2>6 DEF Handler
  <1>5. ASSUME NEW r \in Req, Goroutines(r) PROVE req'[x].run \in {req[x].run, None}
    <2>1. CASE Running(r) \/ NotRunning(r)
      <3>1. runner[r].loader \in Req
        BY <1>0, <2>1 DEF Running, NotRunning, GoodRunners
      <3> QED
        BY <1>2, <1>3, <2>1, <3>1 DEF Running, NotRunning
    <2> QED
      BY <1>1, <1>5, <2>1 DEF Goroutines, TimerFires, TimerCallback, SendExpired, Retry
  <1>6. CASE processPending
    <2>1. CASE PUse
      <3>1. p.req \in Req /\ p.run \in Req
        BY <1>0, <2>1 DEF PUse, GoodPending
      <3> QED
        BY <1>2, <2>1, <3>1 DEF PUse, useLoadedRunner
    <2>2. CASE LoadModelFails \/ NewServerFails \/ LoadFails
      <3>1. p.req \in Req /\ Refused(p.req)
        BY <1>0, <2>2 DEF LoadModelFails, NewServerFails, LoadFails, Refuse, GoodPending
      <3> QED
        BY <1>3, <3>1
    <2> QED
      BY <1>1, <1>6, <2>1, <2>2 DEF processPending, load, PRecv, PUnloaded, PExit, PSnapshot,
           PNeedsReload, UpdateFreeSpace, NewServer, ResumeServer, PanicOtherModel, LoadSucceeds,
           LoadNeedsEviction, PanicNilActive, FindRunnerToUnload, PExpire, PSendExpired,
           UpdateFreeSpaceOf, Scan
  <1>7. CASE processCompleted
    <2>1. CASE CRecvFinished \/ CFinish
      BY <1>0, <2>1 DEF CRecvFinished, CFinish, GoodRequests, Requests
    <2> QED
      BY <1>1, <1>7, <2>1 DEF processCompleted, CSendExpired, CRecvExpired, CRetry, CDuplicate,
           COrphan, CUnload, CRecovered, CNotify, CExit
  <1>8. CASE (\E s \in Stop : expireRunner(s)) \/ Shutdown \/ unloadAllRunners \/ UNCHANGED vars
    BY <1>1, <1>8 DEF expireRunner, ExpireLookup, ExpireRunner, Shutdown, unloadAllRunners, vars
  <1> QED
    BY <1>4, <1>5, <1>6, <1>7, <1>8 DEF Next, Serve

\* processPending works on a runner it looked up by the model of its request.
LEMMA CheckSteps ==
    ASSUME Inv, [Next]_vars, p'.pc \in {"check", "use"}
    PROVE  /\ p'.req = p.req
           /\ \/ p.pc \in {"check", "use"} /\ p'.run = p.run /\ (p'.pc = "check" => p.pc = "check")
              \/ /\ PSnapshot /\ p'.pc = "check" /\ p'.run = loaded[ModelOf[p.req]] /\ p'.run # None
                 /\ p.req \in Req
  <1>0. p \in GoodPending
    BY DEF Inv, Typed, POK
  <1>1. CASE UNCHANGED p
    BY <1>1
  <1>2. CASE PSnapshot
    BY <1>0, <1>2 DEF PSnapshot, GoodPending, Pending
  <1>3. CASE PNeedsReload
    BY <1>0, <1>3 DEF PNeedsReload, GoodPending, Pending
  <1>4. CASE p'.pc \notin {"check", "use"}
    BY <1>4
  <1>5. CASE processPending
    <2>1. CASE PRecv \/ PUnloaded \/ PExit \/ PUse
      BY <1>0, <1>1, <1>4, <2>1 DEF PRecv, PUnloaded, Again, PExit, PUse, Idle, GoodPending, Pending
    <2>2. CASE LoadModelFails \/ NewServerFails \/ LoadFails \/ LoadSucceeds
      BY <1>0, <1>4, <2>2 DEF LoadModelFails, NewServerFails, LoadFails, LoadSucceeds, Refuse, Idle,
                              GoodPending, Pending
    <2>3. CASE UpdateFreeSpace \/ NewServer \/ ResumeServer \/ LoadNeedsEviction
      BY <1>0, <1>4, <2>3 DEF UpdateFreeSpace, NewServer, ResumeServer, LoadNeedsEviction,
                              GoodPending, Pending
    <2>4. CASE FindRunnerToUnload \/ PExpire \/ PSendExpired
      BY <1>0, <1>4, <2>4 DEF FindRunnerToUnload, PExpire, PSendExpired, GoodPending, Pending
    <2>5. CASE PanicOtherModel \/ PanicNilActive
      BY <1>1, <2>5 DEF PanicOtherModel, PanicNilActive
    <2>6. ASSUME NEW r \in Req, UpdateFreeSpaceOf(r) \/ Scan(r) PROVE p'.pc \notin {"check", "use"}
      BY <1>0, <2>6 DEF UpdateFreeSpaceOf, Scan, GoodPending, Pending
    <2> QED
      BY <1>2, <1>3, <1>4, <1>5, <2>1, <2>2, <2>3, <2>4, <2>5, <2>6 DEF processPending, load
  <1>6. CASE processCompleted
    BY <1>1, <1>6 DEF processCompleted, CRecvFinished, CFinish, CSendExpired, CRecvExpired,
           CRetry, CDuplicate, COrphan, CUnload, CRecovered, CNotify, CExit
  <1>7. ASSUME NEW q \in Req, Handler(q) \/ Client(q) \/ Goroutines(q) PROVE UNCHANGED p
    BY <1>7 DEF Handler, Client, Goroutines, Lookup, NeedsReload, Use, Enqueue, Busy, Complete,
                Cancel, SendFinished, Running, NotRunning, TimerFires, TimerCallback,
                SendExpired, Retry
  <1>8. CASE (\E s \in Stop : expireRunner(s)) \/ Shutdown \/ unloadAllRunners \/ UNCHANGED vars
    BY <1>1, <1>8 DEF expireRunner, ExpireLookup, ExpireRunner, Shutdown, unloadAllRunners, vars
  <1> QED
    BY <1>1, <1>5, <1>6, <1>7, <1>8 DEF Next, Serve

\* The models agree after every step.
LEMMA SameModelNext ==
    ASSUME Inv, SameModel, UpWhileLoaded, Finishing, [Next]_vars
    PROVE  SameModel'
  <1>0. /\ Typed /\ req \in [Req -> GoodRequests] /\ runner \in [Req -> GoodRunners]
        /\ p \in GoodPending
        /\ loaded \in [Path -> Opt(Req)]
        /\ \A m \in Path : loaded[m] # None => ModelOf[loaded[m]] = m
        /\ \A q \in Req : ModelOf[q] \in Path
    BY DEF Inv, Typed, ReqOK, RunnerOK, POK, MapsOK, LoadInv, Path
  <1>1. ASSUME NEW q \in Req, req'[q].run # None PROVE ModelOf[req'[q].run] = ModelOf[q]
    BY <1>0, <1>1, RunSteps DEF SameModel
  <1>2. ASSUME NEW q \in Req, req'[q].held # None PROVE ModelOf[req'[q].held] = ModelOf[q]
    <2>1. ASSUME NEW x \in Req, NEW r \in Req, Grant(x, r) PROVE ModelOf[req'[q].held] = ModelOf[q]
      <3>1. CASE q = x
        BY <1>0, <2>1, <3>1, GrantedFields DEF Grant
      <3>2. CASE q # x
        BY <1>0, <1>2, <2>1, <3>2 DEF Grant, SameModel
      <3> QED
        BY <3>1, <3>2
    <2>2. CASE req'[q].held = req[q].held
      BY <1>2, <2>2 DEF SameModel
    <2>3. CASE UsesKept
      BY <2>2, <2>3 DEF UsesKept, SameUse
    <2>4. CASE CRecvFinished \/ CFinish \/ \E x \in Req : SendFinished(x)
      <3>1. CASE CRecvFinished
        BY <1>0, <2>2, <3>1 DEF CRecvFinished, GoodRequests, Requests
      <3>2. CASE CFinish
        BY <1>0, <2>2, <3>2 DEF CFinish, GoodRequests, Requests
      <3>3. ASSUME NEW x \in Req, SendFinished(x) PROVE req'[q].held = req[q].held
        BY <1>0, <3>3 DEF SendFinished, GoodRequests, Requests
      <3> QED
        BY <2>2, <2>4, <3>1, <3>2, <3>3
    <2>5. ASSUME NEW x \in Req, Use(x) \/ Running(x) PROVE ModelOf[req'[q].held] = ModelOf[q]
      BY <2>1, <2>5, GrantSteps
    <2>6. CASE PUse
      BY <2>1, <2>6, GrantSteps
    <2> QED
      BY <1>0, <2>3, <2>4, <2>5, <2>6, UseSteps
  <1>3. ASSUME p'.pc \in {"check", "use"} PROVE ModelOf[p'.run] = ModelOf[p'.req]
    BY <1>0, <1>3, CheckSteps DEF SameModel
  <1>4. ASSUME NEW r \in Req, runner'[r].loader # None
        PROVE  ModelOf[runner'[r].loader] = ModelOf[r]
    <2>1. CASE runner'[r].loader = runner[r].loader
      BY <1>4, <2>1 DEF SameModel, Known
    <2>2. CASE Tame(r)
      BY <2>1, <2>2 DEF Tame
    <2>3. ASSUME NEW x \in Req, NEW y \in Req, Grant(x, y)
          PROVE  runner'[r].loader = runner[r].loader
      BY <2>3 DEF Grant
    <2>4. ASSUME NEW x \in Req, Use(x) \/ Running(x) PROVE runner'[r].loader = runner[r].loader
      BY <2>3, <2>4, GrantSteps
    <2>5. CASE PUse
      BY <2>1, <2>3, <2>5, GrantSteps
    <2>6. CASE NewServer \/ LoadFails \/ unloadAllRunners \/ COrphan \/ CUnload
      <3>1. runner'[r].loader = runner[r].loader
        BY <2>6, ProcessFields
      <3> QED
        BY <2>1, <3>1
    <2>7. CASE LoadSucceeds
      <3>1. CASE r = p.run
        BY <2>7, <3>1, ProcessFields, MapEffect
      <3>2. CASE r # p.run
        BY <2>1, <2>7, <3>2, ProcessFields
      <3> QED
        BY <3>1, <3>2
    <2> QED
      BY <1>0, <2>1, <2>2, <2>4, <2>5, <2>6, <2>7, TameSteps
  <1> QED
    BY <1>1, <1>2, <1>3, <1>4 DEF SameModel, Known

\* Only a shutdown changes the phase, and it is not undone.
LEMMA PhaseSteps ==
    ASSUME [Next]_vars, phase' # "unloaded"
    PROVE  phase # "unloaded" /\ ~unloadAllRunners
  <1> SUFFICES phase' = phase \/ Shutdown \/ unloadAllRunners
    BY DEF Shutdown, unloadAllRunners
  <1>1. ASSUME NEW q \in Req, Handler(q) \/ Client(q) \/ Goroutines(q) PROVE UNCHANGED phase
    BY <1>1 DEF Handler, Client, Goroutines, Lookup, NeedsReload, Use, Enqueue, Busy, Complete,
                Cancel, SendFinished, Running, NotRunning, TimerFires, TimerCallback,
                SendExpired, Retry, env
  <1>2. CASE processPending
    BY <1>2 DEF processPending, load, PRecv, PUnloaded, PExit, PSnapshot, PNeedsReload, PUse,
         LoadModelFails, UpdateFreeSpace, NewServer, NewServerFails, ResumeServer,
         PanicOtherModel, LoadNeedsEviction, LoadFails, LoadSucceeds, PanicNilActive,
         FindRunnerToUnload, PExpire, PSendExpired, UpdateFreeSpaceOf, Scan, env
  <1>3. CASE processCompleted
    BY <1>3 DEF processCompleted, CRecvFinished, CFinish, CSendExpired, CRecvExpired, CRetry,
         CDuplicate, COrphan, CUnload, CRecovered, CNotify, CExit, env
  <1>4. ASSUME NEW s \in Stop, expireRunner(s) PROVE UNCHANGED phase
    BY <1>4 DEF expireRunner, ExpireLookup, ExpireRunner
  <1>5. CASE UNCHANGED vars
    BY <1>5 DEF vars, env
  <1> QED
    BY <1>1, <1>2, <1>3, <1>4, <1>5 DEF Next, Serve

\* The server being loaded is up after every step.
LEMMA LoadingUpNext ==
    ASSUME Inv, SameModel, UpWhileLoaded, LoadingUp, [Next]_vars
    PROVE  LoadingUp'
  <1> SUFFICES ASSUME phase' # "unloaded"
               PROVE  /\ activeLoading' # None => runner'[activeLoading'].proc = "up"
                      /\ p'.pc = "loading" => activeLoading' = p'.run
    BY DEF LoadingUp
  <1>0. /\ Typed /\ runner \in [Req -> GoodRunners] /\ p \in GoodPending /\ c \in GoodCompleted
        /\ activeLoading \in Opt(Req) /\ activeLoading \notin Known
    BY ReqAssumption DEF Inv, Typed, RunnerOK, POK, COK, MapsOK, AnswerInv, Fresh, Known
  <1>1. /\ phase # "unloaded" /\ ~unloadAllRunners
        /\ activeLoading # None => runner[activeLoading].proc = "up"
        /\ p.pc = "loading" => activeLoading = p.run
    BY PhaseSteps DEF LoadingUp
  <1>2. \/ UNCHANGED <<activeLoading, p>>
        \/ processPending
    <2>1. ASSUME NEW q \in Req, Handler(q) \/ Client(q) \/ Goroutines(q)
          PROVE  UNCHANGED <<activeLoading, p>>
      BY <2>1 DEF Handler, Client, Goroutines, Lookup, NeedsReload, Use, Enqueue, Busy, Complete,
                  Cancel, SendFinished, Running, NotRunning, TimerFires, TimerCallback,
                  SendExpired, Retry, maps
    <2>2. CASE processCompleted
      BY <2>2 DEF processCompleted, CRecvFinished, CFinish, CSendExpired, CRecvExpired, CRetry,
           CDuplicate, COrphan, CUnload, CRecovered, CNotify, CExit, maps
    <2>3. ASSUME NEW s \in Stop, expireRunner(s) PROVE UNCHANGED <<activeLoading, p>>
      BY <2>3 DEF expireRunner, ExpireLookup, ExpireRunner, maps
    <2>4. CASE Shutdown \/ UNCHANGED vars
      BY <2>4 DEF Shutdown, vars, maps
    <2> QED
      BY <1>1, <2>1, <2>2, <2>3, <2>4 DEF Next, Serve
  <1>3. \/ activeLoading' \in {activeLoading, None}
        \/ NewServer /\ activeLoading' = p.req
    <2>1. CASE processPending /\ ~(NewServer \/ LoadFails \/ LoadSucceeds)
      BY <2>1 DEF processPending, load, PRecv, PUnloaded, PExit, PSnapshot, PNeedsReload, PUse,
           LoadModelFails, UpdateFreeSpace, NewServerFails, ResumeServer,
           PanicOtherModel, LoadNeedsEviction, PanicNilActive, FindRunnerToUnload,
           PExpire, PSendExpired, UpdateFreeSpaceOf, Scan, maps
    <2>2. CASE NewServer \/ LoadFails \/ LoadSucceeds
      BY <2>2 DEF NewServer, LoadFails, LoadSucceeds
    <2> QED
      BY <1>2, <2>1, <2>2
  <1>4. ASSUME p'.pc = "loading" PROVE activeLoading' = p'.run
    <2>1. CASE p' = p /\ activeLoading' = activeLoading
      BY <1>1, <1>4, <2>1
    <2>2. CASE NewServer \/ ResumeServer
      <3>1. p \in Pending
        BY <1>0 DEF GoodPending
      <3>2. CASE NewServer
        BY <3>1, <3>2 DEF NewServer, Pending
      <3>3. CASE ResumeServer
        BY <3>1, <3>3 DEF ResumeServer, maps, Pending
      <3> QED
        BY <2>2, <3>2, <3>3
    <2>3. CASE processPending /\ ~NewServer /\ ~ResumeServer
      <3>1. CASE PRecv \/ PUnloaded \/ PExit \/ PSnapshot \/ PNeedsReload \/ PUse
        BY <1>0, <1>1, <1>4, <3>1 DEF PRecv, PUnloaded, PExit, PSnapshot, PNeedsReload, PUse, Idle,
               Again, GoodPending, Pending, maps
      <3>2. CASE LoadModelFails \/ UpdateFreeSpace \/ NewServerFails \/ LoadNeedsEviction
                 \/ LoadFails \/ LoadSucceeds
        BY <1>0, <1>1, <1>4, <3>2 DEF LoadModelFails, UpdateFreeSpace, NewServerFails,
               LoadNeedsEviction, LoadFails, LoadSucceeds, Refuse, Idle, GoodPending, Pending, maps
      <3>3. CASE PanicOtherModel \/ PanicNilActive
        BY <1>1, <1>4, <3>3 DEF PanicOtherModel, PanicNilActive, maps
      <3>4. CASE FindRunnerToUnload \/ PExpire \/ PSendExpired
        BY <1>0, <1>1, <1>4, <3>4 DEF FindRunnerToUnload, PExpire, PSendExpired, GoodPending,
               Pending, maps
      <3>5. ASSUME NEW r \in Req, UpdateFreeSpaceOf(r) \/ Scan(r) PROVE FALSE
        BY <1>0, <1>4, <3>5 DEF UpdateFreeSpaceOf, Scan, GoodPending, Pending
      <3> QED
        BY <2>3, <3>1, <3>2, <3>3, <3>4, <3>5 DEF processPending, load
    <2> QED
      BY <1>2, <2>1, <2>2, <2>3
  <1>5. ASSUME activeLoading' # None PROVE runner'[activeLoading'].proc = "up"
    <2>1. CASE NewServer
      <3>1. activeLoading' = p.req /\ p.req \in Req
        BY <1>0, <2>1 DEF NewServer, GoodPending
      <3> QED
        BY <2>1, <3>1, ProcessFields
    <2>2. CASE ~NewServer
      <3>1. PICK r \in Req \ Known : r = activeLoading /\ activeLoading' = r
        BY <1>0, <1>3, <1>5, <2>2 DEF Opt
      <3>2. r \in Req /\ runner[r].proc = "up"
        BY <1>1, <1>5, <1>3, <2>2, <3>1, ReqAssumption
      <3>3. CASE Tame(r)
        BY <3>1, <3>2, <3>3 DEF Tame
      <3>4. ASSUME NEW x \in Req, NEW y \in Req, Grant(x, y) PROVE runner'[r].proc = "up"
        BY <3>2, <3>4 DEF Grant
      <3>5. ASSUME NEW x \in Req, Use(x) \/ Running(x) PROVE runner'[r].proc = "up"
        BY <3>4, <3>5, GrantSteps
      <3>6. CASE PUse
        BY <3>1, <3>2, <3>4, <3>6, GrantSteps
      <3>7. CASE LoadFails \/ LoadSucceeds
        BY <1>5, <3>7 DEF LoadFails, LoadSucceeds
      <3>8. CASE COrphan \/ CUnload
        <4>1. c.run \in Known
          BY <3>8, ProcessFields, ReqAssumption DEF Inv, KnownInv, KnownC, Opt
        <4> QED
          BY <3>1, <3>2, <3>8, <4>1, ProcessFields
      <3> QED
        BY <1>0, <1>1, <2>2, <3>1, <3>2, <3>3, <3>5, <3>6, <3>7, <3>8, TameSteps
    <2> QED
      BY <2>1, <2>2
  <1> QED
    BY <1>4, <1>5

\* Loaded runners are up, runners that come up are loaded, after every step.
LEMMA UpWhileLoadedNext ==
    ASSUME Inv, SameModel, UpWhileLoaded, LoadingUp, [Next]_vars
    PROVE  UpWhileLoaded'
  <1>0. /\ Typed /\ runner \in [Req -> GoodRunners] /\ c \in GoodCompleted
        /\ loaded \in [Path -> Opt(Req)]
        /\ \A m \in Path : loaded[m] # None => loaded[m] \in Known /\ ModelOf[loaded[m]] = m
        /\ \A q \in Req : ModelOf[q] \in Path
    BY DEF Inv, Typed, RunnerOK, COK, MapsOK, KnownInv, KnownLoaded, LoadInv, Path, Opt
  <1>1. \A r \in LoadedRunners : r \in Req /\ r \in Known /\ loaded[ModelOf[r]] = r
    BY <1>0 DEF LoadedRunners, Known
  <1>2. \A r \in LoadedRunners : phase # "unloaded" => runner[r].proc = "up"
    BY <1>0 DEF UpWhileLoaded, LoadedRunners
  <1>4. phase' # "unloaded" => phase # "unloaded" /\ ~unloadAllRunners
    BY PhaseSteps
  <1>5. ASSUME NEW r \in Req, NEW x \in Req, NEW y \in Req, Grant(x, y)
        PROVE  runner'[r].proc = runner[r].proc /\ (runner'[r].refMu = "load" => runner[r].refMu = "load")
    BY <1>5 DEF Grant
  <1>6. ASSUME NEW m \in Path, loaded'[m] # None, phase' # "unloaded"
        PROVE  runner'[loaded'[m]].proc = "up"
    <2>1. CASE LoadSucceeds
      <3>1. CASE m = ModelOf[p.run]
        <4>1. loaded'[m] = p.run
          BY <1>0, <2>1, <3>1, MapEffect
        <4>2. p.run \in Req /\ p.pc = "loading"
          BY <2>1, MapEffect DEF LoadSucceeds
        <4>3. runner[p.run].proc = "up"
          BY <1>4, <1>6, <4>2, ReqAssumption DEF LoadingUp
        <4> QED
          BY <2>1, <4>1, <4>3, ProcessFields
      <3>2. CASE m # ModelOf[p.run]
        <4>1. loaded'[m] = loaded[m] /\ loaded[m] \in Req \ {p.run}
          BY <1>0, <1>6, <2>1, <3>2, MapEffect DEF Known
        <4> QED
          BY <1>4, <1>6, <2>1, <4>1, ProcessFields DEF UpWhileLoaded
      <3> QED
        BY <3>1, <3>2
    <2>2. CASE CUnload
      <3>1. m # ModelOf[c.run] /\ loaded'[m] = loaded[m]
        BY <1>0, <1>6, <2>2, MapEffect
      <3>2. loaded[m] \in Req \ {c.run}
        BY <1>0, <1>6, <3>1 DEF Known
      <3> QED
        BY <1>4, <1>6, <2>2, <3>1, <3>2, ProcessFields DEF UpWhileLoaded
    <2>3. CASE UNCHANGED loaded /\ ~LoadSucceeds /\ ~CUnload
      <3>1. PICK r \in Known : r = loaded[m] /\ loaded'[m] = r /\ r \in Req
        BY <1>0, <1>6, <2>3 DEF Known
      <3>2. runner[r].proc = "up"
        BY <1>4, <1>6, <2>3, <3>1 DEF UpWhileLoaded
      <3>3. CASE runner'[r].proc = runner[r].proc
        BY <3>1, <3>2, <3>3
      <3>4. CASE Tame(r)
        BY <3>3, <3>4 DEF Tame
      <3>5. ASSUME NEW x \in Req, Use(x) \/ Running(x) PROVE runner'[r].proc = runner[r].proc
        BY <1>5, <3>1, <3>5, GrantSteps
      <3>6. CASE PUse
        BY <1>5, <3>1, <3>3, <3>6, GrantSteps
      <3>7. CASE NewServer
        BY <3>1, <3>2, <3>7, ProcessFields
      <3>8. CASE LoadFails
        BY <3>1, <3>3, <3>8, ProcessFields
      <3>9. CASE COrphan
        <4>1. r # c.run
          BY <1>0, <1>6, <2>3, <3>1, <3>9 DEF COrphan
        <4> QED
          BY <3>1, <3>3, <3>9, <4>1, ProcessFields
      <3> QED
        BY <1>0, <1>4, <1>6, <2>3, <3>1, <3>3, <3>4, <3>5, <3>6, <3>7, <3>8, <3>9, TameSteps
    <2> QED
      BY <2>1, <2>2, <2>3, MapSteps
  <1>7. ASSUME NEW r \in Req, runner'[r].refMu = "load" PROVE loaded'[ModelOf[r]] = r
    <2>1. runner[r].refMu = "load" \/ (LoadSucceeds /\ r = p.run)
      <3>1. CASE Tame(r)
        BY <1>7, <3>1 DEF Tame
      <3>2. ASSUME NEW x \in Req, Use(x) \/ Running(x) PROVE runner[r].refMu = "load"
        BY <1>5, <1>7, <3>2, GrantSteps
      <3>3. CASE PUse
        BY <1>5, <1>7, <3>3, GrantSteps
      <3>4. CASE NewServer \/ LoadFails \/ unloadAllRunners
        BY <1>7, <3>4, ProcessFields
      <3>5. CASE COrphan \/ CUnload
        <4>1. r # c.run /\ runner'[r] = runner[r]
          BY <1>7, <3>5, ProcessFields
        <4> QED
          BY <1>7, <4>1
      <3>6. CASE LoadSucceeds
        BY <1>7, <3>6, ProcessFields
      <3> QED
        BY <1>0, <3>1, <3>2, <3>3, <3>4, <3>5, <3>6, TameSteps
    <2>2. CASE LoadSucceeds
      <3>1. CASE r = p.run
        BY <1>0, <2>2, <3>1, MapEffect
      <3>2. CASE r # p.run
        <4>1. loaded[ModelOf[r]] = r
          BY <2>1, <3>2 DEF UpWhileLoaded
        <4>2. ModelOf[r] # ModelOf[p.run]
          BY <2>2, <4>1, MapEffect, ReqAssumption
        <4> QED
          BY <1>0, <2>2, <4>1, <4>2, MapEffect
      <3> QED
        BY <3>1, <3>2
    <2>3. CASE CUnload
      <3>1. runner[r].refMu = "load" \/ LoadSucceeds
        BY <2>1
      <3>2. ASSUME ~LoadSucceeds PROVE loaded'[ModelOf[r]] = r
        <4>1. loaded[ModelOf[r]] = r /\ r # c.run
          BY <2>3, <3>1, <3>2 DEF UpWhileLoaded, CUnload, Free
        <4>2. ModelOf[r] # ModelOf[c.run]
          BY <2>3, <4>1, MapEffect
        <4> QED
          BY <1>0, <2>3, <4>1, <4>2, MapEffect
      <3> QED
        BY <2>2, <3>2
    <2>4. CASE UNCHANGED loaded /\ ~LoadSucceeds
      BY <2>1, <2>4 DEF UpWhileLoaded
    <2> QED
      BY <2>2, <2>3, <2>4, MapSteps
  <1>8. ASSUME c'.pc = "vram" PROVE c'.run \notin LoadedRunners'
    <2>1. \/ UNCHANGED c
          \/ CUnload /\ c'.run = c.run
      <3>1. CASE processCompleted
        <4>1. CASE CUnload
          BY <1>0, <4>1 DEF CUnload, GoodCompleted, Completed
        <4>2. CASE ~CUnload
          <5>1. CASE CRecvFinished \/ CRecvExpired
            BY <1>8, <5>1 DEF CRecvFinished, CRecvExpired
          <5>2. CASE CFinish
            BY <1>0, <1>8, <5>2 DEF CFinish, CIdle, GoodCompleted, Completed
          <5>3. CASE CSendExpired \/ CRetry \/ CDuplicate \/ COrphan \/ CNotify
            BY <1>8, <5>3 DEF CSendExpired, CRetry, CDuplicate, COrphan, CNotify, CIdle
          <5>4. CASE CRecovered \/ CExit
            BY <1>0, <1>8, <5>4 DEF CRecovered, CExit, GoodCompleted, Completed
          <5> QED
            BY <3>1, <4>2, <5>1, <5>2, <5>3, <5>4 DEF processCompleted
        <4> QED
          BY <4>1, <4>2
      <3>2. CASE processPending
        BY <3>2 DEF processPending, load, PRecv, PUnloaded, PExit, PSnapshot, PNeedsReload, PUse,
           LoadModelFails, UpdateFreeSpace, NewServer, NewServerFails, ResumeServer,
           PanicOtherModel, LoadNeedsEviction, LoadFails, LoadSucceeds, PanicNilActive,
           FindRunnerToUnload, PExpire, PSendExpired, UpdateFreeSpaceOf, Scan
      <3>3. ASSUME NEW q \in Req, Handler(q) \/ Client(q) \/ Goroutines(q) PROVE UNCHANGED c
        BY <3>3 DEF Handler, Client, Goroutines, Lookup, NeedsReload, Use, Enqueue, Busy, Complete,
                    Cancel, SendFinished, Running, NotRunning, TimerFires, TimerCallback,
                    SendExpired, Retry
      <3>4. CASE (\E s \in Stop : expireRunner(s)) \/ Shutdown \/ unloadAllRunners \/ UNCHANGED vars
        BY <3>4 DEF expireRunner, ExpireLookup, ExpireRunner, Shutdown, unloadAllRunners, vars
      <3> QED
        BY <3>1, <3>2, <3>3, <3>4 DEF Next, Serve
    <2>2. CASE CUnload
      BY <2>1, <2>2, MapEffect
    <2>3. CASE ~CUnload
      <3>1. c.pc = "vram" /\ c'.run = c.run /\ c.run \in Known /\ c.run \notin LoadedRunners
        <4>1. c.pc = "vram" /\ c'.run = c.run
          BY <1>8, <2>1, <2>3
        <4>2. c.run \in Req
          BY <1>0, <4>1 DEF GoodCompleted
        <4>3. c.run \in Known
          BY <4>2, ReqAssumption DEF Inv, KnownInv, KnownC, Opt
        <4> QED
          BY <4>1, <4>3 DEF UpWhileLoaded
      <3>2. CASE UNCHANGED loaded
        <4>1. LoadedRunners' = LoadedRunners
          BY <3>2 DEF LoadedRunners
        <4> QED
          BY <3>1, <4>1
      <3>3. CASE LoadSucceeds
        BY <3>1, <3>3, MapEffect
      <3> QED
        BY <2>3, <3>2, <3>3, MapSteps
    <2> QED
      BY <2>2, <2>3
  <1> QED
    BY <1>6, <1>7, <1>8 DEF UpWhileLoaded

-----------------------------------------------------------------------------
(* Idle runners.                                                           *)

InExpired(r) == \E i \in 1 .. Len(expiredCh) : expiredCh[i] = r

\* The runner has a timer, or an expired event is on its way.
Leaving(r) ==
    \/ runner[r].timer = "armed" \/ runner[r].callbacks > 0 \/ runner[r].retries > 0
    \/ InExpired(r)
    \/ runner[r].refMu # "free"
    \/ c.pc = "expired" /\ c.run = r

\* IdleRunnerExpires in these words.
IdleLeaves == ~stale => \A r \in LoadedRunners : runner[r].refCount = 0 => Leaving(r)

\* They say the same.
LEMMA IdleMeans == IdleLeaves <=> IdleRunnerExpires
  BY DEF IdleLeaves, IdleRunnerExpires, Leaving, ExpiryPending, InExpired

\* Whatever is sent on expiredCh joins what is in it.
LEMMA SendJoins ==
    ASSUME Typed, NEW r \in Req, expiredCh' = Append(expiredCh, r)
    PROVE  InExpired(r)' /\ \A x \in Req : InExpired(x) => InExpired(x)'
  <1>0. expiredCh \in Seq(Req) /\ Len(expiredCh) \in Nat
    BY DEF Typed, ChansOK
  <1>1. /\ Len(expiredCh') = Len(expiredCh) + 1
        /\ \A i \in 1 .. Len(expiredCh) : expiredCh'[i] = expiredCh[i]
        /\ expiredCh'[Len(expiredCh) + 1] = r
    BY <1>0
  <1>2. InExpired(r)'
    BY <1>0, <1>1 DEF InExpired
  <1>3. ASSUME NEW x \in Req, InExpired(x) PROVE InExpired(x)'
    BY <1>0, <1>1, <1>3 DEF InExpired
  <1> QED
    BY <1>2, <1>3

\* A step that changes no count need only care for the runners that stay loaded.
LEMMA IdleStep ==
    ASSUME Typed, IdleLeaves, stale' = stale, LoadedRunners' \subseteq LoadedRunners,
           \A r \in LoadedRunners' :
              /\ runner'[r].refCount = runner[r].refCount
              /\ runner[r].refCount = 0 /\ Leaving(r) => Leaving(r)'
    PROVE  IdleLeaves'
  BY DEF IdleLeaves

\* A step of nobody's that concerns one runner.
LEMMA TouchOne ==
    ASSUME Typed, IdleLeaves, stale' = stale, UNCHANGED loaded, NEW r \in Req,
           \A x \in Req \ {r} : runner'[x] = runner[x],
           runner'[r].refCount = runner[r].refCount,
           \A x \in Req : InExpired(x) => InExpired(x)',
           c.pc = "expired" => UNCHANGED c,
           runner[r].refCount = 0 /\ Leaving(r) => Leaving(r)'
    PROVE  IdleLeaves'
  <1>1. LoadedRunners' = LoadedRunners /\ LoadedRunners \subseteq Req
    BY LoadedCount DEF LoadedRunners
  <1>2. ASSUME NEW x \in Req \ {r}, Leaving(x) PROVE Leaving(x)'
    BY <1>2 DEF Leaving
  <1> QED
    BY <1>1, <1>2, IdleStep

\* A step that touches neither runners nor events.
LEMMA TouchNone ==
    ASSUME Typed, IdleLeaves, UNCHANGED <<stale, loaded, runner, expiredCh>>,
           c.pc = "expired" => UNCHANGED c
    PROVE  IdleLeaves'
  <1>1. LoadedRunners' = LoadedRunners
    BY DEF LoadedRunners
  <1>2. ASSUME NEW x, Leaving(x) PROVE Leaving(x)'
    BY <1>2 DEF Leaving, InExpired
  <1> QED
    BY <1>1, <1>2, IdleStep

\* A send on expiredCh.
LEMMA SendIdle ==
    ASSUME Typed, IdleLeaves, UNCHANGED <<stale, loaded>>, NEW r \in Req, SendAndUnlock(r),
           c.pc = "expired" => UNCHANGED c
    PROVE  IdleLeaves'
  <1>0. runner \in [Req -> GoodRunners]
    BY DEF Typed, RunnerOK
  <1>1. /\ \A x \in Req \ {r} : runner'[x] = runner[x]
        /\ runner'[r].refCount = runner[r].refCount
    BY <1>0 DEF SendAndUnlock, GoodRunners, Runners
  <1>2. Leaving(r)' /\ \A x \in Req : InExpired(x) => InExpired(x)'
    BY SendJoins DEF SendAndUnlock, Leaving
  <1> QED
    BY <1>1, <1>2, TouchOne

\* Marking an idle runner starts a send.
LEMMA MarkIdle ==
    ASSUME Typed, IdleLeaves, UNCHANGED <<stale, loaded, expiredCh, c>>, NEW r \in Req,
           NEW h \in {"pending", "stop"}, runner' = [runner EXCEPT ![r] = Marked(runner[r], h)]
    PROVE  IdleLeaves'
  <1>0. runner \in [Req -> GoodRunners]
    BY DEF Typed, RunnerOK
  <1>1. /\ \A x \in Req \ {r} : runner'[x] = runner[x]
        /\ runner'[r].refCount = runner[r].refCount
        /\ runner[r].refCount = 0 => runner'[r].refMu # "free"
    BY <1>0, MarkedFields
  <1>2. \A x \in Req : InExpired(x) => InExpired(x)'
    BY DEF InExpired
  <1>3. runner[r].refCount = 0 => Leaving(r)'
    BY <1>1 DEF Leaving
  <1> QED
    BY <1>1, <1>2, <1>3, TouchOne

\* Timers, retries and the end of a load that failed.
LEMMA GoroutinesIdle ==
    ASSUME Typed, IdleLeaves, NEW r \in Req, Goroutines(r), ~Running(r)
    PROVE  IdleLeaves'
  <1>0. runner \in [Req -> GoodRunners]
    BY DEF Typed, RunnerOK
  <1>1. UNCHANGED <<stale, loaded, c>>
    BY DEF Goroutines, NotRunning, TimerFires, TimerCallback, SendExpired, Retry, maps, env
  <1>2. CASE NotRunning(r) \/ TimerFires(r) \/ TimerCallback(r)
    <2>1. /\ \A x \in Req \ {r} : runner'[x] = runner[x]
          /\ runner'[r].refCount = runner[r].refCount
          /\ runner'[r].refMu # "free" \/ runner'[r].callbacks > 0
      <3>1. CASE NotRunning(r)
        BY <1>0, <3>1 DEF NotRunning, GoodRunners, Runners
      <3>2. CASE TimerFires(r)
        BY <1>0, <3>2 DEF TimerFires, GoodRunners, Runners
      <3>3. CASE TimerCallback(r)
        BY <1>0, <3>3 DEF TimerCallback, GoodRunners, Runners
      <3> QED
        BY <1>2, <3>1, <3>2, <3>3
    <2>2. \A x \in Req : InExpired(x) => InExpired(x)'
      BY <1>2 DEF NotRunning, TimerFires, TimerCallback, InExpired, chans
    <2>3. Leaving(r)'
      BY <2>1 DEF Leaving
    <2> QED
      BY <1>1, <2>1, <2>2, <2>3, TouchOne
  <1>3. CASE SendExpired(r)
    BY <1>1, <1>3, SendIdle DEF SendExpired
  <1>4. CASE Retry(r)
    <2>1. /\ \A x \in Req \ {r} : runner'[x] = runner[x]
          /\ runner'[r].refCount = runner[r].refCount
      BY <1>0, <1>4 DEF Retry, GoodRunners, Runners
    <2>2. Leaving(r)' /\ \A x \in Req : InExpired(x) => InExpired(x)'
      BY <1>4, SendJoins DEF Retry, Leaving
    <2> QED
      BY <1>1, <2>1, <2>2, TouchOne
  <1> QED
    BY <1>2, <1>3, <1>4 DEF Goroutines

\* processPending, except where it gives a runner away.
LEMMA PendingIdle ==
    ASSUME Inv, IdleLeaves, processPending, ~PUse
    PROVE  IdleLeaves'
  <1>0. /\ Typed /\ runner \in [Req -> GoodRunners] /\ p \in GoodPending
        /\ activeLoading \in Opt(Req)
    BY DEF Inv, Typed, RunnerOK, POK, MapsOK
  <1>1. CASE PExpire
    <2>1. p.run \in Req /\ runner' = [runner EXCEPT ![p.run] = Marked(runner[p.run], "pending")]
      BY <1>0, <1>1 DEF PExpire, GoodPending
    <2>2. UNCHANGED <<stale, loaded, expiredCh, c>>
      BY <1>1 DEF PExpire, maps, chans, env
    <2> QED
      BY <1>0, <2>1, <2>2, MarkIdle
  <1>2. CASE PSendExpired
    <2>1. p.run \in Req /\ SendAndUnlock(p.run) /\ UNCHANGED <<stale, loaded, c>>
      BY <1>0, <1>2 DEF PSendExpired, GoodPending, maps, env
    <2> QED
      BY <1>0, <2>1, SendIdle
  <1>3. CASE NewServer \/ LoadFails
    <2>1. \A x \in Req : /\ runner'[x].refCount = runner[x].refCount
                         /\ runner'[x].timer = runner[x].timer
                         /\ runner'[x].callbacks = runner[x].callbacks
                         /\ runner'[x].retries = runner[x].retries
                         /\ runner'[x].refMu = runner[x].refMu
      <3>1. CASE NewServer
        BY <1>0, <3>1 DEF NewServer, GoodRunners, Runners
      <3>2. CASE LoadFails
        BY <1>0, <3>2 DEF LoadFails, GoodRunners, Runners
      <3> QED
        BY <1>3, <3>1, <3>2
    <2>2. UNCHANGED <<stale, loaded, expiredCh, c>>
      BY <1>3 DEF NewServer, LoadFails, chans, env
    <2>3. LoadedRunners' = LoadedRunners /\ LoadedRunners \subseteq Req
      BY <1>0, <2>2, LoadedCount DEF LoadedRunners
    <2>4. ASSUME NEW x \in Req, Leaving(x) PROVE Leaving(x)'
      BY <2>1, <2>2, <2>4 DEF Leaving, InExpired
    <2> QED
      BY <1>0, <2>1, <2>2, <2>3, <2>4, IdleStep
  <1>4. CASE LoadSucceeds
    <2>1. /\ LoadedRunners' = LoadedRunners \cup {p.run} /\ p.run \in Req
          /\ \A x \in Req \ {p.run} : runner'[x] = runner[x]
          /\ LoadedRunners \subseteq Req
      BY <1>0, <1>4, MapEffect, ProcessFields, LoadedCount
    <2>2. runner'[p.run].refMu = "load"
      <3>1. runner'[p.run] = [runner[p.run] EXCEPT !.loader = p.req, !.refMu = "load",
                   !.dur = IF DurOf[p.req] = NoDuration THEN KeepAlive ELSE DurOf[p.req]]
        BY <1>4, <2>1 DEF LoadSucceeds
      <3> QED
        BY <1>0, <2>1, <3>1 DEF GoodRunners, Runners
    <2>3. UNCHANGED <<stale, expiredCh, c>>
      BY <1>4 DEF LoadSucceeds, chans, env
    <2>4. PICK r \in Req : r = p.run
      BY <2>1
    <2>5. Leaving(r)'
      BY <2>2, <2>4 DEF Leaving
    <2>6. ASSUME NEW x \in Req \ {r}, Leaving(x) PROVE Leaving(x)'
      BY <2>1, <2>3, <2>4, <2>6 DEF Leaving, InExpired
    <2>7. ASSUME ~stale', NEW x \in LoadedRunners', runner'[x].refCount = 0 PROVE Leaving(x)'
      BY <2>1, <2>3, <2>4, <2>5, <2>6, <2>7 DEF IdleLeaves
    <2> QED
      BY <2>7 DEF IdleLeaves
  <1>5. CASE UNCHANGED <<stale, loaded, runner, expiredCh, c>>
    BY <1>0, <1>5, TouchNone
  <1>6. CASE LoadModelFails \/ NewServerFails
    BY <1>5, <1>6 DEF LoadModelFails, NewServerFails, maps, chans, env
  <1>7. CASE \/ PRecv \/ PUnloaded \/ PExit \/ PSnapshot \/ PNeedsReload \/ UpdateFreeSpace
             \/ ResumeServer \/ PanicOtherModel \/ LoadNeedsEviction \/ PanicNilActive
             \/ FindRunnerToUnload
    BY <1>5, <1>7 DEF PRecv, PUnloaded, PExit, PSnapshot, PNeedsReload, UpdateFreeSpace,
             ResumeServer, PanicOtherModel, LoadNeedsEviction, PanicNilActive,
             FindRunnerToUnload, maps, chans, env
  <1>8. ASSUME NEW r \in Req, UpdateFreeSpaceOf(r) \/ Scan(r) PROVE IdleLeaves'
    BY <1>5, <1>8 DEF UpdateFreeSpaceOf, Scan, maps, chans, env
  <1> QED
    BY <1>1, <1>2, <1>3, <1>4, <1>6, <1>7, <1>8 DEF processPending, load

\* processCompleted: the runner of the event it drops is in use or not loaded.
LEMMA CompletedIdle ==
    ASSUME Inv, UpWhileLoaded, IdleLeaves, processCompleted
    PROVE  IdleLeaves'
  <1>0. /\ Typed /\ runner \in [Req -> GoodRunners] /\ c \in GoodCompleted
        /\ expiredCh \in Seq(Req) /\ LoadedRunners \subseteq Req
        /\ \A r \in LoadedRunners : loaded[ModelOf[r]] = r /\ r # None
    <2>1. Typed /\ \A m \in Path : loaded[m] # None => ModelOf[loaded[m]] = m
      BY DEF Inv, LoadInv
    <2> QED
      BY <2>1, LoadedCount DEF Typed, RunnerOK, COK, ChansOK, LoadedRunners
  <1>1. CASE CRecvFinished \/ CNotify \/ CExit
    BY <1>0, <1>1, TouchNone DEF CRecvFinished, CNotify, CExit, maps, chans, env
  <1>2. CASE CFinish
    <2>0. c.run \in Req /\ c.pc = "finish" /\ UNCHANGED <<stale, loaded, expiredCh>>
      BY <1>0, <1>2 DEF CFinish, GoodCompleted, maps, chans, env
    <2>1. PICK ref \in GoodRunners, n \in 0 .. (RefMod - 1), r \in Req :
             r = c.run /\ ref = runner[r] /\ n = Decrement(runner[r].refCount)
      BY <1>0, <2>0, CountArithmetic DEF GoodRunners, Runners
    <2>2. runner'[r] = IF [ref EXCEPT !.refCount = n].refCount = 0
                       THEN GoneIdle([ref EXCEPT !.refCount = n])
                       ELSE [ref EXCEPT !.refCount = n]
      BY <1>0, <1>2, <2>1 DEF CFinish
    <2>3. \A x \in Req \ {r} : runner'[x] = runner[x]
      BY <1>0, <1>2, <2>1 DEF CFinish
    <2>4. /\ runner'[r].refCount = n
          /\ n = 0 => runner'[r].timer = "armed" \/ runner'[r].refMu = "completed"
      BY <2>2, FinishFields
    <2>5. runner'[r].refCount = 0 => Leaving(r)'
      BY <2>4 DEF Leaving
    <2>6. ASSUME NEW x \in Req \ {r}, Leaving(x) PROVE Leaving(x)'
      BY <2>0, <2>3, <2>6 DEF Leaving, InExpired
    <2>7. LoadedRunners' = LoadedRunners
      BY <2>0 DEF LoadedRunners
    <2>8. ASSUME ~stale', NEW x \in LoadedRunners', runner'[x].refCount = 0 PROVE Leaving(x)'
      BY <1>0, <2>0, <2>3, <2>5, <2>6, <2>7, <2>8 DEF IdleLeaves
    <2> QED
      BY <2>8 DEF IdleLeaves
  <1>3. CASE CSendExpired
    <2>1. c.run \in Req /\ SendAndUnlock(c.run) /\ UNCHANGED <<stale, loaded>> /\ c.pc # "expired"
      BY <1>0, <1>3 DEF CSendExpired, GoodCompleted, maps, env
    <2> QED
      BY <1>0, <2>1, SendIdle
  <1>4. CASE CRecvExpired
    <2>1. /\ UNCHANGED <<stale, loaded, runner>> /\ c.pc = "idle" /\ expiredCh # <<>>
          /\ c'.pc = "expired" /\ c'.run = Head(expiredCh) /\ expiredCh' = Tail(expiredCh)
      BY <1>4 DEF CRecvExpired, maps, env
    <2>2. /\ Len(expiredCh) \in Nat /\ Len(expiredCh') = Len(expiredCh) - 1
          /\ \A i \in 1 .. Len(expiredCh') : expiredCh'[i] = expiredCh[i + 1]
          /\ c'.run = expiredCh[1]
      BY <1>0, <2>1
    <2>3. ASSUME NEW x, InExpired(x) PROVE InExpired(x)' \/ c'.run = x
      <3>1. PICK i \in 1 .. Len(expiredCh) : expiredCh[i] = x
        BY <2>3 DEF InExpired
      <3>2. CASE i = 1
        BY <2>2, <3>1, <3>2
      <3>3. CASE i # 1
        <4>1. i - 1 \in 1 .. Len(expiredCh') /\ expiredCh'[i - 1] = x
          BY <2>2, <3>1, <3>3
        <4> QED
          BY <4>1 DEF InExpired
      <3> QED
        BY <3>2, <3>3
    <2>4. ASSUME NEW x, Leaving(x) PROVE Leaving(x)'
      BY <2>1, <2>3, <2>4 DEF Leaving
    <2>5. LoadedRunners' = LoadedRunners
      BY <2>1 DEF LoadedRunners
    <2> QED
      BY <1>0, <2>1, <2>4, <2>5, IdleStep
  <1>5. CASE CRetry
    <2>1. /\ UNCHANGED <<stale, loaded, expiredCh>> /\ c.run \in Req /\ runner[c.run].refCount # 0
          /\ \A x \in Req \ {c.run} : runner'[x] = runner[x]
      BY <1>0, <1>5 DEF CRetry, InUse, GoodCompleted, maps, chans, env
    <2>2. \A x \in Req : runner'[x].refCount = runner[x].refCount
      BY <1>0, <1>5 DEF CRetry, GoodRunners, Runners
    <2>3. ASSUME NEW x \in Req \ {c.run}, Leaving(x) PROVE Leaving(x)'
      BY <2>1, <2>3 DEF Leaving, InExpired
    <2>4. LoadedRunners' = LoadedRunners
      BY <2>1 DEF LoadedRunners
    <2> QED
      BY <1>0, <2>1, <2>2, <2>3, <2>4, IdleStep
  <1>6. ASSUME c.run \in Req, c.run \notin LoadedRunners', LoadedRunners' \subseteq LoadedRunners,
               UNCHANGED <<stale, expiredCh>>,
               \A x \in Req \ {c.run} : runner'[x] = runner[x]
        PROVE  IdleLeaves'
    <2>1. ASSUME NEW x \in Req \ {c.run}, Leaving(x) PROVE Leaving(x)'
      BY <1>6, <2>1 DEF Leaving, InExpired
    <2> QED
      BY <1>0, <1>6, <2>1, IdleStep
  <1>7. CASE CDuplicate \/ COrphan
    <2>1. /\ c.run \in Req /\ loaded[ModelOf[c.run]] # c.run /\ UNCHANGED <<stale, loaded, expiredCh>>
          /\ \A x \in Req \ {c.run} : runner'[x] = runner[x]
      BY <1>0, <1>7, ReqAssumption DEF CDuplicate, COrphan, GoodCompleted, maps, chans, env
    <2>2. c.run \notin LoadedRunners /\ LoadedRunners' = LoadedRunners
      BY <1>0, <2>1 DEF LoadedRunners
    <2> QED
      BY <1>6, <2>1, <2>2
  <1>8. CASE CUnload
    BY <1>6, <1>8, MapEffect, ProcessFields DEF CUnload, chans, env
  <1>9. CASE CRecovered
    <2>1. /\ c.run \in Req /\ c.pc = "vram" /\ UNCHANGED <<stale, loaded, expiredCh>>
          /\ \A x \in Req \ {c.run} : runner'[x] = runner[x]
      BY <1>0, <1>9 DEF CRecovered, GoodCompleted, maps, chans, env
    <2>2. c.run \notin LoadedRunners /\ LoadedRunners' = LoadedRunners
      BY <2>1 DEF UpWhileLoaded, LoadedRunners
    <2> QED
      BY <1>6, <2>1, <2>2
  <1> QED
    BY <1>1, <1>2, <1>3, <1>4, <1>5, <1>7, <1>8, <1>9 DEF processCompleted

\* A runner that is given away is not idle.
LEMMA GrantIdle ==
    ASSUME Inv, Finishing, Counted, IdleLeaves, NEW q \in Req, NEW r \in Req, Grant(q, r),
           stale' \in BOOLEAN
    PROVE  IdleLeaves'
  <1>0. LoadedRunners' = LoadedRunners /\ LoadedRunners \subseteq Req
    BY LoadedCount DEF Grant, maps, LoadedRunners, Inv
  <1>1. ~stale' => ~stale /\ runner'[r].refCount > 0
    BY GrantCounted DEF Grant
  <1>2. UNCHANGED <<expiredCh, c>> /\ \A x \in Req \ {r} : runner'[x] = runner[x]
    BY DEF Grant, chans
  <1>3. ASSUME NEW x \in Req \ {r}, Leaving(x) PROVE Leaving(x)'
    BY <1>2, <1>3 DEF Leaving, InExpired
  <1>4. ASSUME ~stale', NEW x \in LoadedRunners', runner'[x].refCount = 0 PROVE Leaving(x)'
    <2>1. x # r
      BY <1>1, <1>4
    <2> QED
      BY <1>0, <1>1, <1>2, <1>3, <1>4, <2>1 DEF IdleLeaves
  <1> QED
    BY <1>4 DEF IdleLeaves

\* All steps together.
LEMMA IdleNext ==
    ASSUME Inv, SameModel, UpWhileLoaded, Finishing, Counted, IdleLeaves, [Next]_vars
    PROVE  IdleLeaves'
  <1>0. Typed /\ stale' \in BOOLEAN
    BY InvNext DEF Inv, Typed, EnvOK
  <1>1. ASSUME NEW q \in Req, Use(q) \/ Running(q) PROVE IdleLeaves'
    BY <1>0, <1>1, GrantSteps, GrantIdle
  <1>2. CASE PUse
    <2>1. p.req \in Req
      BY <1>0, <1>2 DEF Typed, POK, GoodPending, PUse
    <2>2. p.run \in Req /\ Grant(p.req, p.run)
      BY <1>2, <2>1, GrantSteps
    <2> QED
      BY <1>0, <2>1, <2>2, GrantIdle
  <1>3. ASSUME NEW q \in Req, Handler(q) \/ Client(q), ~Use(q) PROVE IdleLeaves'
    <2>1. UNCHANGED <<stale, loaded, runner, expiredCh, c>>
      BY <1>3 DEF Handler, Client, Lookup, NeedsReload, Enqueue, Busy, Complete, Cancel,
                  SendFinished, chans, maps, env
    <2> QED
      BY <1>0, <2>1, TouchNone
  <1>4. ASSUME NEW s \in Stop, expireRunner(s) PROVE IdleLeaves'
    <2>1. CASE ExpireLookup(s)
      <3>1. UNCHANGED <<stale, loaded, runner, expiredCh, c>>
        BY <2>1 DEF ExpireLookup, chans, maps
      <3> QED
        BY <1>0, <3>1, TouchNone
    <2>2. CASE ExpireRunner(s)
      <3>1. stop[s].run \in Req /\ UNCHANGED <<stale, loaded, expiredCh, c>>
        BY <1>0, <2>2 DEF Typed, StopOK, GoodStops, ExpireRunner, chans, maps
      <3> QED
        BY <1>0, <2>2, <3>1, MarkIdle DEF ExpireRunner
    <2> QED
      BY <1>4, <2>1, <2>2 DEF expireRunner
  <1>5. CASE Shutdown \/ UNCHANGED vars
    <2>1. UNCHANGED <<stale, loaded, runner, expiredCh, c>>
      BY <1>5 DEF Shutdown, vars, chans, maps, env
    <2> QED
      BY <1>0, <2>1, TouchNone
  <1>6. CASE unloadAllRunners
    <2>0. runner \in [Req -> GoodRunners]
      BY <1>0 DEF Typed, RunnerOK
    <2>1. \A x \in Req : /\ runner'[x].refCount = runner[x].refCount
                         /\ runner'[x].timer = runner[x].timer
                         /\ runner'[x].callbacks = runner[x].callbacks
                         /\ runner'[x].retries = runner[x].retries
                         /\ runner'[x].refMu = runner[x].refMu
      BY <1>6, <2>0 DEF unloadAllRunners, GoodRunners, Runners
    <2>2. UNCHANGED <<stale, loaded, expiredCh, c>>
      BY <1>6 DEF unloadAllRunners, chans
    <2>3. LoadedRunners' = LoadedRunners /\ LoadedRunners \subseteq Req
      BY <1>0, <2>2, LoadedCount DEF LoadedRunners
    <2>4. ASSUME NEW x \in Req, Leaving(x) PROVE Leaving(x)'
      BY <2>1, <2>2, <2>4 DEF Leaving, InExpired
    <2> QED
      BY <1>0, <2>1, <2>2, <2>3, <2>4, IdleStep
  <1> QED
    BY <1>0, <1>1, <1>2, <1>3, <1>4, <1>5, <1>6, GoroutinesIdle, PendingIdle, CompletedIdle
    DEF Next, Serve

-----------------------------------------------------------------------------
(* Making room.                                                            *)

\* How processPending comes to expire a runner.
LEMMA ExpireSteps ==
    ASSUME Inv, [Next]_vars, p'.pc \in {"check", "scan", "expire", "send", "wait"}
    PROVE  \/ UNCHANGED p /\ ~PUnloaded
           \/ PSnapshot \/ PNeedsReload \/ FindRunnerToUnload \/ PExpire \/ PSendExpired
           \/ \E r \in Req : Scan(r)
  <1>0. p \in GoodPending
    BY DEF Inv, Typed, POK
  <1>1. CASE processPending
    <2>1. CASE PRecv \/ PUnloaded \/ PExit \/ PUse
      <3>1. CASE PRecv
        BY <1>0, <3>1 DEF PRecv, GoodPending, Pending
      <3>2. CASE PUnloaded
        BY <1>0, <3>2 DEF PUnloaded, Again, GoodPending, Pending
      <3>3. CASE PExit \/ PUse
        BY <1>0, <3>3 DEF PExit, PUse, Idle, GoodPending, Pending
      <3> QED
        BY <2>1, <3>1, <3>2, <3>3
    <2>2. CASE LoadModelFails \/ NewServerFails \/ LoadFails \/ LoadSucceeds
      BY <1>0, <2>2 DEF LoadModelFails, NewServerFails, LoadFails, LoadSucceeds, Refuse, Idle,
                        GoodPending, Pending
    <2>3. CASE UpdateFreeSpace \/ NewServer \/ ResumeServer \/ LoadNeedsEviction
      BY <1>0, <2>3 DEF UpdateFreeSpace, NewServer, ResumeServer, LoadNeedsEviction,
                        GoodPending, Pending
    <2>4. CASE PanicOtherModel \/ PanicNilActive
      <3>1. UNCHANGED p /\ p.pc \in {"space", "loading"}
        BY <2>4 DEF PanicOtherModel, PanicNilActive
      <3> QED
        BY <3>1
    <2>5. ASSUME NEW r \in Req, UpdateFreeSpaceOf(r)
          PROVE  p'.pc \notin {"check", "scan", "expire", "send", "wait"}
      BY <1>0, <2>5 DEF UpdateFreeSpaceOf, GoodPending, Pending
    <2> QED
      BY <1>1, <2>1, <2>2, <2>3, <2>4, <2>5 DEF processPending, load
  <1>2. CASE UNCHANGED p /\ PUnloaded
    BY <1>0, <1>2 DEF PUnloaded, Again, GoodPending, Pending
  <1>3. CASE UNCHANGED p
    BY <1>2, <1>3
  <1>4. CASE processCompleted
    BY <1>3, <1>4 DEF processCompleted, CRecvFinished, CFinish, CSendExpired, CRecvExpired,
           CRetry, CDuplicate, COrphan, CUnload, CRecovered, CNotify, CExit
  <1>5. ASSUME NEW q \in Req, Handler(q) \/ Client(q) \/ Goroutines(q) PROVE UNCHANGED p
    BY <1>5 DEF Handler, Client, Goroutines, Lookup, NeedsReload, Use, Enqueue, Busy, Complete,
                Cancel, SendFinished, Running, NotRunning, TimerFires, TimerCallback,
                SendExpired, Retry
  <1>6. CASE (\E s \in Stop : expireRunner(s)) \/ Shutdown \/ unloadAllRunners \/ UNCHANGED vars
    BY <1>3, <1>6 DEF expireRunner, ExpireLookup, ExpireRunner, Shutdown, unloadAllRunners, vars
  <1> QED
    BY <1>1, <1>3, <1>4, <1>5, <1>6 DEF Next, Serve

\* A runner that goes is announced, and the announcement waits for processPending.
LEMMA UnloadAnnounced ==
    ASSUME Inv, [Next]_vars, ~PUnloaded
    PROVE  /\ UnloadComes => UnloadComes'
           /\ \A r \in LoadedRunners : r \in LoadedRunners' \/ UnloadComes'
  <1>0. unloadedCh \in Nat /\ c \in GoodCompleted
    BY DEF Inv, Typed, ChansOK, COK
  <1>1. UnloadComes => UnloadComes'
    <2>1. CASE UNCHANGED <<unloadedCh, c>>
      BY <2>1 DEF UnloadComes
    <2>2. CASE processCompleted
      <3>1. CASE CRecovered
        BY <1>0, <3>1 DEF CRecovered, UnloadComes, GoodCompleted, Completed
      <3>2. CASE CNotify
        BY <1>0, <3>2 DEF CNotify, SendUnloaded, UnloadComes
      <3>3. CASE ~CRecovered /\ ~CNotify
        <4>1. UNCHANGED unloadedCh /\ c.pc \notin {"vram", "notify"}
          BY <2>2, <3>3 DEF processCompleted, CRecvFinished, CFinish, CSendExpired, SendAndUnlock,
             CRecvExpired, CRetry, CDuplicate, COrphan, CUnload, CExit, chans
        <4> QED
          BY <4>1 DEF UnloadComes
      <3> QED
        BY <3>1, <3>2, <3>3
    <2>3. CASE processPending
      <3>1. UNCHANGED <<unloadedCh, c>>
        BY <2>3 DEF processPending, load, PRecv, PExit, PSnapshot, PNeedsReload, PUse,
           LoadModelFails, UpdateFreeSpace, NewServer, NewServerFails, ResumeServer,
           PanicOtherModel, LoadNeedsEviction, LoadFails, LoadSucceeds, PanicNilActive,
           FindRunnerToUnload, PExpire, PSendExpired, SendAndUnlock, UpdateFreeSpaceOf, Scan, chans
      <3> QED
        BY <2>1, <3>1
    <2>4. ASSUME NEW q \in Req, Handler(q) \/ Client(q) \/ Goroutines(q)
          PROVE  UNCHANGED <<unloadedCh, c>>
      BY <2>4 DEF Handler, Client, Goroutines, Lookup, NeedsReload, Use, Enqueue, Busy, Complete,
                  Cancel, SendFinished, Running, NotRunning, TimerFires, TimerCallback,
                  SendExpired, SendAndUnlock, Retry, chans
    <2>5. CASE (\E s \in Stop : expireRunner(s)) \/ Shutdown \/ unloadAllRunners \/ UNCHANGED vars
      BY <2>1, <2>5 DEF expireRunner, ExpireLookup, ExpireRunner, Shutdown, unloadAllRunners, vars,
                        chans
    <2> QED
      BY <2>1, <2>2, <2>3, <2>4, <2>5 DEF Next, Serve
  <1>2. ASSUME NEW r \in LoadedRunners PROVE r \in LoadedRunners' \/ UnloadComes'
    <2>1. CASE UNCHANGED loaded
      BY <2>1 DEF LoadedRunners
    <2>2. CASE LoadSucceeds
      BY <2>2, MapEffect
    <2>3. CASE CUnload
      BY <1>0, <2>3 DEF CUnload, UnloadComes, GoodCompleted, Completed
    <2> QED
      BY <2>1, <2>2, <2>3, MapSteps
  <1> QED
    BY <1>1, <1>2

\* The target stays loaded until an unload is announced.
LEMMA RoomNext ==
    ASSUME Inv, Room, [Next]_vars
    PROVE  Room'
  <1>0. /\ p \in GoodPending /\ Typed /\ LoadedRunners \subseteq Req
        /\ \A m \in Path : loaded[m] # None => loaded[m] \in LoadedRunners
        /\ \A q \in Req : ModelOf[q] \in Path
    BY LoadedCount DEF Inv, Typed, POK, LoadedRunners, Path
  <1>1. CASE p'.pc \notin {"check", "scan", "expire", "send", "wait"}
    BY <1>1 DEF Room
  <1>2. CASE UNCHANGED p /\ ~PUnloaded
    <2>1. ASSUME p.pc \in {"check", "expire", "send", "wait"}
          PROVE  p.run \in Req /\ (p.run \in LoadedRunners' \/ UnloadComes')
      BY <1>2, <2>1, UnloadAnnounced DEF Room
    <2>2. ASSUME p.pc = "scan"
          PROVE  p.scan \cup {p.head} \subseteq LoadedRunners' \/ UnloadComes'
      BY <1>2, <2>2, UnloadAnnounced DEF Room
    <2> QED
      BY <1>2, <2>1, <2>2 DEF Room
  <1>3. ASSUME processPending, ~PUnloaded, ~LoadSucceeds
        PROVE  /\ LoadedRunners' = LoadedRunners
               /\ UnloadComes => UnloadComes'
    <2>1. UNCHANGED loaded
      BY <1>3 DEF processPending, load, PRecv, PExit, PSnapshot, PNeedsReload, PUse,
           LoadModelFails, UpdateFreeSpace, NewServer, NewServerFails, ResumeServer,
           PanicOtherModel, LoadNeedsEviction, LoadFails, PanicNilActive,
           FindRunnerToUnload, PExpire, PSendExpired, UpdateFreeSpaceOf, Scan, maps
    <2> QED
      BY <1>3, <2>1, UnloadAnnounced DEF LoadedRunners
  <1>4. ASSUME PSnapshot \/ PNeedsReload \/ FindRunnerToUnload \/ PExpire \/ PSendExpired
               \/ \E r \in Req : Scan(r)
        PROVE  LoadedRunners' = LoadedRunners /\ (UnloadComes => UnloadComes')
    <2>1. processPending
      BY <1>4 DEF processPending
    <2>2. ~PUnloaded /\ ~LoadSucceeds
      BY <1>4 DEF PSnapshot, PNeedsReload, FindRunnerToUnload, PExpire, PSendExpired, Scan,
                  PUnloaded, LoadSucceeds
    <2> QED
      BY <1>3, <2>1, <2>2
  <1>5. CASE PSnapshot
    <2>1. p.req \in Req /\ p'.pc \notin {"scan", "expire", "send", "wait"}
      BY <1>0, <1>5 DEF PSnapshot, GoodPending, Pending
    <2>2. p'.pc = "check" => p'.run \in LoadedRunners
      BY <1>0, <1>5, <2>1 DEF PSnapshot, GoodPending, Pending
    <2> QED
      BY <1>0, <1>4, <1>5, <2>1, <2>2 DEF Room
  <1>6. CASE PNeedsReload
    <2>1. p.pc = "check" /\ p'.run = p.run /\ p'.pc # "scan"
      BY <1>0, <1>6 DEF PNeedsReload, GoodPending, Pending
    <2> QED
      BY <1>4, <1>6, <2>1 DEF Room
  <1>7. CASE PExpire \/ PSendExpired
    <2>1. p.pc \in {"expire", "send"} /\ p'.run = p.run /\ p'.pc # "scan"
      BY <1>0, <1>7 DEF PExpire, PSendExpired, GoodPending, Pending
    <2> QED
      BY <1>4, <1>7, <2>1 DEF Room
  <1>8. CASE FindRunnerToUnload
    <2>1. /\ p'.pc \in {"snap", "scan"}
          /\ p'.pc = "scan" => p'.scan \cup {p'.head} \subseteq LoadedRunners
      <3>1. CASE p' = [p EXCEPT !.pc = "snap"]
        BY <1>0, <3>1 DEF GoodPending, Pending
      <3>2. ASSUME NEW r \in LoadedRunners, NEW dur,
                   p' = [p EXCEPT !.pc = "scan", !.scan = LoadedRunners, !.dur = dur, !.head = r]
            PROVE  p'.pc = "scan" /\ p'.scan = LoadedRunners /\ p'.head \in LoadedRunners
        BY <1>0, <3>2 DEF GoodPending, Pending
      <3>3. \/ p' = [p EXCEPT !.pc = "snap"]
            \/ \E r \in LoadedRunners, dur \in {[x \in Req |-> runner[x].dur]} :
                 p' = [p EXCEPT !.pc = "scan", !.scan = LoadedRunners, !.dur = dur, !.head = r]
        BY <1>8 DEF FindRunnerToUnload
      <3> QED
        BY <3>1, <3>2, <3>3
    <2> QED
      BY <1>4, <1>8, <2>1 DEF Room
  <1>9. ASSUME NEW r \in Req, Scan(r) PROVE Room'
    <2>1. p.pc = "scan" /\ r \in p.scan /\ p.head \in Req
      BY <1>0, <1>9 DEF Scan, IsFirst, GoodPending
    <2>2. /\ p'.pc \in {"scan", "expire"}
          /\ p'.pc = "scan" => p'.scan \subseteq p.scan /\ p'.head = p.head
          /\ p'.pc = "expire" => p'.run \in {r, p.head}
      BY <1>0, <1>9 DEF Scan, GoodPending, Pending
    <2> QED
      BY <1>4, <1>9, <2>1, <2>2 DEF Room
  <1> QED
    BY <1>1, <1>2, <1>5, <1>6, <1>7, <1>8, <1>9, ExpireSteps

\* No request asks for an endless keep_alive.
NoForever == \A q \in Req : DurOf[q] # Forever

\* Then a runner that was marked to go cannot get one.
LEMMA StillGoingNext ==
    ASSUME NoForever, Inv, SameModel, UpWhileLoaded, Room, StillGoing, [Next]_vars
    PROVE  StillGoing'
  <1>0. Typed /\ p \in GoodPending /\ runner \in [Req -> GoodRunners] /\ 0 # Forever
    BY EnvAssumption DEF Inv, Typed, POK, RunnerOK
  <1> SUFFICES ASSUME p'.pc \in {"send", "wait"} PROVE runner'[p'.run].dur # Forever
    BY DEF StillGoing
  <1>1. CASE PExpire
    <2>1. p.run \in Req /\ p'.run = p.run
      BY <1>0, <1>1 DEF PExpire, GoodPending, Pending
    <2>2. runner'[p.run].dur = 0
      BY <1>0, <1>1, <2>1, MarkedFields DEF PExpire
    <2> QED
      BY <1>0, <2>1, <2>2
  <1>2. CASE ~PExpire
    <2>1. p.pc \in {"send", "wait"} /\ p'.run = p.run
      <3>1. CASE UNCHANGED p
        BY <3>1
      <3>2. CASE PSendExpired
        BY <1>0, <3>2 DEF PSendExpired, GoodPending, Pending
      <3>3. CASE PSnapshot \/ PNeedsReload \/ FindRunnerToUnload
        BY <1>0, <3>3 DEF PSnapshot, PNeedsReload, FindRunnerToUnload, GoodPending, Pending
      <3>4. ASSUME NEW r \in Req, Scan(r) PROVE p'.pc \notin {"send", "wait"}
        BY <1>0, <3>4 DEF Scan, GoodPending, Pending
      <3> QED
        BY <1>2, <3>1, <3>2, <3>3, <3>4, ExpireSteps
    <2>2. PICK r \in Req : r = p.run /\ r = p'.run /\ runner[r].dur # Forever
      BY <2>1 DEF Room, StillGoing
    <2>3. ASSUME NEW x \in Req, NEW y \in Req, Grant(x, y) PROVE runner'[r].dur # Forever
      BY <2>2, <2>3 DEF Grant, NoForever
    <2>4. CASE Tame(r)
      BY <1>0, <2>2, <2>4 DEF Tame
    <2>5. ASSUME NEW x \in Req, Use(x) \/ Running(x) PROVE runner'[r].dur # Forever
      BY <2>3, <2>5, GrantSteps
    <2>6. CASE PUse
      BY <2>2, <2>3, <2>6, GrantSteps
    <2>7. CASE LoadFails \/ unloadAllRunners \/ COrphan \/ CUnload \/ NewServer
      <3>1. runner'[r].dur = runner[r].dur
        BY <2>7, ProcessFields
      <3> QED
        BY <2>2, <3>1
    <2>8. ~LoadSucceeds
      BY <2>1 DEF LoadSucceeds
    <2> QED
      BY <1>0, <2>2, <2>4, <2>5, <2>6, <2>7, <2>8, TameSteps
  <1> QED
    BY <1>1, <1>2

-----------------------------------------------------------------------------
(* The theorems.                                                           *)

\* The invariant: with what the earlier proofs rest on, it is inductive.
UseInv ==
    Inv /\ SameModel /\ UpWhileLoaded /\ LoadingUp /\ Finishing /\ Counted /\ IdleLeaves /\ Room

\* Nobody uses a runner and none is loaded.
LEMMA UseInvInit == Init => UseInv /\ StillGoing
  <1> SUFFICES ASSUME Init PROVE UseInv /\ StillGoing
    OBVIOUS
  <1>1. Inv
    BY InvInit
  <1>2. Known = {} /\ LoadedRunners = {} /\ \A r \in Req : Users(r) = {}
    BY DEF Init, Known, LoadedRunners, Users
  <1>3. SameModel /\ UpWhileLoaded /\ LoadingUp
    BY <1>2 DEF Init, SameModel, UpWhileLoaded, LoadingUp
  <1>4. Finishing
    BY DEF Init, Finishing
  <1>5. Counted
    <2>1. Cardinality({}) = 0
      BY FS_EmptySet
    <2> QED
      BY <1>2, <2>1 DEF Init, Counted, RefCountExact
  <1>6. IdleLeaves /\ Room /\ StillGoing
    BY <1>2 DEF Init, IdleLeaves, Room, StillGoing
  <1> QED
    BY <1>1, <1>3, <1>4, <1>5, <1>6 DEF UseInv

\* Every step keeps it.
LEMMA UseInvNext == UseInv /\ [Next]_vars => UseInv'
  <1> SUFFICES ASSUME UseInv, [Next]_vars PROVE UseInv'
    OBVIOUS
  <1>0. Inv /\ SameModel /\ UpWhileLoaded /\ LoadingUp /\ Finishing /\ Counted /\ IdleLeaves /\ Room
    BY DEF UseInv
  <1>1. Inv'
    BY <1>0, InvNext
  <1>2. /\ SameModel' /\ UpWhileLoaded' /\ LoadingUp' /\ Finishing'
        /\ Counted' /\ IdleLeaves' /\ Room'
    BY <1>0, SameModelNext, UpWhileLoadedNext, LoadingUpNext, CountedNext, IdleNext, RoomNext
  <1> QED
    BY <1>1, <1>2 DEF UseInv

\* refCount is the number of requests that use the runner: every grant is counted once,
\* and every finished event against the runner it used, in whatever order loads,
\* unloads, grants and finished events interleave, and without overflow.
THEOREM CountsAreExact == Spec => []RefCountExact
  <1>1. UseInv => RefCountExact
    BY DEF UseInv, Counted
  <1>2. Init => UseInv
    BY UseInvInit
  <1> QED
    BY <1>1, <1>2, UseInvNext, PTL DEF Spec

\* A runner in use is neither taken out of `loaded' nor shut down before the server
\* stops: CUnload and load find it idle, and LoadFails closes a process nobody has.
THEOREM UsedRunnersStay == Spec => []InUseStaysLoaded
  <1>1. ASSUME UseInv PROVE InUseStaysLoaded
    <2>1. ASSUME ~stale, NEW r \in Req, Users(r) # {}
          PROVE  /\ loaded[ModelOf[r]] = r
                 /\ phase # "unloaded" => runner[r].proc = "up"
      <3>1. loaded[ModelOf[r]] = r
        BY <1>1, <2>1 DEF UseInv, Counted
      <3>2. ModelOf[r] \in Path /\ r # None
        BY ReqAssumption DEF Path
      <3> QED
        BY <1>1, <3>1, <3>2 DEF UseInv, UpWhileLoaded
    <2> QED
      BY <2>1 DEF InUseStaysLoaded
  <1>2. Init => UseInv
    BY UseInvInit
  <1> QED
    BY <1>1, <1>2, UseInvNext, PTL DEF Spec

\* A loaded runner that nobody uses has a timer, or an expired event on its way:
\* whatever order timers, stops, evictions and finished requests come in, the last
\* one leaves something behind that will unload it.
THEOREM IdleRunnersLeave == Spec => []IdleRunnerExpires
  <1>1. UseInv => IdleRunnerExpires
    BY IdleMeans DEF UseInv
  <1>2. Init => UseInv
    BY UseInvInit
  <1> QED
    BY <1>1, <1>2, UseInvNext, PTL DEF Spec

\* While processPending waits for room and all runners are idle, an unload is under
\* way: the runner it marked is still loaded and on its way out, or an unload was
\* announced that it has not heard of.  A request with an endless keep_alive can
\* take the marked runner and keep it, so this needs that there is none.
THEOREM RoomIsMade ==
    ASSUME NoForever
    PROVE  Spec => []IdleMakesRoom
  <1>1. ASSUME UseInv, StillGoing PROVE IdleMakesRoom
    <2> SUFFICES ASSUME p.pc = "wait", ~stale, \A r \in LoadedRunners : runner[r].refCount = 0
                 PROVE  \/ unloadedCh > 0 \/ c.pc \in {"vram", "notify"}
                        \/ \E r \in LoadedRunners : ExpiryPending(r)
      BY DEF IdleMakesRoom
    <2>1. UnloadComes \/ p.run \in LoadedRunners
      BY <1>1 DEF UseInv, Room
    <2>2. ASSUME p.run \in LoadedRunners PROVE ExpiryPending(p.run)
      <3>1. runner[p.run].dur # Forever
        BY <1>1 DEF StillGoing
      <3>2. Leaving(p.run)
        BY <1>1, <2>2 DEF UseInv, IdleLeaves
      <3> QED
        BY <3>1, <3>2 DEF Leaving, InExpired, ExpiryPending
    <2> QED
      BY <2>1, <2>2 DEF UnloadComes
  <1>2. UseInv /\ StillGoing /\ [Next]_vars => (UseInv /\ StillGoing)'
    BY UseInvNext, StillGoingNext DEF UseInv
  <1>3. Init => UseInv /\ StillGoing
    BY UseInvInit
  <1> QED
    BY <1>1, <1>2, <1>3, PTL DEF Spec
=============================================================================
