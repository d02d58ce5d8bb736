--------------------------- MODULE SchedulerProofs ---------------------------
(* Theorems about Scheduler, for any sets of requests and any limits.      *)
EXTENDS Scheduler, TLAPS, FiniteSetTheorems, SequenceTheorems

-----------------------------------------------------------------------------
(* The type invariant, strengthened to an inductive one: the locals that a *)
(* program point uses are set there.                                       *)

GoodRequests == {x \in Requests : x.pc \in {"check", "use"} => x.run \in Req}
GoodRunners == {x \in Runners : x.refMu = "load" => x.loader \in Req}
GoodPending == {x \in Pending :
    /\ x.pc \notin {"idle", "exit"} => x.req \in Req
    /\ x.pc \in {"check", "use", "loading", "expire", "send"} => x.run \in Req
    /\ x.pc = "scan" => x.head \in Req}
GoodCompleted == {x \in Completed :
    /\ x.pc = "finish" => x.req \in Req
    /\ x.pc \in {"finish", "expired", "send", "vram"} => x.run \in Req}
GoodStops == {x \in [pc : {"new", "found", "done"}, run : Opt(Req)] :
    x.pc = "found" => x.run \in Req}

ReqOK == req \in [Req -> GoodRequests]
ChansOK == /\ pendingReqCh \in Seq(Req) /\ finishedReqCh \in Seq(Req)
           /\ expiredCh \in Seq(Req) /\ unloadedCh \in Nat
MapsOK == loaded \in [Path -> Opt(Req)] /\ activeLoading \in Opt(Req)
RunnerOK == runner \in [Req -> GoodRunners]
POK == p \in GoodPending
COK == c \in GoodCompleted
StopOK == stop \in [Stop -> GoodStops]
EnvOK == /\ phase \in {"run", "done", "unloaded"}
         /\ panicked \in {"no", "other model", "nil activeLoading"}
         /\ stale \in BOOLEAN

Typed == ReqOK /\ ChansOK /\ MapsOK /\ RunnerOK /\ POK /\ COK /\ StopOK /\ EnvOK

\* What a step leaves alone keeps its type.
LEMMA Frame ==
    ASSUME Typed
    PROVE  /\ UNCHANGED req => ReqOK'
           /\ UNCHANGED chans => ChansOK'
           /\ UNCHANGED maps => MapsOK'
           /\ UNCHANGED runner => RunnerOK'
           /\ UNCHANGED p => POK'
           /\ UNCHANGED c => COK'
           /\ UNCHANGED stop => StopOK'
           /\ UNCHANGED <<phase, panicked, stale>> => EnvOK'
  BY DEF Typed, ReqOK, ChansOK, MapsOK, RunnerOK, POK, COK, StopOK, EnvOK, chans, maps

-----------------------------------------------------------------------------
(* Facts about the operators the actions are built from.                   *)

\* refCount stays within the width of its type.
LEMMA CountArithmetic ==
    \A n \in 0 .. (RefMod - 1) :
        Increment(n) \in 0 .. (RefMod - 1) /\ Decrement(n) \in 0 .. (RefMod - 1)
  <1>1. Cardinality(Req) \in Nat
    BY ReqAssumption, FS_CardinalityType
  <1>2. RefMod \in Nat \ {0}
    BY <1>1, EnvAssumption
  <1> QED
    BY <1>2 DEF Increment, Decrement

\* Receiving from a channel yields an element and leaves a channel.
LEMMA Receive ==
    ASSUME NEW S, NEW s \in Seq(S), s # <<>>
    PROVE  Head(s) \in S /\ Tail(s) \in Seq(S)
  BY HeadTailProperties

\* The operations on the record of a request yield such a record.
LEMMA RequestTypes ==
    ASSUME NEW rq \in GoodRequests
    PROVE  /\ \A a \in {"ok", "err", "busy"} : Answered(rq, a) \in GoodRequests
           /\ \A r \in Req : Granted(rq, r) \in GoodRequests
           /\ [rq EXCEPT !.pc = "wait", !.run = None] \in GoodRequests
           /\ [Answered(rq, "busy") EXCEPT !.pc = "wait", !.run = None] \in GoodRequests
           /\ [rq EXCEPT !.ctx = "done"] \in GoodRequests
           /\ \A w \in {"queued", "taken", "gone"} : [rq EXCEPT !.watch = w] \in GoodRequests
  <1>1. \A a \in {"ok", "err", "busy"} : Answered(rq, a) \in GoodRequests
    BY DEF GoodRequests, Requests, Answered
  <1>2. \A x \in GoodRequests, r \in Req :
            [x EXCEPT !.held = r, !.watch = "armed", !.pc = "wait", !.run = None] \in GoodRequests
    BY ZenonT(60) DEF GoodRequests, Requests, Opt
  <1>3. \A x \in GoodRequests : [x EXCEPT !.pc = "wait", !.run = None] \in GoodRequests
    BY DEF GoodRequests, Requests, Opt
  <1>4. [rq EXCEPT !.ctx = "done"] \in GoodRequests
    BY DEF GoodRequests, Requests
  <1>5. \A w \in {"queued", "taken", "gone"} : [rq EXCEPT !.watch = w] \in GoodRequests
    BY DEF GoodRequests, Requests
  <1> QED
    BY <1>1, <1>2, <1>3, <1>4, <1>5 DEF Granted

\* The operations on the record of a runner yield such a record.
LEMMA RunnerTypes ==
    ASSUME NEW ref \in GoodRunners
    PROVE  /\ \A q \in Req : Taken(ref, q) \in GoodRunners
           /\ \A h \in {"pending", "stop"} : Marked(ref, h) \in GoodRunners
           /\ Unload(ref) \in GoodRunners
           /\ GoneIdle(ref) \in GoodRunners
           /\ \A h \in {"free", "vram", "failed"} : [ref EXCEPT !.refMu = h] \in GoodRunners
           /\ \A pr \in {"up", "closed"} : [ref EXCEPT !.proc = pr] \in GoodRunners
           /\ \A n \in Nat : [ref EXCEPT !.retries = n] \in GoodRunners
           /\ \A q \in Req, d \in Nat :
                [ref EXCEPT !.loader = q, !.refMu = "load", !.dur = d] \in GoodRunners
  <1>1. ASSUME NEW q \in Req PROVE Taken(ref, q) \in GoodRunners
    <2>1. Increment(ref.refCount) \in 0 .. (RefMod - 1)
      BY CountArithmetic DEF GoodRunners, Runners
    <2>2. (IF DurOf[q] = NoDuration THEN ref.dur ELSE DurOf[q]) \in Nat
      BY ReqAssumption DEF NoDuration, GoodRunners, Runners
    <2> QED
      BY <2>1, <2>2 DEF Taken, GoodRunners, Runners
  <1>2. \A h \in {"pending", "stop"} : Marked(ref, h) \in GoodRunners
    BY ZenonT(60) DEF Marked, GoodRunners, Runners, Detached
  <1>3. Unload(ref) \in GoodRunners
    BY DEF Unload, GoodRunners, Runners
  <1>4. GoneIdle(ref) \in GoodRunners
    BY DEF GoneIdle, GoodRunners, Runners
  <1>5. \A h \in {"free", "vram", "failed"} : [ref EXCEPT !.refMu = h] \in GoodRunners
    BY DEF GoodRunners, Runners, Detached
  <1>6. \A pr \in {"up", "closed"} : [ref EXCEPT !.proc = pr] \in GoodRunners
    BY DEF GoodRunners, Runners
  <1>7. \A n \in Nat : [ref EXCEPT !.retries = n] \in GoodRunners
    BY DEF GoodRunners, Runners
  <1>8. \A q \in Req, d \in Nat :
            [ref EXCEPT !.loader = q, !.refMu = "load", !.dur = d] \in GoodRunners
    BY DEF GoodRunners, Runners, Opt
  <1> QED
    BY <1>1, <1>2, <1>3, <1>4, <1>5, <1>6, <1>7, <1>8

\* The send of an expired event by the holder of a refMu.
LEMMA SendTyped ==
    ASSUME Typed, NEW r \in Req, SendAndUnlock(r)
    PROVE  RunnerOK' /\ ChansOK'
  <1>1. RunnerOK'
    BY RunnerTypes DEF SendAndUnlock, Typed, RunnerOK
  <1>2. ChansOK'
    BY DEF SendAndUnlock, Typed, ChansOK
  <1> QED
    BY <1>1, <1>2

-----------------------------------------------------------------------------
(* Type correctness.                                                       *)

\* GetRunner and the request's later life keep the types.
LEMMA HandlerTyped ==
    ASSUME Typed, NEW q \in Req, Handler(q) \/ Client(q)
    PROVE  Typed'
  <1> USE Frame
  <1>0. req[q] \in GoodRequests /\ loaded[ModelOf[q]] \in Opt(Req)
    BY ReqAssumption DEF Typed, ReqOK, MapsOK, Path
  <1>1. CASE Lookup(q)
    <2>1. ReqOK'
      BY <1>0, <1>1 DEF Lookup, Typed, ReqOK, GoodRequests, Requests, Opt
    <2> QED
      BY <1>1, <2>1 DEF Lookup, Typed, env
  <1>2. CASE NeedsReload(q)
    <2>1. ReqOK'
      BY <1>0, <1>2 DEF NeedsReload, Typed, ReqOK, GoodRequests, Requests
    <2> QED
      BY <1>2, <2>1 DEF NeedsReload, Typed, env
  <1>3. CASE Use(q)
    <2>1. req[q].run \in Req
      BY SMTT(40), <1>0, <1>3 DEF Use, GoodRequests
    <2>2. ReqOK'
      BY <1>0, <1>3, <2>1, RequestTypes DEF Use, useLoadedRunner, Typed, ReqOK
    <2>3. RunnerOK'
      BY <1>3, <2>1, RunnerTypes DEF Use, useLoadedRunner, Typed, RunnerOK
    <2>4. EnvOK'
      BY <1>3 DEF Use, useLoadedRunner, Typed, EnvOK
    <2> QED
      BY <1>3, <2>2, <2>3, <2>4 DEF Use, Typed
  <1>4. CASE Enqueue(q)
    <2>1. ReqOK'
      BY <1>0, <1>4, RequestTypes DEF Enqueue, Typed, ReqOK
    <2>2. ChansOK'
      BY <1>4 DEF Enqueue, Typed, ChansOK
    <2> QED
      BY SMTT(40), <1>4, <2>1, <2>2 DEF Enqueue, Typed, env
  <1>5. CASE Busy(q)
    <2>1. ReqOK'
      BY <1>0, <1>5, RequestTypes DEF Busy, Typed, ReqOK
    <2> QED
      BY SMTT(40), <1>5, <2>1 DEF Busy, Typed, env
  <1>6. CASE Complete(q) \/ Cancel(q)
    <2>1. ReqOK'
      BY <1>0, <1>6, RequestTypes DEF Complete, Cancel, Typed, ReqOK
    <2> QED
      BY SMTT(40), <1>6, <2>1 DEF Complete, Cancel, Typed, env
  <1>7. CASE SendFinished(q)
    <2>1. ReqOK'
      BY <1>0, <1>7, RequestTypes DEF SendFinished, Typed, ReqOK
    <2>2. ChansOK'
      BY <1>7 DEF SendFinished, Typed, ChansOK
    <2> QED
      BY SMTT(40), <1>7, <2>1, <2>2 DEF SendFinished, Typed, env
  <1> QED
    BY <1>1, <1>2, <1>3, <1>4, <1>5, <1>6, <1>7 DEF Handler, Client

\* Every step of processPending finds its locals set and keeps the types.
LEMMA PendingTyped ==
    ASSUME Typed, processPending
    PROVE  Typed'
  <1> USE Frame
  <1>0. p \in GoodPending /\ LoadedRunners \subseteq Req
    BY DEF Typed, POK, MapsOK, LoadedRunners, Opt
  <1>idle. Idle \in GoodPending
    BY <1>0 DEF Idle, GoodPending, Pending, Opt
  <1>1. CASE PRecv
    <2>1. Head(pendingReqCh) \in Req /\ Tail(pendingReqCh) \in Seq(Req)
      BY <1>1, Receive DEF PRecv, Typed, ChansOK
    <2>2. POK'
      BY <1>0, <1>1, <2>1 DEF PRecv, POK, GoodPending, Pending, Opt
    <2>3. ChansOK'
      BY <1>1, <2>1 DEF PRecv, Typed, ChansOK
    <2> QED
      BY <1>1, <2>2, <2>3 DEF PRecv, Typed, env
  <1>2. CASE PUnloaded
    <2>1. POK'
      BY <1>0, <1>2 DEF PUnloaded, Again, POK, GoodPending, Pending, Opt
    <2>2. ChansOK'
      BY <1>2 DEF PUnloaded, Typed, ChansOK
    <2> QED
      BY <1>2, <2>1, <2>2 DEF PUnloaded, Typed, env
  <1>3. CASE PExit
    <2>1. POK'
      BY <1>0, <1>3 DEF PExit, POK, GoodPending, Pending
    <2> QED
      BY <1>3, <2>1 DEF PExit, Typed, env
  <1>4. CASE PSnapshot
    <2>1. loaded[ModelOf[p.req]] \in Opt(Req)
      BY <1>0, <1>4, ReqAssumption DEF PSnapshot, Typed, MapsOK, Path, GoodPending
    <2>2. ModelsPerGPU * (IF NumGPUs > 1 THEN NumGPUs ELSE 1) \in Nat
      BY EnvAssumption
    <2>3. POK'
      BY ZenonT(60), <1>0, <1>4, <2>1, <2>2 DEF PSnapshot, POK, GoodPending, Pending, Opt
    <2> QED
      BY <1>4, <2>3 DEF PSnapshot, Typed, env
  <1>5. CASE PNeedsReload
    <2>1. POK'
      BY <1>0, <1>5 DEF PNeedsReload, POK, GoodPending, Pending
    <2> QED
      BY <1>5, <2>1 DEF PNeedsReload, Typed, env
  <1>6. CASE PUse
    <2>1. p.req \in Req /\ p.run \in Req
      BY <1>0, <1>6 DEF PUse, GoodPending
    <2>2. ReqOK'
      BY <1>6, <2>1, RequestTypes DEF PUse, useLoadedRunner, Typed, ReqOK
    <2>3. RunnerOK'
      BY <1>6, <2>1, RunnerTypes DEF PUse, useLoadedRunner, Typed, RunnerOK
    <2>4. EnvOK' /\ POK'
      BY <1>6, <1>idle DEF PUse, useLoadedRunner, Typed, EnvOK, POK
    <2> QED
      BY <1>6, <2>2, <2>3, <2>4 DEF PUse, Typed
  <1>7. CASE LoadModelFails \/ NewServerFails
    <2>1. p.req \in Req
      BY SMTT(40), <1>0, <1>7 DEF LoadModelFails, NewServerFails, GoodPending
    <2>2. ReqOK'
      <3>1. req' = [req EXCEPT ![p.req] = Answered(req[p.req], "err")]
        BY <1>7 DEF LoadModelFails, NewServerFails, Refuse, Refused
      <3> QED
        BY <2>1, <3>1, RequestTypes DEF Typed, ReqOK
    <2>3. POK'
      BY <1>7, <1>idle DEF LoadModelFails, NewServerFails, Refuse, POK
    <2> QED
      BY <1>7, <2>2, <2>3 DEF LoadModelFails, NewServerFails, Typed, env
  <1>8. CASE UpdateFreeSpace
    <2>1. POK'
      BY <1>0, <1>8 DEF UpdateFreeSpace, POK, GoodPending, Pending
    <2> QED
      BY <1>8, <2>1 DEF UpdateFreeSpace, Typed, env
  <1>9. CASE NewServer
    <2>1. p.req \in Req
      BY <1>0, <1>9 DEF NewServer, GoodPending
    <2>2. POK'
      BY <1>0, <1>9, <2>1 DEF NewServer, POK, GoodPending, Pending, Opt
    <2>3. RunnerOK' /\ MapsOK'
      BY <1>9, <2>1, RunnerTypes DEF NewServer, Typed, RunnerOK, MapsOK, Opt
    <2> QED
      BY <1>9, <2>2, <2>3 DEF NewServer, Typed, env
  <1>10. CASE ResumeServer
    <2>1. POK'
      BY <1>0, <1>10 DEF ResumeServer, Typed, MapsOK, POK, GoodPending, Pending, Opt
    <2> QED
      BY <1>10, <2>1 DEF ResumeServer, Typed, env
  <1>11. CASE PanicOtherModel \/ PanicNilActive
    <2>1. EnvOK'
      BY <1>11 DEF PanicOtherModel, PanicNilActive, Typed, EnvOK
    <2> QED
      BY <1>11, <2>1 DEF PanicOtherModel, PanicNilActive, Typed
  <1>12. CASE LoadSucceeds
    <2>1. p.req \in Req /\ p.run \in Req /\ runner \in [Req -> GoodRunners]
      BY <1>0, <1>12 DEF LoadSucceeds, GoodPending, Typed, RunnerOK
    <2> DEFINE new == [runner[p.run] EXCEPT !.loader = p.req, !.refMu = "load",
                         !.dur = IF DurOf[p.req] = NoDuration THEN KeepAlive ELSE DurOf[p.req]]
    <2>2. (IF DurOf[p.req] = NoDuration THEN KeepAlive ELSE DurOf[p.req]) \in Nat
      BY <2>1, ReqAssumption, EnvAssumption DEF NoDuration
    <2>3. new \in GoodRunners
      BY <2>1, <2>2, RunnerTypes
    <2>4. \A r \in Req : Unload(runner[r]) \in GoodRunners
      BY <2>1, RunnerTypes
    <2>5. runner' = [r \in Req |-> IF r = p.run THEN new
                                   ELSE IF r = loaded[ModelOf[p.req]] THEN Unload(runner[r])
                                   ELSE runner[r]]
      BY <1>12 DEF LoadSucceeds
    <2>6. RunnerOK'
      BY <2>1, <2>3, <2>4, <2>5 DEF RunnerOK
    <2>7. MapsOK' /\ POK'
      BY <1>12, <1>idle, <2>1 DEF LoadSucceeds, Typed, MapsOK, POK, Opt
    <2> QED
      BY <1>12, <2>6, <2>7 DEF LoadSucceeds, Typed, env
  <1>13. CASE LoadNeedsEviction
    <2>1. POK'
      BY <1>0, <1>13 DEF LoadNeedsEviction, POK, GoodPending, Pending, Opt
    <2> QED
      BY <1>13, <2>1 DEF LoadNeedsEviction, Typed, env
  <1>14. CASE LoadFails
    <2>1. p.req \in Req /\ activeLoading \in Req
      BY <1>0, <1>14 DEF LoadFails, GoodPending, Typed, MapsOK, Opt
    <2>2. ReqOK' /\ POK'
      BY <1>14, <1>idle, <2>1, RequestTypes DEF LoadFails, Refuse, Refused, Typed, ReqOK, POK
    <2>3. RunnerOK' /\ MapsOK'
      BY <1>14, <2>1, RunnerTypes DEF LoadFails, Typed, RunnerOK, MapsOK, Opt
    <2> QED
      BY <1>14, <2>2, <2>3 DEF LoadFails, Typed, env
  <1>15. CASE FindRunnerToUnload
    <2>1. [r \in Req |-> runner[r].dur] \in [Req -> Nat]
      BY DEF Typed, RunnerOK, GoodRunners, Runners
    <2>2. POK'
      BY ZenonT(60), <1>0, <1>15, <2>1 DEF FindRunnerToUnload, POK, GoodPending, Pending, Opt
    <2> QED
      BY <1>15, <2>2 DEF FindRunnerToUnload, Typed, env
  <1>16. CASE PExpire
    <2>1. p.run \in Req
      BY <1>0, <1>16 DEF PExpire, GoodPending
    <2>2. POK'
      BY <1>0, <1>16 DEF PExpire, POK, GoodPending, Pending
    <2>3. RunnerOK'
      BY <1>16, <2>1, RunnerTypes DEF PExpire, Typed, RunnerOK
    <2> QED
      BY <1>16, <2>2, <2>3 DEF PExpire, Typed, env
  <1>17. CASE PSendExpired
    <2>1. p.run \in Req
      BY <1>0, <1>17 DEF PSendExpired, GoodPending
    <2>2. POK'
      BY <1>0, <1>17 DEF PSendExpired, POK, GoodPending, Pending
    <2>3. RunnerOK' /\ ChansOK'
      BY <1>17, <2>1, SendTyped DEF PSendExpired
    <2> QED
      BY <1>17, <2>2, <2>3 DEF PSendExpired, Typed, env
  <1>18. ASSUME NEW r \in Req, UpdateFreeSpaceOf(r) PROVE Typed'
    <2>1. POK'
      BY <1>0, <1>18 DEF UpdateFreeSpaceOf, POK, GoodPending, Pending
    <2> QED
      BY <1>18, <2>1 DEF UpdateFreeSpaceOf, Typed, env
  <1>19. ASSUME NEW r \in Req, Scan(r) PROVE Typed'
    <2>1. p.head \in Req /\ p.req \in Req
      BY <1>0, <1>19 DEF Scan, GoodPending
    <2>2. [p EXCEPT !.scan = p.scan \ {r}] \in GoodPending
      BY <1>0 DEF GoodPending, Pending
    <2>3. \A x \in Req : [p EXCEPT !.run = x, !.scan = {}, !.dur = [y \in Req |-> 0],
                                   !.head = None, !.pc = "expire"] \in GoodPending
      BY <1>0, <2>1 DEF GoodPending, Pending, Opt
    <2>4. POK'
      BY <1>19, <2>1, <2>2, <2>3 DEF Scan, POK
    <2> QED
      BY <1>19, <2>4 DEF Scan, Typed, env
  <1> QED
    BY <1>1, <1>2, <1>3, <1>4, <1>5, <1>6, <1>7, <1>8, <1>9, <1>10, <1>11, <1>12, <1>13,
       <1>14, <1>15, <1>16, <1>17, <1>18, <1>19 DEF processPending, load

\* Likewise for processCompleted; counting down wraps within the width of refCount.
LEMMA CompletedTyped ==
    ASSUME Typed, processCompleted
    PROVE  Typed'
  <1> USE Frame
  <1>0. c \in GoodCompleted /\ CIdle \in GoodCompleted
    BY DEF Typed, COK, CIdle, GoodCompleted, Completed, Opt
  <1>1. CASE CRecvFinished
    <2>1. Head(finishedReqCh) \in Req /\ Tail(finishedReqCh) \in Seq(Req)
      BY <1>1, Receive DEF CRecvFinished, Typed, ChansOK
    <2>2. loaded[ModelOf[Head(finishedReqCh)]] \in Opt(Req)
      BY SMTT(40), <2>1, ReqAssumption DEF Typed, MapsOK, Path
    <2>3. ReqOK'
      <3>1. PICK w \in {"taken", "gone"} :
                req' = [req EXCEPT ![Head(finishedReqCh)].watch = w]
        BY <1>1 DEF CRecvFinished
      <3> QED
        BY <2>1, <3>1, RequestTypes DEF Typed, ReqOK
    <2>4. COK'
      BY <1>0, <1>1, <2>1, <2>2 DEF CRecvFinished, COK, GoodCompleted, Completed, Opt
    <2>5. ChansOK'
      BY <1>1, <2>1 DEF CRecvFinished, Typed, ChansOK
    <2> QED
      BY <1>1, <2>3, <2>4, <2>5 DEF CRecvFinished, Typed, env
  <1>2. CASE CFinish
    <2>1. c.req \in Req /\ c.run \in Req /\ runner[c.run] \in GoodRunners
      BY <1>0, <1>2 DEF CFinish, GoodCompleted, Typed, RunnerOK
    <2> DEFINE ref == [runner[c.run] EXCEPT !.refCount = Decrement(runner[c.run].refCount)]
    <2>2. Decrement(runner[c.run].refCount) \in 0 .. (RefMod - 1)
      BY <2>1, CountArithmetic DEF GoodRunners, Runners
    <2>3. ref \in GoodRunners
      BY <2>1, <2>2 DEF GoodRunners, Runners
    <2>4. RunnerOK'
      BY ZenonT(60), <1>2, <2>1, <2>3, RunnerTypes DEF CFinish, Typed, RunnerOK
    <2>5. ReqOK'
      BY <1>2, <2>1, RequestTypes DEF CFinish, Typed, ReqOK
    <2>6. [c EXCEPT !.pc = "send", !.req = None] \in GoodCompleted
      BY <1>0, <2>1 DEF GoodCompleted, Completed, Opt
    <2>7. COK'
      BY <1>0, <1>2, <2>6 DEF CFinish, COK
    <2> QED
      BY <1>2, <2>4, <2>5, <2>7 DEF CFinish, Typed, env
  <1>3. CASE CSendExpired
    <2>1. c.run \in Req
      BY <1>0, <1>3 DEF CSendExpired, GoodCompleted
    <2>2. RunnerOK' /\ ChansOK'
      BY <1>3, <2>1, SendTyped DEF CSendExpired
    <2>3. COK'
      BY <1>0, <1>3 DEF CSendExpired, COK
    <2> QED
      BY <1>3, <2>2, <2>3 DEF CSendExpired, Typed, env
  <1>4. CASE CRecvExpired
    <2>1. Head(expiredCh) \in Req /\ Tail(expiredCh) \in Seq(Req)
      BY <1>4, Receive DEF CRecvExpired, Typed, ChansOK
    <2>2. COK'
      BY <1>4, <2>1 DEF CRecvExpired, COK, GoodCompleted, Completed, Opt
    <2>3. ChansOK'
      BY <1>4, <2>1 DEF CRecvExpired, Typed, ChansOK
    <2> QED
      BY <1>4, <2>2, <2>3 DEF CRecvExpired, Typed, env
  <1>5. CASE CRetry
    <2>1. c.run \in Req /\ runner[c.run] \in GoodRunners /\ runner[c.run].retries + 1 \in Nat
      BY <1>0, <1>5 DEF CRetry, GoodCompleted, Typed, RunnerOK, GoodRunners, Runners
    <2>2. RunnerOK'
      BY <1>5, <2>1, RunnerTypes DEF CRetry, Typed, RunnerOK
    <2>3. COK'
      BY <1>0, <1>5 DEF CRetry, COK
    <2> QED
      BY <1>5, <2>2, <2>3 DEF CRetry, Typed, env
  <1>6. CASE CDuplicate
    <2>1. COK'
      BY <1>0, <1>6 DEF CDuplicate, COK
    <2> QED
      BY <1>6, <2>1 DEF CDuplicate, Typed, env
  <1>7. CASE COrphan
    <2>1. c.run \in Req
      BY <1>0, <1>7 DEF COrphan, GoodCompleted
    <2>2. RunnerOK'
      BY <1>7, <2>1, RunnerTypes DEF COrphan, Typed, RunnerOK
    <2>3. COK'
      BY <1>0, <1>7 DEF COrphan, COK
    <2> QED
      BY <1>7, <2>2, <2>3 DEF COrphan, Typed, env
  <1>8. CASE CUnload
    <2>1. c.run \in Req
      BY <1>0, <1>8 DEF CUnload, GoodCompleted
    <2>2. Unload(runner[c.run]) \in GoodRunners
      BY <2>1, RunnerTypes DEF Typed, RunnerOK
    <2>3. [Unload(runner[c.run]) EXCEPT !.refMu = "vram"] \in GoodRunners
      BY <2>2, RunnerTypes
    <2>4. RunnerOK'
      BY <1>8, <2>1, <2>3 DEF CUnload, Typed, RunnerOK
    <2>5. COK'
      BY <1>0, <1>8, <2>1 DEF CUnload, COK, GoodCompleted, Completed
    <2>6. MapsOK'
      BY <1>8 DEF CUnload, Typed, MapsOK, Opt
    <2> QED
      BY <1>8, <2>4, <2>5, <2>6 DEF CUnload, Typed, env
  <1>9. CASE CRecovered
    <2>1. c.run \in Req
      BY <1>0, <1>9 DEF CRecovered, GoodCompleted
    <2>2. RunnerOK'
      BY <1>9, <2>1, RunnerTypes DEF CRecovered, Typed, RunnerOK
    <2>3. COK'
      BY <1>0, <1>9 DEF CRecovered, COK, GoodCompleted, Completed, Opt
    <2> QED
      BY <1>9, <2>2, <2>3 DEF CRecovered, Typed, env
  <1>10. CASE CNotify
    <2>1. COK'
      BY <1>0, <1>10 DEF CNotify, COK
    <2>2. ChansOK'
      BY <1>10 DEF CNotify, SendUnloaded, Typed, ChansOK
    <2> QED
      BY <1>10, <2>1, <2>2 DEF CNotify, Typed, env
  <1>11. CASE CExit
    <2>1. COK'
      BY <1>0, <1>11 DEF CExit, COK, GoodCompleted, Completed
    <2> QED
      BY <1>11, <2>1 DEF CExit, Typed, env
  <1> QED
    BY <1>1, <1>2, <1>3, <1>4, <1>5, <1>6, <1>7, <1>8, <1>9, <1>10, <1>11 DEF processCompleted

\* The goroutine that waits for a runner, timers and retries keep the types.
LEMMA GoroutinesTyped ==
    ASSUME Typed, NEW r \in Req, Goroutines(r)
    PROVE  Typed'
  <1> USE Frame
  <1>0. runner[r] \in GoodRunners
    BY DEF Typed, RunnerOK
  <1>1. CASE Running(r)
    <2>1. runner[r].loader \in Req
      BY <1>0, <1>1 DEF Running, GoodRunners
    <2>2. Increment(runner[r].refCount) \in 0 .. (RefMod - 1)
      BY <1>0, CountArithmetic DEF GoodRunners, Runners
    <2>3. [runner[r] EXCEPT !.refMu = "free", !.refCount = Increment(runner[r].refCount)]
            \in GoodRunners
      BY <1>0, <2>2 DEF GoodRunners, Runners
    <2>5. RunnerOK'
      BY <1>1, <2>3 DEF Running, Typed, RunnerOK
    <2>4. ReqOK'
      BY <1>1, <2>1, RequestTypes DEF Running, Typed, ReqOK
    <2> QED
      BY <1>1, <2>4, <2>5 DEF Running, Typed, env
  <1>2. CASE NotRunning(r)
    <2>1. runner[r].loader \in Req
      BY <1>0, <1>2 DEF NotRunning, GoodRunners
    <2>2. RunnerOK'
      BY ZenonT(60), <1>0, <1>2, RunnerTypes DEF NotRunning, Typed, RunnerOK
    <2>3. ReqOK'
      BY <1>2, <2>1, RequestTypes DEF NotRunning, Refused, Typed, ReqOK
    <2> QED
      BY <1>2, <2>2, <2>3 DEF NotRunning, Typed, env
  <1>3. CASE TimerFires(r)
    <2>1. runner[r].callbacks + 1 \in Nat
      BY <1>0 DEF GoodRunners, Runners
    <2>2. [runner[r] EXCEPT !.timer = "fired", !.callbacks = runner[r].callbacks + 1]
            \in GoodRunners
      BY <1>0, <2>1 DEF GoodRunners, Runners
    <2>3. RunnerOK'
      BY <1>3, <2>2 DEF TimerFires, Typed, RunnerOK
    <2> QED
      BY <1>3, <2>3 DEF TimerFires, Typed, env
  <1>4. CASE TimerCallback(r)
    <2>1. runner[r].callbacks - 1 \in Nat
      BY <1>0, <1>4 DEF TimerCallback, GoodRunners, Runners
    <2>2. RunnerOK'
      BY <1>0, <1>4, <2>1 DEF TimerCallback, Typed, RunnerOK, GoodRunners, Runners, Detached
    <2> QED
      BY <1>4, <2>2 DEF TimerCallback, Typed, env
  <1>5. CASE SendExpired(r)
    <2>1. RunnerOK' /\ ChansOK'
      BY <1>5, SendTyped DEF SendExpired
    <2> QED
      BY <1>5, <2>1 DEF SendExpired, Typed, env
  <1>6. CASE Retry(r)
    <2>1. runner[r].retries - 1 \in Nat
      BY <1>0, <1>6 DEF Retry, GoodRunners, Runners
    <2>2. RunnerOK'
      BY <1>0, <1>6, <2>1, RunnerTypes DEF Retry, Typed, RunnerOK
    <2>3. ChansOK'
      BY <1>6 DEF Retry, Typed, ChansOK
    <2> QED
      BY <1>6, <2>2, <2>3 DEF Retry, Typed, env
  <1> QED
    BY <1>1, <1>2, <1>3, <1>4, <1>5, <1>6 DEF Goroutines

\* expireRunner keeps the types.
LEMMA StopTyped ==
    ASSUME Typed, NEW s \in Stop, expireRunner(s)
    PROVE  Typed'
  <1> USE Frame
  <1>1. CASE ExpireLookup(s)
    <2>1. loaded[StopModel[s]] \in Opt(Req)
      BY ReqAssumption DEF Typed, MapsOK, Path
    <2>2. StopOK'
      BY <1>1, <2>1 DEF ExpireLookup, Typed, StopOK, GoodStops, Opt
    <2> QED
      BY <1>1, <2>2 DEF ExpireLookup, Typed
  <1>2. CASE ExpireRunner(s)
    <2>1. stop[s].run \in Req
      BY <1>2 DEF ExpireRunner, Typed, StopOK, GoodStops
    <2>2. StopOK'
      BY <1>2 DEF ExpireRunner, Typed, StopOK, GoodStops, Opt
    <2>3. RunnerOK'
      BY <1>2, <2>1, RunnerTypes DEF ExpireRunner, Typed, RunnerOK
    <2> QED
      BY <1>2, <2>2, <2>3 DEF ExpireRunner, Typed
  <1> QED
    BY <1>1, <1>2 DEF expireRunner

\* The signal and unloadAllRunners keep the types.
LEMMA ShutdownTyped ==
    ASSUME Typed, Shutdown \/ unloadAllRunners
    PROVE  Typed'
  <1> USE Frame
  <1>1. CASE Shutdown
    <2>1. EnvOK'
      BY <1>1 DEF Shutdown, Typed, EnvOK
    <2> QED
      BY <1>1, <2>1 DEF Shutdown, Typed
  <1>2. CASE unloadAllRunners
    <2>1. RunnerOK'
      BY <1>2, RunnerTypes DEF unloadAllRunners, Typed, RunnerOK
    <2>2. EnvOK'
      BY <1>2 DEF unloadAllRunners, Typed, EnvOK
    <2>3. MapsOK'
      BY <1>2 DEF unloadAllRunners, Typed, MapsOK, Opt
    <2> QED
      BY <1>2, <2>1, <2>2, <2>3 DEF unloadAllRunners, Typed
  <1> QED
    BY <1>1, <1>2

\* The scheduler that InitScheduler makes is well typed.
LEMMA TypedInit == Init => Typed
  <1> SUFFICES ASSUME Init PROVE Typed
    OBVIOUS
  <1> USE DEF Init
  <1>1. ReqOK
    BY DEF ReqOK, GoodRequests, Requests, Opt
  <1>2. RunnerOK
    <2>1. 0 \in 0 .. (RefMod - 1)
      BY ReqAssumption, EnvAssumption, FS_CardinalityType
    <2> QED
      BY <2>1 DEF RunnerOK, GoodRunners, Runners, Opt
  <1>3. ChansOK /\ MapsOK
    BY DEF ChansOK, MapsOK, Opt
  <1>6. EnvOK
    BY DEF EnvOK
  <1>4. POK
    BY EnvAssumption DEF POK, GoodPending, Pending, Opt
  <1>5. COK /\ StopOK
    BY DEF COK, StopOK, GoodCompleted, Completed, GoodStops, Opt
  <1> QED
    BY <1>1, <1>2, <1>3, <1>4, <1>5, <1>6 DEF Typed

\* Every step keeps the types.
LEMMA TypedNext == Typed /\ [Next]_vars => Typed'
  <1> SUFFICES ASSUME Typed, [Next]_vars PROVE Typed'
    OBVIOUS
  <1>1. CASE UNCHANGED vars
    BY <1>1, Frame DEF vars, env, Typed
  <1>2. CASE Serve
    BY <1>2, HandlerTyped, GoroutinesTyped, PendingTyped, CompletedTyped, StopTyped DEF Serve
  <1>3. CASE Shutdown \/ unloadAllRunners
    BY <1>3, ShutdownTyped
  <1> QED
    BY <1>1, <1>2, <1>3 DEF Next

\* The strengthened invariant contains TypeOK.
LEMMA TypedIsTypeOK == Typed => TypeOK
  BY DEF Typed, TypeOK, ReqOK, ChansOK, MapsOK, RunnerOK, POK, COK, StopOK, EnvOK,
         GoodRequests, GoodRunners, GoodPending, GoodCompleted, GoodStops

\* Every variable of the scheduler keeps its type, the width of refCount included,
\* and the strengthening that makes this inductive holds as well.
THEOREM TypeCorrect == Spec => [](TypeOK /\ Typed)
  <1>1. Spec => []Typed
    BY TypedInit, TypedNext, PTL DEF Spec
  <1> QED
    BY <1>1, TypedIsTypeOK, PTL

-----------------------------------------------------------------------------
(* Loading: a model has one runner, and a process has an owner.            *)

\* Where processPending is on its way to load the model of p.req.
Loading == {"fit", "space", "loading"}

LoadInv ==
    /\ \A m \in Path : loaded[m] # None => ModelOf[loaded[m]] = m
    /\ p.pc \in Loading => loaded[ModelOf[p.req]] = None
    /\ p.pc = "loading" => /\ ModelOf[p.run] = ModelOf[p.req]
                           /\ activeLoading \in {None, p.run}
                           /\ runner[p.run].proc = "up" => activeLoading = p.run
    /\ NoLeakedProcess

\* A step that loads nothing: the maps stay, no process starts, and processPending
\* does not begin to load.
Quiet ==
    /\ UNCHANGED maps
    /\ \A r \in Req : runner'[r].proc = "up" => runner[r].proc = "up"
    /\ \/ UNCHANGED p
       \/ p'.pc \notin Loading
       \/ p'.pc = "space" /\ p.pc \in Loading /\ p'.req = p.req

\* A step that starts no process, and neither loads nor begins to, keeps LoadInv.
LEMMA QuietKeeps ==
    ASSUME Typed, LoadInv, Quiet
    PROVE  LoadInv'
  <1>1. LoadedRunners' = LoadedRunners
    BY DEF Quiet, maps, LoadedRunners
  <1>2. NoLeakedProcess'
    BY <1>1 DEF LoadInv, NoLeakedProcess, Quiet, maps
  <1>3. p'.pc = "loading" => UNCHANGED p
    BY DEF Quiet, Loading
  <1>4. CASE UNCHANGED p
    <2>1. p.pc = "loading" => p.run \in Req
      BY DEF Typed, POK, GoodPending
    <2> QED
      BY <1>2, <1>4, <2>1 DEF LoadInv, Quiet, maps
  <1>5. CASE ~UNCHANGED p
    BY <1>2, <1>3, <1>5 DEF LoadInv, Quiet, maps, Loading
  <1> QED
    BY <1>4, <1>5

\* The operations on a runner other than newServerFn start no process.
LEMMA NoProcessStarts ==
    ASSUME NEW ref \in GoodRunners
    PROVE  /\ \A q \in Req : Taken(ref, q).proc = ref.proc
           /\ \A h \in {"pending", "stop"} : Marked(ref, h).proc = ref.proc
           /\ Unload(ref).proc = "closed"
           /\ GoneIdle(ref).proc = ref.proc
  BY DEF GoodRunners, Runners, Taken, Marked, Unload, GoneIdle

\* Handlers and clients are such steps: GetRunner never loads.
LEMMA HandlerQuiet ==
    ASSUME Typed, NEW q \in Req, Handler(q) \/ Client(q)
    PROVE  Quiet
  <1>1. CASE Use(q)
    <2>1. req[q].run \in Req
      BY <1>1 DEF Use, Typed, ReqOK, GoodRequests
    <2>2. \A r \in Req : runner'[r].proc = runner[r].proc
      BY <1>1, <2>1, NoProcessStarts DEF Use, useLoadedRunner, Typed, RunnerOK
    <2> QED
      BY <1>1, <2>2 DEF Use, Quiet
  <1>2. CASE ~Use(q)
    BY <1>2 DEF Handler, Client, Lookup, NeedsReload, Enqueue, Busy, Complete, Cancel,
                SendFinished, Quiet
  <1> QED
    BY <1>1, <1>2

\* So are timers, retries and the goroutine that waits for a runner.
LEMMA GoroutinesQuiet ==
    ASSUME Typed, NEW r \in Req, Goroutines(r)
    PROVE  Quiet
  <1>1. \A x \in Req : runner'[x].proc = runner[x].proc
    <2> USE DEF Typed, RunnerOK, GoodRunners, Runners
    <2>1. CASE Running(r)
      BY <2>1 DEF Running
    <2>2. CASE NotRunning(r)
      BY <2>2 DEF NotRunning
    <2>3. CASE TimerFires(r)
      BY <2>3 DEF TimerFires
    <2>4. CASE TimerCallback(r)
      BY <2>4 DEF TimerCallback
    <2>5. CASE SendExpired(r)
      BY <2>5 DEF SendExpired, SendAndUnlock
    <2>6. CASE Retry(r)
      BY <2>6 DEF Retry
    <2> QED
      BY <2>1, <2>2, <2>3, <2>4, <2>5, <2>6 DEF Goroutines
  <1> QED
    BY <1>1 DEF Goroutines, Running, NotRunning, TimerFires, TimerCallback, SendExpired,
                Retry, Quiet

\* So is expireRunner, which only marks a runner.
LEMMA StopQuiet ==
    ASSUME Typed, NEW s \in Stop, expireRunner(s)
    PROVE  Quiet
  <1>1. CASE ExpireLookup(s)
    BY <1>1 DEF ExpireLookup, Quiet
  <1>2. CASE ExpireRunner(s)
    <2>1. stop[s].run \in Req
      BY <1>2 DEF ExpireRunner, Typed, StopOK, GoodStops
    <2>2. \A x \in Req : runner'[x].proc = runner[x].proc
      BY <1>2, <2>1, NoProcessStarts DEF ExpireRunner, Typed, RunnerOK
    <2> QED
      BY <1>2, <2>2 DEF ExpireRunner, Quiet
  <1> QED
    BY <1>1, <1>2 DEF expireRunner

\* processCompleted closes the process of a runner when it takes it out of `loaded'.
LEMMA CompletedLoads ==
    ASSUME Typed, LoadInv, processCompleted
    PROVE  LoadInv'
  <1>0. c \in GoodCompleted /\ runner \in [Req -> GoodRunners]
    BY DEF Typed, COK, RunnerOK
  <1>1. CASE CUnload
    <2>1. c.run \in Req /\ loaded[ModelOf[c.run]] = c.run
      BY <1>0, <1>1 DEF CUnload, GoodCompleted
    <2>2. \A r \in Req : runner'[r].proc = "up" => runner[r].proc = "up" /\ r # c.run
      BY <1>0, <1>1, <2>1, NoProcessStarts DEF CUnload, Unload, GoodRunners, Runners
    <2>3. LoadedRunners \ {c.run} \subseteq LoadedRunners'
      BY <1>1, <2>1 DEF CUnload, LoadedRunners, Typed, MapsOK
    <2>4. NoLeakedProcess'
      BY <1>1, <2>2, <2>3 DEF CUnload, LoadInv, NoLeakedProcess
    <2>5. \A m \in Path : loaded'[m] \in {None, loaded[m]}
      BY <1>1 DEF CUnload, Typed, MapsOK
    <2>6. p.pc \in Loading => ModelOf[p.req] \in Path
      BY ReqAssumption DEF Typed, POK, GoodPending, Loading, Path
    <2>7. p.pc = "loading" => p.run \in Req
      BY DEF Typed, POK, GoodPending
    <2> QED
      BY <1>1, <2>2, <2>4, <2>5, <2>6, <2>7 DEF CUnload, LoadInv
  <1>2. CASE CFinish
    <2>1. c.run \in Req
      BY <1>0, <1>2 DEF CFinish, GoodCompleted
    <2> DEFINE ref == [runner[c.run] EXCEPT !.refCount = Decrement(runner[c.run].refCount)]
    <2>2. GoneIdle(ref).proc = runner[c.run].proc /\ ref.proc = runner[c.run].proc
      BY <1>0, <2>1 DEF GoneIdle, GoodRunners, Runners
    <2>3. \A r \in Req : runner'[r].proc = runner[r].proc
      BY <1>0, <1>2, <2>1, <2>2 DEF CFinish
    <2> QED
      BY <1>2, <2>3, QuietKeeps DEF CFinish, Quiet
  <1>3. CASE COrphan
    <2>1. \A r \in Req : runner'[r].proc = "up" => runner[r].proc = "up"
      BY <1>0, <1>3, NoProcessStarts DEF COrphan, GoodCompleted
    <2> QED
      BY <1>3, <2>1, QuietKeeps DEF COrphan, Quiet
  <1>4. CASE CSendExpired \/ CRetry \/ CRecovered
    <2>1. \A r \in Req : runner'[r].proc = runner[r].proc
      <3>1. CASE CSendExpired
        BY <1>0, <3>1 DEF CSendExpired, SendAndUnlock, GoodRunners, Runners
      <3>2. CASE CRetry
        BY <1>0, <3>2 DEF CRetry, GoodRunners, Runners
      <3>3. CASE CRecovered
        BY <1>0, <3>3 DEF CRecovered, GoodRunners, Runners
      <3> QED
        BY <1>4, <3>1, <3>2, <3>3
    <2> QED
      BY <1>4, <2>1, QuietKeeps DEF CSendExpired, CRetry, CRecovered, Quiet
  <1>5. CASE CRecvFinished \/ CRecvExpired \/ CDuplicate \/ CNotify \/ CExit
    BY <1>5, QuietKeeps DEF CRecvFinished, CRecvExpired, CDuplicate, CNotify, CExit, Quiet
  <1> QED
    BY <1>1, <1>2, <1>3, <1>4, <1>5 DEF processCompleted

\* processPending puts a process it starts in activeLoading, and from there in `loaded',
\* or closes it; nobody else loads its model in between.
LEMMA PendingLoads ==
    ASSUME Typed, LoadInv, processPending
    PROVE  LoadInv'
  <1>0. p \in GoodPending /\ runner \in [Req -> GoodRunners] /\ loaded \in [Path -> Opt(Req)]
    BY DEF Typed, POK, RunnerOK, MapsOK
  <1>1. CASE PSnapshot
    <2>1. LoadedRunners' = LoadedRunners
      BY <1>1 DEF PSnapshot, maps, LoadedRunners
    <2>2. p'.pc \in {"check", "find", "fit"} /\ p'.req = p.req
      BY <1>0, <1>1 DEF PSnapshot, GoodPending, Pending
    <2>3. p'.pc = "fit" => loaded[ModelOf[p.req]] = None
      BY <1>0, <1>1 DEF PSnapshot, GoodPending, Pending
    <2> QED
      BY <1>1, <2>1, <2>2, <2>3 DEF PSnapshot, maps, LoadInv, NoLeakedProcess, Loading
  <1>2. CASE NewServer
    <2>1. p.req \in Req
      BY <1>0, <1>2 DEF NewServer, GoodPending
    <2>2. p'.pc = "loading" /\ p'.run = p.req /\ p'.req = p.req
      BY <1>0, <1>2 DEF NewServer, GoodPending, Pending
    <2>3. \A r \in Req : runner'[r].proc = "up" => runner[r].proc = "up" \/ r = p.req
      BY <1>0, <1>2, <2>1 DEF NewServer, GoodRunners, Runners
    <2>4. LoadedRunners' = LoadedRunners
      BY <1>2 DEF NewServer, LoadedRunners
    <2>5. NoLeakedProcess'
      BY <1>2, <2>3, <2>4, ReqAssumption DEF NewServer, LoadInv, NoLeakedProcess
    <2> QED
      BY <1>2, <2>2, <2>5 DEF NewServer, LoadInv, Loading
  <1>3. CASE ResumeServer
    <2>1. p'.pc = "loading" /\ p'.run = activeLoading /\ p'.req = p.req
      BY <1>0, <1>3 DEF ResumeServer, GoodPending, Pending
    <2>2. LoadedRunners' = LoadedRunners
      BY <1>3 DEF ResumeServer, maps, LoadedRunners
    <2>3. NoLeakedProcess'
      BY <1>3, <2>2 DEF ResumeServer, maps, LoadInv, NoLeakedProcess
    <2> QED
      BY <1>3, <2>1, <2>3 DEF ResumeServer, maps, LoadInv, Loading
  <1>4. CASE LoadSucceeds
    <2>1. p.req \in Req /\ p.run \in Req /\ ModelOf[p.req] \in Path /\ None \notin Req
      BY <1>0, <1>4, ReqAssumption DEF LoadSucceeds, GoodPending, Path
    <2>2. loaded[ModelOf[p.req]] = None /\ activeLoading \in {None, p.run}
      BY <1>4 DEF LoadSucceeds, LoadInv, Loading
    <2>3. \A r \in Req : runner'[r].proc = runner[r].proc
      BY <1>0, <1>4, <2>1, <2>2 DEF LoadSucceeds, GoodRunners, Runners
    <2>4. LoadedRunners' = LoadedRunners \cup {p.run}
      BY <1>0, <1>4, <2>1, <2>2 DEF LoadSucceeds, LoadedRunners
    <2>5. NoLeakedProcess'
      BY <2>1, <2>2, <2>3, <2>4 DEF LoadInv, NoLeakedProcess
    <2>6. p'.pc = "idle"
      BY <1>0, <1>4 DEF LoadSucceeds, Idle, GoodPending, Pending
    <2> QED
      BY <1>0, <1>4, <2>1, <2>5, <2>6 DEF LoadSucceeds, LoadInv, Loading
  <1>5. CASE LoadFails
    <2>1. activeLoading \in Req
      BY <1>5 DEF LoadFails, Typed, MapsOK, Opt
    <2>2. \A r \in Req : runner'[r].proc = "up" => runner[r].proc = "up" /\ r # activeLoading
      BY <1>0, <1>5, <2>1 DEF LoadFails, GoodRunners, Runners
    <2>3. LoadedRunners' = LoadedRunners
      BY <1>5 DEF LoadFails, LoadedRunners
    <2>4. NoLeakedProcess'
      BY <2>2, <2>3 DEF LoadInv, NoLeakedProcess
    <2>5. p'.pc = "idle"
      BY <1>0, <1>5 DEF LoadFails, Refuse, Idle, GoodPending, Pending
    <2> QED
      BY <1>5, <2>4, <2>5 DEF LoadFails, LoadInv, Loading
  <1>6. CASE PUse
    <2>1. p.req \in Req /\ p.run \in Req /\ p'.pc = "idle"
      BY <1>0, <1>6 DEF PUse, Idle, GoodPending, Pending
    <2>2. \A r \in Req : runner'[r].proc = runner[r].proc
      BY <1>0, <1>6, <2>1, NoProcessStarts DEF PUse, useLoadedRunner
    <2> QED
      BY <1>6, <2>1, <2>2, QuietKeeps DEF PUse, Quiet, Loading
  <1>7. CASE PExpire
    <2>1. p.run \in Req /\ p'.pc \in {"send", "wait"}
      BY <1>0, <1>7 DEF PExpire, GoodPending, Pending
    <2>2. \A r \in Req : runner'[r].proc = runner[r].proc
      BY <1>0, <1>7, <2>1, NoProcessStarts DEF PExpire
    <2> QED
      BY <1>7, <2>1, <2>2, QuietKeeps DEF PExpire, Quiet, Loading
  <1>8. CASE PSendExpired
    <2>1. p'.pc = "wait"
      BY <1>0, <1>8 DEF PSendExpired, GoodPending, Pending
    <2>2. \A r \in Req : runner'[r].proc = runner[r].proc
      BY <1>0, <1>8 DEF PSendExpired, SendAndUnlock, GoodRunners, Runners
    <2> QED
      BY <1>8, <2>1, <2>2, QuietKeeps DEF PSendExpired, Quiet, Loading
  <1>9. CASE UpdateFreeSpace \/ \E r \in Req : UpdateFreeSpaceOf(r)
    <2>1. p.pc \in Loading /\ p'.pc = "space" /\ p'.req = p.req
      BY <1>0, <1>9 DEF UpdateFreeSpace, UpdateFreeSpaceOf, GoodPending, Pending, Loading
    <2> QED
      BY <1>9, <2>1, QuietKeeps DEF UpdateFreeSpace, UpdateFreeSpaceOf, Quiet
  <1>10. CASE PRecv \/ PUnloaded \/ PExit \/ PNeedsReload \/ FindRunnerToUnload
    <2>1. UNCHANGED p \/ p'.pc \in {"snap", "exit", "expire", "use", "scan"}
      BY <1>0, <1>10 DEF PRecv, PUnloaded, Again, PExit, PNeedsReload, FindRunnerToUnload,
                         GoodPending, Pending
    <2> QED
      BY <1>10, <2>1, QuietKeeps DEF PRecv, PUnloaded, PExit, PNeedsReload, FindRunnerToUnload,
                                     Quiet, Loading
  <1>11. CASE LoadModelFails \/ NewServerFails \/ LoadNeedsEviction
    <2>1. p'.pc \in {"idle", "find"}
      BY <1>0, <1>11 DEF LoadModelFails, NewServerFails, Refuse, Idle, LoadNeedsEviction,
                         GoodPending, Pending
    <2> QED
      BY <1>11, <2>1, QuietKeeps DEF LoadModelFails, NewServerFails, LoadNeedsEviction,
                                     Quiet, Loading
  <1>12. CASE PanicOtherModel \/ PanicNilActive
    BY <1>12, QuietKeeps DEF PanicOtherModel, PanicNilActive, Quiet
  <1>13. CASE \E r \in Req : Scan(r)
    <2>1. p'.pc \in {"scan", "expire"}
      BY <1>0, <1>13 DEF Scan, GoodPending, Pending
    <2> QED
      BY <1>13, <2>1, QuietKeeps DEF Scan, Quiet, Loading
  <1> QED
    BY <1>1, <1>2, <1>3, <1>4, <1>5, <1>6, <1>7, <1>8, <1>9, <1>10, <1>11, <1>12, <1>13
       DEF processPending, load

\* unloadAllRunners closes whatever `loaded' and activeLoading name.
LEMMA ShutdownLoads ==
    ASSUME Typed, LoadInv, Shutdown \/ unloadAllRunners
    PROVE  LoadInv'
  <1>1. CASE Shutdown
    BY <1>1, QuietKeeps DEF Shutdown, Quiet
  <1>2. CASE unloadAllRunners
    <2>1. \A r \in Req : runner'[r].proc = "up" => r \notin Closing /\ runner[r].proc = "up"
      BY <1>2 DEF unloadAllRunners, Typed, RunnerOK, GoodRunners, Runners
    <2>2. \A r \in Req : runner'[r].proc # "up"
      BY <2>1 DEF LoadInv, NoLeakedProcess, Closing
    <2>3. p.pc = "loading" => p.run \in Req
      BY DEF Typed, POK, GoodPending
    <2> QED
      BY <1>2, <2>2, <2>3 DEF unloadAllRunners, LoadInv, NoLeakedProcess
  <1> QED
    BY <1>1, <1>2

\* Initially no process is up and nothing is being loaded.
LEMMA LoadInvInit == Init => LoadInv
  BY ReqAssumption DEF Init, LoadInv, NoLeakedProcess, Loading

\* Every step keeps LoadInv.
LEMMA LoadInvNext == Typed /\ LoadInv /\ [Next]_vars => LoadInv'
  <1> SUFFICES ASSUME Typed, LoadInv, [Next]_vars PROVE LoadInv'
    OBVIOUS
  <1>1. CASE UNCHANGED vars
    BY <1>1, QuietKeeps DEF vars, Quiet
  <1>2. CASE Serve
    BY <1>2, HandlerQuiet, GoroutinesQuiet, StopQuiet, QuietKeeps, PendingLoads, CompletedLoads
       DEF Serve
  <1>3. CASE Shutdown \/ unloadAllRunners
    BY <1>3, ShutdownLoads
  <1> QED
    BY <1>1, <1>2, <1>3 DEF Next

\* Every runner process that is up is in `loaded' or is activeLoading, so that an
\* unload or the shutdown reaches it: loads, failed loads, loads kept over an
\* eviction, unloads and unloadAllRunners lose none.
THEOREM ProcessesAreOwned == Spec => []NoLeakedProcess
  <1>1. LoadInv => NoLeakedProcess
    BY DEF LoadInv
  <1> QED
    BY <1>1, TypedInit, TypedNext, LoadInvInit, LoadInvNext, PTL DEF Spec

\* load never finds its model still loaded, so the safeguard that would take a refMu
\* under loadedMu, against the lock order of processCompleted, is never entered.
THEOREM OneRunnerPerModel == Spec => []NeverStillLoaded
  <1>1. LoadInv => NeverStillLoaded
    BY DEF LoadInv, NeverStillLoaded, Loading
  <1> QED
    BY <1>1, TypedInit, TypedNext, LoadInvInit, LoadInvNext, PTL DEF Spec

-----------------------------------------------------------------------------
(* The limit on loaded runners.                                            *)

LimitInv ==
    /\ p.maxRunners = 0 => LoadedRunners = {}
    /\ p.pc \in Loading => Cardinality(LoadedRunners) < p.maxRunners
    /\ LoadedWithinLimit

\* The automatic limit is at least one.
LEMMA AutomaticLimit ==
    LET n == ModelsPerGPU * (IF NumGPUs > 1 THEN NumGPUs ELSE 1) IN n \in Nat /\ n > 0
  <1>1. ModelsPerGPU \in Nat /\ ModelsPerGPU > 0 /\ NumGPUs \in Nat
    BY EnvAssumption
  <1>2. \A a, b \in Nat : a > 0 /\ b > 0 => a * b \in Nat /\ a * b > 0
    OBVIOUS
  <1> QED
    BY <1>1, <1>2

\* Runners are finitely many, and adding one or taking some away counts as such.
LEMMA LoadedCount ==
    ASSUME Typed
    PROVE  /\ LoadedRunners \subseteq Req
           /\ IsFiniteSet(LoadedRunners)
           /\ Cardinality(LoadedRunners) \in Nat
           /\ \A S \in SUBSET LoadedRunners : Cardinality(S) <= Cardinality(LoadedRunners)
           /\ \A r : Cardinality(LoadedRunners \cup {r}) <= Cardinality(LoadedRunners) + 1
  <1>1. LoadedRunners \subseteq Req
    BY DEF Typed, MapsOK, LoadedRunners, Opt
  <1>2. IsFiniteSet(LoadedRunners)
    BY <1>1, ReqAssumption, FS_Subset
  <1>3. Cardinality(LoadedRunners) \in Nat
    BY <1>2, FS_CardinalityType
  <1>4. \A S \in SUBSET LoadedRunners : Cardinality(S) <= Cardinality(LoadedRunners)
    BY <1>2, FS_Subset
  <1>5. \A r : Cardinality(LoadedRunners \cup {r}) <= Cardinality(LoadedRunners) + 1
    BY <1>2, <1>3, FS_AddElement
  <1> QED
    BY <1>1, <1>2, <1>3, <1>4, <1>5

\* A step that neither loads, nor looks at the limit.
LEMMA LimitFrame ==
    ASSUME Typed, LimitInv, LoadedRunners' \subseteq LoadedRunners,
           p'.maxRunners = p.maxRunners,
           p'.pc \notin Loading \/ p.pc \in Loading
    PROVE  LimitInv'
  <1>1. /\ Cardinality(LoadedRunners') \in Nat
        /\ Cardinality(LoadedRunners') <= Cardinality(LoadedRunners)
        /\ Cardinality(LoadedRunners) \in Nat
    <2>1. IsFiniteSet(LoadedRunners')
      BY LoadedCount, FS_Subset
    <2> QED
      BY <2>1, LoadedCount, FS_CardinalityType
  <1>2. p.maxRunners \in Nat
    BY DEF Typed, POK, GoodPending, Pending
  <1> QED
    BY <1>1, <1>2 DEF LimitInv, LoadedWithinLimit

\* processPending compares the count with the limit before it loads, and the count
\* has not grown when the load ends.
LEMMA PendingLimit ==
    ASSUME Typed, LoadInv, LimitInv, processPending
    PROVE  LimitInv'
  <1>0. p \in GoodPending /\ p.maxRunners \in Nat
    BY DEF Typed, POK, GoodPending, Pending
  <1>1. CASE PSnapshot
    <2>1. LoadedRunners' = LoadedRunners
      BY <1>1 DEF PSnapshot, maps, LoadedRunners
    <2>2. CASE loaded[ModelOf[p.req]] # None \/ AtLimit(Cardinality(LoadedRunners))
      <3>1. p'.pc \in {"check", "find"} /\ p'.maxRunners = p.maxRunners
        BY <1>0, <1>1, <2>2 DEF PSnapshot, GoodPending, Pending
      <3> QED
        BY <2>1, <3>1, LimitFrame DEF Loading
    <2>3. CASE ~(loaded[ModelOf[p.req]] # None \/ AtLimit(Cardinality(LoadedRunners)))
      <3> DEFINE n == ModelsPerGPU * (IF NumGPUs > 1 THEN NumGPUs ELSE 1)
      <3>1. p' = [p EXCEPT !.pc = "fit", !.first = (Cardinality(LoadedRunners) = 0),
                           !.maxRunners = IF p.maxRunners > 0 THEN p.maxRunners ELSE n]
        BY <1>1, <2>3 DEF PSnapshot
      <3>2. p'.pc = "fit" /\ p'.maxRunners = IF p.maxRunners > 0 THEN p.maxRunners ELSE n
        BY <1>0, <3>1 DEF GoodPending, Pending
      <3>3. p'.maxRunners \in Nat /\ Cardinality(LoadedRunners) < p'.maxRunners
        <4>1. CASE p.maxRunners > 0
          BY <1>0, <2>3, <3>2, <4>1, LoadedCount DEF AtLimit
        <4>2. CASE p.maxRunners = 0
          <5>1. LoadedRunners = {} /\ Cardinality({}) = 0
            BY <4>2, FS_EmptySet DEF LimitInv
          <5> HIDE DEF n
          <5>2. n \in Nat /\ n > 0
            BY AutomaticLimit DEF n
          <5> QED
            BY <3>2, <4>2, <5>1, <5>2
        <4> QED
          BY <1>0, <4>1, <4>2
      <3> QED
        BY <2>1, <3>3, LoadedCount DEF LimitInv, LoadedWithinLimit
    <2> QED
      BY <2>2, <2>3
  <1>2. CASE LoadSucceeds
    <2>1. p.req \in Req /\ p.run \in Req /\ ModelOf[p.req] \in Path /\ p.pc \in Loading
      BY <1>0, <1>2, ReqAssumption DEF LoadSucceeds, GoodPending, Path, Loading
    <2>2. p'.pc = "idle" /\ p'.maxRunners = p.maxRunners
      BY <1>0, <1>2 DEF LoadSucceeds, Idle, GoodPending, Pending
    <2>3. LoadedRunners' \subseteq LoadedRunners \cup {p.run}
      BY <1>2, <2>1 DEF LoadSucceeds, LoadedRunners, Typed, MapsOK
    <2>4. /\ Cardinality(LoadedRunners') \in Nat
          /\ Cardinality(LoadedRunners') <= Cardinality(LoadedRunners) + 1
      <3>1. IsFiniteSet(LoadedRunners \cup {p.run})
        BY LoadedCount, FS_AddElement
      <3>2. /\ IsFiniteSet(LoadedRunners')
            /\ Cardinality(LoadedRunners') <= Cardinality(LoadedRunners \cup {p.run})
        BY <2>3, <3>1, FS_Subset
      <3>3. Cardinality(LoadedRunners') \in Nat /\ Cardinality(LoadedRunners \cup {p.run}) \in Nat
        BY <3>1, <3>2, FS_CardinalityType
      <3>4. Cardinality(LoadedRunners \cup {p.run}) <= Cardinality(LoadedRunners) + 1
        BY LoadedCount
      <3> QED
        BY <3>2, <3>3, <3>4, LoadedCount
    <2> QED
      BY <1>0, <2>1, <2>2, <2>4, LoadedCount DEF LimitInv, LoadedWithinLimit, Loading
  <1>3. ASSUME LoadedRunners' = LoadedRunners, p' = p \/ p'.maxRunners = p.maxRunners,
               p' = p \/ p'.pc \notin Loading \/ p.pc \in Loading
        PROVE  LimitInv'
    BY <1>3, LimitFrame
  <1>4. CASE PRecv \/ PUnloaded \/ PExit \/ PNeedsReload \/ FindRunnerToUnload
    <2>1. p' = p \/ /\ p'.maxRunners = p.maxRunners
                    /\ p'.pc \in {"snap", "exit", "expire", "use", "scan"}
      BY <1>0, <1>4 DEF PRecv, PUnloaded, Again, PExit, PNeedsReload, FindRunnerToUnload,
                        GoodPending, Pending
    <2>2. LoadedRunners' = LoadedRunners
      BY <1>4 DEF PRecv, PUnloaded, PExit, PNeedsReload, FindRunnerToUnload, maps, LoadedRunners
    <2> QED
      BY <1>3, <2>1, <2>2 DEF Loading
  <1>5. CASE PUse \/ LoadModelFails \/ NewServerFails \/ LoadFails
    <2>1. p'.maxRunners = p.maxRunners /\ p'.pc = "idle"
      BY <1>0, <1>5 DEF PUse, LoadModelFails, NewServerFails, LoadFails, Refuse, Idle,
                        GoodPending, Pending
    <2>2. LoadedRunners' = LoadedRunners
      BY <1>5 DEF PUse, LoadModelFails, NewServerFails, LoadFails, maps, LoadedRunners
    <2> QED
      BY <1>3, <2>1, <2>2 DEF Loading
  <1>6. CASE UpdateFreeSpace \/ NewServer \/ ResumeServer
    <2>1. p'.maxRunners = p.maxRunners /\ p.pc \in Loading
      BY <1>0, <1>6 DEF UpdateFreeSpace, NewServer, ResumeServer, GoodPending, Pending, Loading
    <2>2. LoadedRunners' = LoadedRunners
      BY <1>6 DEF UpdateFreeSpace, NewServer, ResumeServer, maps, LoadedRunners
    <2> QED
      BY <1>3, <2>1, <2>2
  <1>7. CASE PanicOtherModel \/ PanicNilActive \/ LoadNeedsEviction
    <2>1. p' = p \/ (p'.maxRunners = p.maxRunners /\ p'.pc = "find")
      BY <1>0, <1>7 DEF PanicOtherModel, PanicNilActive, LoadNeedsEviction, GoodPending, Pending
    <2>2. LoadedRunners' = LoadedRunners
      BY <1>7 DEF PanicOtherModel, PanicNilActive, LoadNeedsEviction, maps, LoadedRunners
    <2> QED
      BY <1>3, <2>1, <2>2 DEF Loading
  <1>8. CASE PExpire \/ PSendExpired
    <2>1. p'.maxRunners = p.maxRunners /\ p'.pc \in {"send", "wait"}
      BY <1>0, <1>8 DEF PExpire, PSendExpired, GoodPending, Pending
    <2>2. LoadedRunners' = LoadedRunners
      BY <1>8 DEF PExpire, PSendExpired, maps, LoadedRunners
    <2> QED
      BY <1>3, <2>1, <2>2 DEF Loading
  <1>9. ASSUME NEW r \in Req, UpdateFreeSpaceOf(r) \/ Scan(r) PROVE LimitInv'
    <2>1. /\ p'.maxRunners = p.maxRunners
          /\ p.pc \in Loading \/ p'.pc \in {"scan", "expire"}
      BY <1>0, <1>9 DEF UpdateFreeSpaceOf, Scan, GoodPending, Pending, Loading
    <2>2. LoadedRunners' = LoadedRunners
      BY <1>9 DEF UpdateFreeSpaceOf, Scan, maps, LoadedRunners
    <2> QED
      BY <1>3, <2>1, <2>2 DEF Loading
  <1> QED
    BY <1>1, <1>2, <1>4, <1>5, <1>6, <1>7, <1>8, <1>9 DEF processPending, load

\* Only processPending adds a runner or changes its own locals.
LEMMA OthersLimit ==
    ASSUME Typed, LimitInv, UNCHANGED p, UNCHANGED loaded \/ CUnload
    PROVE  LimitInv'
  <1>1. LoadedRunners' \subseteq LoadedRunners
    BY DEF CUnload, LoadedRunners, Typed, MapsOK
  <1> QED
    BY <1>1, LimitFrame

\* Every step keeps LimitInv.
LEMMA LimitInvNext == Typed /\ LoadInv /\ LimitInv /\ [Next]_vars => LimitInv'
  <1> SUFFICES ASSUME Typed, LoadInv, LimitInv, [Next]_vars PROVE LimitInv'
    OBVIOUS
  <1>1. CASE UNCHANGED vars
    BY <1>1, OthersLimit DEF vars, maps
  <1>2. CASE processPending
    BY <1>2, PendingLimit
  <1>3. CASE processCompleted
    BY <1>3, OthersLimit
       DEF processCompleted, CRecvFinished, CFinish, CSendExpired, CRecvExpired, CRetry,
           CDuplicate, COrphan, CUnload, CRecovered, CNotify, CExit, maps
  <1>4. ASSUME NEW q \in Req, Handler(q) \/ Client(q) \/ Goroutines(q) PROVE LimitInv'
    <2>1. Handler(q) \/ Client(q) => UNCHANGED p /\ UNCHANGED loaded
      BY DEF Handler, Client, Lookup, NeedsReload, Use, Enqueue, Busy, Complete, Cancel,
             SendFinished, maps
    <2>2. Goroutines(q) => UNCHANGED p /\ UNCHANGED loaded
      BY DEF Goroutines, Running, NotRunning, TimerFires, TimerCallback, SendExpired, Retry, maps
    <2> QED
      BY <1>4, <2>1, <2>2, OthersLimit
  <1>5. ASSUME NEW s \in Stop, expireRunner(s) PROVE LimitInv'
    BY <1>5, OthersLimit DEF expireRunner, ExpireLookup, ExpireRunner, maps
  <1>6. CASE Shutdown \/ unloadAllRunners
    BY <1>6, OthersLimit DEF Shutdown, unloadAllRunners, maps
  <1> QED
    BY <1>1, <1>2, <1>3, <1>4, <1>5, <1>6 DEF Next, Serve

\* Initially nothing is loaded.
LEMMA LimitInvInit == Init => LimitInv
  <1> SUFFICES ASSUME Init PROVE LimitInv
    OBVIOUS
  <1>1. LoadedRunners = {} /\ Cardinality({}) = 0
    BY FS_EmptySet DEF Init, LoadedRunners
  <1> QED
    BY <1>1, EnvAssumption DEF Init, LimitInv, LoadedWithinLimit, Loading

\* There are never more runners than OLLAMA_MAX_LOADED_MODELS allows, or, where it is
\* not set, than the automatic limit of the first load.
THEOREM LimitKept == Spec => []LoadedWithinLimit
  <1>1. LimitInv => LoadedWithinLimit
    BY DEF LimitInv
  <1> QED
    BY <1>1, TypedInit, TypedNext, LoadInvInit, LoadInvNext, LimitInvInit, LimitInvNext, PTL
       DEF Spec

-----------------------------------------------------------------------------
(* Who owes request q its answer: its handler, processPending (from its    *)
(* queue or its hands), or the goroutine that waits for its runner.        *)

InQueue(q) == \E i \in 1 .. Len(pendingReqCh) : pendingReqCh[i] = q
AwaitsRunner(q) == \E r \in Req : runner[r].refMu = "load" /\ runner[r].loader = q

\* The request has not got as far as a runner of its own.
Early(q) == req[q].pc # "wait" \/ InQueue(q)

\* At most one party owes a request its answer, and only while it has none.
Exclusive ==
    \A q \in Req :
        /\ req[q].pc # "wait" \/ InQueue(q) \/ p.req = q \/ AwaitsRunner(q)
            => req[q].answer = "none"
        /\ req[q].pc # "wait" => ~InQueue(q)
        /\ Early(q) => p.req # q
        /\ Early(q) \/ p.req = q => ~AwaitsRunner(q)

\* A request is queued once, and waits for one runner.
Once ==
    /\ \A i, j \in 1 .. Len(pendingReqCh) : pendingReqCh[i] = pendingReqCh[j] => i = j
    /\ \A r1, r2 \in Req :
        /\ runner[r1].refMu = "load" /\ runner[r2].refMu = "load"
        /\ runner[r1].loader = runner[r2].loader
        => r1 = r2

\* The runners that were loaded once; only these are in `loaded', in an event or in
\* somebody's locals.
Known == {r \in Req : runner[r].loader # None}

\* A request makes its server last, and a server is loaded once.
Fresh ==
    /\ \A r \in Known : ~Early(r) /\ p.req # r
    /\ activeLoading # None => ~Early(activeLoading) /\ activeLoading \notin Known
    /\ p.pc = "loading" => ~Early(p.run) /\ p.run \notin Known
    /\ p.pc = "idle" => p.req = None

AnswerInv == Exclusive /\ Once /\ Fresh /\ AnsweredOnce /\ NoLostRequest

-----------------------------------------------------------------------------
(* Who refers to which runner, and who holds its refMu.                    *)

KnownReq == \A q \in Req : req[q].run \in Opt(Known)
KnownLoaded == \A m \in Path : loaded[m] \in Opt(Known)
KnownExpired == \A i \in 1 .. Len(expiredCh) : expiredCh[i] \in Known
KnownC == c.run \in Opt(Known)
KnownStop == \A s \in Stop : stop[s].run \in Opt(Known)
KnownP == /\ p.pc \in {"check", "use", "expire", "send"} => p.run \in Known
          /\ p.scan \subseteq Known /\ p.head \in Opt(Known)
UnknownUntouched ==
    \A r \in Req \ Known : /\ runner[r].refMu = "free"
                           /\ runner[r].callbacks = 0 /\ runner[r].retries = 0
                           /\ runner[r].timer = "nil"

KnownInv == KnownReq /\ KnownLoaded /\ KnownExpired /\ KnownC /\ KnownStop /\ KnownP
            /\ UnknownUntouched

\* Each loop holds the refMu it is about to release.
MutexInv ==
    /\ c.pc = "send" => runner[c.run].refMu = "completed"
    /\ c.pc = "vram" => runner[c.run].refMu = "vram"
    /\ p.pc = "send" => runner[p.run].refMu = "pending"

-----------------------------------------------------------------------------
(* The three kinds of steps: no duty changes, a duty is discharged, a duty *)
(* passes on.                                                              *)

\* The server processPending loads is the one it loaded before, or s.activeLoading.
SameServer ==
    p'.pc = "loading" => \/ p.pc = "loading" /\ p'.run = p.run
                         \/ activeLoading # None /\ p'.run = activeLoading

Kept ==
    /\ \A q \in Req : /\ req'[q].pc = "wait" <=> req[q].pc = "wait"
                      /\ req'[q].answer = req[q].answer /\ req'[q].held = req[q].held
                      /\ req'[q].ctx = "live" => req[q].ctx = "live"
    /\ UNCHANGED pendingReqCh
    /\ p'.req = p.req /\ (p'.pc = "idle" => p.pc = "idle") /\ SameServer
    /\ \A r \in Req : /\ runner'[r].refMu = "load" <=> runner[r].refMu = "load"
                      /\ runner'[r].loader = runner[r].loader
    /\ activeLoading' \in {activeLoading, None}

\* NoLostRequest, in the words of this module.
LEMMA LostMeans ==
    NoLostRequest <=> \A q \in Req :
        req[q].pc = "wait" /\ req[q].answer = "none" /\ req[q].ctx = "live" =>
            InQueue(q) \/ p.req = q \/ AwaitsRunner(q)
  BY DEF NoLostRequest, InQueue, AwaitsRunner

\* A step that answers nothing, and takes no request out of anybody's hands, keeps AnswerInv.
LEMMA KeptKeeps ==
    ASSUME Typed, AnswerInv, Kept
    PROVE  AnswerInv'
  <1>1. \A q \in Req : (InQueue(q)' <=> InQueue(q)) /\ (AwaitsRunner(q)' <=> AwaitsRunner(q))
    BY DEF Kept, InQueue, AwaitsRunner
  <1>2. \A q \in Req : Early(q)' <=> Early(q)
    BY <1>1 DEF Kept, Early
  <1>3. Exclusive'
    BY <1>1, <1>2 DEF AnswerInv, Exclusive, Kept
  <1>4. Once'
    BY DEF AnswerInv, Once, Kept
  <1>5. Fresh'
    <2>1. Known' = Known
      BY DEF Kept, Known
    <2>2. (p.pc = "loading" => ~Early(p.run) /\ p.run \notin Known)'
      <3> SUFFICES ASSUME p'.pc = "loading" PROVE (~Early(p.run) /\ p.run \notin Known)'
        OBVIOUS
      <3>1. PICK x \in Req : p'.run = x /\ ~Early(x) /\ x \notin Known
        BY DEF AnswerInv, Fresh, Kept, SameServer, Typed, MapsOK, POK, GoodPending, Opt
      <3>2. ~Early(x)' /\ x \notin Known'
        BY <1>2, <2>1, <3>1
      <3> QED
        BY <3>1, <3>2
    <2> QED
      BY <1>2, <2>1, <2>2 DEF AnswerInv, Fresh, Kept, Typed, MapsOK, Opt, Known
  <1>6. AnsweredOnce'
    BY DEF AnswerInv, AnsweredOnce, Kept
  <1>7. NoLostRequest'
    <2>1. \A q \in Req :
            req'[q].pc = "wait" /\ req'[q].answer = "none" /\ req'[q].ctx = "live" =>
                InQueue(q)' \/ p'.req = q \/ AwaitsRunner(q)'
      BY <1>1, LostMeans DEF AnswerInv, Kept
    <2> QED
      BY <2>1 DEF NoLostRequest, InQueue, AwaitsRunner
  <1> QED
    BY <1>3, <1>4, <1>5, <1>6, <1>7 DEF AnswerInv

\* Request q, whose answer was owed by one party, gets it.
Discharged(q) ==
    /\ req'[q].pc = "wait" /\ req'[q].answer \in {"ok", "err", "busy"}
    /\ req'[q].held # None <=> req'[q].answer = "ok"
    /\ \A x \in Req \ {q} : req'[x] = req[x]
    /\ UNCHANGED pendingReqCh /\ ~InQueue(q)
    /\ p'.req \in {p.req, None} /\ p'.req # q /\ (p.req # q => p'.req = p.req)
    /\ p'.pc = "idle" => p'.req = None
    /\ SameServer
    /\ \A r \in Req :
        /\ runner'[r].loader = runner[r].loader
        /\ runner'[r].refMu = "load" <=> runner[r].refMu = "load" /\ runner[r].loader # q
    /\ activeLoading' \in {activeLoading, None}

\* So does a step that answers one request and relieves the party that owed the answer.
LEMMA DischargedKeeps ==
    ASSUME Typed, AnswerInv, NEW q \in Req, Discharged(q)
    PROVE  AnswerInv'
  <1> USE ReqAssumption
  <1>1. \A x \in Req : InQueue(x)' <=> InQueue(x)
    BY DEF Discharged, InQueue
  <1>2. \A x \in Req : (AwaitsRunner(x)' => AwaitsRunner(x)) /\ (x # q /\ AwaitsRunner(x) => AwaitsRunner(x)')
    BY DEF Discharged, AwaitsRunner
  <1>3. ~AwaitsRunner(q)' /\ ~InQueue(q)' /\ ~Early(q)'
    BY <1>1 DEF Discharged, AwaitsRunner, Early
  <1>4. \A x \in Req \ {q} : Early(x)' <=> Early(x)
    BY <1>1 DEF Discharged, Early
  <1>5. Exclusive'
    BY <1>1, <1>2, <1>3, <1>4 DEF AnswerInv, Exclusive, Discharged
  <1>6. Once'
    <2>1. \A i, j \in 1 .. Len(pendingReqCh') : pendingReqCh'[i] = pendingReqCh'[j] => i = j
      BY DEF AnswerInv, Once, Discharged
    <2>2. ASSUME NEW r1 \in Req, NEW r2 \in Req,
                 runner'[r1].refMu = "load", runner'[r2].refMu = "load",
                 runner'[r1].loader = runner'[r2].loader
          PROVE  r1 = r2
      <3>1. /\ runner[r1].refMu = "load" /\ runner[r2].refMu = "load"
            /\ runner[r1].loader = runner[r2].loader
        BY <2>2 DEF Discharged
      <3> QED
        BY <3>1 DEF AnswerInv, Once
    <2> QED
      BY <2>1, <2>2 DEF Once
  <1>7. Fresh'
    <2>1. Known' = Known
      BY DEF Discharged, Known
    <2>2. (p.pc = "loading" => ~Early(p.run) /\ p.run \notin Known)'
      <3> SUFFICES ASSUME p'.pc = "loading" PROVE (~Early(p.run) /\ p.run \notin Known)'
        OBVIOUS
      <3>1. PICK x \in Req : p'.run = x /\ ~Early(x) /\ x \notin Known
        BY DEF AnswerInv, Fresh, Discharged, SameServer, Typed, MapsOK, POK, GoodPending, Opt
      <3>2. ~Early(x)' /\ x \notin Known'
        BY <1>3, <1>4, <2>1, <3>1
      <3> QED
        BY <3>1, <3>2
    <2> QED
      BY <1>3, <1>4, <2>1, <2>2 DEF AnswerInv, Fresh, Discharged, Typed, MapsOK, Opt, Known
  <1>8. AnsweredOnce'
    BY DEF AnswerInv, AnsweredOnce, Discharged
  <1>9. NoLostRequest'
    <2>1. \A x \in Req :
            req'[x].pc = "wait" /\ req'[x].answer = "none" /\ req'[x].ctx = "live" =>
                InQueue(x)' \/ p'.req = x \/ AwaitsRunner(x)'
      BY <1>1, <1>2, LostMeans DEF AnswerInv, Discharged
    <2> QED
      BY <2>1 DEF NoLostRequest, InQueue, AwaitsRunner
  <1> QED
    BY <1>5, <1>6, <1>7, <1>8, <1>9 DEF AnswerInv


-----------------------------------------------------------------------------
(* The steps that answer a request.                                        *)

\* An answer to a request that had none is its only one; a grant comes with its runner.
LEMMA AnswerOf ==
    ASSUME NEW rq \in GoodRequests, rq.answer = "none"
    PROVE  /\ \A a \in {"ok", "err", "busy"} :
                /\ Answered(rq, a).answer = a /\ Answered(rq, a).held = rq.held
                /\ Answered(rq, a).pc = rq.pc
           /\ \A r \in Req : /\ Granted(rq, r).answer = "ok" /\ Granted(rq, r).held = r
                             /\ Granted(rq, r).pc = "wait"
           /\ LET b == [Answered(rq, "busy") EXCEPT !.pc = "wait", !.run = None] IN
                b.answer = "busy" /\ b.held = rq.held /\ b.pc = "wait"
  <1>1. \A a \in {"ok", "err", "busy"} :
            /\ Answered(rq, a) \in GoodRequests
            /\ Answered(rq, a).answer = a /\ Answered(rq, a).held = rq.held
            /\ Answered(rq, a).pc = rq.pc
    <2> SUFFICES ASSUME NEW a \in {"ok", "err", "busy"}
                 PROVE  /\ Answered(rq, a) \in GoodRequests
                        /\ Answered(rq, a).answer = a /\ Answered(rq, a).held = rq.held
                        /\ Answered(rq, a).pc = rq.pc
      BY ZenonT(60)
    <2>1. Answered(rq, a) \in GoodRequests
      BY RequestTypes
    <2>2. Answered(rq, a) = [rq EXCEPT !.answer = a]
      BY DEF Answered
    <2> QED
      BY <2>1, <2>2 DEF GoodRequests, Requests
  <1>2. \A x \in GoodRequests, r \in Req :
            LET y == [x EXCEPT !.held = r, !.watch = "armed", !.pc = "wait", !.run = None] IN
            y.answer = x.answer /\ y.held = r /\ y.pc = "wait"
    BY DEF GoodRequests, Requests
  <1>3. \A x \in GoodRequests :
            LET y == [x EXCEPT !.pc = "wait", !.run = None] IN
            y.answer = x.answer /\ y.held = x.held /\ y.pc = "wait"
    BY DEF GoodRequests, Requests
  <1> QED
    BY <1>1, <1>2, <1>3 DEF Granted

\* A handler, or processPending, that gives a request a loaded runner.
LEMMA UseDischarges ==
    ASSUME Typed, AnswerInv, NEW q \in Req, NEW r \in Req,
           req[q].answer = "none", ~InQueue(q), ~AwaitsRunner(q),
           useLoadedRunner(q, r), UNCHANGED chans, UNCHANGED maps,
           \/ UNCHANGED p /\ p.req # q
           \/ p' = Idle /\ p.req = q
    PROVE  Discharged(q)
  <1>0. req \in [Req -> GoodRequests] /\ runner \in [Req -> GoodRunners] /\ p \in GoodPending
    BY DEF Typed, ReqOK, RunnerOK, POK
  <1>1. req' = [req EXCEPT ![q] = Granted(req[q], r)]
    BY DEF useLoadedRunner
  <1>2. /\ req'[q].pc = "wait" /\ req'[q].answer = "ok" /\ req'[q].held = r
        /\ \A x \in Req \ {q} : req'[x] = req[x]
    BY <1>0, <1>1, AnswerOf
  <1>3. \A x \in Req : runner'[x].refMu = runner[x].refMu /\ runner'[x].loader = runner[x].loader
    <2>1. Taken(runner[r], q).refMu = runner[r].refMu /\ Taken(runner[r], q).loader = runner[r].loader
      BY <1>0 DEF Taken, GoodRunners, Runners
    <2> QED
      BY <1>0, <2>1 DEF useLoadedRunner
  <1>4. p'.req \in {p.req, None} /\ p'.req # q /\ (p.req # q => p'.req = p.req)
        /\ (p'.pc = "idle" => p'.req = None) /\ SameServer
    BY <1>0, ReqAssumption DEF Idle, GoodPending, Pending, AnswerInv, Fresh, SameServer
  <1> QED
    BY <1>2, <1>3, <1>4, ReqAssumption DEF Discharged, chans, maps, AwaitsRunner

\* An answer that is an error, given by processPending.
LEMMA RefuseDischarges ==
    ASSUME Typed, AnswerInv, p.req \in Req, Refuse, UNCHANGED chans,
           \A x \in Req : runner'[x].refMu = runner[x].refMu /\ runner'[x].loader = runner[x].loader,
           activeLoading' \in {activeLoading, None}
    PROVE  Discharged(p.req)
  <1>0. req \in [Req -> GoodRequests] /\ p \in GoodPending
    BY DEF Typed, ReqOK, POK
  <1>1. req[p.req].answer = "none" /\ req[p.req].pc = "wait" /\ req[p.req].held = None
        /\ ~InQueue(p.req) /\ ~AwaitsRunner(p.req)
    BY <1>0 DEF AnswerInv, Exclusive, Early, AnsweredOnce, GoodRequests, Requests
  <1>2. req' = [req EXCEPT ![p.req] = Answered(req[p.req], "err")]
    BY DEF Refuse, Refused
  <1>3. /\ req'[p.req].pc = "wait" /\ req'[p.req].answer = "err" /\ req'[p.req].held = None
        /\ \A x \in Req \ {p.req} : req'[x] = req[x]
    BY <1>0, <1>1, <1>2, AnswerOf
  <1>4. p'.req = None /\ p'.pc = "idle" /\ SameServer
    BY <1>0 DEF Refuse, Idle, GoodPending, Pending, SameServer
  <1> QED
    BY <1>1, <1>3, <1>4, ReqAssumption DEF Discharged, chans, AwaitsRunner

\* GetRunner: the handler answers the request, or hands it to processPending.
LEMMA HandlerAnswers ==
    ASSUME Typed, AnswerInv, NEW q \in Req, Handler(q)
    PROVE  AnswerInv'
  <1>0. req \in [Req -> GoodRequests] /\ pendingReqCh \in Seq(Req) /\ p \in GoodPending
    BY DEF Typed, ReqOK, ChansOK, POK
  <1>1. /\ req[q].pc # "wait" /\ req[q].answer = "none" /\ req[q].held = None
        /\ ~InQueue(q) /\ p.req # q /\ ~AwaitsRunner(q)
    <2>1. req[q].pc # "wait"
      BY DEF Handler, Lookup, NeedsReload, Use, Enqueue, Busy
    <2> QED
      BY <1>0, <2>1 DEF AnswerInv, Exclusive, Early, AnsweredOnce, GoodRequests, Requests
  <1>2. CASE Lookup(q)
    <2>1. /\ req'[q].pc \in {"enqueue", "check"} /\ req'[q].answer = req[q].answer
          /\ req'[q].held = req[q].held /\ req'[q].ctx = req[q].ctx
          /\ \A x \in Req \ {q} : req'[x] = req[x]
      BY <1>0, <1>2 DEF Lookup, GoodRequests, Requests
    <2> QED
      BY <1>1, <1>2, <2>1, KeptKeeps DEF Lookup, Kept, SameServer, chans, maps
  <1>3. CASE NeedsReload(q)
    <2>1. /\ req'[q].pc \in {"enqueue", "use"} /\ req'[q].answer = req[q].answer
          /\ req'[q].held = req[q].held /\ req'[q].ctx = req[q].ctx
          /\ \A x \in Req \ {q} : req'[x] = req[x]
      BY <1>0, <1>3 DEF NeedsReload, GoodRequests, Requests
    <2> QED
      BY <1>1, <1>3, <2>1, KeptKeeps DEF NeedsReload, Kept, SameServer, chans, maps
  <1>4. CASE Use(q)
    <2>1. req[q].run \in Req
      BY <1>0, <1>4 DEF Use, GoodRequests
    <2>2. Discharged(q)
      BY <1>1, <1>4, <2>1, UseDischarges DEF Use
    <2> QED
      BY <2>2, DischargedKeeps
  <1>5. CASE Busy(q)
    <2>1. /\ req'[q].pc = "wait" /\ req'[q].answer = "busy" /\ req'[q].held = None
          /\ \A x \in Req \ {q} : req'[x] = req[x]
      BY <1>0, <1>1, <1>5, AnswerOf DEF Busy
    <2>2. Discharged(q)
      BY <1>1, <1>5, <2>1 DEF Busy, Discharged, SameServer, chans, maps, AwaitsRunner, AnswerInv, Fresh
    <2> QED
      BY <2>2, DischargedKeeps
  <1>6. CASE Enqueue(q)
    <2>1. /\ req'[q].pc = "wait" /\ req'[q].answer = "none" /\ req'[q].held = None
          /\ \A x \in Req \ {q} : req'[x] = req[x]
      BY <1>0, <1>1, <1>6 DEF Enqueue, GoodRequests, Requests
    <2>2. /\ Len(pendingReqCh') = Len(pendingReqCh) + 1
          /\ \A i \in 1 .. Len(pendingReqCh) : pendingReqCh'[i] = pendingReqCh[i]
          /\ pendingReqCh'[Len(pendingReqCh) + 1] = q
          /\ Len(pendingReqCh) \in Nat
      BY <1>0, <1>6 DEF Enqueue
    <2>3. \A x \in Req : InQueue(x)' <=> InQueue(x) \/ x = q
      BY <2>2 DEF InQueue
    <2>4. \A x \in Req : AwaitsRunner(x)' <=> AwaitsRunner(x)
      BY <1>6 DEF Enqueue, AwaitsRunner
    <2>5. \A x \in Req : Early(x)' <=> Early(x)
      BY <1>1, <2>1, <2>3 DEF Early
    <2>6. Exclusive'
      BY <1>1, <1>6, <2>1, <2>3, <2>4, <2>5 DEF Exclusive, AnswerInv, Enqueue
    <2>7. Once'
      <3>1. \A i \in 1 .. Len(pendingReqCh) : pendingReqCh[i] # q
        BY <1>1 DEF InQueue
      <3>2. \A i, j \in 1 .. Len(pendingReqCh') : pendingReqCh'[i] = pendingReqCh'[j] => i = j
        BY <2>2, <3>1 DEF AnswerInv, Once
      <3> QED
        BY <1>6, <3>2 DEF AnswerInv, Once, Enqueue
    <2>8. Fresh'
      <3>1. Known' = Known
        BY <1>6 DEF Enqueue, Known
      <3> QED
        BY <1>6, <2>5, <3>1
           DEF AnswerInv, Fresh, Enqueue, maps, Typed, MapsOK, POK, GoodPending, Opt, Known
    <2>9. AnsweredOnce'
      BY <2>1 DEF AnswerInv, AnsweredOnce
    <2>10. NoLostRequest'
      <3>1. \A x \in Req :
              req'[x].pc = "wait" /\ req'[x].answer = "none" /\ req'[x].ctx = "live" =>
                  InQueue(x)' \/ p'.req = x \/ AwaitsRunner(x)'
        BY <1>6, <2>1, <2>3, <2>4, LostMeans DEF AnswerInv, Enqueue
      <3> QED
        BY <3>1 DEF NoLostRequest, InQueue, AwaitsRunner
    <2> QED
      BY <2>6, <2>7, <2>8, <2>9, <2>10 DEF AnswerInv
  <1> QED
    BY <1>2, <1>3, <1>4, <1>5, <1>6 DEF Handler

\* The client's steps answer nothing.
LEMMA ClientAnswers ==
    ASSUME Typed, AnswerInv, NEW q \in Req, Client(q)
    PROVE  AnswerInv'
  <1>0. req \in [Req -> GoodRequests]
    BY DEF Typed, ReqOK
  <1>1. \A x \in Req : /\ req'[x].pc = req[x].pc /\ req'[x].answer = req[x].answer
                       /\ req'[x].held = req[x].held
                       /\ req'[x].ctx = "live" => req[x].ctx = "live"
    BY <1>0 DEF Client, Complete, Cancel, SendFinished, GoodRequests, Requests
  <1> QED
    BY <1>1, KeptKeeps DEF Client, Complete, Cancel, SendFinished, Kept, SameServer, chans, maps

\* A step that keeps the requests, the queue and the locals of processPending, and
\* leaves alone the runners that are coming up.
LEMMA RunnersKept ==
    ASSUME Typed, AnswerInv, UNCHANGED <<req, pendingReqCh, p, activeLoading>>,
           \A r \in Req : /\ runner'[r].refMu = "load" <=> runner[r].refMu = "load"
                          /\ runner'[r].loader = runner[r].loader
    PROVE  AnswerInv'
  BY KeptKeeps DEF Kept, SameServer

\* The goroutine that waits for a runner answers; timers and retries do not.
LEMMA GoroutinesAnswers ==
    ASSUME Typed, AnswerInv, NEW r \in Req, Goroutines(r)
    PROVE  AnswerInv'
  <1>0. /\ req \in [Req -> GoodRequests] /\ runner \in [Req -> GoodRunners]
        /\ runner[r] \in GoodRunners /\ p \in GoodPending
    BY DEF Typed, ReqOK, RunnerOK, POK
  <1>1. CASE Running(r) \/ NotRunning(r)
    <2> DEFINE q == runner[r].loader
    <2>1. runner[r].refMu = "load" /\ q \in Req
      BY <1>0, <1>1 DEF Running, NotRunning, GoodRunners
    <2>2. AwaitsRunner(q)
      BY <2>1 DEF AwaitsRunner
    <2> HIDE DEF q
    <2>3. /\ req[q].answer = "none" /\ req[q].pc = "wait" /\ req[q].held = None
          /\ ~InQueue(q) /\ p.req # q
      BY <1>0, <2>1, <2>2 DEF AnswerInv, Exclusive, Early, AnsweredOnce, GoodRequests, Requests
    <2>4. /\ req'[q].pc = "wait" /\ req'[q].answer \in {"ok", "err"}
          /\ req'[q].held # None <=> req'[q].answer = "ok"
          /\ \A x \in Req \ {q} : req'[x] = req[x]
      <3>1. CASE Running(r)
        <4>1. req' = [req EXCEPT ![q] = Granted(req[q], r)]
          BY <3>1 DEF Running, q
        <4> QED
          BY <1>0, <2>1, <2>3, <4>1, AnswerOf, ReqAssumption
      <3>2. CASE NotRunning(r)
        <4>1. req' = [req EXCEPT ![q] = Answered(req[q], "err")]
          BY <3>2 DEF NotRunning, Refused, q
        <4> QED
          BY <1>0, <2>1, <2>3, <4>1, AnswerOf
      <3> QED
        BY <1>1, <3>1, <3>2
    <2>5. /\ runner'[r].refMu # "load" /\ runner'[r].loader = runner[r].loader
          /\ \A x \in Req \ {r} : runner'[x] = runner[x]
      <3>1. CASE Running(r)
        BY <1>0, <3>1 DEF Running, GoodRunners, Runners
      <3>2. CASE NotRunning(r)
        BY <1>0, <3>2 DEF NotRunning, GoodRunners, Runners
      <3> QED
        BY <1>1, <3>1, <3>2
    <2>6. \A x \in Req \ {r} : runner[x].refMu = "load" => runner[x].loader # q
      BY <2>1 DEF AnswerInv, Once, q
    <2>7. Discharged(q)
      BY <1>1, <2>3, <2>4, <2>5, <2>6
         DEF Running, NotRunning, Discharged, SameServer, chans, maps, q, AnswerInv, Fresh
    <2> QED
      BY <2>1, <2>7, DischargedKeeps
  <1>2. CASE TimerFires(r)
    BY <1>0, <1>2, RunnersKept DEF TimerFires, GoodRunners, Runners, chans, maps
  <1>3. CASE TimerCallback(r)
    BY <1>0, <1>3, RunnersKept DEF TimerCallback, Free, GoodRunners, Runners, chans, maps
  <1>4. CASE SendExpired(r)
    BY <1>0, <1>4, RunnersKept
       DEF SendExpired, SendAndUnlock, Detached, GoodRunners, Runners, maps
  <1>5. CASE Retry(r)
    BY <1>0, <1>5, RunnersKept DEF Retry, GoodRunners, Runners, maps
  <1> QED
    BY <1>1, <1>2, <1>3, <1>4, <1>5 DEF Goroutines

\* processCompleted answers nothing, and unlocks no runner that is coming up.
LEMMA CompletedAnswers ==
    ASSUME Typed, AnswerInv, MutexInv, processCompleted
    PROVE  AnswerInv'
  <1>0. /\ req \in [Req -> GoodRequests] /\ runner \in [Req -> GoodRunners]
        /\ c \in GoodCompleted /\ finishedReqCh \in Seq(Req)
    BY DEF Typed, ReqOK, RunnerOK, COK, ChansOK
  <1>1. CASE CRecvFinished
    <2>1. \A x \in Req : /\ req'[x].pc = req[x].pc /\ req'[x].answer = req[x].answer
                         /\ req'[x].held = req[x].held /\ req'[x].ctx = req[x].ctx
      BY <1>0, <1>1 DEF CRecvFinished, GoodRequests, Requests
    <2> QED
      BY <1>1, <2>1, KeptKeeps DEF CRecvFinished, Kept, SameServer, maps
  <1>2. CASE CFinish
    <2>1. c.run \in Req /\ runner[c.run].refMu = "free"
      BY <1>0, <1>2 DEF CFinish, Free, GoodCompleted
    <2> DEFINE ref == [runner[c.run] EXCEPT !.refCount = Decrement(runner[c.run].refCount)]
    <2>2. /\ ref.refMu = "free" /\ ref.loader = runner[c.run].loader
          /\ GoneIdle(ref).refMu # "load" /\ GoneIdle(ref).loader = runner[c.run].loader
      BY <1>0, <2>1 DEF GoneIdle, GoodRunners, Runners
    <2>3. \A r \in Req : /\ runner'[r].refMu = "load" <=> runner[r].refMu = "load"
                         /\ runner'[r].loader = runner[r].loader
      BY <1>0, <1>2, <2>1, <2>2 DEF CFinish
    <2>4. \A x \in Req : /\ req'[x].pc = req[x].pc /\ req'[x].answer = req[x].answer
                         /\ req'[x].held = req[x].held /\ req'[x].ctx = req[x].ctx
      BY <1>0, <1>2 DEF CFinish, GoodRequests, Requests
    <2> QED
      BY <1>2, <2>3, <2>4, KeptKeeps DEF CFinish, Kept, SameServer, chans, maps
  <1>3. CASE CSendExpired
    BY <1>0, <1>3, RunnersKept
       DEF CSendExpired, SendAndUnlock, MutexInv, GoodCompleted, GoodRunners, Runners, maps
  <1>4. CASE CRetry
    BY <1>0, <1>4, RunnersKept DEF CRetry, GoodRunners, Runners, chans, maps
  <1>5. CASE COrphan
    BY <1>0, <1>5, RunnersKept DEF COrphan, Unload, GoodRunners, Runners, chans, maps
  <1>6. CASE CUnload
    BY <1>0, <1>6, RunnersKept DEF CUnload, Unload, Free, GoodCompleted, GoodRunners, Runners, chans
  <1>7. CASE CRecovered
    BY <1>0, <1>7, RunnersKept
       DEF CRecovered, MutexInv, GoodCompleted, GoodRunners, Runners, chans, maps
  <1>8. CASE CRecvExpired \/ CDuplicate \/ CNotify \/ CExit
    BY <1>8, RunnersKept DEF CRecvExpired, CDuplicate, CNotify, CExit, chans, maps
  <1> QED
    BY <1>1, <1>2, <1>3, <1>4, <1>5, <1>6, <1>7, <1>8 DEF processCompleted

\* expireRunner answers nothing.
LEMMA StopAnswers ==
    ASSUME Typed, AnswerInv, NEW s \in Stop, expireRunner(s)
    PROVE  AnswerInv'
  <1>0. runner \in [Req -> GoodRunners] /\ stop \in [Stop -> GoodStops]
    BY DEF Typed, RunnerOK, StopOK
  <1>1. CASE ExpireLookup(s)
    BY <1>1, RunnersKept DEF ExpireLookup, chans, maps
  <1>2. CASE ExpireRunner(s)
    <2>1. stop[s].run \in Req /\ runner[stop[s].run].refMu = "free"
      BY <1>0, <1>2 DEF ExpireRunner, Free, GoodStops
    <2>2. \A r \in Req : /\ runner'[r].refMu = "load" <=> runner[r].refMu = "load"
                         /\ runner'[r].loader = runner[r].loader
      BY <1>0, <1>2, <2>1 DEF ExpireRunner, Marked, GoodRunners, Runners
    <2> QED
      BY <1>2, <2>2, RunnersKept DEF ExpireRunner, chans, maps
  <1> QED
    BY <1>1, <1>2 DEF expireRunner

\* A signal answers nothing: the loops just stop looking.
LEMMA ShutdownAnswers ==
    ASSUME Typed, AnswerInv, Shutdown \/ unloadAllRunners
    PROVE  AnswerInv'
  <1>1. CASE Shutdown
    BY <1>1, RunnersKept DEF Shutdown, chans, maps
  <1>2. CASE unloadAllRunners
    <2>1. \A r \in Req : /\ runner'[r].refMu = runner[r].refMu
                         /\ runner'[r].loader = runner[r].loader
      BY <1>2 DEF unloadAllRunners, Typed, RunnerOK, GoodRunners, Runners
    <2> QED
      BY <1>2, <2>1, KeptKeeps DEF unloadAllRunners, Kept, SameServer, chans
  <1> QED
    BY <1>1, <1>2

\* A step of processPending that keeps hold of its request, or has none.
LEMMA PendingKept ==
    ASSUME Typed, AnswerInv, UNCHANGED <<req, pendingReqCh, activeLoading>>,
           p'.req = p.req, p'.pc = "idle" => p.pc = "idle", SameServer,
           \A r \in Req : /\ runner'[r].refMu = "load" <=> runner[r].refMu = "load"
                          /\ runner'[r].loader = runner[r].loader
    PROVE  AnswerInv'
  BY KeptKeeps DEF Kept

\* A request taken off the queue is in the hands of processPending, unless its
\* client is gone.
LEMMA ReceiveAnswers ==
    ASSUME Typed, AnswerInv, PRecv
    PROVE  AnswerInv'
  <1>0. pendingReqCh \in Seq(Req) /\ p \in GoodPending /\ pendingReqCh # <<>>
    BY DEF Typed, ChansOK, POK, PRecv
  <1>h. PICK h \in Req : h = Head(pendingReqCh)
    BY <1>0, Receive
  <1>1. /\ h = pendingReqCh[1] /\ Len(pendingReqCh) \in Nat \ {0}
        /\ Len(pendingReqCh') = Len(pendingReqCh) - 1
        /\ \A i \in 1 .. Len(pendingReqCh') : pendingReqCh'[i] = pendingReqCh[i + 1]
    BY <1>0, <1>h, HeadTailProperties DEF PRecv
  <1>2. InQueue(h)
    BY <1>1 DEF InQueue
  <1>3. ~InQueue(h)'
    BY <1>1 DEF InQueue, AnswerInv, Once
  <1>4. \A x \in Req \ {h} : InQueue(x)' <=> InQueue(x)
    <2>1. ASSUME NEW x \in Req \ {h}, InQueue(x) PROVE InQueue(x)'
      <3>1. PICK i \in 1 .. Len(pendingReqCh) : pendingReqCh[i] = x
        BY <2>1 DEF InQueue
      <3>2. i - 1 \in 1 .. Len(pendingReqCh') /\ pendingReqCh'[i - 1] = x
        BY <1>1, <2>1, <3>1
      <3> QED
        BY <3>2 DEF InQueue
    <2>2. ASSUME NEW x \in Req \ {h}, InQueue(x)' PROVE InQueue(x)
      BY <1>1, <2>2 DEF InQueue
    <2> QED
      BY <2>1, <2>2
  <1>5. /\ req[h].pc = "wait" /\ req[h].answer = "none" /\ Early(h) /\ ~AwaitsRunner(h)
        /\ p.req = None
    BY <1>1, <1>2 DEF AnswerInv, Exclusive, Fresh, Early, PRecv
  <1>6. \A x \in Req : AwaitsRunner(x)' <=> AwaitsRunner(x)
    BY DEF PRecv, AwaitsRunner
  <1>7. /\ p'.req \in {None, h} /\ (req[h].ctx = "live" => p'.req = h)
        /\ p'.pc = "idle" => p'.req = None
        /\ p'.pc # "loading"
    BY <1>0, <1>h, <1>5, ReqAssumption DEF PRecv, GoodPending, Pending, Typed, ReqOK, GoodRequests, Requests
  <1>8. /\ \A x \in Req \ {h} : Early(x)' <=> Early(x)
        /\ ~Early(h)'
    BY <1>3, <1>4, <1>5 DEF Early, PRecv
  <1>9. Exclusive'
    BY <1>3, <1>4, <1>5, <1>6, <1>7, <1>8, ReqAssumption DEF Exclusive, AnswerInv, PRecv
  <1>10. Once'
    <2>1. \A i, j \in 1 .. Len(pendingReqCh') : pendingReqCh'[i] = pendingReqCh'[j] => i = j
      BY <1>1 DEF AnswerInv, Once
    <2> QED
      BY <2>1 DEF AnswerInv, Once, PRecv
  <1>11. Fresh'
    <2>1. Known' = Known /\ h \notin Known
      BY <1>5, <1>1 DEF PRecv, Known, AnswerInv, Fresh
    <2>2. activeLoading' = activeLoading /\ activeLoading \in Opt(Req)
      BY DEF PRecv, maps, Typed, MapsOK
    <2> QED
      BY <1>7, <1>8, <2>1, <2>2, ReqAssumption DEF AnswerInv, Fresh, Known, Opt
  <1>12. AnsweredOnce'
    BY DEF AnswerInv, AnsweredOnce, PRecv
  <1>13. NoLostRequest'
    <2>1. \A x \in Req :
            req'[x].pc = "wait" /\ req'[x].answer = "none" /\ req'[x].ctx = "live" =>
                InQueue(x)' \/ p'.req = x \/ AwaitsRunner(x)'
      BY <1>4, <1>5, <1>6, <1>7, LostMeans, ReqAssumption DEF AnswerInv, PRecv
    <2> QED
      BY <2>1 DEF NoLostRequest, InQueue, AwaitsRunner
  <1> QED
    BY <1>9, <1>10, <1>11, <1>12, <1>13 DEF AnswerInv

\* A load that ends well hands the request to the goroutine that waits for the runner.
LEMMA LoadAnswers ==
    ASSUME Typed, LoadInv, AnswerInv, LoadSucceeds
    PROVE  AnswerInv'
  <1>0. p \in GoodPending /\ runner \in [Req -> GoodRunners] /\ p.req \in Req /\ p.run \in Req
    BY DEF Typed, POK, RunnerOK, LoadSucceeds, GoodPending
  <1>1. p.run \notin Known /\ ~Early(p.run) /\ ~Early(p.req)
    BY <1>0, ReqAssumption DEF LoadSucceeds, LoadInv, AnswerInv, Fresh, Exclusive
  <1>2. /\ runner'[p.run].refMu = "load" /\ runner'[p.run].loader = p.req
        /\ \A x \in Req \ {p.run} : /\ runner'[x].refMu = runner[x].refMu
                                    /\ runner'[x].loader = runner[x].loader
    <2>1. runner'[p.run] = [runner[p.run] EXCEPT !.loader = p.req, !.refMu = "load",
                   !.dur = IF DurOf[p.req] = NoDuration THEN KeepAlive ELSE DurOf[p.req]]
      BY <1>0 DEF LoadSucceeds
    <2>2. \A x \in Req \ {p.run} : runner'[x] \in {runner[x], Unload(runner[x])}
      BY <1>0 DEF LoadSucceeds
    <2>3. \A x \in Req : /\ Unload(runner[x]).refMu = runner[x].refMu
                         /\ Unload(runner[x]).loader = runner[x].loader
      BY <1>0 DEF Unload, GoodRunners, Runners
    <2>4. runner'[p.run].refMu = "load" /\ runner'[p.run].loader = p.req
      BY <1>0, <2>1 DEF GoodRunners, Runners
    <2> QED
      BY <2>2, <2>3, <2>4
  <1>3. p'.req = None /\ p'.pc = "idle"
    BY <1>0 DEF LoadSucceeds, Idle, GoodPending, Pending
  <1>4. /\ req[p.req].answer = "none" /\ req[p.req].pc = "wait" /\ ~InQueue(p.req)
        /\ ~AwaitsRunner(p.req)
    BY <1>0, <1>1 DEF AnswerInv, Exclusive, Early
  <1>5. runner[p.run].refMu # "load"
    BY <1>0, <1>1, ReqAssumption DEF Known, GoodRunners, Runners, Opt
  <1>6. \A x \in Req : AwaitsRunner(x)' <=> AwaitsRunner(x) \/ x = p.req
    BY <1>0, <1>2, <1>5 DEF AwaitsRunner
  <1>7. \A x \in Req : (InQueue(x)' <=> InQueue(x)) /\ (Early(x)' <=> Early(x))
    BY DEF LoadSucceeds, InQueue, Early, chans
  <1>8. Exclusive'
    BY <1>1, <1>3, <1>4, <1>6, <1>7, ReqAssumption DEF Exclusive, AnswerInv, LoadSucceeds
  <1>9. Once'
    <2>1. ASSUME NEW r1 \in Req, NEW r2 \in Req,
                 runner'[r1].refMu = "load", runner'[r2].refMu = "load",
                 runner'[r1].loader = runner'[r2].loader
          PROVE  r1 = r2
      <3>1. CASE r1 # p.run /\ r2 # p.run
        BY <1>2, <2>1, <3>1 DEF AnswerInv, Once
      <3>2. ASSUME NEW r \in Req \ {p.run}, runner'[r].refMu = "load" PROVE runner'[r].loader # p.req
        BY <1>2, <1>4, <3>2 DEF AwaitsRunner
      <3> QED
        BY <1>2, <2>1, <3>1, <3>2
    <2> QED
      BY <2>1 DEF AnswerInv, Once, LoadSucceeds, chans
  <1>10. Fresh'
    <2>1. Known' = Known \cup {p.run}
      BY <1>0, <1>2, ReqAssumption DEF Known
    <2>2. activeLoading' = None
      BY DEF LoadSucceeds
    <2> QED
      BY <1>1, <1>3, <1>7, <2>1, <2>2, ReqAssumption DEF AnswerInv, Fresh, Known
  <1>11. AnsweredOnce'
    BY DEF AnswerInv, AnsweredOnce, LoadSucceeds
  <1>12. NoLostRequest'
    <2>1. \A x \in Req :
            req'[x].pc = "wait" /\ req'[x].answer = "none" /\ req'[x].ctx = "live" =>
                InQueue(x)' \/ p'.req = x \/ AwaitsRunner(x)'
      BY <1>6, <1>7, LostMeans DEF AnswerInv, LoadSucceeds
    <2> QED
      BY <2>1 DEF NoLostRequest, InQueue, AwaitsRunner
  <1> QED
    BY <1>8, <1>9, <1>10, <1>11, <1>12 DEF AnswerInv

\* processPending keeps its request until it is answered or its runner comes up.
LEMMA PendingAnswers ==
    ASSUME Typed, LoadInv, AnswerInv, MutexInv, processPending
    PROVE  AnswerInv'
  <1>0. p \in GoodPending /\ runner \in [Req -> GoodRunners] /\ activeLoading \in Opt(Req)
    BY DEF Typed, POK, RunnerOK, MapsOK
  <1>1. CASE PRecv
    BY <1>1, ReceiveAnswers
  <1>2. CASE LoadSucceeds
    BY <1>2, LoadAnswers
  <1>3. CASE PUse
    <2>1. p.req \in Req /\ p.run \in Req
      BY <1>0, <1>3 DEF PUse, GoodPending
    <2>2. req[p.req].answer = "none" /\ ~InQueue(p.req) /\ ~AwaitsRunner(p.req)
      BY <2>1 DEF AnswerInv, Exclusive, Early
    <2>3. Discharged(p.req)
      BY <1>3, <2>1, <2>2, UseDischarges DEF PUse
    <2> QED
      BY <2>1, <2>3, DischargedKeeps
  <1>4. CASE LoadModelFails \/ NewServerFails \/ LoadFails
    <2>1. p.req \in Req /\ Refuse /\ UNCHANGED chans /\ activeLoading' \in {activeLoading, None}
      BY <1>0, <1>4 DEF LoadModelFails, NewServerFails, LoadFails, GoodPending, maps
    <2>2. \A x \in Req : runner'[x].refMu = runner[x].refMu /\ runner'[x].loader = runner[x].loader
      <3>1. CASE LoadFails
        BY <1>0, <3>1 DEF LoadFails, GoodRunners, Runners
      <3>2. CASE LoadModelFails \/ NewServerFails
        BY <3>2 DEF LoadModelFails, NewServerFails
      <3> QED
        BY <1>4, <3>1, <3>2
    <2> QED
      BY <2>1, <2>2, RefuseDischarges, DischargedKeeps
  <1>5. CASE NewServer
    <2>1. /\ p.req \in Req /\ p'.req = p.req /\ p'.pc = "loading" /\ p'.run = p.req
          /\ activeLoading' = p.req /\ UNCHANGED <<req, pendingReqCh>>
      BY <1>0, <1>5 DEF NewServer, GoodPending, Pending, chans
    <2>2. \A x \in Req : runner'[x].refMu = runner[x].refMu /\ runner'[x].loader = runner[x].loader
      BY <1>0, <1>5 DEF NewServer, GoodRunners, Runners
    <2>3. /\ Known' = Known
          /\ \A x \in Req : /\ InQueue(x)' <=> InQueue(x)
                            /\ AwaitsRunner(x)' <=> AwaitsRunner(x)
      BY <2>1, <2>2 DEF Known, InQueue, AwaitsRunner
    <2>4. \A x \in Req : Early(x)' <=> Early(x)
      BY <2>1, <2>3 DEF Early
    <2>5. ~Early(p.req) /\ p.req \notin Known
      BY <2>1 DEF AnswerInv, Exclusive, Fresh
    <2>6. Exclusive'
      BY <2>1, <2>3, <2>4 DEF AnswerInv, Exclusive
    <2>7. Once'
      BY <2>1, <2>2 DEF AnswerInv, Once
    <2>8. Fresh'
      <3>1. PICK q \in Req : q = p.req
        BY <2>1
      <3>2. ~Early(q)' /\ activeLoading' = q /\ p'.run = q
        BY <2>1, <2>4, <2>5, <3>1
      <3> QED
        BY <2>1, <2>3, <2>4, <2>5, <3>1, <3>2 DEF AnswerInv, Fresh, Known
    <2>9. AnsweredOnce'
      BY <2>1 DEF AnswerInv, AnsweredOnce
    <2>10. NoLostRequest'
      <3>1. \A x \in Req :
              req'[x].pc = "wait" /\ req'[x].answer = "none" /\ req'[x].ctx = "live" =>
                  InQueue(x)' \/ p'.req = x \/ AwaitsRunner(x)'
        BY <2>1, <2>3, LostMeans DEF AnswerInv
      <3> QED
        BY <3>1 DEF NoLostRequest, InQueue, AwaitsRunner
    <2> QED
      BY <2>6, <2>7, <2>8, <2>9, <2>10 DEF AnswerInv
  <1>6. CASE PExpire
    <2>1. p.run \in Req /\ runner[p.run].refMu = "free" /\ p'.req = p.req /\ p'.pc \notin {"idle", "loading"}
      BY <1>0, <1>6 DEF PExpire, Free, GoodPending, Pending
    <2>2. \A r \in Req : /\ runner'[r].refMu = "load" <=> runner[r].refMu = "load"
                         /\ runner'[r].loader = runner[r].loader
      BY <1>0, <1>6, <2>1 DEF PExpire, Marked, GoodRunners, Runners
    <2> QED
      BY <1>6, <2>1, <2>2, PendingKept DEF PExpire, SameServer, chans, maps
  <1>7. CASE PSendExpired
    <2>1. p.run \in Req /\ runner[p.run].refMu = "pending" /\ p'.req = p.req /\ p'.pc \notin {"idle", "loading"}
      BY <1>0, <1>7 DEF PSendExpired, MutexInv, GoodPending, Pending
    <2>2. \A r \in Req : /\ runner'[r].refMu = "load" <=> runner[r].refMu = "load"
                         /\ runner'[r].loader = runner[r].loader
      BY <1>0, <1>7, <2>1 DEF PSendExpired, SendAndUnlock, GoodRunners, Runners
    <2> QED
      BY <1>7, <2>1, <2>2, PendingKept DEF PSendExpired, SendAndUnlock, SameServer, maps
  <1>8. CASE PUnloaded \/ PExit \/ PSnapshot \/ PNeedsReload \/ UpdateFreeSpace
    <2>1. p'.req = p.req /\ (p'.pc = "idle" => p.pc = "idle") /\ p'.pc # "loading"
      <3>1. CASE PUnloaded \/ PExit
        BY <1>0, <3>1 DEF PUnloaded, Again, PExit, GoodPending, Pending
      <3>2. CASE PSnapshot
        BY <1>0, <3>2 DEF PSnapshot, GoodPending, Pending
      <3>3. CASE PNeedsReload \/ UpdateFreeSpace
        BY <1>0, <3>3 DEF PNeedsReload, UpdateFreeSpace, GoodPending, Pending
      <3> QED
        BY <1>8, <3>1, <3>2, <3>3
    <2> QED
      BY <1>8, <2>1, PendingKept DEF PUnloaded, PExit, PSnapshot, PNeedsReload, UpdateFreeSpace,
                                     SameServer, chans, maps
  <1>9. CASE ResumeServer \/ LoadNeedsEviction \/ FindRunnerToUnload
    <2>1. p'.req = p.req /\ p'.pc # "idle" /\ SameServer
      BY <1>0, <1>9
         DEF ResumeServer, LoadNeedsEviction, FindRunnerToUnload, GoodPending, Pending, SameServer
    <2> QED
      BY <1>9, <2>1, PendingKept DEF ResumeServer, LoadNeedsEviction, FindRunnerToUnload,
                                     chans, maps
  <1>10. CASE PanicOtherModel \/ PanicNilActive
    BY <1>10, PendingKept DEF PanicOtherModel, PanicNilActive, SameServer, chans, maps
  <1>11. ASSUME NEW r \in Req, UpdateFreeSpaceOf(r) \/ Scan(r) PROVE AnswerInv'
    <2>1. p'.req = p.req /\ p'.pc \notin {"idle", "loading"}
      BY <1>0, <1>11 DEF UpdateFreeSpaceOf, Scan, GoodPending, Pending
    <2> QED
      BY <1>11, <2>1, PendingKept DEF UpdateFreeSpaceOf, Scan, SameServer, chans, maps
  <1> QED
    BY <1>1, <1>2, <1>3, <1>4, <1>5, <1>6, <1>7, <1>8, <1>9, <1>10, <1>11
       DEF processPending, load

-----------------------------------------------------------------------------
(* References and mutexes.                                                 *)

\* A runner once loaded stays known, and references that a step leaves alone stay good.
LEMMA KnownFrame ==
    ASSUME KnownInv, Known \subseteq Known'
    PROVE  /\ UNCHANGED req => KnownReq'
           /\ UNCHANGED loaded => KnownLoaded'
           /\ UNCHANGED expiredCh => KnownExpired'
           /\ UNCHANGED c => KnownC'
           /\ UNCHANGED stop => KnownStop'
           /\ UNCHANGED p => KnownP'
           /\ UNCHANGED runner => UnknownUntouched' /\ Known' = Known
  <1>1. UNCHANGED req => KnownReq'
    BY DEF KnownInv, KnownReq, Opt
  <1>2. UNCHANGED loaded => KnownLoaded'
    BY DEF KnownInv, KnownLoaded, Opt
  <1>3. UNCHANGED expiredCh => KnownExpired'
    BY DEF KnownInv, KnownExpired
  <1>4. UNCHANGED c => KnownC'
    BY DEF KnownInv, KnownC, Opt
  <1>5. UNCHANGED stop => KnownStop'
    BY DEF KnownInv, KnownStop, Opt
  <1>6. UNCHANGED p => KnownP'
    BY DEF KnownInv, KnownP, Opt
  <1>7. UNCHANGED runner => UnknownUntouched' /\ Known' = Known
    BY DEF KnownInv, UnknownUntouched, Known
  <1> QED
    BY <1>1, <1>2, <1>3, <1>4, <1>5, <1>6, <1>7

\* A step on one known runner.
LEMMA OneRunner ==
    ASSUME Typed, KnownInv, NEW r \in Known, NEW ref, ref.loader = runner[r].loader,
           runner' = [runner EXCEPT ![r] = ref]
    PROVE  Known' = Known /\ UnknownUntouched'
  <1>0. runner \in [Req -> GoodRunners] /\ r \in Req
    BY DEF Typed, RunnerOK, Known
  <1>1. \A x \in Req : runner'[x].loader = runner[x].loader /\ (x # r => runner'[x] = runner[x])
    BY <1>0
  <1>2. Known' = Known
    BY <1>1 DEF Known
  <1> QED
    BY <1>1, <1>2 DEF KnownInv, UnknownUntouched

\* What the operations on the record of a runner leave alone.
LEMMA LoaderKept ==
    ASSUME NEW ref \in GoodRunners
    PROVE  /\ \A q \in Req : Taken(ref, q).loader = ref.loader /\ Taken(ref, q).refMu = ref.refMu
           /\ \A h : Marked(ref, h).loader = ref.loader
           /\ Unload(ref).loader = ref.loader /\ Unload(ref).refMu = ref.refMu
           /\ Unload(ref).callbacks = ref.callbacks /\ Unload(ref).retries = ref.retries
           /\ Unload(ref).timer = "nil"
           /\ \A h : [ref EXCEPT !.refMu = h].loader = ref.loader
           /\ [Unload(ref) EXCEPT !.refMu = "vram"].loader = ref.loader
           /\ \A n : [ref EXCEPT !.retries = n].loader = ref.loader
           /\ \A n : [ref EXCEPT !.retries = n].refMu = ref.refMu
           /\ \A pr : /\ [ref EXCEPT !.proc = pr].loader = ref.loader
                      /\ [ref EXCEPT !.proc = pr].refMu = ref.refMu
                      /\ [ref EXCEPT !.proc = pr].callbacks = ref.callbacks
                      /\ [ref EXCEPT !.proc = pr].retries = ref.retries
                      /\ [ref EXCEPT !.proc = pr].timer = ref.timer
  BY DEF Taken, Marked, Unload, GoodRunners, Runners

\* The handlers and clients.
LEMMA HandlerKnown ==
    ASSUME Typed, KnownInv, NEW q \in Req, Handler(q) \/ Client(q)
    PROVE  KnownInv'
  <1>0. req \in [Req -> GoodRequests] /\ runner \in [Req -> GoodRunners]
    BY DEF Typed, ReqOK, RunnerOK
  <1>1. CASE Use(q)
    <2>1. req[q].run \in Known
      BY <1>0, <1>1, ReqAssumption DEF Use, KnownInv, KnownReq, Opt, GoodRequests
    <2>2. runner[req[q].run] \in GoodRunners
      BY <1>0, <2>1 DEF Known
    <2>3. Known' = Known /\ UnknownUntouched'
      BY <1>1, <2>1, <2>2, OneRunner, LoaderKept DEF Use, useLoadedRunner
    <2>4. KnownReq'
      <3>1. \A x \in GoodRequests, r \in Req : Granted(x, r).run = None
        <4>1. \A x \in GoodRequests : Answered(x, "ok") \in GoodRequests
          BY RequestTypes
        <4> QED
          BY <4>1 DEF Granted, GoodRequests, Requests
      <3>2. \A x \in Req : req'[x].run \in {req[x].run, None}
        BY <1>0, <1>1, <2>1, <3>1 DEF Use, useLoadedRunner, Known
      <3> QED
        BY <2>3, <3>2 DEF KnownInv, KnownReq, Opt
    <2> QED
      BY <1>1, <2>3, <2>4, KnownFrame DEF Use, maps, chans, KnownInv
  <1>2. CASE Lookup(q)
    <2>1. Known' = Known
      BY <1>2 DEF Lookup, Known
    <2>2. \A x \in Req : req'[x].run \in {req[x].run, loaded[ModelOf[q]]}
      BY <1>0, <1>2 DEF Lookup, GoodRequests, Requests
    <2>3. loaded[ModelOf[q]] \in Opt(Known)
      BY DEF KnownInv, KnownLoaded, Path
    <2>4. KnownReq'
      BY <2>1, <2>2, <2>3 DEF KnownInv, KnownReq
    <2> QED
      BY <1>2, <2>1, <2>4, KnownFrame DEF Lookup, maps, chans, env, KnownInv
  <1>3. CASE NeedsReload(q) \/ Enqueue(q) \/ Busy(q) \/ Client(q)
    <2>1. Known' = Known
      BY <1>3 DEF NeedsReload, Enqueue, Busy, Client, Complete, Cancel, SendFinished, Known
    <2>2. \A x \in Req : req'[x].run \in {req[x].run, None}
      <3>1. CASE NeedsReload(q)
        BY <1>0, <3>1 DEF NeedsReload, GoodRequests, Requests
      <3>4. CASE Enqueue(q)
        BY <1>0, <3>4 DEF Enqueue, GoodRequests, Requests
      <3>3. CASE Client(q)
        BY SMTT(40), <1>0, <3>3 DEF Client, Complete, Cancel, SendFinished, GoodRequests, Requests
      <3>2. CASE Busy(q)
        <4>1. Answered(req[q], "busy") \in GoodRequests
          BY <1>0, RequestTypes
        <4>2. [Answered(req[q], "busy") EXCEPT !.pc = "wait", !.run = None].run = None
          BY <4>1 DEF GoodRequests, Requests
        <4> QED
          BY <1>0, <3>2, <4>2 DEF Busy
      <3> QED
        BY <1>3, <3>1, <3>2, <3>3, <3>4
    <2>3. KnownReq'
      BY <2>1, <2>2 DEF KnownInv, KnownReq, Opt
    <2> QED
      BY <1>3, <2>1, <2>3, KnownFrame
         DEF NeedsReload, Enqueue, Busy, Client, Complete, Cancel, SendFinished, maps, chans, env,
             KnownInv
  <1> QED
    BY <1>1, <1>2, <1>3 DEF Handler

\* Timers, retries and the goroutine that waits for a runner, which is known.
LEMMA GoroutinesKnown ==
    ASSUME Typed, KnownInv, NEW r \in Req, Goroutines(r)
    PROVE  KnownInv'
  <1>0. /\ req \in [Req -> GoodRequests] /\ runner \in [Req -> GoodRunners]
        /\ runner[r] \in GoodRunners /\ expiredCh \in Seq(Req)
    BY DEF Typed, ReqOK, RunnerOK, ChansOK
  <1>1. r \in Known
    <2>1. r \notin Known => /\ runner[r].refMu = "free" /\ runner[r].callbacks = 0
                            /\ runner[r].retries = 0 /\ runner[r].timer = "nil"
      BY DEF KnownInv, UnknownUntouched
    <2> QED
      BY <2>1 DEF Goroutines, Running, NotRunning, TimerFires, TimerCallback, SendExpired,
                  Detached, Retry
  <1>2. Known' = Known /\ UnknownUntouched'
    <2>1. CASE Running(r)
      BY <1>0, <1>1, <2>1, OneRunner DEF Running, GoodRunners, Runners
    <2>2. CASE NotRunning(r)
      BY <1>0, <1>1, <2>2, OneRunner, LoaderKept DEF NotRunning
    <2>3. CASE TimerFires(r)
      BY <1>0, <1>1, <2>3, OneRunner DEF TimerFires, GoodRunners, Runners
    <2>4. CASE TimerCallback(r)
      BY <1>0, <1>1, <2>4, OneRunner DEF TimerCallback, GoodRunners, Runners
    <2>5. CASE SendExpired(r)
      BY <1>0, <1>1, <2>5, OneRunner, LoaderKept DEF SendExpired, SendAndUnlock
    <2>6. CASE Retry(r)
      BY <1>0, <1>1, <2>6, OneRunner, LoaderKept DEF Retry
    <2> QED
      BY <2>1, <2>2, <2>3, <2>4, <2>5, <2>6 DEF Goroutines
  <1>3. KnownExpired'
    <2>1. CASE expiredCh' = Append(expiredCh, r)
      BY <1>0, <1>1, <1>2, <2>1 DEF KnownInv, KnownExpired
    <2>2. UNCHANGED expiredCh \/ expiredCh' = Append(expiredCh, r)
      BY DEF Goroutines, Running, NotRunning, TimerFires, TimerCallback, SendExpired,
             SendAndUnlock, Retry, chans
    <2> QED
      BY <1>2, <2>1, <2>2, KnownFrame
  <1>4. KnownReq'
    <2>1. \A x \in Req : req'[x].run \in {req[x].run, None}
      <3>1. CASE Running(r)
        <4>1. \A x \in GoodRequests : Answered(x, "ok") \in GoodRequests
          BY RequestTypes
        <4>2. \A x \in GoodRequests : Granted(x, r).run = None
          BY <4>1 DEF Granted, GoodRequests, Requests
        <4> QED
          BY SMTT(40), <1>0, <3>1, <4>2 DEF Running
      <3>2. CASE NotRunning(r)
        BY <1>0, <3>2 DEF NotRunning, Refused, Answered, GoodRequests, Requests
      <3>3. CASE UNCHANGED req
        BY <3>3
      <3> QED
        BY <3>1, <3>2, <3>3 DEF Goroutines, TimerFires, TimerCallback, SendExpired, Retry
    <2> QED
      BY <1>2, <2>1 DEF KnownInv, KnownReq, Opt
  <1>5. UNCHANGED <<loaded, p, c, stop>>
    BY DEF Goroutines, Running, NotRunning, TimerFires, TimerCallback, SendExpired, Retry,
           maps, env
  <1> QED
    BY <1>2, <1>3, <1>4, <1>5, KnownFrame DEF KnownInv

\* processCompleted takes its runners from `loaded' and from expired events.
LEMMA CompletedKnown ==
    ASSUME Typed, KnownInv, processCompleted
    PROVE  KnownInv'
  <1>0. /\ req \in [Req -> GoodRequests] /\ runner \in [Req -> GoodRunners]
        /\ c \in GoodCompleted /\ finishedReqCh \in Seq(Req) /\ expiredCh \in Seq(Req)
    BY DEF Typed, ReqOK, RunnerOK, COK, ChansOK
  <1>1. /\ Known \subseteq Req
        /\ c.pc \in {"finish", "expired", "send", "vram"} =>
             c.run \in Known /\ runner[c.run] \in GoodRunners
    BY <1>0, ReqAssumption DEF KnownInv, KnownC, Opt, GoodCompleted, Known
  <1>2. CASE CRecvFinished
    <2>1. Known' = Known
      BY <1>2 DEF CRecvFinished, Known
    <2>2. Head(finishedReqCh) \in Req
      BY <1>0, <1>2, Receive DEF CRecvFinished
    <2>3. loaded[ModelOf[Head(finishedReqCh)]] \in Opt(Known)
      BY <2>2 DEF KnownInv, KnownLoaded, Path
    <2>4. KnownC'
      BY <1>2, <2>1, <2>3 DEF CRecvFinished, KnownInv, KnownC
    <2>5. \A x \in Req : req'[x].run = req[x].run
      BY SMTT(40), <1>0, <1>2 DEF CRecvFinished, GoodRequests, Requests
    <2>6. KnownReq'
      BY <2>1, <2>5 DEF KnownInv, KnownReq
    <2> QED
      BY <1>2, <2>1, <2>4, <2>6, KnownFrame DEF CRecvFinished, maps, env, KnownInv
  <1>3. CASE CFinish
    <2> DEFINE ref == [runner[c.run] EXCEPT !.refCount = Decrement(runner[c.run].refCount)]
    <2>1. ref.loader = runner[c.run].loader /\ GoneIdle(ref).loader = runner[c.run].loader
      BY <1>1, <1>3 DEF CFinish, GoneIdle, GoodRunners, Runners
    <2>2. PICK new : new \in {ref, GoneIdle(ref)} /\ runner' = [runner EXCEPT ![c.run] = new]
      BY <1>3 DEF CFinish
    <2>3. Known' = Known /\ UnknownUntouched'
      BY <1>1, <1>3, <2>1, <2>2, OneRunner DEF CFinish
    <2>4. c'.run \in {c.run, None}
      BY <1>0, <1>3 DEF CFinish, CIdle, GoodCompleted, Completed
    <2>5. KnownC'
      BY <2>3, <2>4 DEF KnownInv, KnownC, Opt
    <2>6. \A x \in Req : req'[x].run = req[x].run
      BY <1>0, <1>3 DEF CFinish, GoodRequests, Requests
    <2>7. KnownReq'
      BY <2>3, <2>6 DEF KnownInv, KnownReq
    <2> QED
      BY <1>3, <2>3, <2>5, <2>7, KnownFrame DEF CFinish, maps, chans, env, KnownInv
  <1>4. CASE CSendExpired
    <2>1. Known' = Known /\ UnknownUntouched'
      BY <1>1, <1>4, OneRunner, LoaderKept DEF CSendExpired, SendAndUnlock
    <2>2. KnownExpired'
      BY <1>0, <1>1, <1>4, <2>1 DEF CSendExpired, SendAndUnlock, KnownInv, KnownExpired
    <2>3. KnownC'
      BY <1>4 DEF CSendExpired, CIdle, KnownC, Opt
    <2> QED
      BY <1>4, <2>1, <2>2, <2>3, KnownFrame DEF CSendExpired, maps, env, KnownInv
  <1>5. CASE CRecvExpired
    <2>1. /\ Head(expiredCh) = expiredCh[1] /\ Len(expiredCh) \in Nat \ {0}
          /\ Len(expiredCh') = Len(expiredCh) - 1
          /\ \A i \in 1 .. Len(expiredCh') : expiredCh'[i] = expiredCh[i + 1]
      BY <1>0, <1>5, HeadTailProperties DEF CRecvExpired
    <2>2. Known' = Known
      BY <1>5 DEF CRecvExpired, Known
    <2>3. KnownExpired'
      BY <2>1, <2>2 DEF KnownInv, KnownExpired
    <2>4. KnownC'
      BY <1>5, <2>1, <2>2 DEF CRecvExpired, KnownInv, KnownExpired, KnownC, Opt
    <2> QED
      BY <1>5, <2>2, <2>3, <2>4, KnownFrame DEF CRecvExpired, maps, env, KnownInv
  <1>6. CASE CRetry \/ COrphan
    <2>1. Known' = Known /\ UnknownUntouched'
      <3>1. CASE CRetry
        BY <1>1, <3>1, OneRunner, LoaderKept DEF CRetry
      <3>2. CASE COrphan
        BY <1>1, <3>2, OneRunner, LoaderKept DEF COrphan
      <3> QED
        BY <1>6, <3>1, <3>2
    <2>2. KnownC'
      BY <1>6 DEF CRetry, COrphan, CIdle, KnownC, Opt
    <2> QED
      BY <1>6, <2>1, <2>2, KnownFrame DEF CRetry, COrphan, maps, chans, env, KnownInv
  <1>7. CASE CUnload
    <2>1. Known' = Known /\ UnknownUntouched'
      BY <1>1, <1>7, OneRunner, LoaderKept DEF CUnload
    <2>2. c'.run = c.run
      BY <1>0, <1>7 DEF CUnload, GoodCompleted, Completed
    <2>3. KnownC'
      BY <2>1, <2>2 DEF KnownInv, KnownC
    <2>4. \A m \in Path : loaded'[m] \in {loaded[m], None}
      BY <1>7 DEF CUnload, Typed, MapsOK
    <2>5. KnownLoaded'
      BY <2>1, <2>4 DEF KnownInv, KnownLoaded, Opt
    <2> QED
      BY <1>7, <2>1, <2>3, <2>5, KnownFrame DEF CUnload, chans, env, KnownInv
  <1>8. CASE CRecovered
    <2>1. Known' = Known /\ UnknownUntouched'
      BY <1>1, <1>8, OneRunner, LoaderKept DEF CRecovered
    <2>2. KnownC'
      BY <1>0, <1>8 DEF CRecovered, GoodCompleted, Completed, KnownC, Opt
    <2> QED
      BY <1>8, <2>1, <2>2, KnownFrame DEF CRecovered, maps, chans, env, KnownInv
  <1>9. CASE CDuplicate \/ CNotify \/ CExit
    <2>1. Known' = Known
      BY <1>9 DEF CDuplicate, CNotify, CExit, Known
    <2>2. c'.run \in {c.run, None}
      BY <1>0, <1>9 DEF CDuplicate, CNotify, CExit, CIdle, GoodCompleted, Completed
    <2>3. KnownC'
      BY <2>1, <2>2 DEF KnownInv, KnownC, Opt
    <2> QED
      BY <1>9, <2>1, <2>3, KnownFrame DEF CDuplicate, CNotify, CExit, maps, chans, env, KnownInv
  <1> QED
    BY <1>2, <1>3, <1>4, <1>5, <1>6, <1>7, <1>8, <1>9 DEF processCompleted

\* expireRunner takes its runner from `loaded'.
LEMMA StopKnown ==
    ASSUME Typed, KnownInv, NEW s \in Stop, expireRunner(s)
    PROVE  KnownInv'
  <1>0. runner \in [Req -> GoodRunners] /\ stop \in [Stop -> GoodStops]
    BY DEF Typed, RunnerOK, StopOK
  <1>1. CASE ExpireLookup(s)
    <2>1. Known' = Known
      BY <1>1 DEF ExpireLookup, Known
    <2>2. loaded[StopModel[s]] \in Opt(Known)
      BY DEF KnownInv, KnownLoaded, Path
    <2>3. KnownStop'
      BY <1>0, <1>1, <2>1, <2>2 DEF ExpireLookup, KnownInv, KnownStop
    <2> QED
      BY <1>1, <2>1, <2>3, KnownFrame DEF ExpireLookup, maps, chans, KnownInv
  <1>2. CASE ExpireRunner(s)
    <2>1. stop[s].run \in Known /\ runner[stop[s].run] \in GoodRunners
      BY <1>0, <1>2, ReqAssumption DEF ExpireRunner, GoodStops, KnownInv, KnownStop, Opt, Known
    <2>2. Known' = Known /\ UnknownUntouched'
      BY <1>2, <2>1, OneRunner, LoaderKept DEF ExpireRunner
    <2>3. KnownStop'
      BY <1>0, <1>2, <2>2 DEF ExpireRunner, KnownInv, KnownStop, Opt
    <2> QED
      BY <1>2, <2>2, <2>3, KnownFrame DEF ExpireRunner, maps, chans, KnownInv
  <1> QED
    BY <1>1, <1>2 DEF expireRunner

\* The shutdown touches processes only.
LEMMA ShutdownKnown ==
    ASSUME Typed, KnownInv, Shutdown \/ unloadAllRunners
    PROVE  KnownInv'
  <1>1. CASE Shutdown
    <2>1. Known' = Known
      BY <1>1 DEF Shutdown, Known
    <2> QED
      BY <1>1, <2>1, KnownFrame DEF Shutdown, maps, chans, KnownInv
  <1>2. CASE unloadAllRunners
    <2>1. \A r \in Req : /\ runner'[r].refMu = runner[r].refMu
                         /\ runner'[r].loader = runner[r].loader
                         /\ runner'[r].callbacks = runner[r].callbacks
                         /\ runner'[r].retries = runner[r].retries
                         /\ runner'[r].timer = runner[r].timer
      BY <1>2, LoaderKept DEF unloadAllRunners, Typed, RunnerOK
    <2>2. Known' = Known
      BY <2>1 DEF Known
    <2>3. UnknownUntouched'
      BY <2>1, <2>2 DEF KnownInv, UnknownUntouched
    <2> QED
      BY <1>2, <2>2, <2>3, KnownFrame DEF unloadAllRunners, chans, KnownInv
  <1> QED
    BY <1>1, <1>2

\* processPending takes its runners from `loaded'; a load makes its runner known.
LEMMA PendingKnown ==
    ASSUME Typed, LoadInv, AnswerInv, KnownInv, processPending
    PROVE  KnownInv'
  <1>0. /\ req \in [Req -> GoodRequests] /\ runner \in [Req -> GoodRunners]
        /\ p \in GoodPending /\ expiredCh \in Seq(Req) /\ loaded \in [Path -> Opt(Req)]
    BY DEF Typed, ReqOK, RunnerOK, POK, ChansOK, MapsOK
  <1>1. /\ Known \subseteq Req /\ None \notin Known
        /\ LoadedRunners \subseteq Known
        /\ p.pc \in {"check", "use", "expire", "send"} =>
             p.run \in Known /\ runner[p.run] \in GoodRunners
        /\ p.scan \subseteq Known /\ p.head \in Opt(Known)
    BY <1>0, ReqAssumption DEF KnownInv, KnownLoaded, KnownP, LoadedRunners, Opt, Known
  <1>2. CASE PUse
    <2>1. Known' = Known /\ UnknownUntouched'
      BY <1>0, <1>1, <1>2, OneRunner, LoaderKept DEF PUse, useLoadedRunner, GoodPending
    <2>2. KnownReq'
      <3>1. \A x \in GoodRequests : Answered(x, "ok") \in GoodRequests
        BY RequestTypes
      <3>2. \A x \in GoodRequests : Granted(x, p.run).run = None
        BY <3>1 DEF Granted, GoodRequests, Requests
      <3>3. \A x \in Req : req'[x].run \in {req[x].run, None}
        BY <1>0, <1>2, <3>2 DEF PUse, useLoadedRunner
      <3> QED
        BY <2>1, <3>3 DEF KnownInv, KnownReq, Opt
    <2>3. p'.pc = "idle" /\ p'.scan = p.scan /\ p'.head = p.head
      BY <1>0, <1>2 DEF PUse, Idle, GoodPending, Pending
    <2>4. KnownP'
      BY <2>1, <2>3 DEF KnownInv, KnownP
    <2> QED
      BY <1>2, <2>1, <2>2, <2>4, KnownFrame DEF PUse, maps, chans, KnownInv
  <1>3. CASE LoadModelFails \/ NewServerFails \/ LoadFails
    <2>1. \A x \in Req : req'[x].run = req[x].run
      <3>1. \A x \in GoodRequests : Answered(x, "err").run = x.run
        BY DEF Answered, GoodRequests, Requests
      <3> QED
        BY <1>0, <1>3, <3>1 DEF LoadModelFails, NewServerFails, LoadFails, Refuse, Refused
    <2>2. p'.pc = "idle" /\ p'.scan = p.scan /\ p'.head = p.head
      BY <1>0, <1>3 DEF LoadModelFails, NewServerFails, LoadFails, Refuse, Idle, GoodPending, Pending
    <2>3. \A r \in Req : /\ runner'[r].refMu = runner[r].refMu
                         /\ runner'[r].loader = runner[r].loader
                         /\ runner'[r].callbacks = runner[r].callbacks
                         /\ runner'[r].retries = runner[r].retries
                         /\ runner'[r].timer = runner[r].timer
      <3>1. CASE LoadFails
        BY <1>0, <3>1 DEF LoadFails, GoodRunners, Runners
      <3> QED
        BY <1>3, <3>1 DEF LoadModelFails, NewServerFails
    <2>4. Known' = Known
      BY <2>3 DEF Known
    <2>5. UnknownUntouched'
      BY <2>3, <2>4 DEF KnownInv, UnknownUntouched
    <2>6. KnownReq' /\ KnownP'
      BY <2>1, <2>2, <2>4 DEF KnownInv, KnownReq, KnownP
    <2> QED
      BY <1>3, <2>4, <2>5, <2>6, KnownFrame
         DEF LoadModelFails, NewServerFails, LoadFails, maps, chans, env, KnownInv
  <1>4. CASE NewServer
    <2>1. \A r \in Req : /\ runner'[r].refMu = runner[r].refMu
                         /\ runner'[r].loader = runner[r].loader
                         /\ runner'[r].callbacks = runner[r].callbacks
                         /\ runner'[r].retries = runner[r].retries
                         /\ runner'[r].timer = runner[r].timer
      BY <1>0, <1>4 DEF NewServer, GoodRunners, Runners
    <2>2. Known' = Known
      BY <2>1 DEF Known
    <2>3. UnknownUntouched'
      BY <2>1, <2>2 DEF KnownInv, UnknownUntouched
    <2>4. p'.pc = "loading" /\ p'.scan = p.scan /\ p'.head = p.head
      BY <1>0, <1>4 DEF NewServer, GoodPending, Pending
    <2>5. KnownP'
      BY <2>2, <2>4 DEF KnownInv, KnownP
    <2> QED
      BY <1>4, <2>2, <2>3, <2>5, KnownFrame DEF NewServer, chans, env, KnownInv
  <1>5. CASE LoadSucceeds
    <2>1. p.run \in Req /\ p.req \in Req
      BY <1>0, <1>5 DEF LoadSucceeds, GoodPending
    <2>2. /\ runner'[p.run].loader = p.req
          /\ \A x \in Req \ {p.run} : runner'[x] \in {runner[x], Unload(runner[x])}
      <3>1. runner'[p.run] = [runner[p.run] EXCEPT !.loader = p.req, !.refMu = "load",
                   !.dur = IF DurOf[p.req] = NoDuration THEN KeepAlive ELSE DurOf[p.req]]
        BY <1>0, <1>5, <2>1 DEF LoadSucceeds
      <3>2. runner'[p.run].loader = p.req
        BY <1>0, <2>1, <3>1 DEF GoodRunners, Runners
      <3>3. \A x \in Req \ {p.run} : runner'[x] \in {runner[x], Unload(runner[x])}
        BY <1>0, <1>5, <2>1 DEF LoadSucceeds
      <3> QED
        BY <3>2, <3>3
    <2>3. \A x \in Req \ {p.run} : /\ runner'[x].loader = runner[x].loader
                                   /\ runner'[x].refMu = runner[x].refMu
                                   /\ runner'[x].callbacks = runner[x].callbacks
                                   /\ runner'[x].retries = runner[x].retries
                                   /\ runner[x].timer = "nil" => runner'[x].timer = "nil"
      BY <1>0, <2>2, LoaderKept
    <2>4. Known' = Known \cup {p.run}
      BY <2>1, <2>2, <2>3, ReqAssumption DEF Known
    <2>5. UnknownUntouched'
      BY <2>3, <2>4 DEF KnownInv, UnknownUntouched
    <2>6. \A m \in Path : loaded'[m] \in {loaded[m], p.run}
      BY <1>0, <1>5 DEF LoadSucceeds
    <2>7. KnownLoaded'
      BY <2>4, <2>6 DEF KnownInv, KnownLoaded, Opt
    <2>8. p'.pc = "idle" /\ p'.scan = p.scan /\ p'.head = p.head
      BY <1>0, <1>5 DEF LoadSucceeds, Idle, GoodPending, Pending
    <2>9. KnownP'
      BY <2>4, <2>8 DEF KnownInv, KnownP, Opt
    <2> QED
      BY <1>5, <2>4, <2>5, <2>7, <2>9, KnownFrame DEF LoadSucceeds, chans, env, KnownInv
  <1>6. CASE PExpire \/ PSendExpired
    <2>1. Known' = Known /\ UnknownUntouched'
      <3>1. CASE PExpire
        BY <1>1, <3>1, OneRunner, LoaderKept DEF PExpire
      <3>2. CASE PSendExpired
        BY <1>1, <3>2, OneRunner, LoaderKept DEF PSendExpired, SendAndUnlock
      <3> QED
        BY <1>6, <3>1, <3>2
    <2>2. p'.run = p.run /\ p'.scan = p.scan /\ p'.head = p.head /\ p.run \in Known
      BY <1>0, <1>1, <1>6 DEF PExpire, PSendExpired, GoodPending, Pending
    <2>3. KnownP'
      BY <2>1, <2>2 DEF KnownInv, KnownP
    <2>4. KnownExpired'
      <3>1. UNCHANGED expiredCh \/ expiredCh' = Append(expiredCh, p.run)
        BY <1>6 DEF PExpire, PSendExpired, SendAndUnlock, chans
      <3>2. CASE expiredCh' = Append(expiredCh, p.run)
        BY <1>0, <2>1, <2>2, <3>2 DEF KnownInv, KnownExpired, Known
      <3> QED
        BY <2>1, <3>1, <3>2, KnownFrame
    <2> QED
      BY <1>6, <2>1, <2>3, <2>4, KnownFrame DEF PExpire, PSendExpired, maps, env, KnownInv
  <1>7. CASE /\ UNCHANGED <<req, expiredCh, maps, runner, c, stop>>
             /\ p'.pc \in {"check", "use", "expire", "send"} => p'.run \in Known
             /\ p'.scan \subseteq Known /\ p'.head \in Opt(Known)
    <2>1. Known' = Known
      BY <1>7 DEF Known
    <2>2. KnownP'
      BY <1>7, <2>1 DEF KnownP
    <2> QED
      BY <1>7, <2>1, <2>2, KnownFrame DEF maps, KnownInv
  <1>8. CASE PRecv \/ PUnloaded \/ PExit \/ PNeedsReload
    <2>1. /\ p'.pc \in {"check", "use", "expire", "send"} => p'.run \in Known
          /\ p'.scan = p.scan /\ p'.head = p.head
      BY <1>0, <1>1, <1>8 DEF PRecv, PUnloaded, Again, PExit, PNeedsReload, GoodPending, Pending
    <2> QED
      BY <1>1, <1>7, <1>8, <2>1 DEF PRecv, PUnloaded, PExit, PNeedsReload, chans, env
  <1>9. CASE PSnapshot
    <2>1. loaded[ModelOf[p.req]] \in Opt(Known)
      BY <1>0, <1>9 DEF PSnapshot, GoodPending, KnownInv, KnownLoaded, Path
    <2>2. /\ p'.pc \in {"check", "use", "expire", "send"} => p'.run \in Known
          /\ p'.scan = p.scan /\ p'.head = p.head
      <3> DEFINE limit == IF p.maxRunners > 0 THEN p.maxRunners
                          ELSE ModelsPerGPU * (IF NumGPUs > 1 THEN NumGPUs ELSE 1)
                 first == Cardinality(LoadedRunners) = 0
                 r == loaded[ModelOf[p.req]]
      <3>1. p \in Pending
        BY <1>0 DEF GoodPending
      <3>2. \/ r # None /\ p' = [p EXCEPT !.pc = "check", !.run = r]
            \/ p' = [p EXCEPT !.pc = "find"]
            \/ p' = [p EXCEPT !.pc = "fit", !.first = first, !.maxRunners = limit]
        BY <1>9, <3>1, Zenon DEF PSnapshot, Pending
      <3> HIDE DEF limit, first, r
      <3>3. CASE r # None /\ p' = [p EXCEPT !.pc = "check", !.run = r]
        BY <2>1, <3>1, <3>3 DEF Pending, Opt, r
      <3>4. CASE p' = [p EXCEPT !.pc = "find"]
        BY <3>1, <3>4 DEF Pending
      <3>5. CASE p' = [p EXCEPT !.pc = "fit", !.first = first, !.maxRunners = limit]
        BY <3>1, <3>5 DEF Pending
      <3> QED
        BY <3>2, <3>3, <3>4, <3>5
    <2> QED
      BY <1>1, <1>7, <1>9, <2>2 DEF PSnapshot, chans, env
  <1>10. CASE UpdateFreeSpace \/ ResumeServer \/ LoadNeedsEviction
    <2>1. /\ p'.pc \in {"space", "loading", "find"}
          /\ p'.scan \subseteq Known /\ p'.head = p.head
      BY <1>0, <1>1, <1>10 DEF UpdateFreeSpace, ResumeServer, LoadNeedsEviction, GoodPending, Pending
    <2> QED
      BY <1>1, <1>7, <1>10, <2>1 DEF UpdateFreeSpace, ResumeServer, LoadNeedsEviction, chans, env
  <1>11. CASE PanicOtherModel \/ PanicNilActive
    BY <1>1, <1>7, <1>11 DEF PanicOtherModel, PanicNilActive, chans
  <1>12. CASE FindRunnerToUnload
    <2>1. /\ p'.pc \in {"snap", "scan"}
          /\ p'.scan \subseteq Known /\ p'.head \in Opt(Known)
      BY ZenonT(60), <1>0, <1>1, <1>12 DEF FindRunnerToUnload, GoodPending, Pending, Opt
    <2> QED
      BY <1>1, <1>7, <1>12, <2>1 DEF FindRunnerToUnload, chans, env
  <1>13. ASSUME NEW r \in Req, UpdateFreeSpaceOf(r) \/ Scan(r) PROVE KnownInv'
    <2>1. CASE UpdateFreeSpaceOf(r)
      <3>1. p'.pc = "space" /\ p'.scan \subseteq Known /\ p'.head = p.head
        BY <1>0, <1>1, <2>1 DEF UpdateFreeSpaceOf, GoodPending, Pending
      <3> QED
        BY <1>1, <1>7, <2>1, <3>1 DEF UpdateFreeSpaceOf, chans, env
    <2>2. CASE Scan(r)
      <3>1. r \in Known /\ p.head \in Known
        BY <1>0, <1>1, <2>2, ReqAssumption DEF Scan, IsFirst, GoodPending, Opt
      <3>2. /\ p'.pc = "scan" \/ p'.run \in Known
            /\ p'.scan \subseteq Known /\ p'.head \in Opt(Known)
        BY <1>0, <1>1, <2>2, <3>1 DEF Scan, GoodPending, Pending, Opt
      <3> QED
        BY <1>1, <1>7, <2>2, <3>2 DEF Scan, chans, env
    <2> QED
      BY <1>13, <2>1, <2>2
  <1> QED
    BY <1>2, <1>3, <1>4, <1>5, <1>6, <1>8, <1>9, <1>10, <1>11, <1>12, <1>13
       DEF processPending, load

\* A step keeps the mutexes the loops hold unless it is the loop that releases one.
LEMMA MutexFrame ==
    ASSUME Typed, MutexInv,
           \A r \in Req : runner[r].refMu \in {"completed", "vram", "pending"} =>
                            runner'[r].refMu = runner[r].refMu
    PROVE  /\ UNCHANGED c => /\ c'.pc = "send" => runner'[c'.run].refMu = "completed"
                             /\ c'.pc = "vram" => runner'[c'.run].refMu = "vram"
           /\ UNCHANGED p => (p'.pc = "send" => runner'[p'.run].refMu = "pending")
  <1>1. /\ c.pc \in {"send", "vram"} => c.run \in Req
        /\ p.pc = "send" => p.run \in Req
    BY DEF Typed, COK, POK, GoodCompleted, GoodPending
  <1> QED
    BY <1>1 DEF MutexInv

\* Nobody but the two loops touches the mutexes they hold.
LEMMA OthersMutex ==
    ASSUME Typed, MutexInv,
           \/ \E q \in Req : Handler(q) \/ Client(q) \/ Goroutines(q)
           \/ \E s \in Stop : expireRunner(s)
           \/ Shutdown \/ unloadAllRunners
    PROVE  MutexInv'
  <1>0. runner \in [Req -> GoodRunners]
    BY DEF Typed, RunnerOK
  <1>1. ASSUME UNCHANGED <<p, c>>,
               \A r \in Req : runner[r].refMu \in {"completed", "vram", "pending"} =>
                                runner'[r].refMu = runner[r].refMu
        PROVE  MutexInv'
    BY <1>1, MutexFrame DEF MutexInv
  <1>2. ASSUME NEW q \in Req, Handler(q) \/ Client(q) PROVE MutexInv'
    <2>1. CASE Use(q)
      BY <1>0, <1>1, <2>1, LoaderKept DEF Use, useLoadedRunner
    <2>2. CASE UNCHANGED <<p, c, runner>>
      BY <1>1, <2>2
    <2> QED
      BY <1>2, <2>1, <2>2
         DEF Handler, Client, Lookup, NeedsReload, Enqueue, Busy, Complete, Cancel, SendFinished
  <1>3. ASSUME NEW r \in Req, Goroutines(r) PROVE MutexInv'
    <2>1. \A x \in Req \ {r} : runner'[x] = runner[x]
      BY <1>0, <1>3 DEF Goroutines, Running, NotRunning, TimerFires, TimerCallback, SendExpired,
                        SendAndUnlock, Retry
    <2>2. \/ runner[r].refMu \in {"load", "free"} \cup Detached
          \/ runner'[r].refMu = runner[r].refMu
      <3>1. CASE Running(r) \/ NotRunning(r) \/ TimerCallback(r) \/ SendExpired(r)
        BY <3>1 DEF Running, NotRunning, TimerCallback, Free, SendExpired
      <3>2. CASE TimerFires(r) \/ Retry(r)
        BY ZenonT(60), <1>0, <3>2 DEF TimerFires, Retry, GoodRunners, Runners
      <3> QED
        BY <1>3, <3>1, <3>2 DEF Goroutines
    <2>3. UNCHANGED <<p, c>>
      BY <1>3 DEF Goroutines, Running, NotRunning, TimerFires, TimerCallback, SendExpired, Retry
    <2> QED
      BY SMTT(40), <1>1, <2>1, <2>2, <2>3 DEF Detached
  <1>4. ASSUME NEW s \in Stop, expireRunner(s) PROVE MutexInv'
    <2>1. CASE ExpireLookup(s)
      BY <1>1, <2>1 DEF ExpireLookup
    <2>2. CASE ExpireRunner(s)
      BY <1>0, <1>1, <2>2 DEF ExpireRunner, Free
    <2> QED
      BY <1>4, <2>1, <2>2 DEF expireRunner
  <1>5. CASE Shutdown \/ unloadAllRunners
    <2>1. \A r \in Req : runner'[r].refMu = runner[r].refMu
      <3>1. CASE Shutdown
        BY <3>1 DEF Shutdown
      <3>2. CASE unloadAllRunners
        BY <1>0, <3>2 DEF unloadAllRunners, GoodRunners, Runners
      <3> QED
        BY <1>5, <3>1, <3>2
    <2> QED
      BY <1>1, <1>5, <2>1 DEF Shutdown, unloadAllRunners
  <1> QED
    BY <1>2, <1>3, <1>4, <1>5

\* processCompleted releases only its own mutex, and takes only a free one.
LEMMA CompletedMutex ==
    ASSUME Typed, MutexInv, processCompleted
    PROVE  MutexInv'
  <1>0. /\ runner \in [Req -> GoodRunners] /\ c \in GoodCompleted /\ p \in GoodPending
        /\ c.pc \in {"finish", "expired", "send", "vram"} => c.run \in Req
        /\ p.pc = "send" => p.run \in Req
        /\ UNCHANGED p
    BY DEF Typed, RunnerOK, COK, POK, GoodCompleted, GoodPending, processCompleted,
           CRecvFinished, CFinish, CSendExpired, CRecvExpired, CRetry, CDuplicate, COrphan,
           CUnload, CRecovered, CNotify, CExit
  <1>1. ASSUME p.pc = "send" => runner'[p.run].refMu = "pending",
               c'.pc = "send" => runner'[c'.run].refMu = "completed",
               c'.pc = "vram" => runner'[c'.run].refMu = "vram"
        PROVE  MutexInv'
    BY <1>0, <1>1 DEF MutexInv
  <1>2. CASE CFinish
    <2> DEFINE ref == [runner[c.run] EXCEPT !.refCount = Decrement(runner[c.run].refCount)]
    <2>1. /\ c.run \in Req /\ ref.refMu = "free" /\ runner[c.run].refMu = "free"
          /\ ref.dur = 0 => GoneIdle(ref).refMu = "completed"
      BY <1>0, <1>2 DEF CFinish, Free, GoneIdle, GoodRunners, Runners
    <2>2. \A x \in Req \ {c.run} : runner'[x] = runner[x]
      BY <1>0, <1>2 DEF CFinish
    <2>3. p.pc = "send" => runner'[p.run].refMu = "pending"
      BY <1>0, <2>1, <2>2 DEF MutexInv
    <2>4. c'.pc = "send" => /\ ref.refCount = 0 /\ ref.dur = 0 /\ c'.run = c.run
                            /\ runner'[c.run] = GoneIdle(ref)
      BY <1>0, <1>2, <2>1 DEF CFinish, CIdle, GoodCompleted, Completed
    <2>5. c'.pc # "vram"
      BY <1>0, <1>2 DEF CFinish, CIdle, GoodCompleted, Completed
    <2> QED
      BY <1>1, <2>1, <2>3, <2>4, <2>5
  <1>3. CASE CUnload
    <2>1. /\ c.run \in Req /\ runner[c.run].refMu = "free" /\ runner'[c.run].refMu = "vram"
          /\ \A x \in Req \ {c.run} : runner'[x] = runner[x]
      BY <1>0, <1>3 DEF CUnload, Free, Unload, GoodRunners, Runners
    <2>2. c'.run = c.run /\ c'.pc = "vram"
      BY <1>0, <1>3 DEF CUnload, GoodCompleted, Completed
    <2> QED
      BY <1>0, <1>1, <2>1, <2>2 DEF MutexInv
  <1>4. CASE CSendExpired \/ CRecovered
    <2>1. c.run \in Req /\ runner[c.run].refMu # "pending" /\ c'.pc \notin {"send", "vram"}
      <3>1. CASE CSendExpired
        BY <1>0, <3>1 DEF CSendExpired, CIdle, MutexInv
      <3>2. CASE CRecovered
        BY <1>0, <3>2 DEF CRecovered, MutexInv, GoodCompleted, Completed
      <3> QED
        BY <1>4, <3>1, <3>2
    <2>2. \A x \in Req \ {c.run} : runner'[x] = runner[x]
      BY <1>0, <1>4 DEF CSendExpired, SendAndUnlock, CRecovered
    <2> QED
      BY <1>0, <1>1, <2>1, <2>2 DEF MutexInv
  <1>5. CASE CRetry \/ COrphan
    <2>1. \A r \in Req : runner'[r].refMu = runner[r].refMu
      <3>1. CASE CRetry
        BY <1>0, <3>1 DEF CRetry, GoodRunners, Runners
      <3>2. CASE COrphan
        BY <1>0, <3>2 DEF COrphan, Unload, GoodRunners, Runners
      <3> QED
        BY <1>5, <3>1, <3>2
    <2>2. c'.pc = "idle"
      BY <1>5 DEF CRetry, COrphan, CIdle
    <2> QED
      BY <1>0, <1>1, <2>1, <2>2 DEF MutexInv
  <1>6. CASE CRecvFinished \/ CRecvExpired \/ CDuplicate \/ CNotify \/ CExit
    <2>1. UNCHANGED runner
      BY <1>6 DEF CRecvFinished, CRecvExpired, CDuplicate, CNotify, CExit
    <2>2. c'.pc \notin {"send", "vram"}
      BY <1>0, <1>6 DEF CRecvFinished, CRecvExpired, CDuplicate, CNotify, CExit, CIdle,
                        GoodCompleted, Completed
    <2> QED
      BY <1>0, <1>1, <2>1, <2>2 DEF MutexInv
  <1> QED
    BY <1>2, <1>3, <1>4, <1>5, <1>6 DEF processCompleted

\* processPending likewise; the server it loads is new, and nobody holds its mutex.
LEMMA PendingMutex ==
    ASSUME Typed, LoadInv, AnswerInv, KnownInv, MutexInv, processPending
    PROVE  MutexInv'
  <1>0. /\ runner \in [Req -> GoodRunners] /\ c \in GoodCompleted /\ p \in GoodPending
        /\ c.pc \in {"send", "vram"} => c.run \in Req
        /\ UNCHANGED c
    BY DEF Typed, RunnerOK, COK, POK, GoodCompleted, processPending, load, PRecv, PUnloaded,
           PExit, PSnapshot, PNeedsReload, PUse, LoadModelFails, UpdateFreeSpace, NewServer,
           NewServerFails, ResumeServer, PanicOtherModel, LoadSucceeds, LoadNeedsEviction,
           LoadFails, PanicNilActive, FindRunnerToUnload, PExpire, PSendExpired,
           UpdateFreeSpaceOf, Scan
  <1>1. ASSUME \A r \in Req : runner[r].refMu \in {"completed", "vram"} =>
                                runner'[r].refMu = runner[r].refMu,
               p'.pc = "send" => runner'[p'.run].refMu = "pending"
        PROVE  MutexInv'
    BY <1>0, <1>1 DEF MutexInv
  <1>2. CASE PExpire
    <2>1. p.run \in Req /\ runner[p.run].refMu = "free"
      BY <1>0, <1>2 DEF PExpire, Free, GoodPending
    <2>2. \A x \in Req \ {p.run} : runner'[x] = runner[x]
      BY <1>0, <1>2 DEF PExpire
    <2>3. p'.pc = "send" => p'.run = p.run /\ runner'[p.run].refMu = "pending"
      BY <1>0, <1>2, <2>1 DEF PExpire, Marked, GoodPending, Pending, GoodRunners, Runners
    <2> QED
      BY <1>1, <2>1, <2>2, <2>3
  <1>3. CASE PSendExpired
    <2>1. p.run \in Req /\ runner[p.run].refMu = "pending" /\ p'.pc # "send"
      BY <1>0, <1>3 DEF PSendExpired, MutexInv, GoodPending, Pending
    <2>2. \A x \in Req \ {p.run} : runner'[x] = runner[x]
      BY <1>0, <1>3 DEF PSendExpired, SendAndUnlock
    <2> QED
      BY <1>1, <2>1, <2>2
  <1>4. CASE LoadSucceeds
    <2>1. p.run \in Req /\ p.run \notin Known
      BY <1>0, <1>4, ReqAssumption DEF LoadSucceeds, LoadInv, AnswerInv, Fresh, GoodPending
    <2>2. runner[p.run].refMu = "free"
      BY <2>1 DEF KnownInv, UnknownUntouched
    <2>3. \A x \in Req \ {p.run} : runner'[x] \in {runner[x], Unload(runner[x])}
      BY <1>0, <1>4, <2>1 DEF LoadSucceeds
    <2>4. \A x \in Req \ {p.run} : runner'[x].refMu = runner[x].refMu
      BY <1>0, <2>3, LoaderKept
    <2>5. p'.pc = "idle"
      BY <1>0, <1>4 DEF LoadSucceeds, Idle, GoodPending, Pending
    <2> QED
      BY <1>1, <2>2, <2>4, <2>5
  <1>5. CASE PUse
    <2>1. p'.pc = "idle" /\ p.req \in Req
      BY <1>0, <1>5 DEF PUse, Idle, GoodPending, Pending
    <2>2. \A r \in Req : runner'[r].refMu = runner[r].refMu
      BY <1>0, <1>5, <2>1, LoaderKept DEF PUse, useLoadedRunner
    <2> QED
      BY <1>1, <2>1, <2>2
  <1>6. CASE NewServer \/ LoadFails
    <2>1. p'.pc \in {"loading", "idle"}
      BY <1>0, <1>6 DEF NewServer, LoadFails, Refuse, Idle, GoodPending, Pending
    <2>2. \A r \in Req : runner'[r].refMu = runner[r].refMu
      <3>1. CASE NewServer
        BY <1>0, <3>1 DEF NewServer, GoodRunners, Runners
      <3>2. CASE LoadFails
        BY <1>0, <3>2 DEF LoadFails, GoodRunners, Runners
      <3> QED
        BY <1>6, <3>1, <3>2
    <2> QED
      BY <1>1, <2>1, <2>2
  <1>7. CASE UNCHANGED runner /\ p'.pc # "send"
    BY <1>1, <1>7
  <1>8. CASE PRecv \/ PUnloaded \/ PExit \/ PSnapshot \/ PNeedsReload
    BY <1>0, <1>7, <1>8 DEF PRecv, PUnloaded, Again, PExit, PSnapshot, PNeedsReload,
                            GoodPending, Pending
  <1>9. CASE LoadModelFails \/ NewServerFails \/ UpdateFreeSpace \/ ResumeServer
    BY <1>0, <1>7, <1>9 DEF LoadModelFails, NewServerFails, Refuse, Idle, UpdateFreeSpace,
                            ResumeServer, GoodPending, Pending
  <1>10. CASE LoadNeedsEviction \/ FindRunnerToUnload \/ PanicOtherModel \/ PanicNilActive
    BY <1>0, <1>7, <1>10 DEF LoadNeedsEviction, FindRunnerToUnload, PanicOtherModel,
                             PanicNilActive, GoodPending, Pending
  <1>11. ASSUME NEW r \in Req, UpdateFreeSpaceOf(r) \/ Scan(r) PROVE MutexInv'
    BY <1>0, <1>7, <1>11 DEF UpdateFreeSpaceOf, Scan, GoodPending, Pending
  <1> QED
    BY <1>2, <1>3, <1>4, <1>5, <1>6, <1>8, <1>9, <1>10, <1>11 DEF processPending, load

-----------------------------------------------------------------------------
(* The theorems.                                                           *)

\* Together the invariants are inductive.
Inv == Typed /\ LoadInv /\ AnswerInv /\ KnownInv /\ MutexInv

\* Nobody has asked for anything yet.
LEMMA InvInit == Init => Inv
  <1> SUFFICES ASSUME Init PROVE Inv
    OBVIOUS
  <1>1. Typed /\ LoadInv
    BY TypedInit, LoadInvInit
  <1>2. Known = {} /\ (\A q \in Req : ~InQueue(q) /\ ~AwaitsRunner(q))
    BY DEF Init, Known, InQueue, AwaitsRunner
  <1>3. Exclusive /\ Once /\ Fresh
    BY <1>2, ReqAssumption DEF Init, Exclusive, Once, Fresh, Early
  <1>4. AnsweredOnce /\ NoLostRequest
    BY DEF Init, AnsweredOnce, NoLostRequest
  <1>5. KnownInv
    BY <1>2 DEF Init, KnownInv, KnownReq, KnownLoaded, KnownExpired, KnownC, KnownStop, KnownP,
                UnknownUntouched, Opt
  <1>6. MutexInv
    BY DEF Init, MutexInv
  <1> QED
    BY <1>1, <1>3, <1>4, <1>5, <1>6 DEF Inv, AnswerInv

\* Every step keeps them.
LEMMA InvNext == Inv /\ [Next]_vars => Inv'
  <1> SUFFICES ASSUME Inv, [Next]_vars PROVE Inv'
    OBVIOUS
  <1>0. Typed /\ LoadInv /\ AnswerInv /\ KnownInv /\ MutexInv
    BY DEF Inv
  <1>1. Typed' /\ LoadInv'
    BY <1>0, TypedNext, LoadInvNext
  <1>2. CASE UNCHANGED vars
    <2>1. AnswerInv' /\ KnownInv'
      <3>1. Known' = Known
        BY <1>2 DEF vars, Known
      <3> QED
        BY <1>0, <1>2, <3>1, RunnersKept, KnownFrame DEF vars, chans, maps, env, KnownInv
    <2>2. MutexInv'
      BY <1>0, <1>2 DEF vars, MutexInv
    <2> QED
      BY <1>1, <2>1, <2>2 DEF Inv
  <1>3. CASE processPending
    BY <1>0, <1>1, <1>3, PendingAnswers, PendingKnown, PendingMutex DEF Inv
  <1>4. CASE processCompleted
    BY <1>0, <1>1, <1>4, CompletedAnswers, CompletedKnown, CompletedMutex DEF Inv
  <1>5. ASSUME NEW q \in Req, Handler(q) \/ Client(q) \/ Goroutines(q) PROVE Inv'
    <2>1. AnswerInv'
      BY <1>0, <1>5, HandlerAnswers, ClientAnswers, GoroutinesAnswers
    <2>2. KnownInv'
      BY <1>0, <1>5, HandlerKnown, GoroutinesKnown
    <2>3. MutexInv'
      BY <1>0, <1>5, OthersMutex
    <2> QED
      BY <1>1, <2>1, <2>2, <2>3 DEF Inv
  <1>6. ASSUME NEW s \in Stop, expireRunner(s) PROVE Inv'
    BY <1>0, <1>1, <1>6, StopAnswers, StopKnown, OthersMutex DEF Inv
  <1>7. CASE Shutdown \/ unloadAllRunners
    BY <1>0, <1>1, <1>7, ShutdownAnswers, ShutdownKnown, OthersMutex DEF Inv
  <1> QED
    BY <1>2, <1>3, <1>4, <1>5, <1>6, <1>7 DEF Next, Serve

\* No request is answered twice on successCh and errCh, and a runner is handed out
\* exactly with an "ok": at every moment at most one goroutine owes the answer.
THEOREM OneAnswer == Spec => []AnsweredOnce
  <1>1. Inv => AnsweredOnce
    BY DEF Inv, AnswerInv
  <1> QED
    BY <1>1, InvInit, InvNext, PTL DEF Spec

\* A request whose client waits is never dropped: it is in the queue, in the hands of
\* processPending or waiting for its runner, until it is answered.
THEOREM NoRequestLost == Spec => []NoLostRequest
  <1>1. Inv => NoLostRequest
    BY DEF Inv, AnswerInv
  <1> QED
    BY <1>1, InvInit, InvNext, PTL DEF Spec
=============================================================================
