----------------------------- MODULE Threadpool -----------------------------
(***************************************************************************)
(* The thread pool of ggml-cpu.c, which computes the graphs the runners    *)
(* build, as compiled without OpenMP.                                      *)
(*                                                                         *)
(* Thread 0 is the caller of ggml_graph_compute; the others are workers    *)
(* that poll for a new graph, then sleep on a condition variable.  Every   *)
(* access to an atomic is a step.  The mutex is only held by sections that *)
(* do not block (ggml_cond_wait gives it up), so each section is a step.   *)
(* Atomics are read and written in one order: the relaxed accesses are     *)
(* ordered by the seq_cst read-modify-writes and fences next to them.      *)
(*                                                                         *)
(* A disposable pool is a persistent one that computes one graph.          *)
(***************************************************************************)
EXTENDS Integers, Sequences, FiniteSets, Bags

CONSTANTS
    PoolThreads,  \* threadpool->n_threads
    Graphs,       \* the graphs computed, in order: [n_threads, nodes]; a node
                  \* is [op, chunks], op being "nop", "mul_mat" or any other
    MayAbort,     \* is there an abort callback?
    MayPause,     \* is the pool paused between graphs, and created paused?
    GraphMod      \* the graph count in n_graph wraps around here (2^16 in the code)

ASSUME PoolAssumption ==
    /\ PoolThreads \in Nat \ {0}
    /\ Graphs \in Seq([n_threads : Nat \ {0}, nodes : Seq([op : STRING, chunks : Nat])])
    /\ MayAbort \in BOOLEAN /\ MayPause \in BOOLEAN
    /\ GraphMod \in Nat \ {0}

Thread == 0 .. PoolThreads - 1
Worker == Thread \ {0}

VARIABLES
    n_graph,           \* [count, n_threads], packed in one atomic
    n_barrier, n_barrier_passed,
    current_chunk,
    stop, pause,
    abort,             \* the node not to be computed any more, or -1
    ec,                \* "ok" or "aborted"
    cgraph,            \* the graph to compute: an index of Graphs
    asleep,            \* the threads in ggml_cond_wait
    th,                \* the state and the locals of each thread
    done               \* history: the bag of work done for cgraph

shared == <<n_graph, n_barrier, n_barrier_passed, current_chunk, stop, pause, abort, ec,
            cgraph, asleep, done>>
vars == <<shared, th>>

\* Where a thread is.  "b_" is ggml_barrier, which returns to `ret'.
Pc == {"top", "paused", "stop", "poll", "poll_graph", "check", "start",     \* workers
       "idle", "kick", "join", "freed",                                     \* thread 0
       "node", "work", "chunk", "next_chunk", "after", "next", "done",      \* both
       "b_enter", "b_passed", "b_add", "b_reset", "b_exit", "b_spin", "exit"}

ThreadState == [
    pc : Pc, ret : Pc,
    last_graph : [count : Nat, n_threads : Nat], pending : BOOLEAN,
    graph : Nat, nth : Nat, node : Nat,          \* ggml_graph_compute_thread
    chunk : Nat,                                 \* ggml_compute_forward_mul_mat
    n_threads : Nat, n_passed : Nat]             \* ggml_barrier

TypeOK ==
    /\ n_graph \in [count : 0 .. GraphMod - 1, n_threads : 0 .. PoolThreads]
    /\ n_barrier \in 0 .. PoolThreads
    /\ n_barrier_passed \in Nat /\ current_chunk \in Nat
    /\ stop \in BOOLEAN /\ pause \in BOOLEAN
    /\ abort \in Int /\ ec \in {"ok", "aborted"}
    /\ cgraph \in 0 .. Len(Graphs)
    /\ asleep \subseteq Worker
    /\ th \in [Thread -> ThreadState]
    /\ IsABag(done)

Init ==
    /\ n_graph = [count |-> 0, n_threads |-> 0]
    /\ n_barrier = 0 /\ n_barrier_passed = 0 /\ current_chunk = 0
    /\ stop = FALSE /\ pause \in {FALSE, MayPause}
    /\ abort = -1 /\ ec = "ok" /\ cgraph = 0
    /\ asleep = {}
    /\ th = [t \in Thread |->
               [pc |-> IF t = 0 THEN "idle" ELSE "top", ret |-> "top",
                last_graph |-> n_graph, pending |-> FALSE,
                graph |-> 0, nth |-> 0, node |-> 0, chunk |-> 0,
                n_threads |-> 0, n_passed |-> 0]]
    /\ done = EmptyBag

At(t, pc) == th[t].pc = pc
GoTo(t, pc) == th' = [th EXCEPT ![t].pc = pc]

\* ggml_barrier is called, and control goes on at `ret' behind it.
Barrier(t, ret) == th' = [th EXCEPT ![t].pc = "b_enter", ![t].ret = ret]

-----------------------------------------------------------------------------
(* ggml_barrier.                                                           *)

BarrierEnter(t) ==
    /\ At(t, "b_enter")
    /\ th' = [th EXCEPT ![t].n_threads = n_graph.n_threads,
                        ![t].pc = IF n_graph.n_threads = 1 THEN th[t].ret ELSE "b_passed"]
    /\ UNCHANGED shared

BarrierReadPassed(t) ==
    /\ At(t, "b_passed")
    /\ th' = [th EXCEPT ![t].n_passed = n_barrier_passed, ![t].pc = "b_add"]
    /\ UNCHANGED shared

BarrierAdd(t) ==
    /\ At(t, "b_add")
    /\ n_barrier' = n_barrier + 1
    /\ GoTo(t, IF n_barrier = th[t].n_threads - 1 THEN "b_reset" ELSE "b_spin")
    /\ UNCHANGED <<n_graph, n_barrier_passed, current_chunk, stop, pause, abort, ec, cgraph,
                   asleep, done>>

\* The last thread resets the count before it lets the others go.
BarrierNoReset(t) ==
    /\ At(t, "b_reset")
    /\ GoTo(t, "b_exit")
    /\ UNCHANGED shared
BarrierReset(t) ==
    /\ At(t, "b_reset")
    /\ n_barrier' = 0
    /\ GoTo(t, "b_exit")
    /\ UNCHANGED <<n_graph, n_barrier_passed, current_chunk, stop, pause, abort, ec, cgraph,
                   asleep, done>>

BarrierExit(t) ==
    /\ At(t, "b_exit")
    /\ n_barrier_passed' = n_barrier_passed + 1
    /\ GoTo(t, th[t].ret)
    /\ UNCHANGED <<n_graph, n_barrier, current_chunk, stop, pause, abort, ec, cgraph, asleep,
                   done>>

BarrierSpin(t) ==
    /\ At(t, "b_spin")
    /\ n_barrier_passed # th[t].n_passed
    /\ GoTo(t, th[t].ret)
    /\ UNCHANGED shared

ggml_barrier(t) ==
    \/ BarrierEnter(t) \/ BarrierReadPassed(t) \/ BarrierAdd(t)
    \/ BarrierReset(t) \/ BarrierExit(t) \/ BarrierSpin(t)

-----------------------------------------------------------------------------
(* ggml_graph_compute_thread, and the two kinds of operations.             *)

Nodes(t) == Graphs[th[t].graph].nodes
Node(t) == Nodes(t)[th[t].node + 1]

\* The number of chunks of a matrix product: too few, and there is one per thread.
NChunk(node, nth) == IF node.chunks < nth * 4 THEN nth ELSE node.chunks

\* The head of the loop over the nodes.
NextNodeNoBarrier(t) ==
    /\ At(t, "node")
    /\ LET s == th[t] IN
       IF s.node = Len(Nodes(t)) \/ abort = s.node
       THEN GoTo(t, "done")
       ELSE IF Node(t).op = "nop" THEN th' = [th EXCEPT ![t].node = s.node + 1]
            ELSE GoTo(t, "work")
    /\ UNCHANGED shared
NextNode(t) ==
    /\ At(t, "node")
    /\ LET s == th[t] IN
       IF s.node = Len(Nodes(t)) \/ abort = s.node
       THEN Barrier(t, "done")
       ELSE IF Node(t).op = "nop" THEN th' = [th EXCEPT ![t].node = s.node + 1]
            ELSE GoTo(t, "work")
    /\ UNCHANGED shared

Did(t, phase, i) ==
    done' = done (+) SetToBag({[node |-> th[t].node, phase |-> phase, i |-> i]})

\* A thread's share of an operation.  A matrix product first converts its operand, a
\* share per thread; thread 0 sets the first chunk nobody starts with.
ShareNoBarrier(t) ==
    /\ At(t, "work")
    /\ Did(t, 0, t)
    /\ IF Node(t).op # "mul_mat"
       THEN GoTo(t, "after") /\ UNCHANGED current_chunk
       ELSE /\ current_chunk' = IF t = 0 THEN th[t].nth ELSE current_chunk
            /\ th' = [th EXCEPT ![t].chunk = t, ![t].pc = "chunk"]
    /\ UNCHANGED <<n_graph, n_barrier, n_barrier_passed, stop, pause, abort, ec, cgraph, asleep>>
Share(t) ==
    /\ At(t, "work")
    /\ Did(t, 0, t)
    /\ IF Node(t).op # "mul_mat"
       THEN GoTo(t, "after") /\ UNCHANGED current_chunk
       ELSE /\ current_chunk' = IF t = 0 THEN th[t].nth ELSE current_chunk
            /\ th' = [th EXCEPT ![t].chunk = t, ![t].pc = "b_enter", ![t].ret = "chunk"]
    /\ UNCHANGED <<n_graph, n_barrier, n_barrier_passed, stop, pause, abort, ec, cgraph, asleep>>

Chunk(t) ==
    /\ At(t, "chunk")
    /\ LET n == NChunk(Node(t), th[t].nth) IN
       IF th[t].chunk < n
       THEN Did(t, 1, th[t].chunk) /\ GoTo(t, IF th[t].nth >= n THEN "after" ELSE "next_chunk")
       ELSE GoTo(t, "after") /\ UNCHANGED done
    /\ UNCHANGED <<n_graph, n_barrier, n_barrier_passed, current_chunk, stop, pause, abort, ec,
                   cgraph, asleep>>

NextChunk(t) ==
    /\ At(t, "next_chunk")
    /\ th' = [th EXCEPT ![t].chunk = current_chunk, ![t].pc = "chunk"]
    /\ current_chunk' = current_chunk + 1
    /\ UNCHANGED <<n_graph, n_barrier, n_barrier_passed, stop, pause, abort, ec, cgraph, asleep,
                   done>>

\* Behind a node thread 0 asks the abort callback; then all meet, unless it was the last.
After(t) ==
    /\ At(t, "after")
    /\ \E quit \in {FALSE, MayAbort /\ t = 0} :
       /\ abort' = IF quit THEN th[t].node + 1 ELSE abort
       /\ ec' = IF quit THEN "aborted" ELSE ec
    /\ IF th[t].node + 1 < Len(Nodes(t)) THEN Barrier(t, "next") ELSE GoTo(t, "next")
    /\ UNCHANGED <<n_graph, n_barrier, n_barrier_passed, current_chunk, stop, pause, cgraph,
                   asleep, done>>

Next_(t) ==
    /\ At(t, "next")
    /\ th' = [th EXCEPT ![t].node = th[t].node + 1, ![t].pc = "node"]
    /\ UNCHANGED shared

\* The graph, the number of threads and the first node, as a thread starts a graph.
ComputeStart(t) ==
    /\ At(t, "start")
    /\ th' = [th EXCEPT ![t].pending = FALSE, ![t].graph = cgraph,
                        ![t].nth = n_graph.n_threads, ![t].node = 0, ![t].pc = "node"]
    /\ UNCHANGED shared

\* A thread is through with a graph.
ComputeDone(t) ==
    /\ At(t, "done")
    /\ th' = [th EXCEPT ![t] = [@ EXCEPT !.pc = IF t = 0 THEN "idle" ELSE "top", !.ret = "top",
                                  !.graph = 0, !.nth = 0, !.node = 0, !.chunk = 0,
                                  !.n_threads = 0, !.n_passed = 0]]
    /\ UNCHANGED shared

ggml_graph_compute_thread(t) ==
    \/ ComputeStart(t) \/ NextNode(t) \/ Share(t) \/ Chunk(t) \/ NextChunk(t)
    \/ After(t) \/ Next_(t) \/ ComputeDone(t) \/ ggml_barrier(t)

-----------------------------------------------------------------------------
(* ggml_graph_compute_secondary_thread.                                    *)

Top(t) ==
    /\ At(t, "top")
    /\ GoTo(t, IF pause THEN "paused" ELSE "stop")
    /\ UNCHANGED shared

\* Under the mutex: sleep while paused.  A wake-up goes round the loop again.
Paused(t) ==
    /\ At(t, "paused")
    /\ GoTo(t, "top")
    /\ asleep' = IF pause THEN asleep \cup {t} ELSE asleep
    /\ UNCHANGED <<n_graph, n_barrier, n_barrier_passed, current_chunk, stop, pause, abort, ec,
                   cgraph, done>>

StopCheck(t) ==
    /\ At(t, "stop")
    /\ GoTo(t, IF stop THEN "exit" ELSE "poll")
    /\ UNCHANGED shared

\* The state after ggml_graph_compute_thread_ready looked at n_graph.
Seen(s, t) ==
    IF n_graph = s.last_graph THEN s
    ELSE [s EXCEPT !.pending = (t < n_graph.n_threads), !.last_graph = n_graph]

\* A round of polling: stop or pause ends it, and so does a new graph.  Rounds are
\* limited, so the thread may give up polling and go for the mutex.
Poll(t) ==
    /\ At(t, "poll")
    /\ GoTo(t, IF stop \/ pause THEN "check" ELSE "poll_graph")
    /\ UNCHANGED shared

PollGraph(t) ==
    /\ At(t, "poll_graph")
    /\ \E pc \in {"poll", "check", "start"} :
       /\ pc = "poll" => n_graph = th[t].last_graph
       /\ pc = "start" <=> Seen(th[t], t).pending
       /\ th' = [th EXCEPT ![t] = [Seen(th[t], t) EXCEPT !.pc = pc]]
    /\ UNCHANGED shared

\* Under the mutex: sleep until there is a new graph, or the pool stops or pauses.
Check(t) ==
    /\ At(t, "check")
    /\ LET s == IF stop \/ pause THEN th[t] ELSE Seen(th[t], t) IN
       IF stop \/ pause \/ s # th[t]
       THEN /\ th' = [th EXCEPT ![t] = [s EXCEPT !.pc = IF s.pending THEN "start" ELSE "top"]]
            /\ UNCHANGED asleep
       ELSE asleep' = asleep \cup {t} /\ UNCHANGED th
    /\ UNCHANGED <<n_graph, n_barrier, n_barrier_passed, current_chunk, stop, pause, abort, ec,
                   cgraph, done>>

secondary_thread(t) ==
    /\ t \notin asleep
    /\ Top(t) \/ Paused(t) \/ StopCheck(t) \/ Poll(t) \/ PollGraph(t) \/ Check(t)

\* POSIX lets ggml_cond_wait return without a broadcast.
SpuriousWakeup(t) ==
    /\ t \in asleep
    /\ asleep' = asleep \ {t}
    /\ UNCHANGED <<n_graph, n_barrier, n_barrier_passed, current_chunk, stop, pause, abort, ec,
                   cgraph, th, done>>

-----------------------------------------------------------------------------
(* Thread 0: ggml_graph_compute, and the pool's life around it.            *)

Broadcast == asleep' = {}

\* The parameters are reset for the next graph ...
Reset ==
    /\ At(0, "idle") /\ cgraph < Len(Graphs)
    /\ cgraph' = cgraph + 1
    /\ current_chunk' = 0 /\ abort' = -1 /\ ec' = "ok"
    /\ done' = EmptyBag
    /\ GoTo(0, "kick")
    /\ UNCHANGED <<n_graph, n_barrier, n_barrier_passed, stop, pause, asleep>>

\* ... and ggml_graph_compute_kickoff, under the mutex, wakes the pool.
KickoffNoResume ==
    /\ At(0, "kick")
    /\ n_graph' = [count |-> (n_graph.count + 1) % GraphMod,
                   n_threads |-> IF Graphs[cgraph].n_threads > PoolThreads THEN PoolThreads
                                 ELSE Graphs[cgraph].n_threads]
    /\ Broadcast
    /\ GoTo(0, "start")
    /\ UNCHANGED <<n_barrier, n_barrier_passed, current_chunk, stop, pause, abort, ec, cgraph,
                   done>>
Kickoff ==
    /\ At(0, "kick")
    /\ n_graph' = [count |-> (n_graph.count + 1) % GraphMod,
                   n_threads |-> IF Graphs[cgraph].n_threads > PoolThreads THEN PoolThreads
                                 ELSE Graphs[cgraph].n_threads]
    /\ pause' = FALSE
    /\ Broadcast
    /\ GoTo(0, "start")
    /\ UNCHANGED <<n_barrier, n_barrier_passed, current_chunk, stop, abort, ec, cgraph, done>>

\* ggml_threadpool_pause and ggml_threadpool_resume.
SetPause ==
    /\ At(0, "idle") /\ MayPause
    /\ pause' = ~pause
    /\ Broadcast
    /\ UNCHANGED <<n_graph, n_barrier, n_barrier_passed, current_chunk, stop, abort, ec, cgraph,
                   th, done>>

\* ggml_threadpool_free stops the workers and joins them.
Free ==
    /\ At(0, "idle")
    /\ stop' = TRUE /\ pause' = FALSE
    /\ Broadcast
    /\ GoTo(0, "join")
    /\ UNCHANGED <<n_graph, n_barrier, n_barrier_passed, current_chunk, abort, ec, cgraph, done>>

Join ==
    /\ At(0, "join")
    /\ \A t \in Worker : At(t, "exit")
    /\ GoTo(0, "freed")
    /\ UNCHANGED shared

-----------------------------------------------------------------------------
(* The specification.                                                      *)

Step(t) == ggml_graph_compute_thread(t) \/ (t \in Worker /\ secondary_thread(t))

Freed == At(0, "freed") /\ UNCHANGED vars

Next ==
    \/ \E t \in Thread : Step(t)
    \/ \E t \in Worker : SpuriousWakeup(t)
    \/ Reset \/ Kickoff \/ SetPause \/ Free \/ Join
    \/ Freed

\* The operating system runs every thread that can run; the mutex is free again after
\* each section.  The program need not compute another graph, nor free the pool.
Spec ==
    /\ Init /\ [][Next]_vars
    /\ \A t \in Thread : WF_vars(Step(t))
    /\ WF_vars(Kickoff) /\ WF_vars(Join)

-----------------------------------------------------------------------------
(* Properties.                                                             *)

\* The pieces of work of graph g, as its threads share them out.
Pieces(g) ==
    LET G == Graphs[g]
        nth == IF G.n_threads > PoolThreads THEN PoolThreads ELSE G.n_threads
        index == {k \in 1 .. Len(G.nodes) : G.nodes[k].op # "nop"}
        mul == {k \in index : G.nodes[k].op = "mul_mat"}
    IN  {[node |-> k - 1, phase |-> 0, i |-> t] : k \in index, t \in 0 .. nth - 1}
        \cup UNION {{[node |-> k - 1, phase |-> 1, i |-> j] :
                        j \in 0 .. NChunk(G.nodes[k], nth) - 1} : k \in mul}

Exec == INSTANCE GraphExec
    WITH Work <- [g \in 1 .. Len(Graphs) |-> Pieces(g)],
         graph <- cgraph,
         status <- IF th[0].pc \in {"idle", "join", "freed"} THEN ec ELSE "busy"

\* The pool computes each graph as one thread would: node after node, no piece of work
\* twice or skipped, no thread ahead of the barriers, and all threads agreeing on the
\* node where an abort stops them.
ComputesInOrder == Exec!Spec

\* ggml_graph_compute: "No worker threads should be accessing the parameters below at
\* this stage".  When thread 0 sets up a graph (or frees the pool), no worker is still
\* inside the last one: at most it has not yet noticed that the last barrier is open.
ResetIsPrivate ==
    th[0].pc \in {"idle", "kick", "freed"} =>
        \A t \in Worker :
            \/ th[t].pc \in {"top", "paused", "stop", "poll", "poll_graph", "check", "done",
                             "exit"}
            \/ At(t, "b_spin") /\ th[t].ret = "done" /\ th[t].n_passed # n_barrier_passed

\* Every call returns: each graph that is kicked off is computed to its end and the pool
\* can be freed.  No wake-up is lost between polling, sleeping and pausing, and no
\* thread waits at a barrier for one that will not come.
CallsReturn ==
    /\ At(0, "kick") ~> At(0, "idle")
    /\ At(0, "join") ~> At(0, "freed")
=============================================================================
