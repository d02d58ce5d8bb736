-------------------------- MODULE ThreadpoolProofs --------------------------
(***************************************************************************)
(* Theorems about Threadpool, for any number of threads and any graphs.    *)
(*                                                                         *)
(* The barrier keeps no list of who is where, so the invariant has to say  *)
(* it: the threads of the team are always between the same two barriers.   *)
(* Together says where that can be, and it is kept because the last thread *)
(* to come to a barrier finds all others spinning there (Counting), and    *)
(* because a worker that has not noticed the graph holds up the first      *)
(* barrier (NotYet in Members and Together).                               *)
(***************************************************************************)
EXTENDS Threadpool, FiniteSetTheorems, TLAPS

-----------------------------------------------------------------------------
(* The inductive invariant.                                                *)

InTheBarrier == {"b_enter", "b_passed", "b_add", "b_reset", "b_exit", "b_spin"}

\* Not in ggml_graph_compute_thread, or through with it.
Outside == {"top", "paused", "stop", "poll", "poll_graph", "check", "exit",
            "idle", "kick", "join", "freed", "done"}

\* A thread that spins at a barrier that is open is as good as behind it.
Released(t) == th[t].pc = "b_spin" /\ th[t].n_passed # n_barrier_passed
Eff(t) == IF Released(t) THEN th[t].ret ELSE th[t].pc
Active(t) == Eff(t) \notin Outside
At_(t, r) == th[t].pc \in InTheBarrier /\ ~Released(t) /\ th[t].ret = r

\* The threads of the graph that was kicked off, and those that wait at its barrier.
Team == {t \in Thread : t < n_graph.n_threads}
Waiting == {t \in Thread : th[t].pc = "b_spin" /\ th[t].n_passed = n_barrier_passed}

\* A worker of the team that has not noticed the graph.
NotYet(t) == t \in Worker /\ t \in Team /\ ~Active(t) /\ th[t].last_graph # n_graph

Flags(t) ==
    /\ th[t].pc # "start" => th[t].pending = FALSE
    /\ th[t].pc \in InTheBarrier => th[t].ret \in {"chunk", "next", "done"}

Roles ==
    /\ th[0].pc \notin {"top", "paused", "stop", "poll", "poll_graph", "check", "exit"}
    /\ \A t \in Worker : th[t].pc \notin {"idle", "kick", "join", "freed"}
    /\ th[0].pc = "kick" => cgraph > 0 /\ abort = -1
    /\ \A t \in Thread : Flags(t)

\* Only the team computes, and only while thread 0 does.
Members ==
    \A t \in Thread :
       /\ Active(t) => t \in Team /\ Active(0)
       /\ Active(t) /\ t # 0 => th[t].last_graph = n_graph
       /\ Active(t) /\ Eff(t) # "start" => th[t].graph = cgraph /\ th[t].nth = n_graph.n_threads
       /\ NotYet(t) => Active(0)

\* n_barrier counts the threads that wait; the last one to come finds all others waiting.
Counting ==
    /\ \A t \in Thread :
       /\ th[t].pc \in {"b_passed", "b_add", "b_reset", "b_exit"} \/ t \in Waiting
             => th[t].n_threads = n_graph.n_threads /\ n_graph.n_threads > 1
       /\ th[t].pc = "b_add" => th[t].n_passed = n_barrier_passed
       /\ th[t].pc = "b_spin" => th[t].n_passed <= n_barrier_passed
       /\ th[t].pc = "b_reset" => Waiting = Team \ {t} /\ n_barrier = n_graph.n_threads
       /\ th[t].pc = "b_exit" => Waiting = Team \ {t} /\ n_barrier = 0
    /\ (\A t \in Thread : th[t].pc \notin {"b_reset", "b_exit"}) => n_barrier = Cardinality(Waiting)

\* The nodes of the graph, and where a thread can be between two barriers: after the
\* barrier (or start) before node n, or after the one between the phases of node n.
Prog == Graphs[cgraph].nodes
NodeCount == Len(Prog)
Op(i) == Prog[i + 1].op
Nops(n, i) == \A j \in n .. i - 1 : Op(j) = "nop"

PosNode(t, n) ==
    LET i == th[t].node IN
    \/ Eff(t) = "start" /\ n = 0
    \/ Eff(t) = "next" /\ i = n - 1
    \/ Eff(t) = "node" /\ i \in n .. NodeCount /\ Nops(n, i) /\ (abort = n => i = n)
    \/ /\ i \in n .. NodeCount - 1 /\ Nops(n, i) /\ Op(i) # "nop" /\ abort # n
       /\ \/ Eff(t) = "work"
          \/ At_(t, "chunk") /\ Op(i) = "mul_mat"
          \/ Eff(t) = "after" /\ Op(i) # "mul_mat"
          \/ At_(t, "next") /\ Op(i) # "mul_mat" /\ i + 1 < NodeCount
          \/ Eff(t) = "next" /\ Op(i) # "mul_mat" /\ i + 1 = NodeCount
    \/ At_(t, "done") /\ abort = n /\ i = n
    \/ At_(t, "done") /\ i = NodeCount /\ Nops(n, NodeCount)
    \/ /\ Eff(t) = "node" \/ At_(t, "done")
       /\ i = NodeCount /\ n < NodeCount /\ Nops(n, NodeCount - 1)
       /\ Op(NodeCount - 1) \notin {"nop", "mul_mat"} /\ abort # n

PosChunk(t, n) ==
    LET i == th[t].node IN
    /\ n < NodeCount /\ Op(n) = "mul_mat" /\ abort # n
    /\ \/ Eff(t) \in {"chunk", "next_chunk", "after"} /\ i = n
       \/ At_(t, "next") /\ i = n /\ n + 1 < NodeCount
       \/ Eff(t) = "next" /\ i = n /\ n + 1 = NodeCount
       \/ (Eff(t) = "node" \/ At_(t, "done")) /\ i = NodeCount /\ n + 1 = NodeCount

\* The node where the threads stop is the one all of them are at, or the one behind it
\* when thread 0 has just asked.
AbortAt(n) ==
    \/ abort = -1
    \/ abort = n
    \/ abort > n /\ abort = th[0].node + 1 /\ (At_(0, "next") \/ Eff(0) = "next")
    \/ abort > n /\ abort = NodeCount /\ th[0].node = NodeCount /\ (Eff(0) = "node" \/ At_(0, "done"))

\* All threads of the team are between the same two barriers.
SegNode(n) == (\A t \in Thread : Active(t) => PosNode(t, n)) /\ AbortAt(n)
SegChunk(n) == (\A t \in Thread : Active(t) => PosChunk(t, n)) /\ AbortAt(n)
Together ==
    Active(0) =>
       /\ cgraph > 0
       /\ \E n \in 0 .. NodeCount :
             \/ SegNode(n) /\ (n # 0 => \A t \in Thread : ~NotYet(t))
             \/ SegChunk(n) /\ \A t \in Thread : ~NotYet(t)

Inv == TypeOK /\ Roles /\ Members /\ Counting /\ Together

-----------------------------------------------------------------------------
(* Bags, the team and its nodes.                                           *)

\* One more piece of work.
LEMMA BagAdd ==
    ASSUME NEW B, IsABag(B), NEW x
    PROVE  IsABag(B (+) SetToBag({x})) /\ BagToSet(B (+) SetToBag({x})) = BagToSet(B) \cup {x}
BY DEF IsABag, SetToBag, BagToSet, (+)

\* No work.
LEMMA BagEmpty == IsABag(EmptyBag) /\ BagToSet(EmptyBag) = {}
BY DEF IsABag, SetToBag, EmptyBag, BagToSet

\* How many threads there are.
LEMMA Sizes ==
    ASSUME TypeOK
    PROVE  /\ n_graph.n_threads \in 0 .. PoolThreads /\ PoolThreads \in Nat \ {0}
           /\ Team = 0 .. n_graph.n_threads - 1 /\ IsFiniteSet(Team)
           /\ Cardinality(Team) = n_graph.n_threads
           /\ 0 \in Thread /\ Thread = {0} \cup Worker
<1>1. n_graph.n_threads \in 0 .. PoolThreads /\ PoolThreads \in Nat \ {0}
  BY PoolAssumption DEF TypeOK
<1>2. Team = 0 .. n_graph.n_threads - 1
  BY <1>1 DEF Team, Thread
<1>3. IsFiniteSet(Team) /\ Cardinality(Team) = n_graph.n_threads
  <2> DEFINE n == n_graph.n_threads
  <2>1. n \in Nat /\ Team = 0 .. n - 1
    BY <1>1, <1>2
  <2> HIDE DEF n
  <2>2. IsFiniteSet(0 .. n - 1) /\ Cardinality(0 .. n - 1) = n
    <3>1. 0 \in Int /\ n - 1 \in Int
      BY <2>1
    <3> QED BY <2>1, <3>1, FS_Interval
  <2> QED BY <2>1, <2>2 DEF n
<1>4. 0 \in Thread /\ Thread = {0} \cup Worker
  BY <1>1 DEF Thread, Worker
<1> QED BY <1>1, <1>2, <1>3, <1>4

\* The graph that is computed.
LEMMA GraphTyped ==
    ASSUME TypeOK, cgraph > 0
    PROVE  /\ cgraph \in 1 .. Len(Graphs) /\ NodeCount \in Nat /\ Graphs[cgraph].n_threads \in Nat \ {0}
           /\ Prog \in Seq([op : STRING, chunks : Nat])
<1> DEFINE G == [n_threads : Nat \ {0}, nodes : Seq([op : STRING, chunks : Nat])]
<1>1. Graphs \in Seq(G)
  BY PoolAssumption
<1>2. cgraph \in 1 .. Len(Graphs)
  BY <1>1 DEF TypeOK
<1>3. Graphs[cgraph] \in G
  <2> HIDE DEF G
  <2> QED BY <1>1, <1>2
<1>4. Prog \in Seq([op : STRING, chunks : Nat]) /\ Graphs[cgraph].n_threads \in Nat \ {0}
  BY <1>3 DEF Prog
<1>5. NodeCount \in Nat
  BY <1>4 DEF NodeCount
<1> QED BY <1>2, <1>4, <1>5

-----------------------------------------------------------------------------
(* What a step of one thread leaves alone.                                 *)

Only(t) == th' \in [Thread -> ThreadState] /\ \A u \in Thread \ {t} : th'[u] = th[u]

\* Only the program counter of t changes.
LEMMA Goes ==
    ASSUME TypeOK, NEW t \in Thread, NEW pc \in Pc, GoTo(t, pc)
    PROVE  /\ Only(t) /\ th'[t].pc = pc /\ th'[t].ret = th[t].ret
           /\ th'[t].last_graph = th[t].last_graph /\ th'[t].pending = th[t].pending
           /\ th'[t].graph = th[t].graph /\ th'[t].nth = th[t].nth /\ th'[t].node = th[t].node
           /\ th'[t].chunk = th[t].chunk
           /\ th'[t].n_threads = th[t].n_threads /\ th'[t].n_passed = th[t].n_passed
<1>1. th \in [Thread -> ThreadState]
  BY DEF TypeOK
<1>2. th'[t] = [th[t] EXCEPT !.pc = pc]
  BY <1>1 DEF GoTo
<1>3. th'[t] \in ThreadState
  BY <1>1, <1>2 DEF ThreadState
<1>4. Only(t)
  BY <1>1, <1>2, <1>3 DEF GoTo, Only
<1> QED BY <1>1, <1>2, <1>4 DEF ThreadState

\* t calls ggml_barrier.
LEMMA Calls ==
    ASSUME TypeOK, NEW t \in Thread, NEW ret \in Pc, Barrier(t, ret)
    PROVE  /\ Only(t) /\ th'[t].pc = "b_enter" /\ th'[t].ret = ret
           /\ th'[t].last_graph = th[t].last_graph /\ th'[t].pending = th[t].pending
           /\ th'[t].graph = th[t].graph /\ th'[t].nth = th[t].nth /\ th'[t].node = th[t].node
           /\ th'[t].chunk = th[t].chunk
<1>1. th \in [Thread -> ThreadState]
  BY DEF TypeOK
<1>2. th'[t] = [th[t] EXCEPT !.pc = "b_enter", !.ret = ret]
  BY <1>1 DEF Barrier
<1>3. th'[t] \in ThreadState
  BY <1>1, <1>2 DEF ThreadState, Pc
<1>4. Only(t)
  BY <1>1, <1>2, <1>3 DEF Barrier, Only
<1> QED BY <1>1, <1>2, <1>4 DEF ThreadState

\* Where a thread is in the code between two barriers.
Inner == {"start", "node", "work", "chunk", "next_chunk", "after", "next", "b_enter", "b_passed"}

\* A step within the graph that no other thread can tell from the barrier.
InnerStep(t) ==
    /\ Only(t) /\ UNCHANGED <<n_graph, n_barrier, n_barrier_passed, cgraph>>
    /\ th[t].pc \in Inner /\ th'[t].pc \in (Inner \ {"start"}) \cup {"b_add"}
    /\ th'[t].pc = "b_passed" => th'[t].n_threads = n_graph.n_threads /\ n_graph.n_threads > 1
    /\ th'[t].pc = "b_add" => /\ th[t].pc = "b_passed" /\ th'[t].n_threads = th[t].n_threads
                              /\ th'[t].n_passed = n_barrier_passed
    /\ th'[t].pc \in InTheBarrier => th'[t].ret \in {"chunk", "next", "done"}
    /\ th'[t].last_graph = th[t].last_graph /\ th'[t].pending = FALSE
    /\ th'[t].graph = cgraph /\ th'[t].nth = n_graph.n_threads

\* The other threads are where they were.
LEMMA OthersSame ==
    ASSUME NEW t \in Thread, Only(t), UNCHANGED n_barrier_passed, NEW u \in Thread \ {t}
    PROVE  /\ Released(u)' <=> Released(u)
           /\ Eff(u)' = Eff(u) /\ (Active(u)' <=> Active(u))
           /\ \A r \in {"chunk", "next", "done"} : At_(u, r)' <=> At_(u, r)
<1>1. th'[u] = th[u]
  BY DEF Only
<1>2. Released(u)' <=> Released(u)
  BY <1>1 DEF Released
<1>3. Eff(u)' = Eff(u)
  BY <1>1, <1>2 DEF Eff
<1> QED BY <1>1, <1>2, <1>3 DEF Active, At_

\* Such a step keeps everything but the positions, and t stays active.
LEMMA InnerKeeps ==
    ASSUME TypeOK, Roles, Members, Counting, NEW t \in Thread, InnerStep(t)
    PROVE  /\ Roles' /\ Members' /\ Counting'
           /\ Eff(t) = th[t].pc /\ Active(t) /\ Eff(t)' = th'[t].pc /\ Active(t)' /\ Active(0) /\ Active(0)'
           /\ ~Released(t) /\ ~Released(t)'
           /\ \A u \in Thread : (NotYet(u)' <=> NotYet(u)) /\ (Active(u)' <=> Active(u))
<1> USE DEF InnerStep
<1>1. ~Released(t) /\ ~Released(t)'
  BY DEF Released, Inner
<1>2. Eff(t) = th[t].pc /\ Eff(t)' = th'[t].pc
  BY <1>1 DEF Eff
<1>3. Active(t) /\ Active(t)'
  BY <1>2 DEF Active, Inner, Outside
<1>4. \A u \in Thread : Active(u)' <=> Active(u)
  BY <1>3, OthersSame
<1>5. Active(0) /\ Active(0)'
  BY <1>3, <1>4, Sizes DEF Members
<1>6. Team' = Team
  BY DEF Team
<1>7. \A u \in Thread : NotYet(u)' <=> NotYet(u)
  <2> SUFFICES ASSUME NEW u \in Thread PROVE NotYet(u)' <=> NotYet(u)
    OBVIOUS
  <2>1. th'[u].last_graph = th[u].last_graph
    BY DEF Only
  <2> QED BY <1>4, <1>6, <2>1 DEF NotYet
<1>8. Roles'
  <2>1. \A u \in Thread : u # t => th'[u] = th[u]
    BY DEF Only
  <2>2. 0 \in Thread /\ Worker \subseteq Thread
    BY Sizes
  <2>3. th'[0].pc \notin {"top", "paused", "stop", "poll", "poll_graph", "check", "exit"}
        /\ (th'[0].pc = "kick" => cgraph' > 0 /\ abort' = -1)
    <3>1. th'[0].pc # "kick"
      BY <1>5 DEF Active, Eff, Released, Outside
    <3> QED BY <2>1, <2>2, <3>1 DEF Roles, Inner
  <2>4. \A u \in Worker : th'[u].pc \notin {"idle", "kick", "join", "freed"}
    BY <2>1, <2>2 DEF Roles, Inner
  <2>5. ASSUME NEW u \in Thread PROVE Flags(u)'
    <3>1. CASE u = t
      BY <3>1 DEF Flags, InTheBarrier
    <3>2. CASE u # t
      <4>1. th'[u] = th[u] /\ Flags(u)
        BY <2>1, <3>2 DEF Roles
      <4> QED BY <4>1 DEF Flags, InTheBarrier
    <3> QED BY <3>1, <3>2
  <2> QED BY <2>3, <2>4, <2>5 DEF Roles
<1>9. Members'
  <2> SUFFICES ASSUME NEW u \in Thread PROVE Members!(u)'
    BY DEF Members
  <2>1. CASE u = t
    BY <1>2, <1>3, <1>5, <1>6, <1>7, <2>1 DEF Members
  <2>2. CASE u # t
    <3>1. th'[u] = th[u]
      BY <2>2 DEF Only
    <3>2. Eff(u)' = Eff(u)
      BY <2>2, OthersSame
    <3> QED BY <1>4, <1>5, <1>6, <1>7, <3>1, <3>2 DEF Members
  <2> QED BY <2>1, <2>2
<1>10. Waiting' = Waiting /\ t \notin Waiting /\ t \notin Waiting'
  BY DEF Waiting, Only, Inner
<1>11. Counting'
  <2>1. \A u \in Thread : th[u].pc \in {"b_reset", "b_exit"} <=> th'[u].pc \in {"b_reset", "b_exit"}
    BY DEF Only, Inner
  <2>2. (\A u \in Thread : th'[u].pc \notin {"b_reset", "b_exit"}) => n_barrier' = Cardinality(Waiting')
    BY <1>10, <2>1 DEF Counting
  <2>3. ASSUME NEW u \in Thread PROVE Counting!1!(u)'
    <3>1. CASE u = t
      BY <1>6, <1>10, <3>1 DEF Counting, Inner
    <3>2. CASE u # t
      <4>1. th'[u] = th[u]
        BY <3>2 DEF Only
      <4> QED BY <1>6, <1>10, <4>1 DEF Counting
    <3> QED BY <3>1, <3>2
  <2> QED BY <2>2, <2>3 DEF Counting
<1> QED BY <1>1, <1>2, <1>3, <1>4, <1>5, <1>7, <1>8, <1>9, <1>11

-----------------------------------------------------------------------------
(* Steps between two barriers.                                             *)

\* Where the other threads are does not change.
LEMMA OthersPos ==
    ASSUME NEW t \in Thread, Only(t), UNCHANGED <<n_barrier_passed, cgraph, abort>>,
           NEW u \in Thread \ {t}, NEW n
    PROVE  /\ PosNode(u, n)' <=> PosNode(u, n)
           /\ PosChunk(u, n)' <=> PosChunk(u, n)
           /\ u = 0 => (AbortAt(n)' <=> AbortAt(n))
<1>1. th'[u] = th[u]
  BY DEF Only
<1>2. Eff(u)' = Eff(u) /\ \A r \in {"chunk", "next", "done"} : At_(u, r)' <=> At_(u, r)
  BY OthersSame
<1>3. Prog' = Prog /\ NodeCount' = NodeCount /\ (\A i : Op(i)' = Op(i)) /\ \A i : Nops(n, i)' <=> Nops(n, i)
  BY DEF Prog, NodeCount, Op, Nops
<1>4. PosNode(u, n)' <=> PosNode(u, n)
  BY <1>1, <1>2, <1>3 DEF PosNode
<1>5. PosChunk(u, n)' <=> PosChunk(u, n)
  BY <1>1, <1>2, <1>3 DEF PosChunk
<1>6. u = 0 => (AbortAt(n)' <=> AbortAt(n))
  BY <1>1, <1>2, <1>3 DEF AbortAt
<1> QED BY <1>4, <1>5, <1>6

\* The step leaves the team in its segment.
Kept == \A n \in 0 .. NodeCount : (SegNode(n) => SegNode(n)') /\ (SegChunk(n) => SegChunk(n)')

\* What a step of t between two barriers has to show: t stays between them.
Stays(t, n) ==
    /\ SegNode(n) => PosNode(t, n)' /\ (t = 0 => AbortAt(n)')
    /\ SegChunk(n) => PosChunk(t, n)' /\ (t = 0 => AbortAt(n)')

\* If t stays between the two barriers, the team does.
LEMMA StaysTogether ==
    ASSUME TypeOK, Roles, Members, Counting, Together, NEW t \in Thread, InnerStep(t),
           UNCHANGED abort, \A n \in 0 .. NodeCount : Stays(t, n)
    PROVE  Together' /\ Kept
<1>1. Active(0) /\ \A u \in Thread : (NotYet(u)' <=> NotYet(u)) /\ (Active(u)' <=> Active(u))
  BY InnerKeeps
<1>2. Only(t) /\ UNCHANGED <<n_barrier_passed, cgraph, abort>>
  BY DEF InnerStep
<1>3. NodeCount' = NodeCount
  BY <1>2 DEF NodeCount, Prog
<1>4. ASSUME NEW n \in 0 .. NodeCount PROVE SegNode(n) => SegNode(n)'
  <2> SUFFICES ASSUME SegNode(n) PROVE SegNode(n)'
    OBVIOUS
  <2>1. ASSUME NEW u \in Thread, Active(u)' PROVE PosNode(u, n)'
    <3>1. CASE u = t
      BY <3>1 DEF Stays
    <3>2. CASE u # t
      BY <1>1, <1>2, <2>1, <3>2, OthersPos DEF SegNode
    <3> QED BY <3>1, <3>2
  <2>2. AbortAt(n)'
    <3>1. CASE t = 0
      BY <3>1 DEF Stays
    <3>2. CASE t # 0
      BY <1>2, <3>2, OthersPos, Sizes DEF SegNode
    <3> QED BY <3>1, <3>2
  <2> QED BY <2>1, <2>2 DEF SegNode
<1>5. ASSUME NEW n \in 0 .. NodeCount PROVE SegChunk(n) => SegChunk(n)'
  <2> SUFFICES ASSUME SegChunk(n) PROVE SegChunk(n)'
    OBVIOUS
  <2>1. ASSUME NEW u \in Thread, Active(u)' PROVE PosChunk(u, n)'
    <3>1. CASE u = t
      BY <3>1 DEF Stays
    <3>2. CASE u # t
      BY <1>1, <1>2, <2>1, <3>2, OthersPos DEF SegChunk
    <3> QED BY <3>1, <3>2
  <2>2. AbortAt(n)'
    <3>1. CASE t = 0
      BY <3>1 DEF Stays
    <3>2. CASE t # 0
      BY <1>2, <3>2, OthersPos, Sizes DEF SegChunk
    <3> QED BY <3>1, <3>2
  <2> QED BY <2>1, <2>2 DEF SegChunk
<1>6. Kept
  BY <1>4, <1>5 DEF Kept
<1>7. cgraph' > 0
  BY <1>1, <1>2 DEF Together
<1>8. PICK n \in 0 .. NodeCount :
             \/ SegNode(n) /\ (n # 0 => \A u \in Thread : ~NotYet(u))
             \/ SegChunk(n) /\ \A u \in Thread : ~NotYet(u)
  BY <1>1 DEF Together
<1>9. /\ SegNode(n) /\ (n # 0 => \A u \in Thread : ~NotYet(u))
         => SegNode(n)' /\ (n # 0 => \A u \in Thread : ~NotYet(u)')
      /\ SegChunk(n) /\ (\A u \in Thread : ~NotYet(u))
         => SegChunk(n)' /\ (\A u \in Thread : ~NotYet(u)')
  BY <1>1, <1>4, <1>5
<1>10. Together'
  BY <1>3, <1>7, <1>8, <1>9 DEF Together
<1> QED BY <1>6, <1>10

\* What is known of a thread between two barriers.
LEMMA Context ==
    ASSUME Inv, NEW t \in Thread, th[t].pc \in Inner
    PROVE  /\ ~Released(t) /\ Eff(t) = th[t].pc /\ Active(t) /\ Active(0) /\ t \in Team
           /\ cgraph > 0 /\ NodeCount \in Nat /\ th[t].node \in Nat
           /\ th[t].pc # "start" => /\ th[t].graph = cgraph /\ th[t].nth = n_graph.n_threads
                                    /\ Nodes(t) = Prog /\ Node(t) = Prog[th[t].node + 1]
                                    /\ Node(t).op = Op(th[t].node) /\ th[t].pending = FALSE
           /\ \A r \in {"chunk", "next", "done"} :
                 At_(t, r) <=> th[t].pc \in {"b_enter", "b_passed"} /\ th[t].ret = r
           /\ \A n : SegNode(n) => PosNode(t, n) /\ PosNode(0, n) /\ AbortAt(n)
           /\ \A n : SegChunk(n) => PosChunk(t, n) /\ PosChunk(0, n) /\ AbortAt(n)
<1> USE DEF Inv
<1>1. ~Released(t)
  BY DEF Released, Inner
<1>2. Eff(t) = th[t].pc
  BY <1>1 DEF Eff
<1>3. Active(t)
  BY <1>2 DEF Active, Inner, Outside
<1>4. Active(0) /\ t \in Team
  BY <1>3 DEF Members
<1>5. cgraph > 0
  BY <1>4 DEF Together
<1>6. NodeCount \in Nat
  BY <1>5, GraphTyped
<1>7. th[t].node \in Nat
  BY DEF TypeOK, ThreadState
<1>8. th[t].pc # "start" => th[t].graph = cgraph /\ th[t].nth = n_graph.n_threads
  BY <1>2, <1>3 DEF Members
<1>9. th[t].pc # "start" => th[t].pending = FALSE
  BY DEF Roles, Flags
<1>10. th[t].pc # "start" => Nodes(t) = Prog
  BY <1>8 DEF Nodes, Prog
<1>11. th[t].pc # "start" => Node(t) = Prog[th[t].node + 1] /\ Node(t).op = Op(th[t].node)
  BY <1>10 DEF Node, Op
<1>12. \A r \in {"chunk", "next", "done"} :
                 At_(t, r) <=> th[t].pc \in {"b_enter", "b_passed"} /\ th[t].ret = r
  BY <1>1 DEF At_, Inner, InTheBarrier
<1>13. \A n : SegNode(n) => PosNode(t, n) /\ PosNode(0, n) /\ AbortAt(n)
  BY <1>3, <1>4, Sizes DEF SegNode
<1>14. \A n : SegChunk(n) => PosChunk(t, n) /\ PosChunk(0, n) /\ AbortAt(n)
  BY <1>3, <1>4, Sizes DEF SegChunk
<1> QED BY <1>1, <1>2, <1>3, <1>4, <1>5, <1>6, <1>7, <1>8, <1>9, <1>10, <1>11, <1>12, <1>13, <1>14

\* The same, after the step.
LEMMA Later ==
    ASSUME Inv, NEW t \in Thread, InnerStep(t)
    PROVE  /\ NodeCount' = NodeCount /\ (\A i : Op(i)' = Op(i))
           /\ \A n, i : Nops(n, i)' <=> Nops(n, i)
           /\ Eff(t)' = th'[t].pc
           /\ \A r \in {"chunk", "next", "done"} :
                 At_(t, r)' <=> th'[t].pc \in {"b_enter", "b_passed", "b_add"} /\ th'[t].ret = r
<1>1. ~Released(t)' /\ Eff(t)' = th'[t].pc
  BY InnerKeeps DEF Inv
<1>2. NodeCount' = NodeCount /\ (\A i : Op(i)' = Op(i)) /\ \A n, i : Nops(n, i)' <=> Nops(n, i)
  BY DEF InnerStep, NodeCount, Prog, Op, Nops
<1>3. \A r \in {"chunk", "next", "done"} :
                 At_(t, r)' <=> th'[t].pc \in {"b_enter", "b_passed", "b_add"} /\ th'[t].ret = r
  BY <1>1 DEF At_, InTheBarrier, InnerStep, Inner
<1> QED BY <1>1, <1>2, <1>3

\* A step between two barriers keeps the invariant if its thread stays between them.
LEMMA InnerInv ==
    ASSUME Inv, NEW t \in Thread, InnerStep(t), TypeOK', UNCHANGED abort,
           \A n \in 0 .. NodeCount : Stays(t, n)
    PROVE  Inv' /\ InnerStep(t) /\ Kept
BY InnerKeeps, StaysTogether DEF Inv

\* A thread starts in the first segment, in front of node 0.
LEMMA ComputeStartInv ==
    ASSUME Inv, NEW t \in Thread, ComputeStart(t)
    PROVE  Inv' /\ InnerStep(t) /\ Kept
<1>1. TypeOK /\ th[t].pc = "start" /\ UNCHANGED shared /\ th \in [Thread -> ThreadState]
  BY DEF Inv, ComputeStart, At, TypeOK
<1>2. th[t].pc \in Inner
  BY <1>1 DEF Inner
<1> DEFINE r == [th[t] EXCEPT !.pending = FALSE, !.graph = cgraph, !.nth = n_graph.n_threads,
                              !.node = 0, !.pc = "node"]
<1>3. th'[t] = r /\ \A u \in Thread \ {t} : th'[u] = th[u]
  BY <1>1 DEF ComputeStart
<1>4. r \in ThreadState /\ r.pc = "node" /\ r.pending = FALSE /\ r.graph = cgraph
      /\ r.nth = n_graph.n_threads /\ r.node = 0 /\ r.last_graph = th[t].last_graph
  <2>1. n_graph.n_threads \in Nat /\ cgraph \in Nat
    BY <1>1, PoolAssumption DEF TypeOK
  <2>2. r \in ThreadState
    <3>1. th[t] \in ThreadState /\ "node" \in Pc
      BY <1>1 DEF Pc
    <3> QED BY <2>1, <3>1 DEF ThreadState
  <2>3. r.pc = "node" /\ r.pending = FALSE /\ r.graph = cgraph /\ r.nth = n_graph.n_threads
        /\ r.node = 0 /\ r.last_graph = th[t].last_graph
    BY <1>1 DEF ThreadState
  <2> QED BY <2>2, <2>3
<1>5. th' = [th EXCEPT ![t] = r]
  BY <1>1, <1>3 DEF ComputeStart
<1> HIDE DEF r
<1>6. Only(t)
  BY <1>1, <1>3, <1>4, <1>5 DEF Only
<1>7. InnerStep(t)
  BY <1>1, <1>2, <1>3, <1>4, <1>6 DEF InnerStep, shared, Inner, InTheBarrier
<1>8. TypeOK'
  BY <1>1, <1>6 DEF TypeOK, shared, Only
<1>9. ASSUME NEW n \in 0 .. NodeCount PROVE Stays(t, n)
  <2>1. ASSUME SegNode(n) PROVE PosNode(t, n)' /\ (t = 0 => AbortAt(n)')
    <3>1. n = 0
      BY <1>1, <1>2, <2>1, Context DEF PosNode
    <3>2. Nops(0, 0)
      BY DEF Nops
    <3>3. PosNode(t, n)'
      BY <1>2, <1>3, <1>4, <1>7, <3>1, <3>2, Context, Later DEF PosNode
    <3>4. t = 0 => AbortAt(n)'
      <4>1. t = 0 => Eff(0) = "start" /\ ~At_(0, "next") /\ ~At_(0, "done") /\ AbortAt(n)
        BY <1>1, <1>2, <2>1, Context
      <4>2. t = 0 => abort = -1 \/ abort = n
        BY <4>1 DEF AbortAt
      <4> QED BY <1>1, <4>2 DEF AbortAt, shared
    <3> QED BY <3>3, <3>4
  <2>2. ~SegChunk(n)
    BY <1>1, <1>2, Context DEF PosChunk
  <2> QED BY <2>1, <2>2 DEF Stays
<1> QED BY <1>1, <1>7, <1>8, <1>9, InnerInv DEF shared

\* Going on at pc, and calling the barrier, are steps between two barriers.
LEMMA GoesOn ==
    ASSUME Inv, NEW t \in Thread, th[t].pc \in Inner \ {"start"},
           NEW pc \in {"node", "work", "chunk", "next_chunk", "after", "next"}, GoTo(t, pc),
           UNCHANGED <<n_graph, n_barrier, n_barrier_passed, cgraph>>
    PROVE  InnerStep(t) /\ th'[t].pc = pc /\ th'[t].node = th[t].node
<1>1. TypeOK /\ pc \in Pc
  BY DEF Inv, Pc
<1>2. th[t].graph = cgraph /\ th[t].nth = n_graph.n_threads /\ th[t].pending = FALSE
  BY Context
<1> QED BY <1>1, <1>2, Goes DEF InnerStep, Inner, InTheBarrier

\* The same for a call of ggml_barrier.
LEMMA CallsBarrier ==
    ASSUME Inv, NEW t \in Thread, th[t].pc \in Inner \ {"start"},
           NEW ret \in {"chunk", "next", "done"}, Barrier(t, ret),
           UNCHANGED <<n_graph, n_barrier, n_barrier_passed, cgraph>>
    PROVE  InnerStep(t) /\ th'[t].pc = "b_enter" /\ th'[t].ret = ret /\ th'[t].node = th[t].node
<1>1. TypeOK /\ ret \in Pc
  BY DEF Inv, Pc
<1>2. th[t].graph = cgraph /\ th[t].nth = n_graph.n_threads /\ th[t].pending = FALSE
  BY Context
<1> QED BY <1>1, <1>2, Calls DEF InnerStep, Inner, InTheBarrier

\* Going from node i to node i + 1.
LEMMA NopsNext ==
    ASSUME NEW n \in Nat, NEW i \in Nat, n <= i
    PROVE  Nops(n, i + 1) <=> Nops(n, i) /\ Op(i) = "nop"
<1>1. n .. (i + 1) - 1 = (n .. i - 1) \cup {i}
  OBVIOUS
<1> QED BY <1>1 DEF Nops

\* A thread passes nops, begins a node, or stops: at the end, or where all others stop.
LEMMA NextNodeInv ==
    ASSUME Inv, NEW t \in Thread, NextNode(t)
    PROVE  Inv' /\ InnerStep(t) /\ Kept
<1> DEFINE i == th[t].node
           stops == i = NodeCount \/ abort = i
<1>1. /\ TypeOK /\ th[t].pc = "node" /\ UNCHANGED shared /\ th \in [Thread -> ThreadState]
      /\ th[t].pc \in Inner \ {"start"}
  BY DEF Inv, NextNode, At, TypeOK, Inner
<1>2. UNCHANGED <<n_graph, n_barrier, n_barrier_passed, cgraph, abort>>
  BY <1>1 DEF shared
<1>3. i \in Nat /\ NodeCount \in Nat /\ NodeCount = Len(Nodes(t)) /\ Node(t).op = Op(i)
      /\ Eff(t) = "node" /\ \A r \in {"chunk", "next", "done"} : ~At_(t, r)
  BY <1>1, Context DEF NodeCount
<1>4. abort \in Int
  BY <1>1 DEF TypeOK
<1>5. CASE stops
  <2>1. Barrier(t, "done")
    BY <1>1, <1>3, <1>5 DEF NextNode
  <2>2. InnerStep(t) /\ th'[t].pc = "b_enter" /\ th'[t].ret = "done" /\ th'[t].node = i
    BY <1>1, <1>2, <2>1, CallsBarrier
  <2>3. TypeOK'
    BY <1>1, <2>2 DEF TypeOK, shared, InnerStep, Only
  <2>4. Eff(t)' = "b_enter" /\ At_(t, "done")' /\ NodeCount' = NodeCount
        /\ (\A j : Op(j)' = Op(j)) /\ (\A n, j : Nops(n, j)' <=> Nops(n, j))
    BY <2>2, Later
  <2>5. ASSUME NEW n \in 0 .. NodeCount PROVE Stays(t, n)
    <3>1. ASSUME SegNode(n) PROVE PosNode(t, n)' /\ (t = 0 => AbortAt(n)')
      <4>1. PosNode(t, n) /\ PosNode(0, n) /\ AbortAt(n)
        BY <1>1, <3>1, Context
      <4>2. abort = i => abort = n \/ abort = NodeCount
        <5> SUFFICES ASSUME abort = i, abort # n, abort # NodeCount PROVE FALSE
          OBVIOUS
        <5>1. abort = th[0].node + 1 /\ (At_(0, "next") \/ Eff(0) = "next") /\ abort > n
          BY <1>3, <4>1 DEF AbortAt
        <5>2. th[0].node \in n .. NodeCount /\ Op(th[0].node) # "nop"
          <6>1. th[0].node \in Nat
            BY <1>1, Sizes DEF ThreadState
          <6>2. CASE Eff(0) = "next"
            <7>1. ~At_(0, "next") /\ ~At_(0, "chunk") /\ ~At_(0, "done")
              BY <6>2 DEF At_, Eff, InTheBarrier
            <7> QED BY <1>3, <4>1, <5>1, <6>1, <6>2, <7>1 DEF PosNode
          <6>3. CASE At_(0, "next")
            <7>1. Eff(0) \in InTheBarrier /\ ~At_(0, "chunk") /\ ~At_(0, "done")
              BY <6>3 DEF At_, Eff
            <7> QED BY <1>3, <4>1, <5>1, <6>1, <7>1 DEF PosNode, InTheBarrier
          <6> QED BY <5>1, <6>2, <6>3
        <5>3. Nops(n, i) /\ i \in n .. NodeCount
          BY <1>3, <4>1 DEF PosNode
        <5>4. th[0].node \in n .. i - 1
          BY <1>3, <5>1, <5>2, <5>3
        <5> QED BY <5>2, <5>3, <5>4 DEF Nops
      <4>3. PosNode(t, n)'
        BY <1>2, <1>3, <1>5, <2>2, <2>4, <4>1, <4>2 DEF PosNode
      <4>4. t = 0 => AbortAt(n)'
        BY <1>2, <1>3, <1>5, <2>2, <2>4, <4>1, <4>2 DEF AbortAt
      <4> QED BY <4>3, <4>4
    <3>2. ASSUME SegChunk(n) PROVE PosChunk(t, n)' /\ (t = 0 => AbortAt(n)')
      <4>1. PosChunk(t, n) /\ AbortAt(n)
        BY <1>1, <3>2, Context
      <4>2. PosChunk(t, n)'
        BY <1>2, <1>3, <2>2, <2>4, <4>1 DEF PosChunk
      <4>3. t = 0 => AbortAt(n)'
        BY <1>2, <1>3, <2>2, <2>4, <4>1 DEF AbortAt
      <4> QED BY <4>2, <4>3
    <3> QED BY <3>1, <3>2 DEF Stays
  <2> QED BY <1>2, <2>2, <2>3, <2>5, InnerInv
<1>6. CASE ~stops /\ Op(i) = "nop"
  <2>1. th' = [th EXCEPT ![t].node = i + 1]
    BY <1>1, <1>3, <1>6 DEF NextNode
  <2>2. th'[t] = [th[t] EXCEPT !.node = i + 1] /\ \A u \in Thread \ {t} : th'[u] = th[u]
    BY <1>1, <2>1
  <2>3. th'[t] \in ThreadState
    <3>1. th[t] \in ThreadState /\ i + 1 \in Nat
      BY <1>1, <1>3
    <3> HIDE DEF i
    <3> QED BY <2>2, <3>1 DEF ThreadState
  <2>4. th'[t].pc = "node" /\ th'[t].node = i + 1 /\ th'[t].last_graph = th[t].last_graph
        /\ th'[t].pending = th[t].pending /\ th'[t].graph = th[t].graph /\ th'[t].nth = th[t].nth
    BY <1>1, <2>2 DEF ThreadState
  <2>5. Only(t)
    BY <1>1, <2>1, <2>2, <2>3 DEF Only
  <2>6. InnerStep(t)
    BY <1>1, <1>2, <2>4, <2>5, Context DEF InnerStep, Inner, InTheBarrier
  <2>7. TypeOK'
    BY <1>1, <2>5 DEF TypeOK, shared, Only
  <2>8. Eff(t)' = "node" /\ (\A r \in {"chunk", "next", "done"} : ~At_(t, r)') /\ NodeCount' = NodeCount
        /\ (\A j : Op(j)' = Op(j)) /\ (\A n, j : Nops(n, j)' <=> Nops(n, j))
    BY <2>4, <2>6, Later
  <2>9. ASSUME NEW n \in 0 .. NodeCount PROVE Stays(t, n)
    <3>1. ASSUME SegNode(n) PROVE PosNode(t, n)' /\ (t = 0 => AbortAt(n)')
      <4>1. PosNode(t, n) /\ AbortAt(n)
        BY <1>1, <3>1, Context
      <4>2. i \in n .. NodeCount /\ Nops(n, i) /\ abort # n
        BY <1>3, <1>6, <4>1 DEF PosNode
      <4>3. Nops(n, i + 1)
        <5>1. n \in Nat /\ i \in Nat /\ n <= i
          BY <1>3, <4>2
        <5> QED BY <1>6, <4>2, <5>1, NopsNext
      <4>4. PosNode(t, n)'
        BY <1>2, <1>3, <1>6, <2>4, <2>8, <4>2, <4>3 DEF PosNode
      <4>5. t = 0 => AbortAt(n)'
        BY <1>2, <1>3, <1>6, <2>4, <2>8, <4>1 DEF AbortAt
      <4> QED BY <4>4, <4>5
    <3>2. ~SegChunk(n)
      BY <1>1, <1>3, <1>6, Context DEF PosChunk
    <3> QED BY <3>1, <3>2 DEF Stays
  <2> QED BY <1>2, <2>6, <2>7, <2>9, InnerInv
<1>7. CASE ~stops /\ Op(i) # "nop"
  <2>1. GoTo(t, "work")
    BY <1>1, <1>3, <1>7 DEF NextNode
  <2>2. InnerStep(t) /\ th'[t].pc = "work" /\ th'[t].node = i
    BY <1>1, <1>2, <2>1, GoesOn
  <2>3. TypeOK'
    BY <1>1, <2>2 DEF TypeOK, shared, InnerStep, Only
  <2>4. Eff(t)' = "work" /\ NodeCount' = NodeCount
        /\ (\A j : Op(j)' = Op(j)) /\ (\A n, j : Nops(n, j)' <=> Nops(n, j))
    BY <2>2, Later
  <2>5. ASSUME NEW n \in 0 .. NodeCount PROVE Stays(t, n)
    <3>1. ASSUME SegNode(n) PROVE PosNode(t, n)' /\ (t = 0 => AbortAt(n)')
      <4>1. PosNode(t, n) /\ AbortAt(n)
        BY <1>1, <3>1, Context
      <4>2. PosNode(t, n)'
        BY <1>2, <1>3, <1>7, <2>2, <2>4, <4>1 DEF PosNode
      <4>3. t = 0 => AbortAt(n)'
        BY <1>2, <1>3, <1>7, <2>2, <2>4, <4>1 DEF AbortAt
      <4> QED BY <4>2, <4>3
    <3>2. ~SegChunk(n)
      BY <1>1, <1>3, <1>7, Context DEF PosChunk
    <3> QED BY <3>1, <3>2 DEF Stays
  <2> QED BY <1>2, <2>2, <2>3, <2>5, InnerInv
<1> QED BY <1>5, <1>6, <1>7

\* A share of a node leads to the end of the node, or to the barrier inside it.
LEMMA ShareInv ==
    ASSUME Inv, NEW t \in Thread, Share(t)
    PROVE  Inv' /\ InnerStep(t) /\ Kept
<1> DEFINE i == th[t].node
<1>1. /\ TypeOK /\ th[t].pc = "work" /\ th \in [Thread -> ThreadState]
      /\ th[t].pc \in Inner \ {"start"}
  BY DEF Inv, Share, At, TypeOK, Inner
<1>2. UNCHANGED <<n_graph, n_barrier, n_barrier_passed, stop, pause, abort, ec, cgraph, asleep>>
  BY DEF Share
<1>3. i \in Nat /\ NodeCount \in Nat /\ Node(t).op = Op(i)
      /\ Eff(t) = "work" /\ \A r \in {"chunk", "next", "done"} : ~At_(t, r)
  BY <1>1, Context
<1>4. IsABag(done')
  BY <1>1, BagAdd DEF Share, Did, TypeOK
<1>5. current_chunk' \in Nat
  <2>1. th[t].nth \in Nat /\ current_chunk \in Nat
    BY <1>1 DEF ThreadState, TypeOK
  <2> QED BY <2>1 DEF Share
<1>6. ASSUME NEW n PROVE ~SegChunk(n)
  BY <1>1, <1>3, Context DEF PosChunk
<1>7. ASSUME NEW n, SegNode(n) PROVE PosNode(t, n) /\ AbortAt(n)
  BY <1>1, <1>7, Context
<1>8. CASE Op(i) # "mul_mat"
  <2>1. GoTo(t, "after")
    BY <1>3, <1>8 DEF Share
  <2>2. InnerStep(t) /\ th'[t].pc = "after" /\ th'[t].node = i
    BY <1>1, <1>2, <2>1, GoesOn
  <2>3. TypeOK'
    BY <1>1, <1>2, <1>4, <1>5, <2>2 DEF TypeOK, InnerStep, Only
  <2>4. Eff(t)' = "after" /\ NodeCount' = NodeCount
        /\ (\A j : Op(j)' = Op(j)) /\ (\A n, j : Nops(n, j)' <=> Nops(n, j))
    BY <2>2, Later
  <2>5. ASSUME NEW n \in 0 .. NodeCount PROVE Stays(t, n)
    <3>1. ASSUME SegNode(n) PROVE PosNode(t, n)' /\ (t = 0 => AbortAt(n)')
      <4>1. PosNode(t, n) /\ AbortAt(n)
        BY <1>7, <3>1
      <4>2. PosNode(t, n)'
        BY <1>2, <1>3, <1>8, <2>2, <2>4, <4>1 DEF PosNode
      <4>3. t = 0 => AbortAt(n)'
        BY <1>2, <1>3, <2>2, <2>4, <4>1 DEF AbortAt
      <4> QED BY <4>2, <4>3
    <3> QED BY <1>6, <3>1 DEF Stays
  <2> QED BY <1>2, <2>2, <2>3, <2>5, InnerInv
<1>9. CASE Op(i) = "mul_mat"
  <2>1. th' = [th EXCEPT ![t].chunk = t, ![t].pc = "b_enter", ![t].ret = "chunk"]
    BY <1>3, <1>9 DEF Share
  <2>2. th'[t] = [th[t] EXCEPT !.chunk = t, !.pc = "b_enter", !.ret = "chunk"]
        /\ \A u \in Thread \ {t} : th'[u] = th[u]
    BY <1>1, <2>1
  <2>3. th'[t] \in ThreadState
    <3>1. th[t] \in ThreadState /\ t \in Nat /\ "b_enter" \in Pc /\ "chunk" \in Pc
      BY <1>1 DEF Thread, Pc
    <3> QED BY <2>2, <3>1 DEF ThreadState
  <2>4. th'[t].pc = "b_enter" /\ th'[t].ret = "chunk" /\ th'[t].node = i
        /\ th'[t].last_graph = th[t].last_graph
        /\ th'[t].pending = th[t].pending /\ th'[t].graph = th[t].graph /\ th'[t].nth = th[t].nth
    BY <1>1, <2>2 DEF ThreadState
  <2>5. Only(t)
    BY <1>1, <2>1, <2>2, <2>3 DEF Only
  <2>6. InnerStep(t)
    BY <1>1, <1>2, <2>4, <2>5, Context DEF InnerStep, Inner, InTheBarrier
  <2>7. TypeOK'
    BY <1>1, <1>2, <1>4, <1>5, <2>5 DEF TypeOK, Only
  <2>8. At_(t, "chunk")' /\ NodeCount' = NodeCount
        /\ (\A j : Op(j)' = Op(j)) /\ (\A n, j : Nops(n, j)' <=> Nops(n, j))
    BY <2>4, <2>6, Later
  <2>9. ASSUME NEW n \in 0 .. NodeCount PROVE Stays(t, n)
    <3>1. ASSUME SegNode(n) PROVE PosNode(t, n)' /\ (t = 0 => AbortAt(n)')
      <4>1. PosNode(t, n) /\ AbortAt(n)
        BY <1>7, <3>1
      <4>2. PosNode(t, n)'
        BY <1>2, <1>3, <1>9, <2>4, <2>8, <4>1 DEF PosNode
      <4>3. t = 0 => AbortAt(n)'
        BY <1>2, <1>3, <2>4, <2>8, <4>1 DEF AbortAt
      <4> QED BY <4>2, <4>3
    <3> QED BY <1>6, <3>1 DEF Stays
  <2> QED BY <1>2, <2>6, <2>7, <2>9, InnerInv
<1> QED BY <1>8, <1>9

\* A chunk leads to the next one or to the end of the node.
LEMMA ChunkInv ==
    ASSUME Inv, NEW t \in Thread, Chunk(t)
    PROVE  Inv' /\ InnerStep(t) /\ Kept
<1> DEFINE i == th[t].node
<1>1. /\ TypeOK /\ th[t].pc = "chunk" /\ th \in [Thread -> ThreadState]
      /\ th[t].pc \in Inner \ {"start"}
  BY DEF Inv, Chunk, At, TypeOK, Inner
<1>2. UNCHANGED <<n_graph, n_barrier, n_barrier_passed, current_chunk, stop, pause, abort, ec, cgraph, asleep>>
  BY DEF Chunk
<1>3. Eff(t) = "chunk" /\ \A r \in {"chunk", "next", "done"} : ~At_(t, r)
  BY <1>1, Context
<1>4. IsABag(done')
  <2>1. IsABag(done)
    BY <1>1 DEF TypeOK
  <2>2. Did(t, 1, th[t].chunk) => IsABag(done')
    <3> DEFINE x == [node |-> th[t].node, phase |-> 1, i |-> th[t].chunk]
    <3> SUFFICES ASSUME Did(t, 1, th[t].chunk) PROVE IsABag(done')
      OBVIOUS
    <3>1. done' = done (+) SetToBag({x})
      BY DEF Did
    <3> HIDE DEF x
    <3>2. IsABag(done (+) SetToBag({x}))
      BY <2>1, BagAdd
    <3> QED BY <3>1, <3>2
  <2> QED BY <2>1, <2>2 DEF Chunk
<1>5. PICK pc \in {"after", "next_chunk"} : GoTo(t, pc)
  BY DEF Chunk
<1>6. InnerStep(t) /\ th'[t].pc = pc /\ th'[t].node = i
  BY <1>1, <1>2, <1>5, GoesOn
<1>7. TypeOK'
  BY <1>1, <1>2, <1>4, <1>6 DEF TypeOK, InnerStep, Only
<1>8. Eff(t)' = pc /\ NodeCount' = NodeCount /\ \A j : Op(j)' = Op(j)
  BY <1>6, Later
<1>9. ASSUME NEW n \in 0 .. NodeCount PROVE Stays(t, n)
  <2>1. ~SegNode(n)
    BY <1>1, <1>3, Context DEF PosNode
  <2>2. ASSUME SegChunk(n) PROVE PosChunk(t, n)' /\ (t = 0 => AbortAt(n)')
    <3>1. PosChunk(t, n) /\ AbortAt(n)
      BY <1>1, <2>2, Context
    <3>2. PosChunk(t, n)'
      BY <1>2, <1>3, <1>6, <1>8, <3>1 DEF PosChunk
    <3>3. t = 0 => AbortAt(n)'
      BY <1>2, <1>3, <1>6, <1>8, <3>1 DEF AbortAt
    <3> QED BY <3>2, <3>3
  <2> QED BY <2>1, <2>2 DEF Stays
<1> QED BY <1>2, <1>6, <1>7, <1>9, InnerInv

\* Taking the next chunk does not leave the node.
LEMMA NextChunkInv ==
    ASSUME Inv, NEW t \in Thread, NextChunk(t)
    PROVE  Inv' /\ InnerStep(t) /\ Kept
<1> DEFINE i == th[t].node
<1>1. /\ TypeOK /\ th[t].pc = "next_chunk" /\ th \in [Thread -> ThreadState]
      /\ th[t].pc \in Inner \ {"start"} /\ current_chunk \in Nat
  BY DEF Inv, NextChunk, At, TypeOK, Inner
<1>2. UNCHANGED <<n_graph, n_barrier, n_barrier_passed, stop, pause, abort, ec, cgraph, asleep, done>>
      /\ current_chunk' = current_chunk + 1
  BY DEF NextChunk
<1>3. Eff(t) = "next_chunk" /\ \A r \in {"chunk", "next", "done"} : ~At_(t, r)
  BY <1>1, Context
<1>4. th' = [th EXCEPT ![t].chunk = current_chunk, ![t].pc = "chunk"]
  BY DEF NextChunk
<1>5. th'[t] = [th[t] EXCEPT !.chunk = current_chunk, !.pc = "chunk"]
      /\ \A u \in Thread \ {t} : th'[u] = th[u]
  BY <1>1, <1>4
<1>6. th'[t] \in ThreadState
  <2>1. th[t] \in ThreadState /\ current_chunk \in Nat /\ "chunk" \in Pc
    BY <1>1 DEF Pc
  <2> QED BY <1>5, <2>1 DEF ThreadState
<1>7. th'[t].pc = "chunk" /\ th'[t].node = i /\ th'[t].last_graph = th[t].last_graph
      /\ th'[t].pending = th[t].pending /\ th'[t].graph = th[t].graph /\ th'[t].nth = th[t].nth
  BY <1>1, <1>5 DEF ThreadState
<1>8. Only(t)
  BY <1>1, <1>4, <1>5, <1>6 DEF Only
<1>9. InnerStep(t)
  BY <1>1, <1>2, <1>7, <1>8, Context DEF InnerStep, Inner, InTheBarrier
<1>10. TypeOK'
  BY <1>1, <1>2, <1>8 DEF TypeOK, Only
<1>11. Eff(t)' = "chunk" /\ NodeCount' = NodeCount /\ \A j : Op(j)' = Op(j)
  BY <1>7, <1>9, Later
<1>12. ASSUME NEW n \in 0 .. NodeCount PROVE Stays(t, n)
  <2>1. ~SegNode(n)
    BY <1>1, <1>3, Context DEF PosNode
  <2>2. ASSUME SegChunk(n) PROVE PosChunk(t, n)' /\ (t = 0 => AbortAt(n)')
    <3>1. PosChunk(t, n) /\ AbortAt(n)
      BY <1>1, <2>2, Context
    <3>2. PosChunk(t, n)'
      BY <1>2, <1>3, <1>7, <1>11, <3>1 DEF PosChunk
    <3>3. t = 0 => AbortAt(n)'
      BY <1>2, <1>3, <1>7, <1>11, <3>1 DEF AbortAt
    <3> QED BY <3>2, <3>3
  <2> QED BY <2>1, <2>2 DEF Stays
<1> QED BY <1>2, <1>9, <1>10, <1>12, InnerInv

\* Behind a barrier, or behind the last node, a thread goes to the next node.
LEMMA NextInv ==
    ASSUME Inv, NEW t \in Thread, Next_(t)
    PROVE  Inv' /\ InnerStep(t) /\ Kept
<1> DEFINE i == th[t].node
<1>1. /\ TypeOK /\ th[t].pc = "next" /\ th \in [Thread -> ThreadState] /\ UNCHANGED shared
      /\ th[t].pc \in Inner \ {"start"}
  BY DEF Inv, Next_, At, TypeOK, Inner
<1>2. UNCHANGED <<n_graph, n_barrier, n_barrier_passed, cgraph, abort>>
  BY <1>1 DEF shared
<1>3. i \in Nat /\ NodeCount \in Nat
      /\ Eff(t) = "next" /\ \A r \in {"chunk", "next", "done"} : ~At_(t, r)
  BY <1>1, Context
<1>4. th' = [th EXCEPT ![t].node = i + 1, ![t].pc = "node"]
  BY DEF Next_
<1>5. th'[t] = [th[t] EXCEPT !.node = i + 1, !.pc = "node"]
      /\ \A u \in Thread \ {t} : th'[u] = th[u]
  BY <1>1, <1>4
<1>6. th'[t] \in ThreadState
  <2>1. th[t] \in ThreadState /\ i + 1 \in Nat /\ "node" \in Pc
    BY <1>1, <1>3 DEF Pc
  <2> HIDE DEF i
  <2> QED BY <1>5, <2>1 DEF ThreadState
<1>7. th'[t].pc = "node" /\ th'[t].node = i + 1 /\ th'[t].last_graph = th[t].last_graph
      /\ th'[t].pending = th[t].pending /\ th'[t].graph = th[t].graph /\ th'[t].nth = th[t].nth
  BY <1>1, <1>5 DEF ThreadState
<1>8. Only(t)
  BY <1>1, <1>4, <1>5, <1>6 DEF Only
<1>9. InnerStep(t)
  BY <1>1, <1>2, <1>7, <1>8, Context DEF InnerStep, Inner, InTheBarrier
<1>10. TypeOK'
  BY <1>1, <1>8 DEF TypeOK, shared, Only
<1>11. Eff(t)' = "node" /\ (\A r \in {"chunk", "next", "done"} : ~At_(t, r)')
       /\ NodeCount' = NodeCount /\ (\A j : Op(j)' = Op(j)) /\ (\A n, j : Nops(n, j)' <=> Nops(n, j))
  BY <1>7, <1>9, Later
<1>12. ASSUME NEW n \in 0 .. NodeCount PROVE Stays(t, n)
  <2>1. ASSUME SegNode(n) PROVE PosNode(t, n)' /\ (t = 0 => AbortAt(n)')
    <3>1. PosNode(t, n) /\ AbortAt(n)
      BY <1>1, <2>1, Context
    <3>2. Nops(n, n)
      BY DEF Nops
    <3>3. \/ i = n - 1
          \/ /\ i \in n .. NodeCount - 1 /\ Nops(n, i) /\ Op(i) # "nop" /\ abort # n
             /\ Op(i) # "mul_mat" /\ i + 1 = NodeCount
      BY <1>3, <3>1 DEF PosNode
    <3>4. i = n - 1 => i + 1 = n
      BY <1>3
    <3>5. PosNode(t, n)'
      <4>1. CASE i = n - 1
        BY <1>2, <1>3, <1>7, <1>11, <3>2, <3>4, <4>1 DEF PosNode
      <4>2. CASE i # n - 1
        <5>1. i = NodeCount - 1 /\ n < NodeCount
          BY <1>3, <3>3, <4>2
        <5> QED BY <1>2, <1>3, <1>7, <1>11, <3>3, <4>2, <5>1 DEF PosNode
      <4> QED BY <4>1, <4>2
    <3>6. t = 0 => AbortAt(n)'
      BY <1>2, <1>3, <1>7, <1>11, <3>1, <3>3, <3>4 DEF AbortAt
    <3> QED BY <3>5, <3>6
  <2>2. ASSUME SegChunk(n) PROVE PosChunk(t, n)' /\ (t = 0 => AbortAt(n)')
    <3>1. PosChunk(t, n) /\ AbortAt(n)
      BY <1>1, <2>2, Context
    <3>2. PosChunk(t, n)'
      BY <1>2, <1>3, <1>7, <1>11, <3>1 DEF PosChunk
    <3>3. t = 0 => AbortAt(n)'
      BY <1>2, <1>3, <1>7, <1>11, <3>1 DEF AbortAt, PosChunk
    <3> QED BY <3>2, <3>3
  <2> QED BY <2>1, <2>2 DEF Stays
<1> QED BY <1>2, <1>9, <1>10, <1>12, InnerInv

\* The other threads are behind the same barrier, so none is at the node of the new abort.
LEMMA AfterInv ==
    ASSUME Inv, NEW t \in Thread, After(t)
    PROVE  Inv' /\ InnerStep(t) /\ Kept
<1> DEFINE i == th[t].node
<1>1. /\ TypeOK /\ th[t].pc = "after" /\ th \in [Thread -> ThreadState]
      /\ th[t].pc \in Inner \ {"start"} /\ abort \in Int
  BY DEF Inv, After, At, TypeOK, Inner
<1>2. UNCHANGED <<n_graph, n_barrier, n_barrier_passed, current_chunk, stop, pause, cgraph, asleep, done>>
  BY DEF After
<1>3. i \in Nat /\ NodeCount \in Nat /\ Len(Nodes(t)) = NodeCount
      /\ Eff(t) = "after" /\ Active(t) /\ \A r \in {"chunk", "next", "done"} : ~At_(t, r)
  BY <1>1, Context DEF NodeCount
<1>4. abort' = abort \/ (t = 0 /\ abort' = i + 1)
  BY DEF After
<1>5. ec' \in {"ok", "aborted"}
  BY <1>1 DEF After, TypeOK
<1>6. /\ InnerStep(t) /\ th'[t].node = i
      /\ \/ th'[t].pc = "b_enter" /\ th'[t].ret = "next" /\ i + 1 < NodeCount
         \/ th'[t].pc = "next" /\ ~(i + 1 < NodeCount)
  <2>1. CASE i + 1 < NodeCount
    <3>1. Barrier(t, "next")
      BY <1>3, <2>1 DEF After
    <3> QED BY <1>1, <1>2, <2>1, <3>1, CallsBarrier
  <2>2. CASE ~(i + 1 < NodeCount)
    <3>1. GoTo(t, "next")
      BY <1>3, <2>2 DEF After
    <3> QED BY <1>1, <1>2, <2>2, <3>1, GoesOn
  <2> QED BY <2>1, <2>2
<1>7. TypeOK'
  <2>1. abort' \in Int
    BY <1>1, <1>3, <1>4
  <2> QED BY <1>1, <1>2, <1>5, <1>6, <2>1 DEF TypeOK, InnerStep, Only
<1>8. NodeCount' = NodeCount /\ (\A j : Op(j)' = Op(j)) /\ (\A n, j : Nops(n, j)' <=> Nops(n, j))
  BY <1>6, Later
<1>9. \/ At_(t, "next")' /\ i + 1 < NodeCount
      \/ Eff(t)' = "next" /\ ~(i + 1 < NodeCount)
  BY <1>6, Later
<1>10. Roles' /\ Members' /\ Counting' /\ Active(0)
       /\ \A u \in Thread : (NotYet(u)' <=> NotYet(u)) /\ (Active(u)' <=> Active(u))
  BY <1>6, InnerKeeps DEF Inv
<1>12. ASSUME NEW u \in Thread, u # t
       PROVE  /\ th'[u] = th[u] /\ Eff(u)' = Eff(u)
              /\ \A r \in {"chunk", "next", "done"} : At_(u, r)' <=> At_(u, r)
  BY <1>2, <1>6, <1>12, OthersSame DEF InnerStep, Only
<1>13. ASSUME NEW n \in 0 .. NodeCount PROVE SegNode(n) => SegNode(n)'
  <2> SUFFICES ASSUME SegNode(n) PROVE SegNode(n)'
    OBVIOUS
  <2>1. PosNode(t, n) /\ AbortAt(n)
    BY <1>1, Context
  <2>2. i \in n .. NodeCount - 1 /\ Nops(n, i) /\ Op(i) # "nop" /\ abort # n /\ Op(i) # "mul_mat"
    BY <1>3, <2>1 DEF PosNode
  <2>3. abort' # n
    BY <1>1, <1>3, <1>4, <2>2
  <2>4. ASSUME NEW u \in Thread, Active(u)' PROVE PosNode(u, n)'
    <3>1. CASE u = t
      BY <1>3, <1>6, <1>8, <1>9, <2>2, <2>3, <3>1 DEF PosNode
    <3>2. CASE u # t
      <4>1. PosNode(u, n)
        BY <1>10, <2>4 DEF SegNode
      <4> QED BY <1>8, <1>12, <2>2, <2>3, <3>2, <4>1 DEF PosNode
    <3> QED BY <3>1, <3>2
  <2>5. AbortAt(n)'
    <3>1. CASE t = 0
      <4>1. abort = -1
        BY <1>1, <1>3, <2>1, <2>2, <3>1 DEF AbortAt
      <4>2. abort' = -1 \/ (abort' = i + 1 /\ abort' > n)
        BY <1>3, <1>4, <2>2, <4>1
      <4> QED BY <1>6, <1>9, <3>1, <4>2 DEF AbortAt
    <3>2. CASE t # 0
      <4>1. abort' = abort
        BY <1>4, <3>2
      <4> QED BY <1>8, <1>12, <2>1, <3>2, <4>1, <1>1, Sizes DEF AbortAt
    <3> QED BY <3>1, <3>2
  <2> QED BY <2>4, <2>5 DEF SegNode
<1>14. ASSUME NEW n \in 0 .. NodeCount PROVE SegChunk(n) => SegChunk(n)'
  <2> SUFFICES ASSUME SegChunk(n) PROVE SegChunk(n)'
    OBVIOUS
  <2>1. PosChunk(t, n) /\ AbortAt(n)
    BY <1>1, Context
  <2>2. i = n /\ n < NodeCount /\ Op(n) = "mul_mat" /\ abort # n
    BY <1>3, <2>1 DEF PosChunk
  <2>3. abort' # n
    BY <1>1, <1>3, <1>4, <2>2
  <2>4. ASSUME NEW u \in Thread, Active(u)' PROVE PosChunk(u, n)'
    <3>1. CASE u = t
      BY <1>3, <1>6, <1>8, <1>9, <2>2, <2>3, <3>1 DEF PosChunk
    <3>2. CASE u # t
      <4>1. PosChunk(u, n)
        BY <1>10, <2>4 DEF SegChunk
      <4> QED BY <1>8, <1>12, <2>2, <2>3, <3>2, <4>1 DEF PosChunk
    <3> QED BY <3>1, <3>2
  <2>5. AbortAt(n)'
    <3>1. CASE t = 0
      <4>1. abort = -1
        BY <1>1, <1>3, <2>1, <2>2, <3>1 DEF AbortAt
      <4>2. abort' = -1 \/ (abort' = i + 1 /\ abort' > n)
        BY <1>3, <1>4, <2>2, <4>1
      <4> QED BY <1>6, <1>9, <3>1, <4>2 DEF AbortAt
    <3>2. CASE t # 0
      <4>1. abort' = abort
        BY <1>4, <3>2
      <4> QED BY <1>8, <1>12, <2>1, <3>2, <4>1, <1>1, Sizes DEF AbortAt
    <3> QED BY <3>1, <3>2
  <2> QED BY <2>4, <2>5 DEF SegChunk
<1>15. cgraph' > 0
  BY <1>2, <1>10 DEF Inv, Together
<1>16. Together'
  <2>1. PICK n \in 0 .. NodeCount :
               \/ SegNode(n) /\ (n # 0 => \A u \in Thread : ~NotYet(u))
               \/ SegChunk(n) /\ \A u \in Thread : ~NotYet(u)
    BY <1>10 DEF Inv, Together
  <2>2. /\ SegNode(n) /\ (n # 0 => \A u \in Thread : ~NotYet(u))
           => SegNode(n)' /\ (n # 0 => \A u \in Thread : ~NotYet(u)')
        /\ SegChunk(n) /\ (\A u \in Thread : ~NotYet(u))
           => SegChunk(n)' /\ (\A u \in Thread : ~NotYet(u)')
    BY <1>10, <1>13, <1>14
  <2> QED BY <1>8, <1>15, <2>1, <2>2 DEF Together
<1>17. Kept
  BY <1>13, <1>14 DEF Kept
<1> QED BY <1>6, <1>7, <1>10, <1>16, <1>17 DEF Inv

-----------------------------------------------------------------------------
(* The barrier opens.                                                      *)

\* The threads at a barrier are at the same one.
LEMMA SameNodeBarrier ==
    ASSUME TypeOK, cgraph > 0, NEW n \in 0 .. NodeCount, NEW t \in Thread, NEW u \in Thread,
           PosNode(t, n), PosNode(u, n),
           NEW r \in {"chunk", "next", "done"}, NEW s \in {"chunk", "next", "done"},
           At_(t, r), At_(u, s)
    PROVE  /\ r = s
           /\ r # "done" => /\ th[t].node = th[u].node /\ th[t].node \in n .. NodeCount - 1
                            /\ abort # n /\ Nops(n, th[t].node) /\ Op(th[t].node) # "nop"
           /\ r = "chunk" => Op(th[t].node) = "mul_mat"
           /\ r = "next" => th[t].node + 1 < NodeCount /\ Op(th[t].node) # "mul_mat"
<1> DEFINE i == th[t].node
           j == th[u].node
<1>1. i \in Nat /\ j \in Nat /\ NodeCount \in Nat /\ n \in Nat
  <2>1. NodeCount \in Nat /\ n \in Nat
    BY GraphTyped
  <2>2. th[t] \in ThreadState /\ th[u] \in ThreadState
    BY DEF TypeOK
  <2> QED BY <2>1, <2>2 DEF ThreadState
<1>2. Eff(t) \in InTheBarrier /\ Eff(u) \in InTheBarrier
      /\ (\A q \in {"chunk", "next", "done"} : At_(t, q) <=> q = r)
      /\ (\A q \in {"chunk", "next", "done"} : At_(u, q) <=> q = s)
  BY DEF At_, Eff
<1> DEFINE Mid(k, q) == /\ k \in n .. NodeCount - 1 /\ Nops(n, k) /\ Op(k) # "nop" /\ abort # n
                        /\ \/ q = "chunk" /\ Op(k) = "mul_mat"
                           \/ q = "next" /\ Op(k) # "mul_mat" /\ k + 1 < NodeCount
           End(k, q) == /\ q = "done"
                        /\ \/ abort = n /\ k = n
                           \/ k = NodeCount /\ Nops(n, NodeCount)
                           \/ /\ k = NodeCount /\ n < NodeCount /\ Nops(n, NodeCount - 1)
                              /\ Op(NodeCount - 1) \notin {"nop", "mul_mat"} /\ abort # n
<1>3. Mid(i, r) \/ End(i, r)
  BY <1>2 DEF PosNode, InTheBarrier
<1>4. Mid(j, s) \/ End(j, s)
  BY <1>2 DEF PosNode, InTheBarrier
<1>5. ASSUME NEW k \in Nat, NEW l \in Nat, NEW q, Nops(n, k), Mid(l, q) PROVE k <= l
  <2>1. l \in n .. k - 1 => Op(l) = "nop"
    BY <1>5 DEF Nops
  <2> QED BY <1>1, <1>5, <2>1
<1>6. CASE Mid(i, r) /\ Mid(j, s)
  <2>1. Nops(n, i) /\ Nops(n, j)
    BY <1>6
  <2>2. i <= j /\ j <= i
    <3> HIDE DEF Mid, i, j
    <3> QED BY <1>1, <1>5, <1>6, <2>1
  <2>3. i = j
    BY <1>1, <2>2
  <2> QED BY <1>6, <2>3
<1>7. ASSUME NEW k \in Nat, NEW l \in Nat, NEW q, NEW p, Mid(k, q), End(l, p) PROVE FALSE
  <2>1. abort # n /\ k \in n .. NodeCount - 1 /\ Op(k) # "nop"
    BY <1>7
  <2>2. ~Nops(n, NodeCount)
    BY <1>1, <1>5, <1>7, <2>1
  <2>3. Nops(n, NodeCount - 1) => k = NodeCount - 1
    <3>1. Nops(n, NodeCount - 1) /\ NodeCount - 1 \in Nat => NodeCount - 1 <= k
      <4> HIDE DEF Mid, End
      <4> QED BY <1>5, <1>7
    <3> QED BY <1>1, <2>1, <3>1
  <2> QED BY <1>1, <1>7, <2>1, <2>2, <2>3
<1>8. CASE End(i, r) /\ End(j, s)
  BY <1>8
<1>9. ~(Mid(i, r) /\ End(j, s)) /\ ~(End(i, r) /\ Mid(j, s))
  <2> HIDE DEF Mid, End
  <2> QED BY <1>1, <1>7
<1> QED BY <1>3, <1>4, <1>6, <1>8, <1>9

\* The same inside a node.
LEMMA SameChunkBarrier ==
    ASSUME TypeOK, cgraph > 0, NEW n \in 0 .. NodeCount, NEW t \in Thread, NEW u \in Thread,
           PosChunk(t, n), PosChunk(u, n),
           NEW r \in {"chunk", "next", "done"}, NEW s \in {"chunk", "next", "done"},
           At_(t, r), At_(u, s)
    PROVE  /\ r = s /\ r # "chunk" /\ abort # n
           /\ r = "next" => th[t].node = n /\ th[u].node = n /\ n + 1 < NodeCount
<1>1. NodeCount \in Nat /\ n \in Nat
  BY GraphTyped
<1>2. Eff(t) \in InTheBarrier /\ Eff(u) \in InTheBarrier
      /\ (\A q \in {"chunk", "next", "done"} : At_(t, q) <=> q = r)
      /\ (\A q \in {"chunk", "next", "done"} : At_(u, q) <=> q = s)
  BY DEF At_, Eff
<1>3. /\ \/ r = "next" /\ th[t].node = n /\ n + 1 < NodeCount
         \/ r = "done" /\ n + 1 = NodeCount
      /\ abort # n
  BY <1>2 DEF PosChunk, InTheBarrier
<1>4. \/ s = "next" /\ th[u].node = n /\ n + 1 < NodeCount
      \/ s = "done" /\ n + 1 = NodeCount
  BY <1>2 DEF PosChunk, InTheBarrier
<1> QED BY <1>1, <1>3, <1>4

\* Thread t opens the barrier all others wait at.
Opens(t) ==
    /\ Only(t) /\ UNCHANGED <<n_graph, cgraph, abort>>
    /\ t \in Team /\ th[t].pc \in {"b_enter", "b_exit"} /\ th'[t].pc = th[t].ret
    /\ th'[t].last_graph = th[t].last_graph /\ th'[t].pending = th[t].pending
    /\ th'[t].graph = th[t].graph /\ th'[t].nth = th[t].nth /\ th'[t].node = th[t].node
    /\ th'[t].chunk = th[t].chunk
    /\ \A u \in Team \ {t} : u \in Waiting
    /\ \A u \in Thread \ {t} : th[u].pc = "b_spin" => th[u].n_passed # n_barrier_passed'

\* All the team is in front of the barrier, and behind it once it is open.
LEMMA OpenTeam ==
    ASSUME Inv, NEW t \in Thread, Opens(t)
    PROVE  /\ Team' = Team /\ 0 \in Team /\ t \in Team /\ Active(0) /\ cgraph > 0
           /\ th[t].ret \in {"chunk", "next", "done"} /\ th[t].pending = FALSE
           /\ \A u \in Thread : (Active(u) <=> u \in Team) /\ ~NotYet(u) /\ ~NotYet(u)'
           /\ \A u \in Thread : u \notin Team => ~Active(u)'
           /\ \A u \in Team :
                 /\ u \in Thread /\ At_(u, th[u].ret) /\ th[u].ret \in {"chunk", "next", "done"}
                 /\ Eff(u) # "start"
                 /\ Eff(u)' = th[u].ret /\ th'[u].node = th[u].node /\ th'[u].graph = th[u].graph
                 /\ th'[u].chunk = th[u].chunk
                 /\ th'[u].nth = th[u].nth /\ th'[u].last_graph = th[u].last_graph
<1>1. TypeOK /\ Roles /\ Members /\ Together /\ 0 \in Thread
  BY Sizes DEF Inv
<1>2. UNCHANGED <<n_graph, cgraph, abort>> /\ Team' = Team
  BY DEF Opens, Team
<1>3. th[t].ret \in {"chunk", "next", "done"} /\ th[t].pending = FALSE
  BY <1>1 DEF Opens, Roles, Flags, InTheBarrier
<1>4. ASSUME NEW u \in Thread PROVE Active(u) <=> u \in Team
  <2>1. u \in Team => th[u].pc \in {"b_enter", "b_exit", "b_spin"} /\ ~Released(u)
    BY DEF Opens, Waiting, Released
  <2>2. u \in Team => Active(u)
    BY <2>1 DEF Active, Eff, Outside
  <2> QED BY <1>1, <2>2 DEF Members
<1>5. ASSUME NEW u \in Team PROVE At_(u, th[u].ret) /\ th[u].ret \in {"chunk", "next", "done"}
                                 /\ Eff(u) # "start"
  <2>1. u \in Thread /\ th[u].pc \in {"b_enter", "b_exit", "b_spin"} /\ ~Released(u)
    BY DEF Opens, Waiting, Released, Team
  <2> QED BY <1>1, <2>1 DEF At_, InTheBarrier, Roles, Flags, Eff
<1>6. 0 \in Team /\ Active(0) /\ t \in Team
  BY <1>1, <1>4 DEF Opens, Members
<1>7. ASSUME NEW u \in Thread PROVE ~NotYet(u) /\ ~NotYet(u)'
  <2>1. u \in Team /\ u \in Worker => th[u].last_graph = n_graph
    BY <1>1, <1>4 DEF Members, Worker
  <2>2. th'[u].last_graph = th[u].last_graph
    BY DEF Opens, Only
  <2> QED BY <1>2, <2>1, <2>2 DEF NotYet
<1>8. ASSUME NEW u \in Team
      PROVE  /\ Eff(u)' = th[u].ret /\ th'[u].node = th[u].node /\ th'[u].graph = th[u].graph
             /\ th'[u].chunk = th[u].chunk
             /\ th'[u].nth = th[u].nth /\ th'[u].last_graph = th[u].last_graph
  <2>1. CASE u = t
    <3>1. ~Released(t)'
      BY <1>3 DEF Released, Opens
    <3> QED BY <2>1, <3>1 DEF Eff, Opens
  <2>2. CASE u # t
    <3>1. u \in Thread /\ th'[u] = th[u] /\ th[u].pc = "b_spin"
      BY <2>2 DEF Opens, Only, Waiting, Team
    <3>2. Released(u)'
      BY <2>2, <3>1 DEF Released, Opens
    <3> QED BY <3>1, <3>2 DEF Eff
  <2> QED BY <2>1, <2>2
<1>9. ASSUME NEW u \in Thread, u \notin Team PROVE ~Active(u)'
  <2>1. th'[u] = th[u] /\ ~Active(u) /\ u # t
    BY <1>4, <1>6, <1>9 DEF Opens, Only
  <2>2. CASE th[u].pc = "b_spin"
    <3>1. Released(u)'
      BY <2>1, <2>2 DEF Released, Opens
    <3>2. Released(u)
      BY <2>1, <2>2 DEF Active, Eff, Outside
    <3> QED BY <2>1, <3>1, <3>2 DEF Active, Eff
  <2>3. CASE th[u].pc # "b_spin"
    BY <2>1, <2>3 DEF Active, Eff, Released
  <2> QED BY <2>2, <2>3
<1>10. cgraph > 0
  BY <1>1, <1>6 DEF Together
<1>11. \A u \in Team : u \in Thread
  BY DEF Team
<1> QED BY <1>2, <1>3, <1>4, <1>5, <1>6, <1>7, <1>8, <1>9, <1>10, <1>11

\* The barrier is the same one for the whole team.
LEMMA OpenPlace ==
    ASSUME Inv, NEW t \in Thread, Opens(t), NEW n \in 0 .. NodeCount, SegNode(n) \/ SegChunk(n)
    PROVE  /\ \A u \in Team : th[u].ret = th[t].ret
           /\ th[t].ret # "done" => /\ abort # n /\ th[t].node < NodeCount /\ n <= th[t].node
                                    /\ \A u \in Team : th[u].node = th[t].node
                                    /\ SegNode(n) => Nops(n, th[t].node) /\ Op(th[t].node) # "nop"
           /\ th[t].ret = "chunk" => Op(th[t].node) = "mul_mat" /\ SegNode(n)
           /\ th[t].ret = "next" => /\ th[t].node + 1 < NodeCount
                                    /\ SegNode(n) => Op(th[t].node) # "mul_mat"
                                    /\ ~SegNode(n) => th[t].node = n
<1> DEFINE r == th[t].ret
           i == th[t].node
<1>1. /\ TypeOK /\ cgraph > 0 /\ t \in Team /\ r \in {"chunk", "next", "done"}
      /\ \A u \in Team : u \in Thread /\ Active(u) /\ At_(u, th[u].ret) /\ th[u].ret \in {"chunk", "next", "done"}
  BY OpenTeam DEF Inv
<1>2. NodeCount \in Nat /\ n \in Nat /\ i \in Nat
  <2>1. th[t] \in ThreadState
    BY <1>1 DEF TypeOK
  <2>2. i \in Nat
    BY <2>1 DEF ThreadState
  <2> QED BY <1>1, <2>2, GraphTyped
<1>3. CASE SegNode(n)
  <2>1. ASSUME NEW u \in Team
        PROVE  /\ r = th[u].ret
               /\ r # "done" => /\ i = th[u].node /\ i \in n .. NodeCount - 1 /\ abort # n
                                /\ Nops(n, i) /\ Op(i) # "nop"
               /\ r = "chunk" => Op(i) = "mul_mat"
               /\ r = "next" => i + 1 < NodeCount /\ Op(i) # "mul_mat"
    <3>1. u \in Thread /\ PosNode(u, n) /\ PosNode(t, n)
      BY <1>1, <1>3 DEF SegNode
    <3> QED BY <1>1, <3>1, SameNodeBarrier
  <2> QED BY <1>1, <1>2, <1>3, <2>1
<1>4. CASE SegChunk(n)
  <2>1. ASSUME NEW u \in Team
        PROVE  /\ r = th[u].ret /\ r # "chunk" /\ abort # n
               /\ r = "next" => i = n /\ th[u].node = n /\ n + 1 < NodeCount
    <3>1. u \in Thread /\ PosChunk(u, n) /\ PosChunk(t, n)
      BY <1>1, <1>4 DEF SegChunk
    <3> QED BY <1>1, <3>1, SameChunkBarrier
  <2> QED BY <1>1, <1>2, <1>3, <1>4, <2>1
<1> QED BY <1>3, <1>4

\* Behind an open barrier the team is in the next segment, or through with the graph.
LEMMA OpensKeeps ==
    ASSUME Inv, NEW t \in Thread, Opens(t)
    PROVE  /\ Roles' /\ Members' /\ Together'
           /\ \A k \in Nat : k = th[t].node =>
                 /\ th[t].ret = "chunk" => SegChunk(k)' /\ k < NodeCount
                 /\ th[t].ret = "next" => SegNode(k + 1)' /\ k + 1 < NodeCount
           /\ th[t].ret = "done" => ~Active(0)' /\ Eff(0)' = "done"
           /\ th[t].ret # "done" => Active(0)'
<1> DEFINE r == th[t].ret
           i == th[t].node
<1>1. TypeOK /\ Roles /\ Members /\ Together /\ 0 \in Thread
  BY Sizes DEF Inv
<1>2. UNCHANGED <<n_graph, cgraph, abort>> /\ Team' = Team
  BY DEF Opens, Team
<1>3. r \in {"chunk", "next", "done"} /\ th[t].pending = FALSE
  BY OpenTeam
<1>4. \A u \in Thread : (Active(u) <=> u \in Team) /\ ~NotYet(u) /\ ~NotYet(u)'
  BY OpenTeam
<1>5. \A u \in Team : At_(u, th[u].ret) /\ Eff(u) # "start"
  BY OpenTeam
<1>6. 0 \in Team /\ Active(0) /\ t \in Team
  BY OpenTeam
<1>8. ASSUME NEW u \in Team
      PROVE  /\ Eff(u)' = th[u].ret /\ th'[u].node = th[u].node /\ th'[u].graph = th[u].graph
             /\ th'[u].nth = th[u].nth /\ th'[u].last_graph = th[u].last_graph
  BY OpenTeam
<1>9. \A u \in Thread : u \notin Team => ~Active(u)'
  BY OpenTeam
<1>10. Roles'
  <2>1. \A u \in Thread : u # t => th'[u] = th[u]
    BY DEF Opens, Only
  <2>2. th'[t].pc \in {"chunk", "next", "done"} /\ th'[t].pending = FALSE
    BY <1>3 DEF Opens
  <2>3. th'[0].pc \notin {"top", "paused", "stop", "poll", "poll_graph", "check", "exit"}
        /\ (th'[0].pc = "kick" => cgraph' > 0 /\ abort' = -1)
    BY <1>1, <1>2, <2>1, <2>2 DEF Roles
  <2>4. \A u \in Worker : th'[u].pc \notin {"idle", "kick", "join", "freed"}
    BY <1>1, <2>1, <2>2 DEF Roles, Worker
  <2>5. ASSUME NEW u \in Thread PROVE Flags(u)'
    <3>1. CASE u = t
      BY <2>2, <3>1 DEF Flags, InTheBarrier
    <3>2. CASE u # t
      <4>1. th'[u] = th[u] /\ Flags(u)
        BY <1>1, <2>1, <3>2 DEF Roles
      <4> QED BY <4>1 DEF Flags, InTheBarrier
    <3> QED BY <3>1, <3>2
  <2> QED BY <2>3, <2>4, <2>5 DEF Roles
<1>11. cgraph > 0
  BY <1>1, <1>6 DEF Together
<1>12. PICK n \in 0 .. NodeCount : SegNode(n) \/ SegChunk(n)
  BY <1>1, <1>6 DEF Together
<1>13. NodeCount \in Nat /\ n \in Nat /\ i \in Nat /\ abort \in Int
  <2>1. th[t] \in ThreadState
    BY <1>1 DEF TypeOK
  <2>2. i \in Nat
    BY <2>1 DEF ThreadState
  <2> QED BY <1>1, <1>11, <2>2, GraphTyped DEF TypeOK
<1>14. AbortAt(n)
  BY <1>12 DEF SegNode, SegChunk
<1>15. /\ NodeCount' = NodeCount /\ (\A j : Op(j)' = Op(j))
  BY <1>2 DEF NodeCount, Prog, Op
<1>16. /\ \A u \in Team : th[u].ret = r
       /\ r # "done" => abort # n /\ i < NodeCount /\ n <= i /\ \A u \in Team : th[u].node = i
       /\ r = "chunk" => Op(i) = "mul_mat"
       /\ r = "next" => i + 1 < NodeCount
  BY <1>12, OpenPlace
<1>17. At_(0, r) /\ ~(r # "next" /\ (At_(0, "next") \/ Eff(0) = "next"))
       /\ (r # "done" => ~(Eff(0) = "node" \/ At_(0, "done"))) /\ (r # "done" => th[0].node = i)
  <2>1. At_(0, r) /\ (r # "done" => th[0].node = i)
    BY <1>5, <1>6, <1>16
  <2>2. Eff(0) \in InTheBarrier
    BY <2>1 DEF At_, Eff
  <2> QED BY <2>1, <2>2 DEF At_, InTheBarrier
<1>18. r = "chunk" => abort = -1
  BY <1>13, <1>14, <1>16, <1>17 DEF AbortAt
<1>19. r = "next" => abort = -1 \/ abort = i + 1
  BY <1>13, <1>14, <1>16, <1>17 DEF AbortAt
<1>20. r # "done" => \A u \in Thread : Active(u)' => Eff(u)' = r /\ th'[u].node = i
  BY <1>8, <1>9, <1>16
<1>21. ASSUME NEW k \in Nat, k = i, r = "chunk" PROVE SegChunk(k)' /\ k < NodeCount
  <2>1. k < NodeCount /\ Op(k) = "mul_mat" /\ abort # k
    BY <1>16, <1>18, <1>21
  <2>2. ASSUME NEW u \in Thread, Active(u)' PROVE PosChunk(u, k)'
    <3>1. Eff(u)' = "chunk" /\ th'[u].node = k
      BY <1>20, <1>21, <2>2
    <3> QED BY <1>2, <1>15, <2>1, <3>1 DEF PosChunk
  <2>3. AbortAt(k)'
    BY <1>2, <1>18, <1>21 DEF AbortAt
  <2> QED BY <2>1, <2>2, <2>3 DEF SegChunk
<1>22. ASSUME NEW k \in Nat, k = i, r = "next" PROVE SegNode(k + 1)' /\ k + 1 < NodeCount
  <2>1. ASSUME NEW u \in Thread, Active(u)' PROVE PosNode(u, k + 1)'
    <3>1. Eff(u)' = "next" /\ th'[u].node = (k + 1) - 1
      BY <1>20, <1>22, <2>1
    <3> QED BY <3>1 DEF PosNode
  <2>2. AbortAt(k + 1)'
    BY <1>2, <1>19, <1>22 DEF AbortAt
  <2> QED BY <1>16, <1>22, <2>1, <2>2 DEF SegNode
<1>23. Eff(0)' = r /\ (r = "done" => ~Active(0)') /\ (r # "done" => Active(0)')
  BY <1>3, <1>6, <1>8, <1>16 DEF Active, Outside
<1>24. Together'
  <2> SUFFICES ASSUME Active(0)' PROVE Together!2'
    BY DEF Together
  <2>1. cgraph' > 0 /\ r # "done"
    BY <1>2, <1>11, <1>23
  <2>2. PICK k \in Nat : k = i
    BY <1>13
  <2>3. CASE r = "chunk"
    BY <1>4, <1>13, <1>15, <1>21, <2>1, <2>2, <2>3
  <2>4. CASE r = "next"
    <3>1. SegNode(k + 1)' /\ k + 1 \in 0 .. NodeCount'
      BY <1>13, <1>15, <1>22, <2>2, <2>4
    <3> QED BY <1>4, <2>1, <3>1
  <2> QED BY <1>3, <2>1, <2>3, <2>4
<1>25. Members'
  <2> SUFFICES ASSUME NEW u \in Thread PROVE Members!(u)'
    BY DEF Members
  <2>1. Active(u)' => Active(0)' /\ u \in Team
    BY <1>6, <1>8, <1>9, <1>16 DEF Active
  <2>2. u \in Team /\ u # 0 => th[u].last_graph = n_graph
    BY <1>1, <1>4 DEF Members
  <2>3. u \in Team => th[u].graph = cgraph /\ th[u].nth = n_graph.n_threads
    BY <1>1, <1>4, <1>5 DEF Members
  <2>4. u \in Team => /\ th'[u].graph = th[u].graph /\ th'[u].nth = th[u].nth
                      /\ th'[u].last_graph = th[u].last_graph
    BY <1>8
  <2> QED BY <1>2, <1>4, <2>1, <2>2, <2>3, <2>4
<1> QED BY <1>10, <1>21, <1>22, <1>23, <1>24, <1>25

\* A step in ggml_barrier that no other thread can see the effect of: t stays in front of
\* it, or leaves it when it is open.
Still(t) ==
    /\ Only(t) /\ UNCHANGED <<n_graph, n_barrier_passed, cgraph, abort>>
    /\ th[t].pc \in InTheBarrier
    /\ IF Released(t) THEN th'[t].pc = th[t].ret
       ELSE th'[t].pc \in InTheBarrier /\ (th'[t].pc # "b_spin" \/ th'[t].n_passed = n_barrier_passed)
    /\ th'[t].ret = th[t].ret /\ th'[t].last_graph = th[t].last_graph
    /\ th'[t].pending = th[t].pending
    /\ th'[t].graph = th[t].graph /\ th'[t].nth = th[t].nth /\ th'[t].node = th[t].node
    /\ th'[t].chunk = th[t].chunk

\* Such a step leaves all positions as they were.
LEMMA StillKeeps ==
    ASSUME Inv, NEW t \in Thread, Still(t)
    PROVE  /\ Roles' /\ Members' /\ Together' /\ Kept
           /\ \A u \in Thread : (NotYet(u)' <=> NotYet(u)) /\ (Active(u)' <=> Active(u))
           /\ (Eff(t)' = Eff(t) \/ (Eff(t)' \in InTheBarrier /\ Eff(t) \in InTheBarrier))
           /\ \A r \in {"chunk", "next", "done"} : At_(t, r)' <=> At_(t, r)
<1>1. TypeOK /\ Roles /\ Members /\ Together /\ 0 \in Thread
  BY Sizes DEF Inv
<1>2. UNCHANGED <<n_graph, n_barrier_passed, cgraph, abort>> /\ Team' = Team /\ Only(t)
  BY DEF Still, Team
<1>3. th[t].ret \in {"chunk", "next", "done"} /\ th[t].pending = FALSE
  BY <1>1 DEF Still, Roles, Flags, InTheBarrier
<1>4. Released(t)' <=> FALSE
  BY <1>2, <1>3 DEF Still, Released
<1>5. /\ (Eff(t)' = Eff(t) \/ (Eff(t)' \in InTheBarrier /\ Eff(t) \in InTheBarrier))
      /\ \A r \in {"chunk", "next", "done"} : At_(t, r)' <=> At_(t, r)
  BY <1>3, <1>4 DEF Still, Eff, At_, InTheBarrier
<1>6. Active(t)' <=> Active(t)
  BY <1>5 DEF Active, InTheBarrier, Outside
<1>7. \A u \in Thread : Active(u)' <=> Active(u)
  BY <1>2, <1>6, OthersSame
<1>8. ASSUME NEW u \in Thread PROVE NotYet(u)' <=> NotYet(u)
  <2>1. th'[u].last_graph = th[u].last_graph
    BY DEF Still, Only
  <2> QED BY <1>2, <1>7, <2>1 DEF NotYet
<1>9. Roles'
  <2>1. \A u \in Thread : u # t => th'[u] = th[u]
    BY DEF Still, Only
  <2>2. th'[t].pc \in InTheBarrier \cup {"chunk", "next", "done"} /\ th'[t].pending = FALSE
        /\ th'[t].ret = th[t].ret
    BY <1>3 DEF Still
  <2>3. th'[0].pc \notin {"top", "paused", "stop", "poll", "poll_graph", "check", "exit"}
        /\ (th'[0].pc = "kick" => cgraph' > 0 /\ abort' = -1)
    BY <1>1, <1>2, <2>1, <2>2 DEF Roles, InTheBarrier
  <2>4. \A u \in Worker : th'[u].pc \notin {"idle", "kick", "join", "freed"}
    BY <1>1, <2>1, <2>2 DEF Roles, Worker, InTheBarrier
  <2>5. ASSUME NEW u \in Thread PROVE Flags(u)'
    <3>1. CASE u = t
      BY <1>3, <2>2, <3>1 DEF Flags, InTheBarrier
    <3>2. CASE u # t
      <4>1. th'[u] = th[u] /\ Flags(u)
        BY <1>1, <2>1, <3>2 DEF Roles
      <4> QED BY <4>1 DEF Flags, InTheBarrier
    <3> QED BY <3>1, <3>2
  <2> QED BY <2>3, <2>4, <2>5 DEF Roles
<1>10. Members'
  <2> SUFFICES ASSUME NEW u \in Thread PROVE Members!(u)'
    BY DEF Members
  <2>1. th'[u].last_graph = th[u].last_graph /\ th'[u].graph = th[u].graph /\ th'[u].nth = th[u].nth
    BY DEF Still, Only
  <2>2. Eff(u)' # "start" => Eff(u) # "start"
    BY <1>2, <1>5, OthersSame DEF InTheBarrier
  <2> QED BY <1>1, <1>2, <1>7, <1>8, <2>1, <2>2 DEF Members
<1>11. /\ NodeCount' = NodeCount /\ (\A i : Op(i)' = Op(i))
       /\ \A n, i : Nops(n, i)' <=> Nops(n, i)
  BY <1>2 DEF NodeCount, Prog, Op, Nops
<1>12. ASSUME NEW n, NEW u \in Thread
       PROVE  (PosNode(u, n)' <=> PosNode(u, n)) /\ (PosChunk(u, n)' <=> PosChunk(u, n))
  <2>1. CASE u # t
    BY <1>2, <2>1, OthersPos
  <2>2. CASE u = t
    <3>1. th'[t].node = th[t].node
      BY DEF Still
    <3>2. PosNode(t, n)' <=> PosNode(t, n)
      BY <1>2, <1>5, <1>11, <3>1 DEF PosNode, InTheBarrier
    <3>3. PosChunk(t, n)' <=> PosChunk(t, n)
      BY <1>2, <1>5, <1>11, <3>1 DEF PosChunk, InTheBarrier
    <3> QED BY <2>2, <3>2, <3>3
  <2> QED BY <2>1, <2>2
<1>13. ASSUME NEW n PROVE AbortAt(n)' <=> AbortAt(n)
  <2>1. CASE 0 # t
    BY <1>1, <1>2, <2>1, OthersPos
  <2>2. CASE 0 = t
    <3>1. th'[t].node = th[t].node
      BY DEF Still
    <3> QED BY <1>2, <1>5, <1>11, <2>2, <3>1 DEF AbortAt, InTheBarrier
  <2> QED BY <2>1, <2>2
<1>14. ASSUME NEW n PROVE (SegNode(n)' <=> SegNode(n)) /\ (SegChunk(n)' <=> SegChunk(n))
  BY <1>7, <1>12, <1>13 DEF SegNode, SegChunk
<1>15. Together'
  BY <1>1, <1>2, <1>7, <1>8, <1>11, <1>14 DEF Together
<1> QED BY <1>5, <1>7, <1>8, <1>9, <1>10, <1>14, <1>15 DEF Kept

-----------------------------------------------------------------------------
(* The steps of ggml_barrier.                                              *)

\* A thread alone passes the barrier at once; otherwise it stays in front of it.
LEMMA BarrierEnterInv ==
    ASSUME Inv, NEW t \in Thread, BarrierEnter(t)
    PROVE  Inv' /\ (Still(t) \/ Opens(t))
<1>1. /\ TypeOK /\ th[t].pc = "b_enter" /\ th \in [Thread -> ThreadState] /\ UNCHANGED shared
      /\ th[t].pc \in Inner \ {"start"} /\ Roles /\ Members /\ Counting
  BY DEF Inv, BarrierEnter, At, TypeOK, Inner
<1>2. UNCHANGED <<n_graph, n_barrier, n_barrier_passed, cgraph, abort>>
  BY <1>1 DEF shared
<1>3. th[t].ret \in {"chunk", "next", "done"} /\ th[t].pending = FALSE /\ t \in Team
      /\ th[t].graph = cgraph /\ th[t].nth = n_graph.n_threads /\ ~Released(t)
  BY <1>1, Context DEF Roles, Flags, InTheBarrier
<1>4. n_graph.n_threads \in Nat /\ n_graph.n_threads >= 1
  BY <1>1, <1>3, Sizes DEF Team, Thread
<1> DEFINE pc == IF n_graph.n_threads = 1 THEN th[t].ret ELSE "b_passed"
<1>5. th' = [th EXCEPT ![t].n_threads = n_graph.n_threads, ![t].pc = pc]
  BY DEF BarrierEnter
<1>6. th'[t] = [th[t] EXCEPT !.n_threads = n_graph.n_threads, !.pc = pc]
      /\ \A u \in Thread \ {t} : th'[u] = th[u]
  BY <1>1, <1>5
<1>7. th'[t] \in ThreadState
  <2>1. th[t] \in ThreadState /\ n_graph.n_threads \in Nat /\ pc \in Pc
    BY <1>1, <1>3, <1>4 DEF Pc
  <2> HIDE DEF pc
  <2> QED BY <1>6, <2>1 DEF ThreadState
<1>8. th'[t].pc = pc /\ th'[t].node = th[t].node /\ th'[t].last_graph = th[t].last_graph
      /\ th'[t].pending = th[t].pending /\ th'[t].graph = th[t].graph /\ th'[t].nth = th[t].nth
      /\ th'[t].ret = th[t].ret /\ th'[t].n_threads = n_graph.n_threads
      /\ th'[t].chunk = th[t].chunk
  <2> HIDE DEF pc
  <2> QED BY <1>1, <1>6 DEF ThreadState
<1>9. Only(t)
  BY <1>1, <1>5, <1>6, <1>7 DEF Only
<1>10. TypeOK'
  BY <1>1, <1>9 DEF TypeOK, shared, Only
<1>11. CASE n_graph.n_threads # 1
  <2>1. th'[t].pc = "b_passed" /\ n_graph.n_threads > 1
    BY <1>4, <1>8, <1>11
  <2>2. InnerStep(t)
    BY <1>1, <1>2, <1>3, <1>8, <1>9, <2>1 DEF InnerStep, Inner, InTheBarrier
  <2>3. Still(t)
    BY <1>1, <1>2, <1>3, <1>8, <1>9, <2>1 DEF Still, InTheBarrier
  <2> QED BY <1>1, <1>10, <2>2, <2>3, InnerKeeps, StillKeeps DEF Inv
<1>12. CASE n_graph.n_threads = 1
  <2>1. th'[t].pc = th[t].ret
    BY <1>8, <1>12
  <2>2. Team = {t}
    BY <1>3, <1>12 DEF Team, Thread
  <2>3. ASSUME NEW u \in Thread \ {t}, th[u].pc = "b_spin" PROVE th[u].n_passed # n_barrier_passed
    <3>1. ~Active(u)
      BY <1>1, <2>2 DEF Members
    <3> QED BY <2>3, <3>1 DEF Active, Eff, Released, Outside
  <2>4. Opens(t)
    BY <1>1, <1>2, <1>3, <1>8, <1>9, <2>1, <2>2, <2>3 DEF Opens
  <2>5. Waiting = {} /\ Waiting' = {}
    BY <1>1, <1>2, <1>3, <1>9, <2>1, <2>3 DEF Waiting, Only
  <2>6. Counting'
    <3>1. \A u \in Thread : u # t => th'[u] = th[u]
      BY <1>9 DEF Only
    <3>2. th'[t].pc \in {"chunk", "next", "done"}
      BY <1>3, <2>1
    <3>3. Counting!2'
      BY <1>1, <1>2, <2>5, <3>1, <3>2 DEF Counting
    <3>4. ASSUME NEW u \in Thread PROVE Counting!1!(u)'
      <4>1. CASE u = t
        BY <2>5, <3>2, <4>1
      <4>2. CASE u # t
        <5>1. th[u].pc \notin {"b_passed", "b_add", "b_reset", "b_exit"}
          BY <1>1, <1>12 DEF Counting
        <5> QED BY <1>1, <1>2, <2>5, <3>1, <4>2, <5>1 DEF Counting
      <4> QED BY <4>1, <4>2
    <3> QED BY <3>3, <3>4 DEF Counting
  <2> QED BY <1>10, <2>4, <2>6, OpensKeeps DEF Inv
<1> QED BY <1>11, <1>12

\* Reading n_barrier_passed moves nobody.
LEMMA BarrierReadPassedInv ==
    ASSUME Inv, NEW t \in Thread, BarrierReadPassed(t)
    PROVE  Inv' /\ Still(t)
<1>1. /\ TypeOK /\ th[t].pc = "b_passed" /\ th \in [Thread -> ThreadState] /\ UNCHANGED shared
      /\ th[t].pc \in Inner \ {"start"}
  BY DEF Inv, BarrierReadPassed, At, TypeOK, Inner
<1>2. UNCHANGED <<n_graph, n_barrier, n_barrier_passed, cgraph, abort>>
  BY <1>1 DEF shared
<1>3. th' = [th EXCEPT ![t].n_passed = n_barrier_passed, ![t].pc = "b_add"]
  BY DEF BarrierReadPassed
<1>4. th'[t] = [th[t] EXCEPT !.n_passed = n_barrier_passed, !.pc = "b_add"]
      /\ \A u \in Thread \ {t} : th'[u] = th[u]
  BY <1>1, <1>3
<1>5. th'[t] \in ThreadState
  <2>1. th[t] \in ThreadState /\ n_barrier_passed \in Nat /\ "b_add" \in Pc
    BY <1>1 DEF Pc, TypeOK
  <2> QED BY <1>4, <2>1 DEF ThreadState
<1>6. th'[t].pc = "b_add" /\ th'[t].node = th[t].node /\ th'[t].last_graph = th[t].last_graph
      /\ th'[t].pending = th[t].pending /\ th'[t].graph = th[t].graph /\ th'[t].nth = th[t].nth
      /\ th'[t].ret = th[t].ret /\ th'[t].n_threads = th[t].n_threads
      /\ th'[t].chunk = th[t].chunk
      /\ th'[t].n_passed = n_barrier_passed
  BY <1>1, <1>4 DEF ThreadState
<1>7. Only(t)
  BY <1>1, <1>3, <1>4, <1>5 DEF Only
<1>8. InnerStep(t)
  <2>1. th[t].ret \in {"chunk", "next", "done"}
    BY <1>1 DEF Inv, Roles, Flags, InTheBarrier
  <2> QED BY <1>1, <1>2, <1>6, <1>7, <2>1, Context DEF InnerStep, Inner, InTheBarrier
<1>9. TypeOK'
  BY <1>1, <1>7 DEF TypeOK, shared, Only
<1>10. Still(t)
  BY <1>1, <1>2, <1>6, <1>7, Context DEF Still, InTheBarrier
<1> QED BY <1>8, <1>9, <1>10, InnerKeeps, StillKeeps DEF Inv

\* The thread that resets the count is the last of the team to come.
LEMMA LastOfTeam ==
    ASSUME Inv, NEW t \in Thread, th[t].pc \in {"b_reset", "b_exit"}
    PROVE  /\ t \in Team /\ Waiting = Team \ {t} /\ ~Released(t)
           /\ \A u \in Thread \ {t} :
                 th[u].pc \notin {"b_enter", "b_passed", "b_add", "b_reset", "b_exit"}
<1>1. ~Released(t)
  BY DEF Released
<1>2. t \in Team
  BY <1>1 DEF Active, Eff, Outside, Inv, Members
<1>3. Waiting = Team \ {t}
  BY DEF Inv, Counting
<1>4. ASSUME NEW u \in Thread \ {t}, th[u].pc \in {"b_enter", "b_passed", "b_add", "b_reset", "b_exit"}
      PROVE  FALSE
  <2>1. u \in Team
    BY <1>4 DEF Active, Eff, Released, Outside, Inv, Members
  <2> QED BY <1>3, <1>4, <2>1 DEF Waiting
<1> QED BY <1>1, <1>2, <1>3, <1>4

\* The thread that finds n_threads - 1 others counted is the last.
LEMMA BarrierAddInv ==
    ASSUME Inv, NEW t \in Thread, BarrierAdd(t)
    PROVE  Inv' /\ Still(t)
<1> DEFINE n == n_graph.n_threads
           pc == IF n_barrier = th[t].n_threads - 1 THEN "b_reset" ELSE "b_spin"
<1>1. /\ TypeOK /\ th[t].pc = "b_add" /\ th \in [Thread -> ThreadState]
      /\ Roles /\ Members /\ Counting /\ n_barrier' = n_barrier + 1
      /\ GoTo(t, pc) /\ pc \in Pc
  BY DEF Inv, BarrierAdd, At, TypeOK, Pc
<1>2. UNCHANGED <<n_graph, n_barrier_passed, current_chunk, stop, pause, abort, ec, cgraph, asleep, done>>
  BY DEF BarrierAdd
<1>3. /\ Only(t) /\ th'[t].pc = pc /\ th'[t].ret = th[t].ret
      /\ th'[t].last_graph = th[t].last_graph /\ th'[t].pending = th[t].pending
      /\ th'[t].graph = th[t].graph /\ th'[t].nth = th[t].nth /\ th'[t].node = th[t].node
      /\ th'[t].n_threads = th[t].n_threads /\ th'[t].n_passed = th[t].n_passed
      /\ th'[t].chunk = th[t].chunk
  <2> HIDE DEF pc
  <2> QED BY <1>1, Goes
<1>4. th[t].n_threads = n /\ n > 1 /\ th[t].n_passed = n_barrier_passed /\ ~Released(t)
  BY <1>1 DEF Counting, Released
<1>5. Active(t) /\ t \in Team
  BY <1>1, <1>4 DEF Active, Eff, Outside, Members
<1>6. \A u \in Thread : th[u].pc \notin {"b_reset", "b_exit"}
  BY <1>1, LastOfTeam
<1>7. n_barrier = Cardinality(Waiting)
  BY <1>1, <1>6 DEF Counting
<1>8. Waiting \subseteq Team \ {t}
  <2>1. ASSUME NEW u \in Waiting PROVE u \in Team /\ u # t
    BY <1>1 DEF Waiting, Members, Active, Eff, Released, Outside
  <2> QED BY <2>1
<1>9. /\ IsFiniteSet(Waiting) /\ Cardinality(Waiting) <= n - 1
      /\ (Cardinality(Waiting) = n - 1 => Waiting = Team \ {t})
  <2>1. IsFiniteSet(Team) /\ Cardinality(Team) = n
    BY <1>1, Sizes
  <2>2. IsFiniteSet(Team \ {t}) /\ Cardinality(Team \ {t}) = n - 1
    BY <1>5, <2>1, FS_RemoveElement
  <2>3. Waiting \in SUBSET (Team \ {t})
    BY <1>8
  <2> HIDE DEF n
  <2> QED BY <2>2, <2>3, FS_Subset
<1>10. n \in 0 .. PoolThreads /\ PoolThreads \in Nat /\ Cardinality(Waiting) \in Nat
  BY <1>1, <1>9, Sizes, FS_CardinalityType
<1>11. TypeOK'
  <2>1. n_barrier' \in 0 .. PoolThreads
    BY <1>1, <1>7, <1>9, <1>10
  <2> QED BY <1>1, <1>2, <1>3, <2>1 DEF TypeOK, Only
<1>12. Still(t)
  BY <1>1, <1>2, <1>3, <1>4 DEF Still, InTheBarrier
<1>13. Team' = Team
  BY <1>2 DEF Team
<1>14. \A u \in Thread : u # t => th'[u] = th[u]
  BY <1>3 DEF Only
<1>15. Counting'
  <2>1. CASE n_barrier = n - 1
    <3>1. th'[t].pc = "b_reset"
      BY <1>3, <1>4, <2>1
    <3>2. Waiting' = Waiting /\ Waiting = Team \ {t}
      BY <1>1, <1>2, <1>7, <1>9, <1>14, <2>1, <3>1 DEF Waiting
    <3>3. n_barrier' = n
      BY <1>1, <1>10, <2>1
    <3>4. Counting!2'
      BY <3>1
    <3>5. ASSUME NEW u \in Thread PROVE Counting!1!(u)'
      <4>1. CASE u = t
        BY <1>2, <1>3, <1>4, <1>13, <3>1, <3>2, <3>3, <4>1
      <4>2. CASE u # t
        BY <1>1, <1>2, <1>6, <1>14, <3>2, <4>2 DEF Counting
      <4> QED BY <4>1, <4>2
    <3> QED BY <3>4, <3>5 DEF Counting
  <2>2. CASE n_barrier # n - 1
    <3>1. th'[t].pc = "b_spin"
      BY <1>3, <1>4, <2>2
    <3>2. Waiting' = Waiting \cup {t} /\ t \notin Waiting
      BY <1>1, <1>2, <1>3, <1>4, <1>14, <3>1 DEF Waiting
    <3>3. Cardinality(Waiting') = Cardinality(Waiting) + 1
      BY <1>9, <3>2, FS_AddElement
    <3>4. Counting!2'
      BY <1>1, <1>7, <3>3
    <3>5. ASSUME NEW u \in Thread PROVE Counting!1!(u)'
      <4>1. CASE u = t
        <5>1. n_barrier_passed \in Nat
          BY <1>1 DEF TypeOK
        <5> QED BY <1>2, <1>3, <1>4, <3>1, <4>1, <5>1
      <4>2. CASE u # t
        BY <1>1, <1>2, <1>6, <1>14, <3>2, <4>2 DEF Counting
      <4> QED BY <4>1, <4>2
    <3> QED BY <3>4, <3>5 DEF Counting
  <2> QED BY <2>1, <2>2
<1> QED BY <1>11, <1>12, <1>15, StillKeeps DEF Inv

\* The last thread resets the count while all others spin.
LEMMA BarrierResetInv ==
    ASSUME Inv, NEW t \in Thread, BarrierReset(t)
    PROVE  Inv' /\ Still(t)
<1>1. /\ TypeOK /\ th[t].pc = "b_reset" /\ th \in [Thread -> ThreadState]
      /\ Counting /\ n_barrier' = 0 /\ GoTo(t, "b_exit") /\ "b_exit" \in Pc
  BY DEF Inv, BarrierReset, At, TypeOK, Pc
<1>2. UNCHANGED <<n_graph, n_barrier_passed, current_chunk, stop, pause, abort, ec, cgraph, asleep, done>>
  BY DEF BarrierReset
<1>3. /\ Only(t) /\ th'[t].pc = "b_exit" /\ th'[t].ret = th[t].ret
      /\ th'[t].last_graph = th[t].last_graph /\ th'[t].pending = th[t].pending
      /\ th'[t].graph = th[t].graph /\ th'[t].nth = th[t].nth /\ th'[t].node = th[t].node
      /\ th'[t].n_threads = th[t].n_threads /\ th'[t].n_passed = th[t].n_passed
      /\ th'[t].chunk = th[t].chunk
  BY <1>1, Goes
<1>4. /\ Waiting = Team \ {t} /\ ~Released(t)
      /\ \A u \in Thread \ {t} : th[u].pc \notin {"b_passed", "b_add", "b_reset", "b_exit"}
  BY <1>1, LastOfTeam
<1>5. TypeOK'
  <2>1. n_barrier' \in 0 .. PoolThreads
    BY <1>1, PoolAssumption
  <2> QED BY <1>1, <1>2, <1>3, <2>1 DEF TypeOK, Only
<1>6. Still(t)
  BY <1>1, <1>2, <1>3, <1>4 DEF Still, InTheBarrier
<1>7. \A u \in Thread : u # t => th'[u] = th[u]
  BY <1>3 DEF Only
<1>8. Team' = Team /\ Waiting' = Waiting
  BY <1>1, <1>2, <1>3, <1>7 DEF Team, Waiting
<1>9. Counting'
  <2>1. Counting!2'
    BY <1>3
  <2>2. ASSUME NEW u \in Thread PROVE Counting!1!(u)'
    <3>1. CASE u = t
      BY <1>1, <1>2, <1>3, <1>4, <1>8, <3>1 DEF Counting
    <3>2. CASE u # t
      BY <1>1, <1>2, <1>4, <1>7, <1>8, <3>2 DEF Counting
    <3> QED BY <3>1, <3>2
  <2> QED BY <2>1, <2>2 DEF Counting
<1> QED BY <1>5, <1>6, <1>9, StillKeeps DEF Inv

\* The last thread opens the barrier.
LEMMA BarrierExitInv ==
    ASSUME Inv, NEW t \in Thread, BarrierExit(t)
    PROVE  Inv' /\ Opens(t)
<1>1. /\ TypeOK /\ th[t].pc = "b_exit" /\ th \in [Thread -> ThreadState]
      /\ Counting /\ Roles /\ n_barrier_passed' = n_barrier_passed + 1 /\ GoTo(t, th[t].ret)
  BY DEF Inv, BarrierExit, At, TypeOK
<1>2. UNCHANGED <<n_graph, n_barrier, current_chunk, stop, pause, abort, ec, cgraph, asleep, done>>
  BY DEF BarrierExit
<1>3. th[t].ret \in {"chunk", "next", "done"}
  BY <1>1 DEF Roles, Flags, InTheBarrier
<1>4. /\ Only(t) /\ th'[t].pc = th[t].ret /\ th'[t].ret = th[t].ret
      /\ th'[t].last_graph = th[t].last_graph /\ th'[t].pending = th[t].pending
      /\ th'[t].graph = th[t].graph /\ th'[t].nth = th[t].nth /\ th'[t].node = th[t].node
      /\ th'[t].chunk = th[t].chunk
  <2>1. th[t].ret \in Pc
    BY <1>3 DEF Pc
  <2> QED BY <1>1, <2>1, Goes
<1>5. /\ t \in Team /\ Waiting = Team \ {t} /\ n_barrier = 0
      /\ \A u \in Thread \ {t} : th[u].pc \notin {"b_passed", "b_add", "b_reset", "b_exit"}
  BY <1>1, LastOfTeam DEF Counting
<1>6. n_barrier_passed \in Nat
  BY <1>1 DEF TypeOK
<1>7. ASSUME NEW u \in Thread \ {t}, th[u].pc = "b_spin"
      PROVE  th[u].n_passed # n_barrier_passed' /\ th[u].n_passed <= n_barrier_passed'
  <2>1. th[u] \in ThreadState
    BY <1>1
  <2>2. th[u].n_passed \in Nat /\ th[u].n_passed <= n_barrier_passed
    BY <1>1, <1>7, <2>1 DEF Counting, ThreadState
  <2> QED BY <1>1, <1>6, <2>2
<1>8. TypeOK'
  BY <1>1, <1>2, <1>4, <1>6 DEF TypeOK, Only
<1>9. Opens(t)
  BY <1>1, <1>2, <1>4, <1>5, <1>7 DEF Opens
<1>10. \A u \in Thread : u # t => th'[u] = th[u]
  BY <1>4 DEF Only
<1>11. Waiting' = {}
  BY <1>3, <1>4, <1>7, <1>10 DEF Waiting
<1>12. Counting'
  <2>1. Counting!2'
    BY <1>2, <1>5, <1>11, FS_EmptySet
  <2>2. ASSUME NEW u \in Thread PROVE Counting!1!(u)'
    <3>1. CASE u = t
      BY <1>3, <1>4, <1>11, <3>1
    <3>2. CASE u # t
      BY <1>5, <1>7, <1>10, <1>11, <3>2
    <3> QED BY <3>1, <3>2
  <2> QED BY <2>1, <2>2 DEF Counting
<1> QED BY <1>8, <1>9, <1>12, OpensKeeps DEF Inv

\* A released thread goes where it was taken to be.
LEMMA BarrierSpinInv ==
    ASSUME Inv, NEW t \in Thread, BarrierSpin(t)
    PROVE  Inv' /\ Still(t)
<1>1. /\ TypeOK /\ th[t].pc = "b_spin" /\ th \in [Thread -> ThreadState] /\ UNCHANGED shared
      /\ Counting /\ Roles /\ GoTo(t, th[t].ret) /\ Released(t)
  BY DEF Inv, BarrierSpin, At, TypeOK, Released
<1>2. UNCHANGED <<n_graph, n_barrier, n_barrier_passed, cgraph, abort>>
  BY <1>1 DEF shared
<1>3. th[t].ret \in {"chunk", "next", "done"}
  BY <1>1 DEF Roles, Flags, InTheBarrier
<1>4. /\ Only(t) /\ th'[t].pc = th[t].ret /\ th'[t].ret = th[t].ret
      /\ th'[t].last_graph = th[t].last_graph /\ th'[t].pending = th[t].pending
      /\ th'[t].graph = th[t].graph /\ th'[t].nth = th[t].nth /\ th'[t].node = th[t].node
      /\ th'[t].chunk = th[t].chunk
  <2>1. th[t].ret \in Pc
    BY <1>3 DEF Pc
  <2> QED BY <1>1, <2>1, Goes
<1>5. TypeOK'
  BY <1>1, <1>4 DEF TypeOK, shared, Only
<1>6. Still(t)
  BY <1>1, <1>2, <1>4 DEF Still, InTheBarrier
<1>7. \A u \in Thread : u # t => th'[u] = th[u]
  BY <1>4 DEF Only
<1>8. Waiting' = Waiting /\ Team' = Team
  BY <1>1, <1>2, <1>3, <1>4, <1>7 DEF Waiting, Released, Team
<1>9. Counting'
  <2>1. Counting!2'
    BY <1>1, <1>2, <1>3, <1>4, <1>7, <1>8 DEF Counting
  <2>2. ASSUME NEW u \in Thread PROVE Counting!1!(u)'
    <3>1. CASE u = t
      BY <1>1, <1>3, <1>4, <1>8, <3>1 DEF Waiting, Released
    <3>2. CASE u # t
      BY <1>1, <1>2, <1>7, <1>8, <3>2 DEF Counting
    <3> QED BY <3>1, <3>2
  <2> QED BY <2>1, <2>2 DEF Counting
<1> QED BY <1>5, <1>6, <1>9, StillKeeps DEF Inv

-----------------------------------------------------------------------------
(* Steps outside ggml_graph_compute_thread.                                *)

\* The rest of the invariant does not depend on the other variables.
LEMMA SameKeeps ==
    ASSUME Inv, UNCHANGED <<n_graph, n_barrier, n_barrier_passed, cgraph, abort, th>>
    PROVE  /\ Roles' /\ Members' /\ Counting' /\ Together' /\ Kept
           /\ \A t : (NotYet(t)' <=> NotYet(t)) /\ (Active(t)' <=> Active(t)) /\ Eff(t)' = Eff(t)
           /\ \A t, r : At_(t, r)' <=> At_(t, r)
<1>1. \A t : (Released(t)' <=> Released(t)) /\ Eff(t)' = Eff(t)
  BY DEF Released, Eff
<1>2. Team' = Team /\ Waiting' = Waiting /\ (\A t : Active(t)' <=> Active(t))
  BY <1>1 DEF Team, Waiting, Active
<1>3. (\A t : NotYet(t)' <=> NotYet(t)) /\ \A t, r : At_(t, r)' <=> At_(t, r)
  BY <1>1, <1>2 DEF NotYet, At_
<1>4. Prog' = Prog /\ NodeCount' = NodeCount /\ (\A i : Op(i)' = Op(i)) /\ \A n, i : Nops(n, i)' <=> Nops(n, i)
  BY DEF Prog, NodeCount, Op, Nops
<1>5. \A t, n : (PosNode(t, n)' <=> PosNode(t, n)) /\ (PosChunk(t, n)' <=> PosChunk(t, n))
  BY <1>1, <1>3, <1>4 DEF PosNode, PosChunk
<1>6. \A n : AbortAt(n)' <=> AbortAt(n)
  BY <1>1, <1>3, <1>4 DEF AbortAt
<1>7. \A n : (SegNode(n)' <=> SegNode(n)) /\ (SegChunk(n)' <=> SegChunk(n))
  BY <1>2, <1>5, <1>6 DEF SegNode, SegChunk
<1>8. Together'
  BY <1>2, <1>3, <1>4, <1>7 DEF Inv, Together
<1>9. \A t : Flags(t)' <=> Flags(t)
  BY DEF Flags, InTheBarrier
<1>10. Roles'
  BY <1>9 DEF Inv, Roles
<1>11. Members'
  BY <1>1, <1>2, <1>3 DEF Inv, Members
<1>12. Counting'
  BY <1>2 DEF Inv, Counting
<1>13. Kept
  BY <1>7 DEF Kept
<1> QED BY <1>1, <1>2, <1>3, <1>8, <1>10, <1>11, <1>12, <1>13

\* t was outside and stays outside.
OutsideStep(t) ==
    /\ Only(t) /\ UNCHANGED <<n_graph, n_barrier, n_barrier_passed>>
    /\ t # 0 => UNCHANGED <<cgraph, abort>>
    /\ th[t].pc \in Outside /\ th'[t].pc \in Outside
    /\ t = 0 => th'[t].pc \in {"idle", "kick", "join", "freed"}
    /\ th'[t].pc = "kick" => t = 0 /\ cgraph' > 0 /\ abort' = -1
    /\ t # 0 => th'[t].pc \notin {"idle", "kick", "join", "freed"}
    /\ th'[t].pending = FALSE
    /\ th'[t].last_graph \in {th[t].last_graph, n_graph}

\* Such a step moves nobody who computes.
LEMMA OutsideKeeps ==
    ASSUME Inv, NEW t \in Thread, OutsideStep(t)
    PROVE  /\ Roles' /\ Members' /\ Counting' /\ Together' /\ (Active(0)' => Kept)
           /\ ~Active(t) /\ ~Active(t)'
           /\ \A u \in Thread : (NotYet(u)' => NotYet(u)) /\ (Active(u)' <=> Active(u))
<1>1. TypeOK /\ Roles /\ Members /\ Counting /\ Together /\ 0 \in Thread
  BY Sizes DEF Inv
<1>2. Only(t) /\ UNCHANGED <<n_graph, n_barrier, n_barrier_passed>> /\ Team' = Team
      /\ \A u \in Thread : u # t => th'[u] = th[u]
  BY DEF OutsideStep, Only, Team
<1>3. ~Active(t) /\ ~Active(t)' /\ ~Released(t) /\ ~Released(t)'
  BY DEF OutsideStep, Active, Eff, Released, Outside
<1>4. \A u \in Thread : Active(u)' <=> Active(u)
  BY <1>2, <1>3, OthersSame
<1>5. ASSUME NEW u \in Thread PROVE NotYet(u)' => NotYet(u)
  <2>1. CASE u = t
    BY <1>2, <1>3, <2>1 DEF NotYet, OutsideStep
  <2>2. CASE u # t
    BY <1>2, <1>4, <2>2 DEF NotYet
  <2> QED BY <2>1, <2>2
<1>6. Roles'
  <2>1. th'[0].pc \notin {"top", "paused", "stop", "poll", "poll_graph", "check", "exit"}
    BY <1>1, <1>2 DEF OutsideStep, Roles
  <2>2. th'[0].pc = "kick" => cgraph' > 0 /\ abort' = -1
    BY <1>1, <1>2 DEF OutsideStep, Roles
  <2>3. \A u \in Worker : th'[u].pc \notin {"idle", "kick", "join", "freed"}
    BY <1>1, <1>2 DEF OutsideStep, Roles, Worker
  <2>4. ASSUME NEW u \in Thread PROVE Flags(u)'
    <3>1. CASE u = t
      BY <3>1 DEF Flags, InTheBarrier, OutsideStep, Outside
    <3>2. CASE u # t
      <4>1. th'[u] = th[u] /\ Flags(u)
        BY <1>1, <1>2, <3>2 DEF Roles
      <4> QED BY <4>1 DEF Flags, InTheBarrier
    <3> QED BY <3>1, <3>2
  <2> QED BY <2>1, <2>2, <2>3, <2>4 DEF Roles
<1>7. Members'
  <2> SUFFICES ASSUME NEW u \in Thread PROVE Members!(u)'
    BY DEF Members
  <2>1. NotYet(u)' => Active(0)'
    BY <1>1, <1>4, <1>5 DEF Members
  <2>2. Active(u)' => u # t /\ th'[u] = th[u] /\ Eff(u)' = Eff(u) /\ Active(u) /\ Active(0)
                      /\ u \in Team' /\ Active(0)' /\ t # 0
    BY <1>1, <1>2, <1>3, <1>4, OthersSame DEF Members
  <2>3. t # 0 => UNCHANGED cgraph
    BY DEF OutsideStep
  <2> QED BY <1>1, <1>2, <2>1, <2>2, <2>3 DEF Members
<1>8. Waiting' = Waiting
  BY <1>2 DEF Waiting, OutsideStep, Outside
<1>9. Counting'
  <2>1. th[t].pc \notin InTheBarrier /\ th'[t].pc \notin InTheBarrier
    BY DEF OutsideStep, Outside, InTheBarrier
  <2>2. Counting!2'
    BY <1>1, <1>2, <1>8, <2>1 DEF Counting, InTheBarrier
  <2>3. ASSUME NEW u \in Thread PROVE Counting!1!(u)'
    <3>1. CASE u = t
      BY <1>8, <2>1, <3>1 DEF InTheBarrier, Waiting
    <3>2. CASE u # t
      BY <1>1, <1>2, <1>8, <3>2 DEF Counting
    <3> QED BY <3>1, <3>2
  <2> QED BY <2>2, <2>3 DEF Counting
<1>10. Active(0)' => Kept /\ Together!2'
  <2> SUFFICES ASSUME Active(0)' PROVE Kept /\ Together!2'
    OBVIOUS
  <2>1. Active(0) /\ t # 0
    BY <1>1, <1>3, <1>4
  <2>2. UNCHANGED <<cgraph, abort>>
    BY <2>1 DEF OutsideStep
  <2>3. cgraph' > 0 /\ NodeCount' = NodeCount
    BY <1>1, <2>1, <2>2 DEF Together, NodeCount, Prog
  <2>5. ASSUME NEW n, NEW u \in Thread, Active(u)'
        PROVE  (PosNode(u, n)' <=> PosNode(u, n)) /\ (PosChunk(u, n)' <=> PosChunk(u, n)) /\ Active(u)
    BY <1>2, <1>3, <1>4, <2>2, <2>5, OthersPos
  <2>6. ASSUME NEW n PROVE AbortAt(n)' <=> AbortAt(n)
    BY <1>1, <1>2, <2>1, <2>2, OthersPos
  <2>7. ASSUME NEW n PROVE (SegNode(n) => SegNode(n)') /\ (SegChunk(n) => SegChunk(n)')
    BY <2>5, <2>6 DEF SegNode, SegChunk
  <2>8. Kept
    BY <2>7 DEF Kept
  <2>9. PICK n \in 0 .. NodeCount :
             \/ SegNode(n) /\ (n # 0 => \A u \in Thread : ~NotYet(u))
             \/ SegChunk(n) /\ \A u \in Thread : ~NotYet(u)
    BY <1>1, <2>1 DEF Together
  <2> QED BY <1>5, <2>3, <2>7, <2>8, <2>9
<1>11. Together'
  BY <1>10 DEF Together
<1> QED BY <1>3, <1>4, <1>5, <1>6, <1>7, <1>9, <1>10, <1>11

\* A worker of the team has noticed the graph.  It is the first segment, because the first
\* barrier does not open without it.
StartStep(t) ==
    /\ Only(t) /\ UNCHANGED <<n_graph, n_barrier, n_barrier_passed, cgraph, abort>>
    /\ t \in Worker /\ t \in Team /\ th[t].pc \in Outside /\ th[t].last_graph # n_graph
    /\ th'[t].pc = "start" /\ th'[t].last_graph = n_graph

\* Such a step keeps the team in its first segment.
LEMMA StartKeeps ==
    ASSUME Inv, NEW t \in Thread, StartStep(t)
    PROVE  /\ Roles' /\ Members' /\ Counting' /\ Together'
           /\ NotYet(t) /\ Active(0) /\ ~Active(t) /\ Eff(t)' = "start" /\ (SegNode(0) => SegNode(0)')
<1>1. TypeOK /\ Roles /\ Members /\ Counting /\ Together /\ 0 \in Thread /\ t # 0
  BY Sizes DEF Inv, StartStep, Worker
<1>2. Only(t) /\ UNCHANGED <<n_graph, n_barrier, n_barrier_passed, cgraph, abort>> /\ Team' = Team
      /\ \A u \in Thread : u # t => th'[u] = th[u]
  BY DEF StartStep, Only, Team
<1>3. ~Active(t) /\ ~Released(t) /\ ~Released(t)' /\ Active(t)' /\ Eff(t)' = "start"
  BY DEF StartStep, Active, Eff, Released, Outside
<1>4. NotYet(t) /\ ~NotYet(t)' /\ Active(0)
  BY <1>1, <1>3 DEF NotYet, StartStep, Members
<1>5. \A u \in Thread : u # t => (Active(u)' <=> Active(u)) /\ Eff(u)' = Eff(u)
  BY <1>2, OthersSame
<1>6. \A u \in Thread : u # t => (NotYet(u)' <=> NotYet(u))
  BY <1>2, <1>5 DEF NotYet
<1>7. Roles'
  <2>1. th'[0].pc \notin {"top", "paused", "stop", "poll", "poll_graph", "check", "exit"}
        /\ (th'[0].pc = "kick" => cgraph' > 0 /\ abort' = -1)
    BY <1>1, <1>2 DEF Roles
  <2>2. \A u \in Worker : th'[u].pc \notin {"idle", "kick", "join", "freed"}
    BY <1>1, <1>2 DEF StartStep, Roles, Worker
  <2>3. ASSUME NEW u \in Thread PROVE Flags(u)'
    <3>1. CASE u = t
      BY <3>1 DEF Flags, InTheBarrier, StartStep
    <3>2. CASE u # t
      <4>1. th'[u] = th[u] /\ Flags(u)
        BY <1>1, <1>2, <3>2 DEF Roles
      <4> QED BY <4>1 DEF Flags, InTheBarrier
    <3> QED BY <3>1, <3>2
  <2> QED BY <2>1, <2>2, <2>3 DEF Roles
<1>8. Members'
  <2> SUFFICES ASSUME NEW u \in Thread PROVE Members!(u)'
    BY DEF Members
  <2>1. CASE u = t
    BY <1>1, <1>2, <1>3, <1>4, <1>5, <2>1 DEF StartStep
  <2>2. CASE u # t
    BY <1>1, <1>2, <1>4, <1>5, <1>6, <2>2 DEF Members
  <2> QED BY <2>1, <2>2
<1>9. Waiting' = Waiting /\ t \notin Waiting
  BY <1>2 DEF Waiting, StartStep, Outside
<1>10. Counting'
  <2>1. th[t].pc \notin InTheBarrier /\ th'[t].pc \notin InTheBarrier
    BY DEF StartStep, Outside, InTheBarrier
  <2>2. Counting!2'
    BY <1>1, <1>2, <1>9, <2>1 DEF Counting, InTheBarrier
  <2>3. ASSUME NEW u \in Thread PROVE Counting!1!(u)'
    <3>1. CASE u = t
      BY <1>9, <2>1, <3>1 DEF InTheBarrier
    <3>2. CASE u # t
      BY <1>1, <1>2, <1>9, <3>2 DEF Counting
    <3> QED BY <3>1, <3>2
  <2> QED BY <2>2, <2>3 DEF Counting
<1>11. SegNode(0) => SegNode(0)'
  <2> SUFFICES ASSUME SegNode(0) PROVE SegNode(0)'
    OBVIOUS
  <2>1. ASSUME NEW u \in Thread, Active(u)' PROVE PosNode(u, 0)'
    <3>1. CASE u = t
      BY <1>3, <3>1 DEF PosNode
    <3>2. CASE u # t
      BY <1>2, <1>5, <2>1, <3>2, OthersPos DEF SegNode
    <3> QED BY <3>1, <3>2
  <2>2. AbortAt(0)'
    BY <1>1, <1>2, OthersPos DEF SegNode
  <2> QED BY <2>1, <2>2 DEF SegNode
<1>12. Together'
  <2>1. cgraph' > 0 /\ NodeCount' = NodeCount
    BY <1>1, <1>2, <1>4 DEF Together, NodeCount, Prog
  <2>2. SegNode(0) /\ 0 \in 0 .. NodeCount
    BY <1>1, <1>4 DEF Together
  <2> QED BY <1>11, <2>1, <2>2 DEF Together
<1> QED BY <1>3, <1>4, <1>7, <1>8, <1>10, <1>11, <1>12

\* A thread that is through leaves the graph.
LEMMA ComputeDoneInv ==
    ASSUME Inv, NEW t \in Thread, ComputeDone(t)
    PROVE  Inv' /\ OutsideStep(t)
<1>1. /\ TypeOK /\ th[t].pc = "done" /\ th \in [Thread -> ThreadState] /\ UNCHANGED shared
      /\ Roles
  BY DEF Inv, ComputeDone, At, TypeOK
<1> DEFINE pc == IF t = 0 THEN "idle" ELSE "top"
           s == [th[t] EXCEPT !.pc = pc, !.ret = "top",
                                  !.graph = 0, !.nth = 0, !.node = 0, !.chunk = 0,
                                  !.n_threads = 0, !.n_passed = 0]
<1>2. th' = [th EXCEPT ![t] = s]
  BY DEF ComputeDone
<1>3. s \in ThreadState
  <2>1. pc \in Pc /\ "top" \in Pc /\ th[t] \in ThreadState
    BY <1>1 DEF Pc
  <2> HIDE DEF pc
  <2> QED BY <2>1 DEF ThreadState
<1>4. s.pc = pc /\ s.pending = th[t].pending /\ s.last_graph = th[t].last_graph
  <2>1. th[t] \in ThreadState
    BY <1>1
  <2> HIDE DEF pc
  <2> QED BY <2>1 DEF ThreadState
<1> HIDE DEF s
<1>5. th'[t] = s /\ Only(t)
  BY <1>1, <1>2, <1>3 DEF Only
<1>6. th[t].pending = FALSE
  BY <1>1 DEF Roles, Flags
<1>7. OutsideStep(t)
  BY <1>1, <1>4, <1>5, <1>6 DEF OutsideStep, Outside, shared
<1>8. TypeOK'
  BY <1>1, <1>5 DEF TypeOK, shared, Only
<1> QED BY <1>7, <1>8, OutsideKeeps DEF Inv

\* A worker goes from one place outside to another.
LEMMA WorkerGoes ==
    ASSUME Inv, NEW t \in Worker, NEW pc \in {"top", "paused", "stop", "poll", "poll_graph", "check", "exit"},
           th[t].pc \in {"top", "paused", "stop", "poll", "poll_graph", "check"}, GoTo(t, pc),
           UNCHANGED <<n_graph, n_barrier, n_barrier_passed, current_chunk, stop, pause, abort, ec, cgraph, done>>,
           asleep' \subseteq Worker
    PROVE  Inv' /\ OutsideStep(t)
<1>1. TypeOK /\ Roles /\ t \in Thread /\ t # 0 /\ pc \in Pc
  BY DEF Inv, Worker, Pc
<1>2. th[t].pending = FALSE
  BY <1>1 DEF Roles, Flags
<1>3. /\ Only(t) /\ th'[t].pc = pc /\ th'[t].last_graph = th[t].last_graph
      /\ th'[t].pending = th[t].pending
  BY <1>1, Goes
<1>4. OutsideStep(t)
  BY <1>1, <1>2, <1>3 DEF OutsideStep, Outside
<1>5. TypeOK'
  BY <1>1, <1>3 DEF TypeOK, Only
<1> QED BY <1>1, <1>4, <1>5, OutsideKeeps DEF Inv

\* ggml_graph_compute_thread_ready sees a graph at most once.
LEMMA SeenTyped ==
    ASSUME Inv, NEW t \in Thread, th[t].pc # "start"
    PROVE  /\ Seen(th[t], t) \in ThreadState
           /\ \/ Seen(th[t], t) = th[t] /\ th[t].pending = FALSE
              \/ /\ n_graph # th[t].last_graph /\ Seen(th[t], t).last_graph = n_graph
                 /\ Seen(th[t], t).pending <=> t < n_graph.n_threads
<1>1. th[t] \in ThreadState /\ th[t].pending = FALSE
  BY DEF Inv, TypeOK, Roles, Flags
<1>2. CASE n_graph = th[t].last_graph
  BY <1>1, <1>2 DEF Seen
<1>3. CASE n_graph # th[t].last_graph
  <2>1. n_graph \in [count : Nat, n_threads : Nat]
    BY PoolAssumption DEF Inv, TypeOK
  <2> DEFINE b == (t < n_graph.n_threads)
             s == [th[t] EXCEPT !.pending = b, !.last_graph = n_graph]
  <2>2. Seen(th[t], t) = s
    BY <1>3 DEF Seen
  <2>3. b \in BOOLEAN
    OBVIOUS
  <2> HIDE DEF b
  <2>4. s \in ThreadState /\ s.last_graph = n_graph /\ s.pending = b
    BY <1>1, <2>1, <2>3 DEF ThreadState
  <2> QED BY <1>3, <2>2, <2>4 DEF b
<1> QED BY <1>2, <1>3

\* A worker goes on with what it has seen.
LEMMA WorkerSees ==
    ASSUME Inv, NEW t \in Worker, NEW s \in {th[t], Seen(th[t], t)}, NEW pc \in {"top", "poll", "check", "start"},
           th[t].pc \in {"poll_graph", "check"}, th' = [th EXCEPT ![t] = [s EXCEPT !.pc = pc]],
           pc = "start" <=> s.pending, UNCHANGED shared
    PROVE  Inv' /\ (OutsideStep(t) \/ StartStep(t))
<1>1. TypeOK /\ Roles /\ t \in Thread /\ t # 0 /\ pc \in Pc /\ th \in [Thread -> ThreadState]
      /\ th[t].pc # "start"
  BY DEF Inv, Worker, Pc, TypeOK
<1>2. th[t].pending = FALSE
  BY <1>1 DEF Roles, Flags
<1>3. /\ s \in ThreadState
      /\ \/ s = th[t] /\ s.pending = FALSE
         \/ /\ n_graph # th[t].last_graph /\ s.last_graph = n_graph
            /\ s.pending <=> t < n_graph.n_threads
  BY <1>1, <1>2, SeenTyped
<1> DEFINE r == [s EXCEPT !.pc = pc]
<1>4. r \in ThreadState /\ r.pc = pc /\ r.last_graph = s.last_graph /\ r.pending = s.pending
  BY <1>1, <1>3 DEF ThreadState
<1> HIDE DEF r
<1>5. th' = [th EXCEPT ![t] = r]
  BY DEF r
<1>6. th'[t] = r /\ Only(t)
  BY <1>1, <1>4, <1>5 DEF Only
<1>7. TypeOK'
  BY <1>1, <1>6 DEF TypeOK, shared, Only
<1>8. CASE pc = "start"
  <2>1. StartStep(t)
    BY <1>1, <1>3, <1>4, <1>6, <1>8 DEF StartStep, shared, Outside, Team
  <2> QED BY <1>1, <1>7, <2>1, StartKeeps DEF Inv
<1>9. CASE pc # "start"
  <2>1. s.pending \in BOOLEAN
    BY <1>3 DEF ThreadState
  <2>2. s.pending = FALSE
    BY <1>9, <2>1
  <2>3. OutsideStep(t)
    BY <1>1, <1>3, <1>4, <1>6, <1>9, <2>2 DEF OutsideStep, shared, Outside
  <2> QED BY <1>1, <1>7, <2>3, OutsideKeeps DEF Inv
<1> QED BY <1>8, <1>9

\* Every step of a worker outside a graph keeps the invariant,
LEMMA SecondaryInv ==
    ASSUME Inv, NEW t \in Worker, secondary_thread(t)
    PROVE  Inv' /\ (OutsideStep(t) \/ StartStep(t) \/ UNCHANGED th)
<1> USE DEF shared, At
<1>1. asleep \subseteq Worker
  BY DEF Inv, TypeOK
<1>2. CASE Top(t)
  BY <1>1, <1>2, WorkerGoes DEF Top
<1>3. CASE Paused(t)
  BY <1>1, <1>3, WorkerGoes DEF Paused
<1>4. CASE StopCheck(t)
  BY <1>1, <1>4, WorkerGoes DEF StopCheck
<1>5. CASE Poll(t)
  BY <1>1, <1>5, WorkerGoes DEF Poll
<1>6. CASE PollGraph(t)
  <2>1. PICK pc \in {"poll", "check", "start"} :
          /\ pc = "start" <=> Seen(th[t], t).pending
          /\ th' = [th EXCEPT ![t] = [Seen(th[t], t) EXCEPT !.pc = pc]]
    BY <1>6 DEF PollGraph
  <2> QED BY <1>6, <2>1, WorkerSees DEF PollGraph
<1>7. CASE Check(t)
  <2> DEFINE s == IF stop \/ pause THEN th[t] ELSE Seen(th[t], t)
  <2>1. CASE stop \/ pause \/ s # th[t]
    <3> DEFINE pc == IF s.pending THEN "start" ELSE "top"
    <3>1. th' = [th EXCEPT ![t] = [s EXCEPT !.pc = pc]] /\ UNCHANGED shared /\ th[t].pc = "check"
      BY <1>7, <2>1 DEF Check
    <3>2. s \in {th[t], Seen(th[t], t)} /\ pc \in {"top", "poll", "check", "start"}
          /\ (pc = "start" <=> s.pending)
      OBVIOUS
    <3> HIDE DEF s, pc
    <3> QED BY <3>1, <3>2, WorkerSees
  <2>2. CASE ~(stop \/ pause \/ s # th[t])
    <3>1. asleep' = asleep \cup {t} /\ UNCHANGED th
      BY <1>7, <2>2 DEF Check
    <3>2. UNCHANGED <<n_graph, n_barrier, n_barrier_passed, current_chunk, stop, pause, abort, ec, cgraph, done>>
      BY <1>7 DEF Check
    <3>3. TypeOK'
      BY <1>1, <3>1, <3>2 DEF TypeOK, Inv
    <3> QED BY <3>1, <3>2, <3>3, SameKeeps DEF Inv
  <2> QED BY <2>1, <2>2
<1> QED BY <1>2, <1>3, <1>4, <1>5, <1>6, <1>7 DEF secondary_thread

\* Thread 0 goes from one place outside to another.
LEMMA CallerGoes ==
    ASSUME Inv, NEW pc \in {"idle", "kick", "join", "freed"}, th[0].pc \in {"idle", "join"}, GoTo(0, pc),
           UNCHANGED <<n_graph, n_barrier, n_barrier_passed>>, pc = "kick" => cgraph' > 0 /\ abort' = -1
    PROVE  OutsideStep(0) /\ Only(0) /\ 0 \in Thread /\ Roles' /\ Members' /\ Counting' /\ Together'
<1>1. TypeOK /\ Roles /\ 0 \in Thread /\ pc \in Pc
  BY Sizes DEF Inv, Pc
<1>2. th[0].pending = FALSE
  BY <1>1 DEF Roles, Flags
<1>3. /\ Only(0) /\ th'[0].pc = pc /\ th'[0].last_graph = th[0].last_graph
      /\ th'[0].pending = th[0].pending
  BY <1>1, Goes
<1>4. OutsideStep(0)
  BY <1>1, <1>2, <1>3 DEF OutsideStep, Outside
<1> QED BY <1>1, <1>3, <1>4, OutsideKeeps

\* every step of thread 0 between two graphs,
LEMMA CallerInv ==
    ASSUME Inv, Reset \/ SetPause \/ Free \/ Join \/ \E t \in Worker : SpuriousWakeup(t)
    PROVE  Inv'
<1> USE DEF At
<1>1. TypeOK
  BY DEF Inv
<1>2. CASE Reset
  <2>1. cgraph \in Nat /\ Len(Graphs) \in Nat
    BY <1>1, PoolAssumption DEF TypeOK
  <2>2. cgraph' > 0 /\ cgraph' \in 0 .. Len(Graphs)
    BY <1>1, <1>2, <2>1 DEF Reset, TypeOK
  <2>3. Only(0) /\ Roles' /\ Members' /\ Counting' /\ Together'
    BY <1>2, <2>2, CallerGoes DEF Reset
  <2>4. TypeOK'
    BY <1>1, <1>2, <2>2, <2>3, BagEmpty DEF Reset, TypeOK, Only
  <2> QED BY <2>3, <2>4 DEF Inv
<1>3. CASE SetPause
  <2>1. TypeOK'
    BY <1>1, <1>3 DEF SetPause, Broadcast, TypeOK
  <2> QED BY <1>3, <2>1, SameKeeps DEF SetPause, Inv
<1>4. CASE Free
  <2>1. Only(0) /\ Roles' /\ Members' /\ Counting' /\ Together'
    BY <1>4, CallerGoes DEF Free
  <2>2. TypeOK'
    BY <1>1, <1>4, <2>1 DEF Free, Broadcast, TypeOK, Only
  <2> QED BY <2>1, <2>2 DEF Inv
<1>5. CASE Join
  <2>1. Only(0) /\ Roles' /\ Members' /\ Counting' /\ Together'
    BY <1>5, CallerGoes DEF Join, shared
  <2>2. TypeOK'
    BY <1>1, <1>5, <2>1 DEF Join, shared, TypeOK, Only
  <2> QED BY <2>1, <2>2 DEF Inv
<1>6. CASE \E t \in Worker : SpuriousWakeup(t)
  <2>1. TypeOK'
    BY <1>1, <1>6 DEF SpuriousWakeup, TypeOK
  <2> QED BY <1>6, <2>1, SameKeeps DEF SpuriousWakeup, Inv
<1> QED BY <1>2, <1>3, <1>4, <1>5, <1>6

\* No thread is inside a graph when thread 0 kicks off the next.
LEMMA KickoffInv ==
    ASSUME Inv, Kickoff
    PROVE  Inv'
<1>1. /\ TypeOK /\ Roles /\ Members /\ Counting /\ 0 \in Thread /\ th[0].pc = "kick"
      /\ "start" \in Pc /\ GoTo(0, "start")
  BY Sizes DEF Inv, Kickoff, At, Pc
<1>2. UNCHANGED <<n_barrier, n_barrier_passed, current_chunk, stop, abort, ec, cgraph, done>>
      /\ pause' = FALSE /\ asleep' = {}
  BY DEF Kickoff, Broadcast
<1>3. /\ Only(0) /\ th'[0].pc = "start" /\ \A u \in Thread : u # 0 => th'[u] = th[u]
  BY <1>1, Goes DEF Only
<1>4. cgraph > 0 /\ abort = -1
  BY <1>1 DEF Roles
<1>5. ~Active(0)
  BY <1>1 DEF Active, Eff, Released, Outside
<1>6. \A u \in Thread : ~Active(u)
  BY <1>1, <1>5 DEF Members
<1>7. \A u \in Thread : u # 0 => ~Active(u)'
  BY <1>1, <1>2, <1>3, <1>6, OthersSame
<1>8. Active(0)' /\ Eff(0)' = "start"
  BY <1>3 DEF Active, Eff, Released, Outside
<1>9. n_graph' \in [count : 0 .. GraphMod - 1, n_threads : 0 .. PoolThreads] /\ n_graph'.n_threads > 0
  <2> DEFINE c == (n_graph.count + 1) % GraphMod
             m == IF Graphs[cgraph].n_threads > PoolThreads THEN PoolThreads ELSE Graphs[cgraph].n_threads
  <2>1. n_graph' = [count |-> c, n_threads |-> m]
    BY DEF Kickoff
  <2>2. c \in 0 .. GraphMod - 1
    <3>1. GraphMod \in Nat \ {0} /\ n_graph.count \in Nat
      BY <1>1, PoolAssumption DEF TypeOK
    <3> QED BY <3>1
  <2>3. m \in 0 .. PoolThreads /\ m > 0
    BY <1>1, <1>4, GraphTyped, PoolAssumption
  <2> HIDE DEF c, m
  <2> QED BY <2>1, <2>2, <2>3
<1>10. 0 \in Team'
  BY <1>1, <1>9 DEF Team
<1>11. TypeOK'
  BY <1>1, <1>2, <1>3, <1>9 DEF TypeOK, Only
<1>12. Roles'
  <2>1. \A u \in Worker : th'[u].pc \notin {"idle", "kick", "join", "freed"}
    BY <1>1, <1>3 DEF Roles, Worker
  <2>2. ASSUME NEW u \in Thread PROVE Flags(u)'
    <3>1. CASE u = 0
      BY <1>3, <3>1 DEF Flags, InTheBarrier
    <3>2. CASE u # 0
      <4>1. th'[u] = th[u] /\ Flags(u)
        BY <1>1, <1>3, <3>2 DEF Roles
      <4> QED BY <4>1 DEF Flags, InTheBarrier
    <3> QED BY <3>1, <3>2
  <2> QED BY <1>3, <2>1, <2>2 DEF Roles
<1>13. Members'
  <2> SUFFICES ASSUME NEW u \in Thread PROVE Members!(u)'
    BY DEF Members
  <2> QED BY <1>7, <1>8, <1>10
<1>14. \A u \in Thread : /\ th[u].pc \notin {"b_passed", "b_add", "b_reset", "b_exit"}
                         /\ th[u].pc = "b_spin" => th[u].n_passed # n_barrier_passed
  BY <1>6 DEF Active, Eff, Released, Outside
<1>15. Waiting = {} /\ Waiting' = {}
  BY <1>2, <1>3, <1>14 DEF Waiting
<1>16. Counting'
  <2>1. n_barrier = 0
    BY <1>1, <1>14, <1>15, FS_EmptySet DEF Counting
  <2>2. Counting!2'
    BY <1>2, <1>15, <2>1, FS_EmptySet
  <2>3. ASSUME NEW u \in Thread PROVE Counting!1!(u)'
    BY <1>1, <1>2, <1>3, <1>14, <1>15 DEF Counting
  <2> QED BY <2>2, <2>3 DEF Counting
<1>17. Together'
  <2>1. NodeCount' \in Nat
    BY <1>2, <1>1, <1>4, GraphTyped DEF NodeCount, Prog
  <2>2. SegNode(0)'
    <3>1. ASSUME NEW u \in Thread, Active(u)' PROVE PosNode(u, 0)'
      BY <1>7, <1>8, <3>1 DEF PosNode
    <3>2. AbortAt(0)'
      BY <1>2, <1>4 DEF AbortAt
    <3> QED BY <3>1, <3>2 DEF SegNode
  <2> QED BY <1>2, <1>4, <2>1, <2>2 DEF Together
<1> QED BY <1>11, <1>12, <1>13, <1>16, <1>17 DEF Inv

\* The invariant holds in a new pool.
LEMMA InitInv == Init => Inv
<1> SUFFICES ASSUME Init PROVE Inv
  OBVIOUS
<1>1. 0 \in Thread /\ PoolThreads \in Nat /\ GraphMod \in Nat \ {0}
  BY PoolAssumption DEF Thread
<1>2. ASSUME NEW t \in Thread
      PROVE  /\ th[t].pc = (IF t = 0 THEN "idle" ELSE "top") /\ th[t].pending = FALSE
             /\ th[t].last_graph = n_graph /\ th[t] \in ThreadState
  BY DEF Init, ThreadState, Pc
<1>3. TypeOK
  <2>1. th \in [Thread -> ThreadState]
    BY <1>2 DEF Init
  <2>2. n_graph \in [count : 0 .. GraphMod - 1, n_threads : 0 .. PoolThreads]
    BY <1>1 DEF Init
  <2>3. pause \in BOOLEAN /\ cgraph \in 0 .. Len(Graphs)
    <3>1. Len(Graphs) \in Nat
      BY PoolAssumption
    <3>2. cgraph = 0
      BY DEF Init
    <3>3. pause \in BOOLEAN
      <4>1. MayPause \in BOOLEAN
        BY PoolAssumption
      <4> QED BY <4>1 DEF Init
    <3> QED BY <3>1, <3>2, <3>3
  <2>4. n_barrier \in 0 .. PoolThreads /\ n_barrier_passed \in Nat /\ current_chunk \in Nat
        /\ abort \in Int /\ asleep \subseteq Worker
    BY <1>1 DEF Init
  <2>5. stop \in BOOLEAN /\ ec \in {"ok", "aborted"} /\ IsABag(done)
    BY BagEmpty DEF Init
  <2> QED BY <2>1, <2>2, <2>3, <2>4, <2>5 DEF TypeOK
<1>4. \A t \in Thread : ~Active(t) /\ th[t].pc \notin InTheBarrier /\ ~NotYet(t)
  BY <1>2 DEF Active, Eff, Released, Outside, InTheBarrier, NotYet
<1>5. Roles
  BY <1>1, <1>2 DEF Roles, Flags, InTheBarrier, Worker
<1>6. Members
  BY <1>4 DEF Members
<1>7. Waiting = {}
  BY <1>4 DEF Waiting, InTheBarrier
<1>8. Counting
  BY <1>4, <1>7, FS_EmptySet DEF Counting, InTheBarrier, Init
<1>9. Together
  BY <1>1, <1>4 DEF Together
<1> QED BY <1>3, <1>5, <1>6, <1>8, <1>9 DEF Inv

\* Every step keeps the invariant.
LEMMA NextKeeps == Inv /\ [Next]_vars => Inv'
<1> SUFFICES ASSUME Inv, [Next]_vars PROVE Inv'
  OBVIOUS
<1>1. ASSUME NEW t \in Thread, ggml_barrier(t) PROVE Inv'
  BY <1>1, BarrierEnterInv, BarrierReadPassedInv, BarrierAddInv, BarrierResetInv, BarrierExitInv,
     BarrierSpinInv DEF ggml_barrier
<1>2. ASSUME NEW t \in Thread, ggml_graph_compute_thread(t) PROVE Inv'
  BY <1>1, <1>2, ComputeStartInv, NextNodeInv, ShareInv, ChunkInv, NextChunkInv, AfterInv, NextInv,
     ComputeDoneInv DEF ggml_graph_compute_thread
<1>3. ASSUME NEW t \in Thread, Step(t) PROVE Inv'
  BY <1>2, <1>3, SecondaryInv DEF Step
<1>4. CASE Freed \/ UNCHANGED vars
  <2>1. UNCHANGED vars
    BY <1>4 DEF Freed
  <2>2. TypeOK'
    BY <2>1 DEF Inv, TypeOK, vars, shared
  <2> QED BY <2>1, <2>2, SameKeeps DEF Inv, vars, shared
<1> QED BY <1>3, <1>4, CallerInv, KickoffInv DEF Next

\* The inductive invariant holds for every number of threads and every list of graphs.
THEOREM InvHolds == Spec => []Inv
<1>1. Inv /\ [Next]_vars => Inv'
  BY NextKeeps
<1> QED BY <1>1, InitInv, PTL DEF Spec

\* Every variable has its type; in particular n_barrier never passes the size of the pool.
THEOREM ThreadpoolTypeCorrect == Spec => []TypeOK
<1>1. Inv => TypeOK
  BY DEF Inv
<1> QED BY <1>1, InvHolds, PTL

\* When thread 0 sets up a graph or frees the pool, no worker is inside the last graph.
THEOREM ThreadpoolResetIsPrivate == Spec => []ResetIsPrivate
<1>1. Inv => ResetIsPrivate
  <2> SUFFICES ASSUME Inv, th[0].pc \in {"idle", "kick", "freed"}, NEW t \in Worker
               PROVE  \/ th[t].pc \in {"top", "paused", "stop", "poll", "poll_graph", "check", "done", "exit"}
                      \/ At(t, "b_spin") /\ th[t].ret = "done" /\ th[t].n_passed # n_barrier_passed
    BY DEF ResetIsPrivate
  <2>1. Roles /\ Members /\ t \in Thread
    BY DEF Inv, Worker
  <2>2. ~Active(0)
    BY DEF Active, Eff, Released, Outside
  <2>3. Eff(t) \in Outside
    BY <2>1, <2>2 DEF Members, Active
  <2>4. CASE Released(t)
    BY <2>1, <2>3, <2>4 DEF Eff, Released, Roles, Flags, InTheBarrier, Outside, At
  <2>5. CASE ~Released(t)
    BY <2>1, <2>3, <2>5 DEF Eff, Roles, Outside
  <2> QED BY <2>4, <2>5
<1> QED BY <1>1, InvHolds, PTL

-----------------------------------------------------------------------------
(* The thread pool implements GraphExec.  Progress adds to the invariant   *)
(* what has been done when the threads are where it says.                  *)

\* The number of threads graph g is computed with.
Threads(g) == IF Graphs[g].n_threads > PoolThreads THEN PoolThreads ELSE Graphs[g].n_threads

Piece(n, p, i) == [node |-> n, phase |-> p, i |-> i]

\* t has done its share of the node of the segment that begins at node n.
Shared(t, n) ==
    \/ At_(t, "chunk") \/ Eff(t) = "after" \/ At_(t, "next")
    \/ Eff(t) = "next" /\ th[t].node >= n
    \/ /\ Eff(t) = "node" \/ At_(t, "done")
       /\ th[t].node = NodeCount /\ n < NodeCount /\ Op(NodeCount - 1) # "nop"

\* Some thread is at work on chunk j.
Held(j) == \E t \in Thread : Eff(t) = "chunk" /\ th[t].chunk = j

\* The work done when the team is in the segment of node n ...
NodeDone(n) ==
    /\ BagToSet(done) \subseteq Pieces(cgraph)
    /\ \A x \in Pieces(cgraph) :
          x \in BagToSet(done) <=> x.node < n \/ (x.phase = 0 /\ Nops(n, x.node) /\ Shared(x.i, n))
    /\ \A t \in Thread : At_(t, "chunk") => th[t].chunk = t
    /\ At_(0, "chunk") => current_chunk = n_graph.n_threads

\* ... and between the phases of it.
ChunksDone(n) ==
    /\ BagToSet(done) \subseteq Pieces(cgraph)
    /\ \A x \in Pieces(cgraph) :
          x \in BagToSet(done) <=>
             \/ x.node < n
             \/ x.node = n /\ (x.phase = 0 \/ (x.i < current_chunk /\ ~Held(x.i)))
    /\ \A t \in Thread : Eff(t) = "chunk" =>
          /\ th[t].chunk < current_chunk
          /\ \A u \in Thread : Eff(u) = "chunk" /\ th[u].chunk = th[t].chunk => u = t
    /\ current_chunk >= n_graph.n_threads
    /\ \A t \in Thread : Active(t) /\ Eff(t) \notin {"chunk", "next_chunk"} =>
          current_chunk >= NChunk(Prog[n + 1], n_graph.n_threads)

NodeAt(n) == SegNode(n) /\ NodeDone(n) /\ (n # 0 => \A t \in Thread : ~NotYet(t))
ChunkAt(n) == SegChunk(n) /\ ChunksDone(n) /\ \A t \in Thread : ~NotYet(t)

\* All the work is done, or that of all nodes up to one.
Final ==
    \/ ec = "ok" /\ BagToSet(done) = Pieces(cgraph)
    \/ /\ ec = "aborted"
       /\ \E x \in Pieces(cgraph) : BagToSet(done) = {y \in Pieces(cgraph) : y.node < x.node + 1}

\* The node where the threads stop is behind one that was computed.
Stopping ==
    /\ ec = "aborted" <=> abort # -1
    /\ abort # -1 => abort \in 1 .. NodeCount /\ Op(abort - 1) # "nop"

Progress ==
    /\ th[0].pc = "kick" => done = EmptyBag /\ ec = "ok"
    /\ Eff(0) = "done" => cgraph > 0 /\ Final
    /\ Active(0) =>
          /\ n_graph.n_threads = Threads(cgraph) /\ Stopping
          /\ \E n \in 0 .. NodeCount : NodeAt(n) \/ ChunkAt(n)

-----------------------------------------------------------------------------
(* The pieces of work of the graph that is computed.                       *)

\* A node has a number of chunks.
LEMMA ChunkCount ==
    ASSUME TypeOK, cgraph > 0, NEW k \in 1 .. NodeCount, NEW m \in Nat
    PROVE  NChunk(Prog[k], m) \in Nat
<1> DEFINE N == [op : STRING, chunks : Nat]
<1>1. Prog \in Seq(N) /\ k \in 1 .. Len(Prog)
  BY GraphTyped DEF NodeCount
<1>2. Prog[k] \in N
  <2> HIDE DEF N
  <2> QED BY <1>1
<1>3. Prog[k].chunks \in Nat
  BY <1>2
<1> QED BY <1>3 DEF NChunk

\* What a piece is.
LEMMA PieceIs ==
    ASSUME TypeOK, cgraph > 0, NEW x \in Pieces(cgraph)
    PROVE  /\ x = Piece(x.node, x.phase, x.i) /\ x.phase \in {0, 1} /\ x.i \in Nat
           /\ x.node \in 0 .. NodeCount - 1 /\ Op(x.node) # "nop"
           /\ x.phase = 0 => x.i < Threads(cgraph)
           /\ x.phase = 1 => Op(x.node) = "mul_mat" /\ x.i < NChunk(Prog[x.node + 1], Threads(cgraph))
<1> DEFINE nth == Threads(cgraph)
<1>1. nth \in Nat /\ NodeCount \in Nat /\ Prog \in Seq([op : STRING, chunks : Nat])
  BY GraphTyped, PoolAssumption DEF Threads
<1>2. CASE \E k \in 1 .. NodeCount, t \in 0 .. nth - 1 : Prog[k].op # "nop" /\ x = Piece(k - 1, 0, t)
  <2>1. PICK k \in 1 .. NodeCount, t \in 0 .. nth - 1 : Prog[k].op # "nop" /\ x = Piece(k - 1, 0, t)
    BY <1>2
  <2>2. x.node = k - 1 /\ x.phase = 0 /\ x.i = t /\ k - 1 + 1 = k
    BY <1>1, <2>1 DEF Piece
  <2> QED BY <1>1, <2>1, <2>2 DEF Op
<1>3. CASE \E k \in 1 .. NodeCount : \E t \in 0 .. NChunk(Prog[k], nth) - 1 :
              Prog[k].op = "mul_mat" /\ x = Piece(k - 1, 1, t)
  <2>1. PICK k \in 1 .. NodeCount : \E t \in 0 .. NChunk(Prog[k], nth) - 1 :
              Prog[k].op = "mul_mat" /\ x = Piece(k - 1, 1, t)
    BY <1>3
  <2>2. PICK t \in 0 .. NChunk(Prog[k], nth) - 1 : Prog[k].op = "mul_mat" /\ x = Piece(k - 1, 1, t)
    BY <2>1
  <2>3. x.node = k - 1 /\ x.phase = 1 /\ x.i = t /\ k - 1 + 1 = k
    BY <1>1, <2>2 DEF Piece
  <2>4. NChunk(Prog[k], nth) \in Nat
    BY <1>1, ChunkCount
  <2> QED BY <1>1, <2>2, <2>3, <2>4 DEF Op
<1> QED BY <1>2, <1>3 DEF Pieces, Piece, Threads, NodeCount, Prog

\* Which pieces there are.
LEMMA IsPiece ==
    ASSUME TypeOK, cgraph > 0, NEW n \in 0 .. NodeCount - 1, NEW i \in Nat
    PROVE  /\ Op(n) # "nop" /\ i < Threads(cgraph) => Piece(n, 0, i) \in Pieces(cgraph)
           /\ Op(n) = "mul_mat" /\ i < NChunk(Prog[n + 1], Threads(cgraph))
                 => Piece(n, 1, i) \in Pieces(cgraph)
<1> DEFINE nth == Threads(cgraph)
<1>1. nth \in Nat /\ NodeCount \in Nat /\ Prog \in Seq([op : STRING, chunks : Nat])
  BY GraphTyped, PoolAssumption DEF Threads
<1>2. PICK k \in 1 .. NodeCount : n = k - 1 /\ k = n + 1
  BY <1>1
<1>3. NChunk(Prog[k], nth) \in Nat
  BY <1>1, ChunkCount
<1>4. Prog[k].op # "nop" /\ i \in 0 .. nth - 1 => Piece(k - 1, 0, i) \in Pieces(cgraph)
  BY <1>2 DEF Pieces, Piece, Threads, NodeCount, Prog
<1>5. Prog[k].op = "mul_mat" /\ i \in 0 .. NChunk(Prog[k], nth) - 1 => Piece(k - 1, 1, i) \in Pieces(cgraph)
  BY <1>2 DEF Pieces, Piece, Threads, NodeCount, Prog
<1> QED BY <1>1, <1>2, <1>3, <1>4, <1>5 DEF Op

\* Between two barriers only one node computes something.
LEMMA FirstNode ==
    ASSUME TypeOK, cgraph > 0, NEW n \in Nat, NEW k \in n .. NodeCount - 1,
           Nops(n, k), Op(k) # "nop", NEW x \in Pieces(cgraph)
    PROVE  /\ x.node < k <=> x.node < n
           /\ x.node < n \/ Nops(n, x.node) <=> x.node <= k
           /\ x.node >= n /\ Nops(n, x.node) <=> x.node = k
<1>1. x.node \in 0 .. NodeCount - 1 /\ Op(x.node) # "nop" /\ NodeCount \in Nat
  BY PieceIs, GraphTyped
<1> DEFINE m == x.node
<1>2. m \in Nat /\ Op(m) # "nop" /\ k \in Nat /\ n <= k
  BY <1>1
<1> HIDE DEF m
<1>3. m >= n => m >= k
  <2> SUFFICES ASSUME m >= n, m < k PROVE FALSE
    BY <1>2
  <2>1. m \in n .. k - 1
    BY <1>2
  <2> QED BY <1>2, <2>1 DEF Nops
<1>4. m > k => ~Nops(n, m)
  <2> SUFFICES ASSUME m > k, Nops(n, m) PROVE FALSE
    OBVIOUS
  <2>1. k \in n .. m - 1
    BY <1>2
  <2> QED BY <2>1 DEF Nops
<1>5. (m < k <=> m < n) /\ (m < n \/ Nops(n, m) <=> m <= k) /\ (m >= n /\ Nops(n, m) <=> m = k)
  BY <1>2, <1>3, <1>4
<1> QED BY <1>5 DEF m

\* There is a thread for each share.
LEMMA ShareThread ==
    ASSUME TypeOK, cgraph > 0
    PROVE  /\ Threads(cgraph) \in 1 .. PoolThreads
           /\ \A i \in Nat : i < Threads(cgraph) => i \in Thread
<1>1. PoolThreads \in Nat \ {0} /\ Graphs[cgraph].n_threads \in Nat \ {0}
  BY GraphTyped, PoolAssumption
<1>2. Threads(cgraph) \in 1 .. PoolThreads
  BY <1>1 DEF Threads
<1> QED BY <1>1, <1>2 DEF Thread

\* What the threads have done, as far as the work done depends on it.
SameShares(n) ==
    \A u \in Thread :
       /\ Shared(u, n)' <=> Shared(u, n)
       /\ At_(u, "chunk")' => At_(u, "chunk") /\ th'[u].chunk = th[u].chunk

SameChunks ==
    \A u \in Thread :
       /\ Eff(u)' = "chunk" <=> Eff(u) = "chunk"
       /\ Eff(u) = "chunk" => th'[u].chunk = th[u].chunk
       /\ Active(u)' /\ Eff(u)' \notin {"chunk", "next_chunk"} => Active(u) /\ Eff(u) \notin {"chunk", "next_chunk"}

\* Steps that do no work.
LEMMA NodeQuiet ==
    ASSUME Inv, cgraph > 0, NEW n \in Nat, UNCHANGED <<done, current_chunk, cgraph, n_graph>>,
           SameShares(n), NodeDone(n)
    PROVE  NodeDone(n)'
<1>1. TypeOK /\ 0 \in Thread
  BY Sizes DEF Inv
<1>2. Pieces(cgraph)' = Pieces(cgraph) /\ \A i : Nops(n, i)' <=> Nops(n, i)
  BY DEF Nops, Op, Prog
<1>3. ASSUME NEW x \in Pieces(cgraph)
      PROVE  (x.phase = 0 /\ Nops(n, x.node) /\ Shared(x.i, n))' <=> x.phase = 0 /\ Nops(n, x.node) /\ Shared(x.i, n)
  <2>1. x.phase = 0 => x.i \in Thread
    BY <1>1, PieceIs, ShareThread
  <2> QED BY <1>2, <2>1 DEF SameShares
<1> QED BY <1>1, <1>2, <1>3 DEF NodeDone, SameShares

\* The same between the phases of a node.
LEMMA ChunkQuiet ==
    ASSUME Inv, cgraph > 0, NEW n \in Nat, UNCHANGED <<done, current_chunk, cgraph, n_graph>>,
           SameChunks, ChunksDone(n)
    PROVE  ChunksDone(n)'
<1>1. Pieces(cgraph)' = Pieces(cgraph) /\ Prog' = Prog
  BY DEF Prog
<1>2. \A j : Held(j)' <=> Held(j)
  BY DEF Held, SameChunks
<1>3. ASSUME NEW u \in Thread, Eff(u)' = "chunk"
      PROVE  /\ th'[u].chunk < current_chunk
             /\ \A v \in Thread : Eff(v)' = "chunk" /\ th'[v].chunk = th'[u].chunk => v = u
  BY <1>3 DEF SameChunks, ChunksDone
<1>4. ASSUME NEW u \in Thread, Active(u)', Eff(u)' \notin {"chunk", "next_chunk"}
      PROVE  current_chunk >= NChunk(Prog[n + 1], n_graph.n_threads)
  BY <1>4 DEF SameChunks, ChunksDone
<1> QED BY <1>1, <1>2, <1>3, <1>4 DEF ChunksDone

\* The invariant is kept while thread 0 computes ...
LEMMA ProgressStays ==
    ASSUME Inv, Progress, Active(0), Active(0)', UNCHANGED <<n_graph, cgraph>>, Stopping',
           \A n \in 0 .. NodeCount : (NodeAt(n) => NodeAt(n)') /\ (ChunkAt(n) => ChunkAt(n)')
    PROVE  Progress'
<1>1. Eff(0)' # "done" /\ th'[0].pc # "kick"
  BY DEF Active, Outside, Eff, Released
<1>2. NodeCount' = NodeCount /\ Threads(cgraph)' = Threads(cgraph)
  BY DEF NodeCount, Prog
<1>3. PICK n \in 0 .. NodeCount : NodeAt(n) \/ ChunkAt(n)
  BY DEF Progress
<1>4. NodeAt(n)' \/ ChunkAt(n)'
  BY <1>3
<1>5. n_graph.n_threads = Threads(cgraph)
  BY DEF Progress
<1> QED BY <1>1, <1>2, <1>3, <1>4, <1>5 DEF Progress

\* ... and while it does not.
LEMMA ProgressRests ==
    ASSUME Progress, ~Active(0)', UNCHANGED <<done, ec, cgraph>>,
           Eff(0)' = "done" => Eff(0) = "done", th'[0].pc = "kick" => th[0].pc = "kick"
    PROVE  Progress'
<1>1. Final' <=> Final
  BY DEF Final
<1> QED BY <1>1 DEF Progress

\* A step that does no work.
Quiet ==
    /\ UNCHANGED <<done, current_chunk, cgraph, n_graph>>
    /\ \A u \in Thread : NotYet(u)' => NotYet(u)

\* Such a step keeps the work that the position of the team stands for.
LEMMA QuietStays ==
    ASSUME Inv, Progress, Active(0), Active(0)', Quiet, Kept, Stopping',
           \A n \in 0 .. NodeCount : (SegNode(n) => SameShares(n)) /\ (SegChunk(n) => SameChunks)
    PROVE  Progress'
<1>1. cgraph > 0 /\ NodeCount \in Nat
  BY GraphTyped DEF Inv, Together
<1>2. ASSUME NEW n \in 0 .. NodeCount PROVE (NodeAt(n) => NodeAt(n)') /\ (ChunkAt(n) => ChunkAt(n)')
  <2>1. n \in Nat
    BY <1>1
  <2>2. NodeAt(n) => NodeAt(n)'
    BY <1>1, <2>1, NodeQuiet DEF NodeAt, Quiet, Kept
  <2>3. ChunkAt(n) => ChunkAt(n)'
    BY <1>1, <2>1, ChunkQuiet DEF ChunkAt, Quiet, Kept
  <2> QED BY <2>2, <2>3
<1> QED BY <1>2, ProgressStays DEF Quiet

\* Nothing is done about stopping.
LEMMA StoppingSame ==
    ASSUME Progress, Active(0), UNCHANGED <<ec, abort, cgraph>>
    PROVE  Stopping'
BY DEF Progress, Stopping, NodeCount, Op, Prog

-----------------------------------------------------------------------------
(* Steps that do no work.                                                  *)

\* The other threads have done what they had.
LEMMA OthersShared ==
    ASSUME NEW t \in Thread, Only(t), UNCHANGED <<n_barrier_passed, cgraph>>, NEW n, NEW u \in Thread \ {t}
    PROVE  /\ Shared(u, n)' <=> Shared(u, n)
           /\ Eff(u)' = Eff(u) /\ (Active(u)' <=> Active(u)) /\ th'[u] = th[u]
           /\ At_(u, "chunk")' <=> At_(u, "chunk")
<1>1. th'[u] = th[u]
  BY DEF Only
<1>2. /\ Eff(u)' = Eff(u) /\ (Active(u)' <=> Active(u))
      /\ \A r \in {"chunk", "next", "done"} : At_(u, r)' <=> At_(u, r)
  BY OthersSame
<1>3. NodeCount' = NodeCount /\ \A i : Op(i)' = Op(i)
  BY DEF NodeCount, Op, Prog
<1> QED BY <1>1, <1>2, <1>3 DEF Shared

\* So it is enough to look at the share of the thread that moves,
LEMMA OneShare ==
    ASSUME NEW t \in Thread, Only(t), UNCHANGED <<n_barrier_passed, cgraph>>, NEW n,
           Shared(t, n)' <=> Shared(t, n),
           At_(t, "chunk")' => At_(t, "chunk") /\ th'[t].chunk = th[t].chunk
    PROVE  SameShares(n)
BY OthersShared DEF SameShares

\* and at its chunk.
LEMMA OneChunk ==
    ASSUME NEW t \in Thread, Only(t), UNCHANGED <<n_barrier_passed, cgraph>>,
           Eff(t)' = "chunk" <=> Eff(t) = "chunk", Eff(t) = "chunk" => th'[t].chunk = th[t].chunk,
           Active(t)' /\ Eff(t)' \notin {"chunk", "next_chunk"} => Active(t) /\ Eff(t) \notin {"chunk", "next_chunk"}
    PROVE  SameChunks
BY OthersShared DEF SameChunks

\* A thread starts with nothing done.
LEMMA ComputeStartProgress ==
    ASSUME Inv, Progress, NEW t \in Thread, ComputeStart(t)
    PROVE  Progress' /\ UNCHANGED <<done, cgraph>> /\ Active(0) /\ Active(0)'
<1>1. th[t].pc = "start" /\ th[t].pc \in Inner /\ UNCHANGED shared
  BY DEF ComputeStart, At, Inner
<1>2. InnerStep(t) /\ Kept /\ TypeOK /\ Only(t)
  BY ComputeStartInv DEF Inv, InnerStep
<1>3. th'[t].pc = "node" /\ th'[t].node = 0
  <2>1. th \in [Thread -> ThreadState]
    BY <1>2 DEF TypeOK
  <2>2. th'[t] = [th[t] EXCEPT !.pending = FALSE, !.graph = cgraph, !.nth = n_graph.n_threads, !.node = 0,
                               !.pc = "node"]
    BY <2>1 DEF ComputeStart
  <2>3. th[t] \in ThreadState
    BY <2>1
  <2> QED BY <2>2, <2>3 DEF ThreadState
<1>4. /\ Active(0) /\ Active(0)' /\ \A u \in Thread : NotYet(u)' <=> NotYet(u)
  BY <1>2, InnerKeeps DEF Inv
<1>5. /\ Eff(t) = "start" /\ Eff(t)' = "node" /\ NodeCount' = NodeCount /\ NodeCount \in Nat
      /\ \A r \in {"chunk", "next", "done"} : ~At_(t, r) /\ ~At_(t, r)'
  BY <1>1, <1>2, <1>3, Context, Later
<1>6. ASSUME NEW n \in 0 .. NodeCount PROVE (SegNode(n) => SameShares(n)) /\ ~SegChunk(n)
  <2>1. ~Shared(t, n) /\ ~Shared(t, n)'
    BY <1>3, <1>5 DEF Shared
  <2>2. SameShares(n)
    BY <1>1, <1>2, <1>5, <2>1, OneShare DEF shared
  <2>3. ~SegChunk(n)
    BY <1>1, <1>5, Context DEF PosChunk
  <2> QED BY <2>2, <2>3
<1>7. Stopping'
  BY <1>1, <1>4, StoppingSame DEF shared
<1>8. Quiet
  BY <1>1, <1>4 DEF Quiet, shared
<1> QED BY <1>1, <1>2, <1>4, <1>6, <1>7, <1>8, QuietStays DEF shared

\* Going through the nodes without an operation does no work,
LEMMA NextNodeProgress ==
    ASSUME Inv, Progress, NEW t \in Thread, NextNode(t)
    PROVE  Progress' /\ UNCHANGED <<done, cgraph>> /\ Active(0) /\ Active(0)'
<1> DEFINE i == th[t].node
<1>1. th[t].pc = "node" /\ th[t].pc \in Inner \ {"start"} /\ UNCHANGED shared
  BY DEF NextNode, At, Inner
<1>2. InnerStep(t) /\ Kept /\ TypeOK /\ Only(t)
  BY NextNodeInv DEF Inv, InnerStep
<1>3. /\ Active(0) /\ Active(0)' /\ (\A u \in Thread : NotYet(u)' <=> NotYet(u)) /\ Active(t)
  BY <1>2, InnerKeeps DEF Inv
<1>4. /\ Eff(t) = "node" /\ NodeCount \in Nat /\ i \in Nat /\ Nodes(t) = Prog /\ Node(t).op = Op(i)
      /\ \A r \in {"chunk", "next", "done"} : ~At_(t, r)
  BY <1>1, <1>2, Context
<1>5. /\ Eff(t)' = th'[t].pc /\ NodeCount' = NodeCount /\ \A j : Op(j)' = Op(j)
      /\ \A r \in {"chunk", "next", "done"} :
                 At_(t, r)' <=> th'[t].pc \in {"b_enter", "b_passed", "b_add"} /\ th'[t].ret = r
  BY <1>2, Later
<1>6. th \in [Thread -> ThreadState] /\ th[t] \in ThreadState
  BY <1>2 DEF TypeOK
<1>7. \/ th'[t].pc = "b_enter" /\ th'[t].ret = "done" /\ th'[t].node = i
      \/ i < NodeCount /\ Op(i) = "nop" /\ th'[t].pc = "node" /\ th'[t].node = i + 1
      \/ i # NodeCount /\ th'[t].pc = "work" /\ th'[t].node = i
  <2>1. CASE i = NodeCount \/ abort = i
    <3>1. Barrier(t, "done") /\ "done" \in Pc
      BY <1>4, <2>1 DEF NextNode, NodeCount, Pc
    <3> QED BY <1>2, <3>1, Calls
  <2>2. CASE i # NodeCount /\ abort # i /\ Op(i) = "nop"
    <3>1. th' = [th EXCEPT ![t].node = i + 1]
      BY <1>4, <2>2 DEF NextNode, NodeCount
    <3>2. th'[t] = [th[t] EXCEPT !.node = i + 1]
      BY <1>6, <3>1
    <3>3. th'[t].pc = "node" /\ th'[t].node = i + 1
      BY <1>1, <1>6, <3>2 DEF ThreadState
    <3>4. i < NodeCount
      <4>1. PICK n \in 0 .. NodeCount : SegNode(n) \/ SegChunk(n)
        BY <1>3 DEF Progress, NodeAt, ChunkAt
      <4>2. PosNode(t, n) \/ PosChunk(t, n)
        BY <1>1, <4>1, Context
      <4> QED BY <1>4, <2>2, <4>2 DEF PosNode, PosChunk
    <3> QED BY <2>2, <3>3, <3>4
  <2>3. CASE i # NodeCount /\ abort # i /\ Op(i) # "nop"
    <3>1. GoTo(t, "work") /\ "work" \in Pc
      BY <1>4, <2>3 DEF NextNode, NodeCount, Pc
    <3> QED BY <1>2, <2>3, <3>1, Goes
  <2> QED BY <2>1, <2>2, <2>3
<1>8. ASSUME NEW n \in 0 .. NodeCount PROVE SameShares(n) /\ SameChunks
  <2>1. Shared(t, n)' <=> Shared(t, n)
    <3>1. CASE th'[t].pc = "b_enter" /\ th'[t].ret = "done" /\ th'[t].node = i
      BY <1>4, <1>5, <3>1 DEF Shared
    <3>2. CASE i < NodeCount /\ Op(i) = "nop" /\ th'[t].pc = "node" /\ th'[t].node = i + 1
      <4>1. i + 1 = NodeCount => Op(NodeCount - 1) = "nop"
        BY <1>4, <3>2
      <4>2. ~Shared(t, n)
        BY <1>4, <3>2 DEF Shared
      <4>3. ~Shared(t, n)'
        BY <1>4, <1>5, <3>2, <4>1 DEF Shared
      <4> QED BY <4>2, <4>3
    <3>3. CASE i # NodeCount /\ th'[t].pc = "work" /\ th'[t].node = i
      BY <1>4, <1>5, <3>3 DEF Shared
    <3> QED BY <1>7, <3>1, <3>2, <3>3
  <2>2. ~At_(t, "chunk")'
    BY <1>5, <1>7
  <2>3. SameShares(n)
    BY <1>1, <1>2, <2>1, <2>2, OneShare DEF shared
  <2>4. SameChunks
    BY <1>1, <1>2, <1>3, <1>4, <1>5, <1>7, OneChunk DEF shared
  <2> QED BY <2>3, <2>4
<1>9. Stopping'
  BY <1>1, <1>3, StoppingSame DEF shared
<1>10. Quiet
  BY <1>1, <1>3 DEF Quiet, shared
<1> QED BY <1>1, <1>2, <1>3, <1>8, <1>9, <1>10, QuietStays DEF shared

\* nor does going on to the next node,
LEMMA NextProgress ==
    ASSUME Inv, Progress, NEW t \in Thread, Next_(t)
    PROVE  Progress' /\ UNCHANGED <<done, cgraph>> /\ Active(0) /\ Active(0)'
<1> DEFINE i == th[t].node
<1>1. th[t].pc = "next" /\ th[t].pc \in Inner \ {"start"} /\ UNCHANGED shared
  BY DEF Next_, At, Inner
<1>2. InnerStep(t) /\ Kept /\ TypeOK /\ Only(t)
  BY NextInv DEF Inv, InnerStep
<1>3. /\ Active(0) /\ Active(0)' /\ (\A u \in Thread : NotYet(u)' <=> NotYet(u)) /\ Active(t)
  BY <1>2, InnerKeeps DEF Inv
<1>4. /\ Eff(t) = "next" /\ NodeCount \in Nat /\ i \in Nat
      /\ \A r \in {"chunk", "next", "done"} : ~At_(t, r)
  BY <1>1, <1>2, Context
<1>5. th'[t].pc = "node" /\ th'[t].node = i + 1
  <2>1. th \in [Thread -> ThreadState] /\ th[t] \in ThreadState
    BY <1>2 DEF TypeOK
  <2>2. th'[t] = [th[t] EXCEPT !.node = i + 1, !.pc = "node"]
    BY <2>1 DEF Next_
  <2> QED BY <2>1, <2>2 DEF ThreadState
<1>6. /\ Eff(t)' = "node" /\ NodeCount' = NodeCount /\ (\A j : Op(j)' = Op(j))
      /\ \A r \in {"chunk", "next", "done"} : ~At_(t, r)'
  BY <1>2, <1>5, Later
<1>7. ASSUME NEW n \in 0 .. NodeCount PROVE (SegNode(n) => SameShares(n)) /\ SameChunks
  <2>1. ASSUME SegNode(n) PROVE Shared(t, n)' <=> Shared(t, n)
    <3>1. \/ i = n - 1
          \/ i \in n .. NodeCount - 1 /\ i + 1 = NodeCount /\ Op(i) # "nop"
      BY <1>1, <1>4, <2>1, Context DEF PosNode
    <3>2. CASE i = n - 1
      BY <1>4, <1>5, <1>6, <3>2 DEF Shared
    <3>3. CASE i \in n .. NodeCount - 1 /\ i + 1 = NodeCount /\ Op(i) # "nop"
      <4>1. i = NodeCount - 1 /\ n < NodeCount /\ Op(NodeCount - 1) # "nop" /\ i >= n
        BY <1>4, <3>3
      <4> QED BY <1>4, <1>5, <1>6, <4>1 DEF Shared
    <3> QED BY <3>1, <3>2, <3>3
  <2>2. SegNode(n) => SameShares(n)
    BY <1>1, <1>2, <1>6, <2>1, OneShare DEF shared
  <2>3. SameChunks
    BY <1>1, <1>2, <1>3, <1>4, <1>6, OneChunk DEF shared
  <2> QED BY <2>2, <2>3
<1>8. Stopping'
  BY <1>1, <1>3, StoppingSame DEF shared
<1>9. Quiet
  BY <1>1, <1>3 DEF Quiet, shared
<1> QED BY <1>1, <1>2, <1>3, <1>7, <1>8, <1>9, QuietStays DEF shared

\* nor does the end of a node, where thread 0 may say where all are to stop,
LEMMA AfterProgress ==
    ASSUME Inv, Progress, NEW t \in Thread, After(t)
    PROVE  Progress' /\ UNCHANGED <<done, cgraph>> /\ Active(0) /\ Active(0)'
<1> DEFINE i == th[t].node
<1>1. th[t].pc = "after" /\ th[t].pc \in Inner \ {"start"}
      /\ UNCHANGED <<n_graph, n_barrier, n_barrier_passed, current_chunk, stop, pause, cgraph, asleep, done>>
  BY DEF After, At, Inner
<1>2. InnerStep(t) /\ Kept /\ TypeOK /\ Only(t)
  BY AfterInv DEF Inv, InnerStep
<1>3. /\ Active(0) /\ Active(0)' /\ (\A u \in Thread : NotYet(u)' <=> NotYet(u)) /\ Active(t)
  BY <1>2, InnerKeeps DEF Inv
<1>4. /\ Eff(t) = "after" /\ NodeCount \in Nat /\ i \in Nat /\ Nodes(t) = Prog
      /\ \A r \in {"chunk", "next", "done"} : ~At_(t, r)
  BY <1>1, <1>2, Context
<1>5. th'[t].node = i /\ (th'[t].pc = "next" \/ (th'[t].pc = "b_enter" /\ th'[t].ret = "next"))
  <2>1. CASE Barrier(t, "next")
    BY <1>2, <2>1, Calls DEF Pc
  <2>2. CASE GoTo(t, "next")
    BY <1>2, <2>2, Goes DEF Pc
  <2> QED BY <2>1, <2>2 DEF After
<1>6. /\ Eff(t)' = th'[t].pc /\ NodeCount' = NodeCount /\ (\A j : Op(j)' = Op(j))
      /\ \A r \in {"chunk", "next", "done"} :
                 At_(t, r)' <=> th'[t].pc \in {"b_enter", "b_passed", "b_add"} /\ th'[t].ret = r
  BY <1>2, Later
<1>7. ASSUME NEW n \in 0 .. NodeCount, SegNode(n) \/ SegChunk(n)
      PROVE  i \in n .. NodeCount - 1 /\ Op(i) # "nop"
  <2>1. PosNode(t, n) \/ PosChunk(t, n)
    BY <1>1, <1>7, Context
  <2> QED BY <1>4, <2>1 DEF PosNode, PosChunk
<1>8. ASSUME NEW n \in 0 .. NodeCount PROVE (SegNode(n) => SameShares(n)) /\ SameChunks
  <2>1. ASSUME SegNode(n) PROVE Shared(t, n)' /\ Shared(t, n)
    <3>1. i >= n
      BY <1>4, <1>7, <2>1
    <3> QED BY <1>4, <1>5, <1>6, <3>1 DEF Shared
  <2>2. SegNode(n) => SameShares(n)
    BY <1>1, <1>2, <1>5, <1>6, <2>1, OneShare
  <2>3. SameChunks
    BY <1>1, <1>2, <1>3, <1>4, <1>5, <1>6, OneChunk
  <2> QED BY <2>2, <2>3
<1>9. Stopping'
  <2>1. (abort' = abort /\ ec' = ec) \/ (abort' = i + 1 /\ ec' = "aborted")
    BY DEF After
  <2>2. CASE abort' = abort /\ ec' = ec
    BY <1>1, <1>3, <2>2, StoppingSame
  <2>3. CASE abort' = i + 1 /\ ec' = "aborted"
    <3>1. PICK n \in 0 .. NodeCount : SegNode(n) \/ SegChunk(n)
      BY <1>3 DEF Progress, NodeAt, ChunkAt
    <3>2. i \in 0 .. NodeCount - 1 /\ Op(i) # "nop"
      BY <1>4, <1>7, <3>1
    <3>3. i + 1 \in 1 .. NodeCount /\ i + 1 - 1 = i /\ i + 1 # -1
      BY <1>4, <3>2
    <3> QED BY <1>6, <2>3, <3>2, <3>3 DEF Stopping
  <2> QED BY <2>1, <2>2, <2>3
<1>10. Quiet
  BY <1>1, <1>3 DEF Quiet
<1> QED BY <1>1, <1>2, <1>3, <1>8, <1>9, <1>10, QuietStays

\* nor does a step in a barrier.
LEMMA StillProgress ==
    ASSUME Inv, Progress, NEW t \in Thread, Still(t), UNCHANGED <<done, ec, current_chunk>>
    PROVE  Progress' /\ (Active(0)' <=> Active(0))
<1>1. Only(t) /\ UNCHANGED <<n_graph, n_barrier_passed, cgraph, abort>> /\ th'[t].node = th[t].node
      /\ th'[t].chunk = th[t].chunk /\ 0 \in Thread /\ TypeOK
  BY Sizes DEF Still, Inv
<1>2. /\ Kept
      /\ \A u \in Thread : (NotYet(u)' <=> NotYet(u)) /\ (Active(u)' <=> Active(u))
      /\ (Eff(t)' = Eff(t) \/ (Eff(t)' \in InTheBarrier /\ Eff(t) \in InTheBarrier))
      /\ \A r \in {"chunk", "next", "done"} : At_(t, r)' <=> At_(t, r)
  BY StillKeeps
<1>3. CASE Active(0)
  <2>1. Stopping'
    BY <1>1, <1>3, StoppingSame
  <2>2. Quiet
    BY <1>1, <1>2 DEF Quiet
  <2>3. ASSUME NEW n PROVE SameShares(n) /\ SameChunks
    <3>1. NodeCount' = NodeCount /\ (\A j : Op(j)' = Op(j))
      BY <1>1 DEF NodeCount, Op, Prog
    <3>2. \A pc \in {"chunk", "next_chunk", "after", "next", "node"} : Eff(t)' = pc <=> Eff(t) = pc
      BY <1>2 DEF InTheBarrier
    <3>3. Shared(t, n)' <=> Shared(t, n)
      BY <1>1, <1>2, <3>1, <3>2 DEF Shared
    <3>4. SameShares(n)
      BY <1>1, <1>2, <3>3, OneShare
    <3>5. SameChunks
      BY <1>1, <1>2, <3>2, OneChunk
    <3> QED BY <3>4, <3>5
  <2> QED BY <1>1, <1>2, <1>3, <2>1, <2>2, <2>3, QuietStays
<1>4. CASE ~Active(0)
  <2>1. Eff(0)' = "done" => Eff(0) = "done"
    <3>1. CASE t = 0
      BY <1>2, <3>1 DEF InTheBarrier
    <3>2. CASE t # 0
      BY <1>1, <3>2, OthersSame
    <3> QED BY <3>1, <3>2
  <2>2. th'[0].pc = "kick" => th[0].pc = "kick"
    <3>1. CASE t = 0
      <4>1. th[0].ret # "kick"
        BY <3>1 DEF Still, Inv, Roles, Flags, InTheBarrier
      <4> QED BY <3>1, <4>1 DEF Still, InTheBarrier
    <3>2. CASE t # 0
      BY <1>1, <3>2 DEF Only
    <3> QED BY <3>1, <3>2
  <2> QED BY <1>1, <1>2, <1>4, <2>1, <2>2, ProgressRests
<1> QED BY <1>1, <1>2, <1>3, <1>4

\* A thread that is not in the graph has no part in it.
LEMMA InactiveShare ==
    ASSUME NEW t, ~Active(t)
    PROVE  /\ \A r : ~At_(t, r)
           /\ \A pc \in {"start", "node", "work", "chunk", "next_chunk", "after", "next"} : Eff(t) # pc
           /\ \A n : ~Shared(t, n)
<1>1. \A r : ~At_(t, r)
  BY DEF At_, Active, Eff, Outside, InTheBarrier
<1>2. \A pc \in {"start", "node", "work", "chunk", "next_chunk", "after", "next"} : Eff(t) # pc
  BY DEF Active, Outside
<1> QED BY <1>1, <1>2 DEF Shared

\* Workers between two graphs, and threads that start on one.
LEMMA OutsideProgress ==
    ASSUME Inv, Progress, NEW t \in Worker, OutsideStep(t), UNCHANGED <<done, ec, current_chunk>>
    PROVE  Progress' /\ (Active(0)' <=> Active(0)) /\ th'[0] = th[0]
<1>1. Only(t) /\ UNCHANGED <<n_graph, n_barrier_passed, cgraph, abort>> /\ 0 \in Thread /\ t \in Thread /\ t # 0
  BY Sizes DEF OutsideStep, Inv, Worker
<1>2. /\ (Active(0)' => Kept) /\ ~Active(t) /\ ~Active(t)'
      /\ \A u \in Thread : (NotYet(u)' => NotYet(u)) /\ (Active(u)' <=> Active(u))
  BY <1>1, OutsideKeeps
<1>3. th'[0] = th[0] /\ Eff(0)' = Eff(0)
  BY <1>1, OthersSame DEF Only
<1>4. CASE Active(0)
  <2>1. Stopping'
    BY <1>1, <1>4, StoppingSame
  <2>2. Quiet
    BY <1>1, <1>2 DEF Quiet
  <2>3. ASSUME NEW n PROVE SameShares(n) /\ SameChunks
    <3>1. ~Shared(t, n) /\ ~At_(t, "chunk") /\ Eff(t) # "chunk"
      BY <1>2, InactiveShare
    <3>2. ~Shared(t, n)' /\ ~At_(t, "chunk")' /\ Eff(t)' # "chunk"
      BY <1>2 DEF Shared, At_, Active, Eff, Outside, InTheBarrier
    <3>3. SameShares(n)
      BY <1>1, <3>1, <3>2, OneShare
    <3>4. SameChunks
      BY <1>1, <1>2, <3>1, <3>2, OneChunk
    <3> QED BY <3>3, <3>4
  <2> QED BY <1>1, <1>2, <1>3, <1>4, <2>1, <2>2, <2>3, QuietStays
<1>5. CASE ~Active(0)
  BY <1>1, <1>2, <1>3, <1>5, ProgressRests
<1> QED BY <1>1, <1>2, <1>3, <1>4, <1>5

\* A worker that notices the graph has done nothing of it yet.
LEMMA StartProgress ==
    ASSUME Inv, Progress, NEW t \in Worker, StartStep(t), UNCHANGED <<done, ec, current_chunk>>
    PROVE  Progress' /\ (Active(0)' <=> Active(0)) /\ th'[0] = th[0]
<1>1. Only(t) /\ UNCHANGED <<n_graph, n_barrier_passed, cgraph, abort>> /\ 0 \in Thread /\ t \in Thread /\ t # 0
  BY Sizes DEF StartStep, Inv, Worker
<1>2. NotYet(t) /\ Active(0) /\ ~Active(t) /\ Eff(t)' = "start" /\ (SegNode(0) => SegNode(0)')
  BY <1>1, StartKeeps
<1>3. th'[0] = th[0] /\ Eff(0)' = Eff(0) /\ (Active(0)' <=> Active(0))
  BY <1>1, OthersSame DEF Only
<1>4. Stopping'
  BY <1>1, <1>2, StoppingSame
<1>5. SameShares(0)
  <2>1. ~Shared(t, 0)
    BY <1>2, InactiveShare
  <2>2. ~Shared(t, 0)' /\ ~At_(t, "chunk")'
    BY <1>2 DEF Shared, At_, Eff, InTheBarrier
  <2> QED BY <1>1, <2>1, <2>2, OneShare
<1>6. ASSUME NEW n \in 0 .. NodeCount PROVE (NodeAt(n) => NodeAt(n)') /\ ~ChunkAt(n)
  <2>1. ~ChunkAt(n) /\ (NodeAt(n) => n = 0)
    BY <1>1, <1>2 DEF ChunkAt, NodeAt
  <2>2. cgraph > 0
    BY <1>2 DEF Inv, Together
  <2>3. NodeAt(0) => NodeAt(0)'
    BY <1>1, <1>2, <1>5, <2>2, NodeQuiet DEF NodeAt
  <2> QED BY <2>1, <2>3
<1> QED BY <1>1, <1>2, <1>3, <1>4, <1>6, ProgressStays

\* No thread moves.
LEMMA SameProgress ==
    ASSUME Inv, Progress,
           UNCHANGED <<n_graph, n_barrier, n_barrier_passed, cgraph, abort, th, done, ec, current_chunk>>
    PROVE  Progress'
<1>1. /\ Kept
      /\ \A t : (NotYet(t)' <=> NotYet(t)) /\ (Active(t)' <=> Active(t)) /\ Eff(t)' = Eff(t)
      /\ \A t, r : At_(t, r)' <=> At_(t, r)
  BY SameKeeps
<1>2. CASE Active(0)
  <2>1. Stopping' /\ Quiet
    BY <1>1, <1>2, StoppingSame DEF Quiet
  <2>2. ASSUME NEW n PROVE SameShares(n) /\ SameChunks
    <3>1. NodeCount' = NodeCount /\ (\A j : Op(j)' = Op(j))
      BY DEF NodeCount, Op, Prog
    <3> QED BY <1>1, <3>1 DEF SameShares, SameChunks, Shared
  <2> QED BY <1>1, <1>2, <2>1, <2>2, QuietStays
<1>3. CASE ~Active(0)
  BY <1>1, <1>3, ProgressRests
<1> QED BY <1>2, <1>3

-----------------------------------------------------------------------------
(* Steps that do a piece of work.                                          *)

\* What GraphExec asks of a piece of work: it is the graph's, it was not done before, and
\* all that comes before it was.
Ahead(y, x) == y.node < x.node \/ (y.node = x.node /\ y.phase < x.phase)
Computes(x) ==
    /\ x \in Pieces(cgraph) /\ x \notin BagToSet(done)
    /\ \A y \in Pieces(cgraph) : Ahead(y, x) => y \in BagToSet(done)
    /\ done' = done (+) SetToBag({x})
    /\ UNCHANGED cgraph

\* The first thread of the team is thread 0, and none is above its size.
LEMMA TeamThreads ==
    ASSUME Inv, Progress, Active(0)
    PROVE  /\ cgraph > 0 /\ NodeCount \in Nat
           /\ \A i \in Nat : i < Threads(cgraph) <=> i \in Team
           /\ n_graph.n_threads = Threads(cgraph) /\ Threads(cgraph) \in Nat
<1>1. TypeOK /\ cgraph > 0 /\ n_graph.n_threads = Threads(cgraph)
  BY DEF Inv, Together, Progress
<1> QED BY <1>1, GraphTyped, ShareThread DEF Team

\* A thread's share.
LEMMA ShareProgress ==
    ASSUME Inv, Progress, NEW t \in Thread, Share(t)
    PROVE  Progress' /\ (\E x \in Pieces(cgraph) : Computes(x)) /\ Active(0) /\ Active(0)'
<1>1. th[t].pc = "work" /\ th[t].pc \in Inner \ {"start"}
      /\ UNCHANGED <<n_graph, n_barrier, n_barrier_passed, stop, pause, abort, ec, cgraph, asleep>>
  BY DEF Share, At, Inner
<1>2. InnerStep(t) /\ Kept /\ TypeOK /\ Only(t)
  BY ShareInv DEF Inv, InnerStep
<1>3. /\ Active(0) /\ Active(0)' /\ (\A u \in Thread : NotYet(u)' <=> NotYet(u)) /\ 0 \in Thread
  BY <1>2, InnerKeeps, Sizes DEF Inv
<1>4. PICK i \in Nat : i = th[t].node
  BY <1>1, Context
<1>5. /\ Eff(t) = "work" /\ NodeCount \in Nat /\ Node(t).op = Op(i) /\ t \in Team /\ cgraph > 0
      /\ th[t].nth = n_graph.n_threads
      /\ \A r \in {"chunk", "next", "done"} : ~At_(t, r)
  BY <1>1, <1>4, Context
<1>6. \/ Op(i) # "mul_mat" /\ th'[t].pc = "after" /\ current_chunk' = current_chunk
      \/ /\ th'[t].pc = "b_enter" /\ th'[t].ret = "chunk" /\ th'[t].chunk = t
         /\ current_chunk' = IF t = 0 THEN n_graph.n_threads ELSE current_chunk
  <2>1. CASE Op(i) # "mul_mat"
    <3>1. GoTo(t, "after") /\ current_chunk' = current_chunk /\ "after" \in Pc
      BY <1>5, <2>1 DEF Share, Pc
    <3> QED BY <1>2, <2>1, <3>1, Goes
  <2>2. CASE Op(i) = "mul_mat"
    <3>1. th \in [Thread -> ThreadState] /\ th[t] \in ThreadState
      BY <1>2 DEF TypeOK
    <3>2. th'[t] = [th[t] EXCEPT !.chunk = t, !.pc = "b_enter", !.ret = "chunk"]
      BY <1>5, <2>2, <3>1 DEF Share
    <3>3. th'[t].pc = "b_enter" /\ th'[t].ret = "chunk" /\ th'[t].chunk = t
      BY <3>1, <3>2 DEF ThreadState
    <3> QED BY <1>5, <2>2, <3>3 DEF Share
  <2> QED BY <2>1, <2>2
<1>7. /\ Eff(t)' = th'[t].pc /\ NodeCount' = NodeCount /\ (\A n, j : Nops(n, j)' <=> Nops(n, j))
      /\ \A r \in {"chunk", "next", "done"} :
                 At_(t, r)' <=> th'[t].pc \in {"b_enter", "b_passed", "b_add"} /\ th'[t].ret = r
  BY <1>2, Later
<1>8. t \in Nat /\ t < Threads(cgraph) /\ n_graph.n_threads = Threads(cgraph)
  BY <1>3, <1>5, TeamThreads DEF Thread
<1>9. PICK x : x = Piece(i, 0, t)
  OBVIOUS
<1>10. x.node = i /\ x.phase = 0 /\ x.i = t
  BY <1>9 DEF Piece
<1>11. done' = done (+) SetToBag({x})
  BY <1>4, <1>9 DEF Share, Did, Piece
<1>12. BagToSet(done)' = BagToSet(done) \cup {x}
  BY <1>2, <1>11, BagAdd DEF TypeOK
<1>13. ASSUME NEW n \in 0 .. NodeCount, NodeAt(n)
       PROVE  NodeAt(n)' /\ Computes(x)
  <2>1. n \in Nat /\ i \in n .. NodeCount - 1 /\ Nops(n, i) /\ Op(i) # "nop"
    <3>1. PosNode(t, n)
      BY <1>1, <1>13, Context DEF NodeAt
    <3> QED BY <1>4, <1>5, <3>1 DEF PosNode
  <2>2. ~Shared(t, n) /\ Shared(t, n)'
    BY <1>4, <1>5, <1>6, <1>7, <2>1 DEF Shared
  <2>3. NodeDone(n)
    BY <1>13 DEF NodeAt
  <2>4. x \in Pieces(cgraph)
    BY <1>2, <1>5, <1>8, <1>9, <2>1, IsPiece
  <2>5. x \notin BagToSet(done)
    BY <1>5, <1>10, <2>1, <2>2, <2>3, <2>4 DEF NodeDone
  <2>6. ASSUME NEW y \in Pieces(cgraph), Ahead(y, x) PROVE y \in BagToSet(done)
    <3>1. y.node < n
      BY <1>2, <1>5, <1>10, <2>1, <2>6, FirstNode, PieceIs DEF Ahead
    <3> QED BY <2>3, <3>1 DEF NodeDone
  <2>7. Computes(x)
    BY <1>1, <1>11, <2>4, <2>5, <2>6 DEF Computes
  <2>8. Pieces(cgraph)' = Pieces(cgraph)
    BY <1>1
  <2>9. ASSUME NEW y \in Pieces(cgraph)
        PROVE  y \in BagToSet(done)' <=> y.node < n \/ (y.phase = 0 /\ Nops(n, y.node)' /\ Shared(y.i, n)')
    <3>1. y \in BagToSet(done) <=> y.node < n \/ (y.phase = 0 /\ Nops(n, y.node) /\ Shared(y.i, n))
      BY <2>3 DEF NodeDone
    <3>2. y = x => y.phase = 0 /\ Nops(n, y.node) /\ Shared(y.i, n)'
      BY <1>10, <2>1, <2>2
    <3>3. CASE y.phase = 0 /\ y.i = t
      <4>1. y.node \in Nat /\ (y.node >= n /\ Nops(n, y.node) <=> y.node = i)
        BY <1>2, <1>5, <2>1, FirstNode, PieceIs
      <4>2. y.node = i => y = x
        BY <1>2, <1>5, <1>9, <3>3, PieceIs
      <4> QED BY <1>7, <1>12, <2>1, <2>2, <3>1, <3>2, <3>3, <4>1, <4>2
    <3>4. CASE y.phase = 0 /\ y.i # t
      <4>1. y.i \in Thread
        BY <1>2, <1>5, <3>4, PieceIs, ShareThread
      <4>2. Shared(y.i, n)' <=> Shared(y.i, n)
        BY <1>1, <1>2, <3>4, <4>1, OthersShared
      <4> QED BY <1>7, <1>10, <1>12, <3>1, <3>4, <4>2
    <3>5. CASE y.phase # 0
      BY <1>10, <1>12, <3>1, <3>5
    <3> QED BY <3>3, <3>4, <3>5
  <2>10. ASSUME NEW u \in Thread, At_(u, "chunk")' PROVE th'[u].chunk = u
    <3>1. CASE u = t
      BY <1>6, <1>7, <2>10, <3>1
    <3>2. CASE u # t
      BY <1>1, <1>2, <2>3, <2>10, <3>2, OthersShared DEF NodeDone
    <3> QED BY <3>1, <3>2
  <2>11. At_(0, "chunk")' => current_chunk' = n_graph.n_threads
    <3>1. CASE t = 0
      BY <1>6, <1>7, <3>1
    <3>2. CASE t # 0
      BY <1>1, <1>2, <1>3, <1>6, <2>3, <3>2, OthersShared DEF NodeDone
    <3> QED BY <3>1, <3>2
  <2>12. BagToSet(done)' \subseteq Pieces(cgraph)
    BY <1>12, <2>3, <2>4 DEF NodeDone
  <2>13. NodeDone(n)'
    BY <1>1, <2>8, <2>9, <2>10, <2>11, <2>12 DEF NodeDone
  <2> QED BY <1>2, <1>3, <1>13, <2>7, <2>13 DEF NodeAt, Kept
<1>14. ASSUME NEW n PROVE ~ChunkAt(n)
  <2>1. ~PosChunk(t, n)
    BY <1>5 DEF PosChunk
  <2> QED BY <1>1, <2>1, Context DEF ChunkAt
<1>15. Stopping'
  BY <1>1, <1>3, StoppingSame
<1>16. \E y \in Pieces(cgraph) : Computes(y)
  BY <1>3, <1>13, <1>14 DEF Progress, Computes
<1> QED BY <1>1, <1>3, <1>13, <1>14, <1>15, <1>16, ProgressStays

\* A chunk is given to one thread, which does it before it takes another.
LEMMA ChunkProgress ==
    ASSUME Inv, Progress, NEW t \in Thread, Chunk(t)
    PROVE  /\ Progress' /\ Active(0) /\ Active(0)'
           /\ UNCHANGED <<done, cgraph>> \/ \E x \in Pieces(cgraph) : Computes(x)
<1>1. th[t].pc = "chunk" /\ th[t].pc \in Inner \ {"start"}
      /\ UNCHANGED <<n_graph, n_barrier, n_barrier_passed, current_chunk, stop, pause, abort, ec, cgraph, asleep>>
  BY DEF Chunk, At, Inner
<1>2. InnerStep(t) /\ Kept /\ TypeOK /\ Only(t)
  BY ChunkInv DEF Inv, InnerStep
<1>3. /\ Active(0) /\ Active(0)' /\ (\A u \in Thread : NotYet(u)' <=> NotYet(u)) /\ 0 \in Thread
      /\ Active(t)
  BY <1>2, InnerKeeps, Sizes DEF Inv
<1>4. /\ Eff(t) = "chunk" /\ NodeCount \in Nat /\ Node(t) = Prog[th[t].node + 1] /\ cgraph > 0
      /\ th[t].nth = n_graph.n_threads
      /\ \A r \in {"chunk", "next", "done"} : ~At_(t, r)
  BY <1>1, Context
<1>5. PICK c \in Nat : c = th[t].chunk
  BY <1>2 DEF TypeOK, ThreadState
<1>6. n_graph.n_threads = Threads(cgraph) /\ n_graph.n_threads \in Nat /\ current_chunk \in Nat
  BY <1>2, <1>3, TeamThreads DEF TypeOK
<1>7. th'[t].pc \in {"after", "next_chunk"} /\ Eff(t)' = th'[t].pc /\ Eff(t)' # "chunk"
  <2>1. PICK pc \in {"after", "next_chunk"} : GoTo(t, pc)
    BY DEF Chunk
  <2>2. th'[t].pc = pc
    BY <1>2, <2>1, Goes DEF Pc
  <2> QED BY <1>2, <2>2, Later
<1>8. ASSUME NEW n PROVE ~NodeAt(n)
  <2>1. ~PosNode(t, n)
    BY <1>4 DEF PosNode
  <2> QED BY <1>1, <2>1, Context DEF NodeAt
<1>9. ASSUME NEW n \in 0 .. NodeCount, ChunkAt(n)
      PROVE  ChunkAt(n)' /\ (UNCHANGED <<done, cgraph>> \/ \E x \in Pieces(cgraph) : Computes(x))
  <2>1. n < NodeCount /\ Op(n) = "mul_mat" /\ th[t].node = n /\ n \in Nat
    <3>1. PosChunk(t, n)
      BY <1>1, <1>9, Context DEF ChunkAt
    <3> QED BY <1>4, <3>1 DEF PosChunk
  <2>2. ChunksDone(n) /\ (SegChunk(n)' /\ \A u \in Thread : ~NotYet(u)')
    BY <1>2, <1>3, <1>9 DEF ChunkAt, Kept
  <2> DEFINE m == NChunk(Prog[n + 1], n_graph.n_threads)
  <2>3. m \in Nat /\ n + 1 \in 1 .. NodeCount
    BY <1>2, <1>4, <1>6, <2>1, ChunkCount
  <2>4. c < current_chunk /\ \A u \in Thread : Eff(u) = "chunk" /\ th[u].chunk = c => u = t
    BY <1>4, <1>5, <2>2 DEF ChunksDone
  <2>5. ASSUME NEW j PROVE Held(j)' <=> Held(j) /\ j # c
    <3>1. \A u \in Thread \ {t} : (Eff(u)' = Eff(u)) /\ th'[u] = th[u]
      BY <1>1, <1>2, OthersShared
    <3>2. Held(j)' => Held(j) /\ j # c
      BY <1>4, <1>5, <1>7, <2>4, <3>1 DEF Held
    <3>3. Held(j) /\ j # c => Held(j)'
      BY <1>4, <1>5, <1>7, <2>4, <3>1 DEF Held
    <3> QED BY <3>2, <3>3
  <2>6. Held(c)
    BY <1>4, <1>5 DEF Held
  <2>7. Pieces(cgraph)' = Pieces(cgraph) /\ Prog' = Prog
    BY <1>1 DEF Prog
  <2>8. ASSUME NEW u \in Thread, Eff(u)' = "chunk"
        PROVE  /\ th'[u].chunk < current_chunk
               /\ \A v \in Thread : Eff(v)' = "chunk" /\ th'[v].chunk = th'[u].chunk => v = u
    <3>1. \A v \in Thread \ {t} : (Eff(v)' = Eff(v)) /\ th'[v] = th[v]
      BY <1>1, <1>2, OthersShared
    <3> QED BY <1>7, <2>2, <2>8, <3>1 DEF ChunksDone
  <2>9. ASSUME m \in Nat, Eff(t)' = "after" => current_chunk >= m,
               NEW u \in Thread, Active(u)', Eff(u)' \notin {"chunk", "next_chunk"}
        PROVE  current_chunk >= m
    <3>1. CASE u = t
      BY <1>7, <2>9, <3>1
    <3>2. CASE u # t
      <4>1. Active(u) /\ Eff(u) \notin {"chunk", "next_chunk"}
        BY <1>1, <1>2, <2>9, <3>2, OthersShared
      <4> QED BY <2>2, <4>1 DEF ChunksDone
    <3> QED BY <3>1, <3>2
  <2>10. CASE c < m
    <3>1. PICK x : x = Piece(n, 1, c)
      OBVIOUS
    <3>2. x.node = n /\ x.phase = 1 /\ x.i = c
      BY <3>1 DEF Piece
    <3>3. Did(t, 1, c) /\ GoTo(t, IF n_graph.n_threads >= m THEN "after" ELSE "next_chunk")
      BY <1>4, <1>5, <2>1, <2>10 DEF Chunk
    <3>4. done' = done (+) SetToBag({x})
      BY <2>1, <3>1, <3>3 DEF Did, Piece
    <3>5. BagToSet(done)' = BagToSet(done) \cup {x}
      BY <1>2, <3>4, BagAdd DEF TypeOK
    <3>6. Eff(t)' = "after" => current_chunk >= m
      <4>1. th'[t].pc = IF n_graph.n_threads >= m THEN "after" ELSE "next_chunk"
        BY <1>2, <3>3, Goes DEF Pc
      <4>2. current_chunk >= n_graph.n_threads
        BY <2>2 DEF ChunksDone
      <4> HIDE DEF m
      <4> QED BY <1>6, <1>7, <2>3, <4>1, <4>2
    <3>7. x \in Pieces(cgraph)
      BY <1>2, <1>4, <1>6, <2>1, <2>3, <2>10, <3>1, IsPiece
    <3>8. x \notin BagToSet(done)
      BY <2>1, <2>2, <2>6, <3>2, <3>7 DEF ChunksDone
    <3>9. ASSUME NEW y \in Pieces(cgraph), Ahead(y, x) PROVE y \in BagToSet(done)
      <4>1. y.node < n \/ (y.node = n /\ y.phase = 0)
        BY <1>2, <1>4, <3>2, <3>9, PieceIs DEF Ahead
      <4> QED BY <2>2, <4>1 DEF ChunksDone
    <3>10. Computes(x)
      BY <1>1, <3>4, <3>7, <3>8, <3>9 DEF Computes
    <3>11. ASSUME NEW y \in Pieces(cgraph)
           PROVE  y \in BagToSet(done)' <=>
                     \/ y.node < n
                     \/ y.node = n /\ (y.phase = 0 \/ (y.i < current_chunk /\ ~Held(y.i)'))
      <4>1. y \in BagToSet(done) <=>
                     \/ y.node < n
                     \/ y.node = n /\ (y.phase = 0 \/ (y.i < current_chunk /\ ~Held(y.i)))
        BY <2>2 DEF ChunksDone
      <4>2. y.phase \in {0, 1} /\ y = Piece(y.node, y.phase, y.i) /\ y.node \in Nat
        BY <1>2, <1>4, PieceIs
      <4>3. y.node = n /\ y.phase = 1 /\ y.i = c <=> y = x
        BY <3>1, <3>2, <4>2
      <4>4. Held(y.i)' <=> Held(y.i) /\ y.i # c
        BY <2>5
      <4> QED BY <2>1, <2>4, <3>5, <4>1, <4>2, <4>3, <4>4
    <3>12. BagToSet(done)' \subseteq Pieces(cgraph)
      BY <2>2, <3>5, <3>7 DEF ChunksDone
    <3>13. ChunksDone(n)'
      BY <1>1, <2>2, <2>3, <2>7, <2>8, <2>9, <3>6, <3>11, <3>12 DEF ChunksDone
    <3> QED BY <2>2, <3>7, <3>10, <3>13 DEF ChunkAt
  <2>11. CASE c >= m
    <3>1. done' = done
      BY <1>4, <1>5, <2>1, <2>3, <2>11 DEF Chunk
    <3>2. Eff(t)' = "after" => current_chunk >= m
      <4> HIDE DEF m
      <4> QED BY <1>6, <2>3, <2>4, <2>11
    <3>3. ASSUME NEW y \in Pieces(cgraph)
          PROVE  y \in BagToSet(done)' <=>
                     \/ y.node < n
                     \/ y.node = n /\ (y.phase = 0 \/ (y.i < current_chunk /\ ~Held(y.i)'))
      <4>1. y \in BagToSet(done) <=>
                     \/ y.node < n
                     \/ y.node = n /\ (y.phase = 0 \/ (y.i < current_chunk /\ ~Held(y.i)))
        BY <2>2 DEF ChunksDone
      <4>2. y.node = n /\ y.phase # 0 => y.i # c
        <5>1. y.phase \in {0, 1} /\ y.i \in Nat /\ (y.phase = 1 => y.i < NChunk(Prog[y.node + 1], Threads(cgraph)))
          BY <1>2, <1>4, PieceIs
        <5>2. y.node = n /\ y.phase = 1 => y.i < m
          BY <1>6, <5>1
        <5> HIDE DEF m
        <5> QED BY <2>3, <2>11, <5>1, <5>2
      <4>3. Held(y.i)' <=> Held(y.i) /\ y.i # c
        BY <2>5
      <4> QED BY <3>1, <4>1, <4>2, <4>3
    <3>4. ChunksDone(n)'
      BY <1>1, <2>2, <2>3, <2>7, <2>8, <2>9, <3>1, <3>2, <3>3 DEF ChunksDone
    <3> QED BY <1>1, <2>2, <3>1, <3>4 DEF ChunkAt
  <2>12. c < m \/ c >= m
    <3> HIDE DEF m
    <3> QED BY <2>3
  <2> QED BY <2>10, <2>11, <2>12
<1>10. Stopping'
  BY <1>1, <1>3, StoppingSame
<1>11. UNCHANGED <<done, cgraph>> \/ \E x \in Pieces(cgraph) : Computes(x)
  BY <1>3, <1>8, <1>9 DEF Progress
<1> QED BY <1>1, <1>3, <1>8, <1>9, <1>10, <1>11, ProgressStays

\* Each chunk is handed out once.
LEMMA NextChunkProgress ==
    ASSUME Inv, Progress, NEW t \in Thread, NextChunk(t)
    PROVE  Progress' /\ Active(0) /\ Active(0)' /\ UNCHANGED <<done, cgraph>>
<1>1. th[t].pc = "next_chunk" /\ th[t].pc \in Inner \ {"start"}
      /\ UNCHANGED <<n_graph, n_barrier, n_barrier_passed, stop, pause, abort, ec, cgraph, asleep, done>>
      /\ current_chunk' = current_chunk + 1
  BY DEF NextChunk, At, Inner
<1>2. InnerStep(t) /\ Kept /\ TypeOK /\ Only(t)
  BY NextChunkInv DEF Inv, InnerStep
<1>3. /\ Active(0) /\ Active(0)' /\ (\A u \in Thread : NotYet(u)' <=> NotYet(u)) /\ 0 \in Thread
      /\ Active(t)
  BY <1>2, InnerKeeps, Sizes DEF Inv
<1>4. Eff(t) = "next_chunk" /\ NodeCount \in Nat /\ cgraph > 0
  BY <1>1, Context
<1>5. PICK c \in Nat : c = current_chunk
  BY <1>2 DEF TypeOK
<1>6. th'[t].pc = "chunk" /\ th'[t].chunk = c /\ Eff(t)' = "chunk"
  <2>1. th \in [Thread -> ThreadState] /\ th[t] \in ThreadState
    BY <1>2 DEF TypeOK
  <2>2. th'[t] = [th[t] EXCEPT !.chunk = c, !.pc = "chunk"]
    BY <1>5, <2>1 DEF NextChunk
  <2>3. th'[t].pc = "chunk" /\ th'[t].chunk = c
    BY <2>1, <2>2 DEF ThreadState
  <2> QED BY <1>2, <2>3, Later
<1>7. ASSUME NEW n PROVE ~NodeAt(n)
  <2>1. ~PosNode(t, n)
    <3>1. \A r \in {"chunk", "next", "done"} : ~At_(t, r)
      BY <1>1, Context
    <3> QED BY <1>4, <3>1 DEF PosNode
  <2> QED BY <1>1, <2>1, Context DEF NodeAt
<1>8. ASSUME NEW n \in 0 .. NodeCount, ChunkAt(n)
      PROVE  ChunkAt(n)'
  <2>1. ChunksDone(n) /\ (SegChunk(n)' /\ \A u \in Thread : ~NotYet(u)') /\ n \in Nat
    BY <1>2, <1>3, <1>4, <1>8 DEF ChunkAt, Kept
  <2>2. \A u \in Thread \ {t} : (Eff(u)' = Eff(u)) /\ th'[u] = th[u] /\ (Active(u)' <=> Active(u))
    BY <1>1, <1>2, OthersShared
  <2>3. ASSUME NEW u \in Thread PROVE th[u].chunk \in Nat
    BY <1>2 DEF TypeOK, ThreadState
  <2>4. ASSUME NEW j \in Nat PROVE (Held(j)' <=> Held(j) \/ j = c) /\ (Held(j) => j < c)
    <3>1. Held(j)' <=> Held(j) \/ j = c
      BY <1>4, <1>6, <2>2 DEF Held
    <3>2. Held(j) => j < c
      BY <1>5, <2>1 DEF Held, ChunksDone
    <3> QED BY <3>1, <3>2
  <2>5. Pieces(cgraph)' = Pieces(cgraph) /\ Prog' = Prog
    BY <1>1 DEF Prog
  <2>6. ASSUME NEW y \in Pieces(cgraph)
        PROVE  y \in BagToSet(done)' <=>
                     \/ y.node < n
                     \/ y.node = n /\ (y.phase = 0 \/ (y.i < current_chunk' /\ ~Held(y.i)'))
    <3>1. y \in BagToSet(done) <=>
                     \/ y.node < n
                     \/ y.node = n /\ (y.phase = 0 \/ (y.i < current_chunk /\ ~Held(y.i)))
      BY <2>1 DEF ChunksDone
    <3>2. y.i \in Nat
      BY <1>2, <1>4, PieceIs
    <3>3. (y.i < c + 1 /\ ~Held(y.i)') <=> (y.i < c /\ ~Held(y.i))
      BY <2>4, <3>2
    <3> QED BY <1>1, <1>5, <3>1, <3>3
  <2>7. ASSUME NEW u \in Thread, Eff(u)' = "chunk"
        PROVE  /\ th'[u].chunk < c + 1
               /\ \A v \in Thread : Eff(v)' = "chunk" /\ th'[v].chunk = th'[u].chunk => v = u
    <3>1. ASSUME NEW v \in Thread \ {t}, Eff(v)' = "chunk" PROVE th'[v].chunk < c /\ th'[v].chunk \in Nat
      BY <1>5, <2>1, <2>2, <2>3, <3>1 DEF ChunksDone
    <3>2. CASE u = t
      BY <1>6, <3>1, <3>2
    <3>3. CASE u # t
      <4>1. th'[u].chunk < c /\ th'[u].chunk \in Nat
        BY <2>7, <3>1, <3>3
      <4>2. \A v \in Thread \ {t} : Eff(v)' = "chunk" /\ th'[v].chunk = th'[u].chunk => v = u
        BY <2>1, <2>2, <2>7, <3>3 DEF ChunksDone
      <4> QED BY <1>6, <4>1, <4>2
    <3> QED BY <3>2, <3>3
  <2>8. n_graph.n_threads \in Nat /\ c + 1 >= n_graph.n_threads
    BY <1>2, <1>5, <2>1 DEF ChunksDone, TypeOK
  <2>9. ASSUME NEW u \in Thread, Active(u)', Eff(u)' \notin {"chunk", "next_chunk"}
        PROVE  c + 1 >= NChunk(Prog[n + 1], n_graph.n_threads)
    <3>1. u # t
      BY <1>6, <2>9
    <3>2. c >= NChunk(Prog[n + 1], n_graph.n_threads)
      BY <1>5, <2>1, <2>2, <2>9, <3>1 DEF ChunksDone
    <3>3. n + 1 \in 1 .. NodeCount
      <4>1. n < NodeCount
        BY <1>1, <1>8, Context DEF ChunkAt, PosChunk
      <4> QED BY <1>4, <2>1, <4>1
    <3>4. NChunk(Prog[n + 1], n_graph.n_threads) \in Nat
      BY <1>2, <1>4, <2>8, <3>3, ChunkCount
    <3> QED BY <3>2, <3>4
  <2>10. ChunksDone(n)'
    BY <1>1, <1>5, <2>1, <2>5, <2>6, <2>7, <2>8, <2>9 DEF ChunksDone
  <2> QED BY <2>1, <2>10 DEF ChunkAt
<1>9. Stopping'
  BY <1>1, <1>3, StoppingSame
<1> QED BY <1>1, <1>3, <1>7, <1>8, <1>9, ProgressStays

-----------------------------------------------------------------------------
(* A barrier opens.                                                        *)

\* The operand of a product is converted before the first chunk is computed.
LEMMA OpensChunk ==
    ASSUME Inv, Progress, NEW t \in Thread, Opens(t), th[t].ret = "chunk", UNCHANGED <<done, ec, current_chunk>>,
           NEW k \in Nat, k = th[t].node, NEW n \in 0 .. NodeCount, NodeAt(n)
    PROVE  ChunkAt(k)'
<1>1. /\ 0 \in Team /\ Active(0) /\ cgraph > 0 /\ UNCHANGED <<n_graph, cgraph>> /\ TypeOK
      /\ \A u \in Thread : ~NotYet(u)' /\ (u \notin Team => ~Active(u)')
      /\ \A u \in Team : /\ u \in Thread /\ At_(u, th[u].ret) /\ Eff(u)' = th[u].ret
                         /\ th'[u].chunk = th[u].chunk
  BY OpenTeam DEF Opens, Inv
<1>2. /\ \A u \in Team : th[u].ret = "chunk"
      /\ k < NodeCount /\ n <= k /\ Nops(n, k) /\ Op(k) = "mul_mat" /\ Op(k) # "nop"
  BY OpenPlace DEF NodeAt
<1>3. SegChunk(k)'
  BY OpensKeeps
<1>4. /\ NodeCount \in Nat /\ n_graph.n_threads = Threads(cgraph) /\ Threads(cgraph) \in Nat
      /\ \A i \in Nat : i < Threads(cgraph) <=> i \in Team
  BY <1>1, TeamThreads
<1>5. NodeDone(n) /\ n \in Nat /\ k \in n .. NodeCount - 1
  BY <1>2, <1>4 DEF NodeAt
<1>6. current_chunk = Threads(cgraph)
  BY <1>1, <1>2, <1>4, <1>5 DEF NodeDone
<1>7. ASSUME NEW u \in Thread, Active(u)' PROVE u \in Team /\ Eff(u)' = "chunk" /\ th'[u].chunk = u
  BY <1>1, <1>2, <1>5, <1>7 DEF NodeDone
<1>8. ASSUME NEW u \in Team PROVE Shared(u, n) /\ Held(u)'
  <2>1. Shared(u, n)
    BY <1>1, <1>2 DEF Shared
  <2>2. u \in Thread /\ Eff(u)' = "chunk" /\ th'[u].chunk = u
    BY <1>1, <1>2, <1>5 DEF NodeDone
  <2> QED BY <2>1, <2>2 DEF Held
<1>9. Pieces(cgraph)' = Pieces(cgraph) /\ Prog' = Prog
  BY <1>1 DEF Prog
<1>10. ASSUME NEW y \in Pieces(cgraph)
       PROVE  y \in BagToSet(done)' <=>
                     \/ y.node < k
                     \/ y.node = k /\ (y.phase = 0 \/ (y.i < current_chunk /\ ~Held(y.i)'))
  <2>1. y \in BagToSet(done) <=> y.node < n \/ (y.phase = 0 /\ Nops(n, y.node) /\ Shared(y.i, n))
    BY <1>5 DEF NodeDone
  <2>2. /\ y.node < k <=> y.node < n
        /\ y.node >= n /\ Nops(n, y.node) <=> y.node = k
    BY <1>1, <1>2, <1>5, FirstNode
  <2>3. y.i \in Nat /\ y.node \in Nat /\ (y.phase = 0 => y.i < Threads(cgraph))
    BY <1>1, PieceIs
  <2>4. y.phase = 0 => Shared(y.i, n)
    BY <1>4, <1>8, <2>3
  <2>5. ~(y.i < current_chunk /\ ~Held(y.i)')
    BY <1>4, <1>6, <1>8, <2>3
  <2> QED BY <1>5, <2>1, <2>2, <2>3, <2>4, <2>5
<1>11. ASSUME NEW u \in Thread, Eff(u)' = "chunk"
       PROVE  /\ th'[u].chunk < current_chunk
              /\ \A v \in Thread : Eff(v)' = "chunk" /\ th'[v].chunk = th'[u].chunk => v = u
  <2>1. \A v \in Thread : Eff(v)' = "chunk" => Active(v)'
    BY DEF Active, Outside
  <2>2. \A v \in Thread : Eff(v)' = "chunk" => v \in Team /\ th'[v].chunk = v
    BY <1>7, <2>1
  <2>3. u \in Nat
    BY DEF Thread
  <2> QED BY <1>4, <1>6, <1>11, <2>2, <2>3
<1>12. ChunksDone(k)'
  <2>1. BagToSet(done) \subseteq Pieces(cgraph)
    BY <1>5 DEF NodeDone
  <2>2. current_chunk >= n_graph.n_threads
    BY <1>4, <1>6
  <2> QED BY <1>1, <1>7, <1>9, <1>10, <1>11, <2>1, <2>2 DEF ChunksDone
<1> QED BY <1>1, <1>3, <1>12 DEF ChunkAt

\* All the work of a segment that ends where the whole team has come to a barrier.
LEMMA NodeComplete ==
    ASSUME Inv, Progress, Active(0), NEW n \in Nat, NEW k \in n .. NodeCount - 1, NodeDone(n),
           Nops(n, k), Op(k) \notin {"nop", "mul_mat"}, \A u \in Team : Shared(u, n)
    PROVE  BagToSet(done) = {y \in Pieces(cgraph) : y.node < k + 1}
<1>1. /\ TypeOK /\ cgraph > 0 /\ NodeCount \in Nat
      /\ \A i \in Nat : i < Threads(cgraph) <=> i \in Team
  BY TeamThreads DEF Inv
<1>2. ASSUME NEW y \in Pieces(cgraph) PROVE y \in BagToSet(done) <=> y.node < k + 1
  <2>1. y \in BagToSet(done) <=> y.node < n \/ (y.phase = 0 /\ Nops(n, y.node) /\ Shared(y.i, n))
    BY DEF NodeDone
  <2>2. /\ y.node < k <=> y.node < n
        /\ y.node < n \/ Nops(n, y.node) <=> y.node <= k
        /\ y.node >= n /\ Nops(n, y.node) <=> y.node = k
    BY <1>1, FirstNode
  <2>3. /\ y.phase \in {0, 1} /\ y.i \in Nat /\ y.node \in Nat /\ (y.phase = 0 => y.i < Threads(cgraph))
        /\ y.phase = 1 => Op(y.node) = "mul_mat"
    BY <1>1, PieceIs
  <2>4. y.phase = 0 => Shared(y.i, n)
    BY <1>1, <2>3
  <2>5. y.node = k => y.phase = 0
    BY <2>3
  <2>6. k \in Nat
    BY <1>1
  <2> QED BY <2>1, <2>2, <2>3, <2>4, <2>5, <2>6
<1> QED BY <1>2 DEF NodeDone

\* The same for a product, whose chunks were all handed out and computed.
LEMMA ChunksComplete ==
    ASSUME Inv, Progress, Active(0), NEW n \in Nat, n < NodeCount, ChunksDone(n),
           \A u \in Thread : Active(u) => Eff(u) \notin {"chunk", "next_chunk"}
    PROVE  BagToSet(done) = {y \in Pieces(cgraph) : y.node < n + 1}
<1>1. /\ TypeOK /\ cgraph > 0 /\ NodeCount \in Nat /\ n_graph.n_threads = Threads(cgraph)
      /\ Threads(cgraph) \in Nat /\ 0 \in Thread
  BY TeamThreads, Sizes DEF Inv
<1>2. current_chunk >= NChunk(Prog[n + 1], Threads(cgraph)) /\ current_chunk \in Nat
  BY <1>1 DEF ChunksDone, TypeOK
<1>3. NChunk(Prog[n + 1], Threads(cgraph)) \in Nat
  BY <1>1, ChunkCount
<1>4. \A j : ~Held(j)
  <2>1. \A u \in Thread : Eff(u) = "chunk" => Active(u)
    BY DEF Active, Outside
  <2> QED BY <2>1 DEF Held
<1>5. ASSUME NEW y \in Pieces(cgraph) PROVE y \in BagToSet(done) <=> y.node < n + 1
  <2>1. y \in BagToSet(done) <=>
                     \/ y.node < n
                     \/ y.node = n /\ (y.phase = 0 \/ (y.i < current_chunk /\ ~Held(y.i)))
    BY DEF ChunksDone
  <2>2. /\ y.phase \in {0, 1} /\ y.i \in Nat /\ y.node \in Nat
        /\ y.phase = 1 => y.i < NChunk(Prog[y.node + 1], Threads(cgraph))
    BY <1>1, PieceIs
  <2>3. y.node = n /\ y.phase = 1 => y.i < current_chunk
    <3> SUFFICES ASSUME y.node = n, y.phase = 1 PROVE y.i < current_chunk
      OBVIOUS
    <3>1. y.i < NChunk(Prog[n + 1], Threads(cgraph))
      BY <2>2
    <3> QED BY <1>2, <1>3, <2>2, <3>1
  <2> QED BY <1>4, <2>1, <2>2, <2>3
<1> QED BY <1>5 DEF ChunksDone

\* A node is done before the next one begins.
LEMMA OpensNext ==
    ASSUME Inv, Progress, NEW t \in Thread, Opens(t), th[t].ret = "next", UNCHANGED <<done, ec, current_chunk>>,
           NEW k \in Nat, k = th[t].node, NEW n \in 0 .. NodeCount, NodeAt(n) \/ ChunkAt(n)
    PROVE  NodeAt(k + 1)'
<1>1. /\ 0 \in Team /\ Active(0) /\ cgraph > 0 /\ UNCHANGED <<n_graph, cgraph>> /\ TypeOK
      /\ \A u \in Thread : ~NotYet(u)' /\ (u \notin Team => ~Active(u)') /\ (Active(u) <=> u \in Team)
      /\ \A u \in Team : /\ u \in Thread /\ At_(u, th[u].ret) /\ Eff(u)' = th[u].ret
                         /\ th'[u].node = th[u].node
  BY OpenTeam DEF Opens, Inv
<1>2. /\ \A u \in Team : th[u].ret = "next" /\ th[u].node = k
      /\ k < NodeCount /\ n <= k /\ k + 1 < NodeCount
      /\ NodeAt(n) => Nops(n, k) /\ Op(k) \notin {"nop", "mul_mat"}
  BY OpenPlace DEF NodeAt, ChunkAt
<1>3. SegNode(k + 1)'
  BY OpensKeeps
<1>4. NodeCount \in Nat /\ n \in Nat /\ NodeCount' = NodeCount
  BY <1>1, TeamThreads DEF NodeCount, Prog
<1>5. \A u \in Team : Eff(u) \in InTheBarrier
  BY <1>1 DEF At_, Eff
<1>6. BagToSet(done) = {y \in Pieces(cgraph) : y.node < k + 1}
  <2>1. CASE NodeAt(n)
    <3>1. NodeDone(n) /\ k \in n .. NodeCount - 1
      BY <1>2, <1>4, <2>1 DEF NodeAt
    <3>2. \A u \in Team : Shared(u, n)
      BY <1>1, <1>2 DEF Shared
    <3> QED BY <1>1, <1>2, <1>4, <2>1, <3>1, <3>2, NodeComplete
  <2>2. CASE ChunkAt(n)
    <3>1. k = n
      <4>1. PosChunk(t, n)
        BY <1>1, <2>2 DEF ChunkAt, SegChunk, Opens
      <4>2. At_(t, "next") /\ Eff(t) \in InTheBarrier
        BY <1>1, <1>5 DEF Opens
      <4> QED BY <4>1, <4>2 DEF PosChunk, InTheBarrier, At_
    <3>2. \A u \in Thread : Active(u) => Eff(u) \notin {"chunk", "next_chunk"}
      BY <1>1, <1>5 DEF InTheBarrier
    <3>3. BagToSet(done) = {y \in Pieces(cgraph) : y.node < n + 1}
      BY <1>1, <1>2, <1>4, <2>2, <3>1, <3>2, ChunksComplete DEF ChunkAt
    <3> QED BY <3>1, <3>3
  <2> QED BY <2>1, <2>2
<1>7. ASSUME NEW u \in Thread PROVE ~Shared(u, k + 1)' /\ ~At_(u, "chunk")'
  <2>1. CASE u \in Team
    <3>1. Eff(u)' = "next" /\ th'[u].node = k
      BY <1>1, <1>2, <2>1
    <3>2. \A r : ~At_(u, r)'
      BY <3>1 DEF At_, Eff, InTheBarrier
    <3>3. ~(k >= k + 1)
      OBVIOUS
    <3> QED BY <3>1, <3>2, <3>3 DEF Shared
  <2>2. CASE u \notin Team
    <3>1. ~Active(u)'
      BY <1>1, <2>2
    <3> QED BY <3>1 DEF Shared, At_, Active, Eff, Outside, InTheBarrier
  <2> QED BY <2>1, <2>2
<1>8. NodeDone(k + 1)'
  <2>1. Pieces(cgraph)' = Pieces(cgraph)
    BY <1>1
  <2>2. ASSUME NEW y \in Pieces(cgraph)
        PROVE  ~(y.phase = 0 /\ Shared(y.i, k + 1)')
    <3>1. y.phase = 0 => y.i \in Thread
      BY <1>1, PieceIs, ShareThread
    <3> QED BY <1>7, <3>1
  <2>3. 0 \in Thread
    BY <1>1
  <2> QED BY <1>6, <1>7, <2>1, <2>2, <2>3 DEF NodeDone
<1> QED BY <1>1, <1>3, <1>8 DEF NodeAt

\* No piece is behind the last node.
LEMMA AllPieces ==
    ASSUME TypeOK, cgraph > 0, NEW n \in Nat, n <= NodeCount, Nops(n, NodeCount)
    PROVE  {y \in Pieces(cgraph) : y.node < n} = Pieces(cgraph)
<1>1. ASSUME NEW y \in Pieces(cgraph) PROVE y.node < n
  <2>1. y.node \in 0 .. NodeCount - 1 /\ Op(y.node) # "nop" /\ NodeCount \in Nat
    BY PieceIs, GraphTyped
  <2>2. y.node \notin n .. NodeCount - 1
    BY <2>1 DEF Nops
  <2> QED BY <2>1, <2>2
<1> QED BY <1>1

\* The graph is done, up to the node where it is stopped, when the last barrier opens.
LEMMA OpensDone ==
    ASSUME Inv, Progress, NEW t \in Thread, Opens(t), th[t].ret = "done",
           NEW n \in 0 .. NodeCount, NodeAt(n) \/ ChunkAt(n)
    PROVE  Final
<1>1. /\ 0 \in Team /\ Active(0) /\ cgraph > 0 /\ TypeOK /\ 0 \in Thread
      /\ \A u \in Thread : Active(u) <=> u \in Team
      /\ \A u \in Team : u \in Thread /\ At_(u, th[u].ret)
  BY OpenTeam, Sizes DEF Inv
<1>2. \A u \in Team : At_(u, "done") /\ Eff(u) \in InTheBarrier
  <2>1. \A u \in Team : th[u].ret = "done"
    BY OpenPlace DEF NodeAt, ChunkAt
  <2> QED BY <1>1, <2>1 DEF At_, Eff
<1>3. NodeCount \in Nat /\ n \in Nat /\ n <= NodeCount /\ Threads(cgraph) \in Nat /\ 0 < Threads(cgraph)
  BY <1>1, TeamThreads
<1>4. Stopping
  BY <1>1 DEF Progress
<1>5. \A u \in Team : ~At_(u, "next") /\ ~At_(u, "chunk") /\ Eff(u) \notin {"start", "node", "work", "chunk", "next_chunk", "after", "next"}
  BY <1>2 DEF At_, InTheBarrier
<1>6. ec \in {"ok", "aborted"}
  BY <1>1 DEF TypeOK
<1>7. AbortAt(n)
  BY DEF NodeAt, ChunkAt, SegNode, SegChunk
<1>8. abort = -1 \/ abort = n \/ (abort > n /\ abort = NodeCount)
  BY <1>1, <1>5, <1>7 DEF AbortAt
\* stopped behind node k - 1
<1>9. ASSUME NEW k \in 1 .. NodeCount, Op(k - 1) # "nop",
             BagToSet(done) = {y \in Pieces(cgraph) : y.node < k}, ec = "aborted"
      PROVE  Final
  <2>1. PICK x : x = Piece(k - 1, 0, 0)
    OBVIOUS
  <2>2. x.node = k - 1 /\ x.node + 1 = k
    BY <1>3, <2>1 DEF Piece
  <2>3. x \in Pieces(cgraph)
    BY <1>1, <1>3, <1>9, <2>1, IsPiece
  <2> QED BY <1>9, <2>2, <2>3 DEF Final
<1>10. CASE NodeAt(n)
  <2>1. NodeDone(n) /\ \A u \in Team : PosNode(u, n)
    BY <1>1, <1>10 DEF NodeAt, SegNode
  <2>2. ASSUME NEW u \in Team
        PROVE  \/ abort = n /\ th[u].node = n
               \/ th[u].node = NodeCount /\ Nops(n, NodeCount)
               \/ /\ th[u].node = NodeCount /\ n < NodeCount /\ Nops(n, NodeCount - 1)
                  /\ Op(NodeCount - 1) \notin {"nop", "mul_mat"} /\ abort # n
    BY <1>5, <2>1 DEF PosNode
  <2>3. Nops(n, NodeCount) /\ n < NodeCount => Op(NodeCount - 1) = "nop"
    BY <1>3 DEF Nops
  <2>4. ASSUME \A u \in Team : ~Shared(u, n) PROVE BagToSet(done) = {y \in Pieces(cgraph) : y.node < n}
    <3>1. ASSUME NEW y \in Pieces(cgraph), y.phase = 0 PROVE y.i \in Team
      <4>1. y.i \in Nat /\ y.i < Threads(cgraph)
        BY <1>1, <3>1, PieceIs
      <4> QED BY <1>1, <4>1, TeamThreads
    <3> QED BY <2>1, <2>4, <3>1 DEF NodeDone
  <2>5. CASE abort = n
    <3>1. ASSUME NEW u \in Team PROVE ~Shared(u, n)
      BY <1>3, <1>5, <2>2, <2>3, <2>5 DEF Shared
    <3>2. n \in 1 .. NodeCount /\ Op(n - 1) # "nop" /\ ec = "aborted"
      BY <1>3, <1>4, <2>5 DEF Stopping
    <3> QED BY <1>9, <2>4, <3>1, <3>2
  <2>6. CASE abort # n /\ Nops(n, NodeCount)
    <3>1. ASSUME NEW u \in Team PROVE ~Shared(u, n)
      BY <1>3, <1>5, <2>3, <2>6 DEF Shared
    <3>2. abort = -1
      <4>1. abort # -1 => abort > n /\ abort = NodeCount /\ Op(NodeCount - 1) # "nop"
        BY <1>4, <1>8, <2>6 DEF Stopping
      <4> QED BY <1>3, <2>3, <2>6, <4>1
    <3>3. ec = "ok"
      BY <1>4, <1>6, <3>2 DEF Stopping
    <3> QED BY <1>1, <1>3, <2>4, <2>6, <3>1, <3>3, AllPieces DEF Final
  <2>7. CASE abort # n /\ ~Nops(n, NodeCount)
    <3>1. n < NodeCount /\ Nops(n, NodeCount - 1) /\ Op(NodeCount - 1) \notin {"nop", "mul_mat"}
          /\ \A u \in Team : th[u].node = NodeCount
      BY <1>1, <2>2, <2>7
    <3>2. \A u \in Team : Shared(u, n)
      BY <1>2, <3>1 DEF Shared
    <3>3. NodeCount - 1 \in n .. NodeCount - 1 /\ NodeCount - 1 + 1 = NodeCount /\ NodeCount \in 1 .. NodeCount
      BY <1>3, <3>1
    <3>4. BagToSet(done) = {y \in Pieces(cgraph) : y.node < NodeCount}
      BY <1>1, <1>3, <2>1, <3>1, <3>2, <3>3, NodeComplete
    <3>5. CASE abort = -1
      <4>1. ec = "ok"
        BY <1>4, <1>6, <3>5 DEF Stopping
      <4>2. Nops(NodeCount, NodeCount)
        BY <1>3 DEF Nops
      <4> QED BY <1>1, <1>3, <3>4, <4>1, <4>2, AllPieces DEF Final
    <3>6. CASE abort # -1
      <4>1. ec = "aborted"
        BY <1>4, <3>6 DEF Stopping
      <4> QED BY <1>9, <3>1, <3>3, <3>4, <4>1
    <3> QED BY <3>5, <3>6
  <2> QED BY <2>5, <2>6, <2>7
<1>11. CASE ChunkAt(n)
  <2>1. ChunksDone(n) /\ PosChunk(0, n)
    BY <1>1, <1>11 DEF ChunkAt, SegChunk
  <2>2. n < NodeCount /\ Op(n) = "mul_mat" /\ abort # n /\ n + 1 = NodeCount /\ NodeCount - 1 = n
    BY <1>1, <1>3, <1>5, <2>1 DEF PosChunk
  <2>3. BagToSet(done) = {y \in Pieces(cgraph) : y.node < NodeCount}
    <3>1. \A u \in Thread : Active(u) => Eff(u) \notin {"chunk", "next_chunk"}
      BY <1>1, <1>5
    <3> QED BY <1>1, <1>3, <2>1, <2>2, <3>1, ChunksComplete
  <2>4. CASE abort = -1
    <3>1. ec = "ok"
      BY <1>4, <1>6, <2>4 DEF Stopping
    <3>2. Nops(NodeCount, NodeCount)
      BY <1>3 DEF Nops
    <3> QED BY <1>1, <1>3, <2>3, <3>1, <3>2, AllPieces DEF Final
  <2>5. CASE abort # -1
    <3>1. ec = "aborted"
      BY <1>4, <2>5 DEF Stopping
    <3>2. NodeCount \in 1 .. NodeCount /\ Op(NodeCount - 1) # "nop"
      BY <1>3, <2>2
    <3> QED BY <1>9, <2>3, <3>1, <3>2
  <2> QED BY <2>4, <2>5
<1> QED BY <1>10, <1>11

\* Whichever barrier it is.
LEMMA OpensProgress ==
    ASSUME Inv, Inv', Progress, NEW t \in Thread, Opens(t), UNCHANGED <<done, ec, current_chunk>>
    PROVE  Progress'
<1>1. UNCHANGED <<n_graph, cgraph, abort>> /\ Active(0) /\ cgraph > 0
      /\ th[t].ret \in {"chunk", "next", "done"}
  BY OpenTeam DEF Opens
<1>2. PICK k \in Nat : k = th[t].node
  BY DEF Inv, TypeOK, ThreadState
<1>3. PICK n \in 0 .. NodeCount : NodeAt(n) \/ ChunkAt(n)
  BY <1>1 DEF Progress
<1>4. /\ th[t].ret = "chunk" => SegChunk(k)' /\ k < NodeCount
      /\ th[t].ret = "next" => SegNode(k + 1)' /\ k + 1 < NodeCount
      /\ th[t].ret = "done" => ~Active(0)' /\ Eff(0)' = "done"
      /\ th[t].ret # "done" => Active(0)'
  BY <1>2, OpensKeeps
<1>5. NodeCount' = NodeCount /\ NodeCount \in Nat /\ Threads(cgraph)' = Threads(cgraph)
      /\ n_graph.n_threads = Threads(cgraph)
  BY <1>1, TeamThreads DEF NodeCount, Prog
<1>6. CASE th[t].ret = "done"
  <2>1. Final
    BY <1>3, <1>6, OpensDone
  <2>2. Final'
    BY <1>1, <2>1 DEF Final
  <2>3. th'[0].pc # "kick"
    BY <1>4, <1>6 DEF Eff, Released
  <2> QED BY <1>1, <1>4, <1>6, <2>2, <2>3 DEF Progress
<1>7. CASE th[t].ret # "done"
  <2>1. Active(0)' /\ Stopping'
    BY <1>1, <1>4, <1>7, StoppingSame
  <2>2. Eff(0)' # "done" /\ th'[0].pc # "kick"
    BY <2>1 DEF Active, Outside, Eff, Released
  <2>3. \E m \in 0 .. NodeCount : NodeAt(m)' \/ ChunkAt(m)'
    <3>1. CASE th[t].ret = "chunk"
      <4>1. ~ChunkAt(n)
        <5>1. At_(t, "chunk") /\ Active(t)
          BY <3>1, OpenTeam
        <5>2. ~PosChunk(t, n)
          BY <5>1 DEF PosChunk, At_, Eff, InTheBarrier
        <5> QED BY <5>1, <5>2 DEF ChunkAt, SegChunk
      <4>2. ChunkAt(k)' /\ k \in 0 .. NodeCount
        BY <1>2, <1>3, <1>4, <1>5, <3>1, <4>1, OpensChunk
      <4> QED BY <4>2
    <3>2. CASE th[t].ret = "next"
      <4>1. NodeAt(k + 1)' /\ k + 1 \in 0 .. NodeCount
        BY <1>2, <1>3, <1>4, <1>5, <3>2, OpensNext
      <4> QED BY <4>1
    <3> QED BY <1>1, <1>7, <3>1, <3>2
  <2> QED BY <1>1, <1>5, <2>1, <2>2, <2>3 DEF Progress
<1> QED BY <1>6, <1>7

-----------------------------------------------------------------------------
(* Every step is a step of GraphExec, or none.                             *)

Status == IF th[0].pc \in {"idle", "join", "freed"} THEN ec ELSE "busy"
Simulates == [Exec!Next]_(Exec!vars)

\* GraphExec has its own name for each operator on bags.
LEMMA ExecBags ==
    /\ \A B : Exec!BagToSet(B) = BagToSet(B)
    /\ \A x, B : Exec!BagIn(x, B) <=> BagIn(x, B)
    /\ Exec!EmptyBag = EmptyBag
    /\ \A x, B : Exec!(+)(B, Exec!SetToBag({x})) = B (+) SetToBag({x})
<1>1. \A B : Exec!BagToSet(B) = BagToSet(B)
  BY DEF Exec!BagToSet, BagToSet
<1>2. \A S : Exec!SetToBag(S) = SetToBag(S)
  BY DEF Exec!SetToBag, SetToBag
<1>3. \A B, C : Exec!(+)(B, C) = B (+) C
  BY <1>1 DEF Exec!(+), (+)
<1>4. Exec!EmptyBag = EmptyBag
  BY <1>2 DEF Exec!EmptyBag, EmptyBag
<1> QED BY <1>1, <1>2, <1>3, <1>4 DEF Exec!BagIn, BagIn

\* A step that does no work and does not begin or end a graph is none.
LEMMA SimStutter ==
    ASSUME UNCHANGED <<done, cgraph>>, Status' = Status
    PROVE  Simulates
BY DEF Simulates, Exec!vars, Status

\* While thread 0 computes, the graph is not at its end.
LEMMA BusyStays ==
    ASSUME Active(0)
    PROVE  Status = "busy"
BY DEF Active, Eff, Released, Outside, Status

\* A step of thread 0 or of a worker that does no work, while the graph is computed, is none.
LEMMA SimBusy ==
    ASSUME Active(0), Active(0)', UNCHANGED <<done, cgraph>>
    PROVE  Simulates
<1>1. Status = "busy"
  BY BusyStays
<1>2. Status' = "busy"
  BY DEF Active, Eff, Released, Outside, Status
<1> QED BY <1>1, <1>2, SimStutter

\* A step that does a piece of work is a step of GraphExec.
LEMMA SimCompute ==
    ASSUME TypeOK, Active(0), Active(0)', cgraph > 0, NEW x \in Pieces(cgraph), Computes(x)
    PROVE  Simulates
<1>1. Status = "busy"
  BY BusyStays
<1>2. Status' = "busy"
  BY DEF Active, Eff, Released, Outside, Status
<1>3. cgraph \in 1 .. Len(Graphs)
  BY GraphTyped
<1> DEFINE W == [g \in 1 .. Len(Graphs) |-> Pieces(g)]
<1>4. W[cgraph] = Pieces(cgraph)
  BY <1>3
<1>5. Exec!Compute(x)
  <2>1. ~BagIn(x, done)
    BY DEF Computes, BagIn
  <2>2. \A y \in W[cgraph] : Exec!Before(y, x) => BagIn(y, done)
    BY <1>4 DEF Computes, BagIn, Exec!Before, Ahead
  <2>3. done' = done (+) SetToBag({x}) /\ UNCHANGED cgraph
    BY DEF Computes
  <2> QED BY <1>1, <1>2, <2>1, <2>2, <2>3, ExecBags DEF Exec!Compute, Status
<1>6. Exec!Next
  BY <1>4, <1>5 DEF Exec!Next
<1> QED BY <1>6 DEF Simulates

\* The steps in a barrier.
LEMMA BarrierSim ==
    ASSUME Inv, Progress, NEW t \in Thread, ggml_barrier(t)
    PROVE  Progress' /\ Simulates
<1>1. UNCHANGED <<done, ec, current_chunk, cgraph>>
  BY DEF ggml_barrier, BarrierEnter, BarrierReadPassed, BarrierAdd, BarrierReset, BarrierExit, BarrierSpin, shared
<1>2. Inv' /\ (Still(t) \/ Opens(t))
  BY BarrierEnterInv, BarrierReadPassedInv, BarrierAddInv, BarrierResetInv, BarrierExitInv,
     BarrierSpinInv DEF ggml_barrier
<1>3. Progress'
  BY <1>1, <1>2, StillProgress, OpensProgress
<1>4. Status' = Status
  <2>1. th[t].pc \in InTheBarrier /\ th[t].ret \in {"chunk", "next", "done"}
    BY <1>2 DEF Still, Opens, InTheBarrier, Inv, Roles, Flags
  <2>2. th'[t].pc \notin {"idle", "join", "freed"} /\ th[t].pc \notin {"idle", "join", "freed"}
    BY <1>2, <2>1 DEF Still, Opens, InTheBarrier
  <2>3. t # 0 => th'[0] = th[0]
    BY <1>2, Sizes DEF Still, Opens, Only, Inv
  <2> QED BY <1>1, <2>2, <2>3 DEF Status
<1> QED BY <1>1, <1>3, <1>4, SimStutter

\* Leaving a graph: when thread 0 does, it ends.
LEMMA ComputeDoneSim ==
    ASSUME Inv, Progress, NEW t \in Thread, ComputeDone(t)
    PROVE  Progress' /\ Simulates
<1>1. th[t].pc = "done" /\ UNCHANGED shared /\ UNCHANGED <<done, ec, current_chunk, cgraph>>
  BY DEF ComputeDone, At, shared
<1>2. OutsideStep(t) /\ TypeOK
  BY ComputeDoneInv DEF Inv
<1>3. CASE t # 0
  <2>1. Progress' /\ th'[0] = th[0]
    BY <1>1, <1>2, <1>3, OutsideProgress DEF Worker
  <2> QED BY <1>1, <2>1, SimStutter DEF Status
<1>4. CASE t = 0
  <2>1. th'[0].pc = "idle"
    <3>1. th \in [Thread -> ThreadState] /\ th[t] \in ThreadState
      BY <1>2 DEF TypeOK
    <3>2. th'[t] = [th[t] EXCEPT !.pc = IF t = 0 THEN "idle" ELSE "top", !.ret = "top",
                                 !.graph = 0, !.nth = 0, !.node = 0, !.chunk = 0,
                                 !.n_threads = 0, !.n_passed = 0]
      BY <3>1 DEF ComputeDone
    <3> QED BY <1>4, <3>1, <3>2 DEF ThreadState
  <2>2. Eff(0)' = "idle" /\ ~Active(0)'
    BY <2>1 DEF Eff, Released, Active, Outside
  <2>3. Progress'
    BY <2>1, <2>2 DEF Progress
  <2>4. Eff(0) = "done"
    BY <1>1, <1>4 DEF Eff, Released
  <2>5. cgraph > 0 /\ Final
    BY <2>4 DEF Progress
  <2>6. cgraph \in 1 .. Len(Graphs)
    BY <1>2, <2>5, GraphTyped
  <2> DEFINE W == [g \in 1 .. Len(Graphs) |-> Pieces(g)]
  <2>7. W[cgraph] = Pieces(cgraph)
    BY <2>6
  <2>8. Status = "busy" /\ Status' = ec
    BY <1>1, <1>4, <2>1 DEF Status
  <2>9. Exec!End
    <3>1. CASE ec = "ok" /\ BagToSet(done) = Pieces(cgraph)
      BY <1>1, <2>7, <2>8, <3>1, ExecBags DEF Exec!End, Status
    <3>2. CASE ec = "aborted" /\ \E x \in Pieces(cgraph) : BagToSet(done) = {y \in Pieces(cgraph) : y.node < x.node + 1}
      <4>1. PICK x \in Pieces(cgraph) : BagToSet(done) = {y \in Pieces(cgraph) : y.node < x.node + 1}
        BY <3>2
      <4>2. \E k \in {y.node + 1 : y \in W[cgraph]} : BagToSet(done) = {y \in W[cgraph] : y.node < k}
        BY <2>7, <4>1
      <4> QED BY <1>1, <2>8, <3>2, <4>2, ExecBags DEF Exec!End, Status
    <3> QED BY <2>5, <3>1, <3>2 DEF Final
  <2> QED BY <2>3, <2>9 DEF Simulates, Exec!Next
<1> QED BY <1>3, <1>4

\* Every step in ggml_graph_compute_thread.
LEMMA ComputeSim ==
    ASSUME Inv, Progress, NEW t \in Thread, ggml_graph_compute_thread(t)
    PROVE  Progress' /\ Simulates
<1>1. CASE ComputeStart(t)
  BY <1>1, ComputeStartProgress, SimBusy
<1>2. CASE NextNode(t)
  BY <1>2, NextNodeProgress, SimBusy
<1>3. CASE Share(t)
  <2>1. TypeOK /\ cgraph > 0
    BY <1>3, ShareProgress, TeamThreads DEF Inv
  <2> QED BY <1>3, <2>1, ShareProgress, SimCompute
<1>4. CASE Chunk(t)
  <2>1. TypeOK /\ cgraph > 0
    BY <1>4, ChunkProgress, TeamThreads DEF Inv
  <2> QED BY <1>4, <2>1, ChunkProgress, SimCompute, SimBusy
<1>5. CASE NextChunk(t)
  BY <1>5, NextChunkProgress, SimBusy
<1>6. CASE After(t)
  BY <1>6, AfterProgress, SimBusy
<1>7. CASE Next_(t)
  BY <1>7, NextProgress, SimBusy
<1> QED BY <1>1, <1>2, <1>3, <1>4, <1>5, <1>6, <1>7, ComputeDoneSim, BarrierSim
        DEF ggml_graph_compute_thread

\* Every step of a worker between two graphs.
LEMMA SecondarySim ==
    ASSUME Inv, Progress, NEW t \in Worker, secondary_thread(t)
    PROVE  Progress' /\ Simulates
<1>1. UNCHANGED <<n_graph, n_barrier, n_barrier_passed, cgraph, abort, done, ec, current_chunk>>
  BY DEF secondary_thread, Top, Paused, StopCheck, Poll, PollGraph, Check, shared
<1>2. OutsideStep(t) \/ StartStep(t) \/ UNCHANGED th
  BY SecondaryInv
<1>3. Progress' /\ th'[0] = th[0]
  <2>1. CASE OutsideStep(t)
    BY <1>1, <2>1, OutsideProgress
  <2>2. CASE StartStep(t)
    BY <1>1, <2>2, StartProgress
  <2>3. CASE UNCHANGED th
    BY <1>1, <2>3, SameProgress
  <2> QED BY <1>2, <2>1, <2>2, <2>3
<1>4. Status' = Status
  BY <1>1, <1>3 DEF Status
<1> QED BY <1>1, <1>3, <1>4, SimStutter

\* Thread 0 between two graphs: setting up the next one begins it.
LEMMA CallerSim ==
    ASSUME Inv, Progress, Reset \/ SetPause \/ Free \/ Join \/ \E t \in Worker : SpuriousWakeup(t)
    PROVE  Progress' /\ Simulates
<1>1. TypeOK /\ 0 \in Thread
  BY Sizes DEF Inv
<1>2. CASE Reset
  <2>1. th[0].pc = "idle" /\ GoTo(0, "kick") /\ "kick" \in Pc /\ done' = EmptyBag /\ ec' = "ok" /\ cgraph' = cgraph + 1
    BY <1>2 DEF Reset, At, Pc
  <2>2. th'[0].pc = "kick"
    BY <1>1, <2>1, Goes
  <2>3. Eff(0)' = "kick" /\ ~Active(0)'
    BY <2>2 DEF Eff, Released, Active, Outside
  <2>4. Progress'
    BY <2>1, <2>2, <2>3 DEF Progress
  <2>5. Status = ec /\ Status' = "busy" /\ ec # "busy"
    BY <1>1, <2>1, <2>2 DEF Status, TypeOK
  <2>6. Exec!Begin
    BY <2>1, <2>5, ExecBags DEF Exec!Begin, Status
  <2> QED BY <2>4, <2>6 DEF Simulates, Exec!Next
<1>3. CASE SetPause \/ \E t \in Worker : SpuriousWakeup(t)
  <2>1. UNCHANGED <<n_graph, n_barrier, n_barrier_passed, cgraph, abort, th, done, ec, current_chunk>>
    BY <1>3 DEF SetPause, SpuriousWakeup
  <2>2. Status' = Status
    BY <2>1 DEF Status
  <2> QED BY <2>1, <2>2, SameProgress, SimStutter
<1>4. CASE Free \/ Join
  <2>1. UNCHANGED <<done, ec, cgraph>> /\ th[0].pc \in {"idle", "join"}
    BY <1>4 DEF Free, Join, shared, At
  <2>2. th'[0].pc \in {"join", "freed"}
    <3>1. PICK pc \in {"join", "freed"} : GoTo(0, pc)
      BY <1>4 DEF Free, Join
    <3> QED BY <1>1, <3>1, Goes DEF Pc
  <2>3. ~Active(0)' /\ Eff(0)' # "done" /\ th'[0].pc # "kick"
    BY <2>2 DEF Eff, Released, Active, Outside
  <2>4. Status' = Status
    BY <2>1, <2>2 DEF Status
  <2> QED BY <2>1, <2>3, <2>4, ProgressRests, SimStutter
<1> QED BY <1>2, <1>3, <1>4

\* A graph is kicked off with nothing done.
LEMMA KickoffSim ==
    ASSUME Inv, Progress, Kickoff
    PROVE  Progress' /\ Simulates
<1>1. /\ TypeOK /\ Roles /\ Members /\ 0 \in Thread /\ th[0].pc = "kick"
      /\ "start" \in Pc /\ GoTo(0, "start")
  BY Sizes DEF Inv, Kickoff, At, Pc
<1>2. UNCHANGED <<n_barrier, n_barrier_passed, current_chunk, stop, abort, ec, cgraph, done>>
  BY DEF Kickoff
<1>3. /\ Only(0) /\ th'[0].pc = "start" /\ \A u \in Thread : u # 0 => th'[u] = th[u]
  BY <1>1, Goes DEF Only
<1>4. cgraph > 0 /\ abort = -1 /\ done = EmptyBag /\ ec = "ok"
  BY <1>1 DEF Roles, Progress
<1>5. ~Active(0)
  BY <1>1 DEF Active, Eff, Released, Outside
<1>6. \A u \in Thread : u # 0 => ~Active(u)'
  BY <1>1, <1>2, <1>3, <1>5, OthersSame DEF Members
<1>7. Active(0)' /\ Eff(0)' = "start"
  BY <1>3 DEF Active, Eff, Released, Outside
<1>8. NodeCount' \in Nat /\ cgraph' > 0
  BY <1>1, <1>2, <1>4, GraphTyped DEF NodeCount, Prog
<1>9. n_graph'.n_threads = Threads(cgraph')
  BY <1>2 DEF Kickoff, Threads
<1>10. Stopping'
  BY <1>2, <1>4 DEF Stopping
<1>11. ASSUME NEW u \in Thread PROVE ~Shared(u, 0)' /\ \A r : ~At_(u, r)'
  <2>1. CASE u = 0
    BY <1>7, <2>1 DEF Shared, At_, Eff, InTheBarrier
  <2>2. CASE u # 0
    BY <1>6, <2>2 DEF Shared, At_, Active, Eff, Outside, InTheBarrier
  <2> QED BY <2>1, <2>2
<1>12. NodeAt(0)'
  <2>1. SegNode(0)'
    <3>1. ASSUME NEW u \in Thread, Active(u)' PROVE PosNode(u, 0)'
      BY <1>6, <1>7, <3>1 DEF PosNode
    <3>2. AbortAt(0)'
      BY <1>2, <1>4 DEF AbortAt
    <3> QED BY <3>1, <3>2 DEF SegNode
  <2>2. NodeDone(0)'
    <3>1. BagToSet(done)' = {} /\ Pieces(cgraph)' = Pieces(cgraph)
      BY <1>2, <1>4, BagEmpty
    <3>2. ASSUME NEW y \in Pieces(cgraph) PROVE ~(y.node < 0) /\ ~(y.phase = 0 /\ Shared(y.i, 0)')
      <4>1. y.node \in Nat /\ (y.phase = 0 => y.i \in Thread)
        <5>1. NodeCount \in Nat
          BY <1>1, <1>4, GraphTyped
        <5> QED BY <1>1, <1>4, <5>1, PieceIs, ShareThread
      <4> QED BY <1>11, <4>1
    <3> QED BY <1>1, <1>11, <3>1, <3>2 DEF NodeDone
  <2> QED BY <2>1, <2>2 DEF NodeAt
<1>13. Progress'
  BY <1>3, <1>7, <1>8, <1>9, <1>10, <1>12 DEF Progress
<1>14. Status' = Status
  BY <1>1, <1>3 DEF Status
<1> QED BY <1>2, <1>13, <1>14, SimStutter

\* Every step keeps Progress and is a step of GraphExec, or none.
LEMMA NextSim ==
    ASSUME Inv, Progress, [Next]_vars
    PROVE  Progress' /\ Simulates
<1>1. CASE \E t \in Thread : Step(t)
  BY <1>1, ComputeSim, SecondarySim DEF Step
<1>2. CASE Freed \/ UNCHANGED vars
  <2>1. UNCHANGED <<n_graph, n_barrier, n_barrier_passed, cgraph, abort, th, done, ec, current_chunk>>
    BY <1>2 DEF Freed, vars, shared
  <2>2. Status' = Status
    BY <2>1 DEF Status
  <2> QED BY <2>1, <2>2, SameProgress, SimStutter
<1> QED BY <1>1, <1>2, CallerSim, KickoffSim DEF Next

\* A new pool has computed nothing.
LEMMA InitSim ==
    ASSUME Init
    PROVE  Progress /\ Exec!Init
<1>1. 0 \in Thread
  BY PoolAssumption DEF Thread
<1>2. th[0].pc = "idle" /\ cgraph = 0 /\ done = EmptyBag /\ ec = "ok"
  BY <1>1 DEF Init
<1>3. Eff(0) = "idle" /\ ~Active(0)
  BY <1>2 DEF Eff, Released, Active, Outside
<1>4. Progress
  BY <1>2, <1>3 DEF Progress
<1>5. Exec!Init
  BY <1>2, ExecBags DEF Exec!Init
<1> QED BY <1>4, <1>5

\* The pool computes each graph as GraphExec says, for every number of threads and every
\* list of graphs: node after node, every piece of work once, none before those it needs,
\* and a graph that is aborted ends with all the work up to one node done.
THEOREM ThreadpoolComputesInOrder == Spec => ComputesInOrder
<1>1. Init => Progress /\ Exec!Init
  BY InitSim
<1>2. Inv /\ Progress /\ [Next]_vars => Progress' /\ [Exec!Next]_(Exec!vars)
  BY NextSim DEF Simulates
<1> QED BY <1>1, <1>2, InvHolds, PTL DEF Spec, ComputesInOrder, Exec!Spec
=============================================================================
