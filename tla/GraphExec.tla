------------------------------ MODULE GraphExec ------------------------------
(***************************************************************************)
(* What ggml_graph_compute promises: the nodes of a graph are computed one *)
(* after the other, each piece of work of each node exactly once, until    *)
(* the graph ends or the abort callback stops it between two nodes.  The   *)
(* pieces of a node may be computed in any order, those of its second      *)
(* phase after all of its first.                                           *)
(***************************************************************************)
EXTENDS Integers, Sequences, Bags

CONSTANT Work    \* Work[g]: the pieces of work of graph g, [node, phase, i]

VARIABLES
    graph,       \* how many graphs have been started
    done,        \* the bag of pieces computed of the last one
    status       \* "busy", or how the last one ended

vars == <<graph, done, status>>

Before(x, y) == x.node < y.node \/ (x.node = y.node /\ x.phase < y.phase)

Init == graph = 0 /\ done = EmptyBag /\ status = "ok"

Begin ==
    /\ status # "busy"
    /\ graph' = graph + 1
    /\ done' = EmptyBag
    /\ status' = "busy"

Compute(x) ==
    /\ status = "busy"
    /\ ~BagIn(x, done)
    /\ \A y \in Work[graph] : Before(y, x) => BagIn(y, done)
    /\ done' = done (+) SetToBag({x})
    /\ UNCHANGED <<graph, status>>

\* The whole graph was computed, or all of it up to the node where it was aborted.
End ==
    /\ status = "busy"
    /\ \/ BagToSet(done) = Work[graph] /\ status' = "ok"
       \/ /\ \E k \in {x.node + 1 : x \in Work[graph]} :
                 BagToSet(done) = {x \in Work[graph] : x.node < k}
          /\ status' = "aborted"
    /\ UNCHANGED <<graph, done>>

Next ==
    \/ Begin
    \/ graph > 0 /\ \E x \in Work[graph] : Compute(x)
    \/ End

Spec == Init /\ [][Next]_vars
=============================================================================
