---------------------------- MODULE MCThreadpool ----------------------------
(* Instances of Threadpool for TLC.                                        *)
EXTENDS Threadpool, TLC

Nop == [op |-> "nop", chunks |-> 0]
Add == [op |-> "add", chunks |-> 0]
MulMat(n) == [op |-> "mul_mat", chunks |-> n]

\* A pool of three is asked for four threads, and cut down to three; then the workers,
\* and later one of them, are left out of a graph.  Two matrix products in a row share
\* current_chunk: eight chunks are the least that two threads fetch one by one.
GraphsMixed == <<[n_threads |-> 4, nodes |-> <<MulMat(1), Nop, Add>>],
                 [n_threads |-> 1, nodes |-> <<Add>>],
                 [n_threads |-> 2, nodes |-> <<MulMat(8), MulMat(8)>>],
                 [n_threads |-> 3, nodes |-> <<Add, Add>>]>>
=============================================================================
