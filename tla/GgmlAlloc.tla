------------------------------ MODULE GgmlAlloc ------------------------------
(***************************************************************************)
(* The graph allocator of ggml (ggml-alloc.c): it walks a compute graph    *)
(* once, gives every tensor an address in a virtual buffer of chunks, and  *)
(* takes the memory back behind the last operation that reads it.  The     *)
(* plan is kept: later graphs of the same topology use it as long as their *)
(* tensors are not larger.                                                 *)
(*                                                                         *)
(* One buffer type is modelled; that the backend cannot allocate the       *)
(* buffer is not.  Two tensors have the same layout if they have the same  *)
(* size.  A view is never `allocated', so the branch that reuses the       *)
(* memory of a view's source in place cannot be taken and is left out.     *)
(***************************************************************************)
EXTENDS Integers, Sequences, SequencesExt, FiniteSetsExt

CONSTANTS
    Graphs,        \* the graphs that may be computed
    Batches,       \* batch sizes; the tensors of a graph grow with it
    Alignment,     \* alignment of the buffer type
    MaxChunkSize,  \* max_chunk_size: largest buffer of the backend
    MaxChunks,     \* GGML_VBUFFER_MAX_CHUNKS
    Endless,       \* SIZE_MAX/2, the size of the last chunk
    MaxRounds      \* bound: graphs computed

ASSUME AllocAssumption ==
    /\ {Alignment, MaxChunkSize, MaxChunks, Endless} \subseteq Nat \ {0}
    /\ MaxChunkSize < Endless
    /\ Batches \subseteq Nat \ {0}
    /\ MaxRounds \in Nat

(***************************************************************************)
(* A graph: its leafs and its nodes in the order they are computed; of     *)
(* each tensor the sources, the tensor it is a view of (or 0), the size    *)
(* for one token and the memory the backend adds for scratch data; the     *)
(* operations that can work in place; the outputs, the inputs, and the     *)
(* tensors that have their data elsewhere (weights).                       *)
(*                                                                         *)
(* A view is of a tensor that is none, and no tensor is empty.  What works *)
(* in place needs no more scratch memory than what it replaces, as an      *)
(* assertion of free_extra_space has it.  Leafs, with the inputs among     *)
(* them, are the tensors without an operation, and no views; the other     *)
(* tensors are nodes, each once and behind what it reads or is a view of   *)
(* (ggml_visit_parents).                                                   *)
(***************************************************************************)
GGML_MAX_SRC == 10

IsGraph(G) ==
    LET T == DOMAIN G.size IN
    /\ 0 \notin T
    /\ {G.leafs, G.nodes} \subseteq Seq(T)
    /\ T \subseteq ToSet(G.leafs) \cup ToSet(G.nodes)
    /\ G.src \in [T -> Seq(T)]
    /\ G.view \in [T -> T \cup {0}]
    /\ \A t \in T : G.view[t] # 0 => G.view[G.view[t]] = 0
    /\ G.size \in [T -> Nat \ {0}]
    /\ G.extra \in [T -> Nat]
    /\ G.inplace \cup G.output \cup G.input \cup G.external \subseteq T
    /\ \A t \in G.inplace : \A p \in ToSet(G.src[t]) :
           G.size[p] = G.size[t] => G.extra[t] <= G.extra[p]
    /\ G.input \subseteq ToSet(G.leafs)
    /\ \A t \in ToSet(G.leafs) : t \notin G.inplace /\ G.view[t] = 0
    /\ \A t \in T : Len(G.src[t]) <= GGML_MAX_SRC
    /\ \A k \in DOMAIN G.nodes :
           LET t       == G.nodes[k]
               earlier == ToSet(G.leafs) \cup {G.nodes[j] : j \in 1 .. k - 1}
           IN  t \notin earlier /\ ToSet(G.src[t]) \cup {G.view[t]} \subseteq earlier \cup {0}

\* The last chunk has room for any tensor.
ASSUME GraphAssumption ==
    \A G \in Graphs :
        /\ IsGraph(G)
        /\ \A t \in DOMAIN G.size, b \in Batches :
               G.size[t] * b + G.extra[t] + Alignment <= Endless

VARIABLES
    g,        \* the graph
    batch,    \* the batch size its tensors have now
    pc,       \* "idle", "built", "alloc" or "run"
    i,        \* the next node
    chunks,   \* ggml_dyn_tallocr: the free blocks and max_size of each chunk
    hash,     \* hash[t]: the hash_node of tensor t
    plan,     \* node_allocs, leaf_allocs: address and size_max of tensors; <<>> if none
    buffer,   \* the sizes of the backend buffers
    intact,   \* history: the tensors whose memory holds their value
    misread,  \* history: operations that read or lost something they should not
    rounds

vars == <<g, batch, pc, i, chunks, hash, plan, buffer, intact, misread, rounds>>

Tensors == DOMAIN g.size
Nodes == ToSet(g.nodes)
IsView(t) == g.view[t] # 0
Root(t) == IF IsView(t) THEN g.view[t] ELSE t
AllocSize(t) == g.size[t] * batch + g.extra[t]

aligned_offset(n) == n + ((Alignment - (n % Alignment)) % Alignment)

(***************************************************************************)
(* The free blocks of a chunk.                                             *)
(***************************************************************************)
insert_block(free, offset, size) ==
    LET pos == Cardinality({k \in DOMAIN free : free[k].offset < offset})
    IN  InsertAt(free, pos + 1, [offset |-> offset, size |-> size])

End(block) == block.offset + block.size

\* Block k is joined with the one behind it, if they touch.
MergeNot(free, k) == free
Merge(free, k) ==
    IF k \in 1 .. Len(free) - 1 /\ End(free[k]) = free[k + 1].offset
    THEN RemoveAt([free EXCEPT ![k].size = @ + free[k + 1].size], k + 1)
    ELSE free

\* The free blocks when `size' bytes at `offset' are free too: they are joined with the
\* first block they touch.
Freed(free, offset, size) ==
    LET ends(k)  == End(free[k]) = offset
        touching == {k \in DOMAIN free : ends(k) \/ offset + size = free[k].offset}
        k        == Min(touching)
    IN  IF touching = {} THEN insert_block(free, offset, size)
        ELSE IF ends(k) THEN Merge([free EXCEPT ![k].size = @ + size], k)
        ELSE Merge([free EXCEPT ![k] = [offset |-> offset, size |-> @.size + size]], k - 1)

free_bytes(cs, addr, bytes) ==
    [cs EXCEPT ![addr.chunk].free = Freed(@, addr.offset, aligned_offset(bytes))]

\* The best fit among the blocks that are not the last of their chunk, in the last chunk
\* that has one, the last of the smallest.
Fitting(c, size) == {k \in 1 .. Len(c.free) - 1 : c.free[k].size >= size}
BestFit(c, size) ==
    Max({k \in Fitting(c, size) : \A j \in Fitting(c, size) :
                                      c.free[k].size <= c.free[j].size})

\* Otherwise the last block of a chunk: the one that leaves the least of the memory of
\* its chunk unused, or else grows it the least.
LastFits(c, size) == c.free # <<>> /\ Last(c.free).size >= size
Reuse(c, size) == c.max_size - Last(c.free).offset - size
BetterReuse(x, y) == IF x >= 0 /\ y >= 0 THEN x < y ELSE x > y

\* The chunk with a free block for `size' bytes, and the block in it.
FindBlock(cs, size) ==
    LET inner == {c \in DOMAIN cs : Fitting(cs[c], size) # {}}
        last  == {c \in DOMAIN cs : LastFits(cs[c], size)}
        best  == Min({c \in last : ~\E d \in last :
                          BetterReuse(Reuse(cs[d], size), Reuse(cs[c], size))})
    IN  IF inner # {} THEN <<Max(inner), BestFit(cs[Max(inner)], size)>>
        ELSE <<best, Len(cs[best].free)>>

\* A new chunk is as large as the backend's buffers, unless the tensor is larger; the
\* last one is endless.
new_chunk(cs, size) ==
    Append(cs, [free |-> <<[offset |-> 0,
                            size |-> IF Len(cs) = MaxChunks - 1 THEN Endless
                                     ELSE Max({size, MaxChunkSize})]>>,
                max_size |-> 0])

\* `size' bytes are taken from the front of block k.
Take(c, k, size) ==
    LET block == c.free[k]
    IN  [free |-> IF block.size = size THEN RemoveAt(c.free, k)
                  ELSE [c.free EXCEPT ![k] = [offset |-> block.offset + size,
                                              size |-> block.size - size]],
         max_size |-> Max({c.max_size, block.offset + size})]

dyn_tallocr_alloc(cs, bytes) ==
    LET size  == aligned_offset(bytes)
        ready == IF \E c \in DOMAIN cs : Fitting(cs[c], size) # {} \/ LastFits(cs[c], size)
                 THEN cs ELSE new_chunk(cs, size)
        found == FindBlock(ready, size)
        c     == found[1]
    IN  [addr |-> [chunk |-> c, offset |-> ready[c].free[found[2]].offset],
         chunks |-> [ready EXCEPT ![c] = Take(@, found[2], size)]]

(***************************************************************************)
(* Giving the tensors of a graph their addresses.  A state s of the walk   *)
(* is the chunks and the hash table.                                       *)
(***************************************************************************)
NoAddr == [chunk |-> 0, offset |-> 0]
NoHash == [n_children |-> 0, n_views |-> 0, allocated |-> FALSE, addr |-> NoAddr]

is_own(s, t) == s.hash[t].allocated
is_allocated(s, t) == t \in g.external \/ is_own(s, t)

\* The memory of source p can become the node's: nothing else reads it any more.
CanReuseShared(s, t, p) ==
    /\ t \in g.inplace /\ is_own(s, p)
    /\ p \notin g.output
    /\ g.size[p] = g.size[t]
    /\ s.hash[p].n_views = 0
CanReuse(s, t, p) ==
    /\ t \in g.inplace /\ is_own(s, p)
    /\ p \notin g.output
    /\ g.size[p] = g.size[t]
    /\ s.hash[p].n_children = 1 /\ s.hash[p].n_views = 0

\* What the parent has behind the node's size is freed.
free_extra_space(cs, t, p, addr) ==
    LET parent == aligned_offset(AllocSize(p))
        node   == aligned_offset(AllocSize(t))
    IN  IF parent <= node THEN cs
        ELSE free_bytes(cs, [addr EXCEPT !.offset = @ + node], parent - node)

\* The first source whose memory can become the node's is taken over.
allocate_node(s, t) ==
    LET reused == {k \in DOMAIN g.src[t] : CanReuse(s, t, g.src[t][k])}
        p      == g.src[t][Min(reused)]
        new    == dyn_tallocr_alloc(s.chunks, AllocSize(t))
    IN  IF is_allocated(s, t) \/ IsView(t) THEN s
        ELSE IF reused # {}
        THEN [chunks |-> free_extra_space(s.chunks, t, p, s.hash[p].addr),
              hash |-> [s.hash EXCEPT ![t].allocated = TRUE, ![t].addr = s.hash[p].addr,
                                      ![p].allocated = FALSE]]
        ELSE [chunks |-> new.chunks,
              hash |-> [s.hash EXCEPT ![t].allocated = TRUE, ![t].addr = new.addr]]

\* Outputs are never freed.
free_node(s, t) ==
    IF t \in g.output THEN s
    ELSE [chunks |-> free_bytes(s.chunks, s.hash[t].addr, AllocSize(t)),
          hash |-> [s.hash EXCEPT ![t].allocated = FALSE]]

\* One operation that reads p is done.  Behind the last one p is freed, or if p is a
\* view and the last of its tensor's, that tensor.
Unused(s, t) == s.hash[t].n_children = 0 /\ s.hash[t].n_views = 0
update_parent(s, p) ==
    LET read == [s EXCEPT !.hash[p].n_children = @ - 1]
        seen == IF Unused(read, p) /\ IsView(p)
                THEN [read EXCEPT !.hash[g.view[p]].n_views = @ - 1] ELSE read
    IN  IF Unused(read, p) /\ Unused(seen, Root(p)) /\ is_own(seen, Root(p))
        THEN free_node(seen, Root(p)) ELSE seen

\* Leafs first, then the inputs while the uses of every tensor are counted.
CountUsesNoViews ==
    [t \in Tensors |->
        [NoHash EXCEPT
         !.n_children = Cardinality({x \in Nodes \X (1 .. GGML_MAX_SRC) :
                                        x[2] \in DOMAIN g.src[x[1]] /\ g.src[x[1]][x[2]] = t})]]
CountUses ==
    [t \in Tensors |->
        [NoHash EXCEPT
         !.n_children = Cardinality({x \in Nodes \X (1 .. GGML_MAX_SRC) :
                                        x[2] \in DOMAIN g.src[x[1]] /\ g.src[x[1]][x[2]] = t}),
         !.n_views = Cardinality({v \in Nodes : g.view[v] = t})]]

\* A loop over tensors.
ForEach(step(_, _), s, tensors) ==
    LET after[k \in 0 .. Len(tensors)] ==
            IF k = 0 THEN s ELSE step(after[k - 1], tensors[k])
    IN  after[Len(tensors)]

allocate_input(s, t) == IF t \in g.input THEN allocate_node(s, t) ELSE s
allocate_inputs(s, t) == ForEach(allocate_input, s, <<t>> \o g.src[t])

Begun ==
    ForEach(allocate_inputs,
            ForEach(allocate_node, [chunks |-> <<>>, hash |-> CountUses], g.leafs), g.nodes)

\* The sources that are not allocated yet, the node, then the sources are let go.
NodeDone(s, t) ==
    ForEach(update_parent,
            allocate_node(ForEach(allocate_node, s, g.src[t]), t), g.src[t])

(***************************************************************************)
(* The calls.                                                              *)
(***************************************************************************)
Init ==
    /\ g \in Graphs
    /\ batch = 1 /\ pc = "idle" /\ i = 1
    /\ chunks = <<>> /\ hash = [t \in Tensors |-> NoHash]
    /\ plan = <<>> /\ buffer = <<>>
    /\ intact = {} /\ misread = {} /\ rounds = 0

Planned == {t \in Tensors : ~IsView(t) /\ t \notin g.external}

\* The plan is kept if no tensor has become larger than it was planned for.
needs_reallocNot == plan = <<>>
needs_realloc == plan = <<>> \/ \E t \in Planned : AllocSize(t) > plan[t].size_max

\* A graph is built for a batch; its inputs are set when its tensors have addresses.
BuildGraph(b) ==
    /\ pc = "idle" /\ rounds < MaxRounds
    /\ batch' = b /\ pc' = "built" /\ rounds' = rounds + 1
    /\ UNCHANGED <<g, i, chunks, hash, plan, buffer, intact, misread>>

StartRun == pc' = "run" /\ i' = 1 /\ intact' = Tensors \ Nodes

ggml_gallocr_alloc_graph ==
    /\ pc = "built"
    /\ IF needs_realloc
       THEN /\ pc' = "alloc" /\ i' = 1
            /\ chunks' = Begun.chunks /\ hash' = Begun.hash
            /\ UNCHANGED intact
       ELSE StartRun /\ UNCHANGED <<chunks, hash>>
    /\ UNCHANGED <<g, batch, plan, buffer, misread, rounds>>

AllocNode ==
    /\ pc = "alloc" /\ i <= Len(g.nodes)
    /\ LET s == NodeDone([chunks |-> chunks, hash |-> hash], g.nodes[i])
       IN  chunks' = s.chunks /\ hash' = s.hash
    /\ i' = i + 1
    /\ UNCHANGED <<g, batch, pc, plan, buffer, intact, misread, rounds>>

\* The addresses are kept, and the buffer is allocated again if a chunk has grown.
ggml_gallocr_reserve ==
    /\ pc = "alloc" /\ i > Len(g.nodes)
    /\ plan' = [t \in Planned |-> [addr |-> hash[t].addr, size_max |-> AllocSize(t)]]
    /\ buffer' = IF \E c \in DOMAIN chunks :
                        c > Len(buffer) \/ chunks[c].max_size > buffer[c]
                 THEN [c \in DOMAIN chunks |-> chunks[c].max_size] ELSE buffer
    /\ StartRun
    /\ UNCHANGED <<g, batch, chunks, hash, misread, rounds>>

\* Where a tensor's data are, and whether two tensors share any.
First(t) == plan[Root(t)].addr.offset
Overlap(t, u) ==
    /\ {Root(t), Root(u)} \subseteq Planned
    /\ plan[Root(t)].addr.chunk = plan[Root(u)].addr.chunk
    /\ First(t) < First(u) + AllocSize(Root(u))
    /\ First(u) < First(t) + AllocSize(Root(t))

\* The operations of the graph are computed in order: each reads its sources, and writes
\* its tensor over whatever was there.
Exec ==
    LET t     == g.nodes[i]
        wrong == {p \in ToSet(g.src[t]) :
                     \/ Root(p) \notin intact
                     \/ Overlap(t, p) /\ ~IsView(t)
                        /\ (t \notin g.inplace \/ First(t) # First(p))}
    IN  /\ pc = "run" /\ i <= Len(g.nodes)
        /\ misread' = misread \cup {<<t, p>> : p \in wrong}
        /\ intact' = IF IsView(t) THEN intact
                     ELSE {u \in intact : ~Overlap(t, u)} \cup {t}
        /\ i' = i + 1
        /\ UNCHANGED <<g, batch, pc, chunks, hash, plan, buffer, rounds>>

Computed ==
    /\ pc = "run" /\ i > Len(g.nodes)
    /\ misread' = misread \cup {<<0, t>> : t \in {t \in g.output : Root(t) \notin intact}}
    /\ pc' = "idle"
    /\ UNCHANGED <<g, batch, i, chunks, hash, plan, buffer, intact, rounds>>

\* No more graphs to compute.
Finished == pc = "idle" /\ rounds = MaxRounds /\ UNCHANGED vars

Next ==
    \/ \E b \in Batches : BuildGraph(b)
    \/ ggml_gallocr_alloc_graph
    \/ AllocNode
    \/ ggml_gallocr_reserve
    \/ Exec
    \/ Computed
    \/ Finished

Spec == Init /\ [][Next]_vars

(***************************************************************************)
(* Properties.                                                             *)
(***************************************************************************)
\* Every variable keeps its type: no count of children or views goes below zero.
TypeOK ==
    /\ batch \in {1} \cup Batches /\ pc \in {"idle", "built", "alloc", "run"}
    /\ i \in 1 .. Len(g.nodes) + 1 /\ rounds \in 0 .. MaxRounds
    /\ chunks \in Seq([free : Seq([offset : Nat, size : Nat]), max_size : Nat])
    /\ Len(chunks) <= MaxChunks
    /\ hash \in [Tensors -> [n_children : Nat, n_views : Nat, allocated : BOOLEAN,
                             addr : [chunk : 0 .. MaxChunks, offset : Nat]]]
    /\ plan = <<>> \/ plan \in [Planned -> [addr : [chunk : 1 .. MaxChunks, offset : Nat],
                                            size_max : Nat]]
    /\ buffer \in Seq(Nat)
    /\ intact \subseteq Tensors

\* "output tensors are never freed and never overwritten", and no tensor is overwritten
\* before the last operation that reads it, itself or through a view, has done so: not
\* by memory freed too early, reused in place or by the plan of another batch size.
ReadsItsSources == misread = {}

\* The free blocks of a chunk and the tensors allocated in it, as intervals.
Pieces(c) ==
    {<<chunks[c].free[k].offset, End(chunks[c].free[k])>> : k \in DOMAIN chunks[c].free}
        \cup {<<hash[t].addr.offset, hash[t].addr.offset + aligned_offset(AllocSize(t))>> :
                  t \in {t \in Tensors : hash[t].allocated /\ hash[t].addr.chunk = c}}

\* While addresses are given, the free blocks of a chunk are in order and do not touch,
\* and with the tensors that are allocated they make up the chunk: nothing is lost, and
\* nothing is given away twice.
FreeBlocksSound ==
    pc = "alloc" =>
        \A c \in DOMAIN chunks :
            /\ \A k \in 1 .. Len(chunks[c].free) - 1 :
                   End(chunks[c].free[k]) < chunks[c].free[k + 1].offset
            /\ \A x \in Pieces(c) : x[1] = 0 \/ \E y \in Pieces(c) : y[2] = x[1]
            /\ \A x, y \in Pieces(c) : x = y \/ x[2] <= y[1] \/ y[2] <= x[1]

\* A graph that is computed lies within the buffer there is, also when the plan was made
\* for another batch.
FitsBuffer ==
    pc = "run" =>
        \A t \in Planned :
            /\ plan[t].addr.chunk \in DOMAIN buffer
            /\ plan[t].addr.offset + AllocSize(t) <= buffer[plan[t].addr.chunk]
=============================================================================
