------------------------- MODULE RunnerAnswerProofs -------------------------
(***************************************************************************)
(* The order of batches in Runner, the tokens they are computed on and the *)
(* answers that come of them, for any requests and any number of slots.    *)
(*                                                                         *)
(* They hold as long as forwardBatch drops no empty batch (NeverEmpty):    *)
(* the batch after an empty one waits for nobody.  Answers need a second   *)
(* condition, that no sequence is ended while a batch is built             *)
(* (NoneAtLimit), since its place may be taken before the batch ahead is   *)
(* decoded.  The second implies the first if a full context can always be  *)
(* shifted, which it can unless prompts start from copies of other slots'  *)
(* prefixes.  So a runner that makes no such copies, and whose requests    *)
(* have no limit and let their context be shifted, meets both.             *)
(***************************************************************************)
EXTENDS RunnerProofs

-----------------------------------------------------------------------------
(* The order of batches.                                                   *)

\* forwardBatch hands on a batch with an input in it.
NeverEmpty == fwd # None /\ fwd.left = 0 => fwd.inputs # <<>>

\* The batches in flight are the latest and, while that has not read its tokens, the one
\* it waits for.
Order ==
    \A v \in DOMAIN work :
       \/ v = prev
       \/ prev \in DOMAIN work /\ work[prev].pc = "wait" /\ v = work[prev].after

LEMMA OrderIs ==
    ASSUME Locks, Order
    PROVE  BatchesInOrder
BY DEF Locks, Order, BatchesInOrder

\* A batch that is not empty, as forwardBatch hands it on behind the batch `prev'.
NewBatch ==
    [pc |-> "wait", seqs |-> fwd.seqs, batchInputs |-> fwd.inputs,
     outputs |-> fwd.outputs, after |-> prev, tokens |-> <<>>,
     next |-> [i \in Slot |-> None], iBatches |-> [i \in Slot |-> -1], idx |-> 0]

LEMMA HandedOn ==
    ASSUME Inv, Order, ForwardEnd, fwd.inputs # <<>>
    PROVE  /\ fwd # None /\ fwd \in ForwardType /\ fwd' = None
           /\ \A v \in DOMAIN work : v = prev /\ work[v].pc = "compute"
           /\ prev' \in Nat \ {0} /\ prev' \notin DOMAIN work /\ prev' # prev
           /\ DOMAIN work' = DOMAIN work \cup {prev'}
           /\ work'[prev'] = NewBatch
           /\ \A v \in DOMAIN work : work'[v] = work[v]
<1>0. Typed /\ Locks
  BY DEF Inv
<1>1. /\ mu = Forward /\ fwd # None /\ fwd \in ForwardType /\ fwd' = None
  BY <1>0 DEF Locks, Typed, ForwardEnd
<1>2. /\ \A v \in DOMAIN work : work[v].pc = "compute"
      /\ ~(prev \in DOMAIN work /\ work[prev].pc = "wait")
  BY <1>0, <1>1 DEF Locks, ComputeStarted, Typed, Forward, IsBatch
<1> DEFINE id == Min((1 .. Cardinality(DOMAIN work) + 2) \ (DOMAIN work \cup {prev}))
<1>3. /\ work' = [w \in DOMAIN work \cup {id} |-> IF w = id THEN NewBatch ELSE work[w]]
      /\ prev' = id
  BY DEF ForwardEnd, NewBatch
<1>4. id \in Nat \ {0} /\ id \notin DOMAIN work \cup {prev}
  BY <1>0, NewId DEF Typed
<1> HIDE DEF id
<1>5. \A v \in DOMAIN work : v = prev
  BY <1>2 DEF Order
<1> QED BY <1>1, <1>2, <1>3, <1>4, <1>5

LEMMA ComputedIs ==
    ASSUME NEW w, IsBatch(w), NEW x, NEW y, NEW z, NEW u
    PROVE  Computed(w, x, y, z, u) =
              [pc |-> "compute", seqs |-> w.seqs, batchInputs |-> w.batchInputs,
               outputs |-> w.outputs, after |-> x, tokens |-> y, next |-> z, iBatches |-> u,
               idx |-> w.idx]
<1>1. ASSUME NEW a, NEW b, NEW c, NEW d, NEW e, NEW f, NEW g, NEW h, NEW i
      PROVE  Computed([pc |-> a, seqs |-> b, batchInputs |-> c, outputs |-> d, after |-> e,
                       tokens |-> f, next |-> g, iBatches |-> h, idx |-> i], x, y, z, u)
                = [pc |-> "compute", seqs |-> b, batchInputs |-> c, outputs |-> d, after |-> x,
                   tokens |-> y, next |-> z, iBatches |-> u, idx |-> i]
  <2> DEFINE r0 == [pc |-> a, seqs |-> b, batchInputs |-> c, outputs |-> d, after |-> e,
                    tokens |-> f, next |-> g, iBatches |-> h, idx |-> i]
             r1 == [r0 EXCEPT !.pc = "compute"]
             r2 == [r1 EXCEPT !.after = x]
             r3 == [r2 EXCEPT !.tokens = y]
             r4 == [r3 EXCEPT !.next = z]
             r5 == [r4 EXCEPT !.iBatches = u]
  <2>1. Computed(r0, x, y, z, u) = r5
    BY DEF Computed
  <2>2. r1 = [pc |-> "compute", seqs |-> b, batchInputs |-> c, outputs |-> d, after |-> e,
              tokens |-> f, next |-> g, iBatches |-> h, idx |-> i]
    OBVIOUS
  <2> HIDE DEF r1
  <2>3. r2 = [pc |-> "compute", seqs |-> b, batchInputs |-> c, outputs |-> d, after |-> x,
              tokens |-> f, next |-> g, iBatches |-> h, idx |-> i]
    BY <2>2
  <2> HIDE DEF r2
  <2>4. r3 = [pc |-> "compute", seqs |-> b, batchInputs |-> c, outputs |-> d, after |-> x,
              tokens |-> y, next |-> g, iBatches |-> h, idx |-> i]
    BY <2>3
  <2> HIDE DEF r3
  <2>5. r4 = [pc |-> "compute", seqs |-> b, batchInputs |-> c, outputs |-> d, after |-> x,
              tokens |-> y, next |-> z, iBatches |-> h, idx |-> i]
    BY <2>4
  <2> HIDE DEF r4
  <2>6. r5 = [pc |-> "compute", seqs |-> b, batchInputs |-> c, outputs |-> d, after |-> x,
              tokens |-> y, next |-> z, iBatches |-> u, idx |-> i]
    BY <2>5
  <2> QED BY <2>1, <2>6
<1>2. w = [pc |-> w.pc, seqs |-> w.seqs, batchInputs |-> w.batchInputs,
           outputs |-> w.outputs, after |-> w.after, tokens |-> w.tokens,
           next |-> w.next, iBatches |-> w.iBatches, idx |-> w.idx]
  BY DEF IsBatch
<1> DEFINE a == w.pc
           b == w.seqs
           c == w.batchInputs
           d == w.outputs
           e == w.after
           f == w.tokens
           g == w.next
           h == w.iBatches
           i == w.idx
<1>3. w = [pc |-> a, seqs |-> b, batchInputs |-> c, outputs |-> d, after |-> e,
           tokens |-> f, next |-> g, iBatches |-> h, idx |-> i]
  BY <1>2
<1> HIDE DEF a, b, c, d, e, f, g, h, i
<1>4. Computed(w, x, y, z, u) =
         [pc |-> "compute", seqs |-> b, batchInputs |-> c, outputs |-> d, after |-> x,
          tokens |-> y, next |-> z, iBatches |-> u, idx |-> i]
  BY <1>1, <1>3
<1> QED BY <1>4 DEF b, c, d, i

\* A batch that reads its tokens is the latest one.
ReadBatch(id) ==
    LET w == work[id]
        v == work'[id]
        sampled == {i \in SameSequences(id) : seq[seqs[i]].inputs = <<>>}
    IN  /\ v.pc = "compute" /\ v.tokens = Tokens(w.batchInputs) /\ v.outputs = w.outputs
        /\ v.idx = w.idx /\ v.batchInputs = w.batchInputs
        /\ v.next = [i \in Slot |-> IF i \in sampled
                        THEN <<seqs[i], Len(text[seqs[i]]) + 1>> ELSE None]
        /\ v.iBatches = [i \in Slot |-> IF i \in sampled THEN seq[seqs[i]].iBatch ELSE -1]

LEMMA ReadsBatch ==
    ASSUME Inv, NEW id \in DOMAIN work, GatherInputs(id)
    PROVE  /\ fwd = None /\ id = prev /\ work[id].pc = "wait" /\ work[id].after \notin DOMAIN work
           /\ DOMAIN work' = DOMAIN work /\ \A b \in DOMAIN work \ {id} : work'[b] = work[b]
           /\ ReadBatch(id)
<1>0. Typed /\ Locks
  BY DEF Inv
<1> DEFINE w == work[id]
           sampled == {i \in SameSequences(id) : seq[seqs[i]].inputs = <<>>}
           y == Tokens(w.batchInputs)
           z == [i \in Slot |-> IF i \in sampled THEN <<seqs[i], Len(text[seqs[i]]) + 1>> ELSE None]
           u == [i \in Slot |-> IF i \in sampled THEN seq[seqs[i]].iBatch ELSE -1]
           v == Computed(w, 0, y, z, u)
<1>1. /\ w.pc = "wait" /\ mu = None /\ w.after \notin DOMAIN work
      /\ work' = [work EXCEPT ![id].pc = "compute", ![id].after = 0, ![id].tokens = y,
                             ![id].next = z, ![id].iBatches = u]
  BY DEF GatherInputs, InputsReady
<1>2. fwd = None /\ id = prev /\ IsBatch(w)
  BY <1>0, <1>1, NoneAssumption DEF Locks, Typed, Forward
<1> HIDE DEF y, z, u
<1>3. work' = [work EXCEPT ![id] = v]
  BY <1>0, <1>1 DEF Typed, Computed
<1>4. v = [pc |-> "compute", seqs |-> w.seqs, batchInputs |-> w.batchInputs,
           outputs |-> w.outputs, after |-> 0, tokens |-> y, next |-> z, iBatches |-> u,
           idx |-> w.idx]
  BY <1>2, ComputedIs
<1>5. DOMAIN work' = DOMAIN work /\ work'[id] = v /\ \A b \in DOMAIN work \ {id} : work'[b] = work[b]
  BY <1>0, <1>3 DEF Typed
<1> HIDE DEF v
<1>6. ReadBatch(id)
  BY <1>4, <1>5 DEF ReadBatch, y, z, u
<1> QED BY <1>1, <1>2, <1>5, <1>6

\* A batch that is computed is decoded, slot by slot, and then forgotten.
LEMMA DecodeBatch ==
    ASSUME Inv, NEW id \in DOMAIN work, NEW w, IsBatch(w), work' = [work EXCEPT ![id] = w]
    PROVE  /\ DOMAIN work' = DOMAIN work /\ work'[id] = w
           /\ \A b \in DOMAIN work \ {id} : work'[b] = work[b]
BY WorkTyped DEF Inv

LEMMA BeginDecode ==
    ASSUME Inv, NEW id \in DOMAIN work, DecodeBegin(id)
    PROVE  /\ DOMAIN work' = DOMAIN work /\ \A b \in DOMAIN work \ {id} : work'[b] = work[b]
           /\ work[id].pc = "compute"
           /\ work'[id] = [work[id] EXCEPT !.pc = "decode"] /\ work'[id].pc = "decode"
<1>0. Typed /\ IsBatch(work[id])
  BY DEF Inv, Typed
<1> DEFINE w == [work[id] EXCEPT !.pc = "decode"]
<1>1. work[id].pc = "compute" /\ work' = [work EXCEPT ![id] = w]
  BY <1>0 DEF DecodeBegin, Typed
<1>2. IsBatch(w) /\ w.pc = "decode"
  <2>2. IsBatch([work[id] EXCEPT !.pc = "decode"]) /\ [work[id] EXCEPT !.pc = "decode"].pc = "decode"
    BY <1>0 DEF IsBatch
  <2> QED BY <2>2
<1> QED BY <1>1, <1>2, DecodeBatch

LEMMA SlotDecoded ==
    ASSUME Inv, NEW id \in DOMAIN work, DecodeSlot(id)
    PROVE  /\ DOMAIN work' = DOMAIN work /\ \A b \in DOMAIN work \ {id} : work'[b] = work[b]
           /\ fwd = None /\ work[id].pc = "decode" /\ work[id].idx \in Slot
           /\ work'[id] = [work[id] EXCEPT !.idx = work[id].idx + 1]
           /\ work'[id].pc = "decode" /\ work'[id].idx = work[id].idx + 1
<1>0. Typed /\ Locks /\ IsBatch(work[id])
  BY DEF Inv, Typed
<1> DEFINE n == work[id].idx + 1
           w == [work[id] EXCEPT !.idx = n]
<1>1. work[id].pc = "decode" /\ work[id].idx < Parallel /\ work' = [work EXCEPT ![id].idx = n]
  BY DEF DecodeSlot
<1>2. n \in 0 .. Parallel /\ work[id].idx \in Slot
  BY <1>0, <1>1, CacheAssumption DEF IsBatch, Slot
<1>3. fwd = None
  BY <1>0, <1>1, Decoding
<1>4. work' = [work EXCEPT ![id] = w]
  BY <1>0, <1>1 DEF Typed
<1> HIDE DEF n
<1>5. IsBatch(w) /\ w.pc = "decode" /\ w.idx = n
  <2>1. IsBatch(w) /\ w.pc = work[id].pc
    BY <1>0, <1>2, BatchMoves
  <2>2. w.idx = n
    BY <1>0 DEF IsBatch
  <2> QED BY <1>1, <2>1, <2>2
<1>6. work'[id] = w /\ DOMAIN work' = DOMAIN work /\ \A b \in DOMAIN work \ {id} : work'[b] = work[b]
  BY <1>4, <1>5, DecodeBatch
<1> QED BY <1>1, <1>2, <1>3, <1>5, <1>6 DEF n

LEMMA EndDecode ==
    ASSUME Inv, NEW id \in DOMAIN work, DecodeEnd(id)
    PROVE  /\ work[id].pc = "decode" /\ work[id].idx = Parallel
           /\ DOMAIN work' = DOMAIN work \ {id}
           /\ \A b \in DOMAIN work \ {id} : work'[b] = work[b]
BY DEF DecodeEnd

LEMMA OrderNext ==
    ASSUME Inv, Order, NeverEmpty, [Next]_vars
    PROVE  Order'
<1>1. CASE work' = work /\ prev' = prev
  BY <1>1 DEF Order
<1>2. ASSUME NEW r \in Req, Handle(r) \/ Disconnect(r) PROVE Order'
  <2>1. work' = work /\ prev' = prev
    BY <1>2 DEF Handle, Disconnect, NewSequence, Acquire, Insert, Receive, ReceiveEmbedding, runVars
  <2> QED BY <1>1, <2>1
<1>3. ASSUME ForwardBatch PROVE Order'
  <2>1. CASE ForwardBegin \/ ForwardSlot
    BY <1>1, <2>1 DEF ForwardBegin, ForwardSlot
  <2>2. CASE ForwardEnd
    <3>1. fwd.inputs # <<>>
      BY <2>2 DEF NeverEmpty, ForwardEnd, Inv, Locks
    <3> QED BY <2>2, <3>1, HandedOn DEF Order, NewBatch
  <2> QED BY <1>3, <2>1, <2>2 DEF ForwardBatch
<1>4. ASSUME NotifyStarted PROVE Order'
  BY <1>1, <1>4 DEF NotifyStarted
<1>5. ASSUME NEW id \in DOMAIN work, ComputeBatch(id) PROVE Order'
  <2>1. CASE GatherInputs(id)
    <3>1. prev' = prev
      BY <2>1 DEF GatherInputs, runVars
    <3>2. \A v \in DOMAIN work : v = prev
      BY <2>1, ReadsBatch DEF Order
    <3> QED BY <2>1, <3>1, <3>2, ReadsBatch DEF Order
  <2>2. CASE DecodeBegin(id) \/ DecodeSlot(id)
    <3>1. prev' = prev
      BY <2>2 DEF DecodeBegin, DecodeSlot, runVars
    <3>2. /\ DOMAIN work' = DOMAIN work /\ \A b \in DOMAIN work \ {id} : work'[b] = work[b]
          /\ work[id].pc # "wait"
      BY <2>2, BeginDecode, SlotDecoded
    <3> QED BY <3>1, <3>2 DEF Order
  <2>3. CASE DecodeEnd(id)
    <3>1. prev' = prev
      BY <2>3 DEF DecodeEnd, runVars
    <3> QED BY <2>3, <3>1, EndDecode DEF Order
  <2> QED BY <1>5, <2>1, <2>2, <2>3 DEF ComputeBatch
<1>6. CASE UNCHANGED vars
  BY <1>1, <1>6 DEF vars
<1> QED BY <1>2, <1>3, <1>4, <1>5, <1>6 DEF Next, Finished, vars

\* A batch reads its tokens only when the one before it has left, and one at a time is
\* computed and decoded, whatever the order in which the goroutines of computeBatch and
\* forwardBatch run, as long as forwardBatch drops no empty batch (runner.go, forwardBatch
\* and the channels inputsReadyCh and computeStartedCh).
THEOREM RunnerBatchesInOrder == Spec /\ []NeverEmpty => []BatchesInOrder
<1>1. Init => Order
  BY DEF Init, Order
<1>2. Inv /\ Order /\ NeverEmpty /\ [Next]_vars => Order'
  BY OrderNext
<1>3. Inv /\ Order => BatchesInOrder
  BY OrderIs DEF Inv
<1> QED BY <1>1, <1>2, <1>3, InvHolds, PTL DEF Spec

-----------------------------------------------------------------------------
(* Lists of lists.                                                         *)

\* The induction on numbers that the lemmas need: what fails somewhere fails first at
\* a place whose predecessors are fine.
LEMMA FirstFailure ==
    ASSUME NEW n \in Nat, NEW F, \E k \in 1 .. n : k \in F
    PROVE  \E k \in 1 .. n : k \in F /\ \A j \in 1 .. k - 1 : j \notin F
<1> DEFINE T == {k \in 1 .. n : k \in F}
<1>1. T \subseteq Nat /\ T # {}
  OBVIOUS
<1> HIDE DEF T
<1>2. PICK k \in T : \A j \in T : k <= j
  BY <1>1, Smallest
<1>3. k \in 1 .. n /\ k \in F
  BY <1>2 DEF T
<1>4. ASSUME NEW j \in 1 .. k - 1, j \in F PROVE FALSE
  <2>1. j \in T
    BY <1>3, <1>4 DEF T
  <2> QED BY <1>2, <1>3, <1>4, <2>1
<1> QED BY <1>3, <1>4

\* f[i] is what FlattenSeq makes of the first i lists of ss.
Flattens(f, ss) == f = [i \in 1 .. Len(ss) |-> IF i = 1 THEN ss[i] ELSE f[i - 1] \o ss[i]]

\* Two lists with the same first n elements.
SameTo(n, f, g) == \A i \in 1 .. n : f[i] = g[i]

LEMMA FlattensSame ==
    ASSUME NEW ss, NEW tt, NEW f, NEW g, Flattens(f, ss), Flattens(g, tt),
           Len(ss) \in Nat, Len(tt) \in Nat, NEW n \in Nat, n <= Len(ss), n <= Len(tt),
           SameTo(n, ss, tt)
    PROVE  SameTo(n, f, g)
<1> USE DEF SameTo
<1> DEFINE F == {i \in 1 .. n : f[i] # g[i]}
<1>1. ASSUME \E i \in 1 .. n : i \in F PROVE FALSE
  <2> HIDE DEF F
  <2>1. PICK i \in 1 .. n : i \in F /\ \A j \in 1 .. i - 1 : j \notin F
    BY <1>1, FirstFailure
  <2>2. /\ f[i] = IF i = 1 THEN ss[i] ELSE f[i - 1] \o ss[i]
        /\ g[i] = IF i = 1 THEN tt[i] ELSE g[i - 1] \o tt[i]
    <3>1. i \in 1 .. Len(ss) /\ i \in 1 .. Len(tt)
      BY <2>1
    <3>2. f[i] = IF i = 1 THEN ss[i] ELSE f[i - 1] \o ss[i]
      BY <3>1, Zenon DEF Flattens
    <3>3. g[i] = IF i = 1 THEN tt[i] ELSE g[i - 1] \o tt[i]
      BY <3>1, Zenon DEF Flattens
    <3> QED BY <3>2, <3>3
  <2>3. i # 1 => f[i - 1] = g[i - 1]
    <3>1. i # 1 => i - 1 \in 1 .. i - 1 /\ i - 1 \in 1 .. n
      BY <2>1
    <3> QED BY <2>1, <3>1 DEF F
  <2>4. f[i] = g[i]
    BY <2>2, <2>3
  <2> QED BY <2>1, <2>4 DEF F
<1> QED BY <1>1

LEMMA FlattensExists ==
    ASSUME NEW S, NEW ss \in Seq(Seq(S))
    PROVE  \E f \in [1 .. Len(ss) -> Seq(S)] : Flattens(f, ss)
<1> DEFINE N == Len(ss)
           Upto(n, f) == f = [i \in 1 .. n |-> IF i = 1 THEN ss[i] ELSE f[i - 1] \o ss[i]]
           F == {n \in 1 .. N : ~ \E f \in [1 .. n -> Seq(S)] : Upto(n, f)}
<1>1. N \in Nat /\ \A i \in 1 .. N : ss[i] \in Seq(S)
  OBVIOUS
<1>2. ASSUME NEW n \in 1 .. N, n \in F, \A j \in 1 .. n - 1 : j \notin F PROVE FALSE
  <2>1. \E g \in [1 .. n - 1 -> Seq(S)] : Upto(n - 1, g)
    <3>1. CASE n = 1
      <4> DEFINE g == [i \in 1 .. 0 |-> ss[i]]
      <4>1. g \in [1 .. 0 -> Seq(S)] /\ Upto(0, g)
        OBVIOUS
      <4>2. n - 1 = 0
        BY <3>1
      <4> HIDE DEF g
      <4> QED BY <4>1, <4>2
    <3>2. CASE n # 1
      <4>1. n - 1 \in 1 .. n - 1 /\ n - 1 \in 1 .. N
        BY <1>1, <3>2
      <4> QED BY <1>2, <4>1
    <3> QED BY <3>1, <3>2
  <2>2. PICK g \in [1 .. n - 1 -> Seq(S)] : Upto(n - 1, g)
    BY <2>1
  <2> DEFINE x == IF n = 1 THEN ss[n] ELSE g[n - 1] \o ss[n]
             f == [i \in 1 .. n |-> IF i = n THEN x ELSE g[i]]
  <2>3. x \in Seq(S)
    <3>1. n # 1 => g[n - 1] \in Seq(S)
      BY <1>1
    <3> QED BY <1>1, <3>1
  <2>4. \A i \in 1 .. n - 1 : g[i] = IF i = 1 THEN ss[i] ELSE g[i - 1] \o ss[i]
    BY <2>2
  <2>5. ASSUME NEW i \in 1 .. n PROVE f[i] = IF i = 1 THEN ss[i] ELSE f[i - 1] \o ss[i]
    <3>1. CASE i = n
      <4>1. f[i] = x /\ (i # 1 => f[i - 1] = g[i - 1])
        BY <1>1, <3>1
      <4> QED BY <3>1, <4>1
    <3>2. CASE i # n
      <4>1. i \in 1 .. n - 1 /\ (i # 1 => i - 1 \in 1 .. n - 1)
        BY <1>1, <3>2
      <4>2. f[i] = g[i]
        BY <3>2
      <4>3. ASSUME i # 1 PROVE f[i - 1] = g[i - 1]
        <5>1. i - 1 \in 1 .. n /\ i - 1 # n
          BY <4>1, <4>3
        <5> HIDE DEF x
        <5> QED BY <5>1
      <4> HIDE DEF f
      <4> QED BY <2>4, <4>1, <4>2, <4>3
    <3> QED BY <3>1, <3>2
  <2>6. f \in [1 .. n -> Seq(S)]
    <3> HIDE DEF x
    <3>1. \A i \in 1 .. n : i # n => i \in 1 .. n - 1
      BY <1>1
    <3> QED BY <2>3, <3>1
  <2>7. Upto(n, f)
    <3>1. f = [i \in 1 .. n |-> f[i]]
      OBVIOUS
    <3> HIDE DEF f
    <3> QED BY <2>5, <3>1
  <2> QED BY <1>2, <2>6, <2>7
<1>3. ~ \E n \in 1 .. N : n \in F
  <2> HIDE DEF F, N
  <2>1. ASSUME \E n \in 1 .. N : n \in F PROVE FALSE
    <3>1. PICK n \in 1 .. N : n \in F /\ \A j \in 1 .. n - 1 : j \notin F
      BY <1>1, <2>1, FirstFailure
    <3> QED BY <1>2, <3>1
  <2> QED BY <2>1
<1>4. CASE N = 0
  <2> DEFINE g == [i \in 1 .. 0 |-> ss[i]]
  <2>1. g \in [1 .. 0 -> Seq(S)] /\ Upto(0, g)
    OBVIOUS
  <2> QED BY <1>4, <2>1 DEF Flattens
<1>5. CASE N # 0
  <2>1. N \in 1 .. N
    BY <1>1, <1>5
  <2> QED BY <1>3, <2>1 DEF Flattens
<1> QED BY <1>4, <1>5

LEMMA FlattenIs ==
    ASSUME NEW S, NEW ss \in Seq(Seq(S)), ss # <<>>
    PROVE  \E f \in [1 .. Len(ss) -> Seq(S)] : Flattens(f, ss) /\ FlattenSeq(ss) = f[Len(ss)]
<1> DEFINE g == CHOOSE f : f = [i \in 1 .. Len(ss) |-> IF i = 1 THEN ss[i] ELSE f[i - 1] \o ss[i]]
<1>1. Len(ss) \in Nat /\ Len(ss) # 0
  OBVIOUS
<1>2. FlattenSeq(ss) = g[Len(ss)]
  BY <1>1 DEF FlattenSeq
<1>3. PICK f \in [1 .. Len(ss) -> Seq(S)] : Flattens(f, ss)
  BY FlattensExists
<1>4. Flattens(g, ss)
  BY <1>3 DEF Flattens
<1> HIDE DEF g
<1>5. g[Len(ss)] = f[Len(ss)]
  <2>1. SameTo(Len(ss), ss, ss)
    BY DEF SameTo
  <2>2. SameTo(Len(ss), g, f)
    BY <1>1, <1>3, <1>4, <2>1, FlattensSame
  <2> QED BY <1>1, <2>2 DEF SameTo
<1> QED BY <1>2, <1>3, <1>5

\* One more list, and one list less.
LEMMA FlattenAppend ==
    ASSUME NEW S, NEW ss \in Seq(Seq(S)), NEW x \in Seq(S)
    PROVE  /\ FlattenSeq(ss) \in Seq(S)
           /\ Append(ss, x) \in Seq(Seq(S))
           /\ FlattenSeq(Append(ss, x)) = FlattenSeq(ss) \o x
<1> DEFINE tt == Append(ss, x)
           n == Len(ss)
<1>1. /\ n \in Nat /\ tt \in Seq(Seq(S)) /\ Len(tt) = n + 1 /\ tt[n + 1] = x
      /\ \A i \in 1 .. n : tt[i] = ss[i]
  OBVIOUS
<1> HIDE DEF tt
<1>2. tt # <<>>
  BY <1>1
<1>3. PICK g \in [1 .. n + 1 -> Seq(S)] : Flattens(g, tt) /\ FlattenSeq(tt) = g[n + 1]
  BY <1>1, <1>2, FlattenIs
<1>4. g[n + 1] = IF n + 1 = 1 THEN tt[n + 1] ELSE g[n + 1 - 1] \o tt[n + 1]
  <2>1. \A i \in 1 .. Len(tt) : g[i] = IF i = 1 THEN tt[i] ELSE g[i - 1] \o tt[i]
    BY <1>3, Zenon DEF Flattens
  <2>2. n + 1 \in 1 .. Len(tt)
    BY <1>1
  <2> QED BY <2>1, <2>2
<1>5. CASE ss = <<>>
  <2>1. FlattenSeq(ss) = <<>> /\ n = 0
    BY <1>5 DEF FlattenSeq
  <2>2. FlattenSeq(tt) = x
    BY <1>1, <1>3, <1>4, <2>1
  <2> QED BY <1>1, <2>1, <2>2 DEF tt
<1>6. CASE ss # <<>>
  <2>1. PICK f \in [1 .. n -> Seq(S)] : Flattens(f, ss) /\ FlattenSeq(ss) = f[n]
    BY <1>6, FlattenIs
  <2>2. n \in 1 .. n /\ n # 0 /\ n + 1 # 1 /\ n + 1 - 1 = n
    BY <1>1, <1>6
  <2>3. \A i \in 1 .. n : f[i] = g[i]
    <3>1. /\ n \in Nat /\ Len(ss) \in Nat /\ Len(tt) \in Nat /\ n <= Len(ss) /\ n <= Len(tt)
          /\ SameTo(n, ss, tt)
      BY <1>1 DEF SameTo
    <3>2. Flattens(f, ss) /\ Flattens(g, tt)
      BY <1>3, <2>1
    <3> HIDE DEF n
    <3>3. SameTo(n, f, g)
      BY <3>1, <3>2, FlattensSame
    <3> QED BY <3>3 DEF SameTo
  <2>4. g[n + 1] = f[n] \o x
    BY <1>1, <1>4, <2>2, <2>3
  <2> QED BY <1>1, <1>3, <2>1, <2>2, <2>4 DEF tt
<1> QED BY <1>5, <1>6

LEMMA FlattenTail ==
    ASSUME NEW S, NEW ss \in Seq(Seq(S)), ss # <<>>
    PROVE  /\ Head(ss) \in Seq(S) /\ Tail(ss) \in Seq(Seq(S))
           /\ FlattenSeq(Tail(ss)) \in Seq(S)
           /\ FlattenSeq(ss) = Head(ss) \o FlattenSeq(Tail(ss))
<1> DEFINE tt == Tail(ss)
           x == Head(ss)
           n == Len(tt)
<1>1. /\ n \in Nat /\ tt \in Seq(Seq(S)) /\ Len(ss) = n + 1 /\ x = ss[1] /\ x \in Seq(S)
      /\ \A i \in 1 .. n : tt[i] = ss[i + 1]
  OBVIOUS
<1>2. FlattenSeq(tt) \in Seq(S)
  BY <1>1, FlattenAppend
<1> HIDE DEF tt, x
<1>7. ASSUME NEW u \in Seq(S), NEW v \in Seq(S) PROVE (x \o u) \o v = x \o (u \o v)
  <2>1. x \in Seq(S)
    BY <1>1
  <2> QED BY <2>1, ConcatAssociative, SMTT(20)
<1>3. PICK f \in [1 .. n + 1 -> Seq(S)] : Flattens(f, ss) /\ FlattenSeq(ss) = f[n + 1]
  BY <1>1, FlattenIs
<1>4. \A i \in 1 .. n + 1 : f[i] = IF i = 1 THEN ss[i] ELSE f[i - 1] \o ss[i]
  <2> HIDE DEF n
  <2>1. \A i \in 1 .. Len(ss) : f[i] = IF i = 1 THEN ss[i] ELSE f[i - 1] \o ss[i]
    BY <1>3, Zenon DEF Flattens
  <2> QED BY <1>1, <2>1
<1>5. CASE tt = <<>>
  <2>1. FlattenSeq(tt) = <<>> /\ n = 0
    BY <1>5 DEF FlattenSeq
  <2>2. FlattenSeq(ss) = x
    BY <1>1, <1>3, <1>4, <2>1
  <2>3. x \o <<>> = x
    BY <1>1
  <2> QED BY <1>1, <1>2, <2>1, <2>2, <2>3 DEF tt, x
<1>6. CASE tt # <<>>
  <2>1. PICK g \in [1 .. n -> Seq(S)] : Flattens(g, tt) /\ FlattenSeq(tt) = g[n]
    BY <1>1, <1>6, FlattenIs
  <2>2. \A i \in 1 .. n : g[i] = IF i = 1 THEN tt[i] ELSE g[i - 1] \o tt[i]
    BY <2>1, Zenon DEF Flattens
  <2>3. n \in 1 .. n
    BY <1>1, <1>6
  <2> DEFINE F == {i \in 1 .. n : f[i + 1] # x \o g[i]}
  <2>4. ASSUME NEW i \in 1 .. n, i \in F, \A j \in 1 .. i - 1 : j \notin F PROVE FALSE
    <3>1. i + 1 \in 1 .. n + 1 /\ i + 1 # 1 /\ i + 1 - 1 = i /\ i \in 1 .. n + 1
      BY <1>1
    <3>2. f[i + 1] = f[i] \o tt[i]
      <4> DEFINE j == i + 1
      <4>1. j \in 1 .. n + 1 /\ j # 1 /\ j - 1 = i
        BY <3>1
      <4>2. ss[j] = tt[i]
        BY <1>1
      <4> HIDE DEF j, n
      <4>3. f[j] = f[i] \o tt[i]
        BY <1>4, <4>1, <4>2
      <4> QED BY <4>3 DEF j
    <3>3. CASE i = 1
      <4>1. f[i] = x /\ g[i] = tt[i]
        BY <1>1, <1>4, <2>2, <3>1, <3>3
      <4> QED BY <2>4, <3>2, <4>1
    <3>4. CASE i # 1
      <4> DEFINE j == i - 1
      <4>1. j \in 1 .. i - 1 /\ j \in 1 .. n /\ j + 1 = i
        BY <1>1, <3>4
      <4>2. f[i] = x \o g[j]
        BY <2>4, <4>1
      <4>3. g[i] = g[j] \o tt[i]
        BY <2>2, <3>4
      <4> HIDE DEF j
      <4>4. g[j] \in Seq(S) /\ tt[i] \in Seq(S)
        <5>1. g[j] \in Seq(S)
          BY <4>1
        <5> QED BY <1>1, <5>1
      <4> DEFINE u == g[j]
                 v == tt[i]
      <4>5. (x \o u) \o v = x \o (u \o v)
        <5>1. x \in Seq(S) /\ u \in Seq(S) /\ v \in Seq(S)
          BY <1>1, <4>4
        <5> HIDE DEF u, v
        <5> QED BY <1>7, <5>1
      <4> QED BY <2>4, <3>2, <4>2, <4>3, <4>5
    <3> QED BY <3>3, <3>4
  <2>5. ~ \E i \in 1 .. n : i \in F
    <3> HIDE DEF F
    <3>1. ASSUME \E i \in 1 .. n : i \in F PROVE FALSE
      <4>1. PICK i \in 1 .. n : i \in F /\ \A j \in 1 .. i - 1 : j \notin F
        BY <1>1, <3>1, FirstFailure
      <4> QED BY <2>4, <4>1
    <3> QED BY <3>1
  <2>6. f[n + 1] = x \o g[n]
    BY <2>3, <2>5
  <2> QED BY <1>1, <1>2, <1>3, <2>1, <2>6 DEF tt, x
<1> QED BY <1>5, <1>6

-----------------------------------------------------------------------------
(* Lists and what is in them.                                              *)

\* A list that another one begins with.
Begins(a, b) == Len(a) <= Len(b) /\ \A k \in 1 .. Len(a) : a[k] = b[k]

\* Whatever part of a list is taken, it holds nothing else.
LEMMA SubSeqToSet ==
    ASSUME NEW S, NEW x \in Seq(S), NEW m \in Nat \ {0}, NEW n \in Int, n <= Len(x)
    PROVE  SubSeq(x, m, n) \in Seq(S) /\ ToSet(SubSeq(x, m, n)) \subseteq ToSet(x)
<1> DEFINE y == SubSeq(x, m, n)
<1>1. Len(x) \in Nat /\ DOMAIN x = 1 .. Len(x) /\ \A i \in m .. n : x[i] \in S
  OBVIOUS
<1>2. /\ y \in Seq(S) /\ Len(y) = IF m <= n THEN n - m + 1 ELSE 0
      /\ \A i \in 1 .. n - m + 1 : y[i] = x[m + i - 1]
  BY <1>1, SubSeqProperties
<1> HIDE DEF y
<1>3. DOMAIN y = 1 .. Len(y)
  BY <1>2
<1>4. ASSUME NEW i \in DOMAIN y PROVE y[i] \in ToSet(x)
  <2>1. i \in 1 .. n - m + 1 /\ m + i - 1 \in 1 .. Len(x)
    BY <1>1, <1>2, <1>3
  <2> DEFINE j == m + i - 1
  <2>2. y[i] = x[j] /\ j \in DOMAIN x
    BY <1>1, <1>2, <2>1
  <2> HIDE DEF j
  <2> QED BY <2>2 DEF ToSet
<1> QED BY <1>2, <1>4 DEF ToSet, y

LEMMA ToSetTyped ==
    ASSUME NEW S, NEW x \in Seq(S)
    PROVE  ToSet(x) \subseteq S /\ ToSet(x) = {x[k] : k \in 1 .. Len(x)}
BY DEF ToSet

\* An element is put behind what is behind a list.
LEMMA ConcatAppend ==
    ASSUME NEW S, NEW a \in Seq(S), NEW b \in Seq(S), NEW e \in S
    PROVE  a \o Append(b, e) = Append(a \o b, e)
<1>1. <<e>> \in Seq(S) /\ a \o b \in Seq(S)
  OBVIOUS
<1>2. Append(b, e) = b \o <<e>> /\ Append(a \o b, e) = (a \o b) \o <<e>>
  <2>1. Append(b, e) = b \o <<e>>
    BY AppendIsConcat, SMTT(20)
  <2> DEFINE c == a \o b
  <2>2. c \in Seq(S)
    BY <1>1
  <2> HIDE DEF c
  <2>3. Append(c, e) = c \o <<e>>
    BY <2>2, AppendIsConcat, SMTT(20)
  <2> QED BY <2>1, <2>3 DEF c
<1>3. (a \o b) \o <<e>> = a \o (b \o <<e>>)
  BY <1>1, ConcatAssociative, SMTT(20)
<1> QED BY <1>2, <1>3

LEMMA ConcatBegins ==
    ASSUME NEW S, NEW a \in Seq(S), NEW b \in Seq(S), NEW c \in Seq(S), Begins(b, c)
    PROVE  Begins(a \o b, a \o c) /\ Begins(a, a \o c)
<1> DEFINE x == a \o b
           y == a \o c
<1>1. /\ Len(a) \in Nat /\ Len(b) \in Nat /\ Len(c) \in Nat
      /\ Len(x) = Len(a) + Len(b) /\ Len(y) = Len(a) + Len(c)
      /\ \A i \in 1 .. Len(a) + Len(b) : x[i] = IF i <= Len(a) THEN a[i] ELSE b[i - Len(a)]
      /\ \A i \in 1 .. Len(a) + Len(c) : y[i] = IF i <= Len(a) THEN a[i] ELSE c[i - Len(a)]
  BY ConcatProperties
<1> HIDE DEF x, y
<1>2. Len(b) <= Len(c) /\ \A k \in 1 .. Len(b) : b[k] = c[k]
  BY DEF Begins
<1>3. ASSUME NEW k \in 1 .. Len(x) PROVE x[k] = y[k]
  <2>1. k <= Len(a) \/ k - Len(a) \in 1 .. Len(b)
    BY <1>1
  <2>2. k \in 1 .. Len(a) + Len(c) /\ k \in 1 .. Len(a) + Len(b)
    BY <1>1, <1>2
  <2> QED BY <1>1, <1>2, <2>1, <2>2
<1>4. \A k \in 1 .. Len(a) : a[k] = y[k]
  BY <1>1
<1> QED BY <1>1, <1>2, <1>3, <1>4 DEF Begins, x, y

-----------------------------------------------------------------------------
(* The output of a sequence, and what decoding a slot does to it.          *)

Out(s) == s.delivered \o FlattenSeq(s.responses) \o s.pendingResponses

OutTyped(s) ==
    /\ s.delivered \in Seq(Ptr) /\ s.pendingResponses \in Seq(Ptr)
    /\ s.responses \in Seq(Seq(Ptr)) /\ s.numPromptInputs \in Nat

\* The output of a sequence with one more piece, and with what may be left when output is
\* dropped.
Prolongs(t, s, e) ==
    OutTyped(s) /\ e \in Ptr =>
       OutTyped(t) /\ t.numPromptInputs = s.numPromptInputs /\ Out(t) = Append(Out(s), e)

Shortens(t, s) ==
    OutTyped(s) => OutTyped(t) /\ t.numPromptInputs = s.numPromptInputs /\ Begins(Out(t), Out(s))

LEMMA SameOutIs ==
    ASSUME NEW s, NEW t, SameOut(t, s)
    PROVE  Out(t) = Out(s) /\ (OutTyped(s) => OutTyped(t))
BY DEF SameOut, Out, OutTyped

LEMMA OutIs ==
    ASSUME NEW s, OutTyped(s)
    PROVE  /\ FlattenSeq(s.responses) \in Seq(Ptr)
           /\ s.delivered \o FlattenSeq(s.responses) \in Seq(Ptr)
           /\ Out(s) \in Seq(Ptr)
<1> DEFINE a == s.delivered
           F == FlattenSeq(s.responses)
           p == s.pendingResponses
<1>1. a \in Seq(Ptr) /\ p \in Seq(Ptr) /\ F \in Seq(Ptr)
  BY FlattenAppend DEF OutTyped
<1> HIDE DEF a, F, p
<1>2. a \o F \in Seq(Ptr) /\ (a \o F) \o p \in Seq(Ptr)
  BY <1>1
<1> QED BY <1>1, <1>2 DEF Out, a, F, p

LEMMA ShortensSame ==
    ASSUME NEW s, NEW t, SameOut(t, s)
    PROVE  Shortens(t, s)
<1> SUFFICES ASSUME OutTyped(s) PROVE Shortens(t, s)
  BY DEF Shortens
<1>1. OutTyped(t) /\ Out(t) = Out(s) /\ t.numPromptInputs = s.numPromptInputs
  BY SameOutIs DEF SameOut
<1>2. Out(s) \in Seq(Ptr)
  BY OutIs
<1>3. Begins(Out(s), Out(s))
  BY <1>2 DEF Begins
<1> QED BY <1>1, <1>3 DEF Shortens

LEMMA ShortensTwice ==
    ASSUME NEW s, NEW t, NEW u, Shortens(t, s), Shortens(u, t)
    PROVE  Shortens(u, s)
<1> SUFFICES ASSUME OutTyped(s) PROVE Shortens(u, s)
  BY DEF Shortens
<1>1. OutTyped(t) /\ OutTyped(u) /\ Begins(Out(u), Out(t)) /\ Begins(Out(t), Out(s))
      /\ u.numPromptInputs = s.numPromptInputs
  BY DEF Shortens
<1>2. Out(s) \in Seq(Ptr) /\ Out(t) \in Seq(Ptr) /\ Out(u) \in Seq(Ptr)
  BY <1>1, OutIs
<1> DEFINE x == Out(s)
           y == Out(t)
           z == Out(u)
<1>3. Begins(z, x)
  <2>1. /\ Len(x) \in Nat /\ Len(y) \in Nat /\ Len(z) \in Nat
        /\ Begins(z, y) /\ Begins(y, x)
    BY <1>1, <1>2
  <2> HIDE DEF x, y, z
  <2> QED BY <2>1 DEF Begins
<1> QED BY <1>1, <1>3 DEF Shortens

\* The fields output goes through, and the others.
LEMMA OutputWritten ==
    ASSUME NEW s, IsSequence(s), NEW x
    PROVE  /\ LET t == [s EXCEPT !.pendingResponses = x] IN
              /\ t.pendingResponses = x /\ t.delivered = s.delivered
              /\ t.responses = s.responses /\ t.numPromptInputs = s.numPromptInputs
           /\ LET t == [s EXCEPT !.responses = x] IN
              /\ t.responses = x /\ t.delivered = s.delivered
              /\ t.pendingResponses = s.pendingResponses /\ t.numPromptInputs = s.numPromptInputs
           /\ SameOut([s EXCEPT !.doneReason = x], s) /\ SameOut([s EXCEPT !.closed = x], s)
           /\ SameOut([s EXCEPT !.embedding = x], s) /\ SameOut([s EXCEPT !.quit = x], s)
<1>1. LET t == [s EXCEPT !.pendingResponses = x] IN
      /\ t.pendingResponses = x /\ t.delivered = s.delivered
      /\ t.responses = s.responses /\ t.numPromptInputs = s.numPromptInputs
  BY DEF IsSequence
<1>2. LET t == [s EXCEPT !.responses = x] IN
      /\ t.responses = x /\ t.delivered = s.delivered
      /\ t.pendingResponses = s.pendingResponses /\ t.numPromptInputs = s.numPromptInputs
  BY DEF IsSequence
<1>3. SameOut([s EXCEPT !.doneReason = x], s) /\ SameOut([s EXCEPT !.closed = x], s)
  BY DEF IsSequence, SameOut
<1>4. SameOut([s EXCEPT !.embedding = x], s) /\ SameOut([s EXCEPT !.quit = x], s)
  BY DEF IsSequence, SameOut
<1> QED BY <1>1, <1>2, <1>3, <1>4

\* A piece is held back.
LEMMA PieceOut ==
    ASSUME NEW s, IsSequence(s), NEW e
    PROVE  LET t == [s EXCEPT !.pendingResponses = Append(s.pendingResponses, e)]
           IN  Alike(t, s) /\ Prolongs(t, s, e)
<1> DEFINE p == Append(s.pendingResponses, e)
           t == [s EXCEPT !.pendingResponses = p]
<1>1. Alike(t, s)
  <2> HIDE DEF p
  <2> QED BY OutputFields
<1>2. /\ t.pendingResponses = p /\ t.delivered = s.delivered
      /\ t.responses = s.responses /\ t.numPromptInputs = s.numPromptInputs
  <2> HIDE DEF p
  <2> QED BY OutputWritten
<1> HIDE DEF t
<1>3. ASSUME OutTyped(s), e \in Ptr
      PROVE  OutTyped(t) /\ Out(t) = Append(Out(s), e)
  <2>1. p \in Seq(Ptr)
    BY <1>3 DEF OutTyped
  <2> DEFINE a == s.delivered \o FlattenSeq(s.responses)
  <2>2. a \in Seq(Ptr)
    BY <1>3, OutIs
  <2>3. s.pendingResponses \in Seq(Ptr)
    BY <1>3 DEF OutTyped
  <2>4. Out(t) = a \o p /\ Out(s) = a \o s.pendingResponses
    BY <1>2 DEF Out
  <2> HIDE DEF a
  <2>5. a \o p = Append(a \o s.pendingResponses, e)
    BY <1>3, <2>2, <2>3, ConcatAppend DEF p
  <2>6. OutTyped(t)
    BY <1>2, <1>3, <2>1 DEF OutTyped
  <2> QED BY <2>4, <2>5, <2>6
<1>4. Prolongs(t, s, e)
  BY <1>2, <1>3 DEF Prolongs
<1> QED BY <1>1, <1>4 DEF t, p

\* Pieces are taken off the end of what is held back.
LEMMA CutOut ==
    ASSUME NEW s, IsSequence(s), NEW k \in 0 .. Len(s.pendingResponses)
    PROVE  LET x == SubSeq(s.pendingResponses, 1, Len(s.pendingResponses) - k)
               t == [s EXCEPT !.pendingResponses = x]
           IN  Alike(t, s) /\ Shortens(t, s)
<1> DEFINE p == s.pendingResponses
           x == SubSeq(p, 1, Len(p) - k)
           t == [s EXCEPT !.pendingResponses = x]
<1>1. Alike(t, s)
  <2> HIDE DEF x
  <2> QED BY OutputFields
<1>2. /\ t.pendingResponses = x /\ t.delivered = s.delivered
      /\ t.responses = s.responses /\ t.numPromptInputs = s.numPromptInputs
  <2> HIDE DEF x
  <2> QED BY OutputWritten
<1> HIDE DEF t
<1>3. ASSUME OutTyped(s)
      PROVE  OutTyped(t) /\ Begins(Out(t), Out(s))
  <2> DEFINE a == s.delivered \o FlattenSeq(s.responses)
  <2>1. a \in Seq(Ptr) /\ p \in Seq(Ptr)
    BY <1>3, OutIs DEF OutTyped
  <2>2. x \in Seq(Ptr) /\ Begins(x, p)
    <3>1. p \in Seq(Ptr) /\ Len(p) \in Nat /\ k \in Nat /\ k <= Len(p)
      BY <2>1
    <3> HIDE DEF p
    <3>2. \A i \in 1 .. Len(p) - k : p[i] \in Ptr
      BY <3>1
    <3>3. /\ x \in Seq(Ptr) /\ Len(x) = (IF 1 <= Len(p) - k THEN Len(p) - k - 1 + 1 ELSE 0)
          /\ \A i \in 1 .. Len(p) - k - 1 + 1 : x[i] = p[1 + i - 1]
      BY <3>1, <3>2, SubSeqProperties
    <3> HIDE DEF x
    <3>4. Len(x) = Len(p) - k
      BY <3>1, <3>3
    <3>5. ASSUME NEW i \in 1 .. Len(x) PROVE x[i] = p[i]
      <4>1. i \in 1 .. Len(p) - k - 1 + 1 /\ 1 + i - 1 = i
        BY <3>1, <3>4
      <4> QED BY <3>3, <4>1
    <3> QED BY <3>1, <3>3, <3>4, <3>5 DEF Begins
  <2>3. Out(t) = a \o x /\ Out(s) = a \o p
    BY <1>2 DEF Out
  <2> HIDE DEF a, x, p
  <2>4. Begins(a \o x, a \o p)
    BY <2>1, <2>2, ConcatBegins
  <2>5. OutTyped(t)
    BY <1>2, <1>3, <2>2 DEF OutTyped
  <2> QED BY <2>3, <2>4, <2>5
<1>4. Shortens(t, s)
  BY <1>2, <1>3 DEF Shortens
<1> QED BY <1>1, <1>4 DEF t, x, p

\* Output is sent, in one piece, or dropped.
LEMMA FlushOut ==
    ASSUME NEW s, IsSequence(s), NEW f \in flushPending(s)
    PROVE  /\ Shortens(f.seq, s)
           /\ f.ok /\ OutTyped(s) => OutTyped(f.seq) /\ Out(f.seq) = Out(s)
                                     /\ f.seq.numPromptInputs = s.numPromptInputs
<1>1. CASE s.pendingResponses = <<>>
  <2>1. f = [seq |-> s, ok |-> TRUE]
    BY <1>1 DEF flushPending
  <2>2. f.seq = s /\ SameOut(s, s)
    BY <2>1 DEF SameOut
  <2> QED BY <2>2, ShortensSame
<1>2. CASE s.pendingResponses # <<>>
  <2> DEFINE e == <<>>
             p == s.pendingResponses
             cleared == [s EXCEPT !.pendingResponses = e]
             x == Append(cleared.responses, p)
             sent == [cleared EXCEPT !.responses = x]
             a == s.delivered
             F == FlattenSeq(s.responses)
  <2>1. f = [seq |-> sent, ok |-> TRUE] \/ f = [seq |-> cleared, ok |-> FALSE]
    BY <1>2 DEF flushPending
  <2>2. /\ IsSequence(cleared)
        /\ cleared.pendingResponses = e /\ cleared.delivered = a
        /\ cleared.responses = s.responses /\ cleared.numPromptInputs = s.numPromptInputs
    <3>1. IsSequence([s EXCEPT !.pendingResponses = <<>>])
      BY OutputFields DEF Alike
    <3> HIDE DEF e
    <3>2. LET t == [s EXCEPT !.pendingResponses = e] IN
          /\ t.pendingResponses = e /\ t.delivered = s.delivered
          /\ t.responses = s.responses /\ t.numPromptInputs = s.numPromptInputs
      BY OutputWritten
    <3> QED BY <3>1, <3>2 DEF e
  <2> HIDE DEF cleared
  <2>3. /\ sent.pendingResponses = e /\ sent.delivered = a /\ sent.responses = Append(s.responses, p)
        /\ sent.numPromptInputs = s.numPromptInputs
    <3>1. x = Append(s.responses, p)
      BY <2>2
    <3> HIDE DEF x
    <3>2. LET t == [cleared EXCEPT !.responses = x] IN
          /\ t.responses = x /\ t.delivered = cleared.delivered
          /\ t.pendingResponses = cleared.pendingResponses
          /\ t.numPromptInputs = cleared.numPromptInputs
      BY <2>2, OutputWritten
    <3> QED BY <2>2, <3>1, <3>2
  <2> HIDE DEF sent
  <2>4. ASSUME OutTyped(s)
        PROVE  /\ OutTyped(cleared) /\ Begins(Out(cleared), Out(s))
               /\ OutTyped(sent) /\ Out(sent) = Out(s)
    <3>1. /\ a \in Seq(Ptr) /\ p \in Seq(Ptr) /\ F \in Seq(Ptr) /\ e \in Seq(Ptr)
          /\ s.responses \in Seq(Seq(Ptr))
      BY <2>4, OutIs DEF OutTyped
    <3>2. Append(s.responses, p) \in Seq(Seq(Ptr)) /\ FlattenSeq(Append(s.responses, p)) = F \o p
      BY <3>1, FlattenAppend
    <3>3. OutTyped(cleared) /\ OutTyped(sent)
      BY <2>2, <2>3, <2>4, <3>1, <3>2 DEF OutTyped
    <3>4. Out(cleared) = (a \o F) \o e /\ Out(sent) = (a \o (F \o p)) \o e /\ Out(s) = (a \o F) \o p
      BY <2>2, <2>3, <3>2 DEF Out
    <3>5. a \o F \in Seq(Ptr) /\ F \o p \in Seq(Ptr)
      <4> HIDE DEF a, F, p
      <4> QED BY <3>1
    <3>6. (a \o F) \o p = a \o (F \o p)
      <4> HIDE DEF a, F, p
      <4> QED BY <3>1, ConcatAssociative, SMTT(20)
    <3> DEFINE b == a \o F
               c == a \o (F \o p)
    <3>7. b \in Seq(Ptr) /\ c \in Seq(Ptr)
      <4> DEFINE d == F \o p
      <4>1. a \in Seq(Ptr) /\ d \in Seq(Ptr)
        BY <3>1, <3>5
      <4>2. a \o d \in Seq(Ptr)
        <5> HIDE DEF a, d
        <5> QED BY <4>1
      <4> QED BY <3>5, <4>2
    <3> HIDE DEF b, c, p, a, F
    <3>8. b \o e = b /\ c \o e = c
      BY <3>7, ConcatEmptySeq
    <3>9. Begins(b, b \o p)
      <4>1. Begins(p, p)
        BY <3>1 DEF Begins
      <4> QED BY <3>1, <3>7, <4>1, ConcatBegins
    <3> QED BY <3>3, <3>4, <3>6, <3>8, <3>9 DEF b, c
  <2>5. Shortens(cleared, s) /\ Shortens(sent, s)
    <3>1. ASSUME OutTyped(s) PROVE Begins(Out(s), Out(s))
      BY <3>1, OutIs DEF Begins
    <3> QED BY <2>2, <2>3, <2>4, <3>1 DEF Shortens
  <2>6. CASE f = [seq |-> sent, ok |-> TRUE]
    <3>1. f.seq = sent
      BY <2>6
    <3> QED BY <2>3, <2>4, <2>5, <3>1
  <2>7. CASE f = [seq |-> cleared, ok |-> FALSE]
    <3>1. f.seq = cleared /\ ~f.ok
      BY <2>7
    <3> QED BY <2>5, <3>1
  <2> QED BY <2>1, <2>6, <2>7
<1> QED BY <1>1, <1>2

\* No cache slot gets an input that it did not hold.
CutsCache == \A c \in Slot : ToSet(slots'[c].Inputs) \subseteq ToSet(slots[c].Inputs)

LEMMA RemoveOut ==
    ASSUME Typed, NEW i \in Slot, seqs[i] # None, NEW s, IsSequence(s),
           s.cache = seq[seqs[i]].cache, NEW inputs \in Seq(Ptr), NEW reason,
           removeSequence(i, s, inputs, reason),
           ToSet(inputs) \subseteq ToSet(slots[s.cache].Inputs)
    PROVE  Removes(i) /\ CutsCache /\ Shortens(seq'[seqs[i]], s)
<1> DEFINE r == seqs[i]
<1>1. Removes(i)
  BY RemoveIs
<1>2. r \in Req /\ s.cache \in Slot
  BY DEF Typed, IsSequence
<1>3. CutsCache
  <2>1. slots' = [slots EXCEPT ![s.cache].InUse = FALSE, ![s.cache].Inputs = inputs]
        /\ slots \in [Slot -> [Inputs : Seq(Ptr), InUse : BOOLEAN, lastUsed : Nat]]
    BY DEF removeSequence, Typed
  <2>2. slots'[s.cache] = [slots[s.cache] EXCEPT !.InUse = FALSE, !.Inputs = inputs]
        /\ \A c \in Slot : c # s.cache => slots'[c] = slots[c]
    BY <1>2, <2>1
  <2>3. slots'[s.cache].Inputs = inputs
    <3>1. slots[s.cache] \in [Inputs : Seq(Ptr), InUse : BOOLEAN, lastUsed : Nat]
      BY <1>2, <2>1
    <3> QED BY <2>2, <3>1
  <2> QED BY <2>2, <2>3 DEF CutsCache
<1>4. PICK f \in flushPending(s) :
         seq' = [seq EXCEPT ![r] = [f.seq EXCEPT !.doneReason = reason, !.closed = TRUE]]
  BY DEF removeSequence
<1>5. Shortens(f.seq, s) /\ IsSequence(f.seq)
  BY FlushFields, FlushOut DEF Alike
<1> DEFINE t == [f.seq EXCEPT !.doneReason = reason]
           u == [t EXCEPT !.closed = TRUE]
<1>6. SameOut(t, f.seq) /\ IsSequence(t)
  BY <1>5, OutputWritten, OutputFields DEF Alike
<1>7. [f.seq EXCEPT !.doneReason = reason, !.closed = TRUE] = u
  OBVIOUS
<1>8. SameOut(u, t)
  <2> HIDE DEF t
  <2> QED BY <1>6, OutputWritten
<1>9. seq'[r] = u
  <2>1. seq' = [seq EXCEPT ![r] = u] /\ seq = [q \in Req |-> seq[q]]
    BY <1>4, <1>7 DEF Typed
  <2> HIDE DEF u
  <2> QED BY <1>2, <2>1
<1> HIDE DEF t, u
<1>10. Shortens(u, s)
  <2>1. Shortens(t, s)
    BY <1>5, <1>6, ShortensSame, ShortensTwice
  <2> QED BY <1>8, <2>1, ShortensSame, ShortensTwice
<1> QED BY <1>1, <1>3, <1>9, <1>10

LEMMA StopOut ==
    ASSUME Typed, NEW i \in Slot, seqs[i] # None, NEW s, Alike(s, seq[seqs[i]]),
           NEW k \in 0 .. Len(s.pendingResponses), NEW tokenTruncated \in BOOLEAN,
           HitStop(i, s, k, tokenTruncated)
    PROVE  Removes(i) /\ CutsCache /\ Shortens(seq'[seqs[i]], s)
<1> DEFINE held == slots[s.cache].Inputs
           tokenLen == Len(held) + 1 - k - (IF tokenTruncated \/ k = 0 THEN 1 ELSE 0)
           kept == SubSeq(s.pendingResponses, 1, Len(s.pendingResponses) - k)
           t == [s EXCEPT !.pendingResponses = kept]
           inputs == SubSeq(held, 1, tokenLen)
<1>1. removeSequence(i, t, inputs, "stop")
  BY DEF HitStop
<1>2. IsSequence(s) /\ s.cache = seq[seqs[i]].cache /\ k \in Nat
  BY DEF Alike
<1>3. Alike(t, s) /\ Shortens(t, s)
  BY <1>2, CutOut
<1> HIDE DEF t
<1>4. inputs \in Seq(Ptr) /\ ToSet(inputs) \subseteq ToSet(held)
  <2>1. held \in Seq(Ptr)
    BY <1>2 DEF Typed, IsSequence
  <2> HIDE DEF held
  <2>2. Len(held) \in Nat /\ tokenLen \in Int /\ tokenLen <= Len(held)
    BY <1>2, <2>1
  <2> HIDE DEF tokenLen
  <2> QED BY <2>1, <2>2, SubSeqToSet
<1> HIDE DEF inputs
<1>5. IsSequence(t) /\ t.cache = seq[seqs[i]].cache /\ t.cache = s.cache
  BY <1>2, <1>3 DEF Alike
<1>6. Removes(i) /\ CutsCache /\ Shortens(seq'[seqs[i]], t)
  BY <1>1, <1>4, <1>5, RemoveOut
<1> QED BY <1>3, <1>6, ShortensTwice

\* The sequence in slot i ends, with or without the piece e, or goes on with it.
Decoded(i, e) ==
    LET r == seqs[i] IN
    \/ /\ Removes(i) /\ CutsCache
       /\ \E u : (u = seq[r] \/ Prolongs(u, seq[r], e)) /\ Shortens(seq'[r], u)
    \/ /\ UNCHANGED <<seqs, slots, permits>>
       /\ \E s : Alike(s, seq[r]) /\ Prolongs(s, seq[r], e) /\ seq' = [seq EXCEPT ![r] = s]

\* The piece that the batch has for slot i.
Piece(id, i) ==
    LET row == work[id].outputs[work[id].iBatches[i] + 1] IN <<row[1], row[2] + 1>>

LEMMA DecodedToken ==
    ASSUME Typed, NEW id \in DOMAIN work, NEW i \in Slot, seqs[i] # None, DecodeToken(id, i)
    PROVE  /\ LET p == work[id].next[i] IN
              \E v \in Int \ {Placeholder} : text' = [text EXCEPT ![p[1]][p[2]] = v]
           /\ Decoded(i, Piece(id, i))
<1> DEFINE r == seqs[i]
           e == Piece(id, i)
           held == slots[seq[r].cache].Inputs
           s == [seq[r] EXCEPT !.pendingResponses = Append(seq[r].pendingResponses, e)]
<1>1. r \in Req /\ IsSequence(seq[r])
  BY DEF Typed
<1>2. held \in Seq(Ptr)
  BY <1>1 DEF Typed, IsSequence
<1>3. LET p == work[id].next[i] IN
      \E v \in Int \ {Placeholder} : text' = [text EXCEPT ![p[1]][p[2]] = v]
  <2>1. Eos \in Int \ {Placeholder} /\ Vocab \subseteq Int \ {Placeholder}
    BY RunnerAssumption DEF Eos, Placeholder
  <2> QED BY <2>1 DEF DecodeToken
<1>4. Alike(s, seq[r]) /\ Prolongs(s, seq[r], e)
  <2> HIDE DEF e
  <2> QED BY <1>1, PieceOut
<1>5. CASE removeSequence(i, seq[r], held, "stop")
  <2> HIDE DEF held
  <2>1. ToSet(held) \subseteq ToSet(slots[seq[r].cache].Inputs)
    BY DEF held
  <2>2. Removes(i) /\ CutsCache /\ Shortens(seq'[r], seq[r])
    BY <1>1, <1>2, <1>5, <2>1, RemoveOut
  <2> QED BY <1>3, <2>2 DEF Decoded
<1>6. ASSUME NEW k \in 0 .. Len(s.pendingResponses), NEW b \in BOOLEAN, HitStop(i, s, k, b)
      PROVE  Decoded(i, e)
  <2> HIDE DEF s, e
  <2>1. Removes(i) /\ CutsCache /\ Shortens(seq'[r], s)
    BY <1>4, <1>6, StopOut
  <2> QED BY <1>4, <2>1 DEF Decoded
<1>7. CASE seq' = [seq EXCEPT ![r] = s] /\ UNCHANGED <<seqs, slots, permits>>
  <2> HIDE DEF s, e
  <2>1. \E u : Alike(u, seq[r]) /\ Prolongs(u, seq[r], e) /\ seq' = [seq EXCEPT ![r] = u]
    BY <1>4, <1>7
  <2>2. Decoded(i, e)
    BY <1>7, <2>1 DEF Decoded
  <2> QED BY <1>3, <2>2 DEF e
<1>8. ASSUME NEW f \in flushPending(s),
             IF f.ok THEN seq' = [seq EXCEPT ![r] = f.seq] /\ UNCHANGED <<seqs, slots, permits>>
                     ELSE removeSequence(i, f.seq, held, "closed")
      PROVE  Decoded(i, e)
  <2> HIDE DEF s, e
  <2>1. IsSequence(s)
    BY <1>4 DEF Alike
  <2>2. Alike(f.seq, s) /\ Shortens(f.seq, s)
    BY <2>1, FlushFields, FlushOut
  <2>3. Alike(f.seq, seq[r])
    BY <1>4, <2>2 DEF Alike
  <2>4. CASE f.ok
    <3>1. Prolongs(f.seq, seq[r], e)
      BY <1>4, <2>1, <2>4, FlushOut DEF Prolongs
    <3>2. \E u : Alike(u, seq[r]) /\ Prolongs(u, seq[r], e) /\ seq' = [seq EXCEPT ![r] = u]
      BY <1>8, <2>3, <2>4, <3>1
    <3> QED BY <1>8, <2>4, <3>2 DEF Decoded
  <2>5. CASE ~f.ok
    <3>1. IsSequence(f.seq) /\ f.seq.cache = seq[r].cache
      BY <2>3 DEF Alike
    <3>2. ToSet(held) \subseteq ToSet(slots[f.seq.cache].Inputs)
      BY <3>1
    <3> HIDE DEF held
    <3>3. Removes(i) /\ CutsCache /\ Shortens(seq'[r], f.seq)
      BY <1>2, <1>8, <2>5, <3>1, <3>2, RemoveOut
    <3>4. Shortens(seq'[r], s)
      BY <2>2, <3>3, ShortensTwice
    <3> QED BY <1>4, <3>3, <3>4 DEF Decoded
  <2> QED BY <2>4, <2>5
<1>9. s = [seq[r] EXCEPT !.pendingResponses =
              Append(@, <<work[id].outputs[work[id].iBatches[i] + 1][1],
                          work[id].outputs[work[id].iBatches[i] + 1][2] + 1>>)]
  BY DEF Piece
<1> HIDE DEF s, e
<1>10. \/ removeSequence(i, seq[r], held, "stop")
       \/ \E k \in 0 .. Len(s.pendingResponses), b \in BOOLEAN : HitStop(i, s, k, b)
       \/ seq' = [seq EXCEPT ![r] = s] /\ UNCHANGED <<seqs, slots, permits>>
       \/ \E f \in flushPending(s) :
             IF f.ok THEN seq' = [seq EXCEPT ![r] = f.seq] /\ UNCHANGED <<seqs, slots, permits>>
                     ELSE removeSequence(i, f.seq, held, "closed")
  BY <1>9 DEF DecodeToken
<1>11. Decoded(i, e)
  BY <1>5, <1>6, <1>7, <1>8, <1>10 DEF e
<1> QED BY <1>3, <1>11 DEF e

\* A slot is skipped, its embedding is sent, or the next token of its sequence is.
Skipped(id) ==
    LET i == work[id].idx IN
    seqs[i] = None \/ work[id].next[i] = None

LEMMA DecodedSlot ==
    ASSUME Typed, NEW id \in DOMAIN work, DecodeSlot(id)
    PROVE  LET i == work[id].idx
               r == seqs[i]
               p == work[id].next[i]
           IN  \/ Skipped(id) /\ UNCHANGED <<seqs, seq, slots, permits, text>>
               \/ /\ ~Skipped(id) /\ r \in Embedding /\ text' = text
                  /\ Removes(i) /\ CutsCache /\ Shortens(seq'[r], seq[r])
               \/ /\ ~Skipped(id) /\ r \notin Embedding
                  /\ \E v \in Int \ {Placeholder} : text' = [text EXCEPT ![p[1]][p[2]] = v]
                  /\ Decoded(i, Piece(id, i))
<1> DEFINE i == work[id].idx
           r == seqs[i]
<1>1. i \in Slot
  BY CacheAssumption DEF DecodeSlot, Typed, IsBatch, Slot
<1>2. CASE (r = None \/ work[id].next[i] = None) /\ UNCHANGED <<seqs, seq, slots, permits, text>>
  BY <1>2 DEF Skipped
<1>3. CASE /\ r # None /\ work[id].next[i] # None /\ r \in Embedding /\ text' = text
           /\ removeSequence(i, [seq[r] EXCEPT !.embedding = TRUE], slots[seq[r].cache].Inputs, "stop")
  <2> DEFINE s == [seq[r] EXCEPT !.embedding = TRUE]
             held == slots[seq[r].cache].Inputs
  <2>1. IsSequence(seq[r]) /\ r \in Req
    BY <1>1, <1>3 DEF Typed
  <2>2. held \in Seq(Ptr)
    BY <2>1 DEF Typed, IsSequence
  <2>3. IsSequence(s) /\ s.cache = seq[r].cache /\ SameOut(s, seq[r])
    BY <2>1, FlagFields, OutputWritten
  <2>4. ToSet(held) \subseteq ToSet(slots[s.cache].Inputs)
    BY <2>3
  <2> HIDE DEF s, held
  <2>5. removeSequence(i, s, held, "stop")
    BY <1>3 DEF s, held
  <2> HIDE DEF i
  <2>6. Removes(i) /\ CutsCache /\ Shortens(seq'[r], s)
    BY <1>1, <1>3, <2>2, <2>3, <2>4, <2>5, RemoveOut
  <2>7. Shortens(seq'[r], seq[r])
    BY <2>3, <2>6, ShortensSame, ShortensTwice
  <2> QED BY <1>3, <2>6, <2>7 DEF Skipped, i
<1>4. CASE /\ r # None /\ work[id].next[i] # None /\ r \notin Embedding /\ DecodeToken(id, i)
  <2> HIDE DEF i
  <2>1. /\ LET p == work[id].next[i] IN
           \E v \in Int \ {Placeholder} : text' = [text EXCEPT ![p[1]][p[2]] = v]
        /\ Decoded(i, Piece(id, i))
    BY <1>1, <1>4, DecodedToken
  <2> QED BY <1>4, <2>1 DEF Skipped, i
<1> QED BY <1>2, <1>3, <1>4 DEF DecodeSlot

-----------------------------------------------------------------------------
(* Sampled tokens.                                                         *)

\* An input that exists; one whose token is still to be sampled; one that has its token.
Made(p) == p \in Ptr /\ p[2] \in 1 .. Len(text[p[1]])
Open(p) == text[p[1]][p[2]] = Placeholder
Settled(p) == Made(p) /\ ~Open(p)

\* Where an input may be: in the lists of a sequence, in a batch that has not read its
\* tokens, in a cache slot.
Wants(r, p) == p \in ToSet(seq[r].inputs) \/ p \in ToSet(seq[r].pendingInputs)
Carries(p) ==
    \/ fwd # None /\ p \in ToSet(fwd.inputs)
    \/ \E id \in DOMAIN work : work[id].pc = "wait" /\ p \in ToSet(work[id].batchInputs)
InCache(p) == \E s \in Slot : p \in ToSet(slots[s].Inputs)

\* The batch has a token for slot i that it has not handed out; p is to get such a token.
Awaits(id, i) == work[id].pc # "wait" /\ work[id].next[i] # None /\ work[id].idx <= i
Awaited(p) ==
    \E id \in DOMAIN work, i \in Slot :
       Awaits(id, i) /\ work[id].next[i] = p /\ seqs[i] = p[1]

Early(r) == handler[r] \in {"new", "acquire", "insert"}

\* A batch's fields as far as they matter here.
BatchesRead ==
    \A id \in DOMAIN work :
       /\ work[id].pc # "decode" => work[id].idx = 0
       /\ work[id].pc = "wait" => work[id].batchInputs \in Seq(Ptr)
       /\ Placeholder \notin ToSet(work[id].tokens)

\* An input without a token is one that a batch in flight will fill in, and it has not
\* reached a cache slot.
Sampled ==
    /\ \A r \in Req : handler[r] = "new" => Len(text[r]) = 0
    /\ \A p \in Ptr : Made(p) /\ Early(p[1]) => ~Open(p)
    /\ \A r \in Live : \A p \in Ptr :
          Wants(r, p) => Made(p) /\ (Open(p) => p[1] = r /\ Awaited(p))
    /\ \A p \in Ptr :
          Carries(p) => /\ Made(p)
                        /\ Open(p) => Awaited(p) /\ p \in ToSet(seq[p[1]].pendingInputs)
    /\ \A p \in Ptr : InCache(p) => Settled(p)
    /\ BatchesRead

\* With a pooling layer one batch at a time is in flight, and only such a model answers
\* embeddings.
OneAtATime ==
    /\ ~model.supportsAsync => /\ fwd # None => DOMAIN work = {}
                               /\ \A v, w \in DOMAIN work : v = w
    /\ \A r \in Req : handler[r] # "failed" => Supported(r)

LEMMA OneAtATimeNext ==
    ASSUME Inv, OneAtATime, [Next]_vars
    PROVE  OneAtATime'
<1>0. Typed /\ Locks
  BY DEF Inv
<1>1. ASSUME model' = model, fwd' = fwd \/ fwd' = None, DOMAIN work' \subseteq DOMAIN work,
             \A r \in Req : handler'[r] # "failed" => handler[r] # "failed"
      PROVE  OneAtATime'
  BY <1>1 DEF OneAtATime, Supported
<1>2. ASSUME NEW r \in Req, Handle(r) \/ Disconnect(r), model' = model PROVE OneAtATime'
  <2>1. work' = work /\ fwd' = fwd
    BY <1>2 DEF Handle, Disconnect, NewSequence, Acquire, Insert, Receive, ReceiveEmbedding, runVars
  <2>2. (handler' = handler \/ (\E h : handler' = [handler EXCEPT ![r] = h])) /\ handler[r] # "failed"
    BY <1>2 DEF Handle, Disconnect, NewSequence, Acquire, Insert, Receive, ReceiveEmbedding
  <2>3. \A q \in Req : handler'[q] # "failed" => handler[q] # "failed"
    BY <1>0, <2>2 DEF Typed
  <2> QED BY <1>1, <1>2, <2>1, <2>3
<1>3. ASSUME ForwardBegin, model' = model PROVE OneAtATime'
  BY <1>3 DEF ForwardBegin, OneAtATime, Supported
<1>4. ASSUME ForwardSlot, model' = model PROVE OneAtATime'
  <2>1. fwd # None /\ work' = work /\ handler' = handler
    BY <1>0, <1>4 DEF ForwardSlot, Locks
  <2> QED BY <1>4, <2>1 DEF OneAtATime, Supported
<1>5. ASSUME ForwardEnd, model' = model PROVE OneAtATime'
  <2>1. fwd # None /\ fwd' = None /\ handler' = handler
    BY <1>0, <1>5 DEF ForwardEnd, Locks
  <2>2. \E id : DOMAIN work' \subseteq DOMAIN work \cup {id}
    <3>1. work' = work \/ \E id, f : work' = [w \in DOMAIN work \cup {id} |-> f[w]]
      <4> DEFINE new == [pc |-> "wait", seqs |-> fwd.seqs, batchInputs |-> fwd.inputs,
                         outputs |-> fwd.outputs, after |-> prev, tokens |-> <<>>,
                         next |-> [i \in Slot |-> None], iBatches |-> [i \in Slot |-> -1],
                         idx |-> 0]
                 id == Min((1 .. Cardinality(DOMAIN work) + 2) \ (DOMAIN work \cup {prev}))
                 f == [w \in DOMAIN work \cup {id} |-> IF w = id THEN new ELSE work[w]]
      <4>1. work' = work \/ work' = f
        BY <1>5 DEF ForwardEnd
      <4>2. f = [w \in DOMAIN work \cup {id} |-> f[w]]
        OBVIOUS
      <4> HIDE DEF f, id
      <4> QED BY <4>1, <4>2
    <3> QED BY <3>1
  <2> QED BY <1>5, <2>1, <2>2 DEF OneAtATime, Supported
<1>6. ASSUME NotifyStarted \/ UNCHANGED vars, model' = model PROVE OneAtATime'
  BY <1>1, <1>6 DEF NotifyStarted, vars
<1>7. ASSUME NEW id \in DOMAIN work, ComputeBatch(id), model' = model PROVE OneAtATime'
  <2>1. fwd' = fwd /\ handler' = handler
    BY <1>7 DEF ComputeBatch, GatherInputs, DecodeBegin, DecodeSlot, DecodeEnd, runVars
  <2>2. DOMAIN work' \subseteq DOMAIN work
    BY <1>7, ReadsBatch, BeginDecode, SlotDecoded, EndDecode DEF ComputeBatch
  <2> QED BY <1>1, <1>7, <2>1, <2>2
<1> QED BY <1>2, <1>3, <1>4, <1>5, <1>6, <1>7 DEF Next, Running, ForwardBatch, Finished, vars

\* What a step must keep for an input without a token to stay one that is awaited.
LEMMA SampledFrame ==
    ASSUME Typed, Sampled,
           \A r \in Req : handler'[r] = "new" => handler[r] = "new" /\ Len(text'[r]) = Len(text[r]),
           \A p \in Ptr : Made(p) => Made(p)' /\ (Open(p)' => Open(p)),
           \A p \in Ptr : Made(p)' /\ Early(p[1])' => (Made(p) /\ Early(p[1])) \/ ~Open(p)',
           \A p \in Ptr : Made(p) /\ Open(p)' /\ Awaited(p) /\ p[1] \in Live' => Awaited(p)',
           \A r \in Live' : \A p \in Ptr : Wants(r, p)' =>
              \/ r \in Live /\ Wants(r, p)
              \/ InCache(p)
              \/ Made(p)' /\ (Open(p)' => p[1] = r /\ Awaited(p)'),
           \A p \in Ptr : InCache(p)' => InCache(p) \/ Settled(p)',
           \A p \in Ptr : Carries(p)' =>
              \/ /\ Carries(p)
                 /\ Open(p)' /\ Awaited(p) /\ p \in ToSet(seq[p[1]].pendingInputs) =>
                       p[1] \in Live' /\ p \in ToSet(seq'[p[1]].pendingInputs)
              \/ \E r \in Live' : p \in ToSet(seq'[r].pendingInputs),
           BatchesRead'
    PROVE  Sampled'
<1>1. \A p \in Ptr : Made(p) => Made(p)' /\ (Open(p)' => Open(p))
  OBVIOUS
<1>2. \A p \in Ptr : Made(p) /\ Open(p)' /\ Awaited(p) /\ p[1] \in Live' => Awaited(p)'
  OBVIOUS
<1>3. ASSUME NEW r \in Live', NEW p \in Ptr, Wants(r, p)'
      PROVE  Made(p)' /\ (Open(p)' => p[1] = r /\ Awaited(p)')
  <2>1. CASE r \in Live /\ Wants(r, p)
    BY <1>1, <1>2, <2>1 DEF Sampled
  <2>2. CASE InCache(p)
    BY <1>1, <2>2 DEF Sampled, Settled
  <2> QED BY <1>3, <2>1, <2>2
<1>4. ASSUME NEW p \in Ptr, Carries(p)'
      PROVE  Made(p)' /\ (Open(p)' => Awaited(p)' /\ p \in ToSet(seq'[p[1]].pendingInputs))
  <2>1. CASE /\ Carries(p)
             /\ Open(p)' /\ Awaited(p) /\ p \in ToSet(seq[p[1]].pendingInputs) =>
                   p[1] \in Live' /\ p \in ToSet(seq'[p[1]].pendingInputs)
    BY <1>1, <1>2, <2>1 DEF Sampled
  <2>2. ASSUME NEW r \in Live', p \in ToSet(seq'[r].pendingInputs)
        PROVE  Made(p)' /\ (Open(p)' => Awaited(p)' /\ p \in ToSet(seq'[p[1]].pendingInputs))
    <3>1. Wants(r, p)'
      BY <2>2 DEF Wants
    <3> QED BY <1>3, <2>2, <3>1
  <2> QED BY <1>4, <2>1, <2>2
<1>5. ASSUME NEW p \in Ptr, InCache(p)' PROVE Settled(p)'
  BY <1>1, <1>5 DEF Sampled, Settled
<1>6. ASSUME NEW p \in Ptr, Made(p)', Early(p[1])' PROVE ~Open(p)'
  BY <1>1, <1>6 DEF Sampled
<1>7. ASSUME NEW r \in Req, handler'[r] = "new" PROVE Len(text'[r]) = 0
  BY <1>7 DEF Sampled
<1> QED BY <1>3, <1>4, <1>5, <1>6, <1>7 DEF Sampled

\* Steps that sample nothing and move no input.
LEMMA SampledQuiet ==
    ASSUME Typed, Sampled, UNCHANGED <<seqs, text, slots>>,
           \A r \in Req : /\ handler'[r] = "new" => handler[r] = "new"
                          /\ Early(r)' => Early(r),
           \A r \in Live : /\ seq'[r].inputs = seq[r].inputs
                           /\ seq'[r].pendingInputs = seq[r].pendingInputs,
           \A p \in Ptr : Awaited(p) => Awaited(p)',
           \A p \in Ptr : Carries(p)' => Carries(p),
           BatchesRead'
    PROVE  Sampled'
<1>1. Live' = Live
  BY DEF Live
<1>2. \A p \in Ptr : p[1] \in Req
  BY DEF Ptr
<1>3. \A p \in Ptr : (Made(p) <=> Made(p)') /\ (Open(p) <=> Open(p)')
  BY DEF Made, Open
<1>4. \A r \in Live' : \A p \in Ptr : Wants(r, p)' => r \in Live /\ Wants(r, p)
  BY <1>1 DEF Wants
<1>5. \A p \in Ptr : InCache(p)' => InCache(p)
  BY DEF InCache
<1>6. ASSUME NEW p \in Ptr, Awaited(p) PROVE p[1] \in Live
  BY <1>2, <1>6 DEF Awaited, Live
<1>7. \A r \in Req : handler'[r] = "new" => handler[r] = "new" /\ Len(text'[r]) = Len(text[r])
  OBVIOUS
<1>8. \A p \in Ptr : Carries(p)' =>
              \/ /\ Carries(p)
                 /\ Open(p)' /\ Awaited(p) /\ p \in ToSet(seq[p[1]].pendingInputs) =>
                       p[1] \in Live' /\ p \in ToSet(seq'[p[1]].pendingInputs)
              \/ \E r \in Live' : p \in ToSet(seq'[r].pendingInputs)
  BY <1>1, <1>6
<1> HIDE DEF Sampled
<1> QED BY <1>2, <1>3, <1>4, <1>5, <1>7, <1>8, SampledFrame

LEMMA SampledHandlers ==
    ASSUME Inv, Sampled, NEW r \in Req,
           Acquire(r) \/ Receive(r) \/ ReceiveEmbedding(r) \/ Disconnect(r)
    PROVE  Sampled'
<1>0. Typed /\ Lives
  BY DEF Inv
<1>1. UNCHANGED <<seqs, text, slots, work, fwd>>
  BY DEF Acquire, Receive, ReceiveEmbedding, Disconnect, cacheVars, runVars
<1>2. \E h \in {"insert", "stream", "done", "gone"} :
         /\ handler' = [handler EXCEPT ![r] = h] \/ handler' = handler
         /\ h = "insert" => handler[r] = "acquire"
  BY DEF Acquire, Receive, ReceiveEmbedding, Disconnect
<1>3. \A q \in Req : /\ handler'[q] = "new" => handler[q] = "new"
                     /\ Early(q)' => Early(q)
  BY <1>0, <1>2 DEF Typed, Early
<1>4. ASSUME NEW q \in Live
      PROVE  /\ seq'[q].inputs = seq[q].inputs
             /\ seq'[q].pendingInputs = seq[q].pendingInputs
  <2>1. q \in Req /\ ~seq[q].closed /\ IsSequence(seq[q])
    BY <1>0 DEF Live, Lives, Typed
  <2>2. CASE seq' = seq
    BY <2>2
  <2>3. CASE Receive(r) /\ seq[r].responses # <<>>
    <3>1. seq' = [seq EXCEPT ![r].delivered = @ \o Head(seq[r].responses),
                             ![r].responses = Tail(@)]
      BY <2>3 DEF Receive
    <3> DEFINE d == seq[r].delivered \o Head(seq[r].responses)
               x == Tail(seq[r].responses)
               s == [seq[r] EXCEPT !.delivered = d]
               t == [s EXCEPT !.responses = x]
    <3>2. seq' = [seq EXCEPT ![r] = t]
      BY <1>0, <3>1 DEF Typed, IsSequence
    <3> HIDE DEF d, x
    <3>3. IsSequence(seq[r])
      BY <1>0 DEF Typed
    <3>4. Alike(s, seq[r])
      BY <3>3 DEF Alike, IsSequence
    <3>5. Alike(t, s)
      <4> HIDE DEF s
      <4> QED BY <3>4, OutputFields DEF Alike
    <3> HIDE DEF s, t
    <3>6. IsSequence(t) /\ t.inputs = seq[r].inputs /\ t.pendingInputs = seq[r].pendingInputs
      BY <3>4, <3>5 DEF Alike
    <3> QED BY <1>0, <2>1, <3>2, <3>6, SeqTyped
  <2>4. CASE Receive(r) /\ ~(seq[r].responses # <<>>)
    <3>1. seq[r].closed /\ seq' = [seq EXCEPT ![r] = NoSequence]
      BY <2>4 DEF Receive
    <3>2. q # r /\ seq = [x \in Req |-> seq[x]]
      BY <1>0, <2>1, <3>1 DEF Typed
    <3>3. seq'[q] = seq[q]
      BY <2>1, <3>1, <3>2
    <3> QED BY <3>3
  <2>5. CASE Disconnect(r) /\ seq' = [seq EXCEPT ![r].quit = TRUE]
    <3> DEFINE s == [seq[r] EXCEPT !.quit = TRUE]
    <3>1. IsSequence(seq[r])
      BY <1>0 DEF Typed
    <3>2. IsSequence(s) /\ s.inputs = seq[r].inputs /\ s.pendingInputs = seq[r].pendingInputs
      BY <3>1, FlagFields DEF Alike
    <3>3. seq' = [seq EXCEPT ![r] = s]
      BY <1>0, <2>5 DEF Typed
    <3> HIDE DEF s
    <3> QED BY <1>0, <2>1, <3>2, <3>3, SeqTyped
  <2> QED BY <2>2, <2>3, <2>4, <2>5 DEF Acquire, Receive, ReceiveEmbedding, Disconnect
<1>5. \A p \in Ptr : (Awaited(p) => Awaited(p)') /\ (Carries(p)' => Carries(p))
  BY <1>1 DEF Awaited, Awaits, Carries
<1>6. BatchesRead'
  BY <1>1 DEF Sampled, BatchesRead
<1> QED BY <1>0, <1>1, <1>3, <1>4, <1>5, <1>6, SampledQuiet

LEMMA SampledForward ==
    ASSUME Inv, Order, NeverEmpty, Sampled, ForwardBegin \/ ForwardEnd
    PROVE  Sampled'
<1>0. Typed /\ Locks
  BY DEF Inv
<1>1. UNCHANGED <<seqs, text, slots, handler, seq>>
  BY DEF ForwardBegin, ForwardEnd, cacheVars
<1>2. CASE ForwardBegin
  <2>1. work' = work /\ fwd'.inputs = <<>>
    BY <1>2 DEF ForwardBegin
  <2>2. \A p \in Ptr : (Awaited(p) => Awaited(p)') /\ (Carries(p)' => Carries(p))
    <3>1. ToSet(fwd'.inputs) = {}
      BY <2>1 DEF ToSet
    <3> QED BY <1>1, <2>1, <3>1 DEF Awaited, Awaits, Carries
  <2>3. BatchesRead'
    BY <1>1, <2>1 DEF Sampled, BatchesRead
  <2> QED BY <1>0, <1>1, <2>2, <2>3, SampledQuiet DEF Early
<1>3. CASE ForwardEnd
  <2>1. fwd.inputs # <<>>
    BY <1>0, <1>3 DEF ForwardEnd, NeverEmpty, Locks
  <2>2. /\ fwd # None /\ fwd \in ForwardType /\ fwd' = None
        /\ prev' \notin DOMAIN work
        /\ DOMAIN work' = DOMAIN work \cup {prev'}
        /\ work'[prev'] = NewBatch
        /\ \A v \in DOMAIN work : work'[v] = work[v]
    BY <1>3, <2>1, HandedOn
  <2>3. /\ NewBatch.pc = "wait" /\ NewBatch.idx = 0 /\ NewBatch.tokens = <<>>
        /\ NewBatch.batchInputs = fwd.inputs /\ fwd.inputs \in Seq(Ptr)
    BY <2>2 DEF NewBatch, ForwardType, Ptr
  <2>4. \A p \in Ptr : (Awaited(p) => Awaited(p)') /\ (Carries(p)' => Carries(p))
    BY <1>1, <2>2, <2>3 DEF Awaited, Awaits, Carries
  <2>5. BatchesRead'
    <3>1. ToSet(<<>>) = {}
      BY DEF ToSet
    <3> QED BY <2>2, <2>3, <3>1 DEF Sampled, BatchesRead
  <2> QED BY <1>0, <1>1, <2>4, <2>5, SampledQuiet DEF Early
<1> QED BY <1>2, <1>3

LEMMA SampledDecode ==
    ASSUME Inv, Sampled, NEW id \in DOMAIN work, DecodeBegin(id) \/ DecodeEnd(id)
    PROVE  Sampled'
<1>0. Typed
  BY DEF Inv
<1>1. UNCHANGED <<seqs, text, slots, handler, seq, fwd>>
  BY DEF DecodeBegin, DecodeEnd, cacheVars, runVars
<1>2. CASE DecodeBegin(id)
  <2>1. /\ DOMAIN work' = DOMAIN work /\ \A b \in DOMAIN work \ {id} : work'[b] = work[b]
        /\ work[id].pc = "compute"
        /\ work'[id] = [work[id] EXCEPT !.pc = "decode"] /\ work'[id].pc = "decode"
    BY <1>2, BeginDecode
  <2>2. /\ work'[id].next = work[id].next /\ work'[id].idx = work[id].idx
        /\ work'[id].tokens = work[id].tokens
    <3>1. IsBatch(work[id])
      BY <1>0 DEF Typed
    <3> QED BY <2>1, <3>1 DEF IsBatch
  <2>5. /\ DOMAIN work' = DOMAIN work /\ \A b \in DOMAIN work \ {id} : work'[b] = work[b]
        /\ work[id].pc = "compute" /\ work'[id].pc = "decode"
    BY <2>1
  <2>3. \A p \in Ptr : (Awaited(p) => Awaited(p)') /\ (Carries(p)' => Carries(p))
    BY <1>1, <2>2, <2>5 DEF Awaited, Awaits, Carries
  <2>4. BatchesRead'
    BY <2>2, <2>5 DEF Sampled, BatchesRead
  <2> QED BY <1>0, <1>1, <2>3, <2>4, SampledQuiet DEF Early
<1>3. CASE DecodeEnd(id)
  <2>1. /\ work[id].pc = "decode" /\ work[id].idx = Parallel
        /\ DOMAIN work' = DOMAIN work \ {id}
        /\ \A b \in DOMAIN work \ {id} : work'[b] = work[b]
    BY <1>3, EndDecode
  <2>2. \A i \in Slot : ~Awaits(id, i)
    <3>1. \A i \in Slot : ~(Parallel <= i)
      BY CacheAssumption DEF Slot
    <3> QED BY <2>1, <3>1 DEF Awaits
  <2>3. \A p \in Ptr : (Awaited(p) => Awaited(p)') /\ (Carries(p)' => Carries(p))
    BY <1>1, <2>1, <2>2 DEF Awaited, Awaits, Carries
  <2>4. BatchesRead'
    BY <2>1 DEF Sampled, BatchesRead
  <2> QED BY <1>0, <1>1, <2>3, <2>4, SampledQuiet DEF Early
<1> QED BY <1>2, <1>3

\* A new request has a prompt without placeholders.
LEMMA PromptSampled ==
    ASSUME NEW r \in Req, Len(Prompt[r]) > NumCtx => r \in Truncate
    PROVE  LET prompt == IF Len(Prompt[r]) > NumCtx THEN Truncated(r) ELSE Prompt[r]
           IN  prompt \in Seq(Nat \ {Placeholder}) /\ Len(prompt) \in Nat \ {0}
<1> DEFINE S == Nat \ {Placeholder}
           all == Prompt[r]
           keep == numKeep(r)
           d == Len(all) - NumCtx
           prompt == IF Len(Prompt[r]) > NumCtx THEN Truncated(r) ELSE Prompt[r]
<1>1. /\ all \in Seq(S) /\ Len(all) \in Nat /\ NumCtx \in Nat /\ keep \in 0 .. NumCtx - 1
  BY RunnerAssumption, CacheAssumption, KeepBounds
<1>2. Len(prompt) \in Nat \ {0}
  <2> DEFINE n == Len(prompt)
  <2>1. n \in 1 .. NumCtx
    BY PromptTyped
  <2> HIDE DEF n
  <2>2. n \in Nat \ {0}
    BY <1>1, <2>1
  <2> QED BY <2>2 DEF n
<1>3. CASE Len(all) > NumCtx
  <2>1. d \in Nat /\ d > 0 /\ Greater(Len(all) - NumCtx, 0) = d
    BY <1>1, <1>3 DEF Greater
  <2> DEFINE x == SubSeq(all, 1, keep)
             y == SubSeq(all, keep + d + 1, Len(all))
  <2>2. Truncated(r) = x \o y
    BY <2>1 DEF Truncated
  <2> HIDE DEF all, keep, d, S
  <2>3. keep <= Len(all) /\ keep + d + 1 \in Nat \ {0} /\ keep \in Int
    BY <1>1, <1>3, <2>1
  <2>4. x \in Seq(S)
    BY <1>1, <2>3, SubSeqToSet
  <2>5. y \in Seq(S)
    BY <1>1, <2>3, SubSeqToSet
  <2> HIDE DEF x, y
  <2>6. x \o y \in Seq(S)
    BY <2>4, <2>5
  <2> QED BY <1>2, <1>3, <2>2, <2>6 DEF all, S
<1>4. CASE ~(Len(all) > NumCtx)
  BY <1>1, <1>2, <1>4
<1> QED BY <1>3, <1>4

Requested(r) ==
    /\ handler'[r] = "acquire" /\ \A q \in Req \ {r} : handler'[q] = handler[q]
    /\ text'[r] \in Seq(Nat \ {Placeholder}) /\ Len(text'[r]) \in Nat \ {0}
    /\ seq'[r].inputs = [k \in 1 .. Len(text'[r]) |-> <<r, k>>]
    /\ seq'[r].numPromptInputs = Len(text'[r])
    /\ seq'[r].delivered = seq[r].delivered /\ seq'[r].responses = seq[r].responses
    /\ seq'[r].pendingResponses = seq[r].pendingResponses
    /\ \A q \in Req \ {r} : text'[q] = text[q] /\ seq'[q] = seq[q]

LEMMA NewRequest ==
    ASSUME Typed, NEW r \in Req, NewSequence(r)
    PROVE  \/ handler' = [handler EXCEPT ![r] = "failed"] /\ UNCHANGED <<seq, text>>
           \/ Requested(r)
<1>1. CASE UNCHANGED <<waiters, seq, text>> /\ handler' = [handler EXCEPT ![r] = "failed"]
  BY <1>1
<1>2. CASE ~(Len(Prompt[r]) > NumCtx /\ r \notin Truncate)
  <2> DEFINE prompt == IF Len(Prompt[r]) > NumCtx THEN Truncated(r) ELSE Prompt[r]
             inputs == [k \in 1 .. Len(prompt) |-> <<r, k>>]
             n == Len(prompt)
             u == [seq[r] EXCEPT !.inputs = inputs]
             s == [u EXCEPT !.numPromptInputs = n]
  <2>1. prompt \in Seq(Nat \ {Placeholder}) /\ Len(prompt) \in Nat \ {0}
    BY <1>2, PromptSampled
  <2>2. /\ handler' = [handler EXCEPT ![r] = "acquire"]
        /\ text' = [text EXCEPT ![r] = prompt]
        /\ seq' = [seq EXCEPT ![r].inputs = inputs, ![r].numPromptInputs = n]
    BY <1>2 DEF NewSequence
  <2> HIDE DEF prompt
  <2>3. inputs \in Seq(Ptr)
    <3>1. \A k \in 1 .. Len(prompt) : <<r, k>> \in Ptr
      BY <2>1 DEF Ptr
    <3> QED BY <2>1, <3>1
  <2> HIDE DEF inputs, n
  <2>4. IsSequence(seq[r]) /\ seq' = [seq EXCEPT ![r] = s]
    BY <2>2 DEF Typed
  <2>5. IsSequence(u) /\ SameOut(u, seq[r]) /\ u.inputs = inputs
    <3>1. IsSequence(u) /\ u.inputs = inputs
      BY <2>3, <2>4, InputFields DEF WithInputs, Keeps
    <3> QED BY <2>4, <3>1, OutputKept
  <2> HIDE DEF u
  <2>6. /\ s.inputs = u.inputs /\ s.numPromptInputs = n /\ s.delivered = u.delivered
        /\ s.responses = u.responses /\ s.pendingResponses = u.pendingResponses /\ IsSequence(s)
    BY <2>5 DEF IsSequence
  <2> HIDE DEF s
  <2>7. seq'[r] = s /\ \A q \in Req \ {r} : seq'[q] = seq[q]
    BY <2>4, <2>6, SeqTyped
  <2>8. text'[r] = prompt /\ \A q \in Req \ {r} : text'[q] = text[q]
    BY <2>2 DEF Typed
  <2>9. handler'[r] = "acquire" /\ \A q \in Req \ {r} : handler'[q] = handler[q]
    BY <2>2 DEF Typed
  <2>10. Requested(r)
    BY <2>1, <2>5, <2>6, <2>7, <2>8, <2>9 DEF Requested, SameOut, inputs, n
  <2> QED BY <2>10
<1> QED BY <1>1, <1>2 DEF NewSequence

\* A sequence is put into slot i, and its cache slot c holds x of its inputs already.
Inserted(r, i, c, x, y) ==
    /\ r \notin Live /\ seqs[i] = None /\ seqs'[i] = r
    /\ \A j \in Slot \ {i} : seqs'[j] = seqs[j]
    /\ Live' = Live \cup {r}
    /\ handler' = [handler EXCEPT ![r] = "stream"]
    /\ seq'[r].inputs = y /\ seq'[r].pendingInputs = <<>> /\ SameOut(seq'[r], seq[r])
    /\ \A q \in Req \ {r} : seq'[q] = seq[q]
    /\ slots'[c].Inputs = x /\ \A s \in Slot \ {c} : slots'[s] = slots[s]
    /\ \A p \in ToSet(x) \cup ToSet(y) : \E k \in 1 .. Len(text[r]) : p = <<r, k>>
    /\ y \in Seq(Ptr) /\ y # <<>> /\ y[Len(y)] = <<r, Len(text[r])>>
    /\ UNCHANGED <<text, work, fwd>>

LEMMA InsertMoves ==
    ASSUME Inv, NEW r \in Req, Insert(r)
    PROVE  \E i \in Slot, c \in Slot : \E x, y : Inserted(r, i, c, x, y)
<1>0. Typed /\ Lives /\ SlotPerPermit
  BY DEF Inv
<1> DEFINE inputs == seq[r].inputs
<1>1. PICK i \in Slot, c \in Free(slots), n \in 0 .. Len(inputs) - 1 : Inserts(r, i, c, n)
  BY <1>0, InsertDoes
<1>2. Fresh(r) /\ inputs \in Seq(Ptr) /\ Len(inputs) = Len(text[r]) /\ Len(inputs) \in Nat \ {0}
  BY <1>0, InsertDoes
<1>3. handler[r] = "insert" /\ handler' = [handler EXCEPT ![r] = "stream"] /\ permits' = permits
      /\ UNCHANGED <<text, work, fwd>>
  BY DEF Insert, runVars
<1>4. inputs = [k \in 1 .. Len(text[r]) |-> <<r, k>>] /\ r \notin Live /\ seq[r].pendingInputs = <<>>
  BY <1>2, <1>3 DEF Fresh
<1>5. c \in Slot /\ seqs[i] = None /\ IsSequence(seq[r]) /\ n \in Nat /\ n < Len(inputs)
  BY <1>0, <1>1, <1>2 DEF Free, Inserts, Typed
<1> DEFINE x == SubSeq(inputs, 1, n)
           y == SubSeq(inputs, n + 1, Len(inputs))
           z == [Inputs |-> x, InUse |-> TRUE, lastUsed |-> clock]
           u == [seq[r] EXCEPT !.cache = c]
           s == [u EXCEPT !.inputs = y]
<1>6. slots' = [slots EXCEPT ![c] = z] /\ seq' = [seq EXCEPT ![r] = s] /\ seqs' = [seqs EXCEPT ![i] = r]
  BY <1>0, <1>1 DEF Typed, Inserts
<1>7. \A p \in ToSet(inputs) : \E k \in 1 .. Len(text[r]) : p = <<r, k>>
  BY <1>4 DEF ToSet
<1>8. inputs[Len(inputs)] = <<r, Len(text[r])>>
  BY <1>2, <1>4
<1> HIDE DEF inputs
<1>9. /\ x \in Seq(Ptr) /\ ToSet(x) \subseteq ToSet(inputs)
      /\ y \in Seq(Ptr) /\ ToSet(y) \subseteq ToSet(inputs)
  <2>1. n <= Len(inputs) /\ n + 1 \in Nat \ {0} /\ n \in Int /\ Len(inputs) \in Int
    BY <1>2, <1>5
  <2> QED BY <1>2, <2>1, SubSeqToSet
<1>10. y # <<>> /\ y[Len(y)] = inputs[Len(inputs)]
  <2>1. \A k \in n + 1 .. Len(inputs) : inputs[k] \in Ptr
    BY <1>2, <1>5
  <2>2. /\ Len(y) = (IF n + 1 <= Len(inputs) THEN Len(inputs) - (n + 1) + 1 ELSE 0)
        /\ \A k \in 1 .. Len(inputs) - (n + 1) + 1 : y[k] = inputs[n + 1 + k - 1]
    BY <1>2, <1>5, <2>1, SubSeqProperties
  <2> HIDE DEF y
  <2> DEFINE m == Len(inputs) - n
  <2>3. /\ m \in Nat \ {0} /\ m \in 1 .. Len(inputs) - (n + 1) + 1 /\ n + 1 + m - 1 = Len(inputs)
        /\ m = Len(inputs) - (n + 1) + 1 /\ n + 1 <= Len(inputs)
    <3>1. Len(inputs) \in Nat /\ n \in Nat /\ n < Len(inputs)
      BY <1>2, <1>5
    <3> QED BY ONLY <3>1
  <2> HIDE DEF m
  <2>6. Len(y) = m
    BY <2>2, <2>3
  <2>4. y[m] = inputs[Len(inputs)]
    BY <2>2, <2>3
  <2>5. y # <<>>
    BY <2>3, <2>6
  <2> QED BY <2>4, <2>5, <2>6
<1> HIDE DEF x, y
<1>11. /\ IsSequence(u) /\ SameOut(u, seq[r]) /\ u.cache = c
       /\ u.pendingInputs = seq[r].pendingInputs
  <2>1. IsSequence(u) /\ u.cache = c /\ u.pendingInputs = seq[r].pendingInputs
    BY <1>5 DEF IsSequence
  <2> QED BY <1>5, <2>1, OutputKept
<1> HIDE DEF u
<1>12. /\ IsSequence(s) /\ s.cache = c /\ s.inputs = y /\ s.pendingInputs = <<>>
       /\ SameOut(s, seq[r])
  <2>1. IsSequence(s) /\ s.cache = u.cache /\ s.inputs = y /\ s.pendingInputs = u.pendingInputs
    <3>1. WithInputs(u, y) = s
      BY DEF WithInputs
    <3> HIDE DEF s
    <3>2. Keeps(WithInputs(u, y), u) /\ WithInputs(u, y).inputs = y
          /\ WithInputs(u, y).pendingInputs = u.pendingInputs
      BY <1>9, <1>11, InputFields
    <3> QED BY <3>1, <3>2 DEF Keeps
  <2>2. SameOut(s, u)
    BY <1>11, OutputKept
  <2> HIDE DEF s
  <2> QED BY <1>4, <1>11, <2>1, <2>2 DEF SameOut
<1> HIDE DEF s
<1>13. seq'[r] = s /\ \A q \in Req \ {r} : seq'[q] = seq[q]
  BY <1>0, <1>6, <1>12, SeqTyped
<1>14. slots'[c] = z /\ \A t \in Slot \ {c} : slots'[t] = slots[t]
  <2> HIDE DEF z
  <2> QED BY <1>0, <1>5, <1>6 DEF Typed
<1>15. slots'[c].Inputs = x /\ slots'[c].InUse
  BY <1>14
<1>16. seqs'[i] = r /\ \A j \in Slot \ {i} : seqs'[j] = seqs[j]
  BY <1>0, <1>6 DEF Typed
<1>17. Live' = Live \cup {r}
  <2>1. None \notin Req
    BY RunnerAssumption
  <2> QED BY <1>5, <1>16, <2>1 DEF Live
<1>18. Inserted(r, i, c, x, y)
  BY <1>3, <1>4, <1>5, <1>7, <1>8, <1>9, <1>10, <1>12, <1>13, <1>14, <1>15, <1>16, <1>17 DEF Inserted
<1> QED BY <1>5, <1>18

LEMMA SampledNew ==
    ASSUME Inv, Sampled, NEW r \in Req, NewSequence(r)
    PROVE  Sampled'
<1>0. Typed /\ Lives
  BY DEF Inv
<1>1. handler[r] = "new" /\ UNCHANGED <<seqs, slots, work, fwd>>
  BY DEF NewSequence, cacheVars, runVars
<1>2. r \notin Live /\ Live' = Live /\ Len(text[r]) = 0
  BY <1>0, <1>1 DEF Lives, Fresh, Live, Sampled
<1>3. \A p \in Ptr : (Awaited(p) <=> Awaited(p)') /\ (Carries(p)' <=> Carries(p))
  BY <1>1 DEF Awaited, Awaits, Carries
<1>4. BatchesRead'
  BY <1>1 DEF Sampled, BatchesRead
<1>5. CASE handler' = [handler EXCEPT ![r] = "failed"] /\ UNCHANGED <<seq, text>>
  <2>1. \A q \in Req : (handler'[q] = "new" => handler[q] = "new") /\ (Early(q)' => Early(q))
    BY <1>0, <1>5 DEF Typed, Early
  <2> QED BY <1>0, <1>1, <1>3, <1>4, <1>5, <2>1, SampledQuiet
<1>6. CASE Requested(r)
  <2>1. \A p \in Ptr : p[1] \in Req /\ p[2] \in Nat
    BY DEF Ptr
  <2>2. \A p \in Ptr : p[1] # r => (Made(p) <=> Made(p)') /\ (Open(p) <=> Open(p)')
    BY <1>6, <2>1 DEF Made, Open, Requested
  <2>3. \A p \in Ptr : p[1] = r => ~Made(p) /\ (Made(p)' => ~Open(p)')
    <3>1. \A k \in 1 .. Len(text'[r]) : text'[r][k] # Placeholder
      BY <1>6 DEF Requested
    <3> QED BY <1>2, <3>1 DEF Made, Open
  <2>4. \A q \in Req : q # r => handler'[q] = handler[q] /\ text'[q] = text[q] /\ seq'[q] = seq[q]
    BY <1>6 DEF Requested
  <2>5. handler'[r] = "acquire"
    BY <1>6 DEF Requested
  <2>6. \A q \in Req : handler'[q] = "new" => handler[q] = "new" /\ Len(text'[q]) = Len(text[q])
    BY <2>4, <2>5
  <2>7. \A p \in Ptr : Made(p) => Made(p)' /\ (Open(p)' => Open(p))
    BY <2>2, <2>3
  <2>8. \A p \in Ptr : Made(p)' /\ Early(p[1])' => (Made(p) /\ Early(p[1])) \/ ~Open(p)'
    BY <2>1, <2>2, <2>3, <2>4 DEF Early
  <2>9. \A q \in Live' : \A p \in Ptr : Wants(q, p)' => q \in Live /\ Wants(q, p)
    BY <1>2, <2>4 DEF Wants, Live
  <2>10. \A p \in Ptr : InCache(p)' => InCache(p)
    BY <1>1 DEF InCache
  <2>11. ASSUME NEW p \in Ptr, Carries(p)'
         PROVE  /\ Carries(p)
                /\ Open(p)' /\ Awaited(p) /\ p \in ToSet(seq[p[1]].pendingInputs) =>
                       p[1] \in Live' /\ p \in ToSet(seq'[p[1]].pendingInputs)
    <3>1. Awaited(p) => p[1] \in Live
      BY <2>1 DEF Awaited, Live
    <3> QED BY <1>2, <1>3, <2>1, <2>4, <2>11, <3>1
  <2> HIDE DEF Sampled
  <2> QED BY <1>0, <1>3, <1>4, <2>6, <2>7, <2>8, <2>9, <2>10, <2>11, SampledFrame
<1> QED BY <1>0, <1>5, <1>6, NewRequest

LEMMA SampledInsert ==
    ASSUME Inv, Sampled, NEW r \in Req, Insert(r)
    PROVE  Sampled'
<1>0. Typed /\ handler[r] = "insert"
  BY DEF Inv, Insert
<1>s. PICK i \in Slot, c \in Slot : \E x, y : Inserted(r, i, c, x, y)
  BY InsertMoves
<1>1. PICK x, y : Inserted(r, i, c, x, y)
  BY <1>s
<1>2. \A p \in Ptr : p[1] \in Req /\ p[2] \in Nat
  BY DEF Ptr
<1>3. \A p \in Ptr : (Made(p) <=> Made(p)') /\ (Open(p) <=> Open(p)')
  BY <1>1 DEF Made, Open, Inserted
<1>4. \A p \in ToSet(x) \cup ToSet(y) : Settled(p) /\ p \in Ptr
  <2>1. ASSUME NEW k \in 1 .. Len(text[r]) PROVE Settled(<<r, k>>) /\ <<r, k>> \in Ptr
    <3>1. Len(text[r]) \in Nat
      BY <1>0 DEF Typed
    <3>2. <<r, k>> \in Ptr /\ Made(<<r, k>>)
      BY <3>1 DEF Ptr, Made
    <3>3. Early(<<r, k>>[1])
      BY <1>0 DEF Early
    <3> QED BY <3>2, <3>3 DEF Sampled, Settled
  <2> QED BY <1>1, <2>1 DEF Inserted
<1>5. \A q \in Req : /\ handler'[q] = "new" => handler[q] = "new"
                     /\ Early(q)' => Early(q)
  <2>1. handler' = [handler EXCEPT ![r] = "stream"]
    BY <1>1 DEF Inserted
  <2> QED BY <1>0, <2>1 DEF Typed, Early
<1>6. \A p \in Ptr : Awaited(p) => Awaited(p)'
  <2>1. None \notin Req
    BY RunnerAssumption
  <2> QED BY <1>1, <1>2, <2>1 DEF Awaited, Awaits, Inserted
<1>7. ASSUME NEW q \in Live', NEW p \in Ptr, Wants(q, p)'
      PROVE  (q \in Live /\ Wants(q, p)) \/ Settled(p)
  <2>1. q \in Req
    BY DEF Live
  <2>2. CASE q = r
    <3>1. p \in ToSet(y)
      <4>1. ToSet(<<>>) = {}
        BY DEF ToSet
      <4> QED BY <1>1, <1>7, <2>2, <4>1 DEF Wants, Inserted
    <3> QED BY <1>4, <3>1
  <2>3. CASE q # r
    BY <1>1, <1>7, <2>1, <2>3 DEF Wants, Inserted
  <2> QED BY <2>2, <2>3
<1>8. \A p \in Ptr : InCache(p)' => InCache(p) \/ Settled(p)
  BY <1>1, <1>4 DEF InCache, Inserted
<1>9. ASSUME NEW p \in Ptr, Carries(p)'
      PROVE  /\ Carries(p)
             /\ Open(p)' /\ Awaited(p) /\ p \in ToSet(seq[p[1]].pendingInputs) =>
                       p[1] \in Live' /\ p \in ToSet(seq'[p[1]].pendingInputs)
  <2>1. Carries(p)
    BY <1>1, <1>9 DEF Carries, Inserted
  <2>2. Awaited(p) => p[1] \in Live
    BY <1>2 DEF Awaited, Live
  <2> QED BY <1>1, <1>2, <2>1, <2>2 DEF Inserted
<1>10. BatchesRead'
  BY <1>1 DEF Sampled, BatchesRead, Inserted
<1>11. \A q \in Req : handler'[q] = "new" => handler[q] = "new" /\ Len(text'[q]) = Len(text[q])
  BY <1>1, <1>5 DEF Inserted
<1>12. \A p \in Ptr : Settled(p) => Settled(p)'
  BY <1>3 DEF Settled
<1>13. \A q \in Live' : \A p \in Ptr : Wants(q, p)' =>
              \/ q \in Live /\ Wants(q, p)
              \/ InCache(p)
              \/ Made(p)' /\ (Open(p)' => p[1] = q /\ Awaited(p)')
  BY <1>7, <1>12 DEF Settled
<1>14. \A p \in Ptr : InCache(p)' => InCache(p) \/ Settled(p)'
  BY <1>8, <1>12
<1> HIDE DEF Sampled
<1> QED BY <1>0, <1>2, <1>3, <1>5, <1>6, <1>9, <1>10, <1>11, <1>13, <1>14, SampledFrame

-----------------------------------------------------------------------------
(* One slot of a batch.                                                    *)

LEMMA ConcatLast ==
    ASSUME NEW S, NEW a \in Seq(S), NEW b \in Seq(S), b # <<>>
    PROVE  a \o b \in Seq(S) /\ a \o b # <<>> /\ Last(a \o b) = Last(b)
<1> DEFINE c == a \o b
<1>1. /\ Len(a) \in Nat /\ Len(b) \in Nat /\ Len(b) # 0 /\ Len(c) = Len(a) + Len(b)
      /\ c \in Seq(S)
      /\ \A i \in 1 .. Len(a) + Len(b) : c[i] = IF i <= Len(a) THEN a[i] ELSE b[i - Len(a)]
  BY ConcatProperties
<1> HIDE DEF c
<1>2. c[Len(c)] = b[Len(b)] /\ c # <<>>
  <2>1. /\ Len(c) \in 1 .. Len(a) + Len(b) /\ ~(Len(c) <= Len(a)) /\ Len(c) - Len(a) = Len(b)
        /\ Len(c) # 0
    BY <1>1
  <2> QED BY <1>1, <2>1
<1> QED BY <1>1, <1>2 DEF Last, c

LEMMA CutLast ==
    ASSUME NEW S, NEW x \in Seq(S), x # <<>>, NEW n \in 0 .. Len(x)
    PROVE  LET a == SubSeq(x, 1, n)
               b == SubSeq(x, n + 1, Len(x))
           IN  /\ b = <<>> <=> n = Len(x)
               /\ n < Len(x) => Last(b) = Last(x)
               /\ n = Len(x) => a = x
<1> DEFINE a == SubSeq(x, 1, n)
           b == SubSeq(x, n + 1, Len(x))
<1>1. Len(x) \in Nat \ {0} /\ n \in Nat /\ n <= Len(x)
  OBVIOUS
<1>2. a \in Seq(S) /\ b \in Seq(S) /\ Len(a) = n /\ Len(b) = Len(x) - n
  BY Cut
<1>3. \A i \in n + 1 .. Len(x) : x[i] \in S
  BY <1>1
<1>4. \A i \in 1 .. Len(x) - (n + 1) + 1 : b[i] = x[n + 1 + i - 1]
  BY <1>1, <1>3, SubSeqProperties
<1>5. \A i \in 1 .. n : x[i] \in S
  BY <1>1
<1>6. \A i \in 1 .. n - 1 + 1 : a[i] = x[1 + i - 1]
  BY <1>1, <1>5, SubSeqProperties
<1> HIDE DEF a, b
<1>7. b = <<>> <=> n = Len(x)
  BY <1>1, <1>2
<1>8. ASSUME n < Len(x) PROVE b[Len(b)] = x[Len(x)]
  <2> DEFINE m == Len(x) - n
  <2>1. m \in 1 .. Len(x) - (n + 1) + 1 /\ n + 1 + m - 1 = Len(x)
    BY ONLY <1>1, <1>8
  <2>2. Len(b) = m
    BY <1>2
  <2> HIDE DEF m
  <2> QED BY <1>4, <2>1, <2>2
<1>9. ASSUME n = Len(x) PROVE a = x
  <2>1. \A i \in 1 .. Len(x) : a[i] = x[i]
    <3>1. ASSUME NEW i \in 1 .. Len(x) PROVE i \in 1 .. n - 1 + 1 /\ 1 + i - 1 = i
      BY <1>1, <1>9
    <3> QED BY <1>6, <3>1
  <2> QED BY <1>2, <1>9, <2>1, SeqEqual
<1> QED BY <1>7, <1>8, <1>9 DEF a, b, Last

\* What a sequence has to evaluate, with or without a KV cache.
LEMMA InputsIs ==
    ASSUME Typed, NEW r \in Req, seq[r].inputs # <<>>
    PROVE  /\ Inputs(r) \in Seq(Ptr) /\ Inputs(r) # <<>> /\ Last(Inputs(r)) = Last(seq[r].inputs)
           /\ ToSet(Inputs(r)) \subseteq
                 ToSet(seq[r].inputs) \cup ToSet(slots[seq[r].cache].Inputs)
           /\ Cached(r) \in Seq(Ptr)
           /\ ToSet(Cached(r)) \subseteq ToSet(slots[seq[r].cache].Inputs)
<1> DEFINE x == seq[r].inputs
           held == slots[seq[r].cache].Inputs
<1>1. x \in Seq(Ptr) /\ held \in Seq(Ptr) /\ x # <<>>
  <2>1. IsSequence(seq[r])
    BY DEF Typed
  <2> QED BY <2>1 DEF Typed, IsSequence
<1>2. Inputs(r) = x \/ Inputs(r) = held \o x
  BY DEF Inputs
<1>3. Cached(r) = held \/ Cached(r) = <<>>
  BY DEF Cached
<1> HIDE DEF x, held
<1>4. /\ held \o x \in Seq(Ptr) /\ held \o x # <<>> /\ Last(held \o x) = Last(x)
      /\ ToSet(held \o x) = ToSet(held) \cup ToSet(x)
  BY <1>1, ConcatLast, ToSetConcat
<1>5. ToSet(<<>>) = {} /\ <<>> \in Seq(Ptr)
  BY DEF ToSet
<1>6. Cached(r) \in Seq(Ptr) /\ ToSet(Cached(r)) \subseteq ToSet(held)
  BY <1>1, <1>3, <1>5
<1>7. /\ Inputs(r) \in Seq(Ptr) /\ Inputs(r) # <<>> /\ Last(Inputs(r)) = Last(x)
      /\ ToSet(Inputs(r)) \subseteq ToSet(x) \cup ToSet(held)
  <2>1. CASE Inputs(r) = x
    BY <1>1, <2>1
  <2>2. CASE Inputs(r) = held \o x
    BY <1>4, <2>2
  <2> QED BY <1>2, <2>1, <2>2
<1> QED BY <1>6, <1>7 DEF x, held

\* A shift keeps only what was there.
LEMMA ShiftedToSet ==
    ASSUME NEW x \in Seq(Ptr), Len(x) = NumCtx, NEW keep \in 0 .. NumCtx - 1
    PROVE  ToSet(Shifted(x, keep)) \subseteq ToSet(x)
<1> DEFINE d == ShiftDiscard(x, keep)
           a == SubSeq(x, 1, keep)
           b == SubSeq(x, keep + d + 1, Len(x))
<1>1. d \in 1 .. NumCtx - keep
  BY ShiftedIs
<1>2. NumCtx \in Nat /\ Len(x) \in Nat
  BY CacheAssumption
<1>3. Shifted(x, keep) = a \o b
  BY DEF Shifted
<1> HIDE DEF d
<1>4. keep + d + 1 \in Nat \ {0} /\ keep \in Int /\ keep <= Len(x) /\ 1 \in Nat \ {0}
  BY <1>1, <1>2
<1>5. a \in Seq(Ptr) /\ ToSet(a) \subseteq ToSet(x)
  BY <1>4, SubSeqToSet
<1>6. b \in Seq(Ptr) /\ ToSet(b) \subseteq ToSet(x)
  BY <1>2, <1>4, SubSeqToSet
<1> HIDE DEF a, b
<1> QED BY <1>3, <1>5, <1>6, ToSetConcat

\* Inputs of r go into the batch, its list or its cache slot.
Forwarded(r, taken, rest, cached) ==
    LET own  == ToSet(slots[seq[r].cache].Inputs)
        last == IF rest # <<>> THEN Last(rest) ELSE Last(taken)
    IN  /\ Moves(r, taken, rest, cached) /\ SameOut(seq'[r], seq[r])
        /\ taken # <<>> \/ rest # <<>>
        /\ ToSet(taken) \cup ToSet(rest) \subseteq ToSet(seq[r].inputs) \cup own
        /\ ToSet(cached) \subseteq own
        /\ ToSet(fwd'.inputs) = ToSet(fwd.inputs) \cup ToSet(taken)
        /\ Begins(fwd.outputs, fwd'.outputs)
        /\ last = Last(seq[r].inputs)
        /\ r \notin Embedding /\ rest = <<>> =>
              /\ seq'[r].iBatch + 1 \in 1 .. Len(fwd'.outputs)
              /\ fwd'.outputs[seq'[r].iBatch + 1] = last

LEMMA ForwardedFill ==
    ASSUME Inv, mu = Forward, fwd.left > 0, seqs[Cursor] # None,
           NEW cached \in Seq(Ptr), Len(cached) < NumCtx, FillBatch(seqs[Cursor], cached),
           Len(fwd.inputs) < model.batchSize,
           ToSet(cached) \subseteq ToSet(slots[seq[seqs[Cursor]].cache].Inputs)
    PROVE  \E taken \in Seq(Ptr), rest \in Seq(Ptr) : Forwarded(seqs[Cursor], taken, rest, cached)
<1>0. Typed /\ Pending
  BY DEF Inv
<1> DEFINE r == seqs[Cursor]
           inputs == Inputs(r)
<1>1. /\ r \in Req /\ seq[r].inputs # <<>> /\ fwd # None /\ fwd \in ForwardType
      /\ IsSequence(seq[r]) /\ fwd.left > 0
  BY AtCursor DEF Live
<1>2. PICK n \in 0 .. Len(inputs), new \in ForwardType : Fills(r, cached, n, new)
  BY FillDoes
<1> HIDE DEF r
<1>3. /\ inputs \in Seq(Ptr) /\ inputs # <<>> /\ Last(inputs) = Last(seq[r].inputs)
      /\ ToSet(inputs) \subseteq ToSet(seq[r].inputs) \cup ToSet(slots[seq[r].cache].Inputs)
  BY <1>0, <1>1, InputsIs
<1> DEFINE taken == SubSeq(inputs, 1, n)
           rest == SubSeq(inputs, n + 1, Len(inputs))
<1> HIDE DEF inputs
<1>4. Len(inputs) \in Nat \ {0} /\ n \in Nat /\ n <= Len(inputs)
  BY <1>3
<1>5. /\ taken \in Seq(Ptr) /\ ToSet(taken) \subseteq ToSet(inputs) /\ Len(taken) = n
      /\ rest \in Seq(Ptr) /\ ToSet(rest) \subseteq ToSet(inputs)
  <2>1. n \in Int /\ n + 1 \in Nat \ {0} /\ 1 \in Nat \ {0} /\ Len(inputs) \in Int
    BY <1>4
  <2> QED BY <1>2, <1>3, <1>4, <2>1, SubSeqToSet, Cut
<1>6. /\ rest = <<>> <=> n = Len(inputs)
      /\ n < Len(inputs) => Last(rest) = Last(inputs)
      /\ n = Len(inputs) => taken = inputs
  BY <1>2, <1>3, CutLast
<1>7. inputs[Len(inputs)] = Last(inputs) /\ Last(inputs) \in Ptr
  BY <1>3, <1>4 DEF Last
<1> HIDE DEF taken, rest
<1>8. /\ Moves(r, taken, rest, cached) /\ SameOut(seq'[r], seq[r]) /\ Advance(new)
      /\ new.seqIdx = fwd.seqIdx /\ new.left = fwd.left
      /\ new.inputs = fwd.inputs \o taken
      /\ \E asking \in Seq(Ptr) : new.outputs = fwd.outputs \o asking
      /\ r \notin Embedding /\ n > 0 /\ n = Len(inputs) =>
              /\ new.outputs = fwd.outputs \o <<inputs[n]>>
              /\ seq'[r].iBatch = Len(fwd.outputs)
  BY <1>2 DEF Fills, taken, rest, inputs
<1>9. fwd'.inputs = new.inputs /\ fwd'.outputs = new.outputs
  BY <1>0, <1>1, <1>8, Advanced
<1>10. fwd.inputs \in Seq(Ptr) /\ fwd.outputs \in Seq(Ptr)
  BY <1>1 DEF ForwardType, Ptr
<1>11. ToSet(fwd'.inputs) = ToSet(fwd.inputs) \cup ToSet(taken)
  BY <1>5, <1>8, <1>9, <1>10, ToSetConcat
<1>12. Begins(fwd.outputs, fwd'.outputs)
  <2>1. PICK asking \in Seq(Ptr) : new.outputs = fwd.outputs \o asking
    BY <1>8
  <2>2. Begins(fwd.outputs, fwd.outputs \o asking)
    <3>1. Begins(asking, asking)
      BY DEF Begins
    <3> QED BY <1>10, <3>1, ConcatBegins
  <2> QED BY <1>9, <2>1, <2>2
<1> DEFINE last == IF rest # <<>> THEN Last(rest) ELSE Last(taken)
<1>13. last = Last(inputs) /\ (taken # <<>> \/ rest # <<>>)
  BY <1>3, <1>4, <1>6
<1> HIDE DEF last
<1>14. ASSUME r \notin Embedding, rest = <<>>
       PROVE  /\ seq'[r].iBatch + 1 \in 1 .. Len(fwd'.outputs)
              /\ fwd'.outputs[seq'[r].iBatch + 1] = last
  <2>1. n > 0 /\ n = Len(inputs)
    BY <1>4, <1>6, <1>14
  <2> DEFINE o == fwd.outputs
             e == inputs[n]
             b == <<e>>
             c == o \o b
  <2>2. fwd'.outputs = c /\ seq'[r].iBatch = Len(o)
    BY <1>8, <1>9, <1>14, <2>1
  <2>3. e = last /\ e \in Ptr
    BY <1>7, <1>13, <2>1
  <2>4. o \in Seq(Ptr) /\ Len(o) \in Nat
    BY <1>10
  <2> HIDE DEF o, e
  <2>5. Len(c) = Len(o) + 1 /\ c[Len(o) + 1] = e
    BY <2>3, <2>4
  <2> HIDE DEF c
  <2> QED BY <2>2, <2>3, <2>4, <2>5
<1>15. ToSet(taken) \cup ToSet(rest) \subseteq
          ToSet(seq[r].inputs) \cup ToSet(slots[seq[r].cache].Inputs)
  BY <1>3, <1>5
<1>16. ToSet(cached) \subseteq ToSet(slots[seq[r].cache].Inputs)
  BY DEF r
<1>17. Forwarded(r, taken, rest, cached)
  BY <1>3, <1>8, <1>11, <1>12, <1>13, <1>14, <1>15, <1>16 DEF Forwarded, last
<1> QED BY <1>5, <1>17 DEF r

\* The sequence at the cursor gets other inputs, none of them in this batch.
LEMMA ForwardedRest ==
    ASSUME Inv, mu = Forward, fwd.left > 0, seqs[Cursor] # None,
           NEW x \in Seq(Ptr), NEW y \in Seq(Ptr), NEW new \in ForwardType, Advance(new),
           new.seqIdx = fwd.seqIdx, new.left = fwd.left, new.inputs = fwd.inputs,
           new.outputs = fwd.outputs,
           LET r == seqs[Cursor] IN
           /\ seq' = [seq EXCEPT ![r].inputs = x]
           /\ slots' = [slots EXCEPT ![seq[r].cache].Inputs = y]
           /\ x # <<>> /\ Last(x) = Last(seq[r].inputs)
           /\ ToSet(x) \subseteq ToSet(seq[r].inputs) \cup ToSet(slots[seq[r].cache].Inputs)
           /\ ToSet(y) \subseteq ToSet(slots[seq[r].cache].Inputs)
    PROVE  Forwarded(seqs[Cursor], <<>>, x, y)
<1>0. Typed /\ Pending
  BY DEF Inv
<1> DEFINE r == seqs[Cursor]
<1>1. /\ r \in Req /\ fwd # None /\ fwd \in ForwardType
      /\ IsSequence(seq[r]) /\ seq[r].pendingInputs = <<>>
  BY AtCursor DEF Live
<1>2. fwd'.inputs = fwd.inputs /\ fwd'.outputs = fwd.outputs
  BY <1>0, <1>1, Advanced
<1> HIDE DEF r
<1>3. /\ seq' = [seq EXCEPT ![r].inputs = x] /\ slots' = [slots EXCEPT ![seq[r].cache].Inputs = y]
      /\ x # <<>> /\ Last(x) = Last(seq[r].inputs)
      /\ ToSet(x) \subseteq ToSet(seq[r].inputs) \cup ToSet(slots[seq[r].cache].Inputs)
      /\ ToSet(y) \subseteq ToSet(slots[seq[r].cache].Inputs)
  BY DEF r
<1>4. Moves(r, <<>>, x, y)
  <2>1. Moves(r, seq[r].pendingInputs, x, y)
    BY <1>0, <1>1, <1>3, NewInputs
  <2> QED BY <1>1, <2>1
<1>5. SameOut(seq'[r], seq[r])
  <2> DEFINE s == [seq[r] EXCEPT !.inputs = x]
  <2>1. SameOut(s, seq[r])
    BY <1>1, OutputKept
  <2>2. seq'[r] = s
    BY <1>0, <1>1, <1>3 DEF Typed
  <2> QED BY <2>1, <2>2
<1>6. Begins(fwd.outputs, fwd.outputs) /\ ToSet(<<>>) = {}
  <2>1. fwd.outputs \in Seq(Ptr)
    BY <1>1 DEF ForwardType, Ptr
  <2> QED BY <2>1 DEF Begins, ToSet
<1>7. Forwarded(r, <<>>, x, y)
  BY <1>2, <1>3, <1>4, <1>5, <1>6 DEF Forwarded
<1> QED BY <1>7 DEF r

LEMMA ForwardedSlot ==
    ASSUME Inv, ForwardSlot
    PROVE  LET r == seqs[Cursor] IN
           /\ fwd # None /\ fwd \in ForwardType /\ fwd' # None /\ fwd' \in ForwardType
           /\ Cursor \in Slot /\ UNCHANGED <<handler, text, work, prev>>
           /\ r # None => r \in Live /\ seq[r].pendingInputs = <<>> /\ seq[r].inputs # <<>>
           /\ \/ /\ UNCHANGED <<seqs, seq, slots>>
                 /\ fwd'.inputs = fwd.inputs /\ fwd'.outputs = fwd.outputs
              \/ /\ r # None /\ seqs' = seqs
                 /\ \E taken, rest, cached \in Seq(Ptr) : Forwarded(r, taken, rest, cached)
              \/ /\ r # None /\ EndAtLimit /\ Removes(Cursor) /\ CutsCache
                 /\ fwd'.inputs = fwd.inputs /\ fwd'.outputs = fwd.outputs
<1>0. Typed /\ Pending
  BY DEF Inv
<1> DEFINE r == seqs[Cursor]
<1>1. mu = Forward /\ fwd.left > 0 /\ UNCHANGED <<handler, text, work, prev>>
  BY DEF ForwardSlot
<1>2. /\ fwd # None /\ fwd \in ForwardType /\ Cursor \in Slot
      /\ r # None => r \in Live /\ seq[r].pendingInputs = <<>> /\ seq[r].inputs # <<>>
  BY <1>1, AtCursor
<1>3. r # None => /\ r \in Req /\ IsSequence(seq[r])
                  /\ Inputs(r) \in Seq(Ptr) /\ Inputs(r) # <<>> /\ Last(Inputs(r)) = Last(seq[r].inputs)
                  /\ ToSet(Inputs(r)) \subseteq
                        ToSet(seq[r].inputs) \cup ToSet(slots[seq[r].cache].Inputs)
                  /\ Cached(r) \in Seq(Ptr)
                  /\ ToSet(Cached(r)) \subseteq ToSet(slots[seq[r].cache].Inputs)
  <2>1. r # None => r \in Req
    BY <1>2 DEF Live
  <2> HIDE DEF r
  <2> QED BY <1>0, <1>2, <2>1, InputsIs DEF Typed
<1>4. ASSUME NEW new \in ForwardType, Advance(new), new.seqIdx = fwd.seqIdx, new.left = fwd.left
      PROVE  /\ fwd' # None /\ fwd' \in ForwardType
             /\ fwd'.inputs = new.inputs /\ fwd'.outputs = new.outputs
  BY <1>0, <1>1, <1>2, <1>4, Advanced
<1> DEFINE skipped == [fwd EXCEPT !.resumeSeq = IF @ = -1 THEN Cursor ELSE @]
           dropped == [fwd EXCEPT !.seqs[Cursor] = None]
<1>6. /\ skipped \in ForwardType /\ skipped.seqIdx = fwd.seqIdx /\ skipped.left = fwd.left
      /\ skipped.inputs = fwd.inputs /\ skipped.outputs = fwd.outputs
      /\ dropped \in ForwardType /\ dropped.seqIdx = fwd.seqIdx /\ dropped.left = fwd.left
      /\ dropped.inputs = fwd.inputs /\ dropped.outputs = fwd.outputs
  <2> HIDE DEF Cursor
  <2> QED BY <1>2, BatchFields
<1> HIDE DEF skipped, dropped
<1> DEFINE Handed == \E taken, rest, cached \in Seq(Ptr) : Forwarded(r, taken, rest, cached)
           Goal == \/ /\ UNCHANGED <<seqs, seq, slots>>
                      /\ fwd'.inputs = fwd.inputs /\ fwd'.outputs = fwd.outputs
                   \/ r # None /\ seqs' = seqs /\ Handed
                   \/ /\ r # None /\ EndAtLimit /\ Removes(Cursor) /\ CutsCache
                      /\ fwd'.inputs = fwd.inputs /\ fwd'.outputs = fwd.outputs
           Still == fwd' # None /\ fwd' \in ForwardType
<1>10. SUFFICES Goal /\ Still
  BY <1>1, <1>2
<1>7. CASE SkipSlot /\ UNCHANGED <<seqs, permits, shared>>
  <2>1. CASE r = None
    <3>1. Advance(fwd) /\ seq' = seq /\ slots' = slots
      BY <1>7, <2>1, RunnerAssumption DEF SkipSlot
    <3>2. Still /\ fwd'.inputs = fwd.inputs /\ fwd'.outputs = fwd.outputs
      BY <1>2, <1>4, <3>1
    <3> QED BY <1>7, <3>1, <3>2
  <2>2. CASE r # None
    <3>1. /\ Advance(skipped) /\ seq' = [seq EXCEPT ![r].inputs = Inputs(r)]
          /\ slots' = [slots EXCEPT ![seq[r].cache].Inputs = Cached(r)]
      BY <1>7, <2>2 DEF SkipSlot, skipped
    <3>2. Still
      BY <1>4, <1>6, <3>1
    <3>3. Forwarded(r, <<>>, Inputs(r), Cached(r))
      BY <1>1, <1>3, <1>6, <2>2, <3>1, ForwardedRest
    <3> HIDE DEF r
    <3>4. Handed
      <4>1. <<>> \in Seq(Ptr)
        OBVIOUS
      <4> QED BY <1>3, <2>2, <3>3, <4>1
    <3> QED BY <1>7, <2>2, <3>2, <3>4
  <2> QED BY <2>1, <2>2
<1>8. CASE EndAtLimit
  <2> DEFINE held == slots[seq[r].cache].Inputs
  <2>1. r # None /\ removeSequence(Cursor, seq[r], held, "length") /\ Advance(dropped)
    BY <1>8 DEF EndAtLimit, dropped
  <2>2. Still /\ fwd'.inputs = fwd.inputs /\ fwd'.outputs = fwd.outputs
    BY <1>4, <1>6, <2>1
  <2>3. IsSequence(seq[r]) /\ held \in Seq(Ptr)
    BY <1>0, <1>3, <2>1 DEF Typed, IsSequence
  <2>4. Removes(Cursor) /\ CutsCache
    <3> HIDE DEF Cursor
    <3>1. ToSet(held) \subseteq ToSet(slots[seq[r].cache].Inputs)
      OBVIOUS
    <3> HIDE DEF held
    <3> QED BY <1>0, <1>2, <2>1, <2>3, <3>1, RemoveOut
  <2> QED BY <1>8, <2>1, <2>2, <2>4
<1>9. CASE AddInputs /\ UNCHANGED <<seqs, permits>>
  <2> DEFINE sh == Shifted(Cached(r), numKeep(r))
  <2>1. r # None /\ Len(fwd.inputs) < model.batchSize
    BY <1>9 DEF AddInputs
  <2>2. Len(Cached(r)) = NumCtx =>
           /\ sh \in Seq(Ptr) /\ Len(sh) < NumCtx
           /\ ToSet(sh) \subseteq ToSet(slots[seq[r].cache].Inputs)
    <3> HIDE DEF r
    <3>1. numKeep(r) \in 0 .. NumCtx - 1 /\ Cached(r) \in Seq(Ptr)
      BY <1>3, <2>1, KeepBounds
    <3>2. ASSUME Len(Cached(r)) = NumCtx
          PROVE  sh \in Seq(Ptr) /\ Len(sh) < NumCtx /\ ToSet(sh) \subseteq ToSet(Cached(r))
      BY <3>1, <3>2, ShiftedTyped, ShiftedToSet
    <3> QED BY <1>3, <2>1, <3>2
  <2> HIDE DEF sh
  <2>3. ASSUME NEW cached \in Seq(Ptr), Len(cached) < NumCtx, FillBatch(r, cached),
               ToSet(cached) \subseteq ToSet(slots[seq[r].cache].Inputs)
        PROVE  Still /\ Handed
    <3>1. \E taken \in Seq(Ptr), rest \in Seq(Ptr) : Forwarded(r, taken, rest, cached)
      BY <1>1, <2>1, <2>3, ForwardedFill
    <3>2. \E n \in 0 .. Len(Inputs(r)), new \in ForwardType : Fills(r, cached, n, new)
      BY <1>1, <2>1, <2>3, FillDoes
    <3> HIDE DEF r
    <3>3. Still
      BY <1>4, <3>2 DEF Fills
    <3> QED BY <2>3, <3>1, <3>3
  <2>4. CASE Len(Cached(r)) < NumCtx /\ FillBatch(r, Cached(r))
    <3>1. Still /\ Handed
      <4> HIDE DEF r, Handed, Still
      <4> QED BY <1>3, <2>1, <2>3, <2>4
    <3> QED BY <1>9, <2>1, <3>1
  <2>5. CASE Len(Cached(r)) = NumCtx /\ FillBatch(r, sh)
    <3>1. Still /\ Handed
      <4> HIDE DEF r, Handed, Still
      <4> QED BY <2>2, <2>3, <2>5
    <3> QED BY <1>9, <2>1, <3>1
  <2>6. CASE Len(Cached(r)) = NumCtx /\ Reprocess(r)
    <3> DEFINE u == Inputs(r)
               z == sh \o u
    <3>1. /\ Advance(dropped) /\ seq' = [seq EXCEPT ![r].inputs = z]
          /\ slots' = [slots EXCEPT ![seq[r].cache].Inputs = <<>>]
      BY <2>6 DEF Reprocess, dropped, sh
    <3>2. /\ z \in Seq(Ptr) /\ z # <<>> /\ Last(z) = Last(u) /\ ToSet(z) = ToSet(sh) \cup ToSet(u)
      <4>1. u \in Seq(Ptr) /\ u # <<>> /\ sh \in Seq(Ptr)
        BY <1>3, <2>1, <2>2, <2>6
      <4> HIDE DEF u
      <4> QED BY <4>1, ConcatLast, ToSetConcat
    <3>3. Last(z) = Last(seq[r].inputs)
          /\ ToSet(z) \subseteq ToSet(seq[r].inputs) \cup ToSet(slots[seq[r].cache].Inputs)
      <4> HIDE DEF z, r
      <4> QED BY <1>3, <2>1, <2>2, <2>6, <3>2
    <3> HIDE DEF z, u
    <3>4. Still
      BY <1>4, <1>6, <3>1
    <3>5. Forwarded(r, <<>>, z, <<>>)
      <4>1. <<>> \in Seq(Ptr) /\ ToSet(<<>>) = {}
        BY DEF ToSet
      <4> QED BY <1>1, <1>3, <1>6, <2>1, <3>1, <3>2, <3>3, <4>1, ForwardedRest
    <3>6. Handed
      <4> HIDE DEF r
      <4>1. <<>> \in Seq(Ptr)
        OBVIOUS
      <4> QED BY <3>2, <3>5, <4>1
    <3> QED BY <1>9, <2>1, <3>4, <3>6
  <2> QED BY <2>4, <2>5, <2>6, <1>9 DEF AddInputs, sh
<1> QED BY <1>7, <1>8, <1>9 DEF ForwardSlot

\* A sequence that is removed is no longer live, all others are.
LEMMA RemovedLive ==
    ASSUME Typed, SlotPerPermit, NEW i \in Slot, seqs[i] # None, Removes(i)
    PROVE  /\ seqs[i] \in Live /\ Live' = Live \ {seqs[i]} /\ seqs'[i] = None
           /\ \A j \in Slot : seqs[j] # seqs[i] => seqs'[j] = seqs[j]
           /\ \A q \in Live' : seq'[q] = seq[q]
<1>1. seqs'[i] = None /\ \A j \in Slot \ {i} : seqs'[j] = seqs[j]
  BY DEF Removes, Typed
<1>2. seqs[i] \in Req /\ \A j \in Slot \ {i} : seqs[j] # seqs[i]
  BY DEF Typed, SlotPerPermit
<1>3. seqs[i] \in Live /\ Live' = Live \ {seqs[i]}
  <2>1. None \notin Req
    BY RunnerAssumption
  <2> QED BY <1>1, <1>2, <2>1 DEF Live
<1>4. \A q \in Live' : seq'[q] = seq[q]
  BY <1>3 DEF Removes, Live
<1> QED BY <1>1, <1>2, <1>3, <1>4

LEMMA SampledForwardSlot ==
    ASSUME Inv, Sampled, ForwardSlot
    PROVE  Sampled'
<1>0. Typed /\ SlotPerPermit
  BY DEF Inv
<1> DEFINE r == seqs[Cursor]
           i == Cursor
<1>1. /\ fwd # None /\ fwd' # None /\ i \in Slot /\ UNCHANGED <<handler, text, work, prev>>
      /\ r # None => r \in Live /\ seq[r].pendingInputs = <<>>
      /\ \/ /\ UNCHANGED <<seqs, seq, slots>>
            /\ fwd'.inputs = fwd.inputs
         \/ /\ r # None /\ seqs' = seqs
            /\ \E taken, rest, cached \in Seq(Ptr) : Forwarded(r, taken, rest, cached)
         \/ /\ r # None /\ Removes(i) /\ CutsCache
            /\ fwd'.inputs = fwd.inputs
  BY ForwardedSlot
<1> HIDE DEF i
<1>2. r = seqs[i]
  BY DEF i
<1> HIDE DEF r
<1>3. \A p \in Ptr : (Made(p) <=> Made(p)') /\ (Open(p) <=> Open(p)')
  BY <1>1 DEF Made, Open
<1>4. BatchesRead' /\ (\A p \in Ptr : Early(p[1])' <=> Early(p[1]))
      /\ \A q \in Req : handler'[q] = "new" => handler[q] = "new" /\ Len(text'[q]) = Len(text[q])
  BY <1>1 DEF Sampled, BatchesRead, Early
<1>5. ToSet(<<>>) = {} /\ \A p \in Ptr : Awaited(p) => p[1] \in Live
  <2>1. \A p \in Ptr : p[1] \in Req
    BY DEF Ptr
  <2> QED BY <2>1 DEF ToSet, Awaited, Live
<1>6. CASE UNCHANGED <<seqs, seq, slots>> /\ fwd'.inputs = fwd.inputs
  <2>1. \A p \in Ptr : (Awaited(p) => Awaited(p)') /\ (Carries(p)' => Carries(p))
    BY <1>1, <1>6 DEF Awaited, Awaits, Carries
  <2> QED BY <1>0, <1>1, <1>4, <1>6, <2>1, SampledQuiet DEF Early
<1>7. ASSUME r # None, seqs' = seqs, NEW taken \in Seq(Ptr), NEW rest \in Seq(Ptr), NEW cached \in Seq(Ptr),
             Forwarded(r, taken, rest, cached)
      PROVE  Sampled'
  <2> DEFINE own == slots[seq[r].cache].Inputs
  <2>1. /\ r \in Req /\ r \in Live /\ Live' = Live /\ seq[r].cache \in Slot /\ seq[r].pendingInputs = <<>>
    BY <1>0, <1>1, <1>7 DEF Live, Typed, IsSequence
  <2>2. /\ \A q \in Req : q # r => seq'[q] = seq[q]
        /\ seq'[r].pendingInputs = taken /\ seq'[r].inputs = rest
        /\ slots'[seq[r].cache].Inputs = cached
        /\ \A s \in Slot : s # seq[r].cache => slots'[s] = slots[s]
    BY <1>7 DEF Forwarded, Moves
  <2>3. /\ ToSet(taken) \cup ToSet(rest) \subseteq ToSet(seq[r].inputs) \cup ToSet(own)
        /\ ToSet(cached) \subseteq ToSet(own)
        /\ ToSet(fwd'.inputs) = ToSet(fwd.inputs) \cup ToSet(taken)
    BY <1>7 DEF Forwarded
  <2>4. ASSUME NEW p \in Ptr, p \in ToSet(own) PROVE InCache(p)
    BY <2>1, <2>4 DEF InCache
  <2> HIDE DEF own
  <2>5. \A q \in Live' : \A p \in Ptr : Wants(q, p)' => (q \in Live /\ Wants(q, p)) \/ InCache(p)
    BY <2>1, <2>2, <2>3, <2>4 DEF Wants, Live
  <2>6. \A p \in Ptr : InCache(p)' => InCache(p)
    <3>1. ASSUME NEW p \in Ptr, NEW s \in Slot, p \in ToSet(slots'[s].Inputs) PROVE InCache(p)
      BY <2>2, <2>3, <2>4, <3>1 DEF InCache
    <3> QED BY <3>1 DEF InCache
  <2>7. \A p \in Ptr : Awaited(p) => Awaited(p)'
    BY <1>1, <1>7 DEF Awaited, Awaits
  <2>8. ASSUME NEW p \in Ptr, Carries(p)'
        PROVE  \/ /\ Carries(p)
                  /\ Open(p)' /\ Awaited(p) /\ p \in ToSet(seq[p[1]].pendingInputs) =>
                       p[1] \in Live' /\ p \in ToSet(seq'[p[1]].pendingInputs)
               \/ \E q \in Live' : p \in ToSet(seq'[q].pendingInputs)
    <3>1. CASE p \in ToSet(taken)
      BY <2>1, <2>2, <3>1
    <3>2. CASE p \notin ToSet(taken)
      <4>1. Carries(p)
        BY <1>1, <2>3, <2>8, <3>2 DEF Carries
      <4>2. p \in ToSet(seq[p[1]].pendingInputs) => p[1] # r
        BY <1>5, <2>1
      <4>3. p[1] \in Req
        BY DEF Ptr
      <4> QED BY <1>5, <2>1, <2>2, <4>1, <4>2, <4>3
    <3> QED BY <3>1, <3>2
  <2> HIDE DEF Sampled
  <2> QED BY <1>0, <1>3, <1>4, <2>5, <2>6, <2>7, <2>8, SampledFrame
<1>8. CASE r # None /\ Removes(i) /\ CutsCache /\ fwd'.inputs = fwd.inputs
  <2>1. /\ r \in Live /\ Live' = Live \ {r} /\ seqs'[i] = None
        /\ \A j \in Slot : seqs[j] # r => seqs'[j] = seqs[j]
        /\ \A q \in Live' : seq'[q] = seq[q]
        /\ seq[r].pendingInputs = <<>>
    BY <1>0, <1>1, <1>2, <1>8, RemovedLive
  <2>2. \A q \in Live' : \A p \in Ptr : Wants(q, p)' => q \in Live /\ Wants(q, p)
    BY <2>1 DEF Wants
  <2>3. \A p \in Ptr : InCache(p)' => InCache(p)
    BY <1>8 DEF InCache, CutsCache
  <2>4. \A p \in Ptr : Awaited(p) /\ p[1] \in Live' => Awaited(p)'
    BY <1>1, <2>1 DEF Awaited, Awaits
  <2>5. ASSUME NEW p \in Ptr, Carries(p)'
        PROVE  /\ Carries(p)
               /\ Open(p)' /\ Awaited(p) /\ p \in ToSet(seq[p[1]].pendingInputs) =>
                       p[1] \in Live' /\ p \in ToSet(seq'[p[1]].pendingInputs)
    <3>1. Carries(p)
      BY <1>1, <1>8, <2>5 DEF Carries
    <3>2. p \in ToSet(seq[p[1]].pendingInputs) => p[1] # r
      BY <1>5, <2>1
    <3> QED BY <1>5, <2>1, <3>1, <3>2
  <2> HIDE DEF Sampled
  <2> QED BY <1>0, <1>3, <1>4, <2>2, <2>3, <2>4, <2>5, SampledFrame
<1> QED BY <1>1, <1>6, <1>7, <1>8

\* A batch reads its tokens when nothing else is in flight: all of them have been sampled.
LEMMA Alone ==
    ASSUME Inv, Order, NEW id \in DOMAIN work, GatherInputs(id)
    PROVE  DOMAIN work = {id} /\ \A v \in DOMAIN work, i \in Slot : ~Awaits(v, i)
<1>1. id = prev /\ work[id].pc = "wait" /\ work[id].after \notin DOMAIN work
  BY ReadsBatch
<1> QED BY <1>1 DEF Order, Awaits

LEMMA SampledGather ==
    ASSUME Inv, Order, Sampled, NEW id \in DOMAIN work, GatherInputs(id)
    PROVE  Sampled'
<1>0. Typed /\ Lives /\ SlotPerPermit
  BY DEF Inv
<1> DEFINE mine == SameSequences(id)
           sampled == {i \in mine : seq[seqs[i]].inputs = <<>>}
           Is(S, r) == \E i \in S : seqs[i] = r
<1>1. DOMAIN work = {id} /\ \A p \in Ptr : ~Awaited(p)
  BY Alone DEF Awaited
<1>2. /\ fwd = None /\ work[id].pc = "wait" /\ DOMAIN work' = {id} /\ ReadBatch(id)
  BY <1>1, ReadsBatch
<1>3. /\ UNCHANGED <<handler, seqs, fwd>>
      /\ text' = [r \in Req |-> IF Is(sampled, r) THEN Append(text[r], Placeholder) ELSE text[r]]
  BY DEF GatherInputs, runVars
<1>4. Reads(mine)
  BY GatherReads
<1>5. \A i \in mine : i \in Slot /\ seqs[i] \in Live /\ seqs[i] \in Req
  BY <1>0 DEF SameSequences, Live, Typed
<1>6. /\ work'[id].pc = "compute" /\ work'[id].tokens = Tokens(work[id].batchInputs)
      /\ work'[id].idx = 0
      /\ work'[id].next = [i \in Slot |-> IF i \in sampled
                              THEN <<seqs[i], Len(text[seqs[i]]) + 1>> ELSE None]
  BY <1>2 DEF ReadBatch, Sampled, BatchesRead
<1> HIDE DEF mine
<1>7. \A r \in Req : /\ text[r] \in Seq(Int) /\ Len(text[r]) \in Nat
                     /\ text'[r] = text[r] \/ text'[r] = Append(text[r], Placeholder)
  BY <1>0, <1>3 DEF Typed
<1>8. ASSUME NEW p \in Ptr, Made(p) PROVE Made(p)' /\ (Open(p)' <=> Open(p))
  <2>1. p[1] \in Req /\ p[2] \in 1 .. Len(text[p[1]])
    BY <1>8 DEF Made, Ptr
  <2> DEFINE x == text[p[1]]
             y == text'[p[1]]
             k == p[2]
  <2>2. x \in Seq(Int) /\ (y = x \/ y = Append(x, Placeholder)) /\ k \in 1 .. Len(x)
    BY <1>7, <2>1
  <2>3. k \in 1 .. Len(y) /\ y[k] = x[k]
    <3> HIDE DEF x, y, k
    <3>1. Placeholder \in Int
      BY DEF Placeholder
    <3> QED BY <2>2, <3>1
  <2> QED BY <2>1, <2>3 DEF Made, Open
<1>9. \A r \in Req : r \notin Live => text'[r] = text[r] /\ seq'[r] = seq[r]
  <2>1. ASSUME NEW r \in Req, r \notin Live PROVE ~Is(mine, r)
    BY <1>5, <2>1
  <2>2. ASSUME NEW r \in Req, ~Is(mine, r) PROVE text'[r] = text[r] /\ seq'[r] = seq[r]
    BY <1>4, <2>2 DEF Reads
  <2> QED BY <2>1, <2>2
<1>10. \A r \in Req : Early(r) => r \notin Live
  BY <1>0 DEF Early, Lives, Fresh
<1>11. \A p \in Ptr : Made(p)' /\ Early(p[1])' => Made(p) /\ Early(p[1])
  BY <1>3, <1>9, <1>10 DEF Made, Early, Ptr
<1>12. \A q \in Req : handler'[q] = "new" => handler[q] = "new" /\ Len(text'[q]) = Len(text[q])
  BY <1>3, <1>9, <1>10 DEF Early
<1>13. ASSUME NEW q \in Live', NEW p \in Ptr, Wants(q, p)'
       PROVE  \/ q \in Live /\ Wants(q, p)
              \/ Made(p)' /\ (Open(p)' => p[1] = q /\ Awaited(p)')
  <2>1. q \in Req /\ q \in Live
    BY <1>3 DEF Live
  <2>2. CASE ~Is(mine, q)
    <3>1. seq'[q] = seq[q]
      BY <1>4, <2>1, <2>2 DEF Reads
    <3> QED BY <1>13, <2>1, <3>1 DEF Wants
  <2>3. CASE Is(mine, q) /\ seq[q].inputs # <<>>
    <3>1. seq'[q].pendingInputs = <<>> /\ seq'[q].inputs = seq[q].inputs
      BY <1>4, <2>1, <2>3 DEF Reads
    <3>2. ToSet(<<>>) = {}
      BY DEF ToSet
    <3> QED BY <1>13, <2>1, <3>1, <3>2 DEF Wants
  <2>4. CASE Is(mine, q) /\ seq[q].inputs = <<>>
    <3> DEFINE n == Len(text[q]) + 1
               e == <<q, n>>
    <3>1. /\ seq'[q].pendingInputs = <<>> /\ seq'[q].inputs = <<e>> /\ Len(text'[q]) = n
      BY <1>4, <2>1, <2>4 DEF Reads
    <3>2. ToSet(<<>>) = {} /\ ToSet(<<e>>) = {e}
      <4> HIDE DEF e
      <4> QED BY DEF ToSet
    <3>3. p = e
      BY <1>13, <3>1, <3>2 DEF Wants
    <3>4. p[1] = q /\ p[2] = n /\ n \in 1 .. n
      BY <1>7, <2>1, <3>3
    <3>5. Made(p)'
      BY <3>1, <3>4 DEF Made
    <3>6. PICK i \in mine : seqs[i] = q
      BY <2>4
    <3>7. i \in sampled /\ i \in Slot
      BY <1>5, <2>4, <3>6
    <3>8. work'[id].next[i] = p
      BY <1>6, <3>3, <3>6, <3>7
    <3>9. Awaited(p)'
      <4>1. 0 <= i /\ p # None
        BY <3>3, <3>7, <2>1, <1>7, CacheAssumption, NoneAssumption DEF Slot
      <4> QED BY <1>2, <1>3, <1>6, <3>4, <3>6, <3>7, <3>8, <4>1 DEF Awaited, Awaits
    <3> QED BY <3>4, <3>5, <3>9
  <2> QED BY <2>2, <2>3, <2>4
<1>14. ASSUME NEW p \in Ptr, InCache(p)' PROVE InCache(p) \/ Settled(p)'
  <2>1. PICK s \in Slot : p \in ToSet(slots'[s].Inputs)
    BY <1>14 DEF InCache
  <2>2. CASE \A i \in mine : seq[seqs[i]].cache # s
    BY <1>4, <2>1, <2>2 DEF Reads, InCache
  <2>3. ASSUME NEW i \in mine, seq[seqs[i]].cache = s PROVE InCache(p) \/ Settled(p)'
    <3> DEFINE r == seqs[i]
               x == slots[s].Inputs
               y == seq[r].pendingInputs
    <3>1. r \in Live /\ r \in Req
      BY <1>5
    <3>2. slots'[s].Inputs = x \o y
      BY <1>4, <2>3, <3>1 DEF Reads
    <3>3. x \in Seq(Ptr) /\ y \in Seq(Ptr)
      <4>1. IsSequence(seq[r])
        BY <1>0, <3>1 DEF Typed
      <4> QED BY <1>0, <4>1 DEF Typed, IsSequence
    <3>4. p \in ToSet(x) \/ p \in ToSet(y)
      <4>1. ToSet(x \o y) = ToSet(x) \cup ToSet(y)
        <5> HIDE DEF x, y
        <5> QED BY <3>3, ToSetConcat
      <4> QED BY <2>1, <3>2, <4>1
    <3>5. CASE p \in ToSet(y)
      <4>1. Wants(r, p)
        BY <3>5 DEF Wants
      <4>2. Made(p) /\ ~Open(p)
        BY <1>1, <3>1, <4>1 DEF Sampled
      <4> QED BY <1>8, <4>2 DEF Settled
    <3>6. CASE p \in ToSet(x)
      BY <3>6 DEF InCache
    <3> QED BY <3>4, <3>5, <3>6
  <2> QED BY <2>2, <2>3
<1>15. \A p \in Ptr : ~Carries(p)'
  BY <1>2, <1>3, <1>6 DEF Carries
<1>16. BatchesRead'
  <2> DEFINE x == work[id].batchInputs
  <2>1. x \in Seq(Ptr)
    BY <1>2 DEF Sampled, BatchesRead
  <2>2. ASSUME NEW k \in DOMAIN x PROVE Tokens(x)[k] # Placeholder
    <3>1. x[k] \in Ptr /\ x[k] \in ToSet(x)
      BY <2>1 DEF ToSet
    <3>2. Carries(x[k])
      BY <1>2, <3>1 DEF Carries
    <3>3. ~Open(x[k])
      BY <1>1, <3>1, <3>2 DEF Sampled
    <3> QED BY <3>3 DEF Tokens, Open
  <2>3. Placeholder \notin ToSet(Tokens(x))
    <3>1. DOMAIN Tokens(x) = DOMAIN x
      BY DEF Tokens
    <3> QED BY <2>2, <3>1 DEF ToSet
  <2> QED BY <1>2, <1>6, <2>3 DEF BatchesRead
<1> HIDE DEF Sampled, sampled
<1> QED BY <1>0, <1>1, <1>8, <1>11, <1>12, <1>13, <1>14, <1>15, <1>16, SampledFrame

\* A token is written.
LEMMA TokenWritten ==
    ASSUME Typed, NEW x, NEW k, NEW v \in Int \ {Placeholder}, text' = [text EXCEPT ![x][k] = v]
    PROVE  /\ \A r \in Req : Len(text'[r]) = Len(text[r])
           /\ \A p \in Ptr : /\ Made(p) <=> Made(p)'
                             /\ Made(p) /\ Open(p)' => Open(p) /\ p # <<x, k>>
<1>1. \A r \in Req : Len(text'[r]) = Len(text[r]) /\ text[r] \in Seq(Int)
  BY Written DEF Typed
<1>2. \A r \in Req : text'[r] = IF r = x THEN [text[r] EXCEPT ![k] = v] ELSE text[r]
  BY DEF Typed
<1>3. ASSUME NEW p \in Ptr, Made(p) PROVE Open(p)' => Open(p) /\ p # <<x, k>>
  <2>1. p[1] \in Req /\ p[2] \in 1 .. Len(text[p[1]]) /\ DOMAIN text[p[1]] = 1 .. Len(text[p[1]])
        /\ p = <<p[1], p[2]>>
    BY <1>1, <1>3 DEF Made, Ptr
  <2>2. text'[p[1]][p[2]] = IF p[1] = x /\ p[2] = k THEN v ELSE text[p[1]][p[2]]
    BY <1>2, <2>1
  <2> QED BY <2>1, <2>2 DEF Open
<1>4. \A p \in Ptr : Made(p) <=> Made(p)'
  BY <1>1 DEF Made, Ptr
<1> QED BY <1>1, <1>3, <1>4

LEMMA SampledDecodeSlot ==
    ASSUME Inv, Order, OneAtATime, Sampled, NEW id \in DOMAIN work, DecodeSlot(id)
    PROVE  Sampled'
<1>0. Typed /\ Lives /\ Locks /\ SlotPerPermit
  BY DEF Inv
<1> DEFINE i == work[id].idx
           r == seqs[i]
           e == work[id].next[i]
<1>1. /\ DOMAIN work' = DOMAIN work /\ \A b \in DOMAIN work \ {id} : work'[b] = work[b]
      /\ fwd = None /\ work[id].pc = "decode" /\ i \in Slot
      /\ work'[id] = [work[id] EXCEPT !.idx = i + 1]
      /\ work'[id].pc = "decode" /\ work'[id].idx = i + 1
  BY SlotDecoded
<1>2. work'[id].next = work[id].next /\ work'[id].tokens = work[id].tokens
  <2>1. IsBatch(work[id])
    BY <1>0 DEF Typed
  <2> DEFINE n == i + 1
  <2>2. work'[id] = [work[id] EXCEPT !.idx = n]
    BY <1>1
  <2> HIDE DEF n
  <2> QED BY <2>1, <2>2 DEF IsBatch
<1>3. handler' = handler /\ fwd' = fwd
  BY DEF DecodeSlot, runVars
<1>4. \/ Skipped(id) /\ UNCHANGED <<seqs, seq, slots, text>>
      \/ /\ ~Skipped(id) /\ r \in Embedding /\ text' = text
         /\ Removes(i) /\ CutsCache
      \/ /\ ~Skipped(id) /\ r \notin Embedding
         /\ \E v \in Int \ {Placeholder} : text' = [text EXCEPT ![e[1]][e[2]] = v]
         /\ Decoded(i, Piece(id, i))
  BY <1>0, DecodedSlot
<1>5. \A b \in DOMAIN work : work[b].pc # "wait" => b = id
  <2>1. BatchesInOrder
    BY <1>0, OrderIs
  <2> QED BY <1>1, <2>1 DEF BatchesInOrder
<1>6. Skipped(id) <=> r = None \/ e = None
  BY DEF Skipped
<1> HIDE DEF i
<1>7. \A p \in Ptr : Carries(p)' => Carries(p)
  BY <1>1, <1>3 DEF Carries
<1>8. BatchesRead'
  BY <1>1, <1>2 DEF Sampled, BatchesRead
<1>9. r = seqs[i] /\ e = work[id].next[i] /\ i \in Int /\ None \notin Req
  BY <1>1, CacheAssumption, RunnerAssumption DEF Slot
<1> HIDE DEF r, e
<1>10. /\ \A q \in Req : handler'[q] = "new" => handler[q] = "new"
       /\ \A p \in Ptr : Early(p[1])' <=> Early(p[1])
  BY <1>3 DEF Early
\* What is awaited of slots that have been passed.
<1>11. ASSUME NEW p \in Ptr, Awaited(p), p[1] = r => p # e,
              \A j \in Slot : seqs[j] = p[1] => seqs'[j] = seqs[j]
       PROVE  Awaited(p)'
  <2>1. PICK b \in DOMAIN work, j \in Slot : Awaits(b, j) /\ work[b].next[j] = p /\ seqs[j] = p[1]
    BY <1>11 DEF Awaited
  <2>2. b = id
    BY <1>5, <2>1 DEF Awaits
  <2>3. j # i
    BY <1>9, <1>11, <2>1, <2>2
  <2>4. i + 1 <= j
    <3>1. i <= j /\ j \in Int
      BY <1>1, <2>1, <2>2, CacheAssumption DEF Awaits, Slot, i
    <3> QED BY <1>9, <2>3, <3>1
  <2>5. /\ work[id].next[j] = p /\ work[id].next[j] # None /\ seqs[j] = p[1]
        /\ seqs'[j] = seqs[j]
    BY <1>11, <2>1, <2>2 DEF Awaits
  <2>6. Awaits(id, j)'
    <3>1. work'[id].pc # "wait" /\ work'[id].next[j] # None /\ work'[id].idx <= j
      BY <1>1, <1>2, <2>4, <2>5
    <3> QED BY <3>1 DEF Awaits
  <2>7. work'[id].next[j] = p /\ seqs'[j] = p[1] /\ id \in DOMAIN work'
    BY <1>1, <1>2, <2>5
  <2> QED BY <2>6, <2>7 DEF Awaited
<1>12. ASSUME NEW p \in Ptr, Awaited(p) PROVE p[1] \in Live /\ p[1] \in Req
  BY <1>12 DEF Awaited, Live, Ptr
<1>13. CASE Skipped(id) /\ UNCHANGED <<seqs, seq, slots, text>>
  <2>1. ASSUME NEW p \in Ptr, Awaited(p) PROVE Awaited(p)'
    <3>1. p[1] = r => p # e
      <4>1. p[1] \in Req /\ p # None
        BY RunnerAssumption, NoneAssumption DEF Ptr
      <4> QED BY <1>6, <1>9, <1>13, <4>1
    <3> QED BY <1>11, <1>13, <2>1, <3>1
  <2> QED BY <1>0, <1>7, <1>8, <1>10, <1>13, <2>1, SampledQuiet, <1>3 DEF Early
\* A sequence is removed.
<1>14. ASSUME r # None, Removes(i), CutsCache,
              \A p \in Ptr : Made(p) => Made(p)' /\ (Open(p)' => Open(p)),
              \A p \in Ptr : Made(p)' => Made(p),
              \A q \in Req : Len(text'[q]) = Len(text[q]),
              \A p \in Ptr : Carries(p) /\ p[1] = r => ~(Open(p)' /\ Awaited(p))
       PROVE  Sampled'
  <2>1. /\ r \in Live /\ Live' = Live \ {r} /\ seqs'[i] = None
        /\ \A j \in Slot : seqs[j] # r => seqs'[j] = seqs[j]
        /\ \A q \in Live' : seq'[q] = seq[q]
    BY <1>0, <1>1, <1>9, <1>14, RemovedLive
  <2>2. \A q \in Live' : \A p \in Ptr : Wants(q, p)' => q \in Live /\ Wants(q, p)
    BY <2>1 DEF Wants
  <2>3. \A p \in Ptr : InCache(p)' => InCache(p)
    BY <1>14 DEF InCache, CutsCache
  <2>4. \A p \in Ptr : Awaited(p) /\ p[1] \in Live' => Awaited(p)'
    BY <1>11, <2>1
  <2>5. ASSUME NEW p \in Ptr, Carries(p)'
        PROVE  /\ Carries(p)
               /\ Open(p)' /\ Awaited(p) /\ p \in ToSet(seq[p[1]].pendingInputs) =>
                       p[1] \in Live' /\ p \in ToSet(seq'[p[1]].pendingInputs)
    BY <1>7, <1>12, <1>14, <2>1, <2>5
  <2> HIDE DEF Sampled
  <2> QED BY <1>0, <1>8, <1>10, <1>14, <2>2, <2>3, <2>4, <2>5, SampledFrame
<1>15. CASE ~Skipped(id) /\ r \in Embedding /\ text' = text /\ Removes(i) /\ CutsCache
  <2>1. r # None
    BY <1>6, <1>15
  <2>2. r \in Live /\ r \in Req
    BY <1>0, <1>1, <1>9, <2>1 DEF Live, Typed
  <2>3. ~model.supportsAsync
    <3>1. handler[r] # "failed"
      BY <1>0, <2>2 DEF Lives
    <3>2. Supported(r)
      BY <2>2, <3>1 DEF OneAtATime
    <3> QED BY <1>15, <3>2 DEF Supported
  <2>4. \A p \in Ptr : ~Carries(p)
    <3>1. \A b \in DOMAIN work : b = id
      BY <2>3 DEF OneAtATime
    <3> QED BY <1>1, <3>1 DEF Carries
  <2>5. \A p \in Ptr : (Made(p) <=> Made(p)') /\ (Open(p)' <=> Open(p))
    BY <1>15 DEF Made, Open
  <2> QED BY <1>14, <1>15, <2>1, <2>4, <2>5
<1>16. ASSUME ~Skipped(id), NEW v \in Int \ {Placeholder}, text' = [text EXCEPT ![e[1]][e[2]] = v],
              Decoded(i, Piece(id, i))
       PROVE  Sampled'
  <2>1. r # None /\ e # None
    BY <1>6, <1>16
  <2>2. /\ \A q \in Req : Len(text'[q]) = Len(text[q])
        /\ \A p \in Ptr : /\ Made(p) <=> Made(p)'
                          /\ Made(p) /\ Open(p)' => Open(p) /\ p # <<e[1], e[2]>>
    BY <1>0, <1>16, TokenWritten
  <2>3. \A p \in Ptr : p = <<p[1], p[2]>>
    BY DEF Ptr
  <2>4. \A p \in Ptr : Made(p) /\ Open(p)' => Open(p) /\ p # e
    BY <2>2, <2>3
  <2>5. r \in Live /\ r \in Req /\ \A j \in Slot : seqs[j] = r => j = i
    BY <1>0, <1>1, <1>9, <2>1 DEF Live, Typed, SlotPerPermit
  <2>6. ASSUME NEW p \in Ptr, Made(p), Open(p)', p[1] = r PROVE ~Awaited(p)
    <3>1. SUFFICES ASSUME NEW b \in DOMAIN work, NEW j \in Slot, Awaits(b, j), work[b].next[j] = p, seqs[j] = p[1]
                   PROVE  FALSE
      BY DEF Awaited
    <3>2. b = id /\ j = i
      BY <1>5, <2>5, <2>6, <3>1 DEF Awaits
    <3> QED BY <1>9, <2>4, <2>6, <3>1, <3>2
  <2>7. CASE Removes(i) /\ CutsCache
    <3>1. \A p \in Ptr : Carries(p) /\ p[1] = r => ~(Open(p)' /\ Awaited(p))
      BY <2>6 DEF Sampled
    <3> QED BY <1>14, <2>1, <2>2, <2>4, <2>7, <3>1
  <2>8. ASSUME UNCHANGED <<seqs, slots>>, NEW s, Alike(s, seq[r]), seq' = [seq EXCEPT ![r] = s]
        PROVE  Sampled'
    <3>1. /\ IsSequence(s) /\ s.inputs = seq[r].inputs /\ s.pendingInputs = seq[r].pendingInputs
      BY <2>8 DEF Alike
    <3>2. \A q \in Req : seq'[q].inputs = seq[q].inputs /\ seq'[q].pendingInputs = seq[q].pendingInputs
      BY <1>0, <2>5, <2>8, <3>1, SeqTyped
    <3>3. Live' = Live
      BY <2>8 DEF Live
    <3>4. \A q \in Live' : \A p \in Ptr : Wants(q, p)' => q \in Live /\ Wants(q, p)
      BY <3>2, <3>3 DEF Wants, Live
    <3>5. \A p \in Ptr : InCache(p)' => InCache(p)
      BY <2>8 DEF InCache
    <3>6. \A p \in Ptr : Made(p) /\ Open(p)' /\ Awaited(p) => Awaited(p)'
      BY <1>11, <2>4, <2>8
    <3>7. ASSUME NEW p \in Ptr, Carries(p)'
          PROVE  /\ Carries(p)
                 /\ Open(p)' /\ Awaited(p) /\ p \in ToSet(seq[p[1]].pendingInputs) =>
                       p[1] \in Live' /\ p \in ToSet(seq'[p[1]].pendingInputs)
      BY <1>7, <1>12, <3>2, <3>3, <3>7
    <3> HIDE DEF Sampled
    <3> QED BY <1>0, <1>8, <1>10, <2>2, <3>4, <3>5, <3>6, <3>7, SampledFrame
  <2>9. \/ Removes(i) /\ CutsCache
        \/ UNCHANGED <<seqs, slots>> /\ \E s : Alike(s, seq[r]) /\ seq' = [seq EXCEPT ![r] = s]
    BY <1>9, <1>16 DEF Decoded
  <2> QED BY <2>7, <2>8, <2>9
<1> QED BY <1>4, <1>13, <1>15, <1>16

LEMMA SampledInit ==
    ASSUME Init
    PROVE  Sampled /\ OneAtATime
<1>1. ToSet(<<>>) = {} /\ Len(<<>>) = 0 /\ DOMAIN work = {} /\ Live = {}
  <2>1. None \notin Req
    BY RunnerAssumption
  <2> QED BY <2>1 DEF Init, ToSet, Live
<1>2. \A p \in Ptr : ~Made(p)
  BY <1>1 DEF Init, Made, Ptr
<1>3. \A p \in Ptr : ~Carries(p) /\ ~InCache(p)
  BY <1>1 DEF Init, Carries, InCache
<1>4. \A r \in Req : Len(text[r]) = 0
  BY <1>1 DEF Init
<1>5. OneAtATime
  BY <1>1 DEF Init, OneAtATime
<1> QED BY <1>1, <1>2, <1>3, <1>4, <1>5 DEF Sampled, BatchesRead

LEMMA SampledNext ==
    ASSUME Inv, Order, NeverEmpty, OneAtATime, Sampled, [Next]_vars
    PROVE  Sampled'
<1>0. Typed
  BY DEF Inv
<1>1. ASSUME NEW r \in Req, Handle(r) \/ Disconnect(r) PROVE Sampled'
  BY <1>1, SampledHandlers, SampledNew, SampledInsert DEF Handle
<1>2. CASE ForwardBatch
  BY <1>2, SampledForward, SampledForwardSlot DEF ForwardBatch
<1>3. ASSUME NEW id \in DOMAIN work, ComputeBatch(id) PROVE Sampled'
  BY <1>3, SampledGather, SampledDecode, SampledDecodeSlot DEF ComputeBatch
<1>4. CASE NotifyStarted \/ UNCHANGED vars
  <2>1. UNCHANGED <<seqs, text, slots, handler, seq, work, fwd>>
    BY <1>4 DEF NotifyStarted, vars, cacheVars
  <2>2. \A p \in Ptr : (Awaited(p) <=> Awaited(p)') /\ (Carries(p)' <=> Carries(p))
    BY <2>1 DEF Awaited, Awaits, Carries
  <2>3. BatchesRead'
    BY <2>1 DEF Sampled, BatchesRead
  <2> QED BY <1>0, <2>1, <2>2, <2>3, SampledQuiet DEF Early
<1> HIDE DEF Sampled
<1> QED BY <1>1, <1>2, <1>3, <1>4 DEF Next, Finished

LEMMA SampledIs ==
    ASSUME Typed, Sampled
    PROVE  TokensResolved
<1>1. ASSUME NEW s \in Slot PROVE Placeholder \notin ToSet(Tokens(slots[s].Inputs))
  <2> DEFINE x == slots[s].Inputs
  <2>1. x \in Seq(Ptr)
    BY DEF Typed
  <2>2. ASSUME NEW k \in DOMAIN x PROVE Tokens(x)[k] # Placeholder
    <3>1. x[k] \in Ptr /\ x[k] \in ToSet(x)
      BY <2>1 DEF ToSet
    <3>2. InCache(x[k])
      BY <3>1 DEF InCache
    <3>3. ~Open(x[k])
      BY <3>1, <3>2 DEF Sampled, Settled
    <3> QED BY <3>3 DEF Tokens, Open
  <2>3. DOMAIN Tokens(x) = DOMAIN x
    BY DEF Tokens
  <2> QED BY <2>2, <2>3 DEF ToSet
<1> QED BY <1>1 DEF Sampled, BatchesRead, TokensResolved

\* A batch is computed on tokens that have been sampled, though it was built before they
\* were, and no placeholder reaches the cached inputs that prompts are compared with, as
\* long as forwardBatch drops no empty batch (runner.go, computeBatch).
THEOREM RunnerTokensResolved == Spec /\ []NeverEmpty => []TokensResolved
<1>1. Init => Order /\ Sampled /\ OneAtATime
  BY SampledInit DEF Init, Order
<1>2. Inv /\ Order /\ OneAtATime /\ Sampled /\ NeverEmpty /\ [Next]_vars
         => (Order /\ OneAtATime /\ Sampled)'
  BY OrderNext, OneAtATimeNext, SampledNext
<1>3. Inv /\ Sampled => TokensResolved
  BY SampledIs DEF Inv
<1> QED BY <1>1, <1>2, <1>3, InvHolds, PTL DEF Spec

-----------------------------------------------------------------------------
(* Answers.                                                                *)

\* The output of a sequence follows its prompt, as far as it goes.
Own(s, r) == Out(s) = [k \in 1 .. Len(Out(s)) |-> <<r, s.numPromptInputs + k>>]

\* The same answer, wherever the pieces of it are.
SameAnswer(t, s) ==
    OutTyped(s) => OutTyped(t) /\ Out(t) = Out(s) /\ t.numPromptInputs = s.numPromptInputs

\* A batch that has read its tokens has one for slot i.
Owed(i) == \E id \in DOMAIN work : Awaits(id, i)

\* The rows of the latest batch, built or being built; row n of o is the one of p.
Rows == IF fwd # None THEN fwd.outputs ELSE work[prev].outputs
HasRow(o, n, p) == n + 1 \in 1 .. Len(o) /\ o[n + 1] = p

\* The text of the sequence in slot i is its prompt and its answer, with a placeholder
\* if it is owed a token.  Its last input is what is left of the text, and has a row once
\* a batch carries it.
Due(i) ==
    LET s == seq[seqs[i]]
        n == Len(text[seqs[i]])
    IN  /\ n = s.numPromptInputs + Len(Out(s)) + (IF Owed(i) THEN 1 ELSE 0)
        /\ Last(IF s.inputs # <<>> THEN s.inputs ELSE s.pendingInputs) = <<seqs[i], n>>
        /\ s.inputs = <<>> => HasRow(Rows, s.iBatch, <<seqs[i], n>>)

\* What a batch has for slot i is the next token of the sequence there, predicted from the
\* row of the one before it.
Handout(id, i) ==
    LET r == seqs[i]
        n == Len(text[r])
        w == work[id]
    IN  /\ r # None
        /\ r \notin Embedding =>
              w.next[i] = <<r, n>> /\ HasRow(w.outputs, w.iBatches[i], <<r, n - 1>>)

Answers ==
    /\ \A r \in Req : OutTyped(seq[r]) /\ Own(seq[r], r)
    /\ \A r \in Req : Early(r) =>
          /\ Out(seq[r]) = <<>>
          /\ handler[r] # "new" => seq[r].numPromptInputs = Len(text[r])
    /\ \A i \in Slot : seqs[i] # None /\ seqs[i] \notin Embedding => Due(i)
    /\ \A id \in DOMAIN work, i \in Slot : Awaits(id, i) => Handout(id, i)

LEMMA OwnSame ==
    ASSUME NEW s, NEW t, SameAnswer(t, s), OutTyped(s), NEW r, Own(s, r)
    PROVE  OutTyped(t) /\ Own(t, r)
BY DEF SameAnswer, Own

LEMMA OwnShort ==
    ASSUME NEW s, NEW t, Shortens(t, s), OutTyped(s), NEW r, Own(s, r)
    PROVE  OutTyped(t) /\ Own(t, r)
<1> DEFINE x == Out(t)
           y == Out(s)
           m == s.numPromptInputs
<1>1. OutTyped(t) /\ Begins(x, y) /\ t.numPromptInputs = m
  BY DEF Shortens
<1>2. x \in Seq(Ptr) /\ y \in Seq(Ptr)
  BY <1>1, OutIs
<1>3. y = [k \in 1 .. Len(y) |-> <<r, m + k>>]
  BY DEF Own
<1>4. x = [k \in 1 .. Len(x) |-> <<r, m + k>>]
  <2> HIDE DEF x, y, m
  <2>1. Len(x) \in Nat /\ Len(y) \in Nat /\ Len(x) <= Len(y)
    BY <1>1, <1>2 DEF Begins
  <2>2. \A k \in 1 .. Len(x) : x[k] = <<r, m + k>>
    BY <1>1, <1>3, <2>1 DEF Begins
  <2>3. x = [k \in 1 .. Len(x) |-> x[k]]
    BY <1>2
  <2> QED BY <2>2, <2>3
<1> QED BY <1>1, <1>4 DEF Own

LEMMA OwnLong ==
    ASSUME NEW s, NEW t, NEW r \in Req, OutTyped(s), Own(s, r),
           Prolongs(t, s, <<r, s.numPromptInputs + Len(Out(s)) + 1>>)
    PROVE  /\ OutTyped(t) /\ Own(t, r) /\ t.numPromptInputs = s.numPromptInputs
           /\ Len(Out(t)) = Len(Out(s)) + 1
<1> DEFINE x == Out(t)
           y == Out(s)
           m == s.numPromptInputs
           e == <<r, m + Len(y) + 1>>
<1>1. y \in Seq(Ptr) /\ Len(y) \in Nat /\ m \in Nat
  BY OutIs DEF OutTyped
<1>2. e \in Ptr
  <2> HIDE DEF y, m
  <2> QED BY <1>1 DEF Ptr
<1>3. OutTyped(t) /\ x = Append(y, e) /\ t.numPromptInputs = m
  BY <1>2 DEF Prolongs
<1>4. y = [k \in 1 .. Len(y) |-> <<r, m + k>>]
  BY DEF Own
<1>5. x = [k \in 1 .. Len(x) |-> <<r, m + k>>] /\ Len(x) = Len(y) + 1
  <2> HIDE DEF x, y, m
  <2>1. x \in Seq(Ptr) /\ Len(x) = Len(y) + 1 /\ x[Len(y) + 1] = e
        /\ \A k \in 1 .. Len(y) : x[k] = y[k]
    BY <1>1, <1>2, <1>3
  <2>2. e = <<r, m + (Len(y) + 1)>>
    BY <1>1
  <2>3. \A k \in 1 .. Len(y) : x[k] = <<r, m + k>>
    BY <1>4, <2>1
  <2> HIDE DEF e
  <2>4. ASSUME NEW k \in 1 .. Len(x) PROVE x[k] = <<r, m + k>>
    <3>1. k \in 1 .. Len(y) \/ k = Len(y) + 1
      BY <1>1, <2>1
    <3> QED BY <2>1, <2>2, <2>3, <3>1
  <2>5. x = [k \in 1 .. Len(x) |-> x[k]]
    BY <2>1
  <2> QED BY <2>1, <2>4, <2>5
<1> QED BY <1>3, <1>5 DEF Own

\* A sequence that is carried to the end is in the latest batch.
LEMMA Carried ==
    ASSUME Inv, NEW i \in Slot, seqs[i] # None, seq[seqs[i]].inputs = <<>>
    PROVE  fwd # None \/ (prev \in DOMAIN work /\ work[prev].pc = "wait")
<1>0. Typed /\ Lives /\ Pending
  BY DEF Inv
<1>1. seqs[i] \in Live /\ seqs[i] \in Req
  BY <1>0 DEF Typed, Live
<1>2. seq[seqs[i]].pendingInputs # <<>>
  BY <1>0, <1>1 DEF Lives
<1>3. InBatch(i)
  BY <1>0, <1>2 DEF Pending
<1> QED BY <1>3 DEF InBatch

RowsKept == \A n, p : HasRow(Rows, n, p) => HasRow(Rows', n, p)

LEMMA DueSame ==
    ASSUME NEW i \in Slot, Due(i), seqs'[i] = seqs[i], Len(text'[seqs[i]]) = Len(text[seqs[i]]),
           LET s == seq[seqs[i]]
               t == seq'[seqs[i]]
           IN  /\ t.inputs = s.inputs /\ t.pendingInputs = s.pendingInputs /\ t.iBatch = s.iBatch
               /\ Out(t) = Out(s) /\ t.numPromptInputs = s.numPromptInputs
               /\ s.inputs = <<>> => RowsKept,
           Owed(i)' <=> Owed(i)
    PROVE  Due(i)'
<1> DEFINE s == seq[seqs[i]]
           t == seq'[seqs[i]]
           n == Len(text[seqs[i]])
<1>1. ASSUME s.inputs = <<>> PROVE HasRow(Rows', s.iBatch, <<seqs[i], n>>)
  BY <1>1 DEF Due, RowsKept
<1>2. n = t.numPromptInputs + Len(Out(t)) + (IF Owed(i)' THEN 1 ELSE 0)
  BY DEF Due
<1> QED BY <1>1, <1>2 DEF Due

\* Steps that neither hand out a token nor move an input.
LEMMA AnswersQuiet ==
    ASSUME Inv, Answers, UNCHANGED <<seqs, text>>,
           \A r \in Req : Early(r)' => Early(r) /\ (handler'[r] # "new" => handler[r] # "new"),
           \A r \in Req : \/ SameAnswer(seq'[r], seq[r])
                          \/ r \notin Live /\ ~Early(r)' /\ seq'[r] = NoSequence,
           \A r \in Live : /\ seq'[r].inputs = seq[r].inputs
                           /\ seq'[r].pendingInputs = seq[r].pendingInputs
                           /\ seq'[r].iBatch = seq[r].iBatch,
           \A id \in DOMAIN work', i \in Slot : Awaits(id, i)' =>
              /\ id \in DOMAIN work /\ Awaits(id, i)
              /\ work'[id].next = work[id].next /\ work'[id].outputs = work[id].outputs
              /\ work'[id].iBatches = work[id].iBatches,
           \A i \in Slot : Owed(i) => Owed(i)',
           (fwd # None \/ (prev \in DOMAIN work /\ work[prev].pc = "wait")) => RowsKept
    PROVE  Answers'
<1>0. Typed /\ Lives
  BY DEF Inv
<1>1. \A i \in Slot : Owed(i) <=> Owed(i)'
  BY DEF Owed
<1>2. ASSUME NEW r \in Req PROVE OutTyped(seq'[r]) /\ Own(seq'[r], r)
  <2>1. OutTyped(seq[r]) /\ Own(seq[r], r)
    BY DEF Answers
  <2>2. CASE SameAnswer(seq'[r], seq[r])
    BY <2>1, <2>2, OwnSame
  <2>3. CASE seq'[r] = NoSequence
    <3>1. FlattenSeq(<<>>) = <<>>
      BY DEF FlattenSeq
    <3> DEFINE e == <<>>
    <3>2. e \in Seq(Ptr) /\ e \in Seq(Seq(Ptr)) /\ e \o e = e /\ Len(e) = 0
      OBVIOUS
    <3>3. OutTyped(NoSequence) /\ NoSequence.delivered = e /\ NoSequence.responses = e
          /\ NoSequence.pendingResponses = e
      BY <3>2 DEF OutTyped, NoSequence
    <3>4. Out(NoSequence) = e
      BY <3>1, <3>2, <3>3 DEF Out
    <3>5. Own(NoSequence, r)
      BY <3>2, <3>4 DEF Own
    <3> QED BY <2>3, <3>3, <3>5
  <2> QED BY <2>2, <2>3
<1>3. ASSUME NEW r \in Req, Early(r)'
      PROVE  Out(seq'[r]) = <<>> /\ (handler'[r] # "new" => seq'[r].numPromptInputs = Len(text'[r]))
  <2>1. SameAnswer(seq'[r], seq[r]) /\ OutTyped(seq[r]) /\ Early(r)
    BY <1>3 DEF Answers
  <2> QED BY <1>3, <2>1 DEF Answers, SameAnswer
<1>4. ASSUME NEW i \in Slot, seqs'[i] # None, seqs'[i] \notin Embedding PROVE Due(i)'
  <2> DEFINE r == seqs[i]
  <2>1. r \in Req /\ r \in Live /\ seqs'[i] = r
    BY <1>0, <1>4 DEF Typed, Live
  <2>2. Out(seq'[r]) = Out(seq[r]) /\ seq'[r].numPromptInputs = seq[r].numPromptInputs
    BY <2>1 DEF Answers, SameAnswer
  <2>3. seq[r].inputs = <<>> => RowsKept
    BY <1>4, <2>1, Carried
  <2>4. Due(i)
    BY <1>4 DEF Answers
  <2> QED BY <1>1, <2>1, <2>2, <2>3, <2>4, DueSame
<1>5. ASSUME NEW id \in DOMAIN work', NEW i \in Slot, Awaits(id, i)' PROVE Handout(id, i)'
  <2>1. Handout(id, i)
    BY <1>5 DEF Answers
  <2> QED BY <1>5, <2>1 DEF Handout
<1> QED BY <1>2, <1>3, <1>4, <1>5 DEF Answers

LEMMA SameOutAnswer ==
    ASSUME NEW s, NEW t, SameOut(t, s)
    PROVE  SameAnswer(t, s)
BY SameOutIs DEF SameAnswer, SameOut

LEMMA BatchesKept ==
    ASSUME work' = work, fwd' = fwd, prev' = prev
    PROVE  /\ \A id \in DOMAIN work', i \in Slot : Awaits(id, i)' =>
                 /\ id \in DOMAIN work /\ Awaits(id, i)
                 /\ work'[id].next = work[id].next /\ work'[id].outputs = work[id].outputs
                 /\ work'[id].iBatches = work[id].iBatches
           /\ \A i \in Slot : Owed(i) => Owed(i)'
           /\ RowsKept
<1>1. Rows' = Rows
  BY DEF Rows
<1> QED BY <1>1 DEF Awaits, Owed, RowsKept

\* A response is passed on.
LEMMA ReceivedAnswer ==
    ASSUME NEW s, IsSequence(s), s.responses # <<>>
    PROVE  LET t == [s EXCEPT !.delivered = @ \o Head(s.responses), !.responses = Tail(@)]
           IN  Alike(t, s) /\ SameAnswer(t, s)
<1> DEFINE d == s.delivered \o Head(s.responses)
           x == Tail(s.responses)
           u == [s EXCEPT !.delivered = d]
           t == [u EXCEPT !.responses = x]
<1>1. [s EXCEPT !.delivered = @ \o Head(s.responses), !.responses = Tail(@)] = t
  OBVIOUS
<1> HIDE DEF d, x
<1>2. /\ Alike(u, s) /\ u.delivered = d /\ u.pendingResponses = s.pendingResponses
      /\ u.responses = s.responses /\ u.numPromptInputs = s.numPromptInputs
  <2>1. Alike(u, s)
    BY DEF Alike, IsSequence
  <2>2. /\ u.delivered = d /\ u.pendingResponses = s.pendingResponses
        /\ u.responses = s.responses /\ u.numPromptInputs = s.numPromptInputs
    BY DEF IsSequence
  <2> QED BY <2>1, <2>2
<1> HIDE DEF u
<1>3. IsSequence(u)
  BY <1>2 DEF Alike
<1>4. /\ Alike(t, u) /\ t.responses = x /\ t.delivered = u.delivered
      /\ t.pendingResponses = u.pendingResponses /\ t.numPromptInputs = u.numPromptInputs
  <2>1. Alike(t, u)
    BY <1>3, OutputFields
  <2>2. LET v == [u EXCEPT !.responses = x] IN
        /\ v.responses = x /\ v.delivered = u.delivered
        /\ v.pendingResponses = u.pendingResponses /\ v.numPromptInputs = u.numPromptInputs
    BY <1>3, OutputWritten
  <2> QED BY <2>1, <2>2
<1> HIDE DEF t
<1>5. Alike(t, s)
  BY <1>2, <1>4 DEF Alike
<1>6. ASSUME OutTyped(s) PROVE OutTyped(t) /\ Out(t) = Out(s)
  <2> DEFINE a == s.delivered
             h == Head(s.responses)
             F == FlattenSeq(x)
             p == s.pendingResponses
  <2>1. a \in Seq(Ptr) /\ p \in Seq(Ptr) /\ s.responses \in Seq(Seq(Ptr))
    BY <1>6 DEF OutTyped
  <2>2. h \in Seq(Ptr) /\ x \in Seq(Seq(Ptr)) /\ F \in Seq(Ptr) /\ FlattenSeq(s.responses) = h \o F
    BY <2>1, FlattenTail DEF x
  <2>3. Out(t) = (d \o F) \o p /\ Out(s) = (a \o (h \o F)) \o p /\ d = a \o h
    BY <1>2, <1>4, <2>2 DEF Out, d
  <2> HIDE DEF a, h, F, p
  <2>4. d \in Seq(Ptr)
    BY <2>1, <2>2, <2>3
  <2>5. (a \o h) \o F = a \o (h \o F)
    BY <2>1, <2>2, ConcatAssociative, SMTT(20)
  <2>6. OutTyped(t)
    BY <1>2, <1>4, <1>6, <2>2, <2>4 DEF OutTyped
  <2> QED BY <2>3, <2>5, <2>6
<1>7. SameAnswer(t, s)
  BY <1>2, <1>4, <1>6 DEF SameAnswer
<1> QED BY <1>1, <1>5, <1>7

LEMMA AnswersHandlers ==
    ASSUME Inv, Answers, NEW r \in Req,
           Acquire(r) \/ Receive(r) \/ ReceiveEmbedding(r) \/ Disconnect(r)
    PROVE  Answers'
<1>0. Typed /\ Lives /\ IsSequence(seq[r])
  BY DEF Inv, Typed
<1>1. UNCHANGED <<seqs, text, work, fwd, prev>>
  BY DEF Acquire, Receive, ReceiveEmbedding, Disconnect, cacheVars, runVars
<1>2. \E h \in {"insert", "stream", "done", "gone"} :
         /\ handler' = [handler EXCEPT ![r] = h] \/ handler' = handler
         /\ h = "insert" => handler[r] = "acquire"
  BY DEF Acquire, Receive, ReceiveEmbedding, Disconnect
<1>3. \A q \in Req : Early(q)' => Early(q) /\ (handler'[q] # "new" => handler[q] # "new")
  BY <1>0, <1>2 DEF Typed, Early
<1> DEFINE Kept(q) == /\ IsSequence(seq'[q]) /\ seq'[q].inputs = seq[q].inputs
                      /\ seq'[q].pendingInputs = seq[q].pendingInputs
                      /\ seq'[q].iBatch = seq[q].iBatch
           Goal == \A q \in Req :
                      \/ SameAnswer(seq'[q], seq[q]) /\ Kept(q)
                      \/ q \notin Live /\ ~Early(q)' /\ seq'[q] = NoSequence
<1>4. ASSUME NEW t, Alike(t, seq[r]), SameAnswer(t, seq[r]), seq' = [seq EXCEPT ![r] = t]
      PROVE  Goal
  <2>1. seq'[r] = t /\ \A q \in Req \ {r} : seq'[q] = seq[q] /\ IsSequence(seq[q])
    BY <1>0, <1>4 DEF Typed
  <2>2. \A q \in Req : SameAnswer(seq[q], seq[q])
    BY DEF SameAnswer
  <2> QED BY <1>4, <2>1, <2>2 DEF Alike
<1>5. ASSUME seq' = seq PROVE Goal
  BY <1>0, <1>5 DEF SameAnswer, Typed
<1>6. ASSUME Receive(r) /\ seq[r].responses # <<>> PROVE Goal
  <2> DEFINE t == [seq[r] EXCEPT !.delivered = @ \o Head(seq[r].responses), !.responses = Tail(@)]
  <2>1. seq' = [seq EXCEPT ![r] = t]
    BY <1>0, <1>6 DEF Receive, Typed
  <2>2. Alike(t, seq[r]) /\ SameAnswer(t, seq[r])
    BY <1>0, <1>6, ReceivedAnswer
  <2> HIDE DEF t, Goal
  <2> QED BY <1>4, <2>1, <2>2
<1>7. ASSUME Receive(r) /\ ~(seq[r].responses # <<>>) PROVE Goal
  <2>1. /\ handler[r] = "stream" /\ seq[r].closed /\ handler' = [handler EXCEPT ![r] = "done"]
        /\ seq' = [seq EXCEPT ![r] = NoSequence]
    BY <1>7 DEF Receive
  <2>2. r \notin Live /\ ~Early(r)'
    BY <1>0, <2>1 DEF Lives, Early, Typed
  <2>3. seq'[r] = NoSequence /\ \A q \in Req \ {r} : seq'[q] = seq[q] /\ IsSequence(seq[q])
    BY <1>0, <2>1 DEF Typed
  <2> QED BY <2>2, <2>3 DEF SameAnswer
<1>8. ASSUME Disconnect(r) /\ seq' = [seq EXCEPT ![r].quit = TRUE] PROVE Goal
  <2> DEFINE t == [seq[r] EXCEPT !.quit = TRUE]
  <2>1. seq' = [seq EXCEPT ![r] = t]
    BY <1>0, <1>8 DEF Typed
  <2>2. Alike(t, seq[r]) /\ SameOut(t, seq[r])
    BY <1>0, FlagFields, OutputWritten
  <2> HIDE DEF t, Goal
  <2> QED BY <1>4, <2>1, <2>2, SameOutAnswer
<1>9. Goal
  BY <1>5, <1>6, <1>7, <1>8 DEF Acquire, Receive, ReceiveEmbedding, Disconnect
<1>10. \A q \in Live : Kept(q)
  BY <1>0, <1>9 DEF Lives, Live, SameAnswer, NoSequence, Typed
<1> HIDE DEF Answers
<1> QED BY <1>1, <1>3, <1>9, <1>10, BatchesKept, AnswersQuiet

LEMMA AnswersForward ==
    ASSUME Inv, Order, NeverEmpty, Answers, ForwardBegin \/ ForwardEnd
    PROVE  Answers'
<1>0. Typed /\ Locks /\ Lives
  BY DEF Inv
<1>1. UNCHANGED <<seqs, text, handler, seq>>
  BY DEF ForwardBegin, ForwardEnd, cacheVars
<1>2. \A r \in Req : SameAnswer(seq'[r], seq[r])
  BY <1>1 DEF SameAnswer
<1>3. CASE ForwardBegin
  <2>1. fwd = None /\ work' = work /\ ComputeStarted
    BY <1>3 DEF ForwardBegin
  <2>2. ~(prev \in DOMAIN work /\ work[prev].pc = "wait")
    BY <1>0, <2>1 DEF Locks, ComputeStarted, Typed
  <2>3. /\ \A id \in DOMAIN work', i \in Slot : Awaits(id, i)' =>
              /\ id \in DOMAIN work /\ Awaits(id, i)
              /\ work'[id].next = work[id].next /\ work'[id].outputs = work[id].outputs
              /\ work'[id].iBatches = work[id].iBatches
        /\ \A i \in Slot : Owed(i) => Owed(i)'
    BY <2>1 DEF Awaits, Owed
  <2> HIDE DEF Answers
  <2> QED BY <1>1, <1>2, <2>1, <2>2, <2>3, AnswersQuiet DEF Early
<1>4. CASE ForwardEnd
  <2>1. fwd.inputs # <<>>
    BY <1>0, <1>4 DEF ForwardEnd, NeverEmpty, Locks
  <2>2. /\ fwd # None /\ fwd' = None
        /\ prev' \notin DOMAIN work
        /\ DOMAIN work' = DOMAIN work \cup {prev'}
        /\ work'[prev'] = NewBatch
        /\ \A v \in DOMAIN work : work'[v] = work[v]
    BY <1>4, <2>1, HandedOn
  <2>3. NewBatch.pc = "wait" /\ NewBatch.outputs = fwd.outputs
    BY DEF NewBatch
  <2>4. RowsKept
    BY <2>2, <2>3 DEF RowsKept, Rows
  <2>5. /\ \A id \in DOMAIN work', i \in Slot : Awaits(id, i)' =>
              /\ id \in DOMAIN work /\ Awaits(id, i)
              /\ work'[id].next = work[id].next /\ work'[id].outputs = work[id].outputs
              /\ work'[id].iBatches = work[id].iBatches
        /\ \A i \in Slot : Owed(i) => Owed(i)'
    BY <2>2, <2>3 DEF Awaits, Owed
  <2> HIDE DEF Answers
  <2> QED BY <1>1, <1>2, <2>4, <2>5, AnswersQuiet DEF Early
<1> QED BY <1>3, <1>4

LEMMA AnswersDecode ==
    ASSUME Inv, Answers, NEW id \in DOMAIN work, DecodeBegin(id) \/ DecodeEnd(id)
    PROVE  Answers'
<1>0. Typed /\ Locks
  BY DEF Inv
<1>1. UNCHANGED <<seqs, text, handler, seq, fwd, prev>>
  BY DEF DecodeBegin, DecodeEnd, cacheVars, runVars
<1>2. \A r \in Req : SameAnswer(seq'[r], seq[r])
  BY <1>1 DEF SameAnswer
<1>3. work[id].pc # "wait" /\ \A b \in DOMAIN work \ {id} : b \in DOMAIN work' /\ work'[b] = work[b]
  BY BeginDecode, EndDecode
<1>4. fwd # None \/ (prev \in DOMAIN work /\ work[prev].pc = "wait") => RowsKept
  <2>1. prev \in DOMAIN work /\ work[prev].pc = "wait" => work'[prev] = work[prev]
    BY <1>3
  <2> QED BY <1>1, <2>1 DEF RowsKept, Rows
<1>5. CASE DecodeBegin(id)
  <2>1. /\ DOMAIN work' = DOMAIN work /\ \A b \in DOMAIN work \ {id} : work'[b] = work[b]
        /\ work[id].pc = "compute" /\ work'[id].pc = "decode"
        /\ work'[id] = [work[id] EXCEPT !.pc = "decode"]
    BY <1>5, BeginDecode
  <2>2. /\ work'[id].next = work[id].next /\ work'[id].idx = work[id].idx
        /\ work'[id].outputs = work[id].outputs /\ work'[id].iBatches = work[id].iBatches
    <3>1. IsBatch(work[id])
      BY <1>0 DEF Typed
    <3> QED BY <2>1, <3>1 DEF IsBatch
  <2>3. /\ \A b \in DOMAIN work', i \in Slot : Awaits(b, i)' =>
              /\ b \in DOMAIN work /\ Awaits(b, i)
              /\ work'[b].next = work[b].next /\ work'[b].outputs = work[b].outputs
              /\ work'[b].iBatches = work[b].iBatches
        /\ \A i \in Slot : Owed(i) => Owed(i)'
    <3>1. \A b \in DOMAIN work, i \in Slot : Awaits(b, i)' <=> Awaits(b, i)
      BY <1>3, <2>1, <2>2 DEF Awaits
    <3>2. \A i \in Slot : Owed(i) => Owed(i)'
      BY <2>1, <3>1 DEF Owed
    <3>3. \A b \in DOMAIN work' : /\ work'[b].next = work[b].next
                                  /\ work'[b].outputs = work[b].outputs
                                  /\ work'[b].iBatches = work[b].iBatches
      BY <2>1, <2>2
    <3> QED BY <2>1, <3>1, <3>2, <3>3
  <2> HIDE DEF Answers
  <2> QED BY <1>1, <1>2, <1>4, <2>3, AnswersQuiet DEF Early
<1>6. CASE DecodeEnd(id)
  <2>1. /\ work[id].idx = Parallel /\ DOMAIN work' = DOMAIN work \ {id}
        /\ \A b \in DOMAIN work \ {id} : work'[b] = work[b]
    BY <1>6, EndDecode
  <2>2. \A i \in Slot : ~Awaits(id, i)
    <3>1. \A i \in Slot : ~(Parallel <= i)
      BY CacheAssumption DEF Slot
    <3> QED BY <2>1, <3>1 DEF Awaits
  <2>3. /\ \A b \in DOMAIN work', i \in Slot : Awaits(b, i)' =>
              /\ b \in DOMAIN work /\ Awaits(b, i)
              /\ work'[b].next = work[b].next /\ work'[b].outputs = work[b].outputs
              /\ work'[b].iBatches = work[b].iBatches
        /\ \A i \in Slot : Owed(i) => Owed(i)'
    BY <2>1, <2>2 DEF Awaits, Owed
  <2> HIDE DEF Answers
  <2> QED BY <1>1, <1>2, <1>4, <2>3, AnswersQuiet DEF Early
<1> QED BY <1>5, <1>6

LEMMA AnswersNew ==
    ASSUME Inv, Answers, NEW r \in Req, NewSequence(r)
    PROVE  Answers'
<1>0. Typed /\ Lives
  BY DEF Inv
<1>1. handler[r] = "new" /\ UNCHANGED <<seqs, slots, work, fwd, prev>>
  BY DEF NewSequence, cacheVars, runVars
<1>2. r \notin Live
  BY <1>0, <1>1 DEF Lives, Fresh
<1>3. CASE handler' = [handler EXCEPT ![r] = "failed"] /\ UNCHANGED <<seq, text>>
  <2>1. \A q \in Req : Early(q)' => Early(q) /\ (handler'[q] # "new" => handler[q] # "new")
    BY <1>0, <1>3 DEF Typed, Early
  <2>2. \A q \in Req : SameAnswer(seq'[q], seq[q])
    BY <1>3 DEF SameAnswer
  <2> HIDE DEF Answers
  <2> QED BY <1>1, <1>3, <2>1, <2>2, BatchesKept, AnswersQuiet
<1>4. CASE Requested(r)
  <2>1. \A q \in Req : q # r => handler'[q] = handler[q] /\ text'[q] = text[q] /\ seq'[q] = seq[q]
    BY <1>4 DEF Requested
  <2>2. /\ handler'[r] = "acquire" /\ Len(text'[r]) \in Nat
        /\ seq'[r].numPromptInputs = Len(text'[r])
        /\ seq'[r].delivered = seq[r].delivered /\ seq'[r].responses = seq[r].responses
        /\ seq'[r].pendingResponses = seq[r].pendingResponses
    BY <1>4 DEF Requested
  <2>3. OutTyped(seq[r]) /\ Out(seq[r]) = <<>>
    BY <1>1 DEF Answers, Early
  <2>4. OutTyped(seq'[r]) /\ Out(seq'[r]) = <<>>
    BY <2>2, <2>3 DEF OutTyped, Out
  <2>5. Own(seq'[r], r)
    <3>1. Len(<<>>) = 0
      OBVIOUS
    <3> QED BY <2>4, <3>1 DEF Own
  <2>6. \A q \in Req : OutTyped(seq'[q]) /\ Own(seq'[q], q)
    BY <2>1, <2>4, <2>5 DEF Answers
  <2>7. ASSUME NEW q \in Req, Early(q)'
        PROVE  Out(seq'[q]) = <<>> /\ (handler'[q] # "new" => seq'[q].numPromptInputs = Len(text'[q]))
    <3>1. CASE q = r
      BY <2>2, <2>4, <3>1
    <3>2. CASE q # r
      <4>1. Early(q)
        BY <2>1, <2>7, <3>2 DEF Early
      <4> QED BY <2>1, <3>2, <4>1 DEF Answers
    <3> QED BY <3>1, <3>2
  <2>8. ASSUME NEW i \in Slot, seqs[i] # None
        PROVE  seqs[i] \in Req /\ seqs[i] # r
    BY <1>0, <1>2, <2>8 DEF Typed, Live
  <2>9. ASSUME NEW i \in Slot, seqs'[i] # None, seqs'[i] \notin Embedding PROVE Due(i)'
    <3>1. Due(i)
      BY <1>1, <2>9 DEF Answers
    <3>2. (Owed(i)' <=> Owed(i)) /\ RowsKept
      BY <1>1 DEF Owed, Awaits, RowsKept, Rows
    <3> QED BY <1>1, <2>1, <2>8, <2>9, <3>1, <3>2, DueSame
  <2>10. ASSUME NEW id \in DOMAIN work', NEW i \in Slot, Awaits(id, i)' PROVE Handout(id, i)'
    <3>1. Handout(id, i)
      BY <1>1, <2>10 DEF Answers, Awaits
    <3>2. seqs[i] \in Req /\ seqs[i] # r
      BY <2>8, <3>1 DEF Handout
    <3> QED BY <1>1, <2>1, <3>1, <3>2 DEF Handout
  <2> QED BY <2>6, <2>7, <2>9, <2>10 DEF Answers
<1> QED BY <1>0, <1>3, <1>4, NewRequest

LEMMA AnswersInsert ==
    ASSUME Inv, Answers, NEW r \in Req, Insert(r)
    PROVE  Answers'
<1>0. Typed /\ handler[r] = "insert" /\ prev' = prev
  BY DEF Inv, Insert, runVars
<1>s. PICK i \in Slot, c \in Slot : \E x, y : Inserted(r, i, c, x, y)
  BY InsertMoves
<1>1. PICK x, y : Inserted(r, i, c, x, y)
  BY <1>s
<1>2. /\ r \notin Live /\ seqs[i] = None /\ seqs'[i] = r
      /\ \A j \in Slot \ {i} : seqs'[j] = seqs[j]
      /\ seq'[r].inputs = y /\ SameOut(seq'[r], seq[r])
      /\ \A q \in Req \ {r} : seq'[q] = seq[q]
      /\ y # <<>> /\ y[Len(y)] = <<r, Len(text[r])>>
      /\ handler' = [handler EXCEPT ![r] = "stream"]
      /\ UNCHANGED <<text, work, fwd>>
  BY <1>1 DEF Inserted
<1>3. OutTyped(seq[r]) /\ Out(seq[r]) = <<>> /\ seq[r].numPromptInputs = Len(text[r])
  BY <1>0 DEF Answers, Early
<1>4. \A q \in Req : SameAnswer(seq'[q], seq[q])
  BY <1>2, SameOutAnswer DEF SameAnswer
<1>5. ASSUME NEW q \in Req PROVE OutTyped(seq'[q]) /\ Own(seq'[q], q)
  BY <1>4, OwnSame DEF Answers
<1>6. ASSUME NEW q \in Req, Early(q)'
      PROVE  Out(seq'[q]) = <<>> /\ (handler'[q] # "new" => seq'[q].numPromptInputs = Len(text'[q]))
  <2>1. q # r /\ handler'[q] = handler[q]
    BY <1>0, <1>2, <1>6 DEF Early, Typed
  <2>2. Early(q)
    BY <1>6, <2>1 DEF Early
  <2> QED BY <1>2, <1>6, <2>1, <2>2 DEF Answers
<1>7. ASSUME NEW j \in Slot, j # i, seqs[j] # None
      PROVE  seqs[j] \in Req /\ seqs[j] # r /\ seqs'[j] = seqs[j]
  BY <1>0, <1>2, <1>7 DEF Typed, Live
<1>8. \A j \in Slot : Owed(j)' <=> Owed(j)
  BY <1>2 DEF Owed, Awaits
<1>9. ~Owed(i)
  BY <1>2 DEF Owed, Answers, Handout
<1>10. ASSUME NEW j \in Slot, seqs'[j] # None, seqs'[j] \notin Embedding PROVE Due(j)'
  <2>1. CASE j = i
    <3>1. /\ Out(seq'[r]) = <<>> /\ seq'[r].numPromptInputs = Len(text[r])
      BY <1>2, <1>3, <1>4 DEF SameAnswer
    <3>2. Len(<<>>) = 0 /\ Len(text[r]) \in Nat
      BY <1>0 DEF Typed
    <3>3. Last(y) = <<r, Len(text[r])>>
      BY <1>2 DEF Last
    <3>4. ~Owed(j)' /\ seqs'[j] = r /\ text' = text /\ seq'[r].inputs = y /\ y # <<>>
      BY <1>2, <1>8, <1>9, <2>1
    <3> QED BY <3>1, <3>2, <3>3, <3>4 DEF Due
  <2>2. CASE j # i
    <3>1. seqs'[j] = seqs[j]
      BY <1>2, <2>2
    <3>2. Due(j) /\ seqs[j] \in Req /\ seqs[j] # r
      BY <1>7, <1>10, <2>2, <3>1 DEF Answers
    <3>3. RowsKept
      BY <1>0, <1>2 DEF RowsKept, Rows
    <3> QED BY <1>2, <1>8, <3>1, <3>2, <3>3, DueSame
  <2> QED BY <2>1, <2>2
<1>11. ASSUME NEW id \in DOMAIN work', NEW j \in Slot, Awaits(id, j)' PROVE Handout(id, j)'
  <2>1. id \in DOMAIN work /\ Awaits(id, j) /\ Handout(id, j)
    BY <1>2, <1>11 DEF Answers, Awaits
  <2>2. seqs'[j] = seqs[j]
    BY <1>2, <2>1 DEF Handout
  <2> QED BY <1>2, <2>1, <2>2 DEF Handout
<1> QED BY <1>5, <1>6, <1>10, <1>11 DEF Answers

LEMMA AnswersForwardSlot ==
    ASSUME Inv, Answers, ForwardSlot, ~EndAtLimit
    PROVE  Answers'
<1>0. Typed /\ SlotPerPermit
  BY DEF Inv
<1> DEFINE r == seqs[Cursor]
<1>1. /\ fwd # None /\ fwd' # None /\ UNCHANGED <<handler, text, work, prev>>
      /\ fwd \in ForwardType /\ fwd' \in ForwardType
      /\ r # None => r \in Live /\ seq[r].inputs # <<>>
      /\ \/ /\ UNCHANGED <<seqs, seq, slots>>
            /\ fwd'.outputs = fwd.outputs
         \/ /\ r # None /\ seqs' = seqs
            /\ \E taken, rest, cached \in Seq(Ptr) : Forwarded(r, taken, rest, cached)
  BY ForwardedSlot
<1> HIDE DEF r
<1>2. \A id \in DOMAIN work, i \in Slot : Awaits(id, i)' <=> Awaits(id, i)
  BY <1>1 DEF Awaits
<1>3. \A i \in Slot : Owed(i)' <=> Owed(i)
  BY <1>1, <1>2 DEF Owed
<1>4. CASE UNCHANGED <<seqs, seq, slots>> /\ fwd'.outputs = fwd.outputs
  <2>1. \A q \in Req : SameAnswer(seq'[q], seq[q])
    BY <1>4 DEF SameAnswer
  <2>2. RowsKept
    BY <1>1, <1>4 DEF RowsKept, Rows
  <2> HIDE DEF Answers
  <2> QED BY <1>1, <1>2, <1>3, <1>4, <2>1, <2>2, AnswersQuiet DEF Early
<1>5. ASSUME r # None, seqs' = seqs, NEW taken \in Seq(Ptr), NEW rest \in Seq(Ptr),
             NEW cached \in Seq(Ptr), Forwarded(r, taken, rest, cached)
      PROVE  Answers'
  <2>1. /\ \A q \in Req : q # r => seq'[q] = seq[q]
        /\ seq'[r].pendingInputs = taken /\ seq'[r].inputs = rest /\ SameOut(seq'[r], seq[r])
        /\ Begins(fwd.outputs, fwd'.outputs)
        /\ (IF rest # <<>> THEN Last(rest) ELSE Last(taken)) = Last(seq[r].inputs)
        /\ r \notin Embedding /\ rest = <<>> =>
              HasRow(fwd'.outputs, seq'[r].iBatch,
                     IF rest # <<>> THEN Last(rest) ELSE Last(taken))
    BY <1>5 DEF Forwarded, Moves, HasRow
  <2>2. \A q \in Req : SameAnswer(seq'[q], seq[q])
    BY <2>1, SameOutAnswer DEF SameAnswer
  <2>3. \A q \in Req : OutTyped(seq[q])
    BY DEF Answers
  <2>4. ASSUME NEW q \in Req PROVE OutTyped(seq'[q]) /\ Own(seq'[q], q)
    BY <2>2, OwnSame DEF Answers
  <2>5. ASSUME NEW q \in Req, Early(q)'
        PROVE  Out(seq'[q]) = <<>> /\ (handler'[q] # "new" => seq'[q].numPromptInputs = Len(text'[q]))
    <3>1. Early(q) /\ handler'[q] = handler[q]
      BY <1>1, <2>5 DEF Early
    <3> QED BY <1>1, <2>2, <2>3, <2>5, <3>1 DEF Answers, SameAnswer
  <2>6. RowsKept
    <3>1. fwd.outputs \in Seq(Ptr) /\ fwd'.outputs \in Seq(Ptr)
      BY <1>1 DEF ForwardType, Ptr
    <3> DEFINE o == fwd.outputs
               q == fwd'.outputs
    <3>2. Len(o) \in Nat /\ Len(q) \in Nat /\ Begins(o, q)
      BY <2>1, <3>1
    <3> HIDE DEF o, q
    <3>3. \A n, p : HasRow(o, n, p) => HasRow(q, n, p)
      BY <3>2 DEF HasRow, Begins
    <3> QED BY <1>1, <3>3 DEF RowsKept, Rows, o, q
  <2>7. ASSUME NEW i \in Slot, seqs'[i] # None, seqs'[i] \notin Embedding PROVE Due(i)'
    <3>1. Due(i) /\ seqs[i] \in Req
      BY <1>0, <1>5, <2>7 DEF Answers, Typed
    <3>2. CASE seqs[i] # r
      BY <1>1, <1>3, <1>5, <2>1, <2>6, <3>1, <3>2, DueSame
    <3>3. CASE seqs[i] = r
      <4> DEFINE n == Len(text[r])
      <4>1. /\ n = seq[r].numPromptInputs + Len(Out(seq[r])) + (IF Owed(i) THEN 1 ELSE 0)
            /\ Last(seq[r].inputs) = <<r, n>>
        BY <1>1, <1>5, <3>1, <3>3 DEF Due
      <4>2. Out(seq'[r]) = Out(seq[r]) /\ seq'[r].numPromptInputs = seq[r].numPromptInputs
        BY <2>2, <2>3, <3>1, <3>3 DEF SameAnswer
      <4>3. rest = <<>> => HasRow(Rows', seq'[r].iBatch, <<r, n>>)
        BY <1>1, <1>5, <2>1, <2>7, <3>3, <4>1 DEF Rows
      <4>4. Last(IF rest # <<>> THEN rest ELSE taken) = <<r, n>>
        BY <2>1, <4>1
      <4>5. n = seq'[r].numPromptInputs + Len(Out(seq'[r])) + (IF Owed(i)' THEN 1 ELSE 0)
        BY <1>3, <4>1, <4>2
      <4> QED BY <1>1, <1>5, <2>1, <3>3, <4>3, <4>4, <4>5 DEF Due
    <3> QED BY <3>2, <3>3
  <2>8. ASSUME NEW id \in DOMAIN work', NEW i \in Slot, Awaits(id, i)' PROVE Handout(id, i)'
    <3>1. Handout(id, i)
      BY <1>1, <1>2, <2>8 DEF Answers
    <3> QED BY <1>1, <1>5, <3>1 DEF Handout
  <2> QED BY <2>4, <2>5, <2>7, <2>8 DEF Answers
<1> QED BY <1>1, <1>4, <1>5

LEMMA AnswersGather ==
    ASSUME Inv, Order, BatchesRead, Answers, NEW id \in DOMAIN work, GatherInputs(id)
    PROVE  Answers'
<1>0. Typed /\ Lives /\ SlotPerPermit /\ Pending
  BY DEF Inv
<1> DEFINE mine == SameSequences(id)
           sampled == {i \in mine : seq[seqs[i]].inputs = <<>>}
<1>1. DOMAIN work = {id} /\ \A i \in Slot : ~Owed(i)
  BY Alone DEF Owed
<1>2. /\ fwd = None /\ id = prev /\ work[id].pc = "wait" /\ DOMAIN work' = {id} /\ ReadBatch(id)
  BY <1>1, ReadsBatch
<1>3. UNCHANGED <<handler, seqs, fwd, prev>>
  BY DEF GatherInputs, runVars
<1>4. Reads(mine)
  BY GatherReads
<1>5. \A i \in mine : i \in Slot /\ seqs[i] \in Live /\ seqs[i] \in Req
  BY <1>0 DEF SameSequences, Live, Typed
<1>6. /\ work'[id].pc = "compute" /\ work'[id].idx = 0 /\ work'[id].outputs = work[id].outputs
      /\ \A i \in Slot : work'[id].next[i] =
            IF i \in sampled THEN <<seqs[i], Len(text[seqs[i]]) + 1>> ELSE None
      /\ \A i \in sampled : work'[id].iBatches[i] = seq[seqs[i]].iBatch
  BY <1>2, <1>5 DEF ReadBatch, BatchesRead
<1>7. \A i \in Slot : seqs[i] # None =>
         /\ seqs[i] \in Req /\ seqs[i] \in Live
         /\ i \in mine <=> \E j \in mine : seqs[j] = seqs[i]
  BY <1>0, <1>5 DEF SlotPerPermit, Live, Typed
<1>8. \A i \in Slot : seqs[i] # None /\ i \notin mine => seq[seqs[i]].inputs # <<>>
  <2>1. ASSUME NEW i \in Slot, seqs[i] # None, seq[seqs[i]].inputs = <<>> PROVE i \in mine
    <3>1. InBatch(i)
      BY <1>0, <1>7, <2>1 DEF Lives, Pending
    <3> QED BY <1>2, <2>1, <3>1 DEF InBatch, SameSequences
  <2> QED BY <2>1
<1> HIDE DEF mine
<1>9. \A r \in Req : r \notin Live => text'[r] = text[r] /\ seq'[r] = seq[r]
  <2>1. ASSUME NEW r \in Req, r \notin Live PROVE ~ \E i \in mine : seqs[i] = r
    BY <1>5, <2>1
  <2> QED BY <1>4, <2>1 DEF Reads
<1>10. \A r \in Req : SameAnswer(seq'[r], seq[r])
  <2>1. \A r \in Req : SameOut(seq'[r], seq[r]) \/ seq'[r] = seq[r]
    BY <1>4 DEF Reads
  <2> QED BY <2>1, SameOutAnswer DEF SameAnswer
<1>11. ASSUME NEW r \in Req PROVE OutTyped(seq'[r]) /\ Own(seq'[r], r)
  BY <1>10, OwnSame DEF Answers
<1>12. ASSUME NEW r \in Req, Early(r)'
       PROVE  Out(seq'[r]) = <<>> /\ (handler'[r] # "new" => seq'[r].numPromptInputs = Len(text'[r]))
  <2>1. r \notin Live /\ Early(r)
    BY <1>0, <1>3, <1>12 DEF Early, Lives, Fresh
  <2> QED BY <1>3, <1>9, <1>12, <2>1 DEF Answers
<1>13. ASSUME NEW i \in Slot, seqs'[i] # None, seqs'[i] \notin Embedding PROVE Due(i)'
  <2> DEFINE r == seqs[i]
             n == Len(text[r])
             m == seq[r].numPromptInputs + Len(Out(seq[r]))
  <2>1. r \in Req /\ r # None /\ Due(i) /\ ~Owed(i)
    BY <1>1, <1>3, <1>7, <1>13 DEF Answers
  <2>2. n = m + 0 /\ (seq[r].inputs # <<>> => Last(seq[r].inputs) = <<r, n>>) /\ n \in Nat /\ m \in Nat
    <3>1. n \in Nat
      BY <1>0, <2>1 DEF Typed
    <3>2. OutTyped(seq[r]) /\ Len(Out(seq[r])) \in Nat
      BY <2>1, OutIs DEF Answers
    <3>3. m \in Nat
      BY <3>2 DEF OutTyped
    <3> QED BY <2>1, <3>1, <3>3 DEF Due
  <2>3. Out(seq'[r]) = Out(seq[r]) /\ seq'[r].numPromptInputs = seq[r].numPromptInputs
    BY <1>10, <2>1 DEF Answers, SameAnswer
  <2>4. CASE i \in sampled
    <3>1. /\ seq'[r].inputs = <<<<r, n + 1>>>> /\ Len(text'[r]) = n + 1
      BY <1>4, <2>1, <2>4 DEF Reads
    <3>2. Owed(i)'
      <4>1. 0 <= i /\ <<r, n + 1>> # None
        BY <2>1, <2>2, CacheAssumption, NoneAssumption DEF Slot
      <4>2. Awaits(id, i)'
        BY <1>6, <2>4, <4>1 DEF Awaits
      <4> QED BY <1>2, <4>2 DEF Owed
    <3>3. n + 1 = m + 1
      BY <2>2
    <3>4. seq'[r].inputs # <<>> /\ Last(seq'[r].inputs) = <<r, n + 1>>
      BY <3>1 DEF Last
    <3> QED BY <1>3, <2>3, <3>1, <3>2, <3>3, <3>4 DEF Due
  <2>5. CASE i \notin sampled
    <3>1. seq[r].inputs # <<>>
      BY <1>8, <2>1, <2>5
    <3>2. seq'[r].inputs = seq[r].inputs /\ text'[r] = text[r]
      BY <1>4, <2>1, <3>1 DEF Reads
    <3>3. ~Owed(i)'
      BY <1>2, <1>6, <2>5 DEF Owed, Awaits
    <3> QED BY <1>3, <2>2, <2>3, <3>1, <3>2, <3>3 DEF Due
  <2> QED BY <2>4, <2>5
<1>14. ASSUME NEW b \in DOMAIN work', NEW i \in Slot, Awaits(b, i)' PROVE Handout(b, i)'
  <2> DEFINE r == seqs[i]
             n == Len(text[r])
  <2>1. b = id /\ i \in sampled
    BY <1>2, <1>6, <1>14 DEF Awaits
  <2>2. r \in Req /\ r # None /\ i \in mine /\ seq[r].inputs = <<>>
    BY <1>5, <2>1, RunnerAssumption
  <2>3. Len(text'[r]) = n + 1 /\ n \in Nat
    <3>1. n \in Nat
      BY <1>0, <2>2 DEF Typed
    <3>2. \E j \in mine : seqs[j] = r
      BY <2>2
    <3> QED BY <1>4, <2>2, <3>1, <3>2 DEF Reads
  <2>4. work'[b].next[i] = <<r, n + 1>> /\ work'[b].outputs = work[id].outputs
        /\ work'[b].iBatches[i] = seq[r].iBatch
    BY <1>6, <2>1
  <2>5. ASSUME r \notin Embedding PROVE HasRow(work[id].outputs, seq[r].iBatch, <<r, n>>)
    BY <1>2, <2>2, <2>5 DEF Answers, Due, Rows
  <2>6. n + 1 - 1 = n
    BY <2>3
  <2> QED BY <1>3, <2>2, <2>3, <2>4, <2>5, <2>6 DEF Handout
<1> QED BY <1>11, <1>12, <1>13, <1>14 DEF Answers

LEMMA AnswersDecodeSlot ==
    ASSUME Inv, Order, Answers, NEW id \in DOMAIN work, DecodeSlot(id)
    PROVE  Answers'
<1>0. Typed /\ Lives /\ Locks /\ SlotPerPermit
  BY DEF Inv
<1>a. PICK i \in Slot : i = work[id].idx
  BY SlotDecoded
<1> DEFINE r == seqs[i]
           e == work[id].next[i]
<1>1. /\ DOMAIN work' = DOMAIN work /\ \A b \in DOMAIN work \ {id} : work'[b] = work[b]
      /\ fwd = None /\ work[id].pc = "decode" /\ i \in Slot
      /\ work'[id] = [work[id] EXCEPT !.idx = i + 1]
      /\ work'[id].pc = "decode" /\ work'[id].idx = i + 1
  BY <1>a, SlotDecoded
<1>2. work'[id].next = work[id].next /\ work'[id].outputs = work[id].outputs
      /\ work'[id].iBatches = work[id].iBatches
  <2>1. IsBatch(work[id])
    BY <1>0 DEF Typed
  <2> DEFINE n == i + 1
  <2>2. work'[id] = [work[id] EXCEPT !.idx = n]
    BY <1>1
  <2> HIDE DEF n
  <2> QED BY <2>1, <2>2 DEF IsBatch
<1>3. UNCHANGED <<handler, fwd, prev>>
  BY DEF DecodeSlot, runVars
<1>4. \/ Skipped(id) /\ UNCHANGED <<seqs, seq, slots, text>>
      \/ /\ ~Skipped(id) /\ r \in Embedding /\ text' = text
         /\ Removes(i) /\ Shortens(seq'[r], seq[r])
      \/ /\ ~Skipped(id) /\ r \notin Embedding
         /\ \E v \in Int \ {Placeholder} : text' = [text EXCEPT ![e[1]][e[2]] = v]
         /\ Decoded(i, Piece(id, i))
  BY <1>0, <1>a, DecodedSlot
<1>5. \A b \in DOMAIN work : work[b].pc # "wait" => b = id
  <2>1. BatchesInOrder
    BY <1>0, OrderIs
  <2> QED BY <1>1, <2>1 DEF BatchesInOrder
<1>6. Skipped(id) <=> r = None \/ e = None
  BY <1>a DEF Skipped
<1>7. fwd # None \/ (prev \in DOMAIN work /\ work[prev].pc = "wait") => RowsKept
  <2>1. prev \in DOMAIN work /\ work[prev].pc = "wait" => work'[prev] = work[prev]
    BY <1>1
  <2> QED BY <1>1, <1>3, <2>1 DEF RowsKept, Rows
<1>8. r = seqs[i] /\ e = work[id].next[i] /\ i \in Int /\ None \notin Req
  BY <1>1, CacheAssumption, RunnerAssumption DEF Slot
<1>9. /\ \A b \in DOMAIN work, j \in Slot : Awaits(b, j)' <=> Awaits(b, j) /\ j # i
      /\ Awaits(id, i) <=> e # None
  <2>1. \A j \in Slot : j \in Int /\ (i + 1 <= j <=> i <= j /\ j # i)
    BY <1>8, CacheAssumption DEF Slot
  <2>2. \A b \in DOMAIN work, j \in Slot : Awaits(b, j)' <=> Awaits(b, j) /\ j # i
    BY <1>a, <1>1, <1>2, <1>5, <2>1 DEF Awaits
  <2>3. Awaits(id, i) <=> e # None
    BY <1>a, <1>1, <1>8 DEF Awaits
  <2> QED BY <2>2, <2>3
<1>10. \A j \in Slot : j # i => (Owed(j)' <=> Owed(j))
  BY <1>1, <1>9 DEF Owed
<1>11. ~Owed(i)' /\ (Owed(i) <=> e # None)
  <2>1. ~Owed(i)'
    BY <1>1, <1>9 DEF Owed
  <2>2. \A b \in DOMAIN work : Awaits(b, i) => b = id
    BY <1>5 DEF Awaits
  <2> QED BY <1>9, <2>1, <2>2 DEF Owed
<1> HIDE DEF r, e
<1>12. CASE Skipped(id) /\ UNCHANGED <<seqs, seq, slots, text>>
  <2>1. e = None
    BY <1>1, <1>6, <1>8, <1>9, <1>12 DEF Answers, Handout
  <2>2. \A b \in DOMAIN work', j \in Slot : Awaits(b, j)' =>
              /\ b \in DOMAIN work /\ Awaits(b, j)
              /\ work'[b].next = work[b].next /\ work'[b].outputs = work[b].outputs
              /\ work'[b].iBatches = work[b].iBatches
    BY <1>1, <1>2, <1>9
  <2>3. \A j \in Slot : Owed(j) => Owed(j)'
    BY <1>10, <1>11, <2>1
  <2>4. \A q \in Req : SameAnswer(seq'[q], seq[q])
    BY <1>12 DEF SameAnswer
  <2> HIDE DEF Answers
  <2> QED BY <1>3, <1>7, <1>12, <2>2, <2>3, <2>4, AnswersQuiet DEF Early
\* The sequences of the other slots, and r itself once it has its new output.
<1>13. ASSUME r \in Live, seq'[r].numPromptInputs = seq[r].numPromptInputs,
              OutTyped(seq'[r]), Own(seq'[r], r),
              \A q \in Req : q # r => seq'[q] = seq[q],
              \A q \in Req : Len(text'[q]) = Len(text[q]),
              \A j \in Slot : j # i => seqs'[j] = seqs[j],
              seqs'[i] # None /\ seqs'[i] \notin Embedding => Due(i)'
       PROVE  Answers'
  <2>1. ASSUME NEW q \in Req PROVE OutTyped(seq'[q]) /\ Own(seq'[q], q)
    BY <1>13 DEF Answers
  <2>2. ASSUME NEW q \in Req, Early(q)'
        PROVE  Out(seq'[q]) = <<>> /\ (handler'[q] # "new" => seq'[q].numPromptInputs = Len(text'[q]))
    <3>1. Early(q) /\ q # r
      BY <1>0, <1>3, <1>13, <2>2 DEF Early, Lives, Fresh
    <3> QED BY <1>3, <1>13, <2>2, <3>1 DEF Answers
  <2>3. \A j \in Slot : j # i /\ seqs[j] # None => seqs[j] \in Req /\ seqs[j] # r
    BY <1>0, <1>1, <1>8 DEF Typed, SlotPerPermit
  <2>4. ASSUME NEW j \in Slot, seqs'[j] # None, seqs'[j] \notin Embedding, j # i PROVE Due(j)'
    <3>1. Due(j) /\ seqs'[j] = seqs[j] /\ seqs[j] \in Req /\ seqs[j] # r
      BY <1>13, <2>3, <2>4 DEF Answers
    <3>2. seq[seqs[j]].inputs = <<>> => RowsKept
      BY <1>7, <2>4, <3>1, Carried
    <3> QED BY <1>10, <1>13, <2>4, <3>1, <3>2, DueSame
  <2>5. ASSUME NEW b \in DOMAIN work', NEW j \in Slot, Awaits(b, j)' PROVE Handout(b, j)'
    <3>1. j # i /\ b \in DOMAIN work /\ Awaits(b, j)
      BY <1>1, <1>9, <2>5
    <3>2. Handout(b, j) /\ seqs'[j] = seqs[j]
      BY <1>13, <3>1 DEF Answers
    <3>3. seqs[j] \in Req
      BY <2>3, <3>1, <3>2 DEF Handout
    <3>4. work'[b].next = work[b].next /\ work'[b].outputs = work[b].outputs
          /\ work'[b].iBatches = work[b].iBatches
      BY <1>1, <1>2, <3>1
    <3> QED BY <1>13, <3>2, <3>3, <3>4 DEF Handout
  <2>6. ASSUME NEW j \in Slot, seqs'[j] # None, seqs'[j] \notin Embedding PROVE Due(j)'
    <3>1. CASE j = i
      BY <1>13, <2>6, <3>1
    <3>2. CASE j # i
      BY <2>4, <2>6, <3>2
    <3> QED BY <3>1, <3>2
  <2> QED BY <2>1, <2>2, <2>5, <2>6 DEF Answers
<1>14. ASSUME r # None PROVE r \in Req /\ r \in Live /\ OutTyped(seq[r]) /\ Own(seq[r], r)
  BY <1>0, <1>1, <1>8, <1>14 DEF Typed, Live, Answers
\* The sequence ends.
<1>15. ASSUME r # None, Removes(i), NEW u, OutTyped(u), Own(u, r),
              u.numPromptInputs = seq[r].numPromptInputs, Shortens(seq'[r], u),
              \A q \in Req : Len(text'[q]) = Len(text[q])
       PROVE  Answers'
  <2>1. /\ seqs'[i] = None /\ \A j \in Slot : j # i => seqs'[j] = seqs[j]
        /\ \A q \in Req : q # r => seq'[q] = seq[q]
    BY <1>0, <1>1, <1>8, <1>15 DEF Removes, Typed
  <2>2. OutTyped(seq'[r]) /\ Own(seq'[r], r) /\ seq'[r].numPromptInputs = seq[r].numPromptInputs
    BY <1>15, OwnShort DEF Shortens
  <2> HIDE DEF Answers
  <2> QED BY <1>13, <1>14, <1>15, <2>1, <2>2
<1>16. CASE ~Skipped(id) /\ r \in Embedding /\ text' = text /\ Removes(i) /\ Shortens(seq'[r], seq[r])
  <2>1. r # None
    BY <1>6, <1>16
  <2> HIDE DEF Answers
  <2> QED BY <1>14, <1>15, <1>16, <2>1
<1>17. ASSUME ~Skipped(id), r \notin Embedding, Decoded(i, Piece(id, i)),
              NEW v \in Int \ {Placeholder}, text' = [text EXCEPT ![e[1]][e[2]] = v]
       PROVE  Answers'
  <2> DEFINE s == seq[r]
             n == Len(text[r])
             m == s.numPromptInputs + Len(Out(s))
             p == Piece(id, i)
  <2>1. r # None /\ e # None
    BY <1>6, <1>17
  <2>2. \A q \in Req : Len(text'[q]) = Len(text[q])
    BY <1>0, <1>17, TokenWritten
  <2>3. r \in Req /\ r \in Live /\ OutTyped(s) /\ Own(s, r) /\ Due(i) /\ Owed(i)
        /\ Handout(id, i)
    BY <1>1, <1>8, <1>9, <1>11, <1>14, <1>17, <2>1 DEF Answers
  <2>4. n = m + 1 /\ m \in Nat /\ n - 1 = m
    <3>1. Len(Out(s)) \in Nat /\ s.numPromptInputs \in Nat
      BY <2>3, OutIs DEF OutTyped
    <3>2. n = m + 1
      BY <1>8, <2>3 DEF Due
    <3> QED BY <3>1, <3>2
  <2>5. p = <<r, m + 1>>
    <3>1. work[id].outputs[work[id].iBatches[i] + 1] = <<r, n - 1>>
      BY <1>8, <1>17, <2>3 DEF Handout, HasRow
    <3> QED BY <2>4, <3>1 DEF Piece
  <2> HIDE DEF p
  <2>6. ASSUME NEW u, Prolongs(u, s, p)
        PROVE  /\ OutTyped(u) /\ Own(u, r) /\ u.numPromptInputs = s.numPromptInputs
               /\ Len(Out(u)) = Len(Out(s)) + 1
    BY <2>3, <2>5, <2>6, OwnLong
  <2>7. ASSUME Removes(i), NEW u, u = s \/ Prolongs(u, s, p), Shortens(seq'[r], u)
        PROVE  Answers'
    <3>1. OutTyped(u) /\ Own(u, r) /\ u.numPromptInputs = s.numPromptInputs
      BY <2>3, <2>6, <2>7
    <3> HIDE DEF Answers
    <3> QED BY <1>15, <2>1, <2>2, <2>7, <3>1
  <2>8. ASSUME UNCHANGED <<seqs, slots>>, NEW u, Alike(u, s), Prolongs(u, s, p),
               seq' = [seq EXCEPT ![r] = u]
        PROVE  Answers'
    <3>1. seq'[r] = u /\ \A q \in Req : q # r => seq'[q] = seq[q]
      BY <1>0, <2>3, <2>8, SeqTyped DEF Alike
    <3>2. /\ OutTyped(u) /\ Own(u, r) /\ u.numPromptInputs = s.numPromptInputs
          /\ Len(Out(u)) = Len(Out(s)) + 1
      BY <2>6, <2>8
    <3>3. Due(i)'
      <4>1. seqs'[i] = r /\ Len(text'[r]) = n
        BY <1>8, <2>2, <2>3, <2>8
      <4>2. u.inputs = s.inputs /\ u.pendingInputs = s.pendingInputs /\ u.iBatch = s.iBatch
        BY <2>8 DEF Alike
      <4>3. n = u.numPromptInputs + Len(Out(u)) + 0
        <5>1. Len(Out(s)) \in Nat /\ s.numPromptInputs \in Nat
          BY <2>3, OutIs DEF OutTyped
        <5> QED BY <2>4, <3>2, <5>1
      <4>4. s.inputs = <<>> => RowsKept
        BY <1>1, <1>7, <1>8, <2>1, Carried
      <4>5. /\ Last(IF s.inputs # <<>> THEN s.inputs ELSE s.pendingInputs) = <<r, n>>
            /\ s.inputs = <<>> => HasRow(Rows, s.iBatch, <<r, n>>)
        BY <1>8, <2>3 DEF Due
      <4>6. s.inputs = <<>> => HasRow(Rows', s.iBatch, <<r, n>>)
        BY <4>4, <4>5 DEF RowsKept
      <4> HIDE DEF s, n
      <4>7. n = u.numPromptInputs + Len(Out(u)) + (IF Owed(i)' THEN 1 ELSE 0)
        BY <1>11, <4>3
      <4>8. /\ Last(IF u.inputs # <<>> THEN u.inputs ELSE u.pendingInputs) = <<r, n>>
            /\ u.inputs = <<>> => HasRow(Rows', u.iBatch, <<r, n>>)
        BY <4>2, <4>5, <4>6
      <4> QED BY <3>1, <4>1, <4>7, <4>8 DEF Due
    <3> HIDE DEF Answers
    <3> QED BY <1>13, <2>2, <2>3, <2>8, <3>1, <3>2, <3>3
  <2>9. \/ Removes(i) /\ \E u : (u = s \/ Prolongs(u, s, p)) /\ Shortens(seq'[r], u)
        \/ /\ UNCHANGED <<seqs, slots>>
           /\ \E u : Alike(u, s) /\ Prolongs(u, s, p) /\ seq' = [seq EXCEPT ![r] = u]
    BY <1>8, <1>17 DEF Decoded, p
  <2> HIDE DEF Answers
  <2> QED BY <2>7, <2>8, <2>9
<1> HIDE DEF Answers
<1> QED BY <1>4, <1>12, <1>16, <1>17

\* forwardBatch comes to no sequence that it ends.
NoneAtLimit ==
    mu = Forward /\ fwd.left > 0 /\ seqs[Cursor] # None =>
       LET r == seqs[Cursor] IN
       /\ ~PastLimit(r)
       /\ Len(fwd.inputs) < model.batchSize /\ Len(Cached(r)) = NumCtx => r \in Shift

LEMMA AnswersInit ==
    ASSUME Init
    PROVE  Answers
<1> DEFINE e == <<>>
<1>1. FlattenSeq(e) = e /\ e \in Seq(Ptr) /\ e \in Seq(Seq(Ptr)) /\ e \o e = e /\ Len(e) = 0
  <2>1. FlattenSeq(<<>>) = <<>>
    BY DEF FlattenSeq
  <2> QED BY <2>1
<1>2. /\ NoSequence.delivered = e /\ NoSequence.responses = e /\ NoSequence.pendingResponses = e
      /\ NoSequence.numPromptInputs = 0
  BY DEF NoSequence
<1> HIDE DEF e
<1>3. OutTyped(NoSequence) /\ Out(NoSequence) = e
  BY <1>1, <1>2 DEF OutTyped, Out
<1>4. \A r \in Req : seq[r] = NoSequence /\ handler[r] \notin {"acquire", "insert"}
  BY DEF Init
<1>5. \A r \in Req : OutTyped(seq[r]) /\ Own(seq[r], r)
  BY <1>1, <1>3, <1>4 DEF Own
<1>6. \A i \in Slot : seqs[i] = None
  BY DEF Init
<1>7. DOMAIN work = {}
  BY DEF Init
<1>8. \A r \in Req : Early(r) => Out(seq[r]) = <<>> /\ handler[r] = "new"
  BY <1>3, <1>4 DEF Early, e
<1> QED BY <1>5, <1>6, <1>7, <1>8 DEF Answers

LEMMA AnswersNext ==
    ASSUME Inv, Order, NeverEmpty, NoneAtLimit, BatchesRead, Answers, [Next]_vars
    PROVE  Answers'
<1>1. ASSUME NEW r \in Req, Handle(r) \/ Disconnect(r) PROVE Answers'
  BY <1>1, AnswersHandlers, AnswersNew, AnswersInsert DEF Handle
<1>2. CASE ForwardBatch
  <2>1. ForwardSlot => ~EndAtLimit
    BY DEF ForwardSlot, EndAtLimit, NoneAtLimit
  <2> HIDE DEF Answers, NoneAtLimit
  <2> QED BY <1>2, <2>1, AnswersForward, AnswersForwardSlot DEF ForwardBatch
<1>3. ASSUME NEW id \in DOMAIN work, ComputeBatch(id) PROVE Answers'
  BY <1>3, AnswersGather, AnswersDecode, AnswersDecodeSlot DEF ComputeBatch
<1>4. CASE NotifyStarted \/ UNCHANGED vars
  <2>1. UNCHANGED <<seqs, text, handler, seq, work, fwd, prev>>
    BY <1>4 DEF NotifyStarted, vars, cacheVars
  <2>2. \A r \in Req : SameAnswer(seq'[r], seq[r])
    BY <2>1 DEF SameAnswer
  <2> HIDE DEF Answers
  <2> QED BY <2>1, <2>2, BatchesKept, AnswersQuiet DEF Early
<1> HIDE DEF Answers
<1> QED BY <1>1, <1>2, <1>3, <1>4 DEF Next, Finished

LEMMA AnswersIs ==
    ASSUME Answers
    PROVE  OwnAnswer
BY DEF Answers, Own, Out, OwnAnswer, Output

\* A client gets the tokens predicted for its own sequence, each once, in order and without
\* a gap, through batches that are decoded while their successors are built, slots that
\* change hands, stop sequences and output that is held back, as long as forwardBatch
\* drops no empty batch and ends no sequence (runner.go, computeBatch and flushPending).
THEOREM RunnerOwnAnswer == Spec /\ []NeverEmpty /\ []NoneAtLimit => []OwnAnswer
<1>1. Init => Order /\ Sampled /\ OneAtATime /\ Answers
  BY SampledInit, AnswersInit DEF Init, Order
<1>2. Inv /\ Order /\ OneAtATime /\ Sampled /\ Answers /\ NeverEmpty /\ NoneAtLimit /\ [Next]_vars
         => (Order /\ OneAtATime /\ Sampled /\ Answers)'
  <2>1. Sampled => BatchesRead
    BY DEF Sampled
  <2> QED BY <2>1, OrderNext, OneAtATimeNext, SampledNext, AnswersNext
<1>3. Answers => OwnAnswer
  BY AnswersIs
<1> QED BY <1>1, <1>2, <1>3, InvHolds, PTL DEF Spec

-----------------------------------------------------------------------------
(* When a batch is not empty.                                              *)

\* A sequence that forwardBatch comes to with its context full can have it shifted in the
\* KV cache, and need not evaluate its inputs again.
Shiftable ==
    mu = Forward /\ fwd.left > 0 /\ seqs[Cursor] # None =>
       LET r == seqs[Cursor] IN
       Len(fwd.inputs) < model.batchSize /\ Len(Cached(r)) = NumCtx =>
          CanShift(shared, seq[r].cache, Cached(r), numKeep(r))

\* While the batch is empty, forwardBatch has a sequence ahead of it.
Sought ==
    fwd # None /\ fwd.inputs = <<>> => \E k \in 1 .. fwd.left : seqs[Ahead(k)] # None

\* forwardBatch starts at the slot nextSeq and looks at all of them.
LEMMA LooksAtAll ==
    ASSUME NEW n \in Nat, NEW i \in Slot
    PROVE  \E k \in 1 .. Parallel : (n - 1 + k) % Parallel = i
<1> DEFINE P == Parallel
           s == n % P
           q == n \div P
           k == IF i >= s THEN i - s + 1 ELSE i - s + P + 1
           c == IF i >= s THEN q ELSE q + 1
           z == (n - 1 + k) % P
           v == (n - 1 + k) \div P
<1>1. P \in Nat /\ P > 0 /\ i \in 0 .. P - 1
  BY CacheAssumption DEF Slot
<1>2. s \in 0 .. P - 1 /\ q \in Int /\ n = q * P + s
  BY <1>1
<1> HIDE DEF P, s, q
<1>3. k \in 1 .. P /\ c \in Int
  BY <1>1, <1>2
<1>4. n - 1 + k = c * P + i
  <2>1. (q + 1) * P = q * P + P /\ q * P \in Int
    BY <1>1, <1>2
  <2> DEFINE m == q * P
  <2> HIDE DEF m
  <2>2. m \in Int /\ n = m + s /\ (q + 1) * P = m + P /\ q * P = m
    BY <1>2, <2>1 DEF m
  <2>3. CASE i >= s
    BY <1>1, <1>2, <2>2, <2>3
  <2>4. CASE ~(i >= s)
    <3>1. n - 1 + k = m + P + i
      BY <1>1, <1>2, <2>2, <2>4
    <3>2. c * P = m + P
      BY <2>2, <2>4
    <3> QED BY <3>1, <3>2
  <2> QED BY <2>3, <2>4
<1> HIDE DEF k, c
<1>5. z \in 0 .. P - 1 /\ v \in Int /\ n - 1 + k = v * P + z
  BY <1>1, <1>3
<1> HIDE DEF z, v
<1>6. c = v
  <2>1. (c - v) * P = z - i /\ c - v \in Int
    BY <1>1, <1>3, <1>4, <1>5
  <2>2. CASE c - v >= 1
    <3>1. (c - v) * P >= P
      BY <2>1, <2>2, <1>1
    <3> QED BY <3>1, <2>1, <1>1, <1>5
  <2>3. CASE c - v <= -1
    <3>1. (c - v) * P <= -P
      BY <2>1, <2>3, <1>1
    <3> QED BY <3>1, <2>1, <1>1, <1>5
  <2> QED BY <2>1, <2>2, <2>3, <1>3, <1>5
<1>7. z = i
  <2>1. c * P = v * P /\ c * P \in Int
    BY <1>6, <1>1, <1>3
  <2> DEFINE m == c * P
  <2> HIDE DEF m
  <2>2. m + i = m + z /\ m \in Int
    BY <1>4, <1>5, <2>1 DEF m
  <2> QED BY <2>2, <1>1, <1>5
<1> QED BY <1>3, <1>7 DEF z, P

\* A sequence that finds room in the batch puts an input into it.
LEMMA FillAdds ==
    ASSUME Inv, mu = Forward, fwd.left > 0, seqs[Cursor] # None,
           NEW cached \in Seq(Ptr), Len(cached) < NumCtx, FillBatch(seqs[Cursor], cached),
           Len(fwd.inputs) < model.batchSize
    PROVE  fwd'.inputs # <<>>
<1>0. Typed /\ Pending
  BY DEF Inv
<1> DEFINE r == seqs[Cursor]
           inputs == Inputs(r)
           room == Lesser(model.batchSize - Len(fwd.inputs), NumCtx - Len(cached))
           n == Lesser(Len(inputs), room)
           taken == SubSeq(inputs, 1, n)
           asking == IF r \in Embedding THEN taken
                     ELSE IF n > 0 /\ n = Len(inputs) THEN <<inputs[n]>> ELSE <<>>
           new == [fwd EXCEPT !.inputs = @ \o taken, !.outputs = @ \o asking]
<1>1. fwd \in ForwardType /\ inputs \in Seq(Ptr) /\ inputs # <<>>
  BY AtCursor
<1>2. Advance(new)
  BY DEF FillBatch
<1>3. n \in 1 .. Len(inputs)
  <2>1. model.batchSize \in Nat /\ NumCtx \in Nat /\ Len(fwd.inputs) \in Nat
    <3>1. Len(fwd.inputs) \in Nat
      BY <1>1 DEF ForwardType
    <3>2. model \in ModelType /\ NumCtx \in Nat
      BY <1>0, RunnerAssumption, CacheAssumption DEF Typed
    <3>3. model.batchSize \in Nat
      BY <3>2 DEF ModelType
    <3> QED BY <3>1, <3>2, <3>3
  <2>2. room \in Nat /\ room > 0
    BY <2>1 DEF Lesser
  <2>3. Len(inputs) \in Nat /\ Len(inputs) > 0
    BY <1>1
  <2> HIDE DEF room, inputs
  <2> QED BY <2>2, <2>3 DEF Lesser
<1> HIDE DEF n, inputs, r
<1>4. taken \in Seq(Ptr) /\ Len(taken) = n
  BY <1>1, <1>3, Cut
<1> HIDE DEF taken, asking
<1>5. fwd'.inputs = fwd.inputs \o taken
  <2>1. new.inputs = fwd.inputs \o taken
    BY <1>1 DEF ForwardType
  <2>2. DOMAIN new = DOMAIN fwd /\ "seqIdx" # "inputs" /\ "left" # "inputs"
    OBVIOUS
  <2>3. "inputs" \in DOMAIN fwd
    BY <1>1 DEF ForwardType
  <2> HIDE DEF new
  <2>4. fwd' = [new EXCEPT !.seqIdx = Cursor, !.left = new.left - 1]
    BY <1>2 DEF Advance
  <2>5. fwd'.inputs = new.inputs
    BY <2>2, <2>3, <2>4
  <2> QED BY <2>1, <2>5
<1>6. fwd.inputs \in Seq(Ptr)
  BY <1>1 DEF ForwardType, Ptr
<1>7. Len(fwd.inputs \o taken) = Len(fwd.inputs) + n /\ Len(fwd.inputs) \in Nat /\ n >= 1 /\ n \in Nat
  <2>1. Len(inputs) \in Nat
    BY <1>1
  <2>2. n >= 1 /\ n \in Nat
    BY <1>3, <2>1
  <2>3. Len(fwd.inputs \o taken) = Len(fwd.inputs) + Len(taken) /\ Len(fwd.inputs) \in Nat
    <3>1. taken \in Seq(Ptr) /\ fwd.inputs \in Seq(Ptr)
      BY <1>4, <1>6
    <3> QED BY ONLY <3>1
  <2> QED BY <2>2, <2>3, <1>4
<1>8. Len(fwd.inputs \o taken) # 0
  BY ONLY <1>7
<1> QED BY <1>5, <1>8

LEMMA SoughtSlot ==
    ASSUME Inv, NoneAtLimit, Shiftable, Sought, ForwardSlot
    PROVE  Sought'
<1>0. Typed /\ Pending /\ mu = Forward /\ fwd.left > 0
  BY DEF Inv, ForwardSlot
<1>1. fwd # None /\ fwd \in ForwardType /\ Cursor \in Slot
  BY <1>0, AtCursor
<1>2. model.batchSize \in Nat \ {0}
  <2>1. model \in ModelType /\ NumCtx \in Nat
    BY <1>0, RunnerAssumption, CacheAssumption DEF Typed
  <2> QED BY <2>1 DEF ModelType
<1>3. fwd.inputs \in Seq(Ptr) /\ Len(fwd.inputs) \in Nat
  BY <1>1 DEF ForwardType, Ptr
<1>4. CASE SkipSlot /\ UNCHANGED <<seqs, permits, shared>>
  <2>1. CASE seqs[Cursor] = None /\ Advance(fwd)
    <3>1. /\ fwd'.left = fwd.left - 1 /\ fwd'.inputs = fwd.inputs /\ Cursor = Ahead(1)
          /\ \A k \in 1 .. fwd.left - 1 : Ahead(k)' = Ahead(k + 1)
      BY <1>0, <1>1, <2>1, Advanced
    <3>2. SUFFICES ASSUME fwd.inputs = <<>> PROVE \E k \in 1 .. fwd'.left : seqs'[Ahead(k)'] # None
      BY <3>1 DEF Sought
    <3>3. PICK k \in 1 .. fwd.left : seqs[Ahead(k)] # None
      BY <1>1, <3>2 DEF Sought
    <3>4. k # 1
      BY <2>1, <3>1, <3>3
    <3>5. k - 1 \in 1 .. fwd.left - 1 /\ (k - 1) + 1 = k
      BY <3>3, <3>4, <1>1 DEF ForwardType
    <3>6. Ahead(k - 1)' = Ahead(k)
      BY <3>1, <3>5
    <3>7. seqs' = seqs
      BY <1>4
    <3>8. seqs'[Ahead(k - 1)'] # None
      BY <3>3, <3>6, <3>7
    <3> QED BY <3>1, <3>5, <3>8
  <2>2. CASE seqs[Cursor] # None /\ Len(fwd.inputs) = model.batchSize
             /\ Advance([fwd EXCEPT !.resumeSeq = IF @ = -1 THEN Cursor ELSE @])
    <3> DEFINE rs == IF fwd.resumeSeq = -1 THEN Cursor ELSE fwd.resumeSeq
               new == [fwd EXCEPT !.resumeSeq = rs]
    <3>1. Advance(new)
      BY <2>2
    <3>2. new.inputs = fwd.inputs /\ "inputs" \in DOMAIN new
      BY <1>1 DEF ForwardType
    <3> HIDE DEF new
    <3>3. fwd' = [new EXCEPT !.seqIdx = Cursor, !.left = new.left - 1]
      BY <3>1 DEF Advance
    <3>4. fwd'.inputs = fwd.inputs
      BY <3>2, <3>3
    <3>5. fwd.inputs # <<>>
      BY <1>2, <1>3, <2>2
    <3> QED BY <3>4, <3>5 DEF Sought
  <2> QED BY <1>4, <2>1, <2>2 DEF SkipSlot
<1>5. CASE EndAtLimit
  BY <1>0, <1>5 DEF EndAtLimit, NoneAtLimit
<1>6. CASE AddInputs /\ UNCHANGED <<seqs, permits>>
  <2> DEFINE r == seqs[Cursor]
             sh == Shifted(Cached(r), numKeep(r))
  <2>1. r # None /\ Len(fwd.inputs) < model.batchSize
    BY <1>6 DEF AddInputs
  <2>2. Cached(r) \in Seq(Ptr) /\ r \in Req
    BY <1>0, <2>1, AtCursor DEF Live
  <2>3. ASSUME NEW cached \in Seq(Ptr), Len(cached) < NumCtx, FillBatch(r, cached)
        PROVE  fwd'.inputs # <<>>
    BY <1>0, <2>1, <2>3, FillAdds
  <2>4. CASE Len(Cached(r)) < NumCtx /\ FillBatch(r, Cached(r))
    <3> HIDE DEF r
    <3> QED BY <2>2, <2>3, <2>4 DEF Sought
  <2>5. CASE Len(Cached(r)) = NumCtx /\ FillBatch(r, sh)
    <3>1. sh \in Seq(Ptr) /\ Len(sh) < NumCtx
      BY <2>2, <2>5, KeepBounds, ShiftedTyped
    <3> HIDE DEF r, sh
    <3> QED BY <2>3, <2>5, <3>1 DEF Sought
  <2>6. CASE Len(Cached(r)) = NumCtx /\ ~CanShift(shared, seq[r].cache, Cached(r), numKeep(r))
    BY <1>0, <2>1, <2>6 DEF Shiftable
  <2> QED BY <1>6, <2>4, <2>5, <2>6 DEF AddInputs
<1> QED BY <1>4, <1>5, <1>6 DEF ForwardSlot

LEMMA SoughtNext ==
    ASSUME Inv, NoneAtLimit, Shiftable, Sought, [Next]_vars
    PROVE  Sought'
<1>0. Typed /\ Locks
  BY DEF Inv
<1>1. ASSUME fwd' = None PROVE Sought'
  BY <1>1 DEF Sought
<1>2. ASSUME fwd = None, fwd' = fwd PROVE Sought'
  BY <1>1, <1>2
<1>3. ASSUME fwd' = fwd, seqs' = seqs PROVE Sought'
  BY <1>3 DEF Sought, Ahead
<1>4. ASSUME NEW r \in Req, Handle(r) \/ Disconnect(r) PROVE Sought'
  <2>1. CASE Insert(r)
    <3>1. fwd = None /\ fwd' = fwd
      BY <1>0, <2>1, NoneAssumption DEF Insert, Locks, runVars, Forward
    <3> QED BY <1>2, <3>1
  <2>2. CASE Disconnect(r) \/ NewSequence(r) \/ Acquire(r) \/ Receive(r) \/ ReceiveEmbedding(r)
    BY <1>3, <2>2 DEF Disconnect, NewSequence, Acquire, Receive, ReceiveEmbedding, runVars
  <2> QED BY <1>4, <2>1, <2>2 DEF Handle
<1>5. CASE ForwardBatch
  <2>1. CASE ForwardBegin
    <3>1. fwd' = [seqs |-> seqs, inputs |-> <<>>, outputs |-> <<>>, resumeSeq |-> -1,
                  seqIdx |-> nextSeq - 1, left |-> Parallel]
          /\ seqs' = seqs /\ Live # {}
      BY <2>1 DEF ForwardBegin
    <3>2. PICK i \in Slot : seqs[i] # None
      <4>1. None \notin Req
        BY RunnerAssumption
      <4> QED BY <3>1, <4>1 DEF Live
    <3>3. PICK k \in 1 .. Parallel : (nextSeq - 1 + k) % Parallel = i
      BY <1>0, LooksAtAll DEF Typed
    <3>4. fwd'.left = Parallel /\ fwd'.seqIdx = nextSeq - 1
      BY <3>1
    <3>5. Ahead(k)' = i
      BY <3>3, <3>4 DEF Ahead
    <3> QED BY <3>1, <3>2, <3>3, <3>4, <3>5 DEF Sought
  <2>2. CASE ForwardSlot
    BY <2>2, SoughtSlot
  <2>3. CASE ForwardEnd
    BY <1>1, <2>3 DEF ForwardEnd
  <2> QED BY <1>5, <2>1, <2>2, <2>3 DEF ForwardBatch
<1>6. ASSUME NEW id \in DOMAIN work, ComputeBatch(id) PROVE Sought'
  <2>1. CASE GatherInputs(id) \/ DecodeBegin(id) \/ DecodeEnd(id)
    BY <1>3, <2>1 DEF GatherInputs, DecodeBegin, DecodeEnd, runVars
  <2>2. CASE DecodeSlot(id)
    <3>1. mu = id /\ id # Forward
      BY <1>0, <2>2 DEF DecodeSlot, Locks, Typed, Forward
    <3>2. fwd = None /\ fwd' = fwd
      BY <1>0, <2>2, <3>1 DEF DecodeSlot, Locks, runVars
    <3> QED BY <1>2, <3>2
  <2> QED BY <1>6, <2>1, <2>2 DEF ComputeBatch
<1>7. CASE NotifyStarted \/ UNCHANGED vars
  BY <1>3, <1>7 DEF NotifyStarted, vars
<1> QED BY <1>4, <1>5, <1>6, <1>7 DEF Next, Finished

\* forwardBatch hands on a batch without an input only after it has ended a sequence or
\* had one evaluate its inputs again: it looks at every slot, and the first sequence it
\* finds has something to evaluate and finds room (runner.go, forwardBatch).
THEOREM RunnerNeverEmpty == Spec /\ []NoneAtLimit /\ []Shiftable => []NeverEmpty
<1>1. Init => Sought
  BY DEF Init, Sought
<1>2. Inv /\ NoneAtLimit /\ Shiftable /\ Sought /\ [Next]_vars => Sought'
  BY SoughtNext
<1>3. Inv /\ Sought => NeverEmpty
  <2> SUFFICES ASSUME Inv, Sought, fwd # None, fwd.left = 0, fwd.inputs = <<>> PROVE FALSE
    BY DEF NeverEmpty
  <2> QED BY DEF Sought
<1> QED BY <1>1, <1>2, <1>3, InvHolds, PTL DEF Spec

\* No two cache slots have a cell in common.
NothingShared == shared = [s \in Slot |-> [t \in Slot |-> 0]]

LEMMA RemovesNothing ==
    ASSUME NEW s, NEW n \in Nat
    PROVE  LET none == [t \in Slot |-> [u \in Slot |-> 0]] IN RemoveCells(none, s, n) = none
BY DEF RemoveCells, Lesser

\* findLongestCacheSlot continues the slot it finds and copies nothing.
LEMMA InsertShares ==
    ASSUME Inv, ~MultiUserCache, NothingShared, NEW r \in Req, Insert(r)
    PROVE  NothingShared'
<1>0. Typed /\ Lives /\ SlotPerPermit /\ handler[r] = "insert"
  BY DEF Inv, Insert
<1> DEFINE held == [s \in Slot |-> Tokens(slots[s].Inputs)]
           prompt == Tokens(seq[r].inputs)
           L(canResume) == LoadCacheSlot(slots, shared, held, prompt, r \notin Embedding, canResume)
<1>1. PICK canResume \in CanResume : shared' = L(canResume).shared
  BY DEF Insert
<1> DEFINE n == L(canResume).numPast
           found == findLongestCacheSlot(slots, held, prompt)
<1>2. n \in Nat
  <2>1. seq[r].inputs \in Seq(Ptr) /\ Len(seq[r].inputs) \in Nat \ {0}
    BY <1>0, InsertDoes
  <2>2. Len(prompt) \in Nat \ {0}
    BY <2>1, TokensLen
  <2>3. Free(slots) # {}
    BY <1>0, FreeSlot
  <2>4. \A s \in Slot : Len(held[s]) \in Nat /\ slots[s].lastUsed \in Nat
    <3>1. \A s \in Slot : slots[s].Inputs \in Seq(Ptr) /\ slots[s].lastUsed \in Nat
      BY <1>0 DEF Typed
    <3> QED BY <3>1, TokensLen
  <2>5. canResume \in BOOLEAN /\ (r \notin Embedding) \in BOOLEAN
    BY RunnerAssumption
  <2> HIDE DEF held, prompt
  <2>6. n \in 0 .. Len(prompt) - 1
    BY <2>2, <2>3, <2>4, <2>5, LoadedSlot
  <2> QED BY <2>2, <2>6
<1>3. found.src = found.slot
  BY DEF findLongestCacheSlot
<1>4. L(canResume).shared = RemoveCells(shared, found.slot, n)
  <2> HIDE DEF held, prompt
  <2> QED BY <1>3 DEF LoadCacheSlot
<1> HIDE DEF L, n, found
<1> QED BY <1>1, <1>2, <1>4, RemovesNothing DEF NothingShared

LEMMA SharesNext ==
    ASSUME Inv, ~MultiUserCache, NothingShared, [Next]_vars
    PROVE  NothingShared'
<1>1. ASSUME shared' = shared PROVE NothingShared'
  BY <1>1 DEF NothingShared
<1>2. ASSUME NEW r \in Req, Handle(r) \/ Disconnect(r) PROVE NothingShared'
  <2>1. CASE Insert(r)
    BY <2>1, InsertShares
  <2>2. CASE Disconnect(r) \/ NewSequence(r) \/ Acquire(r) \/ Receive(r) \/ ReceiveEmbedding(r)
    BY <1>1, <2>2 DEF Disconnect, NewSequence, Acquire, Receive, ReceiveEmbedding, cacheVars
  <2> QED BY <1>2, <2>1, <2>2 DEF Handle
<1>3. ASSUME ForwardSlot PROVE NothingShared'
  <2> DEFINE r == seqs[Cursor]
  <2>1. CASE shared' = shared
    BY <1>1, <2>1
  <2>2. CASE AddInputs /\ ~(shared' = shared)
    <3>1. mu = Forward /\ fwd.left > 0 /\ r # None
      BY <1>3, <2>2 DEF ForwardSlot, AddInputs
    <3>2. r \in Req
      BY <3>1, AtCursor DEF Live
    <3>3. numKeep(r) \in Nat
      <4> HIDE DEF r
      <4>1. numKeep(r) \in 0 .. NumCtx - 1
        BY <3>2, KeepBounds
      <4> QED BY <4>1
    <3>4. \/ shared' = RemoveCells(shared, seq[r].cache, numKeep(r))
          \/ shared' = RemoveCells(shared, seq[r].cache, 0)
      BY <2>2 DEF AddInputs
    <3> HIDE DEF r
    <3> QED BY <3>3, <3>4, RemovesNothing DEF NothingShared
  <2> QED BY <1>3, <2>1, <2>2 DEF ForwardSlot
<1>4. ASSUME ForwardBatch PROVE NothingShared'
  BY <1>1, <1>3, <1>4 DEF ForwardBatch, ForwardBegin, ForwardEnd, cacheVars
<1>5. ASSUME NEW id \in DOMAIN work, ComputeBatch(id) PROVE NothingShared'
  <2>1. CASE GatherInputs(id)
    BY <1>1, <2>1, ZenonT(30) DEF GatherInputs
  <2>2. CASE DecodeBegin(id) \/ DecodeEnd(id)
    BY <1>1, <2>2 DEF DecodeBegin, DecodeEnd, cacheVars
  <2>3. CASE DecodeSlot(id)
    BY <1>1, <2>3 DEF DecodeSlot
  <2> QED BY <1>5, <2>1, <2>2, <2>3 DEF ComputeBatch
<1>6. CASE NotifyStarted \/ UNCHANGED vars
  BY <1>1, <1>6 DEF NotifyStarted, vars, cacheVars
<1> QED BY <1>2, <1>4, <1>5, <1>6 DEF Next, Finished

\* With one cache slot no other sequence has a cell of it.
LEMMA OneSlotShifts ==
    ASSUME Inv, Parallel = 1
    PROVE  Shiftable
<1> SUFFICES ASSUME mu = Forward, fwd.left > 0, seqs[Cursor] # None
             PROVE  LET r == seqs[Cursor] IN
                    CanShift(shared, seq[r].cache, Cached(r), numKeep(r))
  BY DEF Shiftable
<1> DEFINE r == seqs[Cursor]
<1>1. seq[r].cache \in Slot
  BY AtCursor
<1>2. Slot \ {seq[r].cache} = {}
  BY <1>1 DEF Slot
<1> QED BY <1>2 DEF CanShift

LEMMA UnsharedShifts ==
    ASSUME Inv, NothingShared
    PROVE  Shiftable
<1> SUFFICES ASSUME mu = Forward, fwd.left > 0, seqs[Cursor] # None,
                    Len(Cached(seqs[Cursor])) = NumCtx
             PROVE  LET r == seqs[Cursor] IN
                    CanShift(shared, seq[r].cache, Cached(r), numKeep(r))
  BY DEF Shiftable
<1> DEFINE r == seqs[Cursor]
           d == ShiftDiscard(Cached(r), numKeep(r))
<1>1. r \in Req /\ Cached(r) \in Seq(Ptr) /\ seq[r].cache \in Slot
  BY AtCursor DEF Live
<1> HIDE DEF r
<1>2. numKeep(r) \in 0 .. NumCtx - 1 /\ NumCtx \in Nat
  BY <1>1, KeepBounds, CacheAssumption
<1>3. d \in 1 .. NumCtx - numKeep(r)
  BY <1>1, <1>2, ShiftedIs DEF r
<1> HIDE DEF d
<1>4. 0 <= numKeep(r) + d
  BY <1>2, <1>3
<1>5. \A t \in Slot : shared[seq[r].cache][t] = 0
  BY <1>1 DEF NothingShared
<1>6. CanShift(shared, seq[r].cache, Cached(r), numKeep(r))
  BY <1>4, <1>5 DEF CanShift, d
<1> QED BY <1>6 DEF r

\* Unless a prompt can start from a copy of another slot's prefix, which takes several
\* slots and OLLAMA_MULTIUSER_CACHE, a full context can always be shifted.
LEMMA AlwaysShiftable ==
    ASSUME Parallel = 1 \/ ~MultiUserCache
    PROVE  Spec => []Shiftable
<1>1. CASE Parallel = 1
  <2>1. Inv => Shiftable
    BY <1>1, OneSlotShifts
  <2> QED BY <2>1, InvHolds, PTL
<1>2. CASE ~MultiUserCache
  <2>1. Init => NothingShared
    BY DEF Init, NothingShared
  <2>2. Inv /\ NothingShared /\ [Next]_vars => NothingShared'
    BY <1>2, SharesNext
  <2>3. Inv /\ NothingShared => Shiftable
    BY UnsharedShifts
  <2> QED BY <2>1, <2>2, <2>3, InvHolds, PTL DEF Spec
<1> QED BY <1>1, <1>2

\* Without copies of prefixes, which are off unless OLLAMA_MULTIUSER_CACHE is set, a runner
\* computes its batches in order, on tokens that have been sampled, and sends every client
\* its own answer, as long as no sequence is ended while a batch is built.
THEOREM RunnerUnshared ==
    ASSUME Parallel = 1 \/ ~MultiUserCache
    PROVE  Spec /\ []NoneAtLimit => [](BatchesInOrder /\ TokensResolved /\ OwnAnswer)
<1>1. Spec => []Shiftable
  BY AlwaysShiftable
<1> QED BY <1>1, RunnerNeverEmpty, RunnerBatchesInOrder, RunnerTokensResolved,
           RunnerOwnAnswer, PTL

\* No sequence is ended for its length if no request has a limit and every context may be
\* shifted.
LEMMA Unlimited ==
    ASSUME Inv, \A r \in Req : NumPredict[r] = 0, Shift = Req
    PROVE  NoneAtLimit
<1> SUFFICES ASSUME mu = Forward, fwd.left > 0, seqs[Cursor] # None
             PROVE  ~PastLimit(seqs[Cursor]) /\ seqs[Cursor] \in Shift
  BY DEF NoneAtLimit
<1>1. seqs[Cursor] \in Req
  BY AtCursor DEF Live
<1> QED BY <1>1 DEF PastLimit

\* Without copies of prefixes a runner keeps its batches in order and the answers apart
\* whatever its clients and its goroutines do, if no request has a limit (num_predict 0)
\* and every one lets its context be shifted (runner.go, forwardBatch and computeBatch).
THEOREM RunnerUnlimited ==
    ASSUME Parallel = 1 \/ ~MultiUserCache, \A r \in Req : NumPredict[r] = 0, Shift = Req
    PROVE  Spec => [](BatchesInOrder /\ TokensResolved /\ OwnAnswer)
<1>1. Inv => NoneAtLimit
  BY Unlimited
<1> QED BY <1>1, InvHolds, RunnerUnshared, PTL
=============================================================================
