---------------------------- MODULE LlamaKVCache ----------------------------
(***************************************************************************)
(* The key-value cache of llama.cpp as the llama.cpp runner uses it: a     *)
(* stream of cells for each sequence (kv_unified is false), and for models *)
(* with a sliding window a second cache of the same size (swa_full).       *)
(*                                                                         *)
(* The cells of a stream only ever hold its own sequence, so a cell's set  *)
(* of sequences is empty or that one, and the position counters seq_pos    *)
(* are the positions of the cells that are not empty.                      *)
(*                                                                         *)
(* Beside the cells the model keeps what the K tensor holds in each of     *)
(* them: the token whose key was written and the position it is rotated    *)
(* for.  A removed cell keeps its data, a shift of positions and a copy of *)
(* a stream reach the data only with the next batch.                       *)
(***************************************************************************)
EXTENDS Integers, Sequences, SequencesExt, FiniteSetsExt

CONSTANTS
    NSeqMax,   \* n_seq_max: sequences, and streams
    Size,      \* n_ctx_seq: cells of a stream
    NUbatch,   \* n_ubatch: tokens computed at once
    NSwa       \* n_swa: the sliding window, 0 if the model has none

ASSUME KVAssumption ==
    /\ {NSeqMax, Size, NUbatch} \subseteq Nat \ {0}
    /\ NSwa \in Nat

Stream == 0 .. NSeqMax - 1
Cell == 0 .. Size - 1
NoToken == <<0, 0>>

\* One stream of llama_kv_cells and its head, where the search for cells starts.
EmptyCells ==
    [pos |-> [i \in Cell |-> -1], shift |-> [i \in Cell |-> 0], head |-> 0]

\* A llama_kv_cache: its streams, the data, and the stream copies put off (sc_info).
EmptyCache ==
    [cells |-> [s \in Stream |-> EmptyCells],
     data |-> [s \in Stream |-> [i \in Cell |-> NoToken]],
     copies |-> <<>>]

Used(c) == {i \in Cell : c.pos[i] # -1}
Positions(c) == {c.pos[i] : i \in Used(c)}
seq_pos_min(c) == IF Used(c) = {} THEN -1 ELSE Min(Positions(c))
seq_pos_max(c) == IF Used(c) = {} THEN -1 ELSE Max(Positions(c))

\* The cells at positions p0 up to, not including, p1; a negative p1 is no limit.
InRangeClosed(c, p0, p1) == {i \in Used(c) : c.pos[i] >= p0 /\ (p1 < 0 \/ c.pos[i] <= p1)}
InRange(c, p0, p1) == {i \in Used(c) : c.pos[i] >= p0 /\ (p1 < 0 \/ c.pos[i] < p1)}

Cleared(c, S) ==
    [c EXCEPT !.pos = [i \in Cell |-> IF i \in S THEN -1 ELSE @[i]],
              !.shift = [i \in Cell |-> IF i \in S THEN 0 ELSE @[i]]]

\* The head moves back to the first cell that is freed.
seq_rm(c, p0, p1) ==
    LET freed == InRange(c, p0, p1)
    IN  [Cleared(c, freed) EXCEPT !.head = Min({@} \cup freed)]

\* The positions change at once, the data when the shift is applied.  The next search
\* starts at a cell that fell off the beginning, or else at the first cell.
seq_add(c, p0, p1, d) ==
    LET moved == InRange(c, p0, p1)
        freed == {i \in moved : c.pos[i] + d < 0}
        added == [c EXCEPT !.pos = [i \in Cell |-> IF i \in moved THEN @[i] + d ELSE @[i]],
                           !.shift = [i \in Cell |-> IF i \in moved THEN @[i] + d ELSE @[i]]]
    IN  IF d = 0 \/ p0 = p1 THEN c
        ELSE [Cleared(added, freed) EXCEPT !.head = IF freed = {} THEN 0 ELSE Min(freed)]

\* A copy into another stream takes all of it: the range must be as good as the whole
\* buffer, or the process is aborted.
IsFull(p1) == ~(p1 > 0 /\ p1 + 1 < Size)
seq_cp(kv, src, dst) ==
    [kv EXCEPT !.cells[dst] = kv.cells[src], !.copies = Append(@, <<src, dst>>)]

is_masked_swa(w, p0, p1) == w > 0 /\ p1 - p0 >= w

\* Copies and shifts that were put off reach the data, copies first.
CopyAll(data, copies) ==
    LET copied[k \in 0 .. Len(copies)] ==
            IF k = 0 THEN data
            ELSE [copied[k - 1] EXCEPT ![copies[k][2]] = copied[k - 1][copies[k][1]]]
    IN  copied[Len(copies)]
updateKeepsShift(kv) ==
    LET copied == CopyAll(kv.data, kv.copies)
    IN  [kv EXCEPT !.copies = <<>>,
                   !.data = [s \in Stream |-> [i \in Cell |->
                       <<copied[s][i][1], copied[s][i][2] + kv.cells[s].shift[i]>>]]]
updateNoShift(kv) ==
    [kv EXCEPT !.cells = [s \in Stream |-> [@[s] EXCEPT !.shift = [i \in Cell |-> 0]]],
               !.copies = <<>>]
update(kv) ==
    LET copied == CopyAll(kv.data, kv.copies)
    IN  [cells |-> [s \in Stream |->
                       [kv.cells[s] EXCEPT !.shift = [i \in Cell |-> 0]]],
         data |-> [s \in Stream |-> [i \in Cell |->
                       <<copied[s][i][1], copied[s][i][2] + kv.cells[s].shift[i]>>]],
         copies |-> <<>>]

(***************************************************************************)
(* Placing a batch.  A batch gives each sequence in it the tokens `toks'   *)
(* from position `pos' on, behind those of the sequences with a smaller    *)
(* `place'.  It is split into ubatches with equally many tokens, n, for    *)
(* each of their sequences, whose numbers are consecutive.                 *)
(***************************************************************************)
\* The sequences of which not all tokens are in an ubatch yet, done[s] of them being so.
Left(batch, done) == {s \in DOMAIN batch : done[s] < Len(batch[s].toks)}

\* The next ubatch takes the first of them, and on from it those that follow each other
\* in their numbers and in the batch.
NextSeqs(batch, done) ==
    LET left    == Left(batch, done)
        first   == CHOOSE s \in left : \A t \in left : batch[s].place <= batch[t].place
        Chain(n) == /\ first .. first + n - 1 \subseteq left
                    /\ \A s \in first .. first + n - 2 : batch[s].place < batch[s + 1].place
    IN  first .. first + Max({n \in 1 .. Min({NSeqMax, NUbatch + 1}) : Chain(n)}) - 1

NextUbatch(batch, done) ==
    LET seqs == NextSeqs(batch, done)
        n    == Min({Max({1, NUbatch \div Cardinality(seqs)})}
                        \cup {Len(batch[s].toks) - done[s] : s \in seqs})
    IN  [n |-> n,
         part |-> [s \in seqs |->
                      [pos |-> batch[s].pos + done[s],
                       toks |-> SubSeq(batch[s].toks, done[s] + 1, done[s] + n)]]]

Take(batch, done) ==
    LET u == NextUbatch(batch, done)
    IN  IF Left(batch, done) = {} THEN done
        ELSE [s \in DOMAIN batch |->
                 IF s \in DOMAIN u.part THEN done[s] + u.n ELSE done[s]]

\* Every ubatch takes a token at least, so there are no more ubatches than tokens.
split_equal(batch) ==
    LET total == Cardinality(UNION {{s} \X DOMAIN batch[s].toks : s \in DOMAIN batch})
        done[k \in 0 .. total] ==
            IF k = 0 THEN [s \in DOMAIN batch |-> 0] ELSE Take(batch, done[k - 1])
    IN  [k \in 1 .. Min({k \in 0 .. total : Left(batch, done[k]) = {}}) |->
            NextUbatch(batch, done[k - 1])]

\* A cell can be used if it is empty or hidden by the window from every token to come.
CanUse(c, w, i) == c.pos[i] = -1 \/ is_masked_swa(w, c.pos[i], seq_pos_max(c) + 1)

\* The first n such cells from the head on, around the end; empty if there are fewer.
find_slot(c, w, n) ==
    LET start  == IF c.head > Cardinality(Used(c)) + 2 * n THEN 0 ELSE c.head
        usable == {i \in Cell : CanUse(c, w, i)}
        Off(i) == (i - start) % Size
        Nearest(i, S) == i \in S /\ \A j \in S : Off(i) <= Off(j)
    IN  IF n > Cardinality(usable) THEN <<>>
        ELSE CHOOSE idxs \in [1 .. n -> usable] :
                 \A k \in 1 .. n : Nearest(idxs[k], usable \ {idxs[j] : j \in 1 .. k - 1})

\* The cells idxs are taken for the positions from pos on.  Positions below one that
\* is overwritten are removed too, and the head moves behind the last cell taken.
apply_ubatch(c, idxs, pos) ==
    LET lost   == Max({-1} \cup {c.pos[i] : i \in ToSet(idxs)})
        placed == [Cleared(c, ToSet(idxs)) EXCEPT
                   !.pos = [i \in Cell |-> IF i \in ToSet(idxs)
                               THEN pos + (CHOOSE k \in 1 .. Len(idxs) : idxs[k] = i) - 1
                               ELSE @[i]]]
        purged == IF lost = -1 \/ seq_pos_min(placed) > lost THEN placed
                  ELSE seq_rm(placed, seq_pos_min(placed), lost + 1)
    IN  [purged EXCEPT !.head = Last(idxs) + 1]

ApplyAll(cells, u, idxs) ==
    [s \in Stream |-> IF s \in DOMAIN u.part
                      THEN apply_ubatch(cells[s], idxs[s], u.part[s].pos) ELSE cells[s]]

\* The cells of every ubatch are found by placing them one after the other; then the
\* cells are given back the state in which the first ubatch that took them found them.
\* Only cells that were taken are restored, and a head from the stream numbered like the
\* sequence's place in the ubatch.
prepare(cells, w, ubatches) ==
    LET Found(now, u) == [s \in DOMAIN u.part |-> find_slot(now[s], w, u.n)]
        placed[k \in 0 .. Len(ubatches)] ==
            IF k = 0 THEN cells
            ELSE ApplyAll(placed[k - 1], ubatches[k], Found(placed[k - 1], ubatches[k]))
        ok    == \A k \in DOMAIN ubatches : \A s \in DOMAIN ubatches[k].part :
                    Found(placed[k - 1], ubatches[k])[s] # <<>>
        idxs  == [k \in DOMAIN ubatches |-> Found(placed[k - 1], ubatches[k])]
        With(s)    == {k \in DOMAIN ubatches : s \in DOMAIN ubatches[k].part}
        Took(s, i) == {k \in With(s) : i \in ToSet(idxs[k][s])}
        Restored(s, c) ==
            [c EXCEPT !.pos = [i \in Cell |-> IF Took(s, i) = {} THEN @[i]
                                              ELSE placed[Min(Took(s, i)) - 1][s].pos[i]],
                      !.head = LET k == Min(With(s))
                               IN  placed[k - 1][s - Min(DOMAIN ubatches[k].part)].head]
    IN  IF ~ok THEN [ok |-> FALSE]
        ELSE [ok |-> TRUE, idxs |-> idxs,
              cells |-> [s \in Stream |->
                            IF With(s) = {} THEN cells[s]
                            ELSE Restored(s, placed[Len(ubatches)][s])]]

(***************************************************************************)
(* Computing a batch.                                                      *)
(***************************************************************************)
\* What the mask lets the token of sequence s at position q attend to.
Visible(kv, w, s, q) ==
    {i \in Used(kv.cells[s]) : kv.cells[s].pos[i] <= q
                               /\ ~is_masked_swa(w, kv.cells[s].pos[i], q)}

\* It attends to each token of its text within the window once, at its position.
Exact(kv, w, s, q, text) ==
    LET seen == Visible(kv, w, s, q)
    IN  /\ {<<kv.cells[s].pos[i], kv.data[s][i]>> : i \in seen}
               = {<<p, <<text[p + 1], p>>>> : p \in {p \in 0 .. q : ~is_masked_swa(w, p, q)}}
        /\ \A i, j \in seen : kv.cells[s].pos[i] = kv.cells[s].pos[j] => i = j

\* An ubatch writes its keys, and its tokens attend.
Write(kv, u, idxs) ==
    [kv EXCEPT
     !.cells = ApplyAll(@, u, idxs),
     !.data = [s \in Stream |-> [i \in Cell |->
                  IF s \in DOMAIN u.part /\ i \in ToSet(idxs[s])
                  THEN LET k == CHOOSE k \in 1 .. u.n : idxs[s][k] = i
                       IN  <<u.part[s].toks[k], u.part[s].pos + k - 1>>
                  ELSE @[s][i]]]]

Misread(kv, w, u, texts) ==
    UNION {{<<s, q>> : q \in {q \in u.part[s].pos .. u.part[s].pos + u.n - 1 :
                                  ~Exact(kv, w, s, q, texts[s])}} : s \in DOMAIN u.part}

\* One cache's part in llama_decode: the cache afterwards, whether cells were found for
\* all ubatches, and the tokens that did not attend to exactly their text.
decode(kv, w, ubatches, texts) ==
    LET updated == update(kv)
        found   == prepare(updated.cells, w, ubatches)
        after[k \in 0 .. Len(ubatches)] ==
            IF k = 0 THEN [updated EXCEPT !.cells = found.cells]
            ELSE Write(after[k - 1], ubatches[k], found.idxs[k])
    IN  IF ~found.ok THEN [kv |-> kv, ok |-> FALSE, misread |-> {}]
        ELSE [kv |-> after[Len(ubatches)], ok |-> TRUE,
              misread |-> UNION {Misread(after[k], w, ubatches[k], texts) :
                                     k \in DOMAIN ubatches}]
=============================================================================
