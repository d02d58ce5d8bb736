----------------------------- MODULE LlamaRunner -----------------------------
(***************************************************************************)
(* The llama.cpp runner: runner/llamarunner decides which inputs the KV    *)
(* cache of each sequence holds and tells llama.cpp to remove, copy, shift *)
(* and evaluate; module LlamaKVCache is what llama.cpp does with it.  The  *)
(* two never compare notes: the runner reuses a prefix because its list    *)
(* says it is there.                                                       *)
(*                                                                         *)
(* Every operation holds s.mu from beginning to end, so a step is a prompt *)
(* that gets its cache slot, or one batch.  The slot search is that of     *)
(* ollamarunner, see InputCache.  Left out: images, prompts longer than    *)
(* the context (Runner has them), the path for memory that cannot be       *)
(* shifted or partly removed: a llama_kv_cache always can.                 *)
(***************************************************************************)
EXTENDS InputCache, LlamaKVCache

CONSTANTS
    Req,        \* requests, each with one sequence
    None,       \* the nil pointer
    Prompt,     \* Prompt[r]: the tokens of the prompt
    NumKeep,    \* NumKeep[r]: inputs kept in front when the context is shifted
    Shift,      \* the requests whose context is shifted when it is full
    NumPredict, \* NumPredict[r]: tokens to predict at most
    Embedding,  \* the requests for an embedding of the prompt
    BatchSize,  \* batchSize: inputs of one sequence in a batch
    Vocab,      \* tokens that may be sampled
    MaxCut      \* bound: evaluated inputs a stop sequence takes back

ASSUME LlamaAssumption ==
    /\ NSeqMax = Parallel
    /\ Size >= NumCtx                     \* n_ctx_seq is rounded up
    /\ NUbatch = BatchSize
    /\ None \notin Req
    /\ Prompt \in [Req -> Seq(Nat)]
    /\ \A r \in Req : Len(Prompt[r]) \in 1 .. NumCtx
    /\ NumKeep \in [Req -> 0 .. NumCtx - 1]
    /\ NumPredict \in [Req -> Nat \ {0}]
    /\ Shift \cup Embedding \subseteq Req
    /\ Vocab \subseteq Nat
    /\ MaxCut \in Nat

Caches == IF NSwa = 0 THEN {"base"} ELSE {"base", "swa"}
Window(c) == IF c = "swa" THEN NSwa ELSE 0

VARIABLES
    seqs,     \* seqs[i]: the request in place i, or None
    seq,      \* seq[r]: the Sequence of r
    slots,    \* the cache slots
    clock,    \* time.Now()
    kv,       \* kv[c]: the llama_kv_cache for the layers with and without a window
    died,     \* why the process ended, or "no"
    misread   \* history: tokens of the last batch that did not attend to their text

vars == <<seqs, seq, slots, clock, kv, died, misread>>

Init ==
    /\ seqs = [i \in Slot |-> None]
    /\ seq = [r \in Req |-> [state |-> "new", inputs |-> Prompt[r], cache |-> 0,
                             decoded |-> 0]]
    /\ slots = [s \in Slot |-> [Inputs |-> <<>>, InUse |-> FALSE, lastUsed |-> 0]]
    /\ clock = 1
    /\ kv = [c \in Caches |-> EmptyCache]
    /\ died = "no"
    /\ misread = {}

\* An operation on the cells of sequence s, in all caches.
KvCacheSeqRm(caches, s, p0, p1) ==
    [c \in Caches |-> [caches[c] EXCEPT !.cells[s] = seq_rm(@, p0, p1)]]

KvCacheSeqCp(caches, src, dst) == [c \in Caches |-> seq_cp(caches[c], src, dst)]

\* A prompt gets the cache slot found for it, with a copy of a prefix another slot
\* holds; what the slot holds beyond the common prefix is removed.
FoundSlot(r) ==
    LET held == [s \in Slot |-> slots[s].Inputs]
    IN  IF MultiUserCache THEN findBestCacheSlot(slots, held, Prompt[r])
        ELSE findLongestCacheSlot(slots, held, Prompt[r])

Forks(found) == found.src # found.slot /\ found.numPast > 0

Copied(found) ==
    IF ~Forks(found) THEN kv
    ELSE KvCacheSeqCp(KvCacheSeqRm(kv, found.slot, 0, -1), found.src, found.slot)

PrefixOfKeepsTail(found, numPast) == Copied(found)
PrefixOf(found, numPast) == KvCacheSeqRm(Copied(found), found.slot, numPast, -1)

LoadPrompt(r, i) ==
    LET found   == FoundSlot(r)
        numPast == IF r \in Embedding THEN 0
                   ELSE Lesser(found.numPast, Len(Prompt[r]) - 1)
    IN  IF Forks(found) /\ ~IsFull(found.numPast)
        THEN died' = "partial copy" /\ UNCHANGED <<seqs, seq, slots, clock, kv, misread>>
        ELSE /\ kv' = PrefixOf(found, numPast)
             /\ slots' = [slots EXCEPT ![found.slot] =
                             [Inputs |-> SubSeq(Prompt[r], 1, numPast), InUse |-> TRUE,
                              lastUsed |-> clock]]
             /\ seq' = [seq EXCEPT ![r].state = "run", ![r].cache = found.slot,
                             ![r].inputs = SubSeq(Prompt[r], numPast + 1, Len(Prompt[r]))]
             /\ seqs' = [seqs EXCEPT ![i] = r]
             /\ clock' = clock + 1
             /\ UNCHANGED <<died, misread>>

\* A handler with a permit takes the first empty place.
Insert(r) ==
    /\ seq[r].state = "new"
    /\ \E i \in Slot : /\ seqs[i] = None
                       /\ \A j \in 0 .. i - 1 : seqs[j] # None
                       /\ LoadPrompt(r, i)

(***************************************************************************)
(* processBatch                                                            *)
(***************************************************************************)
Live == {seqs[i] : i \in Slot} \ {None}
Held(r) == slots[seq[r].cache].Inputs

Full(r) == Len(Held(r)) = NumCtx
Discarded(r) ==
    Greater(Greater((NumCtx - NumKeep[r]) \div 2, 1) - (NumCtx - Len(Held(r))), 0)

\* The oldest inputs behind the ones to keep make room, in the KV cache, where the newer
\* ones move down, and in the slot's list.
ShiftCacheSlot(cells, r) ==
    LET end == NumKeep[r] + Discarded(r)
    IN  seq_add(seq_rm(cells, NumKeep[r], end), end, Len(Held(r)), -Discarded(r))

Kept(r) ==
    IF ~Full(r) THEN Held(r)
    ELSE SubSeq(Held(r), 1, NumKeep[r])
             \o SubSeq(Held(r), NumKeep[r] + Discarded(r) + 1, Len(Held(r)))

\* The inputs of r that go into this batch, and what its slot holds after it.
Taken(r) ==
    SubSeq(seq[r].inputs, 1,
           Min({Len(seq[r].inputs), BatchSize, NumCtx - Len(Kept(r))}))
Text(r) == Kept(r) \o Taken(r)

\* A sequence is removed if it has predicted all its tokens, or if its context is full
\* and it may not shift; the others are in the batch, in the order of their places.
Ending == {r \in Live : \/ seq[r].decoded >= NumPredict[r]
                        \/ Full(r) /\ r \notin Shift}
Batched == Live \ Ending
InSlot(s) == CHOOSE r \in Batched : seq[r].cache = s

Batch ==
    [s \in {seq[r].cache : r \in Batched} |->
        LET r == InSlot(s)
        IN  [place |-> CHOOSE i \in Slot : seqs[i] = r,
             pos |-> Len(Kept(r)), toks |-> Taken(r), text |-> Text(r)]]

ShiftedCaches ==
    [c \in Caches |->
        [kv[c] EXCEPT !.cells = [s \in Stream |->
            IF s \in DOMAIN Batch /\ Full(InSlot(s))
            THEN ShiftCacheSlot(@[s], InSlot(s)) ELSE @[s]]]]

\* A batch must go on where the cache ends; a model with a window looks at the cache
\* of the layers that have it.
Accepted ==
    \A s \in DOMAIN Batch :
        LET last == seq_pos_max(ShiftedCaches[IF NSwa = 0 THEN "base" ELSE "swa"].cells[s])
        IN  last >= 0 => Batch[s].pos = last + 1

Decoded ==
    LET ubatches == split_equal(Batch)
    IN  [c \in Caches |-> decode(ShiftedCaches[c], Window(c), ubatches,
                                 [s \in DOMAIN Batch |-> Batch[s].text])]

\* After the batch, a sequence with inputs left waits for the next one, and one for an
\* embedding ends.  The others get a token, to be evaluated next, or end: with an end
\* token, because the client has gone, or at a stop sequence, which may take evaluated
\* inputs back from the slot's list.
Sampled == {r \in Batched : Taken(r) = seq[r].inputs}
Outcomes(r) ==
    [token : IF r \in Embedding THEN {} ELSE Vocab, ends : {FALSE}]
        \cup [cut : 0 .. Lesser(MaxCut, seq[r].decoded), ends : {TRUE}]

SequenceAfter(r, o) ==
    LET s == seq[r]
    IN  IF r \notin Sampled
        THEN [s EXCEPT !.inputs = SubSeq(s.inputs, Len(Taken(r)) + 1, Len(s.inputs))]
        ELSE IF o[r].ends THEN [s EXCEPT !.state = "done", !.inputs = <<>>]
        ELSE [s EXCEPT !.inputs = <<o[r].token>>, !.decoded = @ + 1]

SlotAfter(r, o) ==
    LET ends == r \in Sampled /\ o[r].ends
    IN  [slots[seq[r].cache] EXCEPT
         !.Inputs = SubSeq(Text(r), 1, Len(Text(r)) - (IF ends THEN o[r].cut ELSE 0)),
         !.InUse = ~ends]

\* The sequences that end give their places and their slots back.
Finish(R) ==
    seqs' = [i \in Slot |-> IF seqs[i] \in R THEN None ELSE seqs[i]]

EndOnly ==
    /\ Live # {}
    /\ Batched = {}
    /\ Finish(Ending)
    /\ seq' = [r \in Req |-> IF r \in Ending
                             THEN [seq[r] EXCEPT !.state = "done", !.inputs = <<>>]
                             ELSE seq[r]]
    /\ slots' = [s \in Slot |-> IF \E r \in Ending : seq[r].cache = s
                                THEN [slots[s] EXCEPT !.InUse = FALSE] ELSE slots[s]]
    /\ UNCHANGED <<clock, kv, died, misread>>

\* A batch that llama_decode refuses, or finds no cells for, ends the process.
DecodeFails ==
    /\ died' = IF Accepted THEN "cache full" ELSE "batch refused"
    /\ UNCHANGED <<seqs, seq, slots, clock, kv, misread>>

DecodeSucceeds(out) ==
    /\ \E o \in {f \in [Sampled -> UNION {Outcomes(r) : r \in Sampled}] :
                     \A r \in Sampled : f[r] \in Outcomes(r)} :
        /\ Finish(Ending \cup {r \in Sampled : o[r].ends})
        /\ seq' = [r \in Req |->
                      IF r \in Ending
                      THEN [seq[r] EXCEPT !.state = "done", !.inputs = <<>>]
                      ELSE IF r \in Batched THEN SequenceAfter(r, o) ELSE seq[r]]
        /\ slots' = [s \in Slot |->
                        IF \E r \in Ending : seq[r].cache = s
                        THEN [slots[s] EXCEPT !.InUse = FALSE]
                        ELSE IF s \in DOMAIN Batch
                        THEN SlotAfter(InSlot(s), o)
                        ELSE slots[s]]
    /\ kv' = [c \in Caches |-> out[c].kv]
    /\ misread' = UNION {{<<c>> \o x : x \in out[c].misread} : c \in Caches}
    /\ UNCHANGED <<clock, died>>

Decode ==
    LET out == Decoded
    IN  /\ Batched # {}
        /\ IF Accepted /\ \A c \in Caches : out[c].ok
           THEN DecodeSucceeds(out) ELSE DecodeFails

processBatch == EndOnly \/ Decode

\* Nothing is left to do, or the process is dead.
Finished ==
    /\ died # "no" \/ \A r \in Req : seq[r].state = "done"
    /\ UNCHANGED vars

Next ==
    \/ died = "no" /\ ((\E r \in Req : Insert(r)) \/ processBatch)
    \/ Finished

Spec == Init /\ [][Next]_vars

(***************************************************************************)
(* Properties.                                                             *)
(***************************************************************************)
Content == Nat \X (0 .. NumCtx - 1)

\* Every variable keeps its type; a head stays within its stream, no position becomes
\* negative but by being removed, and no key is rotated to before the first position.
TypeOK ==
    /\ seqs \in [Slot -> Req \cup {None}]
    /\ seq \in [Req -> [state : {"new", "run", "done"}, inputs : Seq(Nat), cache : Slot,
                        decoded : Nat]]
    /\ slots \in [Slot -> [Inputs : Seq(Nat), InUse : BOOLEAN, lastUsed : Nat]]
    /\ clock \in Nat
    /\ \A c \in Caches, s \in Stream :
        /\ kv[c].cells[s].pos \in [Cell -> -1 .. NumCtx - 1]
        /\ kv[c].cells[s].shift \in [Cell -> -NumCtx .. 0]
        /\ kv[c].cells[s].head \in 0 .. Size
        /\ kv[c].data[s] \in [Cell -> Content]
    /\ \A c \in Caches : kv[c].copies \in Seq(Stream \X Stream)
    /\ died \in {"no", "partial copy", "batch refused", "cache full"}

\* InputCacheSlot: "Inputs that are stored in the KV cache".  Each input of a slot's list
\* is in exactly one cell, at its place in the list, and once the copies and shifts still
\* to be done have reached the data, the key in that cell is the one of that input
\* rotated for that position, whatever prefixes, copies, shifts and stops came before.
KvHoldsInputs ==
    LET now == update(kv["base"])
    IN  \A s \in Slot, n \in 1 .. NumCtx :
            n <= Len(slots[s].Inputs) =>
                \E i \in Cell :
                    /\ {j \in Cell : now.cells[s].pos[j] = n - 1} = {i}
                    /\ now.data[s][i] = <<slots[s].Inputs[n], n - 1>>

\* Every token evaluated attended to its own text, all of it and nothing else: ubatches
\* of different sequences, cells taken out of order behind a shift, data that is moved
\* only with the next batch and cells found for the whole batch beforehand do not show.
AttendsToText == misread = {}

\* llama_decode never refuses a batch of the runner's, nor fails to find cells for it:
\* either would end the process with all its sequences.
NeverRefused == died \notin {"batch refused", "cache full"}

\* llama_kv_cache::seq_cp asserts "seq_cp() is only supported for full KV buffers": no
\* prefix is copied that is not.
CopiesWholeStream == died # "partial copy"
=============================================================================
