------------------------------- MODULE Runner -------------------------------
(***************************************************************************)
(* The server of one runner process, runner/ollamarunner/runner.go.        *)
(*                                                                         *)
(* HTTP handlers put sequences into the slots of `seqs'; a semaphore has   *)
(* one permit for each.  One goroutine, run, builds batches (forwardBatch) *)
(* and starts a goroutine for each (computeBatch) without waiting for its  *)
(* outputs: the next batch is built as soon as the computation of this one *)
(* has started, with placeholders for the tokens still to be sampled.      *)
(* A batch reads its tokens when its predecessor's outputs are ready.      *)
(*                                                                         *)
(* The lock s.mu is explicit, since it is kept while a sequence's output   *)
(* is sent to its handler, which may block.  A section under the lock that *)
(* cannot block is one step; the two loops that send are one step for each *)
(* slot.                                                                   *)
(*                                                                         *)
(* An input is an object filled in later, so it is named <<r, k>>: the     *)
(* k-th input of request r.  text[r][k] is its token.  A piece of output   *)
(* is named <<r, k>> too, after the place its logits predict.              *)
(***************************************************************************)
EXTENDS InputCache, FiniteSets, SequencesExt

CONSTANTS
    Req,            \* requests, each with one sequence
    None,           \* the nil pointer
    Prompt,         \* Prompt[r]: the tokens of the prompt
    NumPredict,     \* NumPredict[r]: num_predict, 0 for no limit
    NumKeep,        \* NumKeep[r]: num_keep, negative for the whole prompt
    Shift,          \* the requests whose context is shifted when it is full
    Truncate,       \* the requests whose prompt may be truncated
    Embedding,      \* the requests of /embedding; the others are completions
    Impatient,      \* the requests whose client may go away
    Models,         \* what the loaded model may be, see ModelType
    CanResume,      \* what CanResume may answer: FALSE with a sliding window
    ResponsesCap,   \* the capacity of a responses channel
    Vocab,          \* tokens the sampler may pick, besides Eos
    MaxText         \* bound: at this length the sampler picks Eos

Placeholder == 0
Eos == -1

\* A model computes batches behind one another (supportsAsync) unless it has a pooling
\* layer; one that keeps no KV cache has one slot and takes a whole context at once.
ModelType ==
    {m \in [supportsAsync : BOOLEAN, cacheEnabled : BOOLEAN, batchSize : 1 .. NumCtx] :
        ~m.cacheEnabled => m.batchSize = NumCtx /\ Parallel = 1}

ASSUME RunnerAssumption ==
    /\ None \notin Req
    /\ IsFiniteSet(Req)
    /\ Prompt \in [Req -> Seq(Nat \ {Placeholder})]
    /\ \A r \in Req : Prompt[r] # <<>>
    /\ NumPredict \in [Req -> Nat]
    /\ NumKeep \in [Req -> Int]
    /\ Shift \cup Truncate \cup Embedding \cup Impatient \subseteq Req
    /\ Truncate \cap Embedding = {}
    /\ Models \subseteq ModelType /\ Models # {}
    /\ CanResume \subseteq BOOLEAN /\ CanResume # {}
    /\ ResponsesCap \in Nat \ {0}
    /\ Vocab \subseteq Nat \ {Placeholder}
    /\ MaxText \in Nat

\* A batch that forwardBatch builds; the nil pointer is neither that, nor an input, nor a
\* number.
ForwardType ==
    [seqs : [Slot -> Req \cup {None}], inputs : Seq(Req \X Nat), outputs : Seq(Req \X Nat),
     resumeSeq : Int, seqIdx : Int, left : Nat]

ASSUME NoneAssumption ==
    None \notin Nat /\ None \notin Req \X Nat /\ None \notin ForwardType

VARIABLES
    handler,   \* handler[r]: where the HTTP handler of r is
    waiters,   \* the queue of seqsSem
    permits,   \* the permits seqsSem has left
    seqs,      \* seqs[i]: the request whose sequence is in slot i, or None
    seq,       \* seq[r]: the Sequence of r
    text,      \* text[r]: the tokens of the inputs made for r
    slots,     \* the cache slots
    shared,    \* shared[s][t]: the cells slots s and t share in the KV cache
    clock,     \* time.Now()
    nextSeq,   \* where the next batch starts
    mu,        \* who holds s.mu: None, Forward, or the id of a batch
    fwd,       \* the batch forwardBatch is building, or None
    prev,      \* previousBatch: its id, 0 if it has no context
    started,   \* computeStartedCh of previousBatch has its signal
    work,      \* work[id]: the batches being computed
    panicked,  \* the process has panicked
    model      \* the loaded model

vars == <<handler, waiters, permits, seqs, seq, text, slots, shared, clock, nextSeq,
          mu, fwd, prev, started, work, panicked, model>>

cacheVars == <<slots, shared, clock>>
runVars == <<nextSeq, fwd, prev, started>>

Forward == 0
Live == {r \in Req : \E i \in Slot : seqs[i] = r}

NoSequence == [inputs |-> <<>>, pendingInputs |-> <<>>, pendingResponses |-> <<>>,
               cache |-> 0, responses |-> <<>>, closed |-> FALSE, quit |-> FALSE,
               embedding |-> FALSE, numPredicted |-> 0, iBatch |-> 0,
               numPromptInputs |-> 0, doneReason |-> "none", delivered |-> <<>>]

\* A model with a pooling layer answers embeddings, one without completions; other
\* requests are refused before a sequence is made for them.
Supported(r) == model.supportsAsync <=> r \notin Embedding

Init ==
    /\ model \in Models
    /\ handler = [r \in Req |-> IF Supported(r) THEN "new" ELSE "failed"]
    /\ waiters = <<>>
    /\ permits = Parallel
    /\ seqs = [i \in Slot |-> None]
    /\ seq = [r \in Req |-> NoSequence]
    /\ text = [r \in Req |-> <<>>]
    /\ slots = [s \in Slot |-> [Inputs |-> <<>>, InUse |-> FALSE, lastUsed |-> 0]]
    /\ shared = [s \in Slot |-> [t \in Slot |-> 0]]
    /\ clock = 1
    /\ nextSeq = 0
    /\ mu = None
    /\ fwd = None
    /\ prev = 0
    /\ started = FALSE
    /\ work = [id \in {} |-> None]
    /\ panicked = FALSE

(***************************************************************************)
(* The handlers.                                                           *)
(***************************************************************************)
numKeep(r) ==
    Lesser(IF NumKeep[r] < 0 THEN Len(Prompt[r]) ELSE NumKeep[r], NumCtx - 1)

\* The prompt without what does not fit, taken out behind the first numKeep inputs.
Truncated(r) ==
    LET discard == Greater(Len(Prompt[r]) - NumCtx, 0)
    IN  SubSeq(Prompt[r], 1, numKeep(r))
            \o SubSeq(Prompt[r], numKeep(r) + discard + 1, Len(Prompt[r]))

\* The prompt is turned into inputs and the handler queues for a permit.
NewSequence(r) ==
    /\ handler[r] = "new"
    /\ IF Len(Prompt[r]) > NumCtx /\ r \notin Truncate
       THEN /\ handler' = [handler EXCEPT ![r] = "failed"]
            /\ UNCHANGED <<waiters, seq, text>>
       ELSE LET prompt == IF Len(Prompt[r]) > NumCtx THEN Truncated(r) ELSE Prompt[r]
            IN  /\ handler' = [handler EXCEPT ![r] = "acquire"]
                /\ waiters' = Append(waiters, r)
                /\ text' = [text EXCEPT ![r] = prompt]
                /\ seq' = [seq EXCEPT
                           ![r].inputs = [k \in 1 .. Len(prompt) |-> <<r, k>>],
                           ![r].numPromptInputs = Len(prompt)]
    /\ UNCHANGED <<permits, seqs, cacheVars, runVars, mu, work, panicked>>

\* The semaphore serves its queue in order.
Acquire(r) ==
    /\ handler[r] = "acquire"
    /\ permits > 0
    /\ Head(waiters) = r
    /\ handler' = [handler EXCEPT ![r] = "insert"]
    /\ waiters' = Tail(waiters)
    /\ permits' = permits - 1
    /\ UNCHANGED <<seqs, seq, text, cacheVars, runVars, mu, work, panicked>>

\* The tokens of a list of inputs.
Tokens(inputs) == [k \in DOMAIN inputs |-> text[inputs[k][1]][inputs[k][2]]]

\* With a permit, the handler takes the first empty slot and a cache slot.
Insert(r) ==
    /\ handler[r] = "insert"
    /\ mu = None
    /\ \E i \in Slot, canResume \in CanResume :
        /\ seqs[i] = None
        /\ \A j \in 0 .. i - 1 : seqs[j] # None
        /\ LET held   == [s \in Slot |-> Tokens(slots[s].Inputs)]
               inputs == seq[r].inputs
               load   == LoadCacheSlot(slots, shared, held, Tokens(inputs),
                                       r \notin Embedding, canResume)
           IN  /\ slots' = [slots EXCEPT ![load.slot] =
                                [Inputs |-> SubSeq(inputs, 1, load.numPast),
                                 InUse |-> TRUE, lastUsed |-> clock]]
               /\ seq' = [seq EXCEPT ![r].cache = load.slot,
                                     ![r].inputs = SubSeq(inputs, load.numPast + 1,
                                                          Len(inputs))]
               /\ shared' = load.shared
        /\ seqs' = [seqs EXCEPT ![i] = r]
    /\ handler' = [handler EXCEPT ![r] = "stream"]
    /\ clock' = clock + 1
    /\ UNCHANGED <<waiters, permits, text, runVars, mu, work, panicked>>

\* The handler passes a response on, or answers once the channel is closed; then
\* nobody refers to the sequence any more.
Receive(r) ==
    /\ handler[r] = "stream"
    /\ r \notin Embedding
    /\ IF seq[r].responses # <<>>
       THEN /\ seq' = [seq EXCEPT ![r].delivered = @ \o Head(seq[r].responses),
                                  ![r].responses = Tail(@)]
            /\ UNCHANGED handler
       ELSE /\ seq[r].closed
            /\ handler' = [handler EXCEPT ![r] = "done"]
            /\ seq' = [seq EXCEPT ![r] = NoSequence]
    /\ UNCHANGED <<waiters, permits, seqs, text, cacheVars, runVars, mu, work,
                   panicked>>

\* The embedding handler waits for the embedding and for nothing else.
ReceiveEmbedding(r) ==
    /\ handler[r] = "stream"
    /\ r \in Embedding
    /\ seq[r].embedding \/ seq[r].closed
    /\ handler' = [handler EXCEPT ![r] = "done"]
    /\ UNCHANGED <<waiters, permits, seqs, seq, text, cacheVars, runVars, mu, work,
                   panicked>>

\* The client goes away while its handler waits for a permit or for responses.
Disconnect(r) ==
    /\ r \in Impatient
    /\ \/ /\ handler[r] = "acquire"
          /\ waiters' = SelectSeq(waiters, LAMBDA q : q # r)
          /\ UNCHANGED seq
       \/ /\ handler[r] = "stream"
          /\ r \notin Embedding
          /\ seq' = [seq EXCEPT ![r].quit = TRUE]
          /\ UNCHANGED waiters
    /\ handler' = [handler EXCEPT ![r] = "gone"]
    /\ UNCHANGED <<permits, seqs, text, cacheVars, runVars, mu, work, panicked>>

(***************************************************************************)
(* Removing a sequence.                                                    *)
(***************************************************************************)
\* The ways flushPending may end for a sequence: its pending output is sent if there
\* is room, or dropped if the handler has gone.  With neither, it blocks.
flushPendingKeeps(s) ==
    LET sent == [s EXCEPT !.responses = Append(@, s.pendingResponses)]
    IN  IF s.pendingResponses = <<>> THEN {[seq |-> s, ok |-> TRUE]}
        ELSE IF Len(s.responses) < ResponsesCap THEN {[seq |-> sent, ok |-> TRUE]} ELSE {}
flushPendingNoQuit(s) ==
    LET cleared == [s EXCEPT !.pendingResponses = <<>>]
        sent == [cleared EXCEPT !.responses = Append(@, s.pendingResponses)]
    IN  IF s.pendingResponses = <<>> THEN {[seq |-> s, ok |-> TRUE]}
        ELSE IF Len(s.responses) < ResponsesCap THEN {[seq |-> sent, ok |-> TRUE]} ELSE {}
flushPending(s) ==
    LET cleared == [s EXCEPT !.pendingResponses = <<>>]
        sent == [cleared EXCEPT !.responses = Append(@, s.pendingResponses)]
    IN  IF s.pendingResponses = <<>> THEN {[seq |-> s, ok |-> TRUE]}
        ELSE {f \in {[seq |-> sent, ok |-> TRUE], [seq |-> cleared, ok |-> FALSE]} :
                 IF f.ok THEN Len(s.responses) < ResponsesCap ELSE s.quit}

\* The sequence of slot i, now s, ends and leaves its cache slot holding `inputs'.
removeSequenceNoRelease(i, s, inputs, reason) ==
    /\ \E f \in flushPending(s) :
          seq' = [seq EXCEPT ![seqs[i]] =
                      [f.seq EXCEPT !.doneReason = reason, !.closed = TRUE]]
    /\ slots' = [slots EXCEPT ![s.cache].InUse = FALSE, ![s.cache].Inputs = inputs]
    /\ seqs' = [seqs EXCEPT ![i] = None]
    /\ permits' = permits
removeSequenceTwice(i, s, inputs, reason) ==
    /\ \E f \in flushPending(s) :
          seq' = [seq EXCEPT ![seqs[i]] =
                      [f.seq EXCEPT !.doneReason = reason, !.closed = TRUE]]
    /\ slots' = [slots EXCEPT ![s.cache].InUse = FALSE, ![s.cache].Inputs = inputs]
    /\ seqs' = [seqs EXCEPT ![i] = None]
    /\ permits' = permits + 2
removeSequence(i, s, inputs, reason) ==
    /\ \E f \in flushPending(s) :
          seq' = [seq EXCEPT ![seqs[i]] =
                      [f.seq EXCEPT !.doneReason = reason, !.closed = TRUE]]
    /\ slots' = [slots EXCEPT ![s.cache].InUse = FALSE, ![s.cache].Inputs = inputs]
    /\ seqs' = [seqs EXCEPT ![i] = None]
    /\ permits' = permits + 1

(***************************************************************************)
(* forwardBatch: a batch is built, slot by slot, under the lock.           *)
(***************************************************************************)
\* The previous batch, if there is one, has signalled that its computation started.
ComputeStartedAlways == TRUE
ComputeStarted == prev # 0 => started

\* forwardBatch waits for that and for a sequence.
ForwardBegin ==
    /\ fwd = None
    /\ mu = None
    /\ ComputeStarted
    /\ model.supportsAsync \/ DOMAIN work = {}
    /\ Live # {}
    /\ mu' = Forward
    /\ fwd' = [seqs |-> seqs, inputs |-> <<>>, outputs |-> <<>>, resumeSeq |-> -1,
               seqIdx |-> nextSeq - 1, left |-> Parallel]
    /\ UNCHANGED <<handler, waiters, permits, seqs, seq, text, cacheVars, nextSeq,
                   prev, started, work, panicked>>

\* The slot forwardBatch looks at next.
Cursor == (fwd.seqIdx + 1) % Parallel

PastLimit(r) == NumPredict[r] > 0 /\ seq[r].numPredicted >= NumPredict[r]

\* What is left to evaluate of r and what its cache slot holds; without a KV cache
\* everything is evaluated again.
Inputs(r) ==
    IF model.cacheEnabled THEN seq[r].inputs ELSE slots[seq[r].cache].Inputs \o seq[r].inputs
Cached(r) == IF model.cacheEnabled THEN slots[seq[r].cache].Inputs ELSE <<>>

\* The cursor moves on; `new' is the batch with what this slot adds to it.
Advance(new) == fwd' = [new EXCEPT !.seqIdx = Cursor, !.left = @ - 1]

\* An empty slot, or a sequence that finds the batch full: the first such sequence
\* starts the next batch.
SkipSlot ==
    LET r == seqs[Cursor]
    IN  \/ /\ r = None
           /\ Advance(fwd)
           /\ UNCHANGED <<seq, slots>>
        \/ /\ r # None
           /\ ~PastLimit(r)
           /\ Len(fwd.inputs) = model.batchSize
           /\ Advance([fwd EXCEPT !.resumeSeq = IF @ = -1 THEN Cursor ELSE @])
           /\ seq' = [seq EXCEPT ![r].inputs = Inputs(r)]
           /\ slots' = [slots EXCEPT ![seq[r].cache].Inputs = Cached(r)]

\* A sequence at its prediction limit, or with a full context it may not shift, ends.
EndAtLimit ==
    LET r == seqs[Cursor]
    IN  /\ r # None
        /\ \/ PastLimit(r)
           \/ /\ Len(fwd.inputs) < model.batchSize
              /\ Len(Cached(r)) = NumCtx
              /\ r \notin Shift
        /\ removeSequence(Cursor, seq[r], slots[seq[r].cache].Inputs, "length")
        /\ Advance([fwd EXCEPT !.seqs[Cursor] = None])

\* The inputs of r that fit go into the batch, behind `cached'; the last input of
\* the sequence, or every input of an embedding, asks for an output.
FillBatch(r, cached) ==
    LET inputs == Inputs(r)
        room   == Lesser(model.batchSize - Len(fwd.inputs), NumCtx - Len(cached))
        n      == Lesser(Len(inputs), room)
        taken  == SubSeq(inputs, 1, n)
        asking == IF r \in Embedding THEN taken
                  ELSE IF n > 0 /\ n = Len(inputs) THEN <<inputs[n]>> ELSE <<>>
    IN  /\ seq' = [seq EXCEPT ![r].pendingInputs = @ \o taken,
                              ![r].inputs = SubSeq(inputs, n + 1, Len(inputs)),
                              ![r].iBatch = Len(fwd.outputs)
                                  + (IF r \in Embedding THEN n - 1 ELSE 0)]
        /\ slots' = [slots EXCEPT ![seq[r].cache].Inputs = cached]
        /\ Advance([fwd EXCEPT !.inputs = @ \o taken, !.outputs = @ \o asking])

\* The KV cache cannot shift: the inputs to keep are evaluated again, from the next
\* batch on.  Only a sequence whose one input left is a sampled token gets here.
Reprocess(r) ==
    /\ seq' = [seq EXCEPT ![r].inputs = Shifted(Cached(r), numKeep(r)) \o Inputs(r)]
    /\ slots' = [slots EXCEPT ![seq[r].cache].Inputs = <<>>]
    /\ Advance([fwd EXCEPT !.seqs[Cursor] = None])

AddInputs ==
    LET r == seqs[Cursor]
    IN  /\ r # None
        /\ ~PastLimit(r)
        /\ Len(fwd.inputs) < model.batchSize
        /\ \/ /\ Len(Cached(r)) < NumCtx
              /\ FillBatch(r, Cached(r))
              /\ UNCHANGED shared
           \/ /\ Len(Cached(r)) = NumCtx
              /\ r \in Shift
              /\ IF CanShift(shared, seq[r].cache, Cached(r), numKeep(r))
                 THEN /\ shared' = RemoveCells(shared, seq[r].cache, numKeep(r))
                      /\ FillBatch(r, Shifted(Cached(r), numKeep(r)))
                 ELSE /\ shared' = RemoveCells(shared, seq[r].cache, 0)
                      /\ Reprocess(r)

ForwardSlot ==
    /\ mu = Forward
    /\ fwd.left > 0
    /\ \/ SkipSlot /\ UNCHANGED <<seqs, permits, shared>>
       \/ EndAtLimit /\ UNCHANGED shared
       \/ AddInputs /\ UNCHANGED <<seqs, permits>>
    /\ UNCHANGED <<handler, waiters, text, clock, nextSeq, mu, prev, started, work,
                   panicked>>

\* The batch is handed to a computeBatch goroutine; an empty one is dropped, and the
\* batch after it has no predecessor to wait for.
ForwardEnd ==
    /\ mu = Forward
    /\ fwd.left = 0
    /\ nextSeq' = IF fwd.resumeSeq # -1 THEN fwd.resumeSeq ELSE fwd.seqIdx + 1
    /\ IF fwd.inputs = <<>>
       THEN /\ prev' = 0
            /\ UNCHANGED <<started, work>>
       ELSE LET new == [pc |-> "wait", seqs |-> fwd.seqs, batchInputs |-> fwd.inputs,
                        outputs |-> fwd.outputs, after |-> prev, tokens |-> <<>>,
                        next |-> [i \in Slot |-> None], iBatches |-> [i \in Slot |-> -1],
                        idx |-> 0]
                id  == Min((1 .. Cardinality(DOMAIN work) + 2) \ (DOMAIN work \cup {prev}))
            IN  /\ work' = [w \in DOMAIN work \cup {id} |->
                               IF w = id THEN new ELSE work[w]]
                /\ prev' = id
                /\ started' = FALSE
    /\ fwd' = None
    /\ mu' = None
    /\ UNCHANGED <<handler, waiters, permits, seqs, seq, text, cacheVars, panicked>>

(***************************************************************************)
(* computeBatch.                                                           *)
(***************************************************************************)
\* The outputs of the batch's predecessor are ready.
InputsReadyAtOnce(id) == TRUE
InputsReady(id) == work[id].after \notin DOMAIN work

\* The slots that still hold the sequence they held when the batch was built.
SameSequences(id) == {i \in Slot : seqs[i] # None /\ work[id].seqs[i] = seqs[i]}

\* When the predecessor's outputs are ready the batch reads its tokens, the inputs
\* it carries count as cached, and a sequence with none left gets a placeholder for
\* the token this batch will predict.  A sequence that has been replaced is skipped.
GatherInputs(id) ==
    LET w       == work[id]
        mine    == SameSequences(id)
        sampled == {i \in mine : seq[seqs[i]].inputs = <<>>}
        Is(S, r) == \E i \in S : seqs[i] = r
        after(r) == IF Is(sampled, r)
                    THEN [seq[r] EXCEPT !.pendingInputs = <<>>,
                                        !.numPredicted = @ + 1,
                                        !.inputs = <<<<r, Len(text[r]) + 1>>>>]
                    ELSE [seq[r] EXCEPT !.pendingInputs = <<>>]
        pending(s) == LET i == CHOOSE j \in mine : seq[seqs[j]].cache = s
                      IN  seq[seqs[i]].pendingInputs
    IN  /\ w.pc = "wait"
        /\ InputsReady(id)
        /\ mu = None
        /\ seq' = [r \in Req |-> IF Is(mine, r) THEN after(r) ELSE seq[r]]
        /\ text' = [r \in Req |-> IF Is(sampled, r) THEN Append(text[r], Placeholder)
                                  ELSE text[r]]
        /\ slots' = [s \in Slot |->
                        IF \E i \in mine : seq[seqs[i]].cache = s
                        THEN [slots[s] EXCEPT !.Inputs = @ \o pending(s)] ELSE slots[s]]
        /\ work' = [work EXCEPT
                    ![id].pc = "compute",
                    ![id].after = 0,
                    ![id].tokens = Tokens(w.batchInputs),
                    ![id].next = [i \in Slot |-> IF i \in sampled
                                     THEN <<seqs[i], Len(text[seqs[i]]) + 1>> ELSE None],
                    ![id].iBatches = [i \in Slot |-> IF i \in sampled
                                         THEN seq[seqs[i]].iBatch ELSE -1]]
        /\ panicked' = (~model.cacheEnabled /\ mine # sampled)
        /\ UNCHANGED <<handler, waiters, permits, seqs, shared, clock, runVars, mu>>

\* The callback of ComputeWithNotify, in a goroutine of its own, signals that the
\* computation of the latest batch has started.
NotifyStarted ==
    /\ prev # 0
    /\ ~started
    /\ prev \in DOMAIN work => work[prev].pc # "wait"
    /\ started' = TRUE
    /\ UNCHANGED <<handler, waiters, permits, seqs, seq, text, cacheVars, nextSeq, mu,
                   fwd, prev, work, panicked>>

\* The outputs have been computed: the lock is taken again to decode them.
DecodeBegin(id) ==
    /\ work[id].pc = "compute"
    /\ mu = None
    /\ mu' = id
    /\ work' = [work EXCEPT ![id].pc = "decode"]
    /\ UNCHANGED <<handler, waiters, permits, seqs, seq, text, cacheVars, runVars,
                   panicked>>

\* A stop sequence is found in the pending output of s: TruncateStop takes k pieces
\* off its end and may cut into the last one left.  The cache slot forgets what is not
\* returned; a negative length is a panic.
HitStop(i, s, k, tokenTruncated) ==
    LET held     == slots[s.cache].Inputs
        tokenLen == Len(held) + 1 - k - (IF tokenTruncated \/ k = 0 THEN 1 ELSE 0)
        kept     == SubSeq(s.pendingResponses, 1, Len(s.pendingResponses) - k)
    IN  /\ IF tokenTruncated THEN k < Len(s.pendingResponses) ELSE k > 0
        /\ panicked' = (tokenLen < 0)
        /\ removeSequence(i, [s EXCEPT !.pendingResponses = kept],
                          SubSeq(held, 1, tokenLen), "stop")

\* The sequence in slot i samples a token from the logits of its row.  The new piece
\* ends the sequence, is held back (it may begin a stop sequence or end in half a
\* character), or is sent with the pieces before it.
DecodeToken(id, i) ==
    LET w     == work[id]
        r     == seqs[i]
        ptr   == w.next[i]
        row   == w.outputs[w.iBatches[i] + 1]
        held  == slots[seq[r].cache].Inputs
        s     == [seq[r] EXCEPT !.pendingResponses = Append(@, <<row[1], row[2] + 1>>)]
        room  == Len(text[r]) < MaxText
    IN  \/ /\ text' = [text EXCEPT ![ptr[1]][ptr[2]] = Eos]
           /\ removeSequence(i, seq[r], held, "stop")
           /\ UNCHANGED panicked
        \/ /\ room
           /\ \E t \in Vocab : text' = [text EXCEPT ![ptr[1]][ptr[2]] = t]
           /\ \/ \E k \in 0 .. Len(s.pendingResponses), tokenTruncated \in BOOLEAN :
                    HitStop(i, s, k, tokenTruncated)
              \/ /\ seq' = [seq EXCEPT ![r] = s]
                 /\ UNCHANGED <<seqs, slots, permits, panicked>>
              \/ \E f \in flushPending(s) :
                    /\ IF f.ok THEN /\ seq' = [seq EXCEPT ![r] = f.seq]
                                    /\ UNCHANGED <<seqs, slots, permits>>
                       ELSE removeSequence(i, f.seq, held, "closed")
                    /\ UNCHANGED panicked

\* The outputs are handed out slot by slot, to whatever sequence the slot holds now.
DecodeSlot(id) ==
    LET w == work[id]
        i == w.idx
        r == seqs[i]
    IN  /\ w.pc = "decode"
        /\ i < Parallel
        /\ \/ /\ r = None \/ w.next[i] = None
              /\ UNCHANGED <<seqs, seq, slots, permits, text, panicked>>
           \/ /\ r # None /\ w.next[i] # None
              /\ IF r \in Embedding
                 THEN /\ removeSequence(i, [seq[r] EXCEPT !.embedding = TRUE],
                                        slots[seq[r].cache].Inputs, "stop")
                      /\ UNCHANGED <<text, panicked>>
                 ELSE DecodeToken(id, i)
        /\ work' = [work EXCEPT ![id].idx = i + 1]
        /\ UNCHANGED <<handler, waiters, shared, clock, runVars, mu>>

\* The lock is released and the next batch is told that its inputs are ready.
DecodeEnd(id) ==
    /\ work[id].pc = "decode"
    /\ work[id].idx = Parallel
    /\ mu' = None
    /\ work' = [b \in DOMAIN work \ {id} |-> work[b]]
    /\ UNCHANGED <<handler, waiters, permits, seqs, seq, text, cacheVars, runVars,
                   panicked>>

(***************************************************************************)
(* The specification.                                                      *)
(***************************************************************************)
Ended(r) == handler[r] \in {"done", "gone", "failed"}

\* Nothing is left to do, or the process is dead.
Finished ==
    /\ \/ panicked
       \/ /\ \A r \in Req : Ended(r)
          /\ Live = {}
          /\ fwd = None
          /\ DOMAIN work = {}
          /\ ComputeStarted
    /\ UNCHANGED vars

Handle(r) ==
    NewSequence(r) \/ Acquire(r) \/ Insert(r) \/ Receive(r) \/ ReceiveEmbedding(r)

ForwardBatch == ForwardBegin \/ ForwardSlot \/ ForwardEnd

ComputeBatch(id) ==
    GatherInputs(id) \/ DecodeBegin(id) \/ DecodeSlot(id) \/ DecodeEnd(id)

Running == ~panicked /\ UNCHANGED model

Next ==
    \/ /\ Running
       /\ \/ \E r \in Req : Handle(r) \/ Disconnect(r)
          \/ ForwardBatch
          \/ NotifyStarted
          \/ \E id \in DOMAIN work : ComputeBatch(id)
    \/ Finished

Spec == Init /\ [][Next]_vars

\* Goroutines are scheduled fairly and a mutex is handed on to whoever waits for
\* longest; a handler is served by net/http for as long as its client stays.
FairSpec ==
    /\ Spec
    /\ \A r \in Req : WF_vars(Running /\ Handle(r)) /\ SF_vars(Running /\ Insert(r))
    /\ SF_vars(Running /\ ForwardBatch)
    /\ WF_vars(Running /\ NotifyStarted)
    /\ SF_vars(Running /\ \E id \in DOMAIN work : ComputeBatch(id))

(***************************************************************************)
(* Properties.                                                             *)
(***************************************************************************)
InputPtr == Req \X (1 .. MaxText + 1)

SequenceType ==
    [inputs : Seq(InputPtr), pendingInputs : Seq(InputPtr),
     pendingResponses : Seq(InputPtr), cache : Slot, responses : Seq(Seq(InputPtr)),
     closed : BOOLEAN, quit : BOOLEAN, embedding : BOOLEAN, numPredicted : Nat,
     iBatch : Nat, numPromptInputs : Nat,
     doneReason : {"none", "stop", "length", "closed"}, delivered : Seq(InputPtr)]

BatchType ==
    [pc : {"wait", "compute", "decode"}, seqs : [Slot -> Req \cup {None}],
     batchInputs : Seq(InputPtr), outputs : Seq(InputPtr), after : Nat,
     tokens : Seq(Int), next : [Slot -> InputPtr \cup {None}],
     iBatches : [Slot -> Int], idx : 0 .. Parallel]

\* Every variable keeps its type; in particular no token list outgrows the sampler's
\* bound and a batch's row numbers stay numbers.
TypeOK ==
    /\ handler \in [Req -> {"new", "acquire", "insert", "stream", "done", "gone",
                            "failed"}]
    /\ waiters \in Seq(Req)
    /\ permits \in 0 .. Parallel
    /\ seqs \in [Slot -> Req \cup {None}]
    /\ seq \in [Req -> SequenceType]
    /\ text \in [Req -> Seq(Int)]
    /\ slots \in [Slot -> [Inputs : Seq(InputPtr), InUse : BOOLEAN, lastUsed : Nat]]
    /\ shared \in [Slot -> [Slot -> 0 .. NumCtx]]
    /\ clock \in Nat
    /\ nextSeq \in 0 .. Parallel
    /\ fwd # None => /\ fwd.seqs \in [Slot -> Req \cup {None}]
                     /\ fwd.inputs \in Seq(InputPtr)
                     /\ fwd.resumeSeq \in Slot \cup {-1}
                     /\ fwd.left \in 0 .. Parallel
    /\ mu \in DOMAIN work \cup {None, Forward}
    /\ prev \in Nat
    /\ started \in BOOLEAN
    /\ \A id \in DOMAIN work : work[id] \in BatchType
    /\ panicked \in BOOLEAN
    /\ model \in Models

\* A permit of seqsSem is a place in seqs and a cache slot: a handler that has one
\* always finds both ("could not find an available sequence" and "no available cache
\* slots" never happen), and two sequences never share a cache slot, however inserts
\* interleave with removals by forwardBatch and computeBatch.
SlotPerPermit ==
    /\ permits + Cardinality(Live) + Cardinality({r \in Req : handler[r] = "insert"})
           = Parallel
    /\ \A r, q \in Live : seq[r].cache = seq[q].cache => r = q
    /\ \A i, j \in Slot : seqs[i] # None /\ seqs[i] = seqs[j] => i = j
    /\ \A s \in Slot : slots[s].InUse <=> \E r \in Live : seq[r].cache = s

\* The pieces a client has received or will receive, in order.
Output(r) == seq[r].delivered \o FlattenSeq(seq[r].responses) \o seq[r].pendingResponses

\* A client is sent the tokens predicted for its own sequence, each once, in order and
\* without a gap, though batches are decoded while their successors are already built
\* and slots change hands.
OwnAnswer ==
    \A r \in Req :
        Output(r) = [k \in 1 .. Len(Output(r)) |-> <<r, seq[r].numPromptInputs + k>>]

\* What the KV cache holds of a sequence, what is on its way there and what is left to
\* evaluate are together its history: the inputs to keep, then all but the oldest of
\* the others.  No input is evaluated twice or skipped, through cached prefixes,
\* batches, context shifts and reprocessing.
ContextIsHistory ==
    \A r \in Live :
        LET context == slots[seq[r].cache].Inputs \o seq[r].pendingInputs \o seq[r].inputs
            n == Len(text[r])
            keep == Lesser(numKeep(r), n)
        IN  /\ Len(context) >= keep
            /\ context = [k \in 1 .. Len(context) |->
                             <<r, IF k <= keep THEN k ELSE n - Len(context) + k>>]
            /\ Len(slots[seq[r].cache].Inputs) + Len(seq[r].pendingInputs) <= NumCtx
            /\ Len(context) <= NumCtx \/ Len(seq[r].pendingInputs \o seq[r].inputs) = 1

\* Inputs are pending only while one batch, not yet reading its tokens, carries them, and
\* that is the latest batch: forwardBatch never finds a sequence half way into a batch.
PendingInOneBatch ==
    \A r \in Live : seq[r].pendingInputs # <<>> =>
        \/ fwd # None /\ ToSet(seq[r].pendingInputs) \subseteq ToSet(fwd.inputs)
        \/ /\ prev \in DOMAIN work
           /\ work[prev].pc = "wait"
           /\ ToSet(seq[r].pendingInputs) \subseteq ToSet(work[prev].batchInputs)

\* A batch is computed on sampled tokens, never on the placeholder that stands for one,
\* and no placeholder is left in the cached inputs later prompts are compared with.
TokensResolved ==
    /\ \A id \in DOMAIN work : Placeholder \notin ToSet(work[id].tokens)
    /\ \A s \in Slot : Placeholder \notin ToSet(Tokens(slots[s].Inputs))

\* Batches are computed one at a time, in the order they were built: of those in flight
\* one at most is past reading its tokens, and only the latest has not read them.
BatchesInOrder ==
    \A v, w \in DOMAIN work :
        /\ work[v].pc = "wait" => v = prev
        /\ work[v].pc # "wait" /\ work[w].pc # "wait" => v = w

\* The process never panics on an input that does not fit, nor on a slice bound: when a
\* stop string is found, the slot's inputs are cut to their length plus one, for the token
\* that was not submitted yet, less the pieces stripped, which takes the slot to hold the
\* rest of the text.
NoPanic == ~panicked

\* Every request ends: with its answer, or because its client went away.
EveryRequestEnds == \A r \in Req : <>Ended(r)

\* A client that goes away frees its place: its sequence does not stay in seqs.
GoneIsRemoved == \A r \in Req : handler[r] = "gone" ~> r \notin Live
=============================================================================
