# A verification project for ollama

Ollama serves language models over HTTP.  A server process (`ollama serve`)
stores models, pulls and pushes them, and answers generation requests by handing
them to *runners*: subprocesses with one model loaded each.  This directory holds
TLA+ models of the parts of that server whose correctness depends on order,
concurrency and failure, TLC configurations that check them on small instances,
and theorems that TLAPS proves for instances of any size.

## The system

| component | code | state | operations | what is hard |
|---|---|---|---|---|
| model scheduler | `server/sched.go` | `loaded`, `activeLoading`, four channels, the `runnerRef`s with their counts and timers | `GetRunner`, `processPending`, `processCompleted`, `load`, `expireRunner`, `unloadAllRunners` | two loops, handlers, timers and signals share it; events arrive late, twice or after the runner is gone |
| request routing | `server/routes.go` | one goroutine per request | `scheduleRunner`, the handlers, the signal handler of `Serve` | clients that go away, shutdown |
| runner process client | `llm/server.go` | the process, its status, the channel `done` | `Load`, `WaitUntilRunning`, `Ping`, `Completion`, `Close` | a process that dies, stalls or answers late |
| runner server | `runner/ollamarunner/runner.go` | `seqs`, `seqsSem`, the batch in flight | `completion`, `forwardBatch`, `computeBatch`, `removeSequence` | a batch is computed while the next is prepared and sequences come and go |
| input cache | `runner/ollamarunner/cache.go` | the slots | `LoadCacheSlot`, `findLongest/BestCacheSlot`, `ShiftCacheSlot` | sharing of prefixes, slots in use |
| llama.cpp runner | `runner/llamarunner/` | `seqs`, the slots | `completion`, `processBatch`, `LoadCacheSlot`, `ShiftCacheSlot` | its list of what the cache holds must stay true over stops, forks, shifts and failures |
| llama.cpp KV cache | `llama/llama.cpp/src/llama-kv-cache.cpp` | cells, streams, K and V data | `prepare`, `find_slot`, `apply_ubatch`, `seq_rm`, `seq_cp`, `seq_add`, `update` | copies and shifts are put off, cells reused in between |
| CPU thread pool | `ml/backend/ggml/ggml/src/ggml-cpu/ggml-cpu.c` | atomics, one mutex, one condition variable | `ggml_graph_compute`, pause, free | lost wakeups, barriers reused at once, late workers |
| graph allocator | `ml/backend/ggml/ggml/src/ggml-alloc.c` | free blocks, plan, buffers | `ggml_gallocr_alloc_graph`, `_reserve` | memory given away before its last reader, a plan made for another graph |
| causal cache | `kvcache/causal.go` | cells, ranges per sequence | `StartForward`, `CopyPrefix`, `Remove` | sliding windows, shared cells, a full cache |
| stop sequences | `runner/common/stop.go` | pending pieces of text | `FindStop`, `ContainsStopSuffix`, `TruncateStop` | a stop string split over pieces |
| blob download | `server/download.go` | parts on disk, references, progress | `Prepare`, `run`, `downloadChunk`, `acquire`, `release` | stalls, retries, crash and resume, shared downloads |
| blob upload, registry client, blob cache | `server/upload.go`, `server/internal/` | parts, chunks | push and pull | as above |
| manifests and layers | `server/images.go`, `server/layer.go`, `server/manifest.go` | files shared by models | create, copy, delete, prune | deletion of what another model uses |
| streaming parsers | `thinking/`, `harmony/`, `tools/` | parser state and buffered text | `AddContent` | tags split over pieces |
| desktop app | `app/` | settings, the server process, a staged update | supervise, update | restarts |

The rest (GPU discovery, tensors and model graphs, conversion, templates, the
command line, the user interface, the numeric parts of llama.cpp and ggml) is
listed in `PROJECT.json` with the reason it is left out.

How they interact: a handler calls `GetRunner` and waits on the two channels of
its request.  The scheduler starts and stops runner processes through the client
in `llm/server.go` and hands the handler a reference; the handler streams a
completion from the process and, when its context ends, a goroutine reports the
request finished.  Inside the process the runner server schedules sequences over
the input cache, which keeps the causal cache's sequences in step; the older runner
does the same over llama.cpp's cache, across a C interface that reports little.
Both compute their batches as graphs: the allocator gives the tensors of a graph
their memory, the thread pool computes the nodes.  Pulls and pushes share only the
blob directory and the manifests with the rest.

| module | models | instances |
|---|---|---|
| `Scheduler` | model scheduler, with the routes' side of a request | `MCScheduler`, runs `serve`, `fair`, `inuse` |
| `InputCache` | the slot searches and shifts of both runners | through the two runners |
| `Runner` (extends `InputCache`) | runner server | `MCRunner`, runs `stream`, `stream_fair`, `foreign`, `stop_shift` |
| `LlamaKVCache` | llama.cpp's KV cache | through `LlamaRunner` |
| `LlamaRunner` (extends `InputCache`, `LlamaKVCache`) | llama.cpp runner on its cache | `MCLlamaRunner`, runs `kv`, `kv_fork` |
| `GraphExec` | what computing a graph promises (abstract) | refined by `Threadpool` |
| `Threadpool` | CPU thread pool | `MCThreadpool`, run `threadpool` |
| `GgmlAlloc` | graph allocator | `MCGgmlAlloc`, run `alloc` |
| `Download` | blob download, and what a pull and a restart do with the blob | `MCDownload`, run `download` |
| `SchedulerProofs`, `SchedulerUseProofs` | theorems about `Scheduler` | |
| `RunnerProofs`, `RunnerAnswerProofs` | theorems about `Runner` | |
| `LlamaRunnerProofs` | theorems about `LlamaRunner` and `LlamaKVCache` | |
| `ThreadpoolProofs` | theorems about `Threadpool` | |
| `GgmlAllocProofs` | theorems about `GgmlAlloc` | |
| `DownloadProofs` | theorems about `Download` | |

Operators whose name is that of an operation with a suffix (`MergeNot`,
`updateNoShift`, `releaseDeletes`) are the operation with a mistake in it.  Nothing
uses them; `PROJECT.json` pairs each with the property that notices the mistake.

## The model scheduler (`Scheduler.tla`)

| in the model | in `server/sched.go` |
|---|---|
| `pendingReqCh`, `finishedReqCh`, `expiredCh`, `unloadedCh` | the four channels, of capacity `OLLAMA_MAX_QUEUE` (`MaxQueue`) |
| `loaded`, `activeLoading` | the same |
| `runner[r]` | the `runnerRef` and the server process created for request `r`; `refMu` names who holds the mutex across a blocking operation |
| `req[q]` | the `LlmRequest` of `q`, its context, its answer and its finished event |
| `p`, `c` | program counter and locals of `processPending` and `processCompleted` |
| `stop[s]` | one call of `expireRunner` |
| `phase` | running, context cancelled, `unloadAllRunners` done |

Steps.  Code under `loadedMu`, or under one `refMu` without blocking, is one step.
Where the code gives up a lock between two sections there are two steps: `Lookup`,
`NeedsReload` and `Use` are `GetRunner`'s three sections, and what happens between
them is where the findings below come from.  A mutex kept across a blocking
operation stays held in the model: during a load until the process is up
(`"load"`), during the wait for VRAM (`"vram"`), and during a send on `expiredCh`.

Choices left open.  Whether a model fits, whether a load succeeds, whether a ping
times out, whether the process comes up, when a timer fires and when a client goes
away.  Memory sizes, names and payloads are not represented; a model path is a
number because the eviction order compares paths.

History.  `stale` records that some request was given a runner that was no longer
in `loaded` (the finding of run `inuse`).  Once that has happened the counts are off
for good, so the invariants about counts, and the liveness properties, carry the
proviso `~stale`: they show that the code has no *other* way to lose a reference.

### Runs

Three requests, two models and one or two runners are enough for a request to find
its runner, to share it, to wait for another's eviction, to be queued behind a third, and to
arrive in any gap of the other two; a queue of one fills up.  Requests are not
symmetric: their names are runner names and carry models and keep_alive.  Their options
are equal: `needsReload` may say yes of any runner, since a ping may time out, so that
different options would only take behaviours away.

| run | shows |
|---|---|
| `serve` | nine safety invariants: room for two runners, three requests for two models, a queue of one, so that requests are turned away, and a signal at any moment.  Two requests share a runner; a fired timer crosses the request that takes it; an expired event of a runner in use comes back; a load that does not fit evicts the other model and goes on with the server it kept, or does not; a request revokes the mark of a runner that was to go.  Once the loops have ended goroutines may stay blocked on a full channel for good, so deadlock is not checked |
| `fair` | every request is answered, every idle runner unloaded, with room for one runner and two models that evict each other, and `ollama stop`; an idle runner always has a timer or an event on its way, also when a stop, an eviction and the timer cross; there are never two runners |
| `inuse` | finding: a request is given a runner that was shut down after `needsReload` |

In no run does the scan for a runner to unload choose between two, which takes three
models: that is left to the theorems, and so are limits above two.  In `fair` no two requests
share a runner, and the queue is never full.

More things the model does that the code probably should not, each of which TLC shows
within seconds when the instance is changed, or the property stated, as said:

* `processCompleted` is the only reader of `expiredCh` and sends on it (`sched.go:288`): with
  the requests `q1` and `q2`, which have one model, without `ollama stop`, and with
  `MaxQueue = 1` in `fair`, it blocks for ever and `IdleRunnerUnloaded` fails.  With a queue
  of two, three requests are enough.
* when an attempt to load needed an eviction and `llm.LoadModel` fails on the retry
  (`sched.go:200`), `activeLoading` keeps the server of the first attempt, and the next
  request for another model reaches the panic "attempting to load different model after
  eviction" (`sched.go:434`): the step `PanicOtherModel`, which `serve` takes.
* a request with a negative keep_alive (`Forever`) for a runner that is marked to go
  revokes the eviction for good, because `useLoadedRunner` overwrites the duration that
  `processPending` had set to zero (`sched.go:380`): with that keep_alive for `q1`
  or `q2` in `serve`, `IdleMakesRoom` fails.  The theorem
  `RoomIsMade` therefore assumes that no request asks for it.
* `unloadAllRunners` clears `activeLoading` under a load, which then dereferences nil:
  the step `PanicNilActive`, which `serve` takes.
* the signal handler does not wait for `processPending`: a load that is being prepared
  starts its process after `unloadAllRunners` returned.  The process is in
  `activeLoading` or `loaded` (`NoLeakedProcess`), but nobody shuts it down.  A process
  that `unloadAllRunners` closes between the return of `Load` and the end of `load` is put
  into `loaded` all the same (`LoadSucceeds` asks nothing of the process).

Fairness (`FairSpec`).  Each goroutine keeps running, and strongly so: Go's mutexes
hand themselves to the longest waiter, blocked senders on a channel are served in
order, and `select` chooses at random among ready cases, so what becomes possible
again and again is done.  `CRecvFinished` has its own conjunct because `select`
does not neglect one channel for ever.  A client is never obliged to go away, and
the calls of `expireRunner` are never obliged to happen.

## The runner server (`Runner.tla`, `InputCache.tla`)

| in the model | in `runner/ollamarunner` |
|---|---|
| `handler[r]`, `waiters`, `permits` | the HTTP handler of request `r`; `seqsSem` with its first-in-first-out queue |
| `seqs`, `seq[r]` | the slots and the `Sequence` of `r`: inputs left, pending inputs and output, its channels |
| `text[r]` | the tokens of the inputs made for `r`; 0 is a placeholder not yet sampled |
| `slots`, `shared` | the cache slots; how many leading KV cells two of them have in common |
| `mu` | `s.mu`: free, held by `forwardBatch`, or by the batch being decoded |
| `fwd` | the locals of `forwardBatch` while it walks over the slots |
| `prev`, `started` | `previousBatch` and its `computeStartedCh` |
| `work[id]` | one `computeBatch` goroutine: waiting for its inputs, computing, decoding; `after` is the batch whose `outputsReadyCh` it waits on |

An input is a pointer whose token may be filled in later, so it is a pair
`<<r, k>>`, the k-th input of `r`, and a piece of output is named after the place
its logits predict.  With these names "the right token reached the right client" is
a statement about the state: `OwnAnswer`.

Steps.  `computeBatch` holds the lock twice and computes in between
(`GatherInputs`, then `DecodeBegin` to `DecodeEnd`); `forwardBatch` waits only for
the start of the computation (`NotifyStarted`), so batches overlap.  The two loops
that may block on a response channel with the lock held take one step per slot.

Choices left open: the sampled token, whether a piece is held back, completes a stop
sequence (and how many pieces that removes) or is sent, whether a sliding window lets
a prefix be resumed, and when a client leaves.  Left out: images, log probabilities,
cutting invalid UTF-8 off the output, loading.  `Remove` in the middle of a sequence
fails exactly when the cells to move are shared, as in `kvcache/causal.go`; that a model
has no shift function, or that the shift itself fails, is left out.

| run | shows |
|---|---|
| `stream` | seven invariants, for two completions with a common prefix that end by themselves (an end token, a stop sequence, a client that left) and whose contexts are shifted; a third prompt is too long and is refused |
| `stream_fair` | two completions for one slot that end at `num_predict` or at the end of the context |
| `foreign` | finding: the last token of a sequence that `forwardBatch` ended reaches the next one in its slot |
| `stop_shift` | finding: a context of four is shifted to two inputs while its last token is computed; the token completes a stop sequence of four pieces, the length left is 2 + 1 - 4, and the slice panics (`runner.go:824`) |

What holds in every instance: a permit is always a place and a cache slot nobody else has
(`SlotPerPermit`); the cached, pending and remaining inputs of a sequence are its
history without gap or repetition through prefixes, shifts and reprocessing, if the
model has a KV cache (`ContextIsHistory`); a sequence is never half way into two batches
(`PendingInOneBatch`); every request ends and a client that left frees its place
(`EveryRequestEnds`, `GoneIsRemoved`).  What holds as long as `forwardBatch` drops no
empty batch: batches are computed in order on known tokens (`BatchesInOrder`,
`TokensResolved`).  What holds as long as it ends no sequence either: every client gets its
own tokens in order (`OwnAnswer`).  An empty batch needs a sequence that was ended, or a
full context that cannot be shifted because another slot shares its cells; where nothing
is shared (one slot, or `OLLAMA_MULTIUSER_CACHE` off, which is the default) and requests
have no limit and may be shifted, all three hold in every instance.  Neither condition can be
dropped: `foreign` breaks `OwnAnswer`, and where slots share cells that must move
`TokensResolved` fails (next paragraph).

Beyond that the finding has company.  When a context cannot be shifted and is to be
reprocessed, the sequence sits the batch out; if that leaves the batch empty, the next
one is built as if nothing were pending and evaluated on a placeholder, although "the
inputs will be ready in the seqs immediately" (`runner.go:480`): `TokensResolved` fails
in `stream` when the prompts are three tokens that part at the last one, so that the second
slot shares all the cells it keeps with the first (`<<1, 1, 1>>`, `<<1, 1, 2>>`, nothing to keep).
When `forwardBatch` ends a sequence at
`num_predict`, the token being computed was already counted, so `eval_count` is one
more than what was delivered, though `docs/api.md` calls it the "number of tokens in
the response".  `stop_shift` needs no more than one request in one slot: whatever
shortens a slot while a batch is computed, a shift or the reprocessing of a context,
may leave less than a stop sequence of several pieces takes back.  `stream` cannot show
this: a text of at most five ends before its output outgrows a slot, and `NoPanic` is
therefore not among its invariants.

Bounds: one slot and two requests, or two slots with a client that leaves, make a slot
change hands while a batch of its old owner is in flight; a context of three with texts of five is shifted more than
once; a batch of two holds inputs of two sequences or a part of a prompt; a
response channel of one place fills.  `MaxText` is where the sampler gives up; it
ends every text and nothing else.  `stop_shift` has a context of four and texts of up to
eight, the least that lets a stop sequence outgrow what a shift leaves.

Fairness (`FairSpec`): goroutines that can run do (weak); a lock is handed on to whom
it was kept from for long, as Go's mutex does (strong, for the handlers' insert, for
`forwardBatch` and for `computeBatch`); nothing is assumed of clients except that
one that stays reads.  The liveness runs do not check for deadlock: an idle server
takes no step, and a server stuck with a request violates `EveryRequestEnds`.

## The llama.cpp runner and its cache (`LlamaRunner.tla`, `LlamaKVCache.tla`)

| in the model | in the code |
|---|---|
| `seqs`, `seq`, `slots` | the places, sequences and `InputCacheSlot`s of `runner/llamarunner` |
| `kv[c].cells[s]` | `llama_kv_cells` of stream `s`: `pos`, `shift`, and `head` |
| `kv[c].copies` | `sc_info`: copies between streams put off until `update` |
| `kv[c].data[s]` | what the K tensor holds: the token whose key was written and the position it is rotated for |
| `misread` | the tokens of the last batch whose attention mask and data were not their text |
| `died` | the assertion or error that ends the process |

`s.mu` is held from the beginning to the end of every operation, so a step is a prompt
that gets a slot or a whole batch: build, `prepare`, `update`, one `apply_ubatch` per
ubatch, then the outcome of each sequence.  What makes this hard is not interleaving
but that two parties keep the books: the runner's list `Inputs` and the cells, with the
data lagging behind both.  `KvHoldsInputs` relates the three, `AttendsToText` says that
each evaluated token saw its text and nothing else, `NeverRefused` that llama.cpp never
turns a batch down.

Run `kv`: two sequences of four cells, four requests with prompts that part at
different places, one of them an embedding, ubatches of two, contexts that are
shifted once and more, and stop sequences that take an input back.
Run `kv_fork` is a finding: with `OLLAMA_MULTIUSER_CACHE` a prompt forks a slot in use
by copying a prefix, but each sequence has a stream of its own and `seq_cp` between
streams asserts that the whole is copied.  In `kv` the context is so small that every
prefix copied counts as whole (`p1 + 1 < size` does not hold), so that copies do happen.

Seen on the way.  With a sliding window (`NSwa = 2`, no multi-user cache) `AttendsToText`
fails after a shift: the cells outside the window were purged, `seq_add` moves what is
left, and a later prompt resumes a prefix of which the window cache holds only a part.
`llamarunner/runner.go:785` computes the length left behind a stop sequence as
`ollamarunner` does; there a shift cannot come in between, but a shift followed by a long
stop sequence has the same effect, and panics.  `SlotAfter` leaves an empty slot, and
`MaxCut` keeps stop sequences shorter than that.  `seq_add` asserts that a position is one
number (`llama-kv-cache.cpp:398`), so a model with M-RoPE aborts at its first shift; the
model leaves such models out.
`prepare` does not restore cells that its trial `apply_ubatch` purged, and indexes the
saved heads by place in the batch, not by stream; with the runner's batches neither shows.

## The thread pool (`Threadpool.tla`, `GraphExec.tla`)

Every access to an atomic is a step, every section under the mutex is one.
`ggml_barrier` is expanded: enter, read `n_barrier_passed`, add, reset, open, spin.
Relaxed loads are read in the one order of the sequentially consistent operations
next to them: the barrier's counters are `seq_cst`, `n_graph` is written after the
parameters and read before them across a fence, and `current_chunk` is reset before a
barrier.  The pool is paused only by the thread that computes (`ggml-cpu.cpp:262`),
between graphs.  A disposable pool is a persistent one with one graph.

`GraphExec` says what a caller may rely on: nodes one after the other, each piece of
each node once, an abort only between nodes.  `ComputesInOrder` is that specification
with `done`, `cgraph` and the status of the call as the refinement mapping.
`ResetIsPrivate` is the comment "No worker threads should be accessing the parameters
below at this stage" (`ggml-cpu.c:3207`), made precise: a worker may still be about to
leave the last barrier.  `CallsReturn` is liveness: every thread that can run does
(weak fairness for each thread, which the operating system provides; the mutex is free
after each section), and nothing is asked of the program, which need not compute again.

The instance: three threads, graphs asked to use 4, 1, 2 and 3 of them, so that workers
sit graphs out and come back; two matrix products in a row, which share
`current_chunk`; aborts, pauses and spurious wakeups.  The graph counter wraps at 8
instead of 2^16; a worker that missed exactly that many graphs would take an old
number for new, which takes a worker that is not scheduled for 2^16 graphs.

Simplified: a worker polls `stop` and `pause` in one step (they are written under the
mutex it takes next), and the branches of `GGML_USE_LLAMAFILE`, which give a product to
`llamafile_sgemm`, are not taken; those share work with the same counter, between the same
barriers (`sgemm.cpp:442-477`).

## The graph allocator (`GgmlAlloc.tla`)

`ggml_gallocr_alloc_graph` decides whether the plan it has still fits the graph, else
`ggml_gallocr_reserve` walks the graph (`AllocNode`) with the reference counts of
`CountUses` and makes a plan; `Exec` then computes node by node, and the history
variable `intact` follows whose memory still holds whose value.  That gives the
allocator's promise directly: `ReadsItsSources`.  `FreeBlocksSound` is the invariant of
the free lists, `FitsBuffer` that a plan made for another batch is not used beyond the
buffer.

A graph is what `IsGraph` says, which is what `ggml_visit_parents` builds: a node is there
once and behind its sources, leafs have no operation, and inputs are leafs (the runners
make them with `ggml_new_tensor`).  No tensor is empty, a view is of a tensor that is none
(`ggml_new_tensor_impl` goes on to the source of a view) and is a node, and what works in
place needs no more scratch memory than what it replaces, which `free_extra_space` asserts.  Beyond that the last chunk
of the virtual buffer must have room for any tensor (`GraphAssumption`; its size is half
of `SIZE_MAX`).

Run `alloc` takes *all* graphs of four nodes of a family: views, operations in place
with one or two sources, operations with and without scratch memory, an early output;
two batch sizes, chunks of eight units of which there are two, two rounds.  Planning is
sequential, so smallness is the only bound: five nodes would add longer chains of views.

Seen on the way.  An output that is itself a view and has a reader is freed with its
source and overwritten, contrary to "output tensors are never freed and never
overwritten" (`ggml-alloc.h`): the flag is asked of the tensor whose memory it is, not of
its views.  With the view of an instance's graphs among the outputs TLC finds
`ReadsItsSources` violated; the outputs in the instance of `alloc` are no views.  A graph with the
same number of nodes and leafs, sources that fit, and other lifetimes is not noticed by
`ggml_gallocr_needs_realloc`, although `ggml-alloc.h` promises reallocation "if the
topology changes": the graphs of one instance keep their topology, as a loaded model's
do.  The branch of `ggml_gallocr_allocate_node` that reuses a view's memory cannot be taken, because
views are never marked allocated.

Simplified: the assertion that a chunk has fewer than `MAX_FREE_BLOCKS` (256) free blocks
(`ggml-alloc.c:139`) is left out, and with it the abort of a graph that needs more; so are
nodes without an operation that only carry a dependency (`ggml-alloc.c:743-750`), which
`IsGraph` does not admit.  `needs_realloc` compares every tensor of the plan, where the
code compares nodes with their sources and counts leafs; in graphs in which every leaf is
read that is the same.  Numbers of nodes and leafs do not change in an instance.

## Downloads (`Download.tla`)

| in the model | in `server/download.go` |
|---|---|
| `manager` | `blobDownloadManager`, for one digest |
| `dl[d]` | the `blobDownload` made by pull `d`: where its `run` is, references, `CancelFunc`, its parts |
| `pc[p]`, `joined[p]` | where pull `p` is in `downloadBlob` and `PullModel`, and whose download it waits for; `"blocked"`: in the send of a progress report that nobody will ever receive |
| `partFile`, `partial`, `blob`, `manifest` | the files: `-partial-N`, `-partial`, the blob, a manifest that names it |
| `misled` | history: wrong bytes were accepted, a length was missing, or part files of an interrupted `Prepare` or removal were taken for the whole |

Every file operation and every access to the manager or the reference count is a step;
an attempt at a part is two, the bytes and the record.  `Crash` may come between any
two steps and leaves a part file that is being written empty.  `Restart` prunes, or
does not (`OLLAMA_NOPRUNE`, or a corrupt manifest); a prune that is cut short or cannot
remove a file leaves some of the part files, after the partial file itself is gone
(`PruneLayers`).  It is the death of the process: what a power failure does to unsynced
files is not modelled.

`Wait` selects between the end of the download, the end of the client's context and a
ticker.  At a tick it reports to the handler through a channel without a buffer.  A report
that is received takes it back to the `select` and is no step of the model; the handler stops
reading when its client has gone or cannot be written to (`streamResponse`), and then nobody
ever receives and the pull never gets to its other two cases (`Unreceived`).

Run `download`: two pulls, three bytes in parts of two and one, two attempts per part,
any number of broken transfers, and one of: a stall, a wrong body, a failed write, a
crash.  Two pulls join, leave, and follow each other; a blob of two parts can have an
incomplete set of part files; a part of two bytes can be resumed in its middle.
`SingleWriter`, `ResumeSound` and `StoreSound` are the safety side, `PreparedEnds` the other.

Fairness: every goroutine that can go on does (weak, for each pull and each run).  `Wait` is
such a step because `select` chooses at random among the cases that are ready, and so notices
in the end a download that is done, however often the ticker fires and is received.  The code
does not guarantee that it is received: `Unreceived` may come at any tick, and `PreparedEnds`
exempts a pull that is `"blocked"`, but not the others, whose download it still holds a
reference of.  The registry answers in the end.  Clients are never obliged to leave, nor the
server to come back.  Deadlock is not checked, since the pulls of an instance come to an end.

What the model does that the code probably should not:

* `release` calls `CancelFunc`, which is nil until `run` has begun.  A client that joins
  while another's `Prepare` asks for the length, and leaves, makes the count fall to
  zero: a nil call in a goroutine of its own, and the server dies (`Die` in `release`).
* a pull whose handler returned while it was reporting is blocked for good
  (`download.go:445`, `routes.go:875`).  Its reference stays, so that a download all of whose
  clients have left is not cancelled but runs to its end, and the goroutine is lost.
* who joins a download whose `Prepare` fails waits until its client gives up: `done` is
  never closed.  `PreparedEnds` therefore speaks of prepared downloads.
* who joins a download that was cancelled but has not ended is told "context canceled",
  although `docs/api.md:1554` says that "multiple calls will share the same download
  progress".
* an error in the middle of `Prepare`'s `newPart` calls, or (without pruning) a crash
  there, leaves fewer part files than parts; the next pull takes them for the blob and
  publishes a truncated one.  `verifyBlob` catches it for the pulls that waited, but a
  pull that finds the file meanwhile skips verification and writes its manifest.
* the part files are removed by index: a crash between two removals, without pruning,
  leaves a set that no later download can finish.
* the prune at start removes `NAME-partial` before `NAME-partial-N`: a crash in between,
  followed by a start that does not prune, leaves records of bytes that are gone, and the next
  pull goes on from them (`misled`); `verifyBlob` finds the result wrong.
* (not modelled) a pull that replaces a manifest removes the layers only the old one used
  (`images.go:681`), whoever else is downloading or has just found them.
* a part file left empty by a failed write makes every pull of the blob fail until a
  restart prunes it.
* two pulls that find a mismatch both remove the file by name; the second may remove a
  good blob that a third pull has put there.

## Proofs

Each theorem holds for every value of the constants that satisfies the named
assumption of its module, which TLC evaluates in the runs.  Each inductive invariant
was an invariant of TLC runs before it was proved.

### Scheduler (`SchedulerProofs`, `SchedulerUseProofs`)

For every set of requests, any options, limits and queue length (the assumptions
are `ReqAssumption` and `EnvAssumption`):

* `TypeCorrect`: `TypeOK` is not inductive.  `Typed` adds to each record what its
  program point needs: a request about to check or use a runner has one, the
  pending loop has a request whenever it is not idle, a runner being loaded knows
  whose request it is for.  The modulus keeps counts in range.
* `ProcessesAreOwned` (`NoLeakedProcess`) and `OneRunnerPerModel`
  (`NeverStillLoaded`) rest on `LoadInv`: while `processPending` is between its look
  at `loaded` and the end of `load`, its model is not loaded, because only
  `processPending` ever adds to the map; and a process that is up while it loads is
  the one `activeLoading` names.  Shutdown is part of the specification.
* `LimitKept` (`LoadedWithinLimit`) rests on `LimitInv`: from the comparison to the
  load the count only falls, so the stale count errs on the safe side; before a limit
  is chosen nothing is loaded.

* `OneAnswer` (`AnsweredOnce`) and `NoRequestLost` (`NoLostRequest`) rest on `Inv`, three
  invariants that need each other.  `AnswerInv`: a request has at most one party that owes it the answer (the queue, the pending loop,
  the load in progress or its own `GetRunner`) and none once it is answered, so a
  second answer is impossible and a waiting request always has somebody.
  `KnownInv`: whoever refers to a runner refers to one that has been loaded.
  `MutexInv`: a loop at a program point that releases a `refMu` holds it, so that no
  release lets two loops act on one request.

* `CountsAreExact` (`RefCountExact`), `UsedRunnersStay` (`InUseStaysLoaded`),
  `IdleRunnersLeave` (`IdleRunnerExpires`) and `RoomIsMade` (`IdleMakesRoom`), in the
  second module, rest on `UseInv`, which adds to `Inv`:
  `SameModel` (whoever has a runner in hand has one of its own model, so that the path
  under which `processCompleted` looks a runner up finds the one that was used),
  `UpWhileLoaded` and `LoadingUp` (until the server stops what is loaded, or being loaded, is
  up), `Finishing` (a finished event is sent once, and is counted against
  the runner that was used), `Counted`, `IdleLeaves` (an idle runner has a timer, or an
  event in the channel or in somebody's hands) and `Room` (what `processPending` means
  to expire is still loaded, or it will hear of an unload).  The counts are those of
  a set of requests: each take adds one user, each finished event removes one, and
  the unsigned count never wraps because `RefMod` exceeds the number of requests.  `RoomIsMade`
  assumes `NoForever`, without which it is false (see above).

### Runner server (`RunnerProofs`, `RunnerAnswerProofs`)

For any requests and prompts, any number of slots, any context length and batch size
(`CacheAssumption`, `RunnerAssumption`, `NoneAssumption`), and for every model a runner
may have loaded:

* `RunnerSlotPerPermit` (`SlotPerPermit`) is not inductive.  `Lives` adds where a request
  is in its life: until it is put into `seqs` its sequence is fresh, in `seqs` it is
  not closed and its handler streams or has gone, and a sequence in `seqs` always has
  inputs that wait or are pending.  With it an insert finds a free cache slot by the
  pigeon-hole principle, and `LoadCacheSlot` returns one whatever the slots hold.
* `RunnerPendingInOneBatch` (`PendingInOneBatch`) rests on `Locks` and `Pending`: the one
  batch that has not read its tokens is the latest, no batch is built before its
  computation has started, and `forwardBatch` meets every slot once: the slots ahead of
  its cursor, which wraps around, are those of the batch's own list of sequences and
  have nothing pending.
* `RunnerContextIsHistory`: `ContextIsHistory` holds whenever the model has a KV cache
  (`model.cacheEnabled`).  Without one it is false: the inputs of a context are all
  evaluated again for every token, and once they outgrow the batch the rest of them
  waits while the batch is pending.  `HistoryOf` says of three lists, cached, pending
  and left, that together they are the history of the first `n` inputs of a request; a
  lemma about lists for each operation says that it stays so (`HistoryBegins`,
  `HistoryFills`, `HistoryShifts`, `HistoryReads`).  That a full slot is shifted only in
  front of a single sampled token is part of it, and so is that a shift discards at
  least one input and none of those to keep (`ShiftedIs`).  What a step does to one
  sequence leaves the others their histories because no two have the same cache slot
  (`RunnerSlotPerPermit`).

`RunnerAnswerProofs` proves what the pipeline of batches is for.  Since the code breaks it
under some configurations (see above), the theorems name what must not happen, as state
predicates: `NeverEmpty` (`forwardBatch` hands on no batch without an input),
`NoneAtLimit` (it comes to no sequence past `num_predict`, or full and not to be shifted),
`Shiftable` (a full context it comes to shares no cell that must move).

* `RunnerBatchesInOrder` (`BatchesInOrder`) rests on `Order`: of the batches in flight one
  is the latest, and any other is the one it waits for.
* `RunnerTokensResolved` (`TokensResolved`) rests on `Sampled`, which follows a placeholder
  from the batch that predicts it to the batch that reads it: a token that is still open
  is awaited by a batch in flight, in the slot its sequence is in, and is wanted only by
  its own sequence and by the batch that waits for that one; every input in a cache slot
  has its token.
* `RunnerOwnAnswer` (`OwnAnswer`) rests on `Answers`: the number of tokens made for a
  sequence is that of its prompt, of the pieces sent or held back, and one if a batch owes
  it a token (`Due`); and while a batch owes a slot a token, the slot keeps its sequence, and the row
  the batch will read for it is that of the sequence's last input (`Handout`): only the
  decoding of that very batch ends the sequence.
* `RunnerNeverEmpty`: `NoneAtLimit` and `Shiftable` imply `NeverEmpty`.  `Sought` says that
  while a batch is empty a sequence lies ahead of the cursor, which starts anywhere and
  looks at every slot (`LooksAtAll`); the first one it meets finds room.
* `RunnerUnshared` and `RunnerUnlimited` discharge the conditions from the configuration:
  with one slot, or without copies of prefixes (`NothingShared` is an invariant then), every
  full context can be shifted, so that `NoneAtLimit` is all that is left; with no limits and
  `Shift` for all requests nothing is left, and the three properties hold of `Spec`.

Sequences are lists of unknown length, and the output of a request is a list of lists
(`FlattenSeq`, a fold of the community modules).  The lemmas about that fold argue by the
least counterexample, which needs no induction scheme: a set of numbers has a smallest
one by the library's theorem on finite sets and strict subsets (`Smallest`).

### llama.cpp runner (`LlamaRunnerProofs`)

For any requests and prompts, any number of sequences, any context, stream and batch
size, with and without the multi-user cache (`CacheAssumption`, `KVAssumption`,
`LlamaAssumption`), and for models without a sliding window (`NSwa = 0`; with one
`AttendsToText` is false, see above): `TypesKept` (`TypeOK`), `KvHoldsWhatTheSlotSays`
(`KvHoldsInputs`), `EveryTokenAttendsToItsText` (`AttendsToText`) and `NoBatchIsRefused`
(`NeverRefused`), the four properties of run `kv`.

* The invariant says for each slot what `KvHoldsInputs` says only of the inputs in the list:
  `Holds` has the used cells of a stream at positions `0 .. m - 1`, each once (`Fills`), and in
  each of them the key of the input at its place, in the data that the copies still put
  off will bring (`Eff`, `Matches`).  `m` is the length of the list while the slot is in use;
  behind a stop sequence the cells may hold more than the list.  `Owned` says that the slots
  in use are those of the sequences in `seqs`, one each.
* A prompt keeps this because a prefix of a slot's list is a prefix of its cells: a copy
  takes cells and data of the other stream, the one now, the other later
  (`CopiedIs`), and what is behind the prefix is removed (`PrefixIs`).
* A batch is followed through its loops.  `split_equal` takes the tokens of each sequence in
  order and all of them (`SplitIs`); a stream has an empty cell for every token that fits the
  context, so `find_slot` finds them (`SlotFound`, by counting the used cells); `apply_ubatch`
  adds the next positions and purges nothing (`ApplyFills`); what `prepare` tries is undone
  up to the heads (`PrepareIs`), so the ubatches fit again when they are computed; then each
  writes its keys and finds its own text (`WriteIs`, `ReadsText`, `DecodeIs`).
* A shift keeps `Fills` with fewer positions, and its put-off rotation is what the
  data lacks (`ShiftIs`, `MovedIs`); because `update` runs before anything is
  computed, no token sees the one without the other (`UpdatedIs`).  The batch then goes on where
  the cells end (`AcceptedIs`).

`prepare` restores a head from the stream numbered like the sequence's place in its ubatch.
The proof does without the heads: a search from any head finds the cells
it needs (`NearestExist`), so that this costs time and never a batch.

### Thread pool (`ThreadpoolProofs`)

For any number of threads and any graphs (`PoolAssumption`):

* `ThreadpoolTypeCorrect` (`TypeOK`) and `ThreadpoolResetIsPrivate` (`ResetIsPrivate`).
  The barrier keeps two counters and no list of who is where, so the invariant has to
  say it.  A thread that still spins at a barrier that has been opened counts as behind
  it (`Eff`).  `Counting`: `n_barrier` is the number of threads that wait, and the last to
  come finds all others waiting.  `Members`: only the threads of the current graph
  compute, and only while thread 0 does; a worker that has not noticed the graph holds
  up its first barrier, which is what keeps a late worker from joining a later graph's
  barrier.  `Together`: all of them are between the same two barriers.
* `ThreadpoolComputesInOrder` (`ComputesInOrder`): every behaviour of the pool is one of
  `GraphExec`.  `Progress` adds to `Together` which pieces of work are done when the
  threads are between those two barriers, for both phases of a matrix product and for a
  graph that is aborted; each step then is a step of `GraphExec` or none.

### Graph allocator (`GgmlAllocProofs`)

For any graphs, batch sizes, alignment, chunk sizes and number of rounds
(`AllocAssumption`, `GraphAssumption`):

* `FreeBlocksAlwaysSound` (`FreeBlocksSound`).  The property speaks of the blocks and of
  the tensors marked allocated; to be inductive it needs three things more, which `Sound`
  adds.  Every chunk is *tiled*: the spans of its free blocks and of the pieces its tensors
  hold do not overlap, and each begins at zero or where another ends.
  No two tensors hold the same piece, so that giving one back frees it once.  What
  a tensor holds is its aligned size and no block is empty, so that no two spans start at
  the same place.  `WalkSound` is that of the current chunks and hash while a graph is walked.
  The lemmas are about one step on one list: a block taken from the front (`Take`), a piece
  returned and joined with the first block it touches, or with both (`Freed`, `Merge`), the
  spare end of a parent returned while the node keeps its front (`free_extra_space`, which
  splits a piece; both parts are multiples of the alignment), and the choice of chunk and
  block (`FindBlock` always names a block that fits).
* `GraphFitsBuffer` (`FitsBuffer`).  A placed tensor ends below the `max_size` of its chunk,
  `max_size` never falls during a walk, and at the end of the walk every tensor has a place
  or its data elsewhere.  `PlanFits` carries that over to the plan: up to `size_max` each
  tensor is inside the buffer, whether the buffer was allocated again or an older, larger
  one kept, and `needs_realloc` compares the sizes of the batch at hand with `size_max`.

* `ReadsItsSourcesAlways` (`ReadsItsSources`), for graphs whose outputs are no views; the
  counterexample above shows that an output that is a view is not kept.  Two predicates of
  the walk carry it.  `Counted`: the number of children of a tensor is the number of places
  where it is still a source (`Uses`: of the nodes ahead, and of this one's sources those not
  let go yet), and the number of views at least that of its views still used; hence
  no count goes below zero.  `Alive`: a tensor that has given up its memory
  is `Dead`, no output and read by no node ahead, itself or through a view; and two tensors
  whose memory meets have it in turn (`Yields`): all readers of the one come before the node
  that is the other, or that node itself reads it last, works in place and has the same address.
  The last point is why `allocate_node` may take over memory while its source is still
  being read.  `PlanInTurn` is `Alive` at the end of the walk, said of the plan; it is about
  addresses and the order of the graph only, so it stays true when the plan serves another
  batch with smaller tensors.  `Kept` then says of the computation that
  a tensor someone will still read holds its value.

The walk of one node is three loops over sources (`ForEach`, a recursive function on the
positions).  What a loop keeps is proved by hand, without an induction scheme: `LoopExists`
gives the function its recursive equation, and if some position broke the invariant the
smallest one that does would have a predecessor that does not.

### Download (`DownloadProofs`)

For any number of pulls, any size of the blob and its parts, any number of retries,
faults and crashes (`DownloadAssumption`): `DownloadTypeCorrect` (`TypeOK`),
`DownloadSingleWriter`, `DownloadResumeSound` and `DownloadStoreSound`.  The invariant
has three layers.  `Typed` says which goroutine is at which stage and that one download
at a time is in the manager, so one process writes a partial file.  `Work` says that a
part file never records more than has reached the partial file, whatever interrupts the
run, and that a run counts a part as complete only when its bytes are there.  `BlobSound`
carries this over to the renamed blob and to the manifest.  The parts are shown to be
disjoint and to cover the blob, for every size.

### Only model-checked

* Of the runner server `TypeOK`, which contains the bound of the model's sampler.  `NoPanic`
  is no property of the code: `stop_shift` breaks it, and so do the reprocessing of a
  context and completions of a model without a KV cache whose context outgrows the batch.
* Of the allocator `TypeOK`.  That no count goes below zero is part of the proof
  (`Counted`); that there are never more than `MaxChunks` chunks is not, as it needs the sizes of
  all tensors together to stay below `Endless`.
* All liveness: `RequestsAnswered`, `IdleRunnerUnloaded`, `EveryRequestEnds`,
  `GoneIsRemoved`, `CallsReturn` and `PreparedEnds` depend on fairness and ENABLED,
  which this prover does not handle.

## Not modelled

The numeric code (tensors, quantisation, the operations of the backends, samplers,
model graphs) has no state a model checker could explore; it is most of the
repository's lines.  GPU backends, discovery, conversion, templates, the command line
and the user interface are sequential translation or input and output.  Of the
components with state, these are left: the causal cache of `kvcache/` (only what
sharing forbids is in `InputCache`), the runner process client, uploads, the new
registry client with its chunked cache, creation, copying and deletion of models, the
stop-string and streaming parsers, and the desktop app's supervisor.

## Plan

1. Proofs: `AttendsToText` of the llama.cpp runner with a sliding window and no shift.
2. Causal cache: cells, ranges, sliding windows, composed with `InputCache` in place of
   `shared`.
3. Runner process client: `Close` against `WaitUntilRunning`; an abstract lease
   specification that `Scheduler` implements while `~stale`.
4. Stop sequences and streaming parsers against reference definitions; deletion and
   pruning of layers against concurrent pulls; upload.
